------------------------------ MODULE DayLimit ------------------------------
(***************************************************************************)
(* How much time a user has on a day (hub/timekpr_hub/services/limits.py), *)
(* who changes it (api/admin/users.py, api/ui/overrides.py, api/ui/        *)
(* dashboard.py, api/ui/users.py) and who computes it: a device's sync     *)
(* (api/sync.py) and the pages (services/summaries.py).                    *)
(*                                                                         *)
(* The limit is computed from five rows of one user: his policy and the    *)
(* gated weekdays (the row of users), the grants, the override and the     *)
(* release of the day.  Every change is one short transaction, every       *)
(* computation reads row after row at READ COMMITTED.  A sync holds the    *)
(* user's row FOR UPDATE: that keeps out updates of the row and, because   *)
(* the foreign key of a new row locks the user it names, inserts of        *)
(* grants, overrides and releases; replacing an override, and deleting an  *)
(* override or a release, go on meanwhile.                                 *)
(***************************************************************************)
EXTENDS Integers, FiniteSets

CONSTANTS
    Devices,        \* report the user and are told his limit
    Pages,          \* subset of {"dashboard", "statistics"}: pages being computed
    Policies,       \* the daily limits a policy may have: by weekday
    Gates,          \* the sets of gated weekdays
    Overrides,      \* limits for one date
    Bonuses,        \* seconds of a grant; may be negative
    Week,           \* weekdays are 1..Week (7 in the code)
    MaxDay,         \* bound: days are 0..MaxDay
    MaxChanges,     \* bound: changes an administrator makes
    None

Days == 0..MaxDay
Weekdays == 1..Week
Readers == Devices \cup Pages

ASSUME DayLimitAssumption ==
    /\ Week \in Nat \ {0} /\ MaxDay \in Nat /\ MaxChanges \in Nat
    /\ Pages \subseteq {"dashboard", "statistics"} /\ Devices \cap Pages = {}
    /\ Policies \subseteq [Weekdays -> Nat] /\ Gates \subseteq SUBSET Weekdays
    /\ Overrides \subseteq Nat /\ Bonuses \subseteq Int
    /\ None \notin Nat \cup Readers \cup [device: Devices, day: Days]

VARIABLES
    day,            \* today, in the hub's time zone
    user,           \* the row of users: [limits, gated]
    grants,         \* sum of the grants of each day
    override,       \* the override of each day, or None
    released,       \* the days with a row in gate_releases
    owner,          \* the sync that holds the user's row, or None
    pc, tx,         \* each computation and what it has read
    told,           \* the last answer of each device: [day, limit], or None
    changes,        \* number of changes made
    seen,           \* history: what has been in force since a computation began
    crossed         \* history: changes committed since a page's began

rows == <<user, grants, override, released>>
history == <<changes, seen, crossed>>
vars == <<day, rows, owner, pc, tx, told, history>>

Row == [limits: Policies, gated: Gates]
NoTx == [day |-> 0, user |-> None, base |-> None, grants |-> None]

TypeOK ==
    /\ day \in Days /\ user \in Row
    /\ grants \in [Days -> Int] /\ override \in [Days -> Overrides \cup {None}]
    /\ released \subseteq Days
    /\ owner \in Devices \cup {None}
    /\ pc \in [Readers -> {"idle", "asked", "user", "grants", "override"}]
    /\ \A r \in Readers : tx[r].day \in Days /\ tx[r].user \in Row \cup {None}
    /\ \A v \in Devices : owner = v <=> pc[v] \in {"user", "override", "grants"}
    /\ changes \in 0..MaxChanges /\ crossed \in [Pages -> 0..MaxChanges]

-----------------------------------------------------------------------------
(***************************************************************************)
(* The formula.                                                            *)
(***************************************************************************)
Weekday(d) == (d % Week) + 1

\* Mutant: the weekday after.
BaseNextDay(row, d) == row.limits[((d + 1) % Week) + 1]

\* base_daily_limit and is_gated_weekday.
BaseDailyLimit(row, d) == row.limits[Weekday(d)]
IsGatedWeekday(row, d) == Weekday(d) \in row.gated

\* combine_limit.
CombineLimit(base, bonus, gated, free) ==
    IF (gated /\ ~free) \/ base + bonus < 0 THEN 0 ELSE base + bonus

\* What an administrator has asked for: the limit the rows of this moment amount to.
InForce(d) ==
    LET base == IF override[d] = None THEN user.limits[Weekday(d)] ELSE override[d]
        total == base + grants[d]
    IN  IF (Weekday(d) \in user.gated /\ d \notin released) \/ total < 0 THEN 0 ELSE total

Init ==
    /\ day = 0 /\ user \in Row
    /\ grants = [d \in Days |-> 0] /\ override = [d \in Days |-> None] /\ released = {}
    /\ owner = None
    /\ pc = [r \in Readers |-> "idle"] /\ tx = [r \in Readers |-> NoTx]
    /\ told = [v \in Devices |-> None]
    /\ changes = 0
    /\ seen = [r \in Readers |-> {}] /\ crossed = [p \in Pages |-> 0]

-----------------------------------------------------------------------------
(***************************************************************************)
(* What an administrator does, with the API or with a form.  Days are      *)
(* free in the API; the dashboard's buttons are for the day of the request *)
(* and its forms for the day written in the page.                          *)
(***************************************************************************)
\* The days a computation is about: the statistics go back, the others are for today.
DaysOf(r, d) == IF r = "statistics" THEN 0..d ELSE {d}

InForceOn(days) == [d \in days |-> InForce(d)]

Committed ==
    /\ changes < MaxChanges /\ changes' = changes + 1
    /\ crossed' = [p \in Pages |-> IF pc[p] = "idle" THEN 0 ELSE crossed[p] + 1]
    /\ seen' = [r \in Readers |->
                   IF seen[r] = {} THEN {}
                   ELSE seen[r] \cup {InForceOn(days)' : days \in {DaysOf(r, tx[r].day)}}]
    /\ UNCHANGED <<day, owner, pc, tx, told>>

\* Nobody holds the user's row, so it can be updated.
RowFree == owner = None

\* A new row waits for the user it names.
MayInsert == RowFree

UpdatePolicy(limits) ==
    /\ RowFree /\ limits # user.limits
    /\ user' = [user EXCEPT !.limits = limits]
    /\ UNCHANGED <<grants, override, released>> /\ Committed

UpdateSettings(gated) ==
    /\ RowFree /\ gated # user.gated
    /\ user' = [user EXCEPT !.gated = gated]
    /\ UNCHANGED <<grants, override, released>> /\ Committed

CreateGrant(d, seconds) ==
    /\ MayInsert
    /\ grants' = [grants EXCEPT ![d] = @ + seconds]
    /\ UNCHANGED <<user, override, released>> /\ Committed

\* An upsert: replacing the row there is does not touch its foreign key.
SetDayOverride(d, limit) ==
    /\ override[d] = None => MayInsert
    /\ override[d] # limit
    /\ override' = [override EXCEPT ![d] = limit]
    /\ UNCHANGED <<user, grants, released>> /\ Committed

ClearDayOverride(d) ==
    /\ override[d] # None
    /\ override' = [override EXCEPT ![d] = None]
    /\ UNCHANGED <<user, grants, released>> /\ Committed

ReleaseGate(d) ==
    /\ d \notin released /\ MayInsert
    /\ released' = released \cup {d}
    /\ UNCHANGED <<user, grants, override>> /\ Committed

UnreleaseGate(d) ==
    /\ d \in released
    /\ released' = released \ {d}
    /\ UNCHANGED <<user, grants, override>> /\ Committed

Administer ==
    \/ \E limits \in Policies : UpdatePolicy(limits)
    \/ \E gated \in Gates : UpdateSettings(gated)
    \/ \E d \in Days :
          \/ \E seconds \in Bonuses : CreateGrant(d, seconds)
          \/ \E limit \in Overrides : SetDayOverride(d, limit)
          \/ ClearDayOverride(d) \/ ReleaseGate(d) \/ UnreleaseGate(d)

-----------------------------------------------------------------------------
(***************************************************************************)
(* A computation: one row after the other.                                 *)
(***************************************************************************)
Begin(r) == seen' = [seen EXCEPT ![r] = {InForceOn(DaysOf(r, tx'[r].day))}]

\* Mutant: the day is the one on which the hub was started.
ReadUserNoStamp(r, step) ==
    /\ pc' = [pc EXCEPT ![r] = step]
    /\ tx' = [tx EXCEPT ![r].user = user]

ReadUser(r, step) ==
    /\ pc' = [pc EXCEPT ![r] = step]
    /\ tx' = [tx EXCEPT ![r].user = user, ![r].day = IF pc[r] = "idle" THEN day ELSE @]

ReadOverrides(r) ==
    /\ pc' = [pc EXCEPT ![r] = "override"]
    /\ tx' = [tx EXCEPT ![r].base =
                  [d \in DaysOf(r, tx[r].day) |->
                      IF override[d] = None THEN BaseDailyLimit(tx[r].user, d)
                      ELSE override[d]]]
    /\ UNCHANGED <<day, rows, owner, told, history>>

ReadGrants(r) ==
    /\ pc' = [pc EXCEPT ![r] = "grants"]
    /\ tx' = [tx EXCEPT ![r].grants = [d \in DaysOf(r, tx[r].day) |-> grants[d]]]
    /\ UNCHANGED <<day, rows, owner, told, history>>

\* With the releases, read last, the limits are complete.
Computed(r) ==
    [d \in DaysOf(r, tx[r].day) |->
        CombineLimit(tx[r].base[d], tx[r].grants[d], IsGatedWeekday(tx[r].user, d),
                     d \in released)]

Finish(r) ==
    /\ pc' = [pc EXCEPT ![r] = "idle"] /\ tx' = [tx EXCEPT ![r] = NoTx]
    /\ seen' = [seen EXCEPT ![r] = {}]

(***************************************************************************)
(* A device's sync.                                                        *)
(***************************************************************************)
\* The day is stamped and the user looked up, without a lock.
Ask(v) ==
    /\ pc[v] = "idle" /\ ReadUser(v, "asked")
    /\ UNCHANGED <<day, rows, owner, told, history>>

\* Mutant: without populate_existing the row read before the lock is kept.
LockStale(v) ==
    /\ pc[v] = "asked" /\ RowFree
    /\ owner' = v /\ pc' = [pc EXCEPT ![v] = "user"] /\ tx' = tx /\ Begin(v)
    /\ UNCHANGED <<day, rows, told, changes, crossed>>

\* get_or_create_policy.
Lock(v) ==
    /\ pc[v] = "asked" /\ RowFree
    /\ owner' = v /\ ReadUser(v, "user") /\ Begin(v)
    /\ UNCHANGED <<day, rows, told, changes, crossed>>

\* effective_daily_limit.
EffectiveDailyLimit(v) ==
    \/ pc[v] = "user" /\ ReadOverrides(v)
    \/ pc[v] = "override" /\ ReadGrants(v)

\* Mutant: the transaction stays open.
AnswerUncommitted(v) ==
    /\ pc[v] = "grants"
    /\ told' = [told EXCEPT ![v] = [day |-> tx[v].day, limit |-> Computed(v)[tx[v].day]]]
    /\ Finish(v)
    /\ UNCHANGED <<day, rows, owner, changes, crossed>>

\* The rest of the sync reads nothing of this, commits and answers.
Answer(v) ==
    /\ pc[v] = "grants"
    /\ told' = [told EXCEPT ![v] = [day |-> tx[v].day, limit |-> Computed(v)[tx[v].day]]]
    /\ owner' = None /\ Finish(v)
    /\ UNCHANGED <<day, rows, changes, crossed>>

(***************************************************************************)
(* A page.  Nothing is locked while it is computed; the statistics take    *)
(* the user's row for a moment to make sure there is a policy.             *)
(***************************************************************************)
OpenPage(p) ==
    /\ pc[p] = "idle" /\ (p = "statistics" => RowFree)
    /\ ReadUser(p, "user") /\ Begin(p)
    /\ UNCHANGED <<day, rows, owner, told, changes, crossed>>

ComputePage(p) ==
    \/ pc[p] = "user" /\ ReadGrants(p)
    \/ pc[p] = "grants" /\ ReadOverrides(p)

\* The figures are Computed(p); the page keeps them, the hub does not.
ShowPage(p) ==
    /\ pc[p] = "override"
    /\ crossed' = [crossed EXCEPT ![p] = 0] /\ Finish(p)
    /\ UNCHANGED <<day, rows, owner, told, changes>>

-----------------------------------------------------------------------------
Midnight ==
    /\ day < MaxDay /\ day' = day + 1
    /\ UNCHANGED <<rows, owner, pc, tx, told, history>>

Sync(v) == Ask(v) \/ Lock(v) \/ EffectiveDailyLimit(v) \/ Answer(v)
Compute(p) == OpenPage(p) \/ ComputePage(p) \/ ShowPage(p)

Next ==
    \/ Administer \/ Midnight
    \/ \E v \in Devices : Sync(v)
    \/ \E p \in Pages : Compute(p)

\* Devices sync for ever, and the server gets on with what it has begun.  Who waits
\* for a locked row is queued: it is strongly fair to each.
Fairness ==
    \A v \in Devices :
        /\ WF_vars(Ask(v)) /\ WF_vars(EffectiveDailyLimit(v)) /\ WF_vars(Answer(v))
        /\ SF_vars(Lock(v))

Spec == Init /\ [][Next]_vars /\ Fairness

-----------------------------------------------------------------------------
\* limits.py: "a gated or overridden day reads the same everywhere".  The five rows
\* are one register: whatever is changed while a sync reads them, the device is told
\* a limit that was in force as the sync held the user's row.
Register == INSTANCE LimitRegister WITH
    limit <- [d \in Days |-> InForce(d)],
    reading <- IF owner = None THEN None ELSE [device |-> owner, day |-> tx[owner].day],
    seen <- IF owner = None THEN {} ELSE {limits[tx[owner].day] : limits \in seen[owner]}

OneRegister == Register!Spec

\* A page holds no lock, so it may mix what was in force before a change with what was
\* in force after another; with no more than one change while it is computed, its
\* figures are those of one moment, the past days of the statistics included.
PageIsOneMoment ==
    [][\A p \in Pages :
          pc[p] = "override" /\ pc'[p] = "idle" /\ crossed[p] < 2 => Computed(p) \in seen[p]]_vars

\* When the changes stop, every device is told, and then keeps being told, the limit
\* that is in force for the day it is.
DevicesLearnTheLimit ==
    <>[](\A v \in Devices : told[v] = [day |-> day, limit |-> InForce(day)])
=============================================================================
