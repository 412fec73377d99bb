----------------------------- MODULE AgentTick -----------------------------
(***************************************************************************)
(* One managed user on one device: the agent's tick loop (agent/           *)
(* timekpr_hub_agent/tick.py and cli.py), its state file (state.py), the   *)
(* timekpr daemon it reads and writes, and as much of the hub as answers   *)
(* a sync (hub/timekpr_hub/api/sync.py).                                   *)
(*                                                                         *)
(* A tick is not atomic.  What timekpr shows is read, the request is sent, *)
(* the answer comes back or does not, timekpr is written and only then is  *)
(* state.json saved; the user goes on using the machine meanwhile, each of *)
(* three midnights (the device's own, the household's by the agent's clock *)
(* and by the hub's) may pass, and the agent may be restarted from disk.   *)
(*                                                                         *)
(* The activity spans run_tick also builds are modelled in UsageLedger:    *)
(* nothing here reads them.                                                *)
(***************************************************************************)
EXTENDS Convergence, TimekprDaemon

CONSTANTS
    Limits,             \* daily limits a policy or a device may hold
    Grants,             \* bonus seconds an admin may have granted today
    HubOfflinePolicy,   \* User.offline_policy: "open", "capped" or "closed"
    Wallclock,          \* User.accounting_mode = "wallclock"
    GraceS, CapS,       \* User.offline_grace_s, User.offline_cap_s
    MaxDay,             \* bound: canonical days are 0..MaxDay
    MaxNow,             \* bound: seconds that pass
    MaxOther,           \* bound: seconds used on other devices, per day
    MaxFaults,          \* bound: lost messages, refused writes and crashes
    MaxAdmin            \* bound: changes made by an admin

ASSUME AgentTickAssumption ==
    /\ Limits \subseteq Nat
    /\ Grants \subseteq Nat
    /\ 0 \in Grants
    /\ HubOfflinePolicy \in {"open", "capped", "closed"}
    /\ Wallclock \in BOOLEAN
    /\ {GraceS, CapS, MaxDay, MaxNow, MaxOther, MaxFaults, MaxAdmin} \subseteq Nat

\* The flush artifact must never look like a rollover.
ASSUME FlushWithinTolerance == SaveIntervalS <= RegressionToleranceS

VARIABLES
    daemon,     \* timekprd
    now,        \* seconds since the start
    localDay,   \* the day by the device's own clock and zone
    agentDay,   \* _canonical_day_str by the agent's clock
    hubDay,     \* canonical_stamp by the hub's clock
    pc,         \* where the tick loop is
    tick,       \* what run_tick holds in locals: the observation and force_absolute
    mem,        \* AgentState.users[u] in the running process
    disk,       \* the same in state.json
    reply,      \* the hub's answer, while it is under way
    counter,    \* usage_counters of this user and device, by day
    other,      \* today's use on the user's other devices, as the hub knows it
    policy,     \* the standing daily limit
    grant,      \* today's bonus
    mode,       \* Device.enforcement
    status,     \* Device.status
    faults, admin,          \* how much of the two budgets is used
    chargeable, misbooked, lost     \* history: see "What the agent may charge"

hubVars == <<hubDay, counter, other, policy, grant, mode, status>>
clockVars == <<now, localDay, agentDay>>
historyVars == <<chargeable, misbooked, lost>>
vars == <<daemon, clockVars, pc, tick, mem, disk, reply, hubVars, faults, admin, historyVars>>

-----------------------------------------------------------------------------
Day == 0..MaxDay
NoDay == -1
Never == -1         \* last_hub_contact_utc = 0.0
NoPolicy == -1      \* no payload in the answer; policy_revision_applied = ""
Instructions == {"enforce", "observe"}

\* state.py's UserState, without applied_offset_s (written, never read) and the
\* span fields.  A policy revision is a hash of the payload, so "applied" is the
\* payload itself.  atContact is history: the day of the last contact, and what had
\* really been used of it then.
FreshUserState ==
    [day |-> NoDay, cum |-> 0, raw |-> 0, applied |-> NoPolicy, enforcement |-> "",
     limit |-> 0, spent |-> 0, contact |-> Never, cumAtContact |-> 0,
     offline |-> "capped", atContact |-> [day |-> NoDay, used |-> 0]]

UserState ==
    [day: Day \cup {NoDay}, cum: Nat, raw: Nat, applied: Limits \cup {NoPolicy},
     enforcement: Instructions \cup {"", "revoked"}, limit: Nat, spent: Nat,
     contact: Nat \cup {Never}, cumAtContact: Nat,
     offline: {"open", "capped", "closed"},
     atContact: [day: Day \cup {NoDay}, used: Nat]]

\* used is history: what had really been used of the day at the observation.
Tick == [balance: Int, spent: Nat, limit: Nat, force: BOOLEAN, at: Nat, used: Nat]
Reply == [limit: Nat, spent: Nat, enforcement: Instructions,
          policy: Limits \cup {NoPolicy}]

NoTick == [balance |-> 0, spent |-> 0, limit |-> 0, force |-> FALSE, at |-> 0, used |-> 0]
NoReply == [limit |-> 0, spent |-> 0, enforcement |-> "enforce", policy |-> NoPolicy]

TypeOK ==
    /\ daemon \in [balance: Int, spent: Nat, saved: Nat, limit: Nat]
    /\ now \in Nat /\ localDay \in Day /\ agentDay \in Day /\ hubDay \in Day
    /\ pc \in {"idle", "sent", "replied", "save"}
    /\ tick \in Tick
    /\ mem \in UserState /\ disk \in UserState
    /\ reply \in Reply
    /\ counter \in [Day -> Nat] /\ other \in Nat
    /\ policy \in Limits /\ grant \in Grants
    /\ mode \in Instructions /\ status \in {"active", "revoked"}
    /\ faults \in Nat /\ admin \in Nat
    /\ chargeable \in [Day -> Nat] /\ misbooked \subseteq Day /\ lost \in Nat

Init ==
    /\ \E limit \in Limits :
         daemon = [balance |-> 0, spent |-> 0, saved |-> 0, limit |-> limit]
    /\ now = 0 /\ localDay = 0 /\ agentDay = 0 /\ hubDay = 0
    /\ pc = "idle" /\ tick = NoTick /\ reply = NoReply
    /\ mem = FreshUserState /\ disk = FreshUserState
    /\ counter = [d \in Day |-> 0] /\ other = 0
    /\ policy \in Limits /\ grant = 0 /\ mode = "enforce" /\ status = "active"
    /\ faults = 0 /\ admin = 0
    /\ chargeable = [d \in Day |-> 0] /\ misbooked = {} /\ lost = 0

-----------------------------------------------------------------------------
(***************************************************************************)
(* The tick.                                                               *)
(***************************************************************************)
FirstTick(u) == u.day = NoDay
DayRolledOver(u) == u.day # NoDay /\ u.day # agentDay

\* Mutant: what timekpr showed before enrollment is forgiven.
MeasureForgiving(u, spent) ==
    IF u.day = agentDay THEN AdvanceCumulative([cum |-> u.cum, raw |-> u.raw], spent)
    ELSE ResetForNewCanonicalDay(spent)

\* The cumulative counter after timekpr shows spent.
Measure(u, spent) ==
    CASE FirstTick(u) -> [cum |-> spent, raw |-> spent]
      [] DayRolledOver(u) -> ResetForNewCanonicalDay(spent)
      [] OTHER -> AdvanceCumulative([cum |-> u.cum, raw |-> u.raw], spent)

\* run_tick up to hub.sync: read timekpr, advance the counter, send.
Observe ==
    /\ pc = "idle"
    /\ LET acc == Measure(mem, daemon.spent)
       IN  mem' = [mem EXCEPT !.day = agentDay, !.cum = acc.cum, !.raw = acc.raw]
    /\ chargeable' = IF FirstTick(mem)
                     THEN [chargeable EXCEPT ![agentDay] = Larger(@, daemon.spent)]
                     ELSE chargeable
    /\ tick' = [balance |-> daemon.balance, spent |-> daemon.spent,
                limit |-> daemon.limit,
                force |-> FirstTick(mem) \/ DayRolledOver(mem), at |-> now,
                used |-> chargeable'[agentDay]]
    /\ pc' = "sent"
    /\ lost' = IF DayRolledOver(mem) THEN chargeable[agentDay] ELSE lost
    /\ UNCHANGED <<daemon, clockVars, disk, reply, hubVars, faults, admin, misbooked>>

\* Mutant: reports are added up.
BookedSum(day, cum) == [counter EXCEPT ![day] = @ + cum]

\* upsert_usage_counter: GREATEST of the row and the report.
Booked(day, cum) == [counter EXCEPT ![day] = Larger(@, cum)]

\* The hub's total for its own today: a sum of the devices' counters, or the
\* union of their activity, which lies between the largest and the sum.
GlobalSpent(own, elsewhere) ==
    IF Wallclock THEN Larger(own, elsewhere)..(own + elsewhere) ELSE {own + elsewhere}

\* POST /sync on the hub, one transaction.
HubSync ==
    /\ pc = "sent"
    /\ status = "active"
    /\ counter' = Booked(hubDay, mem.cum)
    /\ \E total \in GlobalSpent(counter'[hubDay], other) :
         reply' = [limit |-> policy + grant, spent |-> total, enforcement |-> mode,
                   policy |-> IF mem.applied = policy THEN NoPolicy ELSE policy]
    /\ misbooked' = IF mem.day = hubDay THEN misbooked ELSE misbooked \cup {hubDay}
    /\ pc' = "replied"
    /\ UNCHANGED <<daemon, clockVars, tick, mem, disk, hubDay, other, policy, grant,
                   mode, status, faults, admin, chargeable, lost>>

\* run_tick returns: its locals are gone.
Return == pc' = "save" /\ tick' = NoTick /\ reply' = NoReply

\* What the answer leaves in the user's state before anything is written.
AfterContact(u) ==
    [u EXCEPT !.limit = reply.limit, !.spent = reply.spent, !.contact = tick.at,
              !.cumAtContact = u.cum, !.offline = HubOfflinePolicy,
              !.enforcement = reply.enforcement,
              !.atContact = [day |-> u.day, used |-> tick.used]]

\* _apply_convergence on device d; set_time_left may be refused.
Converge(d, target, force, accepted) ==
    LET plan == Plan(tick, target, force)
    IN  IF accepted THEN SetTimeLeft(d, plan.op, plan.seconds) ELSE d

\* Mutant: the policy of every answer is remembered as applied.
AppliedAlways(u, pushed) == IF reply.policy # NoPolicy THEN reply.policy ELSE u.applied

\* Only a push whose every write succeeded is remembered as applied.
Applied(u, pushed) ==
    IF reply.policy # NoPolicy /\ pushed THEN reply.policy ELSE u.applied

\* The device after the policy push, of whose setters only the limit matters here.
Pushed(d, pushed) ==
    IF reply.policy # NoPolicy /\ pushed THEN SetLimit(d, reply.policy) ELSE d

\* The HubTarget of the answer.
Answer == [limit |-> reply.limit, spent |-> reply.spent]

\* A step that may go wrong uses up one fault when it does.
Spend(ok) == /\ ok \/ faults < MaxFaults
             /\ faults' = IF ok THEN faults ELSE faults + 1

\* The answer of an observing hub: compute and log, touch nothing.
ApplyObserve ==
    /\ pc = "replied" /\ reply.enforcement = "observe"
    /\ mem' = AfterContact(mem)
    /\ Return
    /\ UNCHANGED <<daemon, clockVars, disk, hubVars, faults, admin, historyVars>>

\* The answer of an enforcing hub: push the policy it carries, then converge
\* from the observation made before the push.
ApplyEnforce(pushed, accepted) ==
    /\ pc = "replied" /\ reply.enforcement = "enforce"
    /\ Spend(pushed /\ accepted)
    /\ mem' = [AfterContact(mem) EXCEPT !.applied = Applied(mem, pushed)]
    /\ daemon' = Converge(Pushed(daemon, pushed), Answer, tick.force, accepted)
    /\ lost' = lost + (daemon.spent - daemon'.spent)
    /\ Return
    /\ UNCHANGED <<clockVars, disk, hubVars, admin, chargeable, misbooked>>

\* DeviceRevokedError: leave timekpr as it is.
Relinquish ==
    /\ pc = "sent" /\ status = "revoked"
    /\ mem' = [mem EXCEPT !.enforcement = "revoked"]
    /\ Return
    /\ UNCHANGED <<daemon, clockVars, disk, hubVars, faults, admin, historyVars>>

InGrace(u) == u.contact # Never /\ tick.at - u.contact < GraceS

EstimatedSpent(u) == u.spent + Larger(u.cum - u.cumAtContact, 0)

\* Mutant: the ceiling follows the estimate, so it never binds.
OfflineTargetLive(u) ==
    [limit |-> Smaller(u.limit, EstimatedSpent(u) + CapS), spent |-> EstimatedSpent(u)]

OfflineTarget(u) ==
    IF u.offline = "capped"
    THEN [limit |-> Smaller(u.limit, u.spent + CapS), spent |-> EstimatedSpent(u)]
    ELSE [limit |-> tick.limit, spent |-> tick.limit]

\* HubUnreachableError: the request or the answer was lost, so the hub may or
\* may not have booked this tick.
Unreachable(accepted) ==
    /\ pc \in {"sent", "replied"}
    /\ faults < MaxFaults
    /\ faults' = faults + 1
    /\ daemon' = IF mem.offline = "open" \/ InGrace(mem) THEN daemon
                 ELSE Converge(daemon, OfflineTarget(mem), FALSE, accepted)
    /\ lost' = lost + (daemon.spent - daemon'.spent)
    /\ Return
    /\ UNCHANGED <<clockVars, mem, disk, hubVars, admin, chargeable, misbooked>>

\* state_mod.save and the sleep until the next tick.
Save ==
    /\ pc = "save"
    /\ disk' = mem
    /\ pc' = "idle"
    /\ UNCHANGED <<daemon, clockVars, tick, mem, reply, hubVars, faults, admin, historyVars>>

\* The process dies and systemd starts it again.
Crash ==
    /\ faults < MaxFaults
    /\ faults' = faults + 1
    /\ mem' = disk
    /\ pc' = "idle" /\ tick' = NoTick /\ reply' = NoReply
    /\ UNCHANGED <<daemon, clockVars, disk, hubVars, admin, historyVars>>

-----------------------------------------------------------------------------
(***************************************************************************)
(* What goes on around the tick.                                           *)
(***************************************************************************)
Elapse ==
    /\ now < MaxNow
    /\ now' = now + 1
    /\ UNCHANGED <<localDay, agentDay, pc, tick, mem, disk, reply, hubVars, faults,
                   admin, misbooked, lost>>
    /\ \/ UNCHANGED <<daemon, chargeable>>
       \/ /\ \E save \in BOOLEAN : daemon' = ActiveSecond(daemon, save)
          /\ chargeable' = [chargeable EXCEPT ![agentDay] = @ + 1]

OtherDevice ==
    /\ other < MaxOther
    /\ other' = other + 1
    /\ UNCHANGED <<daemon, clockVars, pc, tick, mem, disk, reply, hubDay, counter,
                   policy, grant, mode, status, faults, admin, historyVars>>

LocalMidnight ==
    /\ localDay < MaxDay /\ localDay <= agentDay
    /\ localDay' = localDay + 1
    /\ daemon' = RolloverDay(daemon)
    /\ UNCHANGED <<now, agentDay, pc, tick, mem, disk, reply, hubVars, faults, admin,
                   historyVars>>

AgentMidnight ==
    /\ agentDay < MaxDay /\ agentDay <= hubDay
    /\ agentDay' = agentDay + 1
    /\ UNCHANGED <<daemon, now, localDay, pc, tick, mem, disk, reply, hubVars, faults,
                   admin, historyVars>>

\* A grant is a bonus for one day, and the other devices start again from zero.
HubMidnight ==
    /\ hubDay < MaxDay /\ hubDay <= agentDay
    /\ hubDay' = hubDay + 1
    /\ grant' = 0 /\ other' = 0
    /\ UNCHANGED <<daemon, clockVars, pc, tick, mem, disk, reply, counter, policy,
                   mode, status, faults, admin, historyVars>>

\* An admin edits the policy, grants a bonus, switches the device between
\* enforce and observe, or revokes it.
Admin ==
    /\ admin < MaxAdmin
    /\ admin' = admin + 1
    /\ \/ policy' \in Limits /\ UNCHANGED <<grant, mode, status>>
       \/ grant' \in Grants /\ UNCHANGED <<policy, mode, status>>
       \/ mode' \in Instructions /\ UNCHANGED <<policy, grant, status>>
       \/ status' = "revoked" /\ UNCHANGED <<policy, grant, mode>>
    /\ UNCHANGED <<daemon, clockVars, pc, tick, mem, disk, reply, hubDay, counter, other,
                   faults, historyVars>>

AgentStep ==
    \/ Observe
    \/ ApplyObserve
    \/ \E pushed, accepted \in BOOLEAN : ApplyEnforce(pushed, accepted)
    \/ Relinquish
    \/ \E accepted \in BOOLEAN : Unreachable(accepted)
    \/ Save

Next ==
    \/ AgentStep
    \/ HubSync
    \/ Crash
    \/ Elapse \/ OtherDevice
    \/ LocalMidnight \/ AgentMidnight \/ HubMidnight
    \/ Admin

Spec == Init /\ [][Next]_vars

\* The loop of _cmd_run never stops by itself and systemd restarts it
\* (Restart=always); the hub answers what reaches it.  Nothing is assumed of the
\* user, the clocks, the admin or the network.
Fairness ==
    /\ WF_vars(Observe)
    /\ WF_vars(HubSync)
    /\ WF_vars(ApplyObserve)
    /\ WF_vars(\E pushed, accepted \in BOOLEAN : ApplyEnforce(pushed, accepted))
    /\ WF_vars(Relinquish)
    /\ WF_vars(Save)

FairSpec == Spec /\ Fairness

-----------------------------------------------------------------------------
(***************************************************************************)
(* What the agent may charge.  chargeable[d] is the use of this device on  *)
(* day d: the seconds it was active while the agent's clock said d or, on  *)
(* the day it was enrolled, what timekpr already showed ("credit whatever  *)
(* timekpr already shows as spent today", tick.py).  misbooked holds the   *)
(* days on which the hub took a report the agent had measured for another. *)
(* lost is how much of today's use may have escaped measurement: what an   *)
(* '=' write made timekpr forget, and on the first tick of a new day what  *)
(* the user had spent since midnight.                                      *)
(***************************************************************************)

\* However the '=' write makes timekpr's counter jump back, and wherever the
\* agent is killed, neither the running process nor state.json ever holds more
\* seconds for today than the user spent (advance_cumulative never credits a
\* second twice).
NeverOvercharges ==
    \A u \in {mem, disk} : u.day = agentDay => u.cum <= chargeable[agentDay]

\* ... and the other way round: until the device's own midnight passes, no second of
\* today is forgotten but those.  A tick that was interrupted anywhere is made up
\* for by the next, from memory or from disk.
UseIsCounted ==
    \A u \in {mem, disk} :
        localDay = 0 /\ u.day \in {agentDay, NoDay}
        => chargeable[agentDay] <= Measure(u, daemon.spent).cum + lost

\* The hub's counter for a day holds at most that day's use, as long as every
\* report it took that day was measured on it (upsert_usage_counter).
HubBooksOnlyRealUse ==
    \A d \in Day \ misbooked : counter[d] <= chargeable[d]

\* Since the observation the user at most went on using the device.
Drift == daemon.balance - tick.balance
Undisturbed ==
    /\ daemon.limit = tick.limit
    /\ Drift >= 0
    /\ Drift = daemon.spent - tick.spent

\* What the target asks for can be expressed by a balance.
WithinADay(target) == TargetBalance(tick, target) \in -DayS..DayS

\* An enforced tick leaves the user what the hub said is left, to within the
\* deadband and the seconds used while the answer was under way, although the
\* plan is made from an observation older than the write.
LandsOnTarget ==
    [][ /\ ApplyEnforce(TRUE, TRUE)
        /\ Undisturbed /\ daemon'.limit = daemon.limit /\ WithinADay(Answer)
        => /\ TimeLeft(daemon') <= reply.limit - reply.spent + DeadbandS
           /\ TimeLeft(daemon') >= reply.limit - reply.spent - DeadbandS - Drift
      ]_vars

\* What the user has really used today, from the last contact to the observation.
UsedSinceContact ==
    tick.used - (IF mem.atContact.day = mem.day THEN mem.atContact.used ELSE 0)

\* An offline tick that carries out the capped policy on a device that was only used
\* meanwhile.
CappedOffline ==
    /\ Unreachable(TRUE)
    /\ mem.offline = "capped" /\ ~InGrace(mem)
    /\ Undisturbed /\ WithinADay(OfflineTarget(mem))

\* Past the grace period an unreachable hub costs the pool at most CapS: an offline tick
\* leaves what the seconds really used since the last contact have left of it, but for
\* those that escaped measurement, whatever restarts, '=' writes and skewed clocks came
\* between (_apply_offline_policy).  This is so while no midnight has passed since that
\* contact.
OutageIsCapped ==
    [][ /\ CappedOffline
        /\ localDay = 0 /\ mem.atContact.day \in {mem.day, NoDay}
        => TimeLeft(daemon') <= CapS - UsedSinceContact + lost + DeadbandS
      ]_vars

\* ... and here is the same over a midnight passed offline, when all that has been used
\* today was used since the last contact, and even if the agent has measured every second
\* of it (_apply_offline_policy: "Estimate today's global spend without ever refunding
\* local activity that happened after the last hub contact").  The code breaks it.
NeverRefunds ==
    [][ /\ CappedOffline
        /\ mem.contact # Never /\ mem.cum = tick.used
        => TimeLeft(daemon') <= CapS - UsedSinceContact + DeadbandS
      ]_vars

\* Whatever was lost, refused or restarted on the way, and however the last policy
\* push and the last nudge raced: once the user pauses and the faults end, a
\* managed device comes to hold the standing limit and leaves exactly what the hub
\* says is left.
Settled ==
    /\ daemon.limit = policy
    /\ Abs(TimeLeft(daemon) - (policy + grant - counter[hubDay] - other)) <= DeadbandS

EventuallySettles == <>[](mode = "enforce" /\ status = "active" => Settled)

=============================================================================
