----------------------------- MODULE PolicyPush -----------------------------
(***************************************************************************)
(* How a user's policy reaches timekpr: the hub's versions and one-day     *)
(* hour overrides (hub/timekpr_hub/services/policy.py and day_hours.py,    *)
(* core/timekpr_hub_core/effective_policy.py), the revision gate of /sync, *)
(* and the agent's push, one D-Bus setter after the other                  *)
(* (agent/timekpr_hub_agent/policy_push.py and enforcer.py).               *)
(*                                                                         *)
(* Between any two setters the agent may die, a setter may fail, midnight  *)
(* may pass, an admin may edit the policy and somebody at the device may   *)
(* change timekpr's own settings.  What the rest of a tick does is in      *)
(* AgentTick; clocks agree here.                                           *)
(***************************************************************************)
EXTENDS Integers, Sequences

CONSTANTS
    WeekS,          \* days in a week
    Policies,       \* what an admin may save: see PolicyBody
    HourPlans,      \* what the allowed hours of a day may be
    Unrestricted,   \* unrestricted(): all 24 hours
    Unknown,        \* _UNKNOWN: the readback did not say
    None,           \* nothing: no override, no revision, no payload
    MaxDay,         \* bound: days are 0..MaxDay
    MaxEdits,       \* bound: changes an admin makes
    MaxLocal,       \* bound: settings changed at the device
    MaxFaults       \* bound: lost messages, failed calls and crashes

Weekday == 1..WeekS
Day == 0..MaxDay

\* A policy as it is stored: day-keyed limits; the weekdays in the order saved,
\* <<>> for all; hours for some weekdays only.  weekly is one setting that has a
\* setter of its own and stands for the ones like it.
PolicyBody ==
    [days: Seq(Weekday), limits: [Weekday -> Nat],
     hours: [Weekday -> HourPlans \cup {None}], weekly: Nat,
     lockout: STRING, wake: STRING]

ASSUME PolicyPushAssumption ==
    /\ WeekS \in Nat \ {0}
    /\ Policies \subseteq PolicyBody
    /\ Unrestricted \in HourPlans
    /\ None \notin HourPlans /\ Unknown # None
    /\ {MaxDay, MaxEdits, MaxLocal, MaxFaults} \subseteq Nat

VARIABLES
    day,        \* today
    policy,     \* the current policy's body
    version,    \* Policy.version
    override,   \* day_hour_overrides, by day
    device,     \* timekpr's settings, by the setter that writes them
    mem,        \* policy_revision_applied in the running agent
    disk,       \* the same in state.json
    pc,         \* where the tick is
    reply,      \* the payload in the answer
    push,       \* the push under way
    edits, local, faults,   \* how much of each budget is used
    begun,      \* history: the revision of the last push begun
    touched     \* history: settings changed at the device since its readback

hubVars == <<day, policy, version, override>>
agentVars == <<mem, disk, pc, reply, push>>
historyVars == <<begun, touched>>
vars == <<hubVars, device, agentVars, edits, local, faults, historyVars>>

-----------------------------------------------------------------------------
(***************************************************************************)
(* What belongs on the device.                                             *)
(***************************************************************************)
WeekdayOf(d) == (d % WeekS) + 1

AllDays == [i \in Weekday |-> i]
AllowedDays(p) == IF p.days = <<>> THEN AllDays ELSE p.days
IsAllowed(p, w) == \E i \in DOMAIN AllowedDays(p) : AllowedDays(p)[i] = w

\* Mutant: only what is stored is sent.
HoursAsStored(hours) == hours

\* materialize_allowed_hours: a weekday without an entry is unrestricted.
Materialized(hours) ==
    [w \in Weekday |-> IF hours[w] = None THEN Unrestricted ELSE hours[w]]

\* with_day_hour_override: skipped on a day the user may not log in at all.
WithOverride(p, hours, d) ==
    IF override[d] # None /\ IsAllowed(p, WeekdayOf(d))
    THEN [hours EXCEPT ![WeekdayOf(d)] = override[d]]
    ELSE hours

\* effective_policy_payload: the standing policy with the override of the day.
Effective(d) ==
    [version |-> version,
     body |-> [policy EXCEPT !.hours = WithOverride(policy, Materialized(@), d)]]

\* Mutant: a new version alone is a reason to push.
IsAppliedVersion(applied, payload) == applied # None /\ applied.version = payload.version

\* The gate of /sync: policy_revision is the version and a hash of the payload, that
\* is, the payload.
IsApplied(applied, payload) == applied = payload

-----------------------------------------------------------------------------
(***************************************************************************)
(* The setters of a push, in the order they are called.                    *)
(***************************************************************************)
Setter(name) == [name |-> name, weekday |-> 0]
SetAllowedDays == Setter("setAllowedDays")
SetLimits == Setter("setTimeLimitForDays")
SetWeekly == Setter("setTimeLimitForWeek")
SetLockout == Setter("setLockoutType")
SetHours(w) == [name |-> "setAllowedHours", weekday |-> w]

Steps ==
    [i \in 1..WeekS + 4 |->
        CASE i = 1 -> SetAllowedDays
          [] i = 2 -> SetLimits
          [] i = 3 -> SetWeekly
          [] i = 4 -> SetLockout
          [] OTHER -> SetHours(i - 4)]
Setters == {Steps[i] : i \in DOMAIN Steps}

\* _project_daily_limits_to_allowed_days: timekpr's list is positional within the
\* allowed days.
Projected(p) == [i \in DOMAIN AllowedDays(p) |-> p.limits[AllowedDays(p)[i]]]

\* The wake window only matters to "suspendwake", and has a default.
Lockout(p) ==
    IF p.lockout = "suspendwake"
    THEN <<p.lockout, IF p.wake = "" THEN "0;23" ELSE p.wake>>
    ELSE <<p.lockout>>

\* What a payload asks each setter to write.
Wanted(p) ==
    [s \in Setters |->
        CASE s = SetAllowedDays -> AllowedDays(p)
          [] s = SetLimits -> Projected(p)
          [] s = SetWeekly -> p.weekly
          [] s = SetLockout -> Lockout(p)
          [] OTHER -> p.hours[s.weekday]]

\* What timekpr might be set to by hand: what some policy would set.
Config(p) == Wanted([p EXCEPT !.hours = Materialized(@)])
LocalValues(s) ==
    IF s.name = "setAllowedHours" THEN HourPlans ELSE {Config(p)[s] : p \in Policies}

Unreadable == [s \in Setters |-> Unknown]
NoPush == [payload |-> None, current |-> Unreadable, next |-> 0, ok |-> TRUE]

TypeOK ==
    /\ day \in Day /\ policy \in Policies /\ version \in 1..MaxEdits + 1
    /\ override \in [Day -> HourPlans \cup {None}]
    /\ DOMAIN device = Setters
    /\ \A r \in {mem, disk, reply, begun, push.payload} \ {None} :
         /\ r.version \in 1..MaxEdits + 1
         /\ r.body \in PolicyBody
         /\ \A w \in Weekday : r.body.hours[w] # None
    /\ pc \in {"idle", "sent", "replied", "pushing", "save"}
    /\ push.next \in 0..WeekS + 5 /\ push.ok \in BOOLEAN
    /\ edits \in 0..MaxEdits /\ local \in 0..MaxLocal /\ faults \in 0..MaxFaults
    /\ touched \subseteq Setters

Init ==
    /\ day = 0 /\ policy \in Policies /\ version = 1
    /\ override = [d \in Day |-> None]
    /\ \E p \in Policies : device = Config(p)
    /\ mem = None /\ disk = None
    /\ pc = "idle" /\ reply = None /\ push = NoPush
    /\ edits = 0 /\ local = 0 /\ faults = 0
    /\ begun = None /\ touched = {}

-----------------------------------------------------------------------------
(***************************************************************************)
(* The agent and the hub's answer.                                         *)
(***************************************************************************)
\* Every fault uses up one of the budget.
Spend(ok) == /\ ok \/ faults < MaxFaults
             /\ faults' = IF ok THEN faults ELSE faults + 1

\* get_user_observation indexes LIMITS_PER_WEEKDAYS by weekday; where the list is too
\* short the agent dies of an IndexError, is started again and dies again.
LimitReadable == WeekdayOf(day) \in DOMAIN device[SetLimits]
LimitSeen == device[SetLimits][WeekdayOf(day)]

\* run_tick up to hub.sync.
Observe ==
    /\ pc = "idle" /\ LimitReadable
    /\ pc' = "sent"
    /\ UNCHANGED <<hubVars, device, mem, disk, reply, push, edits, local, faults, historyVars>>

\* POST /sync.
HubSync ==
    /\ pc = "sent"
    /\ IF IsApplied(mem, Effective(day))
       THEN pc' = "save" /\ reply' = None
       ELSE pc' = "replied" /\ reply' = Effective(day)
    /\ UNCHANGED <<hubVars, device, mem, disk, push, edits, local, faults, historyVars>>

\* HubUnreachableError; the hub keeps nothing of the request that matters here.
Unreachable ==
    /\ pc \in {"sent", "replied"}
    /\ Spend(FALSE)
    /\ pc' = "save" /\ reply' = None
    /\ UNCHANGED <<hubVars, device, mem, disk, push, edits, local, historyVars>>

\* get_applied_policy, read once for the whole push; if it fails everything is pushed.
StartPush(readable) ==
    /\ pc = "replied"
    /\ Spend(readable)
    /\ pc' = "pushing"
    /\ push' = [payload |-> reply, current |-> IF readable THEN device ELSE Unreadable,
                next |-> 1, ok |-> TRUE]
    /\ reply' = None
    /\ begun' = reply /\ touched' = {}
    /\ UNCHANGED <<hubVars, device, mem, disk, edits, local>>

\* Mutant: of a lockout only the type is compared.
MatchesType(s, want) ==
    IF s = SetLockout /\ push.current[s] # Unknown
    THEN push.current[s][1] = want[1] ELSE push.current[s] = want

\* The device held what is wanted when it was read.  After the weekdays were written
\* the limits read with the old ones cannot be compared.
Matches(s, want) ==
    /\ push.current[s] # Unknown /\ push.current[s] = want
    /\ s = SetLimits => push.current[SetAllowedDays] = Wanted(push.payload.body)[SetAllowedDays]

\* _Push.step: skip, or write.  A call that fails may have been carried out.
PushStep(ok, landed) ==
    /\ pc = "pushing" /\ push.next \in DOMAIN Steps
    /\ LET s == Steps[push.next]
           want == Wanted(push.payload.body)[s]
       IN  \/ /\ Matches(s, want)
              /\ ok /\ landed
              /\ UNCHANGED <<device, faults>>
           \/ /\ ~Matches(s, want)
              /\ ok => landed
              /\ Spend(ok)
              /\ device' = IF landed THEN [device EXCEPT ![s] = want] ELSE device
    /\ push' = [push EXCEPT !.next = @ + 1, !.ok = @ /\ ok]
    /\ UNCHANGED <<hubVars, mem, disk, pc, reply, edits, local, historyVars>>

\* Mutant: the revision of every push is remembered.
AppliedAlways(p) == p.payload

\* Only a push without a failed step is remembered as applied.
Applied(p) == IF p.ok THEN p.payload ELSE mem

EndPush ==
    /\ pc = "pushing" /\ push.next \notin DOMAIN Steps
    /\ mem' = Applied(push)
    /\ pc' = "save" /\ push' = NoPush
    /\ UNCHANGED <<hubVars, device, disk, reply, edits, local, faults, historyVars>>

Save ==
    /\ pc = "save"
    /\ disk' = mem
    /\ pc' = "idle"
    /\ UNCHANGED <<hubVars, device, mem, reply, push, edits, local, faults, historyVars>>

Crash ==
    /\ pc # "idle"
    /\ Spend(FALSE)
    /\ mem' = disk
    /\ pc' = "idle" /\ reply' = None /\ push' = NoPush
    /\ UNCHANGED <<hubVars, device, disk, edits, local, historyVars>>

-----------------------------------------------------------------------------
(***************************************************************************)
(* What goes on around it.                                                 *)
(***************************************************************************)
Edit == edits < MaxEdits /\ edits' = edits + 1

\* update_policy: a new version, even if nothing differs.
UpdatePolicy(p) ==
    /\ Edit
    /\ policy' = p /\ version' = version + 1
    /\ UNCHANGED <<day, override, device, agentVars, local, faults, historyVars>>

\* PUT /day-hours: refused (422) for a day that is not allowed.
SetDayHours(d, plan) ==
    /\ IsAllowed(policy, WeekdayOf(d))
    /\ Edit
    /\ override' = [override EXCEPT ![d] = plan]
    /\ UNCHANGED <<day, policy, version, device, agentVars, local, faults, historyVars>>

\* DELETE /day-hours.
ClearDayHours(d) ==
    /\ override[d] # None
    /\ Edit
    /\ override' = [override EXCEPT ![d] = None]
    /\ UNCHANGED <<day, policy, version, device, agentVars, local, faults, historyVars>>

Midnight ==
    /\ day < MaxDay
    /\ day' = day + 1
    /\ UNCHANGED <<policy, version, override, device, agentVars, edits, local, faults,
                   historyVars>>

\* Somebody changes one of timekpr's settings on the spot.
ChangeLocally(s, value) ==
    /\ local < MaxLocal
    /\ local' = local + 1
    /\ device' = [device EXCEPT ![s] = value]
    /\ touched' = touched \cup {s}
    /\ UNCHANGED <<hubVars, agentVars, edits, faults, begun>>

AgentStep ==
    \/ Observe
    \/ Unreachable
    \/ \E readable \in BOOLEAN : StartPush(readable)
    \/ \E ok, landed \in BOOLEAN : PushStep(ok, landed)
    \/ EndPush
    \/ Save

Next ==
    \/ AgentStep
    \/ HubSync
    \/ Crash
    \/ \E p \in Policies : UpdatePolicy(p)
    \/ \E d \in Day : (\E plan \in HourPlans : SetDayHours(d, plan)) \/ ClearDayHours(d)
    \/ Midnight
    \/ \E s \in Setters : \E value \in LocalValues(s) : ChangeLocally(s, value)

Spec == Init /\ [][Next]_vars

\* As in AgentTick: the agent keeps ticking and the hub answers.
Fairness ==
    /\ WF_vars(Observe)
    /\ WF_vars(HubSync)
    /\ WF_vars(\E readable \in BOOLEAN : StartPush(readable))
    /\ WF_vars(\E ok, landed \in BOOLEAN : PushStep(ok, landed))
    /\ WF_vars(EndPush)
    /\ WF_vars(Save)

FairSpec == Spec /\ Fairness

-----------------------------------------------------------------------------
Holds(revision) ==
    \A s \in Setters \ touched : device[s] = Wanted(revision.body)[s]

\* While the revision the agent acknowledges is the last one it began to push, every
\* setting nobody changed at the device since is as that revision wants it, however many
\* pushes failed half-way, skipped steps or were cut short before (_apply_policy_push:
\* "All-or-nothing on `.ok`").
AppliedIsHeld == mem # None /\ begun = mem => Holds(mem)

\* Once the faults and the changes end, the agent acknowledges what belongs on the
\* device today: the current version and, on its day and no longer, the override
\* (policy_revision "changes exactly when the payload ... changes").
EventuallyAcknowledged == <>[](LimitReadable => mem = Effective(day))

\* What the agent takes for today's limit is the limit of today ("`limit_today_s` MUST
\* be the static LIMITS_PER_WEEKDAYS entry for today", get_user_observation) on a
\* device that holds the policy acknowledged.
LimitIsTodays ==
    \A i \in DOMAIN device[SetAllowedDays] :
        /\ pc = "idle" /\ mem # None /\ begun = mem /\ touched = {}
        /\ device[SetAllowedDays][i] = WeekdayOf(day)
        => LimitReadable /\ LimitSeen = device[SetLimits][i]

=============================================================================
