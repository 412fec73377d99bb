-------------------------- MODULE PolicyPushProofs --------------------------
(***************************************************************************)
(* What an acknowledged policy push means, for every policy, week and      *)
(* sequence of faults.                                                     *)
(***************************************************************************)
EXTENDS PolicyPush, TLAPS

IsPush(p) ==
    \E payload, current, next, ok :
        p = [payload |-> payload, current |-> current, next |-> next, ok |-> ok]

\* What the steps before the next one wrote or skipped is there, unless one of them
\* failed; of what is still to come the readback is current, or says nothing.
Progress ==
    /\ push.next \in 1..WeekS + 5
    /\ push.ok \in BOOLEAN
    /\ push.ok =>
         \A i \in DOMAIN Steps :
            i < push.next /\ Steps[i] \notin touched
            => device[Steps[i]] = Wanted(push.payload.body)[Steps[i]]
    /\ \A i \in DOMAIN Steps :
            i >= push.next /\ Steps[i] \notin touched
            => push.current[Steps[i]] \in {Unknown, device[Steps[i]]}

\* AppliedIsHeld is inductive with three facts about the revision: one that is on its way
\* to the device is not the one acknowledged, what is on disk is what is in memory
\* until a push ends, and a crash right after that goes back to another revision than
\* the one just pushed.
PushInv ==
    /\ DOMAIN device = Setters
    /\ IsPush(push)
    /\ pc # "save" => disk = mem
    /\ pc = "save" /\ disk # mem => begun # disk
    /\ pc = "replied" => reply # mem
    /\ pc = "pushing" => begun = push.payload /\ begun # mem /\ Progress
    /\ AppliedIsHeld

-----------------------------------------------------------------------------
\* The steps of a push are all different, so that one never undoes another.
LEMMA StepsDiffer ==
    ASSUME NEW i \in DOMAIN Steps, NEW j \in DOMAIN Steps, Steps[i] = Steps[j]
    PROVE  i = j
BY PolicyPushAssumption
   DEF Steps, SetAllowedDays, SetLimits, SetWeekly, SetLockout, SetHours, Setter

LEMMA EveryStepHasASetter == \A i \in DOMAIN Steps : Steps[i] \in Setters
BY DEF Setters

LEMMA StepNumbers == DOMAIN Steps = 1..WeekS + 4
BY DEF Steps

THEOREM InitPush == Init => PushInv
<1> SUFFICES ASSUME Init PROVE PushInv
    OBVIOUS
<1>1. DOMAIN device = Setters
  <2>1. PICK p \in Policies : device = Config(p)
        BY DEF Init
  <2> QED BY <2>1 DEF Config, Wanted
<1>2. IsPush(push)
      BY DEF Init, NoPush, IsPush
<1> QED BY <1>1, <1>2 DEF Init, PushInv, AppliedIsHeld

\* One step of a push keeps its progress.
LEMMA ProgressStep ==
    ASSUME PolicyPushAssumption, PushInv, NEW ok \in BOOLEAN, NEW landed \in BOOLEAN,
           PushStep(ok, landed)
    PROVE  Progress'
<1> DEFINE s == Steps[push.next]
           want == Wanted(push.payload.body)[s]
<1>1. pc = "pushing" /\ push.next \in DOMAIN Steps /\ Progress /\ DOMAIN device = Setters
      BY DEF PushStep, PushInv
<1>2. push.next \in 1..WeekS + 4 /\ WeekS \in Nat
      BY <1>1, StepNumbers DEF PolicyPushAssumption
<1>3. PICK payload, current, next, k :
        push = [payload |-> payload, current |-> current, next |-> next, ok |-> k]
      BY DEF PushInv, IsPush
<1>4. push' = [payload |-> payload, current |-> current, next |-> next + 1, ok |-> k /\ ok]
      BY <1>3 DEF PushStep
<1>5. push'.payload = push.payload /\ push'.current = push.current
      /\ push'.next = push.next + 1 /\ push'.ok = (push.ok /\ ok)
      BY <1>3, <1>4
<1>6. s \in Setters /\ touched' = touched
      BY <1>1, EveryStepHasASetter DEF PushStep, historyVars
<1>7. CASE device' = device /\ Matches(s, want) /\ ok
  <2>1. push.current[s] # Unknown /\ push.current[s] = want
        BY <1>7 DEF Matches
  <2>2. s \notin touched => device[s] = want
        BY <2>1, <1>1, <1>2 DEF Progress
  <2>3. ASSUME NEW i \in DOMAIN Steps, i < push'.next, Steps[i] \notin touched', push'.ok
        PROVE  device'[Steps[i]] = Wanted(push'.payload.body)[Steps[i]]
    <3>1. i < push.next \/ i = push.next
          BY <2>3, <1>2, <1>5, StepNumbers
    <3> QED BY <3>1, <2>2, <2>3, <1>1, <1>5, <1>6, <1>7 DEF Progress
  <2>4. ASSUME NEW i \in DOMAIN Steps, i >= push'.next, Steps[i] \notin touched'
        PROVE  push'.current[Steps[i]] \in {Unknown, device'[Steps[i]]}
    <3>1. i >= push.next
          BY <2>4, <1>2, <1>5, StepNumbers
    <3> QED BY <3>1, <2>4, <1>1, <1>5, <1>6, <1>7 DEF Progress
  <2> QED BY <2>3, <2>4, <1>1, <1>2, <1>5 DEF Progress
<1>8. CASE /\ ok => landed
           /\ device' = IF landed THEN [device EXCEPT ![s] = want] ELSE device
  <2>1. \A t \in Setters : t # s => device'[t] = device[t]
        BY <1>8, <1>1
  <2>2. ok => device'[s] = want
        BY <1>8, <1>1, <1>6
  <2>3. ASSUME NEW i \in DOMAIN Steps, i < push'.next, Steps[i] \notin touched', push'.ok
        PROVE  device'[Steps[i]] = Wanted(push'.payload.body)[Steps[i]]
    <3>1. CASE i = push.next
          BY <3>1, <2>2, <2>3, <1>5
    <3>2. CASE i # push.next
      <4>1. i < push.next
            BY <3>2, <2>3, <1>2, <1>5, StepNumbers
      <4>2. Steps[i] # s
            BY <3>2, <1>1, StepsDiffer
      <4> QED BY <4>1, <4>2, <2>1, <2>3, <1>1, <1>5, <1>6, EveryStepHasASetter DEF Progress
    <3> QED BY <3>1, <3>2
  <2>4. ASSUME NEW i \in DOMAIN Steps, i >= push'.next, Steps[i] \notin touched'
        PROVE  push'.current[Steps[i]] \in {Unknown, device'[Steps[i]]}
    <3>1. i >= push.next /\ i # push.next
          BY <2>4, <1>2, <1>5, StepNumbers
    <3>2. Steps[i] # s
          BY <3>1, <1>1, StepsDiffer
    <3> QED BY <3>1, <3>2, <2>1, <2>4, <1>1, <1>5, <1>6, EveryStepHasASetter DEF Progress
  <2> QED BY <2>3, <2>4, <1>1, <1>2, <1>5 DEF Progress
<1> QED BY <1>7, <1>8 DEF PushStep

THEOREM PushInvInductive == PushInv /\ [Next]_vars => PushInv'
<1> SUFFICES ASSUME PushInv, [Next]_vars
             PROVE  PushInv'
    OBVIOUS
<1> USE DEF hubVars, agentVars, historyVars
<1>1. CASE Observe
      BY <1>1 DEF Observe, PushInv, IsPush, AppliedIsHeld, Holds
<1>2. CASE HubSync
      BY <1>2 DEF HubSync, IsApplied, PushInv, IsPush, AppliedIsHeld, Holds
<1>3. CASE Unreachable
      BY <1>3 DEF Unreachable, PushInv, IsPush, AppliedIsHeld, Holds
<1>4. ASSUME NEW readable \in BOOLEAN, StartPush(readable)
      PROVE  PushInv'
  <2>1. pc = "replied" /\ pc' = "pushing" /\ begun' = reply /\ touched' = {}
        /\ device' = device /\ mem' = mem /\ disk' = disk
        BY <1>4 DEF StartPush
  <2>2. push' = [payload |-> reply, current |-> IF readable THEN device ELSE Unreadable,
                 next |-> 1, ok |-> TRUE]
        BY <1>4 DEF StartPush
  <2>3. IsPush(push)'
        BY <2>2 DEF IsPush
  <2>4. push'.payload = reply /\ push'.next = 1 /\ push'.ok
        /\ push'.current = IF readable THEN device ELSE Unreadable
        BY <2>2
  <2>5. \A t \in Setters : push'.current[t] \in {Unknown, device'[t]}
        BY <2>1, <2>4 DEF Unreadable
  <2>6. \A i \in DOMAIN Steps : ~(i < 1)
        BY StepNumbers, PolicyPushAssumption DEF PolicyPushAssumption
  <2>7. Progress'
    <3>1. push'.next \in 1..WeekS + 5 /\ push'.ok \in BOOLEAN
          BY <2>2, PolicyPushAssumption DEF PolicyPushAssumption
    <3> QED BY <3>1, <2>4, <2>5, <2>6, EveryStepHasASetter DEF Progress
  <2> QED BY <2>1, <2>3, <2>4, <2>7 DEF PushInv, AppliedIsHeld
<1>5. ASSUME NEW ok \in BOOLEAN, NEW landed \in BOOLEAN, PushStep(ok, landed)
      PROVE  PushInv'
  <2>1. Progress'
        BY <1>5, ProgressStep, PolicyPushAssumption
  <2>2. PICK payload, current, next, k :
          push = [payload |-> payload, current |-> current, next |-> next, ok |-> k]
        BY DEF PushInv, IsPush
  <2>3. push' = [payload |-> payload, current |-> current, next |-> next + 1, ok |-> k /\ ok]
        BY <1>5, <2>2 DEF PushStep
  <2>4. IsPush(push)' /\ push'.payload = push.payload
        BY <2>2, <2>3 DEF IsPush
  <2>5. pc = "pushing" /\ pc' = pc /\ begun' = begun /\ mem' = mem /\ disk' = disk
        BY <1>5 DEF PushStep
  <2>6. DOMAIN device' = Setters
        BY <1>5 DEF PushStep, PushInv
  <2> QED BY <2>1, <2>4, <2>5, <2>6 DEF PushInv, AppliedIsHeld
<1>6. CASE EndPush
  <2>1. /\ pc = "pushing" /\ pc' = "save" /\ push' = NoPush /\ push.next \notin DOMAIN Steps
        /\ mem' = IF push.ok THEN push.payload ELSE mem
        /\ UNCHANGED <<device, disk, begun, touched>>
        BY <1>6 DEF EndPush, Applied
  <2>2. begun = push.payload /\ begun # mem /\ Progress /\ disk = mem
        BY <2>1 DEF PushInv
  <2>3. IsPush(push)'
        BY <2>1 DEF IsPush, NoPush
  <2>4. \A i \in DOMAIN Steps : i < push.next
        BY <2>1, <2>2, StepNumbers, PolicyPushAssumption DEF Progress, PolicyPushAssumption
  <2>5. push.ok => Holds(push.payload)
        BY <2>2, <2>4 DEF Progress, Holds, Setters
  <2>6. AppliedIsHeld'
        BY <2>1, <2>2, <2>5 DEF AppliedIsHeld, Holds
  <2> QED BY <2>1, <2>2, <2>3, <2>6 DEF PushInv
<1>7. CASE Save
      BY <1>7 DEF Save, PushInv, IsPush, AppliedIsHeld, Holds
<1>8. CASE Crash
  <2>1. IsPush(push)'
        BY <1>8 DEF Crash, IsPush, NoPush
  <2>2. AppliedIsHeld'
        BY <1>8 DEF Crash, PushInv, AppliedIsHeld, Holds
  <2> QED BY <1>8, <2>1, <2>2 DEF Crash, PushInv
<1>9. ASSUME NEW p \in Policies, UpdatePolicy(p)
      PROVE  PushInv'
      BY <1>9 DEF UpdatePolicy, Edit, PushInv, IsPush, Progress, AppliedIsHeld, Holds
<1>10. ASSUME NEW d \in Day, NEW plan \in HourPlans, SetDayHours(d, plan)
       PROVE  PushInv'
      BY <1>10 DEF SetDayHours, Edit, PushInv, IsPush, Progress, AppliedIsHeld, Holds
<1>11. ASSUME NEW d \in Day, ClearDayHours(d)
       PROVE  PushInv'
      BY <1>11 DEF ClearDayHours, Edit, PushInv, IsPush, Progress, AppliedIsHeld, Holds
<1>12. CASE Midnight
      BY <1>12 DEF Midnight, PushInv, IsPush, Progress, AppliedIsHeld, Holds
<1>13. ASSUME NEW s \in Setters, NEW value \in LocalValues(s), ChangeLocally(s, value)
       PROVE  PushInv'
  <2>1. /\ DOMAIN device' = DOMAIN device
        /\ \A t \in Setters : t # s => device'[t] = device[t]
        /\ touched' = touched \cup {s}
        /\ UNCHANGED <<mem, disk, pc, reply, push, begun>>
        BY <1>13 DEF ChangeLocally, PushInv
  <2>2. Progress => Progress'
        BY <2>1, EveryStepHasASetter DEF Progress
  <2>3. AppliedIsHeld'
        BY <2>1 DEF PushInv, AppliedIsHeld, Holds
  <2> QED BY <2>1, <2>2, <2>3 DEF PushInv, IsPush
<1>14. CASE UNCHANGED vars
      BY <1>14 DEF vars, PushInv, IsPush, Progress, AppliedIsHeld, Holds
<1> QED BY <1>1, <1>2, <1>3, <1>4, <1>5, <1>6, <1>7, <1>8, <1>9, <1>10, <1>11, <1>12,
           <1>13, <1>14 DEF Next, AgentStep

\* In every behaviour, whatever is acknowledged and was begun last is on the device but
\* for what was changed there ("All-or-nothing on `.ok`", _apply_policy_push).
THEOREM AcknowledgedIsHeld == Spec => []AppliedIsHeld
<1>1. PushInv => AppliedIsHeld
      BY DEF PushInv
<1> QED BY InitPush, PushInvInductive, <1>1, PTL DEF Spec

-----------------------------------------------------------------------------
(***************************************************************************)
(* Types.  A payload is a policy whose hours are spelled out for every     *)
(* weekday, and no more is made of it on its way to state.json.            *)
(***************************************************************************)
IsRevision(r) ==
    /\ r.version \in 1..MaxEdits + 1 /\ r.body \in PolicyBody
    /\ \A w \in Weekday : r.body.hours[w] # None

RevisionsTyped == \A r \in {mem, disk, reply, begun, push.payload} : r = None \/ IsRevision(r)

TypeInv ==
    /\ TypeOK /\ RevisionsTyped /\ IsPush(push)
    /\ version <= edits + 1        \* every version is an edit's

LEMMA TodayIsAWeekday == \A d \in Day : WeekdayOf(d) \in Weekday
<1> SUFFICES ASSUME NEW d \in Day PROVE WeekdayOf(d) \in Weekday
    OBVIOUS
<1>1. d \in Nat /\ WeekS \in Nat \ {0}
      BY PolicyPushAssumption DEF Day
<1>2. d % WeekS \in 0..WeekS - 1
      BY <1>1
<1> QED BY <1>1, <1>2 DEF WeekdayOf, Weekday

\* materialize_allowed_hours, with_day_hour_override: no weekday is left out.
LEMMA EffectiveIsRevision ==
    ASSUME TypeOK PROVE IsRevision(Effective(day))
<1> DEFINE hours == WithOverride(policy, Materialized(policy.hours), day)
           body == [policy EXCEPT !.hours = hours]
<1>1. policy \in PolicyBody /\ day \in Day /\ version \in 1..MaxEdits + 1
      /\ override \in [Day -> HourPlans \cup {None}]
      BY PolicyPushAssumption DEF TypeOK
<1>2. Materialized(policy.hours) \in [Weekday -> HourPlans]
  <2>1. policy.hours \in [Weekday -> HourPlans \cup {None}]
        BY <1>1 DEF PolicyBody
  <2> QED BY <2>1, PolicyPushAssumption DEF Materialized
<1>3. hours \in [Weekday -> HourPlans]
  <2>1. override[day] # None => override[day] \in HourPlans
        BY <1>1
  <2>2. WeekdayOf(day) \in Weekday
        BY <1>1, TodayIsAWeekday
  <2> QED BY <1>2, <2>1, <2>2 DEF WithOverride
<1>4. Effective(day) = [version |-> version, body |-> body]
      BY DEF Effective
<1> HIDE DEF hours
<1>5. body \in PolicyBody /\ body.hours = hours
      BY <1>1, <1>3 DEF PolicyBody
<1> HIDE DEF body
<1> QED BY <1>1, <1>3, <1>4, <1>5, PolicyPushAssumption DEF IsRevision

LEMMA TypeInit == Init => TypeInv
<1> SUFFICES ASSUME Init PROVE TypeInv
    OBVIOUS
<1>1. IsPush(push) /\ DOMAIN device = Setters
      BY InitPush DEF PushInv
<1>2. /\ {WeekS, MaxDay, MaxEdits, MaxLocal, MaxFaults} \subseteq Nat
      /\ push.payload = None /\ push.next = 0 /\ push.ok = TRUE
      BY PolicyPushAssumption DEF Init, NoPush
<1>3. RevisionsTyped
      BY <1>2 DEF Init, RevisionsTyped
<1>4. /\ day \in Day /\ version \in 1..MaxEdits + 1 /\ push.next \in 0..WeekS + 5
      /\ edits \in 0..MaxEdits /\ local \in 0..MaxLocal /\ faults \in 0..MaxFaults
      /\ version <= edits + 1
      BY <1>2 DEF Init, Day
<1> QED BY <1>1, <1>2, <1>3, <1>4 DEF Init, TypeInv, TypeOK, RevisionsTyped, IsRevision

\* What a step of the agent may do to the revisions: copy one, or take the hub's.
LEMMA AgentKeepsTypes ==
    ASSUME TypeInv, UNCHANGED <<hubVars, edits, local>>,
           pc' \in {"idle", "sent", "replied", "pushing", "save"},
           faults' \in 0..MaxFaults, touched' \subseteq Setters, DOMAIN device' = Setters,
           IsPush(push)', push'.next \in 0..WeekS + 5, push'.ok \in BOOLEAN,
           {mem', disk', reply', begun', push'.payload}
              \subseteq {mem, disk, reply, begun, push.payload, None, Effective(day)}
    PROVE  TypeInv'
<1>1. RevisionsTyped'
  <2>1. IsRevision(Effective(day))
        BY EffectiveIsRevision DEF TypeInv
  <2>2. \A r \in {mem', disk', reply', begun', push'.payload} : r = None \/ IsRevision(r)
        BY <2>1 DEF TypeInv, RevisionsTyped
  <2> QED BY <2>2 DEF RevisionsTyped, IsRevision
<1>2. UNCHANGED <<day, policy, version, override>>
      BY DEF hubVars
<1> QED BY <1>1, <1>2 DEF TypeInv, TypeOK, RevisionsTyped, IsRevision

\* What an administrator, the clock and the people at the device do leaves the
\* revisions alone.
LEMMA OthersKeepTypes ==
    ASSUME TypeInv, UNCHANGED <<agentVars, faults, begun>>,
           day' \in Day, policy' \in Policies, version' \in 1..MaxEdits + 1,
           override' \in [Day -> HourPlans \cup {None}], version' <= edits' + 1,
           edits' \in 0..MaxEdits, local' \in 0..MaxLocal, touched' \subseteq Setters,
           DOMAIN device' = Setters
    PROVE  TypeInv'
<1>1. UNCHANGED <<mem, disk, pc, reply, push, faults, begun>>
      BY DEF agentVars
<1>2. RevisionsTyped'
      BY <1>1 DEF TypeInv, RevisionsTyped, IsRevision
<1>3. IsPush(push)'
      BY <1>1 DEF TypeInv, IsPush
<1>4. pc' \in {"idle", "sent", "replied", "pushing", "save"} /\ faults' \in 0..MaxFaults
      /\ push'.next \in 0..WeekS + 5 /\ push'.ok \in BOOLEAN
      BY <1>1 DEF TypeInv, TypeOK
<1> QED BY <1>2, <1>3, <1>4 DEF TypeInv, TypeOK, RevisionsTyped, IsRevision

LEMMA TypeStep == TypeInv /\ [Next]_vars => TypeInv'
<1> SUFFICES ASSUME TypeInv, [Next]_vars PROVE TypeInv'
    OBVIOUS
<1> USE DEF hubVars, agentVars, historyVars
<1>0. /\ TypeOK /\ IsPush(push) /\ version <= edits + 1
      /\ {WeekS, MaxDay, MaxEdits, MaxLocal, MaxFaults} \subseteq Nat
      BY PolicyPushAssumption DEF TypeInv
<1>t. /\ DOMAIN device = Setters /\ touched \subseteq Setters /\ faults \in 0..MaxFaults
      /\ push.next \in 0..WeekS + 5 /\ push.ok \in BOOLEAN
      BY <1>0 DEF TypeOK
<1>p. push' = NoPush => /\ IsPush(push)' /\ push'.payload = None
                        /\ push'.next \in 0..WeekS + 5 /\ push'.ok \in BOOLEAN
  <2>1. 0 \in 0..WeekS + 5
        BY <1>0
  <2>2. NoPush.payload = None /\ NoPush.next = 0 /\ NoPush.ok = TRUE
        BY DEF NoPush
  <2>3. push' = NoPush => IsPush(push)'
        BY DEF NoPush, IsPush
  <2> QED BY <2>1, <2>2, <2>3
<1>f. ASSUME NEW ok \in BOOLEAN, Spend(ok) PROVE faults' \in 0..MaxFaults
      BY <1>0, <1>t, <1>f DEF Spend
<1>1. CASE Observe
      BY <1>0, <1>1, <1>t, AgentKeepsTypes DEF Observe, IsPush
<1>2. CASE HubSync
      BY <1>0, <1>2, <1>t, AgentKeepsTypes DEF HubSync, IsPush
<1>3. CASE Unreachable
      BY <1>0, <1>3, <1>t, <1>f, AgentKeepsTypes DEF Unreachable, IsPush
<1>4. ASSUME NEW readable \in BOOLEAN, StartPush(readable)
      PROVE  TypeInv'
  <2>1. push' = [payload |-> reply, current |-> IF readable THEN device ELSE Unreadable,
                 next |-> 1, ok |-> TRUE]
        BY <1>4 DEF StartPush
  <2>2. IsPush(push)' /\ push'.payload = reply /\ push'.next = 1 /\ push'.ok = TRUE
        BY <2>1 DEF IsPush
  <2>3. 1 \in 0..WeekS + 5
        BY <1>0
  <2> QED BY <1>0, <1>4, <1>t, <1>f, <2>2, <2>3, AgentKeepsTypes DEF StartPush
<1>5. ASSUME NEW ok \in BOOLEAN, NEW landed \in BOOLEAN, PushStep(ok, landed)
      PROVE  TypeInv'
  <2>1. PICK payload, current, next, k :
          push = [payload |-> payload, current |-> current, next |-> next, ok |-> k]
        BY <1>0 DEF IsPush
  <2>2. push' = [payload |-> payload, current |-> current, next |-> next + 1, ok |-> k /\ ok]
        BY <1>5, <2>1 DEF PushStep
  <2>3. IsPush(push)' /\ push'.payload = push.payload /\ push'.next = push.next + 1
        /\ push'.ok \in BOOLEAN
        BY <2>1, <2>2 DEF IsPush
  <2>4. push'.next \in 0..WeekS + 5
        BY <1>0, <1>5, <2>3, StepNumbers DEF PushStep
  <2>5. DOMAIN device' = Setters /\ faults' \in 0..MaxFaults
        BY <1>5, <1>t, <1>f DEF PushStep
  <2>6. UNCHANGED <<hubVars, mem, disk, pc, reply, edits, local, begun, touched>>
        BY <1>5 DEF PushStep
  <2>7. pc' \in {"idle", "sent", "replied", "pushing", "save"}
        BY <1>0, <2>6 DEF TypeOK
  <2> QED BY <1>0, <1>t, <2>3, <2>4, <2>5, <2>6, <2>7, AgentKeepsTypes
<1>6. CASE EndPush
  <2>1. mem' \in {push.payload, mem}
        BY <1>6 DEF EndPush, Applied
  <2> QED BY <1>0, <1>6, <1>t, <1>p, <2>1, AgentKeepsTypes DEF EndPush
<1>7. CASE Save
      BY <1>0, <1>7, <1>t, AgentKeepsTypes DEF Save, IsPush
<1>8. CASE Crash
  <2>1. faults' \in 0..MaxFaults
        BY <1>8, <1>f DEF Crash
  <2> QED BY <1>0, <1>8, <1>t, <1>p, <2>1, AgentKeepsTypes DEF Crash
<1>9. ASSUME NEW p \in Policies, UpdatePolicy(p) PROVE TypeInv'
  <2>1. version' \in 1..MaxEdits + 1 /\ edits' \in 0..MaxEdits /\ version' <= edits' + 1
        BY <1>0, <1>9 DEF UpdatePolicy, Edit, TypeOK
  <2>2. policy' \in Policies
        BY <1>9 DEF UpdatePolicy
  <2>3. UNCHANGED <<day, override, device, agentVars, local, faults, begun, touched>>
        BY <1>9 DEF UpdatePolicy
  <2>4. /\ day \in Day /\ override \in [Day -> HourPlans \cup {None}]
        /\ local \in 0..MaxLocal
        BY <1>0 DEF TypeOK
  <2> QED BY <1>t, <2>1, <2>2, <2>3, <2>4, OthersKeepTypes
<1>10. ASSUME NEW d \in Day, NEW plan \in HourPlans, SetDayHours(d, plan) PROVE TypeInv'
  <2>1. edits' \in 0..MaxEdits /\ version <= edits' + 1
        BY <1>0, <1>10 DEF SetDayHours, Edit, TypeOK
  <2> QED BY <1>0, <1>10, <1>t, <2>1, OthersKeepTypes DEF SetDayHours, TypeOK
<1>11. ASSUME NEW d \in Day, ClearDayHours(d) PROVE TypeInv'
  <2>1. edits' \in 0..MaxEdits /\ version <= edits' + 1
        BY <1>0, <1>11 DEF ClearDayHours, Edit, TypeOK
  <2> QED BY <1>0, <1>11, <1>t, <2>1, OthersKeepTypes DEF ClearDayHours, TypeOK
<1>12. CASE Midnight
  <2>1. day' \in Day
        BY <1>0, <1>12 DEF Midnight, TypeOK, Day
  <2> QED BY <1>0, <1>12, <1>t, <2>1, OthersKeepTypes DEF Midnight, TypeOK
<1>13. ASSUME NEW s \in Setters, NEW value \in LocalValues(s), ChangeLocally(s, value)
       PROVE  TypeInv'
  <2>1. local' \in 0..MaxLocal /\ DOMAIN device' = Setters /\ touched' \subseteq Setters
        BY <1>0, <1>13, <1>t DEF ChangeLocally, TypeOK
  <2> QED BY <1>0, <1>13, <2>1, OthersKeepTypes DEF ChangeLocally, TypeOK
<1>14. CASE UNCHANGED vars
      BY <1>0, <1>14, <1>t, OthersKeepTypes DEF vars, TypeOK
<1> QED BY <1>1, <1>2, <1>3, <1>4, <1>5, <1>6, <1>7, <1>8, <1>9, <1>10, <1>11, <1>12,
           <1>13, <1>14 DEF Next, AgentStep

\* Whatever is lost, refused, interrupted or edited: what the hub sends, the agent pushes,
\* remembers and saves is always a whole policy of some version with hours for every
\* weekday (effective_policy_payload), and a push never runs past its last setter.
THEOREM TypeCorrect == Spec => []TypeOK
<1>1. TypeInv => TypeOK
      BY DEF TypeInv
<1> QED BY <1>1, TypeInit, TypeStep, PTL DEF Spec
=============================================================================
