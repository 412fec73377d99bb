-------------------------- MODULE AgentTickProofs --------------------------
(***************************************************************************)
(* The safety invariants of AgentTick for every limit, tolerance, deadband *)
(* and bound.  Two facts carry the argument: what setTimeLeft may do to    *)
(* timekpr's spent value (Rewritten), and that the tolerance of            *)
(* advance_cumulative is at least timekpr's save interval                  *)
(* (FlushWithinTolerance), so that what a write made timekpr forget is     *)
(* never taken for a new day.                                              *)
(***************************************************************************)
EXTENDS AgentTick, TLAPS

-----------------------------------------------------------------------------
(***************************************************************************)
(* What the convergence plan achieves on a timekpr daemon, for every       *)
(* deadband, threshold, limit, total and balance.                          *)
(***************************************************************************)
Observation == [balance: Int, spent: Nat, limit: Nat, force: BOOLEAN, at: Nat, used: Nat]
Target == [limit: Nat, spent: Nat]
Daemon == [balance: Int, spent: Nat, saved: Nat, limit: Nat]

\* What AdvanceCumulative credits is never negative, and never more than what
\* timekpr shows.
LEMMA CreditBounds ==
    ASSUME NEW prev \in Nat, NEW curr \in Nat
    PROVE  Credit(prev, curr) \in Nat /\ Credit(prev, curr) <= curr
  BY ConvergenceConfigAssumption DEF Credit

\* A counter that never regressed is credited with exactly the difference.
LEMMA CreditForward ==
    ASSUME NEW prev \in Nat, NEW curr \in Nat, curr >= prev
    PROVE  Credit(prev, curr) = curr - prev
  BY DEF Credit

\* A regression within the tolerance, the artifact of an '=' write, is worth nothing.
LEMMA CreditRegression ==
    ASSUME NEW prev \in Nat, NEW curr \in Nat, curr < prev,
           prev - curr <= RegressionToleranceS
    PROVE  Credit(prev, curr) = 0
  BY DEF Credit

\* A plan is made of an operation and a number of seconds.
LEMMA PlanType ==
    ASSUME NEW obs \in Observation, NEW target \in Target, NEW force \in BOOLEAN
    PROVE  /\ Plan(obs, target, force).op \in Op
           /\ Plan(obs, target, force).seconds \in Int
  BY ConvergenceConfigAssumption
     DEF Plan, Op, Observation, Target, TargetBalance, Correction

LEMMA ClampType ==
    ASSUME NEW b \in Int
    PROVE  ClampBalance(b) \in Int
  BY DaemonAssumption DEF ClampBalance

\* What setTimeLeft leaves, field by field: '=' takes the spent value back to the
\* one on disk, '-' and '+' save it.
LEMMA SetTimeLeftFields ==
    ASSUME NEW d \in Daemon, NEW op \in Op, NEW seconds \in Int
    PROVE  LET e == SetTimeLeft(d, op, seconds)
           IN  /\ e \in Daemon
               /\ e.limit = d.limit
               /\ \/ e.spent = d.saved /\ e.saved = d.saved
                  \/ e.spent = d.spent /\ e.saved = d.spent
                  \/ e = d
<1> DEFINE e == SetTimeLeft(d, op, seconds)
<1>0. d.balance \in Int /\ d.limit \in Nat /\ d.spent \in Nat /\ d.saved \in Nat
  BY DEF Daemon
<1>a. ASSUME NEW b \in Int
      PROVE  [d EXCEPT !.balance = b, !.spent = d.saved] \in Daemon
  BY DEF Daemon
<1>b. ASSUME NEW b \in Int
      PROVE  [d EXCEPT !.balance = b, !.saved = d.spent] \in Daemon
  BY DEF Daemon
<1>1. CASE op = "SET"
  <2>1. e = [d EXCEPT !.balance = ClampBalance(d.limit - seconds), !.spent = d.saved]
    BY <1>1 DEF SetTimeLeft
  <2>2. ClampBalance(d.limit - seconds) \in Int
    BY <1>0, ClampType
  <2>3. e \in Daemon
    BY <2>1, <2>2, <1>a
  <2>4. e.limit = d.limit /\ e.spent = d.saved /\ e.saved = d.saved
    BY <2>1 DEF Daemon
  <2> QED
    BY <2>3, <2>4
<1>2. CASE op = "SUBTRACT"
  <2>1. e = [d EXCEPT !.balance = ClampBalance(AtMost(d.balance, d.limit) + seconds), !.saved = d.spent]
    BY <1>2 DEF SetTimeLeft
  <2>2. ClampBalance(AtMost(d.balance, d.limit) + seconds) \in Int
    BY <1>0, ClampType DEF AtMost
  <2>3. e \in Daemon
    BY <2>1, <2>2, <1>b
  <2>4. e.limit = d.limit /\ e.spent = d.spent /\ e.saved = d.spent
    BY <2>1 DEF Daemon
  <2> QED
    BY <2>3, <2>4
<1>3. CASE op = "ADD"
  <2>1. e = [d EXCEPT !.balance = ClampBalance(AtMost(d.balance, d.limit) - seconds), !.saved = d.spent]
    BY <1>3 DEF SetTimeLeft
  <2>2. ClampBalance(AtMost(d.balance, d.limit) - seconds) \in Int
    BY <1>0, ClampType DEF AtMost
  <2>3. e \in Daemon
    BY <2>1, <2>2, <1>b
  <2>4. e.limit = d.limit /\ e.spent = d.spent /\ e.saved = d.spent
    BY <2>1 DEF Daemon
  <2> QED
    BY <2>3, <2>4
<1>4. CASE op = "NOOP"
  BY <1>4 DEF SetTimeLeft
<1> HIDE DEF e
<1> QED
  BY <1>1, <1>2, <1>3, <1>4 DEF Op

\* A daemon's saved value never runs ahead of its spent value nor falls behind by more
\* than before, and the spent value goes back at most to what was saved.
LEMMA SetTimeLeftBounds ==
    ASSUME NEW d \in Daemon, NEW op \in Op, NEW seconds \in Int,
           d.saved <= d.spent
    PROVE  LET e == SetTimeLeft(d, op, seconds)
           IN  /\ e.saved >= d.saved /\ e.saved <= e.spent
               /\ e.spent <= d.spent /\ e.spent >= d.saved
               /\ e.spent - e.saved <= d.spent - d.saved
<1> DEFINE e == SetTimeLeft(d, op, seconds)
<1>1. d.spent \in Nat /\ d.saved \in Nat
  BY DEF Daemon
<1>2. \/ e.spent = d.saved /\ e.saved = d.saved
      \/ e.spent = d.spent /\ e.saved = d.spent
      \/ e = d
  BY SetTimeLeftFields
<1> HIDE DEF e
<1>3. /\ e.saved >= d.saved /\ e.saved <= e.spent
      /\ e.spent <= d.spent /\ e.spent >= d.saved
      /\ e.spent - e.saved <= d.spent - d.saved
  BY <1>1, <1>2
<1> QED
  BY <1>3 DEF e

\* The plan carried out on a device whose user went on using it for drift seconds after
\* the observation leaves what the hub's limit and total leave, whatever the device's
\* own limit is: exactly that when a write is made and nothing drifted, and otherwise
\* to within the deadband and the drift.
THEOREM PlanReachesTarget ==
    ASSUME NEW obs \in Observation, NEW target \in Target, NEW force \in BOOLEAN,
           NEW d \in Daemon, NEW drift \in Nat,
           d.balance = obs.balance + drift, d.limit = obs.limit,
           TargetBalance(obs, target) \in -DayS..DayS
    PROVE  LET p == Plan(obs, target, force)
               left == TimeLeft(SetTimeLeft(d, p.op, p.seconds))
           IN  /\ p.op # "NOOP" /\ drift = 0 => left = target.limit - target.spent
               /\ left <= target.limit - target.spent + DeadbandS
               /\ left >= target.limit - target.spent - DeadbandS - drift
<1> DEFINE p == Plan(obs, target, force)
           e == SetTimeLeft(d, p.op, p.seconds)
<1> USE ConvergenceConfigAssumption, DaemonAssumption
        DEF Observation, Target, Daemon, TargetBalance, Correction
<1>1. CASE NeedsAbsolute(obs, target, force)
  BY <1>1 DEF Plan, SetTimeLeft, TimeLeft, ClampBalance
<1>2. CASE ~NeedsAbsolute(obs, target, force)
  <2>1. obs.balance <= obs.limit
    BY <1>2 DEF NeedsAbsolute
  <2>2. CASE Correction(obs, target) > DeadbandS
    BY <1>2, <2>1, <2>2 DEF Plan, SetTimeLeft, TimeLeft, ClampBalance, AtMost
  <2>3. CASE Correction(obs, target) < -DeadbandS
    BY <1>2, <2>1, <2>3 DEF Plan, SetTimeLeft, TimeLeft, ClampBalance, AtMost
  <2>4. CASE /\ Correction(obs, target) <= DeadbandS
             /\ Correction(obs, target) >= -DeadbandS
    BY <1>2, <2>4 DEF Plan, SetTimeLeft, TimeLeft
  <2> QED
    BY <2>2, <2>3, <2>4
<1> QED
  BY <1>1, <1>2

-----------------------------------------------------------------------------
(***************************************************************************)
(* The tick loop.                                                          *)
(***************************************************************************)
\* What one setTimeLeft, or none, may do to what timekpr shows and has saved.
Rewritten(d, e) ==
    /\ e.saved >= d.saved /\ e.saved <= e.spent /\ e.spent <= d.spent
    /\ e.spent - e.saved <= d.spent - d.saved

\* Carrying out a plan, or having it refused, is a rewrite.
LEMMA ConvergeRewrites ==
    ASSUME TypeOK, NEW d \in Daemon, d.saved <= d.spent,
           NEW target \in Target, NEW force \in BOOLEAN, NEW accepted \in BOOLEAN
    PROVE  /\ Converge(d, target, force, accepted) \in Daemon
           /\ Rewritten(d, Converge(d, target, force, accepted))
<1> DEFINE plan == Plan(tick, target, force)
<1>1. tick \in Observation
  BY DEF TypeOK, Tick, Observation
<1>2. plan.op \in Op /\ plan.seconds \in Int
  BY <1>1, PlanType
<1>3. CASE accepted
  <2> DEFINE e == SetTimeLeft(d, plan.op, plan.seconds)
  <2>1. e \in Daemon
    BY <1>2, SetTimeLeftFields
  <2>2. Rewritten(d, e)
    BY <1>2, SetTimeLeftBounds DEF Rewritten
  <2> QED
    BY <1>3, <2>1, <2>2 DEF Converge
<1>4. CASE ~accepted
  <2>1. d.saved \in Nat /\ d.spent \in Nat
    BY DEF Daemon
  <2>2. Rewritten(d, d)
    BY <2>1 DEF Rewritten
  <2> QED
    BY <1>4, <2>2 DEF Converge
<1> QED
  BY <1>3, <1>4

\* The push touches the limit alone.
LEMMA PushKeepsSpent ==
    ASSUME TypeOK, NEW pushed \in BOOLEAN
    PROVE  /\ Pushed(daemon, pushed) \in Daemon
           /\ Pushed(daemon, pushed).spent = daemon.spent
           /\ Pushed(daemon, pushed).saved = daemon.saved
<1>1. daemon \in Daemon
  BY DEF TypeOK, Daemon
<1>2. reply.policy # NoPolicy => reply.policy \in Nat
  BY AgentTickAssumption DEF TypeOK, Reply
<1> QED
  BY <1>1, <1>2 DEF Pushed, SetLimit, Daemon

\* Both kinds of target an agent converges to have a limit and a total.
LEMMA TargetTypes ==
    ASSUME TypeOK
    PROVE  Answer \in Target /\ OfflineTarget(mem) \in Target
<1> USE DEF TypeOK, Target
<1>1. Answer \in Target
  BY DEF Answer, Reply
<1>2. tick.limit \in Nat
  BY DEF Tick
<1>3. /\ mem.limit \in Nat /\ mem.spent \in Nat
      /\ mem.cum \in Nat /\ mem.cumAtContact \in Nat
  BY DEF UserState
<1>4. CapS \in Nat
  BY AgentTickAssumption
<1>5. EstimatedSpent(mem) \in Nat
  BY <1>3 DEF EstimatedSpent, Larger
<1>6. Smaller(mem.limit, mem.spent + CapS) \in Nat
  BY <1>3, <1>4 DEF Smaller
<1>7. OfflineTarget(mem) \in Target
  BY <1>2, <1>5, <1>6 DEF OfflineTarget
<1> QED
  BY <1>1, <1>7

\* A measurement of the daemon is a counter.
LEMMA MeasureType ==
    ASSUME TypeOK
    PROVE  Measure(mem, daemon.spent) \in [cum: Nat, raw: Nat]
<1>1. mem.cum \in Nat /\ mem.raw \in Nat /\ daemon.spent \in Nat
  BY DEF TypeOK, UserState
<1>2. Credit(mem.raw, daemon.spent) \in Nat
  BY <1>1, CreditBounds
<1> QED
  BY <1>1, <1>2 DEF Measure, ResetForNewCanonicalDay, AdvanceCumulative

-----------------------------------------------------------------------------
(***************************************************************************)
(* Type correctness, together with what timekpr's periodic save ensures.   *)
(***************************************************************************)
SavesKeepUp ==
    daemon.saved <= daemon.spent /\ daemon.spent <= daemon.saved + SaveIntervalS

TypeInv == TypeOK /\ SavesKeepUp

LEMMA TypeInit == Init => TypeInv
<1> SUFFICES ASSUME Init PROVE TypeInv
  OBVIOUS
<1> USE AgentTickAssumption, DaemonAssumption
<1>1. FreshUserState \in UserState
  BY DEF FreshUserState, UserState
<1>2. NoTick \in Tick /\ NoReply \in Reply
  BY DEF NoTick, Tick, NoReply, Reply, Instructions
<1>3. daemon \in Daemon /\ SavesKeepUp
  BY DEF Init, Daemon, SavesKeepUp
<1>4. 0 \in Day /\ counter \in [Day -> Nat] /\ chargeable \in [Day -> Nat]
  BY DEF Init, Day
<1> QED
  BY <1>1, <1>2, <1>3, <1>4 DEF Init, TypeInv, TypeOK, Daemon, Instructions

\* A second of use leaves a daemon a daemon.
LEMMA ActiveSecondType ==
    ASSUME NEW d \in Daemon, NEW save \in BOOLEAN
    PROVE  ActiveSecond(d, save) \in Daemon
<1>1. /\ d.balance + 1 \in Int /\ d.spent + 1 \in Nat /\ d.saved \in Nat
  BY DEF Daemon
<1>2. ASSUME NEW b \in Int, NEW s \in Nat, NEW v \in Nat
      PROVE  [d EXCEPT !.balance = b, !.spent = s, !.saved = v] \in Daemon
  BY DEF Daemon
<1>3. PICK v \in Nat :
        ActiveSecond(d, save)
          = [d EXCEPT !.balance = d.balance + 1, !.spent = d.spent + 1, !.saved = v]
  BY <1>1 DEF ActiveSecond
<1> QED
  BY <1>1, <1>2, <1>3

\* A device that is rewritten stays one whose saves keep up.
LEMMA RewrittenKeepsUp ==
    ASSUME NEW d \in Daemon, NEW e \in Daemon, Rewritten(d, e),
           d.spent <= d.saved + SaveIntervalS
    PROVE  e.saved <= e.spent /\ e.spent <= e.saved + SaveIntervalS
<1>1. {d.spent, d.saved, e.spent, e.saved} \subseteq Nat
  BY DEF Daemon
<1> QED
  BY <1>1, DaemonAssumption DEF Rewritten

\* What the answer leaves in the user's state is a user's state.
LEMMA AfterContactType ==
    ASSUME TypeOK, NEW applied \in Limits \cup {NoPolicy}
    PROVE  [AfterContact(mem) EXCEPT !.applied = applied] \in UserState
           /\ AfterContact(mem) \in UserState
<1> DEFINE anchor == [day |-> mem.day, used |-> tick.used]
<1>1. mem \in UserState /\ mem.cum \in Nat /\ mem.day \in Day \cup {NoDay}
  BY DEF TypeOK, UserState
<1>2. reply.limit \in Nat /\ reply.spent \in Nat /\ reply.enforcement \in Instructions
  BY DEF TypeOK, Reply
<1>3. tick.at \in Nat /\ tick.used \in Nat
  BY DEF TypeOK, Tick
<1>4. HubOfflinePolicy \in {"open", "capped", "closed"}
  BY AgentTickAssumption
<1>5. anchor \in [day: Day \cup {NoDay}, used: Nat]
  BY <1>1, <1>3
<1>6. AfterContact(mem) =
        [mem EXCEPT !.limit = reply.limit, !.spent = reply.spent, !.contact = tick.at,
                    !.cumAtContact = mem.cum, !.offline = HubOfflinePolicy,
                    !.enforcement = reply.enforcement, !.atContact = anchor]
  BY DEF AfterContact
<1> HIDE DEF anchor
<1> QED
  BY <1>1, <1>2, <1>3, <1>4, <1>5, <1>6 DEF UserState

\* A midnight leads to another day of the model.
LEMMA NextDay ==
    ASSUME NEW d \in Day, d < MaxDay
    PROVE  d + 1 \in Day
<1>1. MaxDay \in Nat
  BY AgentTickAssumption
<1> QED
  BY <1>1 DEF Day

LEMMA TypeStep == TypeInv /\ [Next]_vars => TypeInv'
<1> SUFFICES ASSUME TypeInv, [Next]_vars PROVE TypeInv'
  OBVIOUS
<1> USE AgentTickAssumption, DaemonAssumption
<1>t. TypeOK /\ SavesKeepUp
  BY DEF TypeInv
<1>d. /\ daemon \in Daemon
      /\ daemon.saved <= daemon.spent /\ daemon.spent <= daemon.saved + SaveIntervalS
  BY <1>t DEF TypeOK, SavesKeepUp, Daemon
<1>n. NoTick \in Tick /\ NoReply \in Reply
  BY DEF NoTick, Tick, NoReply, Reply, Instructions
<1>1. CASE Observe
  <2> DEFINE acc == Measure(mem, daemon.spent)
  <2>1. acc \in [cum: Nat, raw: Nat]
    BY <1>t, MeasureType
  <2>2. mem' = [mem EXCEPT !.day = agentDay, !.cum = acc.cum, !.raw = acc.raw]
    BY <1>1 DEF Observe
  <2> HIDE DEF acc
  <2>3. mem' \in UserState
    BY <1>t, <2>1, <2>2 DEF TypeOK, UserState
  <2>5. chargeable' \in [Day -> Nat] /\ lost' \in Nat
    BY <1>1, <1>t, <1>d DEF Observe, TypeOK, Daemon, Larger
  <2>6. chargeable'[agentDay] \in Nat
    BY <1>t, <2>5 DEF TypeOK
  <2>4. tick' \in Tick
    <3> DEFINE used == chargeable'[agentDay]
    <3>1. tick' = [balance |-> daemon.balance, spent |-> daemon.spent, limit |-> daemon.limit,
                   force |-> FirstTick(mem) \/ DayRolledOver(mem), at |-> now, used |-> used]
      BY <1>1 DEF Observe
    <3>2. used \in Nat
      BY <2>6
    <3> HIDE DEF used
    <3> QED
      BY <1>t, <1>d, <3>1, <3>2 DEF TypeOK, Tick, Daemon, FirstTick, DayRolledOver
  <2> QED
    BY <1>1, <1>t, <2>3, <2>4, <2>5
       DEF Observe, TypeInv, TypeOK, SavesKeepUp, clockVars, hubVars
<1>2. CASE HubSync
  <2>1. mem.cum \in Nat /\ mem.applied \in Limits \cup {NoPolicy}
    BY <1>t DEF TypeOK, UserState
  <2>2. counter' \in [Day -> Nat]
    BY <1>2, <1>t, <2>1 DEF HubSync, TypeOK, Booked, Larger
  <2>3. GlobalSpent(counter'[hubDay], other) \subseteq Nat
    <3>1. counter'[hubDay] \in Nat /\ other \in Nat
      BY <2>2, <1>t DEF TypeOK
    <3> QED
      BY <3>1 DEF GlobalSpent, Larger
  <2>4. policy \in Limits /\ policy + grant \in Nat /\ mode \in Instructions
    BY <1>t DEF TypeOK
  <2>5. reply' \in Reply
    BY <1>2, <2>3, <2>4 DEF HubSync, Reply
  <2>6. misbooked' \subseteq Day
    BY <1>2, <1>t DEF HubSync, TypeOK
  <2> QED
    BY <1>2, <1>t, <2>2, <2>5, <2>6
       DEF HubSync, TypeInv, TypeOK, SavesKeepUp, clockVars
<1>3. CASE ApplyObserve
  <2>1. mem' \in UserState
    BY <1>3, <1>t, AfterContactType DEF ApplyObserve
  <2> QED
    BY <1>3, <1>t, <1>n, <2>1
       DEF ApplyObserve, Return, TypeInv, TypeOK, SavesKeepUp, clockVars, hubVars, historyVars
<1>4. ASSUME NEW pushed \in BOOLEAN, NEW accepted \in BOOLEAN,
             ApplyEnforce(pushed, accepted)
      PROVE  TypeInv'
  <2>1. Applied(mem, pushed) \in Limits \cup {NoPolicy}
    BY <1>t DEF Applied, TypeOK, Reply, UserState
  <2>2. mem' \in UserState
    BY <1>4, <1>t, <2>1, AfterContactType DEF ApplyEnforce
  <2> DEFINE d == Pushed(daemon, pushed)
  <2>3. d \in Daemon /\ d.spent = daemon.spent /\ d.saved = daemon.saved
    BY <1>t, PushKeepsSpent
  <2>4. tick.force \in BOOLEAN /\ Answer \in Target
    BY <1>t, TargetTypes DEF TypeOK, Tick
  <2>5. daemon' = Converge(d, Answer, tick.force, accepted)
    BY <1>4 DEF ApplyEnforce
  <2> HIDE DEF d
  <2>6. daemon' \in Daemon /\ Rewritten(d, daemon')
    BY <1>t, <1>d, <2>3, <2>4, <2>5, ConvergeRewrites
  <2>7. SavesKeepUp'
    BY <1>d, <2>3, <2>6, RewrittenKeepsUp DEF SavesKeepUp
  <2>8. lost' \in Nat
    BY <1>4, <1>t, <1>d, <2>3, <2>6 DEF ApplyEnforce, TypeOK, Rewritten, Daemon
  <2>9. faults' \in Nat
    BY <1>4, <1>t DEF ApplyEnforce, Spend, TypeOK
  <2> QED
    BY <1>4, <1>t, <1>n, <2>2, <2>6, <2>7, <2>8, <2>9
       DEF ApplyEnforce, Return, TypeInv, TypeOK, Daemon, clockVars, hubVars
<1>5. CASE Relinquish
  <2>1. mem' \in UserState
    BY <1>5, <1>t DEF Relinquish, TypeOK, UserState
  <2> QED
    BY <1>5, <1>t, <1>n, <2>1
       DEF Relinquish, Return, TypeInv, TypeOK, SavesKeepUp, clockVars, hubVars, historyVars
<1>6. ASSUME NEW accepted \in BOOLEAN, Unreachable(accepted)
      PROVE  TypeInv'
  <2>1. OfflineTarget(mem) \in Target
    BY <1>t, TargetTypes
  <2>2. daemon' = daemon \/ daemon' = Converge(daemon, OfflineTarget(mem), FALSE, accepted)
    BY <1>6 DEF Unreachable
  <2>3. Rewritten(daemon, daemon)
    BY <1>d DEF Rewritten, Daemon
  <2>4. daemon' \in Daemon /\ Rewritten(daemon, daemon')
    BY <1>t, <1>d, <2>1, <2>2, <2>3, ConvergeRewrites
  <2>5. SavesKeepUp'
    BY <1>d, <2>4, RewrittenKeepsUp DEF SavesKeepUp
  <2>6. lost' \in Nat /\ faults' \in Nat
    <3>1. /\ daemon.spent \in Nat /\ daemon'.spent \in Nat
          /\ daemon'.spent <= daemon.spent
      BY <1>d, <2>4 DEF Daemon, Rewritten
    <3>2. lost \in Nat /\ faults \in Nat
      BY <1>t DEF TypeOK
    <3>3. lost' = lost + (daemon.spent - daemon'.spent) /\ faults' = faults + 1
      BY <1>6 DEF Unreachable
    <3> QED
      BY <3>1, <3>2, <3>3
  <2> QED
    BY <1>6, <1>t, <1>n, <2>4, <2>5, <2>6
       DEF Unreachable, Return, TypeInv, TypeOK, Daemon, clockVars, hubVars
<1>7. CASE Save
  BY <1>7, <1>t DEF Save, TypeInv, TypeOK, SavesKeepUp, clockVars, hubVars, historyVars
<1>8. CASE Crash
  BY <1>8, <1>t, <1>n
     DEF Crash, TypeInv, TypeOK, SavesKeepUp, clockVars, hubVars, historyVars
<1>9. CASE Elapse
  <2>1. CASE UNCHANGED <<daemon, chargeable>>
    BY <1>9, <1>t, <2>1 DEF Elapse, TypeInv, TypeOK, SavesKeepUp, hubVars
  <2>2. ASSUME NEW save \in BOOLEAN, daemon' = ActiveSecond(daemon, save),
               chargeable' = [chargeable EXCEPT ![agentDay] = @ + 1]
        PROVE  TypeInv'
    <3>1. daemon' \in Daemon
      BY <1>d, <2>2, ActiveSecondType
    <3>2. daemon'.spent = daemon.spent + 1
      BY <1>d, <2>2 DEF ActiveSecond, Daemon
    <3>3. daemon'.saved = IF save \/ daemon.spent + 1 - daemon.saved > SaveIntervalS
                          THEN daemon.spent + 1 ELSE daemon.saved
      BY <1>d, <2>2 DEF ActiveSecond, Daemon
    <3>4. SavesKeepUp'
      <4>1. daemon.spent \in Nat /\ daemon.saved \in Nat
        BY <1>d DEF Daemon
      <4> QED
        BY <1>d, <3>2, <3>3, <4>1 DEF SavesKeepUp
    <3>5. chargeable' \in [Day -> Nat]
      BY <1>t, <2>2 DEF TypeOK
    <3> QED
      BY <1>9, <1>t, <3>1, <3>4, <3>5 DEF Elapse, TypeInv, TypeOK, Daemon, hubVars
  <2> QED
    BY <1>9, <2>1, <2>2 DEF Elapse
<1>10. CASE OtherDevice
  BY <1>10, <1>t DEF OtherDevice, TypeInv, TypeOK, SavesKeepUp, clockVars, historyVars
<1>11. CASE LocalMidnight
  <2>1. daemon' = [daemon EXCEPT !.balance = 0, !.spent = 0, !.saved = 0]
    BY <1>11 DEF LocalMidnight, RolloverDay
  <2>3. daemon' \in Daemon
    <3>1. ASSUME NEW b \in Int, NEW s \in Nat, NEW v \in Nat
          PROVE  [daemon EXCEPT !.balance = b, !.spent = s, !.saved = v] \in Daemon
      BY <1>d DEF Daemon
    <3>2. 0 \in Int /\ 0 \in Nat
      OBVIOUS
    <3> QED
      BY <2>1, <3>1, <3>2
  <2>4. daemon'.spent = 0 /\ daemon'.saved = 0
    BY <1>d, <2>1 DEF Daemon
  <2>2. localDay' \in Day
    <3>1. localDay \in Day
      BY <1>t DEF TypeOK
    <3>2. localDay < MaxDay /\ localDay' = localDay + 1
      BY <1>11 DEF LocalMidnight
    <3> QED
      BY <3>1, <3>2, NextDay
  <2> QED
    BY <1>11, <1>t, <2>2, <2>3, <2>4
       DEF LocalMidnight, TypeInv, TypeOK, SavesKeepUp, Daemon, hubVars, historyVars
<1>12. CASE AgentMidnight
  <2>1. agentDay' \in Day
    <3>1. agentDay \in Day
      BY <1>t DEF TypeOK
    <3>2. agentDay < MaxDay /\ agentDay' = agentDay + 1
      BY <1>12 DEF AgentMidnight
    <3> QED
      BY <3>1, <3>2, NextDay
  <2> QED
    BY <1>12, <1>t, <2>1
       DEF AgentMidnight, TypeInv, TypeOK, SavesKeepUp, hubVars, historyVars
<1>13. CASE HubMidnight
  <2>1. hubDay' \in Day
    <3>1. hubDay \in Day
      BY <1>t DEF TypeOK
    <3>2. hubDay < MaxDay /\ hubDay' = hubDay + 1
      BY <1>13 DEF HubMidnight
    <3> QED
      BY <3>1, <3>2, NextDay
  <2> QED
    BY <1>13, <1>t, <2>1
       DEF HubMidnight, TypeInv, TypeOK, SavesKeepUp, clockVars, historyVars
<1>14. CASE Admin
  <2>1. /\ policy' \in Limits /\ grant' \in Grants /\ mode' \in Instructions
        /\ status' \in {"active", "revoked"} /\ admin' \in Nat
    BY <1>14, <1>t DEF Admin, TypeOK
  <2> QED
    BY <1>14, <1>t, <2>1 DEF Admin, TypeInv, TypeOK, SavesKeepUp, clockVars, historyVars
<1>15. CASE UNCHANGED vars
  BY <1>15, <1>t
     DEF TypeInv, TypeOK, SavesKeepUp, vars, clockVars, hubVars, historyVars
<1> QED
  BY <1>1, <1>2, <1>3, <1>4, <1>5, <1>6, <1>7, <1>8, <1>9, <1>10, <1>11, <1>12,
     <1>13, <1>14, <1>15 DEF Next, AgentStep

\* Every variable of the agent, its daemon and its hub keeps its type: in particular
\* no counter ever goes negative, whatever timekpr shows and whatever is interrupted.
THEOREM TypeCorrect == Spec => []TypeOK
<1>1. TypeInv => TypeOK
  BY DEF TypeInv
<1> QED
  BY <1>1, TypeInit, TypeStep, PTL DEF Spec

-----------------------------------------------------------------------------
(***************************************************************************)
(* No second is charged twice.  NeverOvercharges is not inductive: what    *)
(* the next measurement adds depends on where timekpr's spent value stands *)
(* from the last one.  Covers says that it can be paid for.  Either the    *)
(* value on disk is within the tolerance of the last raw reading (a write  *)
(* can then take spent back only so far that it counts as an artifact) and *)
(* what is not yet charged is at least the distance to it, or all that     *)
(* timekpr shows is not yet charged, as after the device's own midnight.   *)
(***************************************************************************)
Covers(u, d, use) ==
    \/ /\ u.raw <= d.saved + RegressionToleranceS
       /\ u.cum <= use
       /\ u.cum + d.spent <= use + u.raw
    \/ u.cum + d.spent <= use

\* What is remembered of an earlier day was that day's use, and of today can be
\* carried on from.
Sound(u) ==
    /\ u.day # NoDay => u.day <= agentDay /\ u.cum <= chargeable[u.day]
    /\ u.day = agentDay => Covers(u, daemon, chargeable[agentDay])

ChargeInv ==
    /\ Sound(mem) /\ Sound(disk)
    /\ HubBooksOnlyRealUse

\* A write takes nothing from what can be paid for.
LEMMA CoversRewritten ==
    ASSUME NEW u \in UserState, NEW use \in Nat, NEW d \in Daemon, NEW e \in Daemon,
           Covers(u, d, use), Rewritten(d, e)
    PROVE  Covers(u, e, use)
<1>1. /\ u.raw \in Nat /\ u.cum \in Nat
      /\ d.spent \in Nat /\ d.saved \in Nat /\ e.spent \in Nat /\ e.saved \in Nat
  BY DEF UserState, Daemon
<1> QED
  BY <1>1, ConvergenceConfigAssumption DEF Covers, Rewritten

\* A measurement charges only what can be paid for, and the next one is covered again.
LEMMA CoversMeasured ==
    ASSUME NEW u \in UserState, NEW v \in UserState, NEW use \in Nat, NEW d \in Daemon,
           d.saved <= d.spent, d.spent <= d.saved + SaveIntervalS,
           Covers(u, d, use),
           v.cum = u.cum + Credit(u.raw, d.spent), v.raw = d.spent
    PROVE  v.cum <= use /\ Covers(v, d, use)
<1>1. {u.raw, u.cum, v.raw, v.cum, d.spent, d.saved} \subseteq Nat
  BY DEF UserState, Daemon
<1>2. SaveIntervalS \in Nat /\ RegressionToleranceS \in Nat
  BY ConvergenceConfigAssumption, DaemonAssumption
<1>3. CASE d.spent >= u.raw
  BY <1>1, <1>2, <1>3, FlushWithinTolerance DEF Covers, Credit
<1>4. CASE d.spent < u.raw /\ u.raw - d.spent <= RegressionToleranceS
  BY <1>1, <1>2, <1>4, FlushWithinTolerance DEF Covers, Credit
<1>5. CASE d.spent < u.raw /\ u.raw - d.spent > RegressionToleranceS
  BY <1>1, <1>2, <1>5, FlushWithinTolerance DEF Covers, Credit
<1> QED
  BY <1>1, <1>2, <1>3, <1>4, <1>5

LEMMA ChargeInit == Init => ChargeInv
<1> SUFFICES ASSUME Init PROVE ChargeInv
  OBVIOUS
<1>1. mem.day = NoDay /\ disk.day = NoDay /\ agentDay = 0
  BY DEF Init, FreshUserState
<1>2. NoDay # agentDay
  BY <1>1 DEF NoDay
<1>3. HubBooksOnlyRealUse
  BY DEF Init, HubBooksOnlyRealUse
<1> QED
  BY <1>1, <1>2, <1>3 DEF ChargeInv, Sound

\* Sound is preserved by every step that leaves the remembered counter alone and does
\* to the daemon what a write may do.
LEMMA SoundKept ==
    ASSUME TypeInv, TypeInv',
           Rewritten(daemon, daemon'), UNCHANGED <<agentDay, chargeable>>,
           NEW u \in UserState, NEW v \in UserState,
           v.day = u.day, v.cum = u.cum, v.raw = u.raw,
           Sound(u)
    PROVE  /\ v.day # NoDay => v.day <= agentDay' /\ v.cum <= chargeable'[v.day]
           /\ v.day = agentDay' => Covers(v, daemon', chargeable'[agentDay'])
<1>1. daemon \in Daemon /\ daemon' \in Daemon
  BY DEF TypeInv, TypeOK, Daemon
<1>2. chargeable[agentDay] \in Nat
  BY DEF TypeInv, TypeOK
<1>3. ASSUME v.day = agentDay'
      PROVE  Covers(v, daemon', chargeable'[agentDay'])
  <2>1. Covers(u, daemon, chargeable[agentDay])
    BY <1>3 DEF Sound
  <2>2. Covers(u, daemon', chargeable[agentDay])
    BY <1>1, <1>2, <2>1, CoversRewritten
  <2> QED
    BY <2>2 DEF Covers
<1> QED
  BY <1>3 DEF Sound

LEMMA ChargeStep == TypeInv /\ TypeInv' /\ ChargeInv /\ [Next]_vars => ChargeInv'
<1> SUFFICES ASSUME TypeInv, TypeInv', ChargeInv, [Next]_vars
             PROVE  ChargeInv'
  OBVIOUS
<1>t. TypeOK /\ TypeOK'
  BY DEF TypeInv
<1>d. /\ daemon \in Daemon /\ daemon' \in Daemon
      /\ daemon.saved <= daemon.spent /\ daemon.spent <= daemon.saved + SaveIntervalS
  BY DEF TypeInv, TypeOK, SavesKeepUp, Daemon
<1>u. /\ mem \in UserState /\ mem' \in UserState
      /\ disk \in UserState /\ disk' \in UserState
  BY <1>t DEF TypeOK
<1>n. /\ daemon.spent \in Nat /\ daemon.saved \in Nat
      /\ daemon'.spent \in Nat /\ daemon'.saved \in Nat
      /\ mem.cum \in Nat /\ mem.raw \in Nat /\ disk.cum \in Nat /\ disk.raw \in Nat
      /\ agentDay \in Nat /\ NoDay \notin Nat
      /\ Day \subseteq Nat /\ \A d \in Day : chargeable[d] \in Nat
  <2>1. /\ daemon.spent \in Nat /\ daemon.saved \in Nat
        /\ daemon'.spent \in Nat /\ daemon'.saved \in Nat
    BY <1>d DEF Daemon
  <2>2. mem.cum \in Nat /\ mem.raw \in Nat /\ disk.cum \in Nat /\ disk.raw \in Nat
    BY <1>u DEF UserState
  <2>3. Day \subseteq Nat /\ agentDay \in Day /\ NoDay \notin Nat
    BY <1>t DEF TypeOK, Day, NoDay
  <2>4. \A d \in Day : chargeable[d] \in Nat
    BY <1>t DEF TypeOK
  <2> QED
    BY <2>1, <2>2, <2>3, <2>4
<1>r. Rewritten(daemon, daemon)
  BY <1>d, <1>n DEF Rewritten
<1>c. Sound(mem) /\ Sound(disk) /\ HubBooksOnlyRealUse
  BY DEF ChargeInv
\* A step that rewrites at most the daemon and keeps the counters.
<1>k. ASSUME Rewritten(daemon, daemon'), UNCHANGED <<agentDay, chargeable, counter, misbooked>>,
             mem'.day = mem.day, mem'.cum = mem.cum, mem'.raw = mem.raw,
             disk' \in {disk, mem}
      PROVE  ChargeInv'
  <2>1. Sound(mem)'
    BY <1>k, <1>u, <1>c, SoundKept DEF Sound
  <2>2. Sound(disk)'
    BY <1>k, <1>u, <1>c, SoundKept DEF Sound
  <2>3. HubBooksOnlyRealUse'
    BY <1>k, <1>c DEF HubBooksOnlyRealUse
  <2> QED
    BY <2>1, <2>2, <2>3 DEF ChargeInv
<1>1. CASE Observe
  <2> DEFINE acc == Measure(mem, daemon.spent)
             use == chargeable'[agentDay]
  <2>1. /\ mem' = [mem EXCEPT !.day = agentDay, !.cum = acc.cum, !.raw = acc.raw]
        /\ UNCHANGED <<daemon, agentDay, counter, misbooked, disk>>
    BY <1>1 DEF Observe, clockVars, hubVars
  <2>2. /\ mem'.day = agentDay /\ mem'.cum = acc.cum /\ mem'.raw = acc.raw
    BY <1>u, <2>1 DEF UserState
  \* What may be charged only grows, and only today's on the first tick.
  <2>3. /\ \A d \in Day : chargeable'[d] >= chargeable[d] /\ chargeable'[d] \in Nat
        /\ FirstTick(mem) => use >= daemon.spent
    BY <1>1, <1>n, <1>t DEF Observe, Larger, TypeOK
  <2>4. agentDay \in Day /\ use \in Nat /\ chargeable[agentDay] \in Nat
    BY <1>n, <1>t, <2>3 DEF TypeOK
  <2>5. HubBooksOnlyRealUse'
    BY <2>1, <2>3, <1>c, <1>t, <1>n DEF HubBooksOnlyRealUse, TypeOK
  <2>6. mem'.cum <= use /\ Covers(mem', daemon, use)
    <3>1. CASE FirstTick(mem)
      <4>1. mem'.cum = daemon.spent /\ mem'.raw = daemon.spent
        BY <2>2, <3>1 DEF Measure, FirstTick, DayRolledOver
      <4> QED
        BY <1>d, <1>n, <2>3, <2>4, <3>1, <4>1, FlushWithinTolerance,
           ConvergenceConfigAssumption, DaemonAssumption DEF Covers
    <3>2. CASE DayRolledOver(mem)
      <4>1. mem'.cum = 0 /\ mem'.raw = daemon.spent
        BY <2>2, <3>2 DEF Measure, DayRolledOver, FirstTick, ResetForNewCanonicalDay
      <4> QED
        BY <1>d, <1>n, <2>4, <4>1, FlushWithinTolerance,
           ConvergenceConfigAssumption, DaemonAssumption DEF Covers
    <3>3. CASE ~FirstTick(mem) /\ ~DayRolledOver(mem)
      <4>1. mem.day = agentDay
        BY <3>3 DEF FirstTick, DayRolledOver
      <4>2. Covers(mem, daemon, chargeable[agentDay])
        BY <1>c, <4>1 DEF Sound
      <4>3. Covers(mem, daemon, use)
        BY <4>2, <2>3, <2>4, <1>n DEF Covers
      <4>4. mem'.cum = mem.cum + Credit(mem.raw, daemon.spent) /\ mem'.raw = daemon.spent
        BY <2>2, <3>3 DEF Measure, AdvanceCumulative
      <4> QED
        BY <1>d, <1>u, <2>4, <4>3, <4>4, CoversMeasured
    <3> QED
      BY <3>1, <3>2, <3>3
  <2>7. Sound(mem)'
    BY <1>n, <2>1, <2>2, <2>6 DEF Sound
  <2>8. Sound(disk)'
    <3>1. disk.day # NoDay => disk.day \in Day
      BY <1>u DEF UserState
    <3>2. disk.day # NoDay => disk.day <= agentDay /\ disk.cum <= chargeable'[disk.day]
      <4>1. ASSUME disk.day # NoDay
            PROVE  /\ disk.day <= agentDay /\ disk.cum <= chargeable[disk.day]
                   /\ chargeable[disk.day] <= chargeable'[disk.day]
                   /\ chargeable[disk.day] \in Nat /\ chargeable'[disk.day] \in Nat
        BY <1>c, <1>n, <2>3, <3>1, <4>1 DEF Sound
      <4> QED
        BY <4>1, <1>n
    <3>3. disk.day = agentDay => Covers(disk, daemon, use)
      BY <1>c, <1>n, <2>3, <2>4 DEF Sound, Covers
    <3> QED
      BY <2>1, <3>2, <3>3 DEF Sound
  <2> QED
    BY <2>5, <2>7, <2>8 DEF ChargeInv
<1>2. CASE HubSync
  <2>1. UNCHANGED <<mem, disk, daemon, agentDay, chargeable>>
    BY <1>2 DEF HubSync, clockVars
  <2>2. Sound(mem)' /\ Sound(disk)'
    BY <1>c, <2>1 DEF Sound, Covers
  <2>3. ASSUME NEW d \in Day, d \notin misbooked'
        PROVE  counter'[d] <= chargeable[d]
    <3>1. counter[d] <= chargeable[d]
      BY <1>2, <1>c, <2>3 DEF HubSync, HubBooksOnlyRealUse
    <3>2. CASE d # hubDay
      BY <1>2, <1>t, <3>1, <3>2 DEF HubSync, Booked, TypeOK
    <3>3. CASE d = hubDay
      <4>1. mem.day = hubDay
        BY <1>2, <2>3, <3>3 DEF HubSync
      <4>2. mem.cum <= chargeable[d]
        BY <1>c, <1>n, <3>3, <4>1 DEF Sound
      <4>3. counter'[d] = Larger(counter[d], mem.cum)
        BY <1>2, <1>t, <3>3 DEF HubSync, Booked, TypeOK
      <4> QED
        BY <3>1, <4>2, <4>3 DEF Larger
    <3> QED
      BY <3>2, <3>3
  <2> QED
    BY <2>1, <2>2, <2>3 DEF ChargeInv, HubBooksOnlyRealUse
<1>3. CASE ApplyObserve
  <2>1. mem' = AfterContact(mem)
    BY <1>3 DEF ApplyObserve
  <2>2. mem'.day = mem.day /\ mem'.cum = mem.cum /\ mem'.raw = mem.raw
    BY <1>u, <2>1 DEF AfterContact, UserState
  <2> QED
    BY <1>3, <1>k, <1>r, <2>2 DEF ApplyObserve, clockVars, hubVars, historyVars
<1>4. ASSUME NEW pushed \in BOOLEAN, NEW accepted \in BOOLEAN,
             ApplyEnforce(pushed, accepted)
      PROVE  ChargeInv'
  <2>1. mem'.day = mem.day /\ mem'.cum = mem.cum /\ mem'.raw = mem.raw
    BY <1>4, <1>u DEF ApplyEnforce, AfterContact, UserState
  <2> DEFINE d == Pushed(daemon, pushed)
  <2>2. d \in Daemon /\ d.spent = daemon.spent /\ d.saved = daemon.saved
    BY <1>t, PushKeepsSpent
  <2>3. tick.force \in BOOLEAN /\ Answer \in Target
    BY <1>t, TargetTypes DEF TypeOK, Tick
  <2>4. daemon' = Converge(d, Answer, tick.force, accepted)
    BY <1>4 DEF ApplyEnforce
  <2> HIDE DEF d
  <2>5. Rewritten(daemon, daemon')
    BY <1>t, <1>d, <2>2, <2>3, <2>4, ConvergeRewrites DEF Rewritten
  <2> QED
    BY <1>4, <1>k, <2>1, <2>5 DEF ApplyEnforce, clockVars, hubVars
<1>5. CASE Relinquish
  <2>1. mem'.day = mem.day /\ mem'.cum = mem.cum /\ mem'.raw = mem.raw
    BY <1>5, <1>u DEF Relinquish, UserState
  <2> QED
    BY <1>5, <1>k, <1>r, <2>1 DEF Relinquish, clockVars, hubVars, historyVars
<1>6. ASSUME NEW accepted \in BOOLEAN, Unreachable(accepted)
      PROVE  ChargeInv'
  <2>1. OfflineTarget(mem) \in Target
    BY <1>t, TargetTypes
  <2>2. daemon' = daemon \/ daemon' = Converge(daemon, OfflineTarget(mem), FALSE, accepted)
    BY <1>6 DEF Unreachable
  <2>3. Rewritten(daemon, daemon')
    BY <1>t, <1>d, <1>r, <2>1, <2>2, ConvergeRewrites
  <2> QED
    BY <1>6, <1>k, <2>3 DEF Unreachable, clockVars, hubVars
<1>7. CASE Save
  BY <1>7, <1>k, <1>r DEF Save, clockVars, hubVars, historyVars
<1>8. CASE Crash
  <2>1. mem' = disk /\ UNCHANGED <<disk, daemon, agentDay, chargeable, counter, misbooked>>
    BY <1>8 DEF Crash, clockVars, hubVars, historyVars
  <2> QED
    BY <1>c, <2>1 DEF ChargeInv, Sound, Covers, HubBooksOnlyRealUse
<1>9. CASE Elapse
  <2>1. UNCHANGED <<agentDay, mem, disk, counter, misbooked>>
    BY <1>9 DEF Elapse, hubVars
  <2>2. CASE UNCHANGED <<daemon, chargeable>>
    BY <1>k, <1>r, <2>1, <2>2
  <2>3. ASSUME NEW save \in BOOLEAN, daemon' = ActiveSecond(daemon, save),
               chargeable' = [chargeable EXCEPT ![agentDay] = @ + 1]
        PROVE  ChargeInv'
    <3>1. daemon'.spent = daemon.spent + 1 /\ daemon'.saved >= daemon.saved
      <4>1. daemon'.spent = daemon.spent + 1
        BY <1>d, <2>3 DEF ActiveSecond, Daemon
      <4>2. daemon'.saved = IF save \/ daemon.spent + 1 - daemon.saved > SaveIntervalS
                            THEN daemon.spent + 1 ELSE daemon.saved
        BY <1>d, <2>3 DEF ActiveSecond, Daemon
      <4> QED
        BY <1>d, <1>n, <4>1, <4>2
    <3>2. /\ chargeable'[agentDay] = chargeable[agentDay] + 1
          /\ \A d \in Day : chargeable'[d] >= chargeable[d] /\ chargeable'[d] \in Nat
      BY <1>t, <1>n, <2>3 DEF TypeOK
    <3>3. chargeable[agentDay] \in Nat /\ RegressionToleranceS \in Nat
      BY <1>t, <1>n, ConvergenceConfigAssumption DEF TypeOK
    <3>4. ASSUME NEW u \in UserState, Sound(u)
          PROVE  /\ u.day # NoDay => u.day <= agentDay' /\ u.cum <= chargeable'[u.day]
                 /\ u.day = agentDay' => Covers(u, daemon', chargeable'[agentDay'])
      <4>1. u.cum \in Nat /\ u.raw \in Nat /\ (u.day # NoDay => u.day \in Day)
        BY <3>4 DEF UserState
      <4>2. u.day # NoDay => u.day <= agentDay /\ u.cum <= chargeable'[u.day]
        <5>1. ASSUME u.day # NoDay
              PROVE  /\ u.day <= agentDay /\ u.cum <= chargeable[u.day]
                     /\ chargeable[u.day] <= chargeable'[u.day]
                     /\ chargeable[u.day] \in Nat /\ chargeable'[u.day] \in Nat
          BY <1>n, <3>2, <3>4, <4>1, <5>1 DEF Sound
        <5> QED
          BY <4>1, <5>1
      <4>3. u.day = agentDay => Covers(u, daemon', chargeable'[agentDay])
        <5>1. u.day = agentDay => Covers(u, daemon, chargeable[agentDay])
          BY <3>4 DEF Sound
        <5> QED
          BY <1>n, <3>1, <3>2, <3>3, <4>1, <5>1 DEF Covers
      <4> QED
        BY <2>1, <4>2, <4>3
    <3>5. Sound(mem)' /\ Sound(disk)'
      BY <1>c, <1>u, <2>1, <3>4 DEF Sound
    <3>6. HubBooksOnlyRealUse'
      BY <1>c, <1>t, <1>n, <2>1, <3>2 DEF HubBooksOnlyRealUse, TypeOK
    <3> QED
      BY <3>5, <3>6 DEF ChargeInv
  <2> QED
    BY <1>9, <2>2, <2>3 DEF Elapse
<1>10. CASE OtherDevice
  BY <1>10, <1>k, <1>r DEF OtherDevice, clockVars, historyVars
<1>11. CASE LocalMidnight
  <2>1. UNCHANGED <<agentDay, mem, disk, counter, misbooked, chargeable>>
    BY <1>11 DEF LocalMidnight, hubVars, historyVars
  <2>2. daemon'.spent = 0
    BY <1>11, <1>d DEF LocalMidnight, RolloverDay, Daemon
  \* All that timekpr shows is not yet charged: nothing.
  <2>3. ASSUME NEW u \in UserState, Sound(u), u.day = agentDay
        PROVE  Covers(u, daemon', chargeable[agentDay])
    <3>1. u.cum \in Nat /\ u.raw \in Nat /\ chargeable[agentDay] \in Nat
      BY <2>3, <1>t, <1>n DEF UserState, TypeOK
    <3>2. u.cum <= chargeable[agentDay]
      BY <2>3, <1>n DEF Sound
    <3> QED
      BY <2>2, <3>1, <3>2 DEF Covers
  <2> QED
    BY <1>c, <1>u, <2>1, <2>3 DEF ChargeInv, Sound, HubBooksOnlyRealUse
<1>12. CASE AgentMidnight
  <2>1. /\ agentDay' = agentDay + 1
        /\ UNCHANGED <<daemon, mem, disk, counter, misbooked, chargeable>>
    BY <1>12 DEF AgentMidnight, hubVars, historyVars
  <2>2. ASSUME NEW u \in UserState, Sound(u)
        PROVE  u.day # agentDay' /\ (u.day # NoDay => u.day <= agentDay')
    <3>1. u.day # NoDay => u.day \in Nat /\ u.day <= agentDay
      BY <2>2, <1>n DEF Sound, UserState
    <3> QED
      BY <1>n, <2>1, <3>1
  <2>3. Sound(mem)' /\ Sound(disk)'
    BY <1>c, <1>u, <2>1, <2>2 DEF Sound
  <2> QED
    BY <1>c, <2>1, <2>3 DEF ChargeInv, HubBooksOnlyRealUse
<1>13. CASE HubMidnight
  BY <1>13, <1>k, <1>r DEF HubMidnight, clockVars, historyVars
<1>14. CASE Admin
  BY <1>14, <1>k, <1>r DEF Admin, clockVars, historyVars
<1>15. CASE UNCHANGED vars
  BY <1>15, <1>k, <1>r DEF vars, clockVars, hubVars, historyVars
<1> QED
  BY <1>1, <1>2, <1>3, <1>4, <1>5, <1>6, <1>7, <1>8, <1>9, <1>10, <1>11, <1>12,
     <1>13, <1>14, <1>15 DEF Next, AgentStep

\* However timekpr's counter jumps back and wherever the agent is killed, neither the
\* process nor state.json holds more seconds for today than the user spent.
THEOREM NoOvercharge == Spec => []NeverOvercharges
<1>1. TypeInv /\ ChargeInv => NeverOvercharges
  <2> SUFFICES ASSUME TypeInv, ChargeInv, NEW u \in {mem, disk}, u.day = agentDay
               PROVE  u.cum <= chargeable[agentDay]
    BY DEF NeverOvercharges
  <2>1. agentDay # NoDay
    BY DEF TypeInv, TypeOK, Day, NoDay
  <2> QED
    BY <2>1 DEF ChargeInv, Sound
<1> QED
  BY <1>1, TypeInit, TypeStep, ChargeInit, ChargeStep, PTL DEF Spec

\* The hub books no more for a day than the day's use, unless a report crossed
\* midnight on the way to it.
THEOREM HubBooks == Spec => []HubBooksOnlyRealUse
<1>1. ChargeInv => HubBooksOnlyRealUse
  BY DEF ChargeInv
<1> QED
  BY <1>1, TypeInit, TypeStep, ChargeInit, ChargeStep, PTL DEF Spec

-----------------------------------------------------------------------------
(***************************************************************************)
(* No second is forgotten either, but those an '=' write took back or the  *)
(* first tick of a day forgave.  UseIsCounted speaks of the next           *)
(* measurement; what carries it from one to the next is that, until the    *)
(* device's own midnight, timekpr's spent value never falls more than a    *)
(* save interval behind the last raw reading, so that a fall is worth      *)
(* nothing and the distance to the raw reading is what is still to charge. *)
(***************************************************************************)
Counted(u) ==
    localDay = 0 =>
      /\ u.day # NoDay => u.raw <= daemon.saved + SaveIntervalS
      /\ u.day = agentDay =>
           chargeable[agentDay] + u.raw <= u.cum + lost + daemon.spent
      /\ u.day = NoDay => chargeable[agentDay] <= daemon.spent + lost

\* What is on disk is no newer than what is in memory, and no use is booked ahead.
InOrder ==
    /\ disk.day <= mem.day /\ mem.day <= agentDay
    /\ \A d \in Day : d > agentDay => chargeable[d] = 0

CountInv == Counted(mem) /\ Counted(disk) /\ InOrder

LEMMA CountInit == Init => CountInv
<1> SUFFICES ASSUME Init PROVE CountInv
  OBVIOUS
<1>1. mem.day = NoDay /\ disk.day = NoDay /\ agentDay = 0 /\ lost = 0
  BY DEF Init, FreshUserState
<1>2. daemon.spent = 0 /\ 0 \in Day /\ \A d \in Day : chargeable[d] = 0
  BY AgentTickAssumption DEF Init, Day
<1>3. InOrder
  BY <1>1, <1>2 DEF InOrder, NoDay
<1>4. Counted(mem) /\ Counted(disk)
  BY <1>1, <1>2 DEF Counted, NoDay
<1> QED
  BY <1>3, <1>4 DEF CountInv

\* Counted is preserved when what a write takes back is accounted for as lost.
LEMMA CountedKept ==
    ASSUME TypeInv, TypeInv',
           Rewritten(daemon, daemon'), UNCHANGED <<localDay, agentDay, chargeable>>,
           lost' = lost + (daemon.spent - daemon'.spent),
           NEW u \in UserState, NEW v \in UserState,
           v.day = u.day, v.cum = u.cum, v.raw = u.raw,
           Counted(u)
    PROVE  localDay' = 0 =>
             /\ v.day # NoDay => v.raw <= daemon'.saved + SaveIntervalS
             /\ v.day = agentDay' =>
                  chargeable'[agentDay'] + v.raw <= v.cum + lost' + daemon'.spent
             /\ v.day = NoDay => chargeable'[agentDay'] <= daemon'.spent + lost'
<1>1. daemon \in Daemon /\ daemon' \in Daemon
  BY DEF TypeInv, TypeOK, Daemon
<1>2. /\ daemon.spent \in Nat /\ daemon.saved \in Nat
      /\ daemon'.spent \in Nat /\ daemon'.saved \in Nat
      /\ daemon'.saved >= daemon.saved
  BY <1>1 DEF Daemon, Rewritten
<1>3. /\ chargeable[agentDay] \in Nat /\ chargeable'[agentDay'] = chargeable[agentDay]
      /\ lost \in Nat
  BY DEF TypeInv, TypeOK
<1>4. u.cum \in Nat /\ u.raw \in Nat /\ v.cum \in Nat /\ v.raw \in Nat
  BY DEF UserState
<1>5. SaveIntervalS \in Nat
  BY DaemonAssumption
<1>6. SUFFICES ASSUME localDay = 0
               PROVE  /\ v.day # NoDay => v.raw <= daemon'.saved + SaveIntervalS
                      /\ v.day = agentDay =>
                           chargeable[agentDay] + v.raw <= v.cum + lost' + daemon'.spent
                      /\ v.day = NoDay => chargeable[agentDay] <= daemon'.spent + lost'
  BY <1>3
<1>7. /\ v.day # NoDay => u.raw <= daemon.saved + SaveIntervalS
      /\ v.day = agentDay =>
           chargeable[agentDay] + u.raw <= u.cum + lost + daemon.spent
      /\ v.day = NoDay => chargeable[agentDay] <= daemon.spent + lost
  BY <1>6 DEF Counted
<1>8. v.raw = u.raw /\ v.cum = u.cum /\ lost' = lost + (daemon.spent - daemon'.spent)
  OBVIOUS
<1> QED
  BY <1>2, <1>3, <1>4, <1>5, <1>7, <1>8

\* A measurement adds at least what is still to charge: the credit is at least the
\* distance from the last raw reading, backwards or forwards.
LEMMA CreditAtLeast ==
    ASSUME NEW prev \in Nat, NEW curr \in Nat
    PROVE  curr - prev <= Credit(prev, curr)
  BY ConvergenceConfigAssumption DEF Credit

LEMMA CountStep == TypeInv /\ TypeInv' /\ CountInv /\ [Next]_vars => CountInv'
<1> SUFFICES ASSUME TypeInv, TypeInv', CountInv, [Next]_vars
             PROVE  CountInv'
  OBVIOUS
<1>t. TypeOK /\ TypeOK'
  BY DEF TypeInv
<1>d. /\ daemon \in Daemon /\ daemon' \in Daemon
      /\ daemon.saved <= daemon.spent /\ daemon.spent <= daemon.saved + SaveIntervalS
  BY DEF TypeInv, TypeOK, SavesKeepUp, Daemon
<1>u. /\ mem \in UserState /\ mem' \in UserState
      /\ disk \in UserState /\ disk' \in UserState
  BY <1>t DEF TypeOK
<1>n. /\ daemon.spent \in Nat /\ daemon.saved \in Nat
      /\ daemon'.spent \in Nat /\ daemon'.saved \in Nat
      /\ lost \in Nat /\ SaveIntervalS \in Nat
      /\ agentDay \in Day /\ localDay \in Nat
      /\ Day \subseteq Nat /\ \A d \in Day : chargeable[d] \in Nat
  <2>1. /\ daemon.spent \in Nat /\ daemon.saved \in Nat
        /\ daemon'.spent \in Nat /\ daemon'.saved \in Nat
    BY <1>d DEF Daemon
  <2>2. Day \subseteq Nat /\ agentDay \in Day /\ localDay \in Nat /\ lost \in Nat
    BY <1>t DEF TypeOK, Day
  <2>3. \A d \in Day : chargeable[d] \in Nat
    BY <1>t DEF TypeOK
  <2> QED
    BY <2>1, <2>2, <2>3, DaemonAssumption
<1>r. Rewritten(daemon, daemon) /\ lost = lost + (daemon.spent - daemon.spent)
  BY <1>d, <1>n DEF Rewritten
<1>c. Counted(mem) /\ Counted(disk) /\ InOrder
  BY DEF CountInv
<1>o. /\ mem.day \in Int /\ disk.day \in Int /\ agentDay \in Nat
      /\ NoDay <= disk.day /\ disk.day <= mem.day /\ mem.day <= agentDay
  <2>1. mem.day \in Day \cup {NoDay} /\ disk.day \in Day \cup {NoDay}
    BY <1>u DEF UserState
  <2>2. \A d \in Day \cup {NoDay} : d \in Int /\ NoDay <= d
    BY DEF Day, NoDay
  <2>3. disk.day <= mem.day /\ mem.day <= agentDay
    BY <1>c DEF InOrder
  <2> QED
    BY <1>n, <2>1, <2>2, <2>3
\* A step that rewrites at most the daemon and keeps the counters.
<1>k. ASSUME Rewritten(daemon, daemon'),
             UNCHANGED <<localDay, agentDay, chargeable>>,
             lost' = lost + (daemon.spent - daemon'.spent),
             mem'.day = mem.day, mem'.cum = mem.cum, mem'.raw = mem.raw,
             disk' \in {disk, mem}
      PROVE  CountInv'
  <2>1. Counted(mem)'
    BY <1>k, <1>u, <1>c, CountedKept DEF Counted
  <2>2. Counted(disk)'
    BY <1>k, <1>u, <1>c, CountedKept DEF Counted
  <2>3. disk'.day <= mem'.day
    <3>1. mem.day <= mem.day
      BY <1>o
    <3> QED
      BY <1>k, <1>c, <3>1 DEF InOrder
  <2> QED
    BY <1>k, <1>c, <2>1, <2>2, <2>3 DEF CountInv, InOrder
<1>1. CASE Observe
  <2> DEFINE acc == Measure(mem, daemon.spent)
             use == chargeable'[agentDay]
  <2>1. /\ mem' = [mem EXCEPT !.day = agentDay, !.cum = acc.cum, !.raw = acc.raw]
        /\ UNCHANGED <<daemon, localDay, agentDay, disk>>
    BY <1>1 DEF Observe, clockVars
  <2>2. mem'.day = agentDay /\ mem'.cum = acc.cum /\ mem'.raw = acc.raw
    BY <1>u, <2>1 DEF UserState
  <2>3. /\ FirstTick(mem) =>
             /\ lost' = IF DayRolledOver(mem) THEN chargeable[agentDay] ELSE lost
             /\ use = Larger(chargeable[agentDay], daemon.spent)
             /\ \A d \in Day \ {agentDay} : chargeable'[d] = chargeable[d]
        /\ ~FirstTick(mem) =>
             /\ lost' = IF DayRolledOver(mem) THEN chargeable[agentDay] ELSE lost
             /\ chargeable' = chargeable
    BY <1>1, <1>t, <1>n DEF Observe, TypeOK
  <2>4. chargeable[agentDay] \in Nat /\ agentDay \in Nat /\ NoDay \notin Nat
    BY <1>n DEF NoDay
  <2>5. InOrder'
    <3>1. disk.day <= agentDay
      BY <1>o
    <3>2. \A d \in Day : d > agentDay => chargeable'[d] = 0
      BY <1>c, <2>3, <2>4, <1>n DEF InOrder
    <3> QED
      BY <2>1, <2>2, <2>4, <3>1, <3>2 DEF InOrder
  <2>6. mem'.raw = daemon.spent
    BY <2>2 DEF Measure, AdvanceCumulative, ResetForNewCanonicalDay, FirstTick, DayRolledOver
  <2>7. localDay = 0 => use + mem'.raw <= mem'.cum + lost' + daemon.spent
    <3>1. CASE FirstTick(mem)
      <4>1. mem'.cum = daemon.spent /\ ~DayRolledOver(mem) /\ mem.day = NoDay
        BY <2>2, <3>1 DEF Measure, FirstTick, DayRolledOver
      <4>2. localDay = 0 => chargeable[agentDay] <= daemon.spent + lost
        BY <1>c, <4>1 DEF Counted
      <4>3. use = Larger(chargeable[agentDay], daemon.spent) /\ lost' = lost
        BY <2>3, <3>1, <4>1
      <4> QED
        BY <1>n, <2>4, <2>6, <4>1, <4>2, <4>3 DEF Larger
    <3>2. CASE DayRolledOver(mem)
      <4>1. mem'.cum = 0 /\ ~FirstTick(mem)
        BY <2>2, <3>2 DEF Measure, FirstTick, DayRolledOver, ResetForNewCanonicalDay
      <4>2. use = chargeable[agentDay] /\ lost' = chargeable[agentDay]
        BY <2>3, <3>2, <4>1
      <4> QED
        BY <1>n, <2>4, <2>6, <4>1, <4>2
    <3>3. CASE ~FirstTick(mem) /\ ~DayRolledOver(mem)
      <4>1. mem.day = agentDay
        BY <3>3 DEF FirstTick, DayRolledOver
      <4>2. mem.cum \in Nat /\ mem.raw \in Nat
        BY <1>u DEF UserState
      <4>3. mem'.cum = mem.cum + Credit(mem.raw, daemon.spent)
        BY <2>2, <3>3 DEF Measure, AdvanceCumulative
      <4>4. use = chargeable[agentDay] /\ lost' = lost
        BY <2>3, <3>3
      <4>5. /\ Credit(mem.raw, daemon.spent) \in Nat
            /\ daemon.spent - mem.raw <= Credit(mem.raw, daemon.spent)
        BY <1>n, <4>2, CreditBounds, CreditAtLeast
      <4>6. localDay = 0 =>
              chargeable[agentDay] + mem.raw <= mem.cum + lost + daemon.spent
        BY <1>c, <4>1 DEF Counted
      <4> QED
        BY <1>n, <2>4, <2>6, <4>2, <4>3, <4>4, <4>5, <4>6
    <3> QED
      BY <3>1, <3>2, <3>3
  <2>8. Counted(mem)'
    BY <1>d, <1>n, <2>1, <2>2, <2>4, <2>6, <2>7 DEF Counted
  <2>9. Counted(disk)'
    <3>1. CASE FirstTick(mem)
      <4>1. mem.day = NoDay /\ disk.day = NoDay /\ ~DayRolledOver(mem)
        BY <3>1, <1>o DEF FirstTick, DayRolledOver, NoDay
      <4>2. localDay = 0 => chargeable[agentDay] <= daemon.spent + lost
        BY <1>c, <4>1 DEF Counted
      <4>3. use = Larger(chargeable[agentDay], daemon.spent) /\ lost' = lost
        BY <2>3, <3>1, <4>1
      <4>4. localDay = 0 => use <= daemon.spent + lost'
        BY <1>n, <2>4, <4>2, <4>3 DEF Larger
      <4> QED
        BY <2>1, <2>4, <4>1, <4>4 DEF Counted
    <3>2. CASE DayRolledOver(mem)
      <4>1. mem.day < agentDay /\ ~FirstTick(mem)
        BY <3>2, <1>o DEF FirstTick, DayRolledOver
      <4>2. disk.day # agentDay
        BY <4>1, <1>o
      <4>3. use = chargeable[agentDay] /\ lost' = chargeable[agentDay]
        BY <2>3, <3>2, <4>1
      <4>4. use <= daemon.spent + lost'
        BY <1>n, <2>4, <4>3
      <4> QED
        BY <1>c, <2>1, <4>2, <4>4 DEF Counted
    <3>3. CASE ~FirstTick(mem) /\ ~DayRolledOver(mem)
      <4>1. chargeable' = chargeable /\ lost' = lost
        BY <2>3, <3>3
      <4> QED
        BY <1>c, <2>1, <4>1 DEF Counted
    <3> QED
      BY <3>1, <3>2, <3>3
  <2> QED
    BY <2>5, <2>8, <2>9 DEF CountInv
<1>2. CASE HubSync
  <2>1. UNCHANGED <<mem, disk, daemon, localDay, agentDay, chargeable, lost>>
    BY <1>2 DEF HubSync, clockVars
  <2> QED
    BY <1>c, <2>1 DEF CountInv, Counted, InOrder
<1>3. CASE ApplyObserve
  <2>1. mem' = AfterContact(mem)
    BY <1>3 DEF ApplyObserve
  <2>2. mem'.day = mem.day /\ mem'.cum = mem.cum /\ mem'.raw = mem.raw
    BY <1>u, <2>1 DEF AfterContact, UserState
  <2> QED
    BY <1>3, <1>k, <1>r, <2>2 DEF ApplyObserve, clockVars, historyVars
<1>4. ASSUME NEW pushed \in BOOLEAN, NEW accepted \in BOOLEAN,
             ApplyEnforce(pushed, accepted)
      PROVE  CountInv'
  <2>1. mem'.day = mem.day /\ mem'.cum = mem.cum /\ mem'.raw = mem.raw
    BY <1>4, <1>u DEF ApplyEnforce, AfterContact, UserState
  <2> DEFINE d == Pushed(daemon, pushed)
  <2>2. d \in Daemon /\ d.spent = daemon.spent /\ d.saved = daemon.saved
    BY <1>t, PushKeepsSpent
  <2>3. tick.force \in BOOLEAN /\ Answer \in Target
    BY <1>t, TargetTypes DEF TypeOK, Tick
  <2>4. daemon' = Converge(d, Answer, tick.force, accepted)
    BY <1>4 DEF ApplyEnforce
  <2> HIDE DEF d
  <2>5. Rewritten(daemon, daemon')
    BY <1>t, <1>d, <2>2, <2>3, <2>4, ConvergeRewrites DEF Rewritten
  <2> QED
    BY <1>4, <1>k, <2>1, <2>5 DEF ApplyEnforce, clockVars
<1>5. CASE Relinquish
  <2>1. mem'.day = mem.day /\ mem'.cum = mem.cum /\ mem'.raw = mem.raw
    BY <1>5, <1>u DEF Relinquish, UserState
  <2> QED
    BY <1>5, <1>k, <1>r, <2>1 DEF Relinquish, clockVars, historyVars
<1>6. ASSUME NEW accepted \in BOOLEAN, Unreachable(accepted)
      PROVE  CountInv'
  <2>1. OfflineTarget(mem) \in Target
    BY <1>t, TargetTypes
  <2>2. daemon' = daemon \/ daemon' = Converge(daemon, OfflineTarget(mem), FALSE, accepted)
    BY <1>6 DEF Unreachable
  <2>3. Rewritten(daemon, daemon')
    BY <1>t, <1>d, <1>r, <2>1, <2>2, ConvergeRewrites
  <2> QED
    BY <1>6, <1>k, <2>3 DEF Unreachable, clockVars
<1>7. CASE Save
  BY <1>7, <1>k, <1>r DEF Save, clockVars, historyVars
<1>8. CASE Crash
  <2>1. mem' = disk /\ UNCHANGED <<disk, daemon, localDay, agentDay, chargeable, lost>>
    BY <1>8 DEF Crash, clockVars, historyVars
  <2>2. disk.day <= disk.day /\ disk.day <= agentDay
    BY <1>o
  <2> QED
    BY <1>c, <2>1, <2>2 DEF CountInv, Counted, InOrder
<1>9. CASE Elapse
  <2>1. UNCHANGED <<localDay, agentDay, mem, disk, lost>>
    BY <1>9 DEF Elapse
  <2>2. CASE UNCHANGED <<daemon, chargeable>>
    BY <1>k, <1>r, <2>1, <2>2
  <2>3. ASSUME NEW save \in BOOLEAN, daemon' = ActiveSecond(daemon, save),
               chargeable' = [chargeable EXCEPT ![agentDay] = @ + 1]
        PROVE  CountInv'
    <3>1. daemon'.spent = daemon.spent + 1 /\ daemon'.saved >= daemon.saved
      <4>1. daemon'.spent = daemon.spent + 1
        BY <1>d, <2>3 DEF ActiveSecond, Daemon
      <4>2. daemon'.saved = IF save \/ daemon.spent + 1 - daemon.saved > SaveIntervalS
                            THEN daemon.spent + 1 ELSE daemon.saved
        BY <1>d, <2>3 DEF ActiveSecond, Daemon
      <4> QED
        BY <1>d, <1>n, <4>1, <4>2
    <3>2. /\ chargeable'[agentDay] = chargeable[agentDay] + 1
          /\ \A d \in Day : d > agentDay => chargeable'[d] = chargeable[d]
          /\ chargeable[agentDay] \in Nat
      BY <1>t, <1>n, <2>3 DEF TypeOK
    <3>3. ASSUME NEW u \in UserState, Counted(u), localDay = 0
          PROVE  /\ u.day # NoDay => u.raw <= daemon'.saved + SaveIntervalS
                 /\ u.day = agentDay =>
                      chargeable'[agentDay] + u.raw <= u.cum + lost + daemon'.spent
                 /\ u.day = NoDay => chargeable'[agentDay] <= daemon'.spent + lost
      <4>1. u.cum \in Nat /\ u.raw \in Nat
        BY <3>3 DEF UserState
      <4>2. /\ u.day # NoDay => u.raw <= daemon.saved + SaveIntervalS
            /\ u.day = agentDay =>
                 chargeable[agentDay] + u.raw <= u.cum + lost + daemon.spent
            /\ u.day = NoDay => chargeable[agentDay] <= daemon.spent + lost
        BY <3>3 DEF Counted
      <4> QED
        BY <1>n, <3>1, <3>2, <4>1, <4>2
    <3>4. Counted(mem)' /\ Counted(disk)'
      BY <1>c, <1>u, <2>1, <3>3 DEF Counted
    <3> QED
      BY <1>c, <2>1, <3>2, <3>4 DEF CountInv, InOrder
  <2> QED
    BY <1>9, <2>2, <2>3 DEF Elapse
<1>10. CASE OtherDevice
  BY <1>10, <1>k, <1>r DEF OtherDevice, clockVars, historyVars
<1>11. CASE LocalMidnight
  <2>1. /\ localDay' = localDay + 1
        /\ UNCHANGED <<agentDay, mem, disk, chargeable>>
    BY <1>11 DEF LocalMidnight, historyVars
  <2>2. localDay' # 0
    BY <1>n, <2>1
  <2> QED
    BY <1>c, <2>1, <2>2 DEF CountInv, Counted, InOrder
<1>12. CASE AgentMidnight
  <2>1. /\ agentDay' = agentDay + 1 /\ agentDay' \in Day
        /\ UNCHANGED <<daemon, localDay, mem, disk, chargeable, lost>>
    BY <1>12, <1>t DEF AgentMidnight, TypeOK, historyVars
  <2>2. /\ disk.day \in Int /\ mem.day \in Int /\ agentDay \in Nat
        /\ disk.day <= mem.day /\ mem.day <= agentDay
    BY <1>o
  <2>3. chargeable[agentDay'] = 0
    BY <1>c, <2>1, <2>2 DEF InOrder
  <2>4. InOrder'
    <3>1. \A d \in Day : d > agentDay' => chargeable[d] = 0
      BY <1>c, <1>n, <2>1, <2>2 DEF InOrder
    <3> QED
      BY <2>1, <2>2, <3>1 DEF InOrder
  <2>5. mem.day # agentDay' /\ disk.day # agentDay'
    BY <2>1, <2>2
  <2>6. chargeable'[agentDay'] <= daemon'.spent + lost'
    BY <1>n, <2>1, <2>3
  <2>7. Counted(mem)' /\ Counted(disk)'
    BY <1>c, <2>1, <2>5, <2>6 DEF Counted
  <2> QED
    BY <2>4, <2>7 DEF CountInv
<1>13. CASE HubMidnight
  BY <1>13, <1>k, <1>r DEF HubMidnight, clockVars, historyVars
<1>14. CASE Admin
  BY <1>14, <1>k, <1>r DEF Admin, clockVars, historyVars
<1>15. CASE UNCHANGED vars
  BY <1>15, <1>k, <1>r DEF vars, clockVars, historyVars
<1> QED
  BY <1>1, <1>2, <1>3, <1>4, <1>5, <1>6, <1>7, <1>8, <1>9, <1>10, <1>11, <1>12,
     <1>13, <1>14, <1>15 DEF Next, AgentStep

\* A second of today's use is in the next measurement, whether it is made by the running
\* process or by one restarted from state.json, unless a write made timekpr forget it
\* or the first tick of the day forgave it.
THEOREM UseCounted == Spec => []UseIsCounted
<1>1. TypeInv /\ CountInv => UseIsCounted
  <2> SUFFICES ASSUME TypeInv, CountInv, NEW u \in {mem, disk},
                      localDay = 0, u.day \in {agentDay, NoDay}
               PROVE  chargeable[agentDay] <= Measure(u, daemon.spent).cum + lost
    BY DEF UseIsCounted
  <2>1. Counted(u)
    BY DEF CountInv
  <2>2. /\ u.cum \in Nat /\ u.raw \in Nat /\ daemon.spent \in Nat
        /\ chargeable[agentDay] \in Nat /\ lost \in Nat
    BY DEF TypeInv, TypeOK, UserState
  <2>3. CASE u.day = NoDay
    <3>1. Measure(u, daemon.spent).cum = daemon.spent
      BY <2>3 DEF Measure, FirstTick, DayRolledOver
    <3> QED
      BY <2>1, <2>2, <2>3, <3>1 DEF Counted
  <2>4. CASE u.day = agentDay /\ u.day # NoDay
    <3>1. Measure(u, daemon.spent).cum = u.cum + Credit(u.raw, daemon.spent)
      BY <2>4 DEF Measure, FirstTick, DayRolledOver, AdvanceCumulative
    <3>2. /\ Credit(u.raw, daemon.spent) \in Nat
          /\ daemon.spent - u.raw <= Credit(u.raw, daemon.spent)
      BY <2>2, CreditBounds, CreditAtLeast
    <3>3. chargeable[agentDay] + u.raw <= u.cum + lost + daemon.spent
      BY <2>1, <2>4 DEF Counted
    <3> QED
      BY <2>2, <3>1, <3>2, <3>3
  <2> QED
    BY <2>3, <2>4
<1> QED
  BY <1>1, TypeInit, TypeStep, CountInit, CountStep, PTL DEF Spec

-----------------------------------------------------------------------------
\* An enforced tick whose writes are accepted leaves the user what the hub said is
\* left, although the plan is made from an observation older than the write.
THEOREM EnforcedTickLands == Spec => LandsOnTarget
<1>1. ASSUME TypeOK,
             ApplyEnforce(TRUE, TRUE), Undisturbed,
             daemon'.limit = daemon.limit, WithinADay(Answer)
      PROVE  /\ TimeLeft(daemon') <= reply.limit - reply.spent + DeadbandS
             /\ TimeLeft(daemon') >= reply.limit - reply.spent - DeadbandS - Drift
  <2> DEFINE d == Pushed(daemon, TRUE)
             p == Plan(tick, Answer, tick.force)
             e == SetTimeLeft(d, p.op, p.seconds)
  <2>1. /\ tick \in Observation /\ Answer \in Target /\ tick.force \in BOOLEAN
        /\ d \in Daemon
    BY <1>1, TargetTypes, PushKeepsSpent DEF TypeOK, Tick, Observation
  <2>2. daemon' = e
    BY <1>1 DEF ApplyEnforce, Converge
  <2>3. p.op \in Op /\ p.seconds \in Int
    BY <2>1, PlanType
  <2>4. e.limit = d.limit
    BY <2>1, <2>3, SetTimeLeftFields
  <2>5. d.limit = tick.limit
    BY <1>1, <2>2, <2>4 DEF Undisturbed
  <2>6. Drift \in Nat /\ d.balance = tick.balance + Drift
    <3>1. daemon \in Daemon /\ tick.balance \in Int
      BY <1>1 DEF TypeOK, Tick, Daemon
    <3>2. d.balance = daemon.balance /\ daemon.balance \in Int
      BY <3>1 DEF Pushed, SetLimit, Daemon
    <3>3. Drift >= 0 /\ Drift = daemon.balance - tick.balance
      BY <1>1 DEF Undisturbed, Drift
    <3> HIDE DEF d
    <3> QED
      BY <3>1, <3>2, <3>3
  <2>7. TargetBalance(tick, Answer) \in -DayS..DayS
    BY <1>1 DEF WithinADay
  <2>8. Answer.limit = reply.limit /\ Answer.spent = reply.spent
    BY DEF Answer
  <2>9. /\ TimeLeft(e) <= Answer.limit - Answer.spent + DeadbandS
        /\ TimeLeft(e) >= Answer.limit - Answer.spent - DeadbandS - Drift
    <3> HIDE DEF d
    <3> QED
      BY <2>1, <2>5, <2>6, <2>7, PlanReachesTarget
  <2> QED
    BY <2>2, <2>8, <2>9
<1>2. TypeOK /\ [Next]_vars =>
        [ /\ ApplyEnforce(TRUE, TRUE)
          /\ Undisturbed /\ daemon'.limit = daemon.limit /\ WithinADay(Answer)
          => /\ TimeLeft(daemon') <= reply.limit - reply.spent + DeadbandS
             /\ TimeLeft(daemon') >= reply.limit - reply.spent - DeadbandS - Drift
        ]_vars
  BY <1>1
<1> QED
  BY <1>2, TypeCorrect, PTL DEF Spec, LandsOnTarget

(***************************************************************************)
(* What an outage costs, measured in real use.  The code estimates it by   *)
(* the counter since the last contact.  That is enough because the counter *)
(* at the contact was at most the real use of the day (ChargeInv), and the *)
(* counter now falls short of it by no more than what was lost (CountInv); *)
(* both must be those of one day.                                          *)
(***************************************************************************)
Anchored(u) ==
    /\ u.cumAtContact <= u.atContact.used
    /\ u.atContact.day = NoDay => u.atContact.used = 0

\* Between the observation and the end of the tick the counter is that of the day.
Measured ==
    pc \in {"sent", "replied"} =>
        /\ mem.day # NoDay /\ mem.cum <= tick.used
        /\ localDay = 0 => tick.used <= mem.cum + lost

AnchorInv == Anchored(mem) /\ Anchored(disk) /\ Measured

LEMMA AnchorInit == Init => AnchorInv
<1>1. FreshUserState.cumAtContact = 0 /\ FreshUserState.atContact.used = 0
  BY DEF FreshUserState
<1> QED
  BY <1>1 DEF Init, AnchorInv, Anchored, Measured

\* What has just been measured of a day lies between what was used of it and that less
\* what was lost.
LEMMA ObservedIsMeasured ==
    ASSUME TypeInv, TypeInv', ChargeInv', CountInv', Observe
    PROVE  /\ mem'.day # NoDay /\ mem'.cum <= tick'.used
           /\ localDay' = 0 => tick'.used <= mem'.cum + lost'
<1> DEFINE acc == Measure(mem, daemon.spent)
<1>1. acc \in [cum: Nat, raw: Nat] /\ mem \in UserState
  BY MeasureType DEF TypeInv, TypeOK
<1>2. acc.raw = daemon.spent
  BY DEF Measure, ResetForNewCanonicalDay, AdvanceCumulative
<1>3. mem' = [mem EXCEPT !.day = agentDay, !.cum = acc.cum, !.raw = acc.raw]
      /\ UNCHANGED <<daemon, agentDay>> /\ tick'.used = chargeable'[agentDay]
  BY DEF Observe, clockVars
<1> HIDE DEF acc
<1>4. mem'.day = agentDay /\ mem'.raw = daemon.spent /\ mem'.day # NoDay
  <2>1. agentDay \in Day
    BY DEF TypeInv, TypeOK
  <2>2. agentDay # NoDay
    BY <2>1, AgentTickAssumption DEF Day, NoDay
  <2> QED
    BY <1>1, <1>2, <1>3, <2>2 DEF UserState
<1>5. {mem'.cum, mem'.raw, daemon.spent, lost', chargeable'[agentDay]} \subseteq Nat
  <2>1. mem'.cum \in Nat /\ mem'.raw \in Nat
    BY DEF TypeInv, TypeOK, UserState
  <2>2. daemon.spent \in Nat /\ lost' \in Nat /\ agentDay \in Day
        /\ chargeable' \in [Day -> Nat]
    BY DEF TypeInv, TypeOK
  <2> QED
    BY <2>1, <2>2
<1>6. mem'.cum <= chargeable'[agentDay]
  <2>1. Sound(mem)'
    BY DEF ChargeInv
  <2> QED
    BY <1>3, <1>4, <2>1 DEF Sound
<1>7. localDay' = 0 => chargeable'[agentDay] <= mem'.cum + lost'
  <2>1. Counted(mem)'
    BY DEF CountInv
  <2>2. localDay' = 0 => chargeable'[agentDay] + mem'.raw <= mem'.cum + lost' + daemon'.spent
    BY <1>3, <1>4, <2>1 DEF Counted
  <2> QED
    BY <1>3, <1>4, <1>5, <2>2
<1> QED
  BY <1>3, <1>4, <1>6, <1>7

LEMMA AnchorStep ==
    TypeInv /\ TypeInv' /\ ChargeInv' /\ CountInv' /\ AnchorInv /\ [Next]_vars => AnchorInv'
<1> SUFFICES ASSUME TypeInv, TypeInv', ChargeInv', CountInv', AnchorInv, [Next]_vars
             PROVE  AnchorInv'
  OBVIOUS
<1>a. Anchored(mem) /\ Anchored(disk) /\ Measured
  BY DEF AnchorInv
<1>u. mem \in UserState /\ localDay \in Nat
  BY AgentTickAssumption DEF TypeInv, TypeOK, Day
\* A tick that ends, or is broken off.
<1>e. ASSUME pc' \notin {"sent", "replied"}, Anchored(mem)', Anchored(disk)'
      PROVE  AnchorInv'
  BY <1>e DEF AnchorInv, Measured
<1>m. ASSUME UNCHANGED mem PROVE Anchored(mem)'
  BY <1>a, <1>m DEF Anchored
<1>d. ASSUME UNCHANGED disk PROVE Anchored(disk)'
  BY <1>a, <1>d DEF Anchored
\* An answer makes what has been measured the new anchor.
<1>c. ASSUME pc = "replied",
             mem'.cumAtContact = mem.cum, mem'.atContact = [day |-> mem.day, used |-> tick.used]
      PROVE  Anchored(mem)'
  BY <1>a, <1>c DEF Anchored, Measured
\* A step beside the tick.
<1>b. ASSUME mem' = mem, disk' = disk, tick' = tick, lost' = lost,
             pc' = pc \/ (pc = "sent" /\ pc' = "replied"), localDay' # 0 \/ localDay' = localDay
      PROVE  AnchorInv'
  BY <1>a, <1>b, <1>m, <1>d DEF AnchorInv, Measured
<1>1. CASE Observe
  <2>1. mem'.cumAtContact = mem.cumAtContact /\ mem'.atContact = mem.atContact
    BY <1>1, <1>u DEF Observe, UserState
  <2>2. Anchored(mem)'
    BY <1>a, <2>1 DEF Anchored
  <2>3. Measured'
    BY <1>1, ObservedIsMeasured DEF Measured
  <2> QED
    BY <1>1, <1>d, <2>2, <2>3 DEF Observe, AnchorInv
<1>2. CASE HubSync
  BY <1>2, <1>b DEF HubSync, clockVars
<1>3. CASE ApplyObserve
  <2>1. mem'.cumAtContact = mem.cum /\ mem'.atContact = [day |-> mem.day, used |-> tick.used]
    BY <1>3, <1>u DEF ApplyObserve, AfterContact, UserState
  <2> QED
    BY <1>3, <2>1, <1>c, <1>d, <1>e DEF ApplyObserve, Return
<1>4. ASSUME NEW pushed \in BOOLEAN, NEW accepted \in BOOLEAN, ApplyEnforce(pushed, accepted)
      PROVE  AnchorInv'
  <2>1. mem'.cumAtContact = mem.cum /\ mem'.atContact = [day |-> mem.day, used |-> tick.used]
    BY <1>4, <1>u DEF ApplyEnforce, AfterContact, UserState
  <2> QED
    BY <1>4, <2>1, <1>c, <1>d, <1>e DEF ApplyEnforce, Return
<1>5. CASE Relinquish
  <2>1. mem'.cumAtContact = mem.cumAtContact /\ mem'.atContact = mem.atContact
    BY <1>5, <1>u DEF Relinquish, UserState
  <2>2. Anchored(mem)'
    BY <1>a, <2>1 DEF Anchored
  <2> QED
    BY <1>5, <2>2, <1>d, <1>e DEF Relinquish, Return
<1>6. ASSUME NEW accepted \in BOOLEAN, Unreachable(accepted) PROVE AnchorInv'
  BY <1>6, <1>m, <1>d, <1>e DEF Unreachable, Return
<1>7. CASE Save
  <2>1. Anchored(disk)'
    BY <1>7, <1>a DEF Save, Anchored
  <2> QED
    BY <1>7, <2>1, <1>m, <1>e DEF Save
<1>8. CASE Crash
  <2>1. Anchored(mem)'
    BY <1>8, <1>a DEF Crash, Anchored
  <2> QED
    BY <1>8, <2>1, <1>d, <1>e DEF Crash
<1>9. CASE Elapse
  <2>1. mem' = mem /\ disk' = disk /\ tick' = tick /\ lost' = lost /\ pc' = pc
        /\ localDay' = localDay
    BY <1>9 DEF Elapse
  <2> QED
    BY <2>1, <1>b
<1>10. CASE OtherDevice \/ AgentMidnight \/ HubMidnight \/ Admin \/ UNCHANGED vars
  <2>1. mem' = mem /\ disk' = disk /\ tick' = tick /\ lost' = lost /\ pc' = pc
        /\ localDay' = localDay
    BY <1>10 DEF OtherDevice, AgentMidnight, HubMidnight, Admin, clockVars, historyVars, vars
  <2> QED
    BY <2>1, <1>b
<1>11. CASE LocalMidnight
  <2>1. mem' = mem /\ disk' = disk /\ tick' = tick /\ lost' = lost /\ pc' = pc
        /\ localDay' # 0
    BY <1>11, <1>u DEF LocalMidnight, historyVars
  <2> QED
    BY <2>1, <1>b
<1> QED
  BY <1>1, <1>2, <1>3, <1>4, <1>5, <1>6, <1>7, <1>8, <1>9, <1>10, <1>11
     DEF Next, AgentStep

\* An offline tick past the grace period leaves no more of the cap than real use since
\* the last contact has left of it, whatever restarts and writes came between, as long
\* as that contact was today.
THEOREM OutageCapped == Spec => OutageIsCapped
<1>1. ASSUME TypeInv, AnchorInv, CappedOffline,
             localDay = 0, mem.atContact.day \in {mem.day, NoDay}
      PROVE  TimeLeft(daemon') <= CapS - UsedSinceContact + lost + DeadbandS
  <2> DEFINE t == OfflineTarget(mem)
             p == Plan(tick, t, FALSE)
             e == SetTimeLeft(daemon, p.op, p.seconds)
  <2>0. TypeOK /\ Unreachable(TRUE) /\ mem.offline = "capped" /\ ~InGrace(mem)
        /\ Undisturbed /\ WithinADay(OfflineTarget(mem))
    BY <1>1 DEF TypeInv, CappedOffline
  <2>1. tick \in Observation /\ t \in Target /\ daemon \in Daemon
    BY <2>0, TargetTypes DEF TypeOK, Tick, Observation, Daemon
  <2>2. daemon' = e /\ pc \in {"sent", "replied"}
    BY <2>0 DEF Unreachable, Converge
  <2>3. daemon.limit = tick.limit
    BY <2>0 DEF Undisturbed
  <2>4. Drift \in Nat /\ daemon.balance = tick.balance + Drift
    <3>1. daemon.balance \in Int /\ tick.balance \in Int
      BY <2>0 DEF TypeOK, Tick
    <3>2. Drift >= 0 /\ Drift = daemon.balance - tick.balance
      BY <2>0 DEF Undisturbed, Drift
    <3> QED
      BY <3>1, <3>2
  <2>5. TargetBalance(tick, t) \in -DayS..DayS
    BY <2>0 DEF WithinADay
  <2>6. TimeLeft(e) <= t.limit - t.spent + DeadbandS
    <3> HIDE DEF t
    <3> QED
      BY <2>1, <2>3, <2>4, <2>5, PlanReachesTarget
  <2>7. t.limit = Smaller(mem.limit, mem.spent + CapS) /\ t.spent = EstimatedSpent(mem)
    BY <2>0 DEF OfflineTarget
  <2>8. /\ {mem.limit, mem.spent, mem.cum, mem.cumAtContact, mem.atContact.used} \subseteq Nat
        /\ {t.limit, t.spent, CapS, DeadbandS, tick.used, lost} \subseteq Nat
    BY <2>0, <2>1, AgentTickAssumption, ConvergenceConfigAssumption
       DEF TypeOK, UserState, Target, Tick
  <2>9. t.limit <= mem.spent + CapS /\ t.spent >= mem.spent + (mem.cum - mem.cumAtContact)
    BY <2>7, <2>8 DEF Smaller, EstimatedSpent, Larger
  <2>10. TimeLeft(e) \in Int
    <3>1. p.op \in Op /\ p.seconds \in Int
      BY <2>1, PlanType
    <3>2. e \in Daemon
      BY <2>1, <3>1, SetTimeLeftFields
    <3> HIDE DEF e
    <3>3. e.limit \in Nat /\ e.balance \in Int
      BY <3>2 DEF Daemon
    <3> QED
      BY <3>3 DEF TimeLeft
  <2>11. mem.day # NoDay /\ tick.used <= mem.cum + lost
         /\ mem.cumAtContact <= mem.atContact.used
         /\ (mem.atContact.day = NoDay => mem.atContact.used = 0)
    BY <1>1, <2>2 DEF AnchorInv, Anchored, Measured
  <2>12. UsedSinceContact <= mem.cum + lost - mem.cumAtContact /\ UsedSinceContact \in Int
    BY <1>1, <2>8, <2>11 DEF UsedSinceContact
  <2> HIDE DEF t, e
  <2> QED
    BY <2>2, <2>6, <2>8, <2>9, <2>10, <2>12
<1>2. TypeInv /\ AnchorInv /\ [Next]_vars =>
        [ /\ CappedOffline
          /\ localDay = 0 /\ mem.atContact.day \in {mem.day, NoDay}
          => TimeLeft(daemon') <= CapS - UsedSinceContact + lost + DeadbandS ]_vars
  BY <1>1
<1> QED
  BY <1>2, TypeInit, TypeStep, ChargeInit, ChargeStep, CountInit, CountStep,
     AnchorInit, AnchorStep, PTL DEF Spec, OutageIsCapped

=============================================================================
