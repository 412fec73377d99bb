---------------------------- MODULE Convergence ----------------------------
(***************************************************************************)
(* The pure decision the agent takes on every tick: which single           *)
(* setTimeLeft call brings timekpr's balance to the hub's total, and how   *)
(* much of what timekpr shows as spent is genuinely new local use.         *)
(* core/timekpr_hub_core/convergence.py; every quantity is in seconds.     *)
(***************************************************************************)
EXTENDS Integers

CONSTANTS
    DeadbandS,              \* ConvergenceConfig.deadband_s
    HardResetThresholdS,    \* ConvergenceConfig.hard_reset_threshold_s
    RegressionToleranceS    \* ConvergenceConfig.regression_tolerance_s

ASSUME ConvergenceConfigAssumption ==
    /\ DeadbandS \in Nat
    /\ HardResetThresholdS \in Nat
    /\ RegressionToleranceS \in Nat

\* SET is timekpr's '=', SUBTRACT its '-', ADD its '+'.
Op == {"SET", "SUBTRACT", "ADD", "NOOP"}

Smaller(a, b) == IF a <= b THEN a ELSE b
Larger(a, b) == IF a >= b THEN a ELSE b
Abs(n) == Larger(n, -n)

(***************************************************************************)
(* obs is [balance, spent, limit], what timekpr reported this tick; target *)
(* is [limit, spent], the hub's effective limit and global total.  Time    *)
(* left on the device is its own limit minus the balance, so the balance   *)
(* that leaves target.limit - target.spent absorbs the device's limit.     *)
(***************************************************************************)
\* Mutant: the device's limit and the hub's are taken to be the same.
TargetBalancePlain(obs, target) == target.spent

TargetBalance(obs, target) == target.spent + obs.limit - target.limit

Correction(obs, target) == TargetBalance(obs, target) - obs.balance

NeedsAbsolute(obs, target, force) ==
    \/ force
    \/ obs.balance > obs.limit
    \/ Abs(Correction(obs, target)) > HardResetThresholdS

\* "offset" is the O = B - s the plan says to remember.
Plan(obs, target, force) ==
    LET correction == Correction(obs, target)
        offset == obs.balance - obs.spent
    IN  CASE NeedsAbsolute(obs, target, force) ->
               [op |-> "SET",
                seconds |-> target.limit - target.spent,
                offset |-> TargetBalance(obs, target) - obs.spent]
          [] /\ ~NeedsAbsolute(obs, target, force)
             /\ correction > DeadbandS ->
               [op |-> "SUBTRACT", seconds |-> correction,
                offset |-> offset + correction]
          [] /\ ~NeedsAbsolute(obs, target, force)
             /\ correction < -DeadbandS ->
               [op |-> "ADD", seconds |-> -correction,
                offset |-> offset + correction]
          [] OTHER ->
               [op |-> "NOOP", seconds |-> 0, offset |-> offset]

(***************************************************************************)
(* What a cumulative counter gains when timekpr's spent value goes from    *)
(* prev to curr.  A drop within the tolerance is the artifact of an '='    *)
(* write and is worth nothing; a larger one is a local day rollover, after *)
(* which everything shown is new.                                          *)
(***************************************************************************)
\* Mutants: every drop is a rollover; the difference is credited, whatever its sign.
CreditEveryDrop(prev, curr) == IF curr >= prev THEN curr - prev ELSE curr
CreditSigned(prev, curr) == curr - prev

Credit(prev, curr) ==
    CASE curr >= prev -> curr - prev
      [] curr < prev /\ prev - curr <= RegressionToleranceS -> 0
      [] OTHER -> curr

AdvanceCumulative(state, spent) ==
    [cum |-> state.cum + Credit(state.raw, spent), raw |-> spent]

ResetForNewCanonicalDay(spent) == [cum |-> 0, raw |-> spent]

=============================================================================
