--------------------------- MODULE TimekprDaemon ---------------------------
(***************************************************************************)
(* timekprd as the agent sees it.  The daemon is not part of this          *)
(* repository: what is modelled is the contract the code relies on, which  *)
(* core/timekpr_hub_core/convergence.py states and                         *)
(* tests/fakes/fake_timekpr.py implements.                                 *)
(*                                                                         *)
(* A daemon is [balance, spent, saved, limit]: TIME_SPENT_BALANCE,         *)
(* TIME_SPENT_DAY in memory, TIME_SPENT_DAY on disk, and today's own       *)
(* configured limit.                                                       *)
(***************************************************************************)
EXTENDS Integers

CONSTANTS
    DayS,           \* TK_LIMIT_PER_DAY: the balance is clamped to +/- this
    SaveIntervalS   \* TK_SAVE_INTERVAL: the most spent can be ahead of saved

ASSUME DaemonAssumption ==
    /\ DayS \in Nat
    /\ SaveIntervalS \in Nat \ {0}

TimeLeft(d) == d.limit - d.balance

ClampBalance(b) == IF b > DayS THEN DayS ELSE IF b < -DayS THEN -DayS ELSE b

AtMost(a, b) == IF a <= b THEN a ELSE b

\* A second of a session that counts: balance and spent move together.  The
\* periodic save falls due once SaveIntervalS have accrued and may come sooner.
ActiveSecond(d, save) ==
    LET spent == d.spent + 1
    IN  [d EXCEPT !.balance = @ + 1,
                  !.spent = spent,
                  !.saved = IF save \/ spent - @ > SaveIntervalS THEN spent ELSE @]

\* setTimeLeft(user, op, seconds).  Every branch ends in a save; '=' first
\* reloads spent from disk, which is what makes the unsaved part vanish.
SetTimeLeft(d, op, seconds) ==
    CASE op = "SET" ->
           [d EXCEPT !.balance = ClampBalance(d.limit - seconds), !.spent = d.saved]
      [] op = "SUBTRACT" ->
           [d EXCEPT !.balance = ClampBalance(AtMost(@, d.limit) + seconds), !.saved = d.spent]
      [] op = "ADD" ->
           [d EXCEPT !.balance = ClampBalance(AtMost(@, d.limit) - seconds), !.saved = d.spent]
      [] OTHER -> d

\* The device's own midnight.
RolloverDay(d) == [d EXCEPT !.balance = 0, !.spent = 0, !.saved = 0]

SetLimit(d, limit) == [d EXCEPT !.limit = limit]

=============================================================================
