---------------------------- MODULE TokenRegister ----------------------------
(***************************************************************************)
(* What the hub promises about the tokens of machines.  A code pays for    *)
(* one enrollment.  An enrollment takes place at once: from then on the    *)
(* machine's token is its token and nothing else, and a token is drawn     *)
(* once.  Removing a machine ends its token; an enrollment under way may   *)
(* be overtaken by that, and then its token is dead before it is handed    *)
(* out.  No token that has ended is ever good again.  Enrollment shows     *)
(* that rows found, locked, written and committed by transactions of       *)
(* several statements keep this promise.                                   *)
(***************************************************************************)
EXTENDS Integers

CONSTANTS Machines, Enrollers, Codes, Tokens, None

VARIABLES
    code,       \* "unknown", "unused", "used" or "expired"
    good,       \* the tokens of each machine the hub accepts
    drawn,      \* tokens that were drawn
    pending     \* the enrollment under way of each enroller, or None

vars == <<code, good, drawn, pending>>

Init ==
    /\ code = [c \in Codes |-> "unknown"]
    /\ good = [m \in Machines |-> {}]
    /\ drawn = {}
    /\ pending = [e \in Enrollers |-> None]

Under(e) == pending[e] # None
Claimed(c) == \E e \in Enrollers : Under(e) /\ pending[e].code = c

Mint(c) ==
    /\ code[c] = "unknown" /\ code' = [code EXCEPT ![c] = "unused"]
    /\ UNCHANGED <<good, drawn, pending>>

Expire(c) ==
    /\ code[c] = "unused" /\ ~Claimed(c) /\ code' = [code EXCEPT ![c] = "expired"]
    /\ UNCHANGED <<good, drawn, pending>>

Begin(e, m, c) ==
    /\ ~Under(e) /\ code[c] = "unused" /\ ~Claimed(c)
    /\ \E t \in Tokens \ drawn :
         /\ drawn' = drawn \cup {t}
         /\ pending' = [pending EXCEPT ![e] =
                          [machine |-> m, code |-> c, token |-> t, overtaken |-> FALSE]]
    /\ UNCHANGED <<code, good>>

Withdraw(e) ==
    /\ Under(e) /\ pending' = [pending EXCEPT ![e] = None]
    /\ UNCHANGED <<code, good, drawn>>

Complete(e) ==
    /\ Under(e) /\ code[pending[e].code] = "unused"
    /\ code' = [code EXCEPT ![pending[e].code] = "used"]
    /\ good' = IF pending[e].overtaken THEN good
               ELSE [good EXCEPT ![pending[e].machine] = {pending[e].token}]
    /\ pending' = [pending EXCEPT ![e] = None]
    /\ UNCHANGED drawn

\* Of the enrollments of this machine under way, some come before this.
Remove(m) ==
    /\ good' = [good EXCEPT ![m] = {}]
    /\ \E late \in SUBSET {e \in Enrollers : Under(e) /\ pending[e].machine = m} :
         pending' = [e \in Enrollers |->
                       IF e \in late THEN [pending[e] EXCEPT !.overtaken = TRUE] ELSE pending[e]]
    /\ UNCHANGED <<code, drawn>>

Next ==
    \/ \E c \in Codes : Mint(c) \/ Expire(c)
    \/ \E e \in Enrollers, m \in Machines, c \in Codes : Begin(e, m, c)
    \/ \E e \in Enrollers : Withdraw(e) \/ Complete(e)
    \/ \E m \in Machines : Remove(m)

Spec == Init /\ [][Next]_vars
=============================================================================
