---------------------------- MODULE LimitRegister ----------------------------
(***************************************************************************)
(* What the hub promises the devices of a user about the time he has on a  *)
(* day.  The limit of a day is one number, changed at once, and read for   *)
(* one device at a time: an answer is a limit that was in force while it   *)
(* was read, so no device is told an older one after another has been told *)
(* a newer one.  DayLimit shows that the five rows the code computes it    *)
(* from, read one after the other, keep this promise.                      *)
(***************************************************************************)
EXTENDS Integers

CONSTANTS Devices, Days, None

VARIABLES
    limit,      \* the limit in force for each day
    reading,    \* the question being answered: [device, day], or None
    seen,       \* the limits in force for that day since
    told        \* the last answer of each device: [day, limit], or None

vars == <<limit, reading, seen, told>>

Init ==
    /\ limit \in [Days -> Nat]
    /\ reading = None /\ seen = {}
    /\ told = [v \in Devices |-> None]

\* An administrator changes what days are worth: the answer under way may show it.
Change ==
    /\ limit' \in [Days -> Nat]
    /\ seen' = IF reading = None THEN {} ELSE seen \cup {limit'[reading.day]}
    /\ UNCHANGED <<reading, told>>

Read(v, d) ==
    /\ reading = None
    /\ reading' = [device |-> v, day |-> d] /\ seen' = {limit[d]}
    /\ UNCHANGED <<limit, told>>

Answer ==
    /\ reading # None
    /\ \E s \in seen : told' = [told EXCEPT ![reading.device] =
                                     [day |-> reading.day, limit |-> s]]
    /\ reading' = None /\ seen' = {}
    /\ UNCHANGED limit

Next == Change \/ (\E v \in Devices, d \in Days : Read(v, d)) \/ Answer

Spec == Init /\ [][Next]_vars
=============================================================================
