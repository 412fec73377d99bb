-------------------------- MODULE EnrollmentProofs --------------------------
(***************************************************************************)
(* For any number of machines, terminals, codes and device rows: a code    *)
(* enrolls one machine, a machine has one live device, and what has been   *)
(* revoked stays so, whichever statements of other enrollments and of the  *)
(* administrator come between those of one; and all of them together are   *)
(* one register of tokens (TokenRegister).                                 *)
(***************************************************************************)
EXTENDS Enrollment, FiniteSetTheorems, TLAPS

Tx == [machine: Machines \cup {None}, code: Codes \cup {None}, found: Rows \cup {None},
       fresh: Rows \cup {None}, token: Token \cup {0}]

\* What a transaction under way knows and holds.
OpenKnows(e) ==
    /\ tx[e].machine \in Machines /\ tx[e].code \in Codes /\ tx[e].token \in Token

\* Of the code it has claimed, which nobody else has and which is still unused.
HoldsCode(e) ==
    /\ code[tx[e].code] = "unused"
    /\ \A d \in Terminals : Open(d) /\ tx[d].code = tx[e].code => d = e

\* Of the row it has written: it is there, and nobody takes it away.
HoldsRow(e) == tx[e].found # None => row[tx[e].found] # None

\* Of the row it is about to insert: the id is free, and so is the machine.
HoldsMachine(e) ==
    tx[e].found = None =>
        /\ tx[e].fresh \in Rows /\ row[tx[e].fresh] = None
        /\ LiveRows(tx[e].machine) = {}
        /\ \A d \in Terminals : Written(d) /\ tx[d].found = None /\ d # e =>
              tx[d].machine # tx[e].machine /\ tx[d].fresh # tx[e].fresh

CodesCounted == \A c \in Codes : redeemed[c] = IF code[c] = "used" THEN 1 ELSE 0

LiveRowsUnique ==
    \A r, s \in Rows : Live(r) /\ Live(s) /\ row[r].machine = row[s].machine => r = s

EnrollInv ==
    /\ TypeOK
    /\ \A e \in Terminals : pc[e] # "idle" => OpenKnows(e)
    /\ \A e \in Terminals : Open(e) => HoldsCode(e)
    /\ \A e \in Terminals : Written(e) => HoldsRow(e) /\ HoldsMachine(e)
    /\ CodesCounted
    /\ LiveRowsUnique

-----------------------------------------------------------------------------
LEMMA Bounds ==
    /\ MaxTokens \in Nat /\ MaxRemovals \in Nat /\ MaxFaults \in Nat
    /\ 0 \in 0..MaxTokens /\ 0 \in 0..MaxRemovals /\ 0 \in 0..MaxFaults
<1>1. MaxTokens \in Nat /\ MaxRemovals \in Nat /\ MaxFaults \in Nat
      BY EnrollmentAssumption
<1> QED BY <1>1

\* Assigning one field leaves the others.
LEMMA TxFields ==
    ASSUME NEW t \in Tx, NEW r \in Rows \cup {None}
    PROVE  /\ [t EXCEPT !.found = r] \in Tx /\ [t EXCEPT !.fresh = r] \in Tx
           /\ [t EXCEPT !.found = r].found = r /\ [t EXCEPT !.found = r].fresh = t.fresh
           /\ [t EXCEPT !.fresh = r].fresh = r /\ [t EXCEPT !.fresh = r].found = t.found
           /\ \A u \in {[t EXCEPT !.found = r], [t EXCEPT !.fresh = r]} :
                 u.machine = t.machine /\ u.code = t.code /\ u.token = t.token
BY DEF Tx

LEMMA EnrollInit == Init => EnrollInv
<1> SUFFICES ASSUME Init PROVE EnrollInv
    OBVIOUS
<1>1. NoTx \in [machine: Machines \cup {None}, code: Codes \cup {None},
                found: Rows \cup {None}, fresh: Rows \cup {None}, token: Token \cup {0}]
      BY DEF NoTx
<1>2. TypeOK
      BY <1>1, Bounds DEF Init, TypeOK
<1> QED BY <1>2 DEF Init, EnrollInv, Open, Written, CodesCounted, LiveRowsUnique, Live

-----------------------------------------------------------------------------
(***************************************************************************)
(* The enrollment's steps.                                                 *)
(***************************************************************************)
LEMMA Typed ==
    ASSUME EnrollInv
    PROVE  /\ tx \in [Terminals -> Tx] /\ issued \in 0..MaxTokens
           /\ \A e \in Terminals : tx[e] \in Tx
           /\ \A e \in Terminals : tx[e].found \in Rows \cup {None} /\ tx[e].fresh \in Rows \cup {None}
BY DEF EnrollInv, TypeOK, Tx

LEMMA ClaimKeeps ==
    ASSUME EnrollInv, NEW e \in Terminals, NEW m \in Machines, NEW c \in Codes, Claim(e, m, c)
    PROVE  EnrollInv'
<1> DEFINE t == [NoTx EXCEPT !.machine = m, !.code = c, !.token = issued + 1]
<1>1. /\ tx' = [tx EXCEPT ![e] = t] /\ pc' = [pc EXCEPT ![e] = "claimed"] /\ pc[e] = "idle"
      /\ Claimable(c) /\ issued' = issued + 1 /\ issued < MaxTokens
      /\ UNCHANGED <<code, row, file, held, agent, verdict, removals, faults, redeemed>>
      BY DEF Claim, hubVars, machineVars
<1>2. issued + 1 \in Token /\ issued + 1 \in 0..MaxTokens
  <2>1. issued \in 0..MaxTokens /\ issued < MaxTokens /\ MaxTokens \in Nat
        BY <1>1, Bounds, Typed
  <2> QED BY <2>1 DEF Token
<1>0. t \in Tx /\ t.machine = m /\ t.code = c /\ t.token = issued + 1
      /\ t.found = None /\ t.fresh = None
      BY <1>2 DEF NoTx, Tx
<1> HIDE DEF t
<1>3. TypeOK'
  <2>1. tx' \in [Terminals -> Tx]
        BY <1>0, <1>1, Typed
  <2> QED BY <1>1, <1>2, <2>1 DEF EnrollInv, TypeOK, Tx
<1>4. \A d \in Terminals : d # e => tx'[d] = tx[d] /\ pc'[d] = pc[d]
      BY <1>1 DEF EnrollInv, TypeOK
<1>5. tx'[e] = t /\ pc'[e] = "claimed"
      BY <1>1 DEF EnrollInv, TypeOK
<1>6. \A d \in Terminals : pc'[d] # "idle" => OpenKnows(d)'
      BY <1>2, <1>0, <1>4, <1>5 DEF EnrollInv, OpenKnows
<1>7. \A d \in Terminals : Open(d)' => HoldsCode(d)'
      BY <1>1, <1>0, <1>4, <1>5 DEF EnrollInv, HoldsCode, Open, Claimable, CodeLocked
<1>8. \A d \in Terminals : Written(d)' => HoldsRow(d)' /\ HoldsMachine(d)'
      BY <1>1, <1>0, <1>4, <1>5 DEF EnrollInv, HoldsRow, HoldsMachine, Written, LiveRows, Live
<1> QED BY <1>1, <1>3, <1>6, <1>7, <1>8 DEF EnrollInv, CodesCounted, LiveRowsUnique, Live

LEMMA LookUpKeeps ==
    ASSUME EnrollInv, NEW e \in Terminals, LookUp(e)
    PROVE  EnrollInv'
<1>1. PICK found \in Rows \cup {None} : tx' = [tx EXCEPT ![e] = [tx[e] EXCEPT !.found = found]]
      BY DEF LookUp, LiveRows
<1>2. /\ pc' = [pc EXCEPT ![e] = "looked"] /\ pc[e] = "claimed"
      /\ UNCHANGED <<code, row, issued, file, held, agent, verdict, removals, faults, redeemed>>
      BY DEF LookUp, hubVars, machineVars
<1>3. TypeOK'
  <2>1. tx' \in [Terminals -> Tx]
        BY <1>1, Typed, TxFields
  <2> QED BY <1>1, <1>2, <2>1 DEF EnrollInv, TypeOK, Tx
<1>4. \A d \in Terminals : d # e => tx'[d] = tx[d] /\ pc'[d] = pc[d]
      BY <1>1, <1>2 DEF EnrollInv, TypeOK
<1>5. pc'[e] = "looked" /\ tx'[e].machine = tx[e].machine /\ tx'[e].code = tx[e].code
      /\ tx'[e].token = tx[e].token
  <2>1. tx'[e] = [tx[e] EXCEPT !.found = found] /\ pc'[e] = "looked"
        BY <1>1, <1>2 DEF EnrollInv, TypeOK
  <2> QED BY <2>1, Typed, TxFields
<1>6. \A d \in Terminals : pc'[d] # "idle" => OpenKnows(d)'
      BY <1>2, <1>4, <1>5 DEF EnrollInv, OpenKnows
<1>7. \A d \in Terminals : Open(d)' => HoldsCode(d)'
      BY <1>2, <1>4, <1>5 DEF EnrollInv, HoldsCode, Open
<1>8. \A d \in Terminals : Written(d)' => HoldsRow(d)' /\ HoldsMachine(d)'
      BY <1>2, <1>4, <1>5 DEF EnrollInv, HoldsRow, HoldsMachine, Written, LiveRows, Live
<1> QED BY <1>2, <1>3, <1>6, <1>7, <1>8 DEF EnrollInv, CodesCounted, LiveRowsUnique, Live

\* The insert has waited until no other one of this machine is pending and there is no
\* live row.
LEMMA FlushKeeps ==
    ASSUME EnrollInv, NEW e \in Terminals, Flush(e)
    PROVE  EnrollInv'
<1>1. PICK fresh \in Rows \cup {None} :
        /\ tx' = [tx EXCEPT ![e] = [tx[e] EXCEPT !.fresh = fresh]]
        /\ tx[e].found # None => row[tx[e].found] # None
        /\ tx[e].found = None =>
              /\ Insertable(tx[e].machine) /\ fresh \in Rows /\ row[fresh] = None
              /\ \A d \in Terminals : tx[d].fresh # fresh
  <2>1. CASE tx[e].found # None
    <3>1. tx' = tx /\ row[tx[e].found] # None
          BY <2>1 DEF Flush
    <3>2. tx = [tx EXCEPT ![e] = [tx[e] EXCEPT !.fresh = tx[e].fresh]] /\ tx[e].fresh \in Rows \cup {None}
          BY DEF EnrollInv, TypeOK
    <3> QED BY <2>1, <3>1, <3>2
  <2>2. CASE tx[e].found = None
        BY <2>2 DEF Flush
  <2> QED BY <2>1, <2>2
<1>2. /\ pc' = [pc EXCEPT ![e] = "flushed"] /\ pc[e] = "looked"
      /\ UNCHANGED <<code, row, issued, file, held, agent, verdict, removals, faults, redeemed>>
      BY DEF Flush, hubVars, machineVars
<1>3. TypeOK'
  <2>1. tx' \in [Terminals -> Tx]
        BY <1>1, Typed, TxFields
  <2> QED BY <1>1, <1>2, <2>1 DEF EnrollInv, TypeOK, Tx
<1>4. \A d \in Terminals : d # e => tx'[d] = tx[d] /\ pc'[d] = pc[d]
      BY <1>1, <1>2 DEF EnrollInv, TypeOK
<1>5. pc'[e] = "flushed" /\ tx'[e].machine = tx[e].machine /\ tx'[e].code = tx[e].code
      /\ tx'[e].token = tx[e].token /\ tx'[e].found = tx[e].found /\ tx'[e].fresh = fresh
  <2>1. tx'[e] = [tx[e] EXCEPT !.fresh = fresh] /\ pc'[e] = "flushed"
        BY <1>1, <1>2 DEF EnrollInv, TypeOK
  <2> QED BY <2>1, Typed, TxFields
<1>6. \A d \in Terminals : pc'[d] # "idle" => OpenKnows(d)'
      BY <1>2, <1>4, <1>5 DEF EnrollInv, OpenKnows
<1>7. \A d \in Terminals : Open(d)' => HoldsCode(d)'
      BY <1>2, <1>4, <1>5 DEF EnrollInv, HoldsCode, Open
<1>8. \A d \in Terminals : Written(d)' => HoldsRow(d)' /\ HoldsMachine(d)'
  <2>1. \A d \in Terminals : Written(d)' => d = e \/ Written(d)
        BY <1>2, <1>4, <1>5 DEF Written
  <2>2. \A m : LiveRows(m)' = LiveRows(m)
        BY <1>2 DEF LiveRows, Live
  <2>3. HoldsRow(e)' /\ HoldsMachine(e)'
        BY <1>1, <1>2, <1>4, <1>5, <2>1, <2>2
           DEF HoldsRow, HoldsMachine, Insertable, InsertPending
  <2>4. ASSUME NEW d \in Terminals, d # e, Written(d)' PROVE HoldsRow(d)' /\ HoldsMachine(d)'
    <3>1. HoldsRow(d) /\ HoldsMachine(d) /\ Written(d)
          BY <2>4, <2>1 DEF EnrollInv
    <3>2. tx[d].found = None /\ tx[e].found = None
             => tx[d].machine # tx[e].machine /\ tx[d].fresh # fresh
          BY <1>1, <3>1 DEF Insertable, InsertPending
    <3> QED BY <3>1, <3>2, <2>1, <2>2, <2>4, <1>2, <1>4, <1>5 DEF HoldsRow, HoldsMachine
  <2> QED BY <2>3, <2>4
<1> QED BY <1>2, <1>3, <1>6, <1>7, <1>8 DEF EnrollInv, CodesCounted, LiveRowsUnique, Live

\* A terminal outside a transaction disturbs none.
LEMMA OutsideKeeps ==
    ASSUME EnrollInv, NEW e \in Terminals, TypeOK',
           UNCHANGED <<code, row, redeemed>>,
           \A d \in Terminals : d # e => tx'[d] = tx[d] /\ pc'[d] = pc[d],
           pc'[e] \notin {"claimed", "looked", "flushed"},
           pc'[e] # "idle" => OpenKnows(e)'
    PROVE  EnrollInv'
<1>1. \A d \in Terminals : pc'[d] # "idle" => OpenKnows(d)'
      BY DEF EnrollInv, OpenKnows
<1>2. \A d \in Terminals : Open(d)' => d # e /\ Open(d)
      BY DEF Open
<1>3. \A d \in Terminals : Written(d)' => d # e /\ Written(d)
      BY DEF Written
<1>4. \A d \in Terminals : Open(d)' => HoldsCode(d)'
      BY <1>2 DEF EnrollInv, HoldsCode
<1>5. \A m : LiveRows(m)' = LiveRows(m)
      BY DEF LiveRows, Live
<1>6. \A d \in Terminals : Written(d)' => HoldsRow(d)' /\ HoldsMachine(d)'
      BY <1>3, <1>5 DEF EnrollInv, HoldsRow, HoldsMachine
<1> QED BY <1>1, <1>4, <1>6 DEF EnrollInv, CodesCounted, LiveRowsUnique, Live

\* A rollback gives everything back.
LEMMA AbortKeeps ==
    ASSUME EnrollInv, NEW e \in Terminals, Abort(e)
    PROVE  EnrollInv'
<1>1. /\ pc' = [pc EXCEPT ![e] = "idle"] /\ tx' = [tx EXCEPT ![e] = NoTx]
      /\ UNCHANGED <<code, row, issued, file, held, agent, verdict, removals, faults, redeemed>>
      BY DEF Abort, hubVars, machineVars
<1>2. tx' \in [Terminals -> Tx]
      BY <1>1, Typed DEF NoTx, Tx
<1>3. TypeOK' /\ pc'[e] = "idle"
      BY <1>1, <1>2 DEF EnrollInv, TypeOK, Tx
<1>4. \A d \in Terminals : d # e => tx'[d] = tx[d] /\ pc'[d] = pc[d]
      BY <1>1 DEF EnrollInv, TypeOK
<1> QED BY <1>1, <1>3, <1>4, OutsideKeeps

LEMMA SaveTokenKeeps ==
    ASSUME EnrollInv, NEW e \in Terminals, SaveToken(e)
    PROVE  EnrollInv'
<1>1. /\ pc[e] = "answered" /\ pc' = [pc EXCEPT ![e] = "saved"] /\ tx' = tx
      /\ file' = [file EXCEPT ![tx[e].machine] = tx[e].token]
      /\ UNCHANGED <<code, row, issued, held, agent, verdict, removals, faults, redeemed>>
      BY DEF SaveToken, hubVars
<1>2. OpenKnows(e) /\ OpenKnows(e)'
      BY <1>1 DEF EnrollInv, OpenKnows
<1>3. TypeOK' /\ pc'[e] = "saved"
      BY <1>1, <1>2 DEF EnrollInv, TypeOK, OpenKnows
<1>4. \A d \in Terminals : d # e => tx'[d] = tx[d] /\ pc'[d] = pc[d]
      BY <1>1 DEF EnrollInv, TypeOK
<1> QED BY <1>1, <1>2, <1>3, <1>4, OutsideKeeps

LEMMA FinishKeeps ==
    ASSUME EnrollInv, NEW e \in Terminals, NEW restarted \in BOOLEAN, Finish(e, restarted)
    PROVE  EnrollInv'
<1>1. /\ pc' = [pc EXCEPT ![e] = "idle"] /\ tx' = [tx EXCEPT ![e] = NoTx] /\ pc[e] = "saved"
      /\ UNCHANGED <<code, row, issued, file, verdict, removals, faults, redeemed>>
      BY DEF Finish, hubVars
<1>2. tx' \in [Terminals -> Tx]
      BY <1>1, Typed DEF NoTx, Tx
<1>3. held' \in [Machines -> Token \cup {0}] /\ agent' \in [Machines -> {"idle", "rejected"}]
  <2>1. tx[e].machine \in Machines /\ file[tx[e].machine] \in Token \cup {0}
        BY <1>1 DEF EnrollInv, TypeOK, OpenKnows
  <2>2. CASE restarted
    <3>1. /\ held' = [held EXCEPT ![tx[e].machine] = file[tx[e].machine]]
          /\ agent' = [agent EXCEPT ![tx[e].machine] = "idle"]
          BY <2>2 DEF Finish
    <3> QED BY <2>1, <3>1 DEF EnrollInv, TypeOK
  <2>3. CASE ~restarted
        BY <2>3 DEF Finish, EnrollInv, TypeOK
  <2> QED BY <2>2, <2>3
<1>4. TypeOK' /\ pc'[e] = "idle"
      BY <1>1, <1>2, <1>3 DEF EnrollInv, TypeOK, Tx
<1>5. \A d \in Terminals : d # e => tx'[d] = tx[d] /\ pc'[d] = pc[d]
      BY <1>1 DEF EnrollInv, TypeOK
<1> QED BY <1>1, <1>4, <1>5, OutsideKeeps

-----------------------------------------------------------------------------
(***************************************************************************)
(* The commit.                                                             *)
(***************************************************************************)
\* Writing a token into a row found changes nothing else of it.
LEMMA ReboundRow ==
    ASSUME EnrollInv, NEW r \in Rows, row[r] # None, NEW k \in Token
    PROVE  /\ Rebound(r, k) \in Device /\ Rebound(r, k) # None
           /\ Rebound(r, k).machine = row[r].machine /\ Rebound(r, k).status = row[r].status
<1>1. row[r] \in Device
      BY DEF EnrollInv, TypeOK
<1>2. Rebound(r, k) \in Device
      BY <1>1 DEF Rebound, Device
<1> QED BY <1>1, <1>2, EnrollmentAssumption DEF Rebound, Device

LEMMA NewRow ==
    ASSUME NEW m \in Machines, NEW k \in Token
    PROVE  /\ NewDevice(m, k) \in Device /\ NewDevice(m, k) # None
           /\ NewDevice(m, k).machine = m /\ NewDevice(m, k).status = "active"
<1>1. NewDevice(m, k) \in Device
      BY DEF NewDevice, Device
<1> QED BY <1>1, EnrollmentAssumption DEF NewDevice

\* Another enrollment's transaction is as it was after one has committed.
LEMMA CommitKeeps ==
    ASSUME EnrollInv, NEW e \in Terminals, NEW delivered \in BOOLEAN, Commit(e, delivered)
    PROVE  EnrollInv'
<1> DEFINE c == tx[e].code
           r == IF tx[e].found # None THEN tx[e].found ELSE tx[e].fresh
<1>1. Written(e) /\ Open(e) /\ OpenKnows(e) /\ HoldsCode(e) /\ HoldsRow(e) /\ HoldsMachine(e)
      BY DEF Commit, EnrollInv, Written, Open
<1>2. r \in Rows /\ c \in Codes
      BY <1>1, Typed DEF HoldsMachine, OpenKnows
<1>3. /\ code' = [code EXCEPT ![c] = "used"] /\ redeemed' = [redeemed EXCEPT ![c] = redeemed[c] + 1]
      /\ UNCHANGED <<issued, file, held, agent, verdict, removals>>
      BY DEF Commit, machineVars
<1>4. PICK device \in Device :
        /\ row' = [row EXCEPT ![r] = device]
        /\ tx[e].found # None => row[r] # None /\ device.machine = row[r].machine
                                 /\ device.status = row[r].status
        /\ tx[e].found = None => row[r] = None /\ device.machine = tx[e].machine
  <2>1. CASE tx[e].found # None
        BY <1>1, <1>2, <2>1, ReboundRow DEF Commit, HoldsRow, OpenKnows
  <2>2. CASE tx[e].found = None
        BY <1>1, <1>2, <2>2, NewRow DEF Commit, HoldsMachine, OpenKnows
  <2> QED BY <2>1, <2>2
<1> HIDE DEF r, c
<1>5. /\ pc' = [pc EXCEPT ![e] = IF delivered THEN "answered" ELSE "idle"]
      /\ tx' = IF delivered THEN tx ELSE [tx EXCEPT ![e] = NoTx]
      /\ faults' = IF delivered THEN faults ELSE faults + 1
      /\ delivered \/ faults < MaxFaults
      BY DEF Commit
<1>6. tx' \in [Terminals -> Tx]
      BY <1>5, Typed DEF NoTx, Tx
<1>7. faults' \in 0..MaxFaults
  <2>1. faults \in 0..MaxFaults
        BY DEF EnrollInv, TypeOK
  <2> QED BY <2>1, <1>5, Bounds
<1>8. TypeOK'
  <2>1. redeemed' \in [Codes -> Nat] /\ code' \in [Codes -> {"unknown", "unused", "used", "expired"}]
    <3>1. redeemed \in [Codes -> Nat] /\ code \in [Codes -> {"unknown", "unused", "used", "expired"}]
          BY DEF EnrollInv, TypeOK
    <3>2. redeemed[c] + 1 \in Nat
          BY <1>2, <3>1
    <3>3. redeemed' \in [Codes -> Nat]
          BY <1>3, <3>1, <3>2
    <3> QED BY <1>3, <3>1, <3>3
  <2> QED BY <1>3, <1>4, <1>5, <1>6, <1>7, <2>1 DEF EnrollInv, TypeOK, Tx
<1>9. /\ \A d \in Terminals : d # e => tx'[d] = tx[d] /\ pc'[d] = pc[d]
      /\ pc'[e] \in {"answered", "idle"} /\ (pc'[e] # "idle" => tx'[e] = tx[e])
      BY <1>5 DEF EnrollInv, TypeOK
<1>10. \A d \in Terminals : pc'[d] # "idle" => OpenKnows(d)'
      BY <1>1, <1>9 DEF EnrollInv, OpenKnows
<1>11. ASSUME NEW d \in Terminals, Open(d)' PROVE HoldsCode(d)'
  <2>1. d # e /\ Open(d) /\ HoldsCode(d)
        BY <1>9, <1>11 DEF Open, EnrollInv
  <2>2. tx[d].code # c
        BY <1>1, <2>1 DEF HoldsCode, c
  <2>3. code'[tx[d].code] = "unused"
    <3>1. tx[d].code \in Codes /\ code[tx[d].code] = "unused"
          BY <2>1 DEF HoldsCode, EnrollInv, OpenKnows, Open
    <3> QED BY <3>1, <1>3, <2>2 DEF EnrollInv, TypeOK
  <2> QED BY <1>9, <2>1, <2>3 DEF HoldsCode, Open
<1>12. \A s \in Rows : s # r => row'[s] = row[s]
      BY <1>4 DEF EnrollInv, TypeOK
<1>13. row'[r] = device /\ device # None
      BY <1>2, <1>4, EnrollmentAssumption DEF EnrollInv, TypeOK
<1>14. ASSUME NEW d \in Terminals, Written(d)' PROVE HoldsRow(d)' /\ HoldsMachine(d)'
  <2>1. d # e /\ Written(d) /\ HoldsRow(d) /\ HoldsMachine(d) /\ tx'[d] = tx[d]
        BY <1>9, <1>14 DEF Written, EnrollInv
  <2>2. HoldsRow(d)'
        BY <2>1, <1>12, <1>13, Typed DEF HoldsRow
  <2>3. ASSUME tx[d].found = None PROVE HoldsMachine(d)'
    <3>1. tx[d].fresh # r
          BY <1>1, <1>4, <2>1, <2>3 DEF HoldsMachine, HoldsRow, r
    <3>2. row'[tx[d].fresh] = None
          BY <2>1, <2>3, <3>1, <1>12 DEF HoldsMachine
    <3>3. LiveRows(tx[d].machine)' = {}
      <4>1. \A s \in Rows : s # r => (s \in LiveRows(tx[d].machine)' <=> s \in LiveRows(tx[d].machine))
            BY <1>12, <2>1 DEF LiveRows, Live
      <4>2. r \notin LiveRows(tx[d].machine)'
        <5>1. CASE tx[e].found # None
              BY <5>1, <1>2, <1>4, <1>13, <2>1, <2>3 DEF LiveRows, Live, HoldsMachine
        <5>2. CASE tx[e].found = None
          <6>1. tx[e].machine # tx[d].machine
                BY <5>2, <2>1, <2>3, <1>1 DEF HoldsMachine
          <6> QED BY <5>2, <6>1, <1>4, <1>13, <2>1 DEF LiveRows
        <5> QED BY <5>1, <5>2
      <4> QED BY <4>1, <4>2, <2>1, <2>3 DEF HoldsMachine, LiveRows
    <3> QED BY <2>1, <2>3, <3>2, <3>3, <1>9 DEF HoldsMachine, Written
  <2> QED BY <2>1, <2>2, <2>3 DEF HoldsMachine
<1>15. CodesCounted'
  <2>1. redeemed[c] = 0
        BY <1>1, <1>2 DEF CodesCounted, EnrollInv, HoldsCode, c
  <2>2. redeemed'[c] = 1 /\ code'[c] = "used"
    <3>1. redeemed'[c] = redeemed[c] + 1
          BY <1>2, <1>3 DEF EnrollInv, TypeOK
    <3>2. code'[c] = "used"
          BY <1>2, <1>3 DEF EnrollInv, TypeOK
    <3> QED BY <2>1, <3>1, <3>2
  <2>3. \A b \in Codes : b # c => redeemed'[b] = redeemed[b] /\ code'[b] = code[b]
        BY <1>3 DEF EnrollInv, TypeOK
  <2> QED BY <2>2, <2>3 DEF CodesCounted, EnrollInv
<1>16. LiveRowsUnique'
  <2> SUFFICES ASSUME NEW s \in Rows, NEW t \in Rows, Live(s)', Live(t)',
                      row'[s].machine = row'[t].machine, s # t, s # r
               PROVE  FALSE
      BY DEF LiveRowsUnique
  <2>1. row'[s] = row[s] /\ Live(s)
        BY <1>12 DEF Live
  <2>2. CASE t # r
        BY <2>1, <2>2, <1>12 DEF EnrollInv, LiveRowsUnique, Live
  <2>3. CASE t = r /\ tx[e].found # None
        BY <2>1, <2>3, <1>4, <1>13 DEF EnrollInv, LiveRowsUnique, Live
  <2>4. CASE t = r /\ tx[e].found = None
        BY <2>1, <2>4, <1>1, <1>4, <1>13 DEF HoldsMachine, LiveRows
  <2> QED BY <2>2, <2>3, <2>4
<1> QED BY <1>8, <1>10, <1>11, <1>14, <1>15, <1>16 DEF EnrollInv

-----------------------------------------------------------------------------
(***************************************************************************)
(* The agent and the administrator.                                        *)
(***************************************************************************)
\* What the agent does concerns its own token only.
LEMMA MachineKeeps ==
    ASSUME EnrollInv, NEW m \in Machines, Sync(m) \/ Retry(m) \/ StartAgent(m)
    PROVE  EnrollInv'
<1>1. UNCHANGED <<code, row, issued, pc, tx, removals, faults, redeemed, file>>
      BY DEF Sync, Retry, StartAgent, hubVars
<1>2. /\ held' \in [Machines -> Token \cup {0}]
      /\ agent' \in [Machines -> {"idle", "rejected"}]
      /\ verdict' \in [Machines -> {"", "managed", "revoked"}]
      BY DEF EnrollInv, TypeOK, Sync, Retry, StartAgent, Reloaded
<1>3. TypeOK'
      BY <1>1, <1>2 DEF EnrollInv, TypeOK
<1> QED BY <1>1, <1>3 DEF EnrollInv, OpenKnows, Open, Written, HoldsCode, HoldsRow, HoldsMachine,
                         LiveRows, Live, CodesCounted, LiveRowsUnique

\* A code is minted once, and does not expire while it is being claimed.
LEMMA CodeKeeps ==
    ASSUME EnrollInv, NEW c \in Codes, Mint(c) \/ Expire(c)
    PROVE  EnrollInv'
<1>1. UNCHANGED <<row, issued, pc, tx, file, held, agent, verdict, removals, faults, redeemed>>
      BY DEF Mint, Expire, machineVars
<1>2. PICK s \in {"unused", "expired"} : code' = [code EXCEPT ![c] = s]
      BY DEF Mint, Expire
<1>3. code[c] # "used" /\ ~CodeLocked(c)
      BY DEF Mint, Expire, EnrollInv, HoldsCode, CodeLocked
<1>4. TypeOK'
      BY <1>1, <1>2 DEF EnrollInv, TypeOK
<1>5. \A e \in Terminals : Open(e)' => HoldsCode(e)'
  <2> SUFFICES ASSUME NEW e \in Terminals, Open(e)' PROVE HoldsCode(e)'
      OBVIOUS
  <2>1. Open(e) /\ HoldsCode(e) /\ tx[e].code # c /\ tx[e].code \in Codes
        BY <1>1, <1>3 DEF Open, EnrollInv, CodeLocked, OpenKnows
  <2>2. code'[tx[e].code] = code[tx[e].code]
        BY <1>2, <2>1 DEF EnrollInv, TypeOK
  <2> QED BY <1>1, <2>1, <2>2 DEF HoldsCode, Open
<1>6. CodesCounted'
      BY <1>1, <1>2, <1>3 DEF CodesCounted, EnrollInv, TypeOK
<1> QED BY <1>1, <1>4, <1>5, <1>6 DEF EnrollInv, OpenKnows, Written, HoldsRow, HoldsMachine,
                                     LiveRows, Live, LiveRowsUnique

\* Revoking and deleting wait for an enrollment that has written the row, and take no
\* machine's live row but that one.
LEMMA RemoveKeeps ==
    ASSUME EnrollInv, NEW r \in Rows, Revoke(r) \/ Delete(r)
    PROVE  EnrollInv'
<1>1. /\ UNCHANGED <<code, issued, pc, tx, file, held, agent, verdict, faults, redeemed>>
      /\ row[r] # None /\ ~RowLocked(r) /\ removals < MaxRemovals /\ removals' = removals + 1
      BY DEF Revoke, Delete, Remove, machineVars
<1>2. row[r] \in Device
      BY <1>1 DEF EnrollInv, TypeOK
<1>3. PICK x \in Device \cup {None} : row' = [row EXCEPT ![r] = x] /\ (x # None => x.status = "revoked")
  <2>1. CASE Delete(r)
        BY <2>1 DEF Delete
  <2>2. CASE Revoke(r)
    <3>1. row' = [row EXCEPT ![r] = [row[r] EXCEPT !.status = "revoked"]]
          BY <2>2 DEF Revoke
    <3>2. [row[r] EXCEPT !.status = "revoked"] \in Device
          /\ [row[r] EXCEPT !.status = "revoked"].status = "revoked"
          BY <1>2 DEF Device
    <3> QED BY <3>1, <3>2
  <2> QED BY <2>1, <2>2
<1>4. \A s \in Rows : s # r => row'[s] = row[s]
      BY <1>3 DEF EnrollInv, TypeOK
<1>5. ~Live(r)'
      BY <1>3 DEF EnrollInv, TypeOK, Live
<1>6. TypeOK'
  <2>1. removals' \in 0..MaxRemovals
    <3>1. removals \in 0..MaxRemovals
          BY DEF EnrollInv, TypeOK
    <3> QED BY <3>1, <1>1, Bounds
  <2> QED BY <1>1, <1>3, <2>1 DEF EnrollInv, TypeOK
<1>7. \A m : LiveRows(m)' \subseteq LiveRows(m)
      BY <1>4, <1>5 DEF LiveRows, Live
<1>8. \A e \in Terminals : Written(e)' => HoldsRow(e)' /\ HoldsMachine(e)'
  <2> SUFFICES ASSUME NEW e \in Terminals, Written(e)' PROVE HoldsRow(e)' /\ HoldsMachine(e)'
      OBVIOUS
  <2>1. Written(e) /\ HoldsRow(e) /\ HoldsMachine(e) /\ tx[e].found # r
        BY <1>1 DEF Written, EnrollInv, RowLocked
  <2>2. HoldsRow(e)'
        BY <1>1, <1>4, <2>1, Typed DEF HoldsRow
  <2>3. tx[e].found = None => tx[e].fresh # r
        BY <1>1, <2>1 DEF HoldsMachine
  <2> QED BY <1>1, <1>4, <1>7, <2>1, <2>2, <2>3 DEF HoldsMachine, Written
<1>9. LiveRowsUnique'
      BY <1>4, <1>5 DEF EnrollInv, LiveRowsUnique, Live
<1> QED BY <1>1, <1>6, <1>8, <1>9 DEF EnrollInv, OpenKnows, Open, HoldsCode, CodesCounted

-----------------------------------------------------------------------------
LEMMA EnrollNext == EnrollInv /\ [Next]_vars => EnrollInv'
<1> SUFFICES ASSUME EnrollInv, [Next]_vars PROVE EnrollInv'
    OBVIOUS
<1>1. ASSUME NEW e \in Terminals, EnrollStep(e) PROVE EnrollInv'
      BY <1>1, ClaimKeeps, LookUpKeeps, FlushKeeps, AbortKeeps, CommitKeeps, SaveTokenKeeps,
         FinishKeeps DEF EnrollStep
<1>2. ASSUME NEW m \in Machines, Sync(m) \/ Retry(m) \/ StartAgent(m) PROVE EnrollInv'
      BY <1>2, MachineKeeps
<1>3. ASSUME NEW c \in Codes, Mint(c) \/ Expire(c) PROVE EnrollInv'
      BY <1>3, CodeKeeps
<1>4. ASSUME NEW r \in Rows, Revoke(r) \/ Delete(r) PROVE EnrollInv'
      BY <1>4, RemoveKeeps
<1>5. CASE UNCHANGED vars
      BY <1>5 DEF vars, hubVars, machineVars, EnrollInv, TypeOK, OpenKnows, Open, Written,
                  HoldsCode, HoldsRow, HoldsMachine, LiveRows, Live, CodesCounted, LiveRowsUnique
<1> QED BY <1>1, <1>2, <1>3, <1>4, <1>5 DEF Next

LEMMA EnrollHolds == Spec => []EnrollInv
BY EnrollInit, EnrollNext, PTL DEF Spec

\* Every variable keeps its type: no enrollment writes a token it has not drawn, or a row
\* that is not a device's.
THEOREM TypeCorrect == Spec => []TypeOK
<1>1. EnrollInv => TypeOK
      BY DEF EnrollInv
<1> QED BY <1>1, EnrollHolds, PTL

\* enroll claims the code by a conditional UPDATE, whose lock lasts to the commit: of any
\* number of enrollments with the same code one succeeds.
THEOREM OneEnrollmentPerCode == Spec => []CodeEnrollsOnce
<1>1. EnrollInv => CodeEnrollsOnce
      BY DEF EnrollInv, CodesCounted, CodeEnrollsOnce
<1> QED BY <1>1, EnrollHolds, PTL

\* The partial unique index makes the second of two inserts wait, and fail if the first
\* commits: a machine never has two live devices, although enroll looks first.
THEOREM OneDevicePerMachine == Spec => []OneLiveDevice
<1>1. ASSUME EnrollInv PROVE OneLiveDevice
  <2> SUFFICES ASSUME NEW m \in Machines PROVE Cardinality(LiveRows(m)) <= 1
      BY DEF OneLiveDevice
  <2>1. CASE LiveRows(m) = {}
        BY <2>1, FS_EmptySet
  <2>2. ASSUME NEW r \in LiveRows(m) PROVE Cardinality(LiveRows(m)) <= 1
    <3>1. LiveRows(m) = {r}
          BY <1>1, <2>2 DEF EnrollInv, LiveRowsUnique, LiveRows
    <3> QED BY <3>1, FS_Singleton
  <2> QED BY <2>1, <2>2
<1> QED BY <1>1, EnrollHolds, PTL

\* A rebinding writes the token and leaves the status, so a row that was revoked after an
\* enrollment had read it as live stays revoked.
THEOREM RevokedForGood == Spec => RevokeSticks
<1> DEFINE Sticks ==
        \A r \in Rows : row[r] # None /\ row[r].status = "revoked" /\ row'[r] # None
                        => row'[r].status = "revoked"
<1>1. ASSUME EnrollInv, [Next]_vars PROVE Sticks
  <2> SUFFICES ASSUME NEW r \in Rows, row[r] # None, row[r].status = "revoked", row'[r] # None
               PROVE  row'[r].status = "revoked"
      OBVIOUS
  <2>1. ASSUME NEW e \in Terminals, NEW delivered \in BOOLEAN, Commit(e, delivered)
        PROVE  row'[r].status = "revoked"
    <3>1. Written(e) /\ OpenKnows(e) /\ HoldsRow(e) /\ HoldsMachine(e)
          BY <1>1, <2>1 DEF Commit, EnrollInv, Written
    <3>2. CASE tx[e].found # None
      <4>1. row' = [row EXCEPT ![tx[e].found] = Rebound(tx[e].found, tx[e].token)]
            BY <2>1, <3>2 DEF Commit
      <4>2. tx[e].found \in Rows /\ Rebound(tx[e].found, tx[e].token).status = row[tx[e].found].status
            BY <1>1, <3>1, <3>2, Typed, ReboundRow DEF HoldsRow, OpenKnows
      <4> QED BY <1>1, <4>1, <4>2 DEF EnrollInv, TypeOK
    <3>3. CASE tx[e].found = None
      <4>1. row' = [row EXCEPT ![tx[e].fresh] = NewDevice(tx[e].machine, tx[e].token)]
            /\ tx[e].fresh # r
            BY <2>1, <3>1, <3>3 DEF Commit, HoldsMachine
      <4> QED BY <1>1, <4>1 DEF EnrollInv, TypeOK
    <3> QED BY <3>2, <3>3
  <2>2. ASSUME NEW s \in Rows, Revoke(s) \/ Delete(s)
        PROVE  row'[r].status = "revoked"
    <3>1. CASE Delete(s)
          BY <1>1, <3>1 DEF Delete, EnrollInv, TypeOK
    <3>2. CASE Revoke(s)
      <4>1. row' = [row EXCEPT ![s] = [row[s] EXCEPT !.status = "revoked"]] /\ row[s] \in Device
            BY <1>1, <3>2 DEF Revoke, Remove, EnrollInv, TypeOK
      <4>2. [row[s] EXCEPT !.status = "revoked"].status = "revoked"
            BY <4>1 DEF Device
      <4> QED BY <1>1, <4>1, <4>2 DEF EnrollInv, TypeOK
    <3> QED BY <2>2, <3>1, <3>2
  <2>3. CASE row' = row
        BY <2>3
  <2> QED BY <1>1, <2>1, <2>2, <2>3
          DEF Next, EnrollStep, Claim, LookUp, Flush, Abort, SaveToken, Finish, Sync, Retry,
              StartAgent, Mint, Expire, vars, hubVars
<1> QED BY <1>1, EnrollHolds, PTL DEF Spec, RevokeSticks
-----------------------------------------------------------------------------
(***************************************************************************)
(* The refinement.  A row an enrollment has found stays its machine's, and *)
(* its id is nobody else's, as long as the enrollment is under way: so it  *)
(* is for good that the row is not live any more.                          *)
(***************************************************************************)
Found(e) == pc[e] \in {"looked", "flushed"} /\ tx[e].found # None

FoundIsItsMachines ==
    \A e \in Terminals : Found(e) /\ row[tx[e].found] # None =>
        row[tx[e].found].machine = tx[e].machine

FreshIsNobodys ==
    \A d, e \in Terminals : Written(d) /\ tx[d].found = None /\ Found(e) =>
        tx[e].found # tx[d].fresh

RegisterInv == EnrollInv /\ FoundIsItsMachines /\ FreshIsNobodys

GoodOf == [m \in Machines |-> {row[r].token : r \in LiveRows(m)}]
UnderwayOf(e) == [machine |-> tx[e].machine, code |-> tx[e].code, token |-> tx[e].token,
                  overtaken |-> Overtaken(e)]
PendingOf == [e \in Terminals |-> IF Open(e) THEN UnderwayOf(e) ELSE None]
Drawn == 1..issued

LEMMA RegisterUnfolded ==
    /\ Register!Init <=> /\ code = [c \in Codes |-> "unknown"] /\ GoodOf = [m \in Machines |-> {}]
                         /\ Drawn = {} /\ PendingOf = [e \in Terminals |-> None]
    /\ \A c \in Codes : Register!Claimed(c) <=>
          \E e \in Terminals : PendingOf[e] # None /\ PendingOf[e].code = c
    /\ \A c \in Codes : Register!Mint(c) <=>
          /\ code[c] = "unknown" /\ code' = [code EXCEPT ![c] = "unused"]
          /\ GoodOf' = GoodOf /\ Drawn' = Drawn /\ PendingOf' = PendingOf
    /\ \A c \in Codes : Register!Expire(c) <=>
          /\ code[c] = "unused" /\ ~Register!Claimed(c) /\ code' = [code EXCEPT ![c] = "expired"]
          /\ GoodOf' = GoodOf /\ Drawn' = Drawn /\ PendingOf' = PendingOf
    /\ \A e \in Terminals, m \in Machines, c \in Codes : Register!Begin(e, m, c) <=>
          /\ PendingOf[e] = None /\ code[c] = "unused" /\ ~Register!Claimed(c)
          /\ \E t \in Token \ Drawn :
               /\ Drawn' = Drawn \cup {t}
               /\ PendingOf' = [PendingOf EXCEPT ![e] =
                                  [machine |-> m, code |-> c, token |-> t, overtaken |-> FALSE]]
          /\ code' = code /\ GoodOf' = GoodOf
    /\ \A e \in Terminals : Register!Withdraw(e) <=>
          /\ PendingOf[e] # None /\ PendingOf' = [PendingOf EXCEPT ![e] = None]
          /\ code' = code /\ GoodOf' = GoodOf /\ Drawn' = Drawn
    /\ \A e \in Terminals : Register!Complete(e) <=>
          /\ PendingOf[e] # None /\ code[PendingOf[e].code] = "unused"
          /\ code' = [code EXCEPT ![PendingOf[e].code] = "used"]
          /\ GoodOf' = IF PendingOf[e].overtaken THEN GoodOf
                       ELSE [GoodOf EXCEPT ![PendingOf[e].machine] = {PendingOf[e].token}]
          /\ PendingOf' = [PendingOf EXCEPT ![e] = None]
          /\ Drawn' = Drawn
    /\ \A m \in Machines : Register!Remove(m) <=>
          /\ GoodOf' = [GoodOf EXCEPT ![m] = {}]
          /\ \E late \in SUBSET {e \in Terminals : PendingOf[e] # None /\ PendingOf[e].machine = m} :
               PendingOf' = [e \in Terminals |->
                               IF e \in late THEN [PendingOf[e] EXCEPT !.overtaken = TRUE]
                               ELSE PendingOf[e]]
          /\ code' = code /\ Drawn' = Drawn
    /\ Register!vars = <<code, GoodOf, Drawn, PendingOf>>
BY DEF GoodOf, PendingOf, UnderwayOf, Drawn, Register!Init, Register!Claimed, Register!Mint,
       Register!Expire, Register!Begin, Register!Withdraw, Register!Complete, Register!Remove,
       Register!Under, Register!vars

LEMMA RegisterInit == Init => RegisterInv /\ Register!Init
<1> SUFFICES ASSUME Init PROVE RegisterInv /\ Register!Init
    OBVIOUS
<1>1. EnrollInv
      BY EnrollInit
<1>2. FoundIsItsMachines /\ FreshIsNobodys
      BY DEF Init, FoundIsItsMachines, FreshIsNobodys, Found, Written
<1>3. GoodOf = [m \in Machines |-> {}]
      BY DEF Init, GoodOf, LiveRows, Live
<1>4. PendingOf = [e \in Terminals |-> None]
      BY DEF Init, PendingOf, Open
<1>5. Drawn = {}
  <2>1. issued = 0
        BY DEF Init
  <2>2. 1..0 = {}
        OBVIOUS
  <2> QED BY <2>1, <2>2 DEF Drawn
<1> QED BY <1>1, <1>2, <1>3, <1>4, <1>5, RegisterUnfolded DEF RegisterInv, Init

-----------------------------------------------------------------------------
(***************************************************************************)
(* RegisterInv is kept.                                                    *)
(***************************************************************************)
LEMMA FoundTyped ==
    ASSUME EnrollInv, NEW e \in Terminals, Found(e)
    PROVE  tx[e].found \in Rows
BY Typed DEF Found

\* A commit leaves every row with its machine, and writes none another enrollment has found
\* but one that is there already.
LEMMA CommitWrites ==
    ASSUME RegisterInv, NEW e \in Terminals, NEW delivered \in BOOLEAN, Commit(e, delivered)
    PROVE  \E r \in Rows, x \in Device :
             /\ row' = [row EXCEPT ![r] = x]
             /\ x.token = tx[e].token /\ x.machine = tx[e].machine
             /\ tx[e].found # None =>
                   r = tx[e].found /\ row[r] # None /\ x.status = row[r].status
             /\ tx[e].found = None =>
                   /\ row[r] = None /\ x.status = "active" /\ LiveRows(tx[e].machine) = {}
                   /\ \A d \in Terminals : Found(d) => tx[d].found # r
<1>1. /\ Written(e) /\ OpenKnows(e) /\ HoldsRow(e) /\ HoldsMachine(e)
      /\ pc[e] = "flushed"
      BY DEF Commit, RegisterInv, EnrollInv, Written
<1>2. CASE tx[e].found # None
  <2> DEFINE r == tx[e].found
             x == Rebound(r, tx[e].token)
  <2>1. r \in Rows /\ row[r] # None /\ row[r].machine = tx[e].machine
        BY <1>1, <1>2, Typed DEF RegisterInv, FoundIsItsMachines, Found, HoldsRow
  <2>2. row[r] \in Device /\ tx[e].token \in Token
        BY <1>1, <2>1 DEF RegisterInv, EnrollInv, TypeOK, OpenKnows
  <2>3. x \in Device /\ x.machine = row[r].machine /\ x.status = row[r].status
        /\ x.token = tx[e].token
        BY <2>2 DEF Rebound, Device
  <2>4. row' = [row EXCEPT ![r] = x]
        BY <1>2 DEF Commit
  <2> HIDE DEF x
  <2> QED BY <1>2, <2>1, <2>3, <2>4
<1>3. CASE tx[e].found = None
  <2> DEFINE r == tx[e].fresh
             x == NewDevice(tx[e].machine, tx[e].token)
  <2>1. r \in Rows /\ row[r] = None /\ LiveRows(tx[e].machine) = {}
        BY <1>1, <1>3 DEF HoldsMachine
  <2>2. \A d \in Terminals : Found(d) => tx[d].found # r
        BY <1>1, <1>3 DEF RegisterInv, FreshIsNobodys
  <2>3. x \in Device /\ x.machine = tx[e].machine /\ x.token = tx[e].token /\ x.status = "active"
        BY <1>1 DEF NewDevice, Device, OpenKnows
  <2>4. row' = [row EXCEPT ![r] = x]
        BY <1>3 DEF Commit
  <2> HIDE DEF x
  <2> QED BY <1>3, <2>1, <2>2, <2>3, <2>4
<1> QED BY <1>2, <1>3

\* Removing a row leaves it as it is but for its status, or leaves none.
LEMMA RemoveWrites ==
    ASSUME RegisterInv, NEW r \in Rows, Revoke(r) \/ Delete(r)
    PROVE  /\ UNCHANGED <<code, issued, pc, tx>>
           /\ row[r] # None /\ row[r] \in Device /\ ~Live(r)'
           /\ \A s \in Rows : s # r => row'[s] = row[s]
           /\ row'[r] # None => row'[r].machine = row[r].machine
<1>1. UNCHANGED <<code, issued, pc, tx>> /\ row[r] # None /\ row[r] \in Device
      BY DEF Revoke, Delete, Remove, RegisterInv, EnrollInv, TypeOK
<1>2. CASE Delete(r)
  <2>1. row' = [row EXCEPT ![r] = None]
        BY <1>2 DEF Delete
  <2> QED BY <1>1, <2>1 DEF RegisterInv, EnrollInv, TypeOK, Live
<1>3. CASE Revoke(r)
  <2>1. row' = [row EXCEPT ![r] = [row[r] EXCEPT !.status = "revoked"]]
        BY <1>3 DEF Revoke
  <2>2. /\ [row[r] EXCEPT !.status = "revoked"].status = "revoked"
        /\ [row[r] EXCEPT !.status = "revoked"].machine = row[r].machine
        BY <1>1 DEF Device
  <2> QED BY <1>1, <2>1, <2>2 DEF RegisterInv, EnrollInv, TypeOK, Live
<1> QED BY <1>1, <1>2, <1>3

\* What a terminal knows that did not move.
LEMMA OthersFind ==
    ASSUME NEW d \in Terminals, tx'[d] = tx[d], pc'[d] = pc[d]
    PROVE  Found(d)' = Found(d) /\ Written(d)' = Written(d)
BY DEF Found, Written

LEMMA RegisterInvKept == RegisterInv /\ [Next]_vars => RegisterInv'
<1> SUFFICES ASSUME RegisterInv, [Next]_vars PROVE FoundIsItsMachines' /\ FreshIsNobodys'
    BY EnrollNext DEF RegisterInv
<1>1. ASSUME NEW e \in Terminals, row' = row,
             \A d \in Terminals : d # e => tx'[d] = tx[d] /\ pc'[d] = pc[d],
             ~Found(e)', ~Written(e)'
      PROVE  FoundIsItsMachines' /\ FreshIsNobodys'
  <2>1. \A d \in Terminals : d # e => Found(d)' = Found(d) /\ Written(d)' = Written(d)
        BY <1>1, OthersFind
  <2> QED BY <1>1, <2>1 DEF RegisterInv, FoundIsItsMachines, FreshIsNobodys
<1>2. ASSUME NEW e \in Terminals, NEW m \in Machines, NEW c \in Codes, Claim(e, m, c)
      PROVE  FoundIsItsMachines' /\ FreshIsNobodys'
  <2>1. row' = row /\ pc' = [pc EXCEPT ![e] = "claimed"]
        /\ \A d \in Terminals : d # e => tx'[d] = tx[d]
        BY <1>2 DEF Claim, hubVars, RegisterInv, EnrollInv, TypeOK
  <2> QED BY <2>1, <1>1 DEF Found, Written, RegisterInv, EnrollInv, TypeOK
<1>3. ASSUME NEW e \in Terminals, LookUp(e)
      PROVE  FoundIsItsMachines' /\ FreshIsNobodys'
  <2>1. PICK found \in IF LiveRows(tx[e].machine) = {} THEN {None} ELSE LiveRows(tx[e].machine) :
          tx' = [tx EXCEPT ![e] = [tx[e] EXCEPT !.found = found]]
        BY <1>3 DEF LookUp
  <2>2. found \in Rows \cup {None}
        /\ (found # None => found \in Rows /\ row[found] # None
                            /\ row[found].machine = tx[e].machine)
        BY <2>1 DEF LiveRows, Live
  <2>3. row' = row /\ pc'[e] = "looked" /\ \A d \in Terminals : d # e => tx'[d] = tx[d] /\ pc'[d] = pc[d]
        BY <1>3, <2>1 DEF LookUp, hubVars, RegisterInv, EnrollInv, TypeOK
  <2>4. tx'[e].found = found /\ tx'[e].machine = tx[e].machine
    <3>1. tx'[e] = [tx[e] EXCEPT !.found = found] /\ tx[e] \in Tx
          BY <2>1, Typed DEF RegisterInv, EnrollInv, TypeOK
    <3> QED BY <3>1, <2>2, TxFields
  <2>5. ~Written(e)' /\ \A d \in Terminals : d # e => Found(d)' = Found(d) /\ Written(d)' = Written(d)
        BY <2>3, OthersFind DEF Written
  <2>6. FoundIsItsMachines'
        BY <2>2, <2>3, <2>4, <2>5 DEF RegisterInv, FoundIsItsMachines, Found
  <2>7. \A d \in Terminals : Written(d) /\ tx[d].found = None => row[tx[d].fresh] = None
        BY DEF RegisterInv, EnrollInv, HoldsMachine
  <2>8. FreshIsNobodys'
        BY <2>2, <2>3, <2>4, <2>5, <2>7 DEF RegisterInv, FreshIsNobodys, Found
  <2> QED BY <2>6, <2>8
<1>4. ASSUME NEW e \in Terminals, Flush(e)
      PROVE  FoundIsItsMachines' /\ FreshIsNobodys'
  <2>1. PICK fresh \in Rows \cup {None} :
          /\ tx' = [tx EXCEPT ![e] = [tx[e] EXCEPT !.fresh = fresh]]
          /\ tx[e].found = None => \A d \in Terminals : tx[d].found # fresh
    <3>1. CASE tx[e].found # None
      <4>1. tx' = tx
            BY <1>4, <3>1 DEF Flush
      <4>2. tx = [tx EXCEPT ![e] = [tx[e] EXCEPT !.fresh = tx[e].fresh]] /\ tx[e].fresh \in Rows \cup {None}
            BY DEF RegisterInv, EnrollInv, TypeOK
      <4> QED BY <3>1, <4>1, <4>2
    <3>2. CASE tx[e].found = None
          BY <1>4, <3>2 DEF Flush
    <3> QED BY <3>1, <3>2
  <2>2. row' = row /\ pc[e] = "looked" /\ pc'[e] = "flushed"
        /\ \A d \in Terminals : d # e => tx'[d] = tx[d] /\ pc'[d] = pc[d]
        BY <1>4, <2>1 DEF Flush, hubVars, RegisterInv, EnrollInv, TypeOK
  <2>3. tx'[e].found = tx[e].found /\ tx'[e].machine = tx[e].machine /\ tx'[e].fresh = fresh
    <3>1. tx'[e] = [tx[e] EXCEPT !.fresh = fresh] /\ tx[e] \in Tx
          BY <2>1, Typed DEF RegisterInv, EnrollInv, TypeOK
    <3>2. fresh \in Rows \cup {None}
          BY <2>1
    <3> QED BY <3>1, <3>2, TxFields
  <2>4. \A d \in Terminals : Found(d)' = Found(d) /\ tx'[d].found = tx[d].found
                             /\ tx'[d].machine = tx[d].machine
        BY <2>2, <2>3 DEF Found
  <2>5. \A d \in Terminals : d # e => Written(d)' = Written(d)
        BY <2>2, OthersFind
  <2>6. FoundIsItsMachines'
        BY <2>2, <2>4 DEF RegisterInv, FoundIsItsMachines
  <2>7. FreshIsNobodys'
        BY <2>1, <2>2, <2>3, <2>4, <2>5 DEF RegisterInv, FreshIsNobodys
  <2> QED BY <2>6, <2>7
<1>5. ASSUME NEW e \in Terminals, Abort(e) \/ \E restarted \in BOOLEAN : Finish(e, restarted)
      PROVE  FoundIsItsMachines' /\ FreshIsNobodys'
  <2>1. row' = row /\ pc' = [pc EXCEPT ![e] = "idle"] /\ tx' = [tx EXCEPT ![e] = NoTx]
        BY <1>5 DEF Abort, Finish, hubVars
  <2> QED BY <2>1, <1>1 DEF Found, Written, RegisterInv, EnrollInv, TypeOK
<1>6. ASSUME NEW e \in Terminals, NEW delivered \in BOOLEAN, Commit(e, delivered)
      PROVE  FoundIsItsMachines' /\ FreshIsNobodys'
  <2>1. PICK r \in Rows, x \in Device :
          /\ row' = [row EXCEPT ![r] = x]
          /\ x.machine = tx[e].machine
          /\ tx[e].found # None => r = tx[e].found /\ row[r] # None
          /\ tx[e].found = None => \A d \in Terminals : Found(d) => tx[d].found # r
        BY <1>6, CommitWrites
  <2>2. pc[e] = "flushed" /\ ~Found(e)' /\ ~Written(e)'
        /\ \A d \in Terminals : d # e => tx'[d] = tx[d] /\ pc'[d] = pc[d]
        BY <1>6 DEF Commit, Found, Written, RegisterInv, EnrollInv, TypeOK
  <2>3. \A d \in Terminals : d # e => Found(d)' = Found(d) /\ Written(d)' = Written(d)
        BY <2>2, OthersFind
  <2>4. FreshIsNobodys'
        BY <2>2, <2>3 DEF RegisterInv, FreshIsNobodys
  <2>5. ASSUME NEW d \in Terminals, Found(d)', row'[tx'[d].found] # None
        PROVE  row'[tx'[d].found].machine = tx'[d].machine
    <3>1. d # e /\ Found(d) /\ tx'[d] = tx[d] /\ tx[d].found \in Rows
          BY <2>2, <2>3, <2>5, FoundTyped DEF RegisterInv
    <3>2. CASE tx[d].found # r
      <4>1. row'[tx[d].found] = row[tx[d].found]
            BY <2>1, <3>1, <3>2 DEF RegisterInv, EnrollInv, TypeOK
      <4> QED BY <2>5, <3>1, <4>1 DEF RegisterInv, FoundIsItsMachines
    <3>3. CASE tx[d].found = r
      <4>1. tx[e].found = r /\ row[r] # None /\ Found(e)
            BY <2>1, <2>2, <3>1, <3>3, FoundTyped, EnrollmentAssumption DEF Found
      <4>2. row[r].machine = tx[e].machine /\ row[r].machine = tx[d].machine
            BY <3>1, <3>3, <4>1 DEF RegisterInv, FoundIsItsMachines
      <4>3. row'[r] = x
            BY <2>1 DEF RegisterInv, EnrollInv, TypeOK
      <4> QED BY <2>1, <3>1, <3>3, <4>2, <4>3
    <3> QED BY <3>2, <3>3
  <2> QED BY <2>4, <2>5 DEF FoundIsItsMachines
<1>7. ASSUME NEW r \in Rows, Revoke(r) \/ Delete(r)
      PROVE  FoundIsItsMachines' /\ FreshIsNobodys'
  <2>1. /\ UNCHANGED <<pc, tx>> /\ row[r] # None
        /\ \A s \in Rows : s # r => row'[s] = row[s]
        /\ row'[r] # None => row'[r].machine = row[r].machine
        BY <1>7, RemoveWrites
  <2>2. \A d \in Terminals : Found(d)' = Found(d) /\ Written(d)' = Written(d)
        BY <2>1, OthersFind
  <2>3. FreshIsNobodys'
        BY <2>1, <2>2 DEF RegisterInv, FreshIsNobodys
  <2>4. FoundIsItsMachines'
        BY <2>1, <2>2, FoundTyped DEF RegisterInv, FoundIsItsMachines
  <2> QED BY <2>3, <2>4
<1>8. ASSUME UNCHANGED <<row, tx>>,
             pc' = pc \/ \E e \in Terminals : pc[e] = "answered" /\ pc' = [pc EXCEPT ![e] = "saved"]
      PROVE  FoundIsItsMachines' /\ FreshIsNobodys'
  <2>1. \A d \in Terminals : Found(d)' = Found(d) /\ Written(d)' = Written(d)
        BY <1>8 DEF Found, Written, RegisterInv, EnrollInv, TypeOK
  <2> QED BY <1>8, <2>1 DEF RegisterInv, FoundIsItsMachines, FreshIsNobodys
<1>9. ASSUME NEW e \in Terminals, SaveToken(e)
      PROVE  FoundIsItsMachines' /\ FreshIsNobodys'
      BY <1>8, <1>9 DEF SaveToken, hubVars
<1>10. ASSUME NEW m \in Machines, Sync(m) \/ Retry(m) \/ StartAgent(m)
       PROVE  FoundIsItsMachines' /\ FreshIsNobodys'
       BY <1>8, <1>10 DEF Sync, Retry, StartAgent, hubVars
<1>11. ASSUME NEW c \in Codes, Mint(c) \/ Expire(c)
       PROVE  FoundIsItsMachines' /\ FreshIsNobodys'
       BY <1>8, <1>11 DEF Mint, Expire
<1>12. CASE UNCHANGED vars
       BY <1>8, <1>12 DEF vars, hubVars
<1> QED BY <1>2, <1>3, <1>4, <1>5, <1>6, <1>7, <1>9, <1>10, <1>11, <1>12 DEF Next, EnrollStep

-----------------------------------------------------------------------------
(***************************************************************************)
(* Each step is one of the register's, or does not show.                   *)
(***************************************************************************)
LEMMA IsUnderway ==
    ASSUME EnrollInv, NEW e \in Terminals
    PROVE  /\ Overtaken(e) \in BOOLEAN
           /\ PendingOf[e] # None <=> Open(e)
           /\ Open(e) => /\ PendingOf[e] = UnderwayOf(e) /\ tx[e].machine \in Machines
                         /\ tx[e].code \in Codes /\ tx[e].token \in Token
<1>1. Overtaken(e) \in BOOLEAN
      BY DEF Overtaken
<1>2. ASSUME Open(e)
      PROVE  UnderwayOf(e) # None /\ tx[e].machine \in Machines
             /\ tx[e].code \in Codes /\ tx[e].token \in Token
  <2>1. OpenKnows(e)
        BY <1>2 DEF EnrollInv, Open
  <2>2. UnderwayOf(e) \in Underway
        BY <1>1, <2>1 DEF UnderwayOf, Underway, OpenKnows
  <2> QED BY <2>1, <2>2, EnrollmentAssumption DEF OpenKnows
<1> QED BY <1>1, <1>2 DEF PendingOf

LEMMA ClaimedIsLocked ==
    ASSUME EnrollInv, NEW c \in Codes
    PROVE  Register!Claimed(c) <=> CodeLocked(c)
<1>1. Register!Claimed(c) <=> \E e \in Terminals : PendingOf[e] # None /\ PendingOf[e].code = c
      BY RegisterUnfolded
<1>2. \A e \in Terminals : UnderwayOf(e).code = tx[e].code
      BY DEF UnderwayOf
<1>3. \A e \in Terminals : PendingOf[e] # None /\ PendingOf[e].code = c <=> Open(e) /\ tx[e].code = c
      BY <1>2, IsUnderway
<1> QED BY <1>1, <1>3 DEF CodeLocked

\* An enrollment another terminal's step, or a row it has not found, leaves as it was.
LEMMA StaysUnderway ==
    ASSUME NEW d \in Terminals, tx'[d] = tx[d], pc'[d] = pc[d],
           Found(d) => Live(tx[d].found)' = Live(tx[d].found)
    PROVE  PendingOf'[d] = PendingOf[d] /\ Overtaken(d)' = Overtaken(d)
<1>1. Overtaken(d)' = Overtaken(d)
      BY DEF Overtaken, Found
<1>2. Open(d)' = Open(d)
      BY DEF Open
<1> QED BY <1>1, <1>2 DEF PendingOf, UnderwayOf

LEMMA RowsStay ==
    ASSUME row' = row
    PROVE  /\ GoodOf' = GoodOf
           /\ \A d \in Terminals : tx'[d] = tx[d] => Live(tx[d].found)' = Live(tx[d].found)
BY DEF GoodOf, LiveRows, Live

LEMMA NothingShows ==
    ASSUME UNCHANGED <<code, row, issued>>, \A d \in Terminals : PendingOf'[d] = PendingOf[d]
    PROVE  UNCHANGED Register!vars
<1>1. PendingOf' = PendingOf
      BY DEF PendingOf
<1>2. GoodOf' = GoodOf /\ Drawn' = Drawn
      BY RowsStay DEF Drawn
<1>3. Register!vars = <<code, GoodOf, Drawn, PendingOf>>
      BY RegisterUnfolded
<1>4. Register!vars' = <<code', GoodOf', Drawn', PendingOf'>>
      BY DEF GoodOf, Drawn, PendingOf, UnderwayOf, Register!vars
<1> QED BY <1>1, <1>2, <1>3, <1>4

\* The claim of the code is the beginning.
LEMMA ClaimBegins ==
    ASSUME RegisterInv, NEW e \in Terminals, NEW m \in Machines, NEW c \in Codes, Claim(e, m, c)
    PROVE  Register!Begin(e, m, c)
<1> DEFINE t == issued + 1
<1>1. /\ pc[e] = "idle" /\ Claimable(c) /\ issued < MaxTokens /\ issued' = t
      /\ pc' = [pc EXCEPT ![e] = "claimed"] /\ UNCHANGED <<code, row>>
      /\ tx' = [tx EXCEPT ![e] = [NoTx EXCEPT !.machine = m, !.code = c, !.token = t]]
      BY DEF Claim, hubVars
<1>2. /\ pc'[e] = "claimed" /\ tx'[e].machine = m /\ tx'[e].code = c /\ tx'[e].token = t
      /\ \A d \in Terminals : d # e => tx'[d] = tx[d] /\ pc'[d] = pc[d]
  <2>1. tx'[e] = [NoTx EXCEPT !.machine = m, !.code = c, !.token = t]
        BY <1>1 DEF RegisterInv, EnrollInv, TypeOK
  <2>2. tx'[e].machine = m /\ tx'[e].code = c /\ tx'[e].token = t
        BY <2>1 DEF NoTx
  <2> QED BY <1>1, <2>2 DEF RegisterInv, EnrollInv, TypeOK
<1>3. issued \in Nat /\ t \in Token \ Drawn /\ Drawn' = Drawn \cup {t}
  <2>0. issued \in 0..MaxTokens
        BY DEF RegisterInv, EnrollInv, TypeOK
  <2>1. issued \in Nat /\ issued < MaxTokens /\ MaxTokens \in Nat
        BY <1>1, <2>0, Bounds
  <2>2. t \in Token
        BY <2>1 DEF Token
  <2>3. t \notin Drawn
        BY <2>1 DEF Drawn
  <2>4. 1..t = (1..issued) \cup {t}
        BY <2>1
  <2>5. Drawn' = Drawn \cup {t}
        BY <1>1, <2>4 DEF Drawn
  <2> QED BY <2>1, <2>2, <2>3, <2>5
<1> HIDE DEF t
<1>4. PendingOf[e] = None /\ code[c] = "unused" /\ ~Register!Claimed(c)
      BY <1>1, IsUnderway, ClaimedIsLocked DEF RegisterInv, Open, Claimable
<1>5. \A d \in Terminals : d # e => PendingOf'[d] = PendingOf[d]
      BY <1>1, <1>2, RowsStay, StaysUnderway
<1>6. PendingOf'[e] = [machine |-> m, code |-> c, token |-> t, overtaken |-> FALSE]
  <2>1. Open(e)' /\ Overtaken(e)' = FALSE
        BY <1>2 DEF Open, Overtaken
  <2> QED BY <1>2, <2>1 DEF PendingOf, UnderwayOf
<1>7. PendingOf' = [PendingOf EXCEPT ![e] =
                      [machine |-> m, code |-> c, token |-> t, overtaken |-> FALSE]]
      BY <1>5, <1>6 DEF PendingOf
<1>8. GoodOf' = GoodOf
      BY <1>1, RowsStay
<1> QED BY <1>1, <1>3, <1>4, <1>7, <1>8, RegisterUnfolded

\* What it finds is live when it finds it, and what it writes shows at the commit.
LEMMA StatementsDoNotShow ==
    ASSUME RegisterInv, NEW e \in Terminals, LookUp(e) \/ Flush(e)
    PROVE  UNCHANGED Register!vars
<1>1. UNCHANGED <<code, row, issued>>
      /\ \A d \in Terminals : d # e => tx'[d] = tx[d] /\ pc'[d] = pc[d]
      BY DEF LookUp, Flush, hubVars, RegisterInv, EnrollInv, TypeOK
<1>2. /\ Open(e) /\ Open(e)' /\ Overtaken(e)' = Overtaken(e)
      /\ tx'[e].machine = tx[e].machine /\ tx'[e].code = tx[e].code /\ tx'[e].token = tx[e].token
  <2>1. CASE LookUp(e)
    <3>1. PICK found \in IF LiveRows(tx[e].machine) = {} THEN {None} ELSE LiveRows(tx[e].machine) :
            tx' = [tx EXCEPT ![e] = [tx[e] EXCEPT !.found = found]]
          BY <2>1 DEF LookUp
    <3>2. found \in Rows \cup {None} /\ (found # None => Live(found))
          BY <3>1 DEF LiveRows
    <3>3. pc[e] = "claimed" /\ pc'[e] = "looked" /\ tx'[e] = [tx[e] EXCEPT !.found = found] /\ tx[e] \in Tx
          BY <2>1, <3>1, Typed DEF LookUp, RegisterInv, EnrollInv, TypeOK
    <3>4. tx'[e].found = found /\ tx'[e].machine = tx[e].machine /\ tx'[e].code = tx[e].code
          /\ tx'[e].token = tx[e].token
          BY <3>2, <3>3, TxFields
    <3>5. Overtaken(e)' = FALSE /\ Overtaken(e) = FALSE
          BY <1>1, <3>2, <3>3, <3>4 DEF Overtaken, Live
    <3> QED BY <3>3, <3>4, <3>5 DEF Open
  <2>2. CASE Flush(e)
    <3>1. PICK fresh \in Rows \cup {None} : tx' = [tx EXCEPT ![e] = [tx[e] EXCEPT !.fresh = fresh]]
      <4>1. CASE tx[e].found # None
        <5>1. tx' = tx
              BY <2>2, <4>1 DEF Flush
        <5>2. tx = [tx EXCEPT ![e] = [tx[e] EXCEPT !.fresh = tx[e].fresh]] /\ tx[e].fresh \in Rows \cup {None}
              BY DEF RegisterInv, EnrollInv, TypeOK
        <5> QED BY <5>1, <5>2
      <4>2. CASE tx[e].found = None
            BY <2>2, <4>2 DEF Flush
      <4> QED BY <4>1, <4>2
    <3>2. pc[e] = "looked" /\ pc'[e] = "flushed" /\ tx'[e] = [tx[e] EXCEPT !.fresh = fresh] /\ tx[e] \in Tx
          BY <2>2, <3>1, Typed DEF Flush, RegisterInv, EnrollInv, TypeOK
    <3>3. fresh \in Rows \cup {None}
          BY <3>1
    <3>4. tx'[e].found = tx[e].found /\ tx'[e].machine = tx[e].machine /\ tx'[e].code = tx[e].code
          /\ tx'[e].token = tx[e].token
          BY <3>2, <3>3, TxFields
    <3>5. Overtaken(e)' = Overtaken(e)
          BY <1>1, <3>2, <3>4 DEF Overtaken, Live
    <3> QED BY <3>2, <3>4, <3>5 DEF Open
  <2> QED BY <2>1, <2>2
<1>3. PendingOf'[e] = PendingOf[e]
      BY <1>2 DEF PendingOf, UnderwayOf
<1>4. \A d \in Terminals : d # e => PendingOf'[d] = PendingOf[d]
      BY <1>1, RowsStay, StaysUnderway
<1> QED BY <1>1, <1>3, <1>4, NothingShows

LEMMA AbortWithdraws ==
    ASSUME RegisterInv, NEW e \in Terminals, Abort(e)
    PROVE  Register!Withdraw(e)
<1>1. UNCHANGED <<code, row, issued>> /\ pc[e] = "looked" /\ pc'[e] = "idle"
      /\ \A d \in Terminals : d # e => tx'[d] = tx[d] /\ pc'[d] = pc[d]
      BY DEF Abort, hubVars, RegisterInv, EnrollInv, TypeOK
<1>2. PendingOf[e] # None /\ PendingOf'[e] = None
      BY <1>1, IsUnderway DEF RegisterInv, Open, PendingOf
<1>3. \A d \in Terminals : d # e => PendingOf'[d] = PendingOf[d]
      BY <1>1, RowsStay, StaysUnderway
<1>4. PendingOf' = [PendingOf EXCEPT ![e] = None]
      BY <1>2, <1>3 DEF PendingOf
<1>5. GoodOf' = GoodOf /\ Drawn' = Drawn
      BY <1>1, RowsStay DEF Drawn
<1> QED BY <1>1, <1>2, <1>4, <1>5, RegisterUnfolded

\* The commit is when the enrollment takes place: its token is the only one of its machine,
\* unless the row it has written is not live any more.
LEMMA CommitCompletes ==
    ASSUME RegisterInv, RegisterInv', NEW e \in Terminals, NEW delivered \in BOOLEAN,
           Commit(e, delivered)
    PROVE  Register!Complete(e)
<1>0. PICK m \in Machines : m = tx[e].machine
  <2>1. OpenKnows(e)
        BY DEF Commit, RegisterInv, EnrollInv
  <2> QED BY <2>1 DEF OpenKnows
<1>1. PICK r \in Rows, x \in Device :
        /\ row' = [row EXCEPT ![r] = x]
        /\ x.token = tx[e].token /\ x.machine = m
        /\ tx[e].found # None => r = tx[e].found /\ row[r] # None /\ x.status = row[r].status
        /\ tx[e].found = None =>
              /\ row[r] = None /\ x.status = "active" /\ LiveRows(m) = {}
              /\ \A d \in Terminals : Found(d) => tx[d].found # r
      BY <1>0, CommitWrites
<1>2. /\ pc[e] = "flushed" /\ Open(e) /\ ~Open(e)'
      /\ code' = [code EXCEPT ![tx[e].code] = "used"] /\ issued' = issued
      /\ \A d \in Terminals : d # e => tx'[d] = tx[d] /\ pc'[d] = pc[d]
  <2>1. /\ pc[e] = "flushed" /\ issued' = issued
        /\ code' = [code EXCEPT ![tx[e].code] = "used"]
        /\ pc' = [pc EXCEPT ![e] = IF delivered THEN "answered" ELSE "idle"]
        /\ tx' = IF delivered THEN tx ELSE [tx EXCEPT ![e] = NoTx]
        BY DEF Commit
  <2>2. pc'[e] = IF delivered THEN "answered" ELSE "idle"
        BY <2>1 DEF RegisterInv, EnrollInv, TypeOK
  <2>3. tx' = tx \/ tx' = [tx EXCEPT ![e] = NoTx]
        BY <2>1
  <2>4. \A d \in Terminals : d # e => tx'[d] = tx[d]
        BY <2>3, Typed DEF RegisterInv
  <2>5. \A d \in Terminals : d # e => pc'[d] = pc[d]
        BY <2>1 DEF RegisterInv, EnrollInv, TypeOK
  <2> QED BY <2>1, <2>2, <2>4, <2>5 DEF Open
<1>3. /\ row'[r] = x /\ x # None /\ \A s \in Rows : s # r => row'[s] = row[s]
  <2>1. x # None
        BY EnrollmentAssumption
  <2> QED BY <1>1, <2>1 DEF RegisterInv, EnrollInv, TypeOK
<1>4. /\ PendingOf[e] = UnderwayOf(e) /\ PendingOf[e] # None 
      /\ PendingOf[e].code = tx[e].code /\ PendingOf[e].machine = m
      /\ PendingOf[e].token = tx[e].token /\ PendingOf[e].overtaken = Overtaken(e)
  <2>1. PendingOf[e] = UnderwayOf(e) /\ PendingOf[e] # None
        BY <1>2, IsUnderway DEF RegisterInv
  <2> QED BY <1>0, <2>1 DEF UnderwayOf
<1>5. code[tx[e].code] = "unused"
      BY <1>2 DEF RegisterInv, EnrollInv, HoldsCode
<1>6. tx[e].found # None => row[r].machine = m
      BY <1>0, <1>1, <1>2 DEF RegisterInv, FoundIsItsMachines, Found
<1>7. Live(r)' <=> ~Overtaken(e)
      BY <1>1, <1>2, <1>3 DEF Live, Overtaken
<1>8. \A s \in Rows : s # r => Live(s)' = Live(s)
      BY <1>3 DEF Live
<1>9. ASSUME NEW n \in Machines, n # m PROVE LiveRows(n)' = LiveRows(n)
                                             /\ \A s \in LiveRows(n) : row'[s] = row[s]
  <2>1. r \notin LiveRows(n)' /\ r \notin LiveRows(n)
        BY <1>1, <1>3, <1>6, <1>9 DEF LiveRows, Live
  <2> QED BY <1>3, <1>8, <2>1 DEF LiveRows
<1>10. GoodOf' = IF Overtaken(e) THEN GoodOf ELSE [GoodOf EXCEPT ![m] = {tx[e].token}]
  <2>1. \A n \in Machines : n # m => GoodOf'[n] = GoodOf[n]
        BY <1>9 DEF GoodOf
  <2>2. CASE Overtaken(e)
    <3>1. ~Live(r) /\ ~Live(r)'
          BY <1>1, <1>7, <2>2 DEF Overtaken
    <3>2. LiveRows(m)' = LiveRows(m) /\ \A s \in LiveRows(m) : row'[s] = row[s]
          BY <1>3, <1>8, <3>1 DEF LiveRows
    <3>3. GoodOf'[m] = GoodOf[m]
          BY <1>4, <3>2 DEF GoodOf
    <3> QED BY <2>1, <2>2, <3>3 DEF GoodOf
  <2>3. CASE ~Overtaken(e)
    <3>1. r \in LiveRows(m)'
          BY <1>1, <1>3, <1>7, <2>3 DEF LiveRows
    <3>2. \A s \in LiveRows(m)' : s = r
          BY <3>1 DEF RegisterInv, EnrollInv, LiveRowsUnique, LiveRows
    <3>3. {row'[s].token : s \in LiveRows(m)'} = {tx[e].token}
          BY <1>1, <1>3, <3>1, <3>2
    <3>4. GoodOf'[m] = {tx[e].token}
          BY <1>4, <3>3 DEF GoodOf
    <3> QED BY <1>4, <2>1, <2>3, <3>4 DEF GoodOf
  <2> QED BY <2>2, <2>3
<1>11. \A d \in Terminals : d # e => PendingOf'[d] = PendingOf[d]
  <2> SUFFICES ASSUME NEW d \in Terminals, d # e PROVE PendingOf'[d] = PendingOf[d]
      OBVIOUS
  <2>1. ASSUME Found(d) PROVE Live(tx[d].found)' = Live(tx[d].found)
    <3>1. tx[d].found \in Rows /\ tx'[d] = tx[d]
          BY <1>2, <2>1, FoundTyped DEF RegisterInv
    <3>2. CASE tx[d].found # r
          BY <1>8, <3>1, <3>2 DEF Live
    <3>3. CASE tx[d].found = r
      <4>1. row[r] # None /\ x.status = row[r].status
            BY <1>1, <2>1, <3>3
      <4> QED BY <1>3, <3>1, <3>3, <4>1 DEF Live
    <3> QED BY <3>2, <3>3
  <2> QED BY <1>2, <2>1, StaysUnderway
<1>12. PendingOf' = [PendingOf EXCEPT ![e] = None]
  <2>1. PendingOf'[e] = None
        BY <1>2 DEF PendingOf
  <2> QED BY <1>11, <2>1 DEF PendingOf
<1>13. Drawn' = Drawn
      BY <1>2 DEF Drawn
<1> QED BY <1>2, <1>4, <1>5, <1>10, <1>12, <1>13, RegisterUnfolded

\* Taking a live row away ends its machine's token, and overtakes the enrollments that
\* have found that row; taking another away does not show.
LEMMA RemovalsRemove ==
    ASSUME RegisterInv, NEW r \in Rows, Revoke(r) \/ Delete(r)
    PROVE  (\E m \in Machines : Register!Remove(m)) \/ UNCHANGED Register!vars
<1>1. /\ UNCHANGED <<code, issued, pc, tx>>
      /\ row[r] # None /\ row[r] \in Device /\ ~Live(r)'
      /\ \A s \in Rows : s # r => row'[s] = row[s]
      BY RemoveWrites
<1>2. \A s \in Rows : s # r => Live(s)' = Live(s)
      BY <1>1 DEF Live
<1>3. \A d \in Terminals : Found(d) /\ tx[d].found # r =>
          PendingOf'[d] = PendingOf[d] /\ Overtaken(d)' = Overtaken(d)
  <2> SUFFICES ASSUME NEW d \in Terminals, Found(d), tx[d].found # r
               PROVE  PendingOf'[d] = PendingOf[d] /\ Overtaken(d)' = Overtaken(d)
      OBVIOUS
  <2>1. tx[d].found \in Rows /\ tx'[d] = tx[d] /\ pc'[d] = pc[d]
        BY <1>1, FoundTyped DEF RegisterInv
  <2>2. Live(tx[d].found)' = Live(tx[d].found)
        BY <1>2, <2>1 DEF Live
  <2> QED BY <2>1, <2>2, StaysUnderway
<1>4. \A d \in Terminals : ~Found(d) => PendingOf'[d] = PendingOf[d]
      BY <1>1, StaysUnderway
<1>5. Drawn' = Drawn
      BY <1>1 DEF Drawn
<1>6. CASE Live(r)
  <2>1. PICK m \in Machines : m = row[r].machine
        BY <1>1 DEF Device
  <2> DEFINE late == {d \in Terminals : Found(d) /\ tx[d].found = r}
  <2>2. LiveRows(m)' = {}
    <3>1. ASSUME NEW s \in LiveRows(m)' PROVE FALSE
      <4>1. s \in Rows /\ s # r
            BY <1>1, <3>1 DEF LiveRows
      <4>2. Live(s) /\ row[s].machine = m
            BY <1>1, <1>2, <3>1, <4>1 DEF LiveRows, Live
      <4> QED BY <1>6, <2>1, <4>1, <4>2 DEF RegisterInv, EnrollInv, LiveRowsUnique
    <3> QED BY <3>1
  <2>3. ASSUME NEW n \in Machines, n # m
        PROVE  LiveRows(n)' = LiveRows(n) /\ \A s \in LiveRows(n) : row'[s] = row[s]
    <3>1. r \notin LiveRows(n) /\ r \notin LiveRows(n)'
          BY <1>1, <2>1, <2>3 DEF LiveRows
    <3> QED BY <1>1, <1>2, <3>1 DEF LiveRows
  <2>4. GoodOf' = [GoodOf EXCEPT ![m] = {}]
    <3>1. \A n \in Machines : n # m => GoodOf'[n] = GoodOf[n]
          BY <2>3 DEF GoodOf
    <3>2. GoodOf'[m] = {}
          BY <2>1, <2>2 DEF GoodOf
    <3> QED BY <2>1, <3>1, <3>2 DEF GoodOf
  <2>5. late \subseteq {d \in Terminals : PendingOf[d] # None /\ PendingOf[d].machine = m}
    <3> SUFFICES ASSUME NEW d \in Terminals, Found(d), tx[d].found = r
                 PROVE  PendingOf[d] # None /\ PendingOf[d].machine = m
        OBVIOUS
    <3>1. Open(d) /\ PendingOf[d] = UnderwayOf(d) /\ PendingOf[d] # None
          BY IsUnderway DEF RegisterInv, Found, Open
    <3>2. tx[d].machine = m
          BY <1>1, <2>1 DEF RegisterInv, FoundIsItsMachines
    <3> QED BY <3>1, <3>2 DEF UnderwayOf
  <2>6. \A d \in Terminals : d \in late =>
            PendingOf'[d] = [PendingOf[d] EXCEPT !.overtaken = TRUE]
    <3> SUFFICES ASSUME NEW d \in Terminals, Found(d), tx[d].found = r
                 PROVE  PendingOf'[d] = [PendingOf[d] EXCEPT !.overtaken = TRUE]
        OBVIOUS
    <3>1. Open(d) /\ Open(d)' /\ PendingOf[d] = UnderwayOf(d)
          BY <1>1, IsUnderway DEF RegisterInv, Found, Open
    <3>2. Overtaken(d)' = TRUE
      <4>1. tx'[d] = tx[d] /\ pc'[d] = pc[d] /\ ~Live(tx[d].found)'
            BY <1>1 DEF Live
      <4> QED BY <4>1 DEF Overtaken, Found
    <3>3. PendingOf'[d] = [machine |-> tx[d].machine, code |-> tx[d].code,
                           token |-> tx[d].token, overtaken |-> TRUE]
          BY <1>1, <3>1, <3>2 DEF PendingOf, UnderwayOf
    <3>4. [UnderwayOf(d) EXCEPT !.overtaken = TRUE]
            = [machine |-> tx[d].machine, code |-> tx[d].code,
               token |-> tx[d].token, overtaken |-> TRUE]
      <4> DEFINE yes == TRUE
      <4>1. [UnderwayOf(d) EXCEPT !.overtaken = yes]
              = [machine |-> tx[d].machine, code |-> tx[d].code,
                 token |-> tx[d].token, overtaken |-> yes]
        <5> HIDE DEF yes
        <5> QED BY DEF UnderwayOf
      <4> QED BY <4>1
    <3> QED BY <3>1, <3>3, <3>4
  <2>7. PendingOf' = [d \in Terminals |->
                        IF d \in late THEN [PendingOf[d] EXCEPT !.overtaken = TRUE]
                        ELSE PendingOf[d]]
    <3>1. \A d \in Terminals : d \notin late => PendingOf'[d] = PendingOf[d]
          BY <1>3, <1>4
    <3> HIDE DEF late
    <3> QED BY <2>6, <3>1 DEF PendingOf
  <2> HIDE DEF late
  <2>8. Register!Remove(m)
    <3>1. \E gone \in SUBSET {d \in Terminals : PendingOf[d] # None /\ PendingOf[d].machine = m} :
             PendingOf' = [d \in Terminals |->
                             IF d \in gone THEN [PendingOf[d] EXCEPT !.overtaken = TRUE]
                             ELSE PendingOf[d]]
          BY <2>5, <2>7
    <3> QED BY <1>1, <1>5, <2>4, <3>1, RegisterUnfolded
  <2> QED BY <2>8
<1>7. CASE ~Live(r)
  <2>1. \A n : LiveRows(n)' = LiveRows(n) /\ \A s \in LiveRows(n) : row'[s] = row[s]
    <3>1. \A n : r \notin LiveRows(n) /\ r \notin LiveRows(n)'
          BY <1>1, <1>7 DEF LiveRows
    <3> QED BY <1>1, <1>2, <3>1 DEF LiveRows
  <2>2. GoodOf' = GoodOf
        BY <2>1 DEF GoodOf
  <2>3. \A d \in Terminals : PendingOf'[d] = PendingOf[d]
    <3> SUFFICES ASSUME NEW d \in Terminals, Found(d), tx[d].found = r
                 PROVE  PendingOf'[d] = PendingOf[d]
        BY <1>3, <1>4
    <3>1. tx'[d] = tx[d] /\ pc'[d] = pc[d] /\ Live(tx[d].found)' = Live(tx[d].found)
          BY <1>1, <1>7 DEF Live
    <3> QED BY <3>1, StaysUnderway
  <2>4. PendingOf' = PendingOf
        BY <2>3 DEF PendingOf
  <2>5. Register!vars = <<code, GoodOf, Drawn, PendingOf>>
        BY RegisterUnfolded
  <2>6. Register!vars' = <<code', GoodOf', Drawn', PendingOf'>>
        BY DEF GoodOf, Drawn, PendingOf, UnderwayOf, Register!vars
  <2> QED BY <1>1, <1>5, <2>2, <2>4, <2>5, <2>6
<1> QED BY <1>6, <1>7

LEMMA CodesAreTheRegisters ==
    ASSUME RegisterInv, NEW c \in Codes, Mint(c) \/ Expire(c)
    PROVE  Register!Mint(c) \/ Register!Expire(c)
<1>1. UNCHANGED <<row, issued, pc, tx>>
      BY DEF Mint, Expire
<1>2. GoodOf' = GoodOf /\ Drawn' = Drawn
      BY <1>1, RowsStay DEF Drawn
<1>3. PendingOf' = PendingOf
  <2>1. \A d \in Terminals : PendingOf'[d] = PendingOf[d]
        BY <1>1, RowsStay, StaysUnderway
  <2> QED BY <2>1 DEF PendingOf
<1>4. CASE Mint(c)
      BY <1>2, <1>3, <1>4, RegisterUnfolded DEF Mint
<1>5. CASE Expire(c)
      BY <1>2, <1>3, <1>5, ClaimedIsLocked, RegisterUnfolded DEF Expire, RegisterInv
<1> QED BY <1>4, <1>5

LEMMA RegisterStep ==
    RegisterInv /\ RegisterInv' /\ [Next]_vars => [Register!Next]_(Register!vars)
<1> SUFFICES ASSUME RegisterInv, RegisterInv', [Next]_vars
             PROVE  Register!Next \/ UNCHANGED Register!vars
    OBVIOUS
<1>1. ASSUME UNCHANGED <<code, row, issued>>,
             \A d \in Terminals : Open(d) \/ Open(d)' => tx'[d] = tx[d] /\ pc'[d] = pc[d]
      PROVE  UNCHANGED Register!vars
  <2> SUFFICES ASSUME NEW d \in Terminals PROVE PendingOf'[d] = PendingOf[d]
      BY <1>1, NothingShows
  <2>1. CASE Open(d) \/ Open(d)'
        BY <1>1, <2>1, RowsStay, StaysUnderway
  <2>2. CASE ~Open(d) /\ ~Open(d)'
        BY <2>2 DEF PendingOf
  <2> QED BY <2>1, <2>2
<1>2. ASSUME NEW e \in Terminals, EnrollStep(e)
      PROVE  Register!Next \/ UNCHANGED Register!vars
  <2>1. CASE SaveToken(e) \/ \E restarted \in BOOLEAN : Finish(e, restarted)
    <3>1. /\ UNCHANGED <<code, row, issued>>
          /\ \A d \in Terminals : d # e => tx'[d] = tx[d] /\ pc'[d] = pc[d]
          /\ ~Open(e) /\ ~Open(e)'
      <4>1. CASE SaveToken(e)
            BY <4>1 DEF SaveToken, hubVars, Open, RegisterInv, EnrollInv, TypeOK
      <4>2. ASSUME NEW restarted \in BOOLEAN, Finish(e, restarted)
            PROVE  /\ UNCHANGED <<code, row, issued>>
                   /\ \A d \in Terminals : d # e => tx'[d] = tx[d] /\ pc'[d] = pc[d]
                   /\ ~Open(e) /\ ~Open(e)'
        <5>1. /\ UNCHANGED <<code, row, issued>> /\ pc[e] = "saved"
              /\ pc' = [pc EXCEPT ![e] = "idle"] /\ tx' = [tx EXCEPT ![e] = NoTx]
              BY <4>2 DEF Finish, hubVars
        <5>2. \A d \in Terminals : d # e => tx'[d] = tx[d]
              BY <5>1, Typed DEF RegisterInv
        <5>3. pc'[e] = "idle" /\ \A d \in Terminals : d # e => pc'[d] = pc[d]
              BY <5>1 DEF RegisterInv, EnrollInv, TypeOK
        <5> QED BY <5>1, <5>2, <5>3 DEF Open
      <4> QED BY <2>1, <4>1, <4>2
    <3> QED BY <3>1, <1>1
  <2>2. ASSUME NEW m \in Machines, NEW c \in Codes, Claim(e, m, c) PROVE Register!Next
        BY <2>2, ClaimBegins DEF Register!Next
  <2>3. CASE Abort(e)
        BY <2>3, AbortWithdraws DEF Register!Next
  <2>4. ASSUME NEW delivered \in BOOLEAN, Commit(e, delivered) PROVE Register!Next
        BY <2>4, CommitCompletes DEF Register!Next
  <2> QED BY <1>2, <2>1, <2>2, <2>3, <2>4, StatementsDoNotShow DEF EnrollStep
<1>3. ASSUME NEW m \in Machines, Sync(m) \/ Retry(m) \/ StartAgent(m)
      PROVE  UNCHANGED Register!vars
      BY <1>1, <1>3 DEF Sync, Retry, StartAgent, hubVars
<1>4. ASSUME NEW c \in Codes, Mint(c) \/ Expire(c) PROVE Register!Next
      BY <1>4, CodesAreTheRegisters DEF Register!Next
<1>5. ASSUME NEW r \in Rows, Revoke(r) \/ Delete(r)
      PROVE  Register!Next \/ UNCHANGED Register!vars
      BY <1>5, RemovalsRemove DEF Register!Next
<1>6. CASE UNCHANGED vars
      BY <1>1, <1>6 DEF vars, hubVars
<1> QED BY <1>2, <1>3, <1>4, <1>5, <1>6 DEF Next

\* enroll's statements, revoke_device and delete_device are the steps of one register of
\* tokens, for any number of machines, terminals, codes and rows: whichever way they come
\* between one another, the last enrollment of a machine holds its only token, and a
\* removal ends it for good.
THEOREM OneRegisterOfTokens == Spec => TokensAreARegister
<1>1. Init => RegisterInv /\ Register!Init
      BY RegisterInit
<1> QED BY <1>1, RegisterInvKept, RegisterStep, PTL DEF Spec, TokensAreARegister, Register!Spec
=============================================================================
