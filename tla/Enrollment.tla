----------------------------- MODULE Enrollment -----------------------------
(***************************************************************************)
(* How a machine comes to be a device of the hub, and stops being one:     *)
(* one-time codes and device rows (hub/timekpr_hub/api/enroll.py,          *)
(* services/enrollment.py, services/devices.py), the bearer token          *)
(* (api/auth.py), and the token file the enroll command writes and the     *)
(* running agent has read once (agent/timekpr_hub_agent/cli.py and         *)
(* hubclient.py).                                                          *)
(*                                                                         *)
(* An enrollment is one database transaction of several statements, at     *)
(* PostgreSQL's READ COMMITTED: each statement sees what was committed     *)
(* before it, and waits for a row another transaction has written.  What   *)
(* a transaction has written itself is in tx until it commits.             *)
(***************************************************************************)
EXTENDS Integers, FiniteSets

CONSTANTS
    Machines,       \* machine ids
    Terminals,      \* each runs one `timekpr-hub-agent enroll` after the other
    Codes,
    Rows,           \* primary keys of device rows
    None,           \* no row, no code, no token
    MaxTokens,      \* bound: enrollments that get as far as a token
    MaxRemovals,    \* bound: devices revoked or deleted
    MaxFaults       \* bound: answers to an enrollment that are lost

Token == 1..MaxTokens
Device == [machine: Machines, token: Token, status: {"active", "revoked"}]

\* An enrollment under way, as TokenRegister knows it.
Underway == [machine: Machines, code: Codes, token: Token, overtaken: BOOLEAN]

ASSUME EnrollmentAssumption ==
    /\ None \notin Machines \cup Codes \cup Rows \cup Device \cup Underway
    /\ {MaxTokens, MaxRemovals, MaxFaults} \subseteq Nat

VARIABLES
    code,       \* enrollment_codes
    row,        \* devices: [machine, token, status], or None
    issued,     \* tokens drawn so far; they are random, so a number names one
    pc, tx,     \* the enrollment of each terminal and its transaction
    file,       \* the token file of each machine
    held,       \* HubClient._token of each machine's running agent
    agent,      \* where that agent's sync is
    verdict,    \* what it made of the answer: "managed", "revoked" or ""
    removals, faults,
    redeemed    \* history: how many enrollments each code has paid for

hubVars == <<code, row>>
machineVars == <<file, held, agent, verdict>>
vars == <<hubVars, issued, pc, tx, machineVars, removals, faults, redeemed>>

NoTx == [machine |-> None, code |-> None, found |-> None, fresh |-> None, token |-> 0]

TypeOK ==
    /\ code \in [Codes -> {"unknown", "unused", "used", "expired"}]
    /\ row \in [Rows -> {None} \cup Device]
    /\ issued \in 0..MaxTokens
    /\ pc \in [Terminals -> {"idle", "claimed", "looked", "flushed", "answered", "saved"}]
    /\ tx \in [Terminals -> [machine: Machines \cup {None}, code: Codes \cup {None},
                             found: Rows \cup {None}, fresh: Rows \cup {None},
                             token: Token \cup {0}]]
    /\ file \in [Machines -> Token \cup {0}] /\ held \in [Machines -> Token \cup {0}]
    /\ agent \in [Machines -> {"idle", "rejected"}]
    /\ verdict \in [Machines -> {"", "managed", "revoked"}]
    /\ removals \in 0..MaxRemovals /\ faults \in 0..MaxFaults
    /\ redeemed \in [Codes -> Nat]

Init ==
    /\ code = [c \in Codes |-> "unknown"] /\ row = [r \in Rows |-> None]
    /\ issued = 0
    /\ pc = [e \in Terminals |-> "idle"] /\ tx = [e \in Terminals |-> NoTx]
    /\ file = [m \in Machines |-> 0] /\ held = [m \in Machines |-> 0]
    /\ agent = [m \in Machines |-> "idle"] /\ verdict = [m \in Machines |-> ""]
    /\ removals = 0 /\ faults = 0 /\ redeemed = [c \in Codes |-> 0]

-----------------------------------------------------------------------------
(***************************************************************************)
(* POST /enroll.                                                           *)
(***************************************************************************)
Open(e) == pc[e] \in {"claimed", "looked", "flushed"}
Written(e) == pc[e] = "flushed"

Live(r) == row[r] # None /\ row[r].status # "revoked"
LiveRows(m) == {r \in Rows : Live(r) /\ row[r].machine = m}

\* Rows another transaction has written, and the machine of one it inserted.
CodeLocked(c) == \E e \in Terminals : Open(e) /\ tx[e].code = c
RowLocked(r) == \E e \in Terminals : Written(e) /\ tx[e].found = r
InsertPending(m) ==
    \E e \in Terminals : Written(e) /\ tx[e].found = None /\ tx[e].machine = m

\* Mutant: the code is read first and marked as used later.
ClaimableUnlocked(c) == code[c] = "unused"

\* UPDATE enrollment_codes ... WHERE used_at IS NULL AND expires_at >= now: a second
\* claim waits for the first to commit.
Claimable(c) == code[c] = "unused" /\ ~CodeLocked(c)

Claim(e, m, c) ==
    /\ pc[e] = "idle" /\ Claimable(c)
    /\ issued < MaxTokens
    /\ issued' = issued + 1
    /\ pc' = [pc EXCEPT ![e] = "claimed"]
    /\ tx' = [tx EXCEPT ![e] = [NoTx EXCEPT !.machine = m, !.code = c, !.token = issued + 1]]
    /\ UNCHANGED <<hubVars, machineVars, removals, faults, redeemed>>

\* The machine's live device, if there is one.
LookUp(e) ==
    /\ pc[e] = "claimed"
    /\ \E found \in IF LiveRows(tx[e].machine) = {} THEN {None} ELSE LiveRows(tx[e].machine) :
         tx' = [tx EXCEPT ![e].found = found]
    /\ pc' = [pc EXCEPT ![e] = "looked"]
    /\ UNCHANGED <<hubVars, issued, machineVars, removals, faults, redeemed>>

\* Mutant: no unique index.
InsertableAnyway(m) == TRUE

\* uq_devices_machine_id_live: an insert waits for a pending one and then fails if
\* there is a live row.
Insertable(m) == ~InsertPending(m) /\ LiveRows(m) = {}

\* session.flush: write the token into the row found, or insert a row.
Flush(e) ==
    /\ pc[e] = "looked"
    /\ IF tx[e].found # None
       THEN /\ row[tx[e].found] # None /\ ~RowLocked(tx[e].found)
            /\ UNCHANGED tx
       ELSE /\ Insertable(tx[e].machine)
            /\ \E r \in Rows :
                 /\ row[r] = None
                 /\ \A other \in Terminals : r \notin {tx[other].fresh, tx[other].found}
                 /\ tx' = [tx EXCEPT ![e].fresh = r]
    /\ pc' = [pc EXCEPT ![e] = "flushed"]
    /\ UNCHANGED <<hubVars, issued, machineVars, removals, faults, redeemed>>

\* The row found was deleted, or a live one was inserted: an error 500, and the
\* rollback gives the code back.
Abort(e) ==
    /\ pc[e] = "looked"
    /\ IF tx[e].found # None
       THEN row[tx[e].found] = None
       ELSE LiveRows(tx[e].machine) # {}
    /\ pc' = [pc EXCEPT ![e] = "idle"] /\ tx' = [tx EXCEPT ![e] = NoTx]
    /\ UNCHANGED <<hubVars, issued, machineVars, removals, faults, redeemed>>

\* Mutant: the rebind writes the status, too.
ReboundActive(r, token) == [row[r] EXCEPT !.token = token, !.status = "active"]

\* device.status = "active" on a row that was read as active is no change, and the
\* ORM writes changed columns only.
Rebound(r, token) == [row[r] EXCEPT !.token = token]

\* Mutant: a new device waits for an approval.
NewDevicePending(m, token) == [machine |-> m, token |-> token, status |-> "pending"]

\* An admin's code is the approval.
NewDevice(m, token) == [machine |-> m, token |-> token, status |-> "active"]

\* session.commit; the answer may be lost on the way.
Commit(e, delivered) ==
    /\ pc[e] = "flushed"
    /\ delivered \/ faults < MaxFaults
    /\ faults' = IF delivered THEN faults ELSE faults + 1
    /\ code' = [code EXCEPT ![tx[e].code] = "used"]
    /\ redeemed' = [redeemed EXCEPT ![tx[e].code] = @ + 1]
    /\ row' = IF tx[e].found # None
              THEN [row EXCEPT ![tx[e].found] = Rebound(tx[e].found, tx[e].token)]
              ELSE [row EXCEPT ![tx[e].fresh] = NewDevice(tx[e].machine, tx[e].token)]
    /\ pc' = [pc EXCEPT ![e] = IF delivered THEN "answered" ELSE "idle"]
    /\ tx' = IF delivered THEN tx ELSE [tx EXCEPT ![e] = NoTx]
    /\ UNCHANGED <<issued, machineVars, removals>>

\* HubClient.enroll: the token file is written.
SaveToken(e) ==
    /\ pc[e] = "answered"
    /\ file' = [file EXCEPT ![tx[e].machine] = tx[e].token]
    /\ pc' = [pc EXCEPT ![e] = "saved"]
    /\ UNCHANGED <<hubVars, issued, tx, held, agent, verdict, removals, faults, redeemed>>

\* The agent is restarted, or (--no-start, a failing systemctl) is not.
Finish(e, restarted) ==
    /\ pc[e] = "saved"
    /\ LET m == tx[e].machine
       IN  IF restarted
           THEN /\ held' = [held EXCEPT ![m] = file[m]]
                /\ agent' = [agent EXCEPT ![m] = "idle"]
           ELSE UNCHANGED <<held, agent>>
    /\ pc' = [pc EXCEPT ![e] = "idle"] /\ tx' = [tx EXCEPT ![e] = NoTx]
    /\ UNCHANGED <<hubVars, issued, file, verdict, removals, faults, redeemed>>

-----------------------------------------------------------------------------
(***************************************************************************)
(* The running agent.                                                      *)
(***************************************************************************)
\* get_current_device: 401 without a row, 403 for a revoked one.
Accepted(token) == \E r \in Rows : Live(r) /\ row[r].token = token

\* POST /sync with the token in memory.
Sync(m) ==
    /\ agent[m] = "idle" /\ held[m] # 0
    /\ IF Accepted(held[m])
       THEN verdict' = [verdict EXCEPT ![m] = "managed"] /\ UNCHANGED agent
       ELSE agent' = [agent EXCEPT ![m] = "rejected"] /\ UNCHANGED verdict
    /\ UNCHANGED <<hubVars, issued, pc, tx, file, held, removals, faults, redeemed>>

\* Mutant: the token is read once and for all.
ReloadedNever(m) == held[m]

\* _load_token: what is on disk now, if anything.
Reloaded(m) == IF file[m] # 0 THEN file[m] ELSE held[m]

\* Read the file again; if it has changed try once more.
Retry(m) ==
    /\ agent[m] = "rejected"
    /\ held' = [held EXCEPT ![m] = Reloaded(m)]
    /\ verdict' = [verdict EXCEPT ![m] =
                     IF Reloaded(m) # held[m] /\ Accepted(Reloaded(m))
                     THEN "managed" ELSE "revoked"]
    /\ agent' = [agent EXCEPT ![m] = "idle"]
    /\ UNCHANGED <<hubVars, issued, pc, tx, file, removals, faults, redeemed>>

\* Somebody starts the service.
StartAgent(m) ==
    /\ file[m] # 0
    /\ held' = [held EXCEPT ![m] = file[m]]
    /\ agent' = [agent EXCEPT ![m] = "idle"]
    /\ UNCHANGED <<hubVars, issued, pc, tx, file, verdict, removals, faults, redeemed>>

-----------------------------------------------------------------------------
(***************************************************************************)
(* The admin.                                                              *)
(***************************************************************************)
\* create_enrollment_code.
Mint(c) ==
    /\ code[c] = "unknown"
    /\ code' = [code EXCEPT ![c] = "unused"]
    /\ UNCHANGED <<row, issued, pc, tx, machineVars, removals, faults, redeemed>>

\* Fifteen minutes pass.
Expire(c) ==
    /\ code[c] = "unused" /\ ~CodeLocked(c)
    /\ code' = [code EXCEPT ![c] = "expired"]
    /\ UNCHANGED <<row, issued, pc, tx, machineVars, removals, faults, redeemed>>

Remove(r) ==
    /\ row[r] # None /\ ~RowLocked(r)
    /\ removals < MaxRemovals
    /\ removals' = removals + 1
    /\ UNCHANGED <<code, issued, pc, tx, machineVars, faults, redeemed>>

\* revoke_device.
Revoke(r) == Remove(r) /\ row' = [row EXCEPT ![r].status = "revoked"]

\* delete_device.
Delete(r) == Remove(r) /\ row' = [row EXCEPT ![r] = None]

EnrollStep(e) ==
    \/ \E m \in Machines, c \in Codes : Claim(e, m, c)
    \/ LookUp(e)
    \/ Flush(e)
    \/ Abort(e)
    \/ \E delivered \in BOOLEAN : Commit(e, delivered)
    \/ SaveToken(e)
    \/ \E restarted \in BOOLEAN : Finish(e, restarted)

Next ==
    \/ \E e \in Terminals : EnrollStep(e)
    \/ \E m \in Machines : Sync(m) \/ Retry(m) \/ StartAgent(m)
    \/ \E c \in Codes : Mint(c) \/ Expire(c)
    \/ \E r \in Rows : Revoke(r) \/ Delete(r)

Spec == Init /\ [][Next]_vars

\* A running agent keeps syncing.
FairSpec == Spec /\ \A m \in Machines : WF_vars(Sync(m)) /\ WF_vars(Retry(m))

-----------------------------------------------------------------------------
\* However many enrollments try a code at once, one succeeds (enroll: "two concurrent
\* enrolls with the same code could otherwise both pass").
CodeEnrollsOnce == \A c \in Codes : redeemed[c] <= 1

\* A machine has one live device, although the row is looked up before it is inserted
\* (enroll: "this SELECT and that index agree").
OneLiveDevice == \A m \in Machines : Cardinality(LiveRows(m)) <= 1

\* A revoked device stays revoked, also when an enrollment that had already read it as
\* live goes on to rebind it (revoke_device: get_current_device "403s this device's
\* very next sync").
RevokeSticks ==
    [][\A r \in Rows : row[r] # None /\ row[r].status = "revoked" /\ row'[r] # None
         => row'[r].status = "revoked"]_vars

\* A running agent whose machine was enrolled again finds the new token by itself, and
\* one whose device was not removed is managed (hubclient.py, sync: "this process can
\* outlive a re-enroll on the same machine").
FindsItsToken ==
    \A m \in Machines :
        <>[](held[m] # 0 /\ Accepted(file[m]) => verdict[m] = "managed")

-----------------------------------------------------------------------------
(***************************************************************************)
(* The refinement mapping to TokenRegister.                                *)
(***************************************************************************)
\* The row an enrollment has found was revoked or deleted since.
Overtaken(e) == pc[e] \in {"looked", "flushed"} /\ tx[e].found # None /\ ~Live(tx[e].found)

Register == INSTANCE TokenRegister WITH
    Enrollers <- Terminals,
    Tokens <- Token,
    good <- [m \in Machines |-> {row[r].token : r \in LiveRows(m)}],
    drawn <- 1..issued,
    pending <- [e \in Terminals |->
                  IF Open(e)
                  THEN [machine |-> tx[e].machine, code |-> tx[e].code, token |-> tx[e].token,
                        overtaken |-> Overtaken(e)]
                  ELSE None]

\* The statements of enroll and of the administrator, whichever way they come between
\* one another, are the steps of one register of tokens: an enrollment replaces what was
\* good for its machine when it commits, a removal ends it, and neither an older token
\* nor that of an enrollment whose device was removed under it is ever good again
\* (enroll: "Rebind onto an existing device"; revoke_device, delete_device).
TokensAreARegister == Register!Spec

=============================================================================
