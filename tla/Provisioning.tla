---------------------------- MODULE Provisioning ----------------------------
(***************************************************************************)
(* Users of the hub, their policy versions and the aliases devices know    *)
(* them by, under concurrent requests (hub/timekpr_hub/services/policy.py, *)
(* services/enrollment.py, and their callers in api/sync.py,               *)
(* api/enroll.py, api/ui/policy.py and api/ui/users.py).                   *)
(*                                                                         *)
(* A request is one database transaction at PostgreSQL's READ COMMITTED:   *)
(* a statement sees what is committed when it starts, a statement that     *)
(* needs a row or an index entry another transaction has locked waits, and *)
(* what a transaction wrote is seen by others when it commits.             *)
(***************************************************************************)
EXTENDS Integers, Sequences, FiniteSets

CONSTANTS
    Names,      \* local user names, which are the canonical ones
    Devices,
    Requests,
    Job,        \* what each request is: [kind, device, names]
    Known,      \* sets of devices that may know a user from the start
    None,
    MaxIds      \* bound: user ids in use at a time, which are random UUIDs in the code

Row == [id: 1..MaxIds, current: Nat]
Policy == [id: 1..MaxIds, version: Nat \ {0}]

ASSUME ProvisioningAssumption ==
    /\ None \notin Names \cup Devices \cup Requests \cup Row
    /\ IsFiniteSet(Names)
    /\ \A t \in Requests :
         /\ Job[t].kind \in {"enroll", "sync", "edit", "delete"}
         /\ Job[t].device \in IF Job[t].kind \in {"enroll", "sync"} THEN Devices ELSE {None}
         /\ Job[t].names \in Seq(Names) /\ Len(Job[t].names) > 0
         /\ Job[t].kind \in {"edit", "delete"} => Len(Job[t].names) = 1
    /\ Known \subseteq SUBSET Devices
    /\ MaxIds \in Nat \ {0}

VARIABLES
    user,       \* users by canonical_username: [id, current] or None
    policies,   \* the (user id, version) of every policy row
    alias,      \* user_aliases: the user id a device's local name stands for, or 0
    pc, at,     \* the next statement of each request, and the name it is at
    seen,       \* the row a request has loaded, as it was then
    locks,      \* names whose rows a request holds FOR UPDATE
    shares,     \* names whose rows it holds FOR KEY SHARE
    rows, links,\* what it has written: user rows (with a new policy), aliases
    failures    \* history: errors 500 by cause

tables == <<user, policies, alias>>
vars == <<tables, pc, at, seen, locks, shares, rows, links, failures>>

NoRows == [n \in Names |-> None]

TypeOK ==
    /\ user \in [Names -> Row \cup {None}]
    /\ policies \subseteq Policy
    /\ alias \in [Devices \X Names -> 0..MaxIds]
    /\ pc \in [Requests -> {"idle", "retry", "alias", "insert", "select", "lock", "link", "commit", "done"}]
    /\ at \in [Requests -> Nat \ {0}] /\ \A t \in Requests : at[t] <= Len(Job[t].names)
    /\ seen \in [Requests -> Row \cup {None}]
    /\ locks \in [Requests -> SUBSET Names] /\ shares \in [Requests -> SUBSET Names]
    /\ rows \in [Requests -> [Names -> Row \cup {None}]]
    /\ links \in [Requests -> SUBSET Names]
    /\ failures \subseteq {"clash", "gone", "deadlock"}

\* Nobody, or one user.  Users without a policy exist: get_or_create_policy is there
\* for them.
Init ==
    /\ \/ user = NoRows /\ alias = [dn \in Devices \X Names |-> 0]
       \/ \E m \in Names, D \in Known :
            /\ user = [NoRows EXCEPT ![m] = [id |-> 1, current |-> 0]]
            /\ alias = [dn \in Devices \X Names |-> IF dn \in D \X {m} THEN 1 ELSE 0]
    /\ policies = {}
    /\ pc = [t \in Requests |-> "idle"] /\ at = [t \in Requests |-> 1]
    /\ seen = [t \in Requests |-> None]
    /\ locks = [t \in Requests |-> {}] /\ shares = [t \in Requests |-> {}]
    /\ rows = [t \in Requests |-> NoRows] /\ links = [t \in Requests |-> {}]
    /\ failures = {}

-----------------------------------------------------------------------------
Kind(t) == Job[t].kind
Name(t) == Job[t].names[at[t]]
Others(t) == Requests \ {t}

\* A request handles its users one after the other and commits once.
FirstStep(t) ==
    CASE Kind(t) = "enroll" -> "insert"
      [] Kind(t) = "sync" -> "alias"
      [] OTHER -> "select"

GoOn(t) ==
    IF at[t] < Len(Job[t].names)
    THEN at' = [at EXCEPT ![t] = @ + 1] /\ pc' = [pc EXCEPT ![t] = FirstStep(t)]
    ELSE UNCHANGED at /\ pc' = [pc EXCEPT ![t] = "commit"]

\* Rolled back, and tried again from the start.
Clear(t) ==
    /\ at' = [at EXCEPT ![t] = 1]
    /\ seen' = [seen EXCEPT ![t] = None]
    /\ locks' = [locks EXCEPT ![t] = {}] /\ shares' = [shares EXCEPT ![t] = {}]
    /\ rows' = [rows EXCEPT ![t] = NoRows] /\ links' = [links EXCEPT ![t] = {}]

Abort(t, cause) ==
    /\ Clear(t)
    /\ pc' = [pc EXCEPT ![t] = "retry"]
    /\ failures' = failures \cup {cause}
    /\ UNCHANGED tables

\* Whom a request has to wait for at its next statement.
Inserting(u, n) == rows[u][n] # None /\ n \notin locks[u]

\* Mutant: no lock is taken, the row is only read.
BlockersUnlocked(t) ==
    {u \in Others(t) : pc[t] = "insert" /\ Inserting(u, Name(t))}

Blockers(t) ==
    CASE pc[t] = "insert" ->
           {u \in Others(t) : Inserting(u, Name(t)) \/ (Kind(u) = "delete" /\ Name(t) \in locks[u])}
      [] pc[t] = "lock" -> {u \in Others(t) : Name(t) \in locks[u] \cup shares[u]}
      [] pc[t] = "link" -> {u \in Others(t) : Name(t) \in locks[u]}
      [] OTHER -> {}

\* A retry comes with the agent's next poll: by then those who were waiting for the
\* locks just given up have got them.
Begin(t) ==
    /\ \/ pc[t] = "idle"
       \/ /\ pc[t] = "retry"
          /\ \A u \in Others(t) : pc[u] \in {"insert", "lock", "link"} => Blockers(u) # {}
    /\ pc' = [pc EXCEPT ![t] = FirstStep(t)]
    /\ UNCHANGED <<tables, at, seen, locks, shares, rows, links, failures>>

\* The alias of the name a request is at.
AliasId(t) == alias[Job[t].device, Name(t)]

\* sync: has this device reported the name before?  Then the user is looked up by id.
LookUpAlias(t) ==
    /\ pc[t] = "alias"
    /\ IF AliasId(t) = 0
       THEN pc' = [pc EXCEPT ![t] = "insert"] /\ seen' = [seen EXCEPT ![t] = None]
       ELSE /\ pc' = [pc EXCEPT ![t] = "select"]
            /\ seen' = [seen EXCEPT ![t] = [id |-> AliasId(t), current |-> 0]]
    /\ UNCHANGED <<tables, at, locks, shares, rows, links, failures>>

\* Mutant: the existing row is looked for by the new row's id.
OnDuplicateById(t) == Abort(t, "gone")

\* The savepoint is rolled back; the row is somebody else's.
OnDuplicate(t) ==
    /\ pc' = [pc EXCEPT ![t] = "select"]
    /\ seen' = [seen EXCEPT ![t] = None]
    /\ UNCHANGED <<tables, at, locks, shares, rows, links, failures>>

IdsInUse ==
    {r.id : r \in ({user[n] : n \in Names} \cup {seen[t] : t \in Requests}
                   \cup {rows[t][n] : t \in Requests, n \in Names}) \ {None}}
FreshIds == (1..MaxIds) \ IdsInUse

\* Insert a user with its first policy, or find there is one.
InsertUser(t) ==
    /\ pc[t] = "insert" /\ Blockers(t) = {}
    /\ IF user[Name(t)] # None
       THEN OnDuplicate(t)
       ELSE /\ \E i \in FreshIds :
                 /\ \A j \in FreshIds : i <= j
                 /\ rows' = [rows EXCEPT ![t][Name(t)] = [id |-> i, current |-> 1]]
            /\ pc' = [pc EXCEPT ![t] = "link"]
            /\ UNCHANGED <<tables, at, seen, locks, shares, links, failures>>

\* Mutant: the alias goes first, as the code once had it.
AfterSelectLinkFirst(t) == IF Kind(t) \in {"enroll", "sync"} THEN "link" ELSE "lock"

AfterSelect(t) == "lock"

SelectUser(t) ==
    /\ pc[t] = "select"
    /\ IF user[Name(t)] = None \/ (seen[t] # None /\ seen[t].id # user[Name(t)].id)
       THEN IF Kind(t) \in {"enroll", "sync"}
            THEN Abort(t, "gone")
            ELSE \* get_user_or_404
                 /\ pc' = [pc EXCEPT ![t] = "done"]
                 /\ UNCHANGED <<tables, at, seen, locks, shares, rows, links, failures>>
       ELSE /\ seen' = [seen EXCEPT ![t] = user[Name(t)]]
            /\ pc' = [pc EXCEPT ![t] = AfterSelect(t)]
            /\ UNCHANGED <<tables, at, locks, shares, rows, links, failures>>

\* Mutant: without populate_existing the identity map's copy is used.
ReadStale(t) == seen[t]

\* The row as it is once the lock is granted.
ReadAgain(t) == user[Name(t)]

\* Mutant: an edit takes a missing policy for version 1.
NewRowFromOne(t, row) ==
    IF Kind(t) = "edit" /\ row.current = 0 THEN [row EXCEPT !.current = 2]
    ELSE IF Kind(t) = "edit" \/ (row.current = 0 /\ Kind(t) # "delete")
    THEN [row EXCEPT !.current = @ + 1]
    ELSE None

\* Mutant: the first policy is version 0.
NewRowFromZero(t, row) ==
    IF Kind(t) = "edit" THEN [row EXCEPT !.current = @ + 1]
    ELSE IF row.current = 0 /\ Kind(t) # "delete" THEN row
    ELSE None

\* update_policy makes the next version, get_or_create_policy the first if there is none.
NewRow(t, row) ==
    IF Kind(t) = "edit" \/ (row.current = 0 /\ Kind(t) # "delete")
    THEN [row EXCEPT !.current = @ + 1]
    ELSE None

LockUser(t) ==
    /\ pc[t] = "lock" /\ Blockers(t) = {}
    /\ IF user[Name(t)] = None \/ user[Name(t)].id # seen[t].id
       THEN IF Kind(t) = "delete"
            THEN \* no row is deleted
                 /\ pc' = [pc EXCEPT ![t] = "commit"]
                 /\ UNCHANGED <<tables, at, seen, locks, shares, rows, links, failures>>
            ELSE Abort(t, "gone")
       ELSE /\ locks' = [locks EXCEPT ![t] = @ \cup {Name(t)}]
            /\ rows' = [rows EXCEPT ![t][Name(t)] = NewRow(t, ReadAgain(t))]
            /\ IF Kind(t) \in {"enroll", "sync"} /\ AliasId(t) = 0 /\ Name(t) \notin links[t]
               THEN UNCHANGED at /\ pc' = [pc EXCEPT ![t] = "link"]
               ELSE GoOn(t)
            /\ UNCHANGED <<tables, seen, shares, links, failures>>

\* Insert the alias (there is none: nobody adds one while the row is locked); its foreign
\* key holds the user's row.
LinkAlias(t) ==
    /\ pc[t] = "link" /\ Blockers(t) = {}
    /\ links' = [links EXCEPT ![t] = @ \cup {Name(t)}]
    /\ shares' = [shares EXCEPT ![t] = @ \cup {Name(t)}]
    /\ IF rows[t][Name(t)] = None /\ Name(t) \notin locks[t]
       THEN UNCHANGED at /\ pc' = [pc EXCEPT ![t] = "lock"]
       ELSE GoOn(t)
    /\ UNCHANGED <<tables, seen, locks, rows, failures>>

Written(t) == {n \in Names : rows[t][n] # None}
NewPolicies(t) == {[id |-> rows[t][n].id, version |-> rows[t][n].current] : n \in Written(t)}

\* uq_policies_user_version: this version of this user is there already.
Clash(t) == NewPolicies(t) \cap policies # {}

NewAlias(t, dn) == dn[1] = Job[t].device /\ dn[2] \in links[t] /\ alias[dn] = 0
LinkedId(t, n) == (IF n \in Written(t) THEN rows[t] ELSE user)[n].id

\* Mutant: the aliases of a deleted user stay.
AliasesAfterKept(t) ==
    [dn \in Devices \X Names |-> IF NewAlias(t, dn) THEN LinkedId(t, dn[2]) ELSE alias[dn]]

\* ON DELETE CASCADE.
AliasesAfter(t) ==
    [dn \in Devices \X Names |->
        CASE Kind(t) = "delete" /\ dn[2] \in locks[t] -> 0
          [] NewAlias(t, dn) -> LinkedId(t, dn[2])
          [] OTHER -> alias[dn]]

Commit(t) ==
    /\ pc[t] = "commit"
    /\ IF Clash(t)
       THEN Abort(t, "clash")
       ELSE LET deleted == IF Kind(t) = "delete" THEN locks[t] ELSE {}
            IN  /\ user' = [n \in Names |-> IF n \in deleted THEN None
                                            ELSE IF n \in Written(t) THEN rows[t][n] ELSE user[n]]
                /\ policies' = {p \in policies : \A n \in deleted : p.id # user[n].id}
                               \cup NewPolicies(t)
                /\ alias' = AliasesAfter(t)
                /\ pc' = [pc EXCEPT ![t] = "done"]
                /\ Clear(t)
                /\ UNCHANGED failures

\* Requests that wait for one another.
Deadlocked(S) == S # {} /\ \A t \in S : Blockers(t) \cap S # {}

\* PostgreSQL ends one of them.
ResolveDeadlock(t) ==
    /\ \E S \in SUBSET Requests : t \in S /\ Deadlocked(S)
    /\ Abort(t, "deadlock")

\* The statements that may have to wait.
Granted(t) == InsertUser(t) \/ LockUser(t) \/ LinkAlias(t)

Step(t) ==
    \/ Begin(t)
    \/ LookUpAlias(t)
    \/ SelectUser(t)
    \/ Granted(t)
    \/ Commit(t)
    \/ ResolveDeadlock(t)

Finished == (\A t \in Requests : pc[t] = "done") /\ UNCHANGED vars

Next == (\E t \in Requests : Step(t)) \/ Finished

Spec == Init /\ [][Next]_vars

\* The hub goes on with every request it has, and whoever got an error tries again.
FairSpec == Spec /\ \A t \in Requests : WF_vars(Step(t))

-----------------------------------------------------------------------------
\* A user's current policy is the latest of an unbroken series of versions
\* (update_policy: "always inserts version + 1 and repoints current_policy_id").
CurrentIsLatest ==
    \A n \in Names : user[n] # None =>
        {p.version : p \in {q \in policies : q.id = user[n].id}} = 1..user[n].current

\* No edit and no first request of a user fails because another was faster
\* (get_or_create_policy: FOR UPDATE "serializes the read-then-create").
NobodyClashes == "clash" \notin failures

\* What a device's local name stands for is the user of that name, and nobody who has
\* been deleted (delete_user_ui: "the next /sync for it re-provisions a fresh user").
AliasesAreLive ==
    \A d \in Devices, n \in Names :
        alias[d, n] # 0 => user[n] # None /\ user[n].id = alias[d, n]

\* The names of these requests appear in one common order.
InOneOrder(S) ==
    \E rank \in [Names -> 1..Cardinality(Names)] :
        \A t \in S : \A i, j \in DOMAIN Job[t].names :
            i < j => rank[Job[t].names[i]] < rank[Job[t].names[j]]

\* Requests wait for one another only if they list users in different orders
\* (provision_user_alias: "the other blocks cleanly instead of deadlocking").
DeadlocksAreCrossings ==
    \A S \in SUBSET Requests : Deadlocked(S) => ~InOneOrder(S)

\* Every request gets its answer in the end.
EveryoneFinishes == <>(\A t \in Requests : pc[t] = "done")

=============================================================================
