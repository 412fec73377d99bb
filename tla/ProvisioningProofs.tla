------------------------- MODULE ProvisioningProofs -------------------------
(***************************************************************************)
(* For any users, devices and requests: versions of a policy have no gaps, *)
(* nobody fails because another was faster, aliases stand for users that   *)
(* exist, and requests that list users in one order never wait in a        *)
(* circle.                                                                 *)
(***************************************************************************)
EXTENDS Provisioning, FiniteSetTheorems, WellFoundedInduction, TLAPS

Steps == {"idle", "retry", "alias", "insert", "select", "lock", "link", "commit", "done"}

Indices(t) == 1..Len(Job[t].names)

\* A user whose row a request holds FOR UPDATE stays, and nobody else has a lock on it.
HoldsUser(t, n) ==
    n \in locks[t] =>
        /\ user[n] # None
        /\ \A u \in Others(t) : n \notin locks[u] \cup shares[u]

\* A new row of a user that is there is the next version, written under the lock.
WritesNext(t, n) ==
    rows[t][n] # None /\ n \in locks[t] =>
        rows[t][n].id = user[n].id /\ rows[t][n].current = user[n].current + 1

\* A row that is being inserted is the first of its name and of its id.
WritesFirst(t, n) ==
    Inserting(t, n) =>
        /\ user[n] = None /\ rows[t][n].current = 1
        /\ \A m \in Names : user[m] # None => user[m].id # rows[t][n].id
        /\ \A u \in Requests, m \in Names :
              rows[u][m] # None /\ rows[u][m].id = rows[t][n].id => u = t /\ m = n
        /\ \A u \in Requests : Inserting(u, n) => u = t

\* Only who provisions users inserts aliases, and by then the user's row is safe.
LinksHeld(t) ==
    /\ pc[t] \in {"alias", "insert", "link"} => Kind(t) \in {"enroll", "sync"}
    /\ Kind(t) = "delete" => links[t] = {} /\ rows[t] = NoRows
    /\ pc[t] = "link" => Name(t) \in locks[t] \/ rows[t][Name(t)] # None
    /\ \A n \in links[t] : n \in locks[t] \/ rows[t][n] # None

\* What a request holds are users it has come to before: not the one it waits for.
HoldsEarlier(t) ==
    \A n \in Names : n \in locks[t] \cup shares[t] \/ rows[t][n] # None =>
        \E i \in Indices(t) :
            /\ Job[t].names[i] = n /\ i <= at[t]
            /\ pc[t] \notin {"link", "commit", "done"} => i < at[t]

IdsDiffer ==
    \A m, n \in Names : user[m] # None /\ user[n] # None /\ user[m].id = user[n].id => m = n

PoliciesBelong == \A p \in policies : \E n \in Names : user[n] # None /\ user[n].id = p.id

ProvisioningInv ==
    /\ TypeOK
    /\ \A t \in Requests, n \in Names : HoldsUser(t, n) /\ WritesNext(t, n) /\ WritesFirst(t, n)
    /\ \A t \in Requests : LinksHeld(t) /\ HoldsEarlier(t)
    /\ IdsDiffer /\ PoliciesBelong
    /\ CurrentIsLatest /\ AliasesAreLive /\ NobodyClashes

-----------------------------------------------------------------------------
\* The induction the library states for the natural numbers, as the greatest of a set
\* that has a bound.
LEMMA Greatest ==
    ASSUME NEW C \in Nat, NEW T, T \subseteq 1..C, T # {}
    PROVE  \E x \in T : \A y \in T : y <= x
<1> DEFINE Left == {C - x : x \in T}
           R == {ss \in Nat \X Nat : ss[1] < ss[2]}
<1>1. Left \subseteq Nat
  <2> SUFFICES ASSUME NEW x \in T PROVE C - x \in Nat
      OBVIOUS
  <2>1. x \in 1..C
        OBVIOUS
  <2> QED BY <2>1
<1>2. Left # {}
      OBVIOUS
<1>3. IsWellFoundedOn(R, Nat)
      BY NatLessThanWellFounded, Zenon DEF OpToRel
<1> HIDE DEF R
<1>4. \E x \in Left : \A y \in Left : ~(<<y, x>> \in R)
      BY <1>1, <1>2, <1>3, WFMin
<1>5. PICK x \in T : \A y \in T : ~(<<C - y, C - x>> \in R)
      BY <1>4
<1>6. \A y \in T : y <= x
  <2> TAKE y \in T
  <2>1. x \in 1..C /\ y \in 1..C
        OBVIOUS
  <2>2. C - y \in Nat /\ C - x \in Nat
        BY <2>1
  <2>3. ~(C - y < C - x)
        BY <1>5, <2>2 DEF R
  <2> QED BY <2>1, <2>3
<1> QED BY <1>6

\* The assumptions, taken apart.
LEMMA Bounds == MaxIds \in Nat \ {0} /\ 0 \in 0..MaxIds /\ 1 \in 0..MaxIds /\ 1 \in 1..MaxIds /\ None \notin Row
BY ProvisioningAssumption

LEMMA Jobs ==
    ASSUME NEW t \in Requests
    PROVE  /\ Kind(t) \in {"enroll", "sync", "edit", "delete"} /\ Job[t].names \in Seq(Names)
           /\ Len(Job[t].names) \in Nat \ {0} /\ 1 \in Indices(t)
           /\ \A i \in Indices(t) : Job[t].names[i] \in Names
           /\ Kind(t) \in {"enroll", "sync"} => Job[t].device \in Devices
<1>1. /\ Kind(t) \in {"enroll", "sync", "edit", "delete"} /\ Job[t].names \in Seq(Names)
      /\ Len(Job[t].names) > 0
      BY ProvisioningAssumption DEF Kind
<1>2. Len(Job[t].names) \in Nat
      BY <1>1
<1>3. Kind(t) \in {"enroll", "sync"} => Job[t].device \in Devices
      BY ProvisioningAssumption DEF Kind
<1> QED BY <1>1, <1>2, <1>3 DEF Indices

LEMMA Typed ==
    ASSUME ProvisioningInv
    PROVE  /\ user \in [Names -> Row \cup {None}] /\ policies \subseteq Policy
           /\ alias \in [Devices \X Names -> 0..MaxIds] /\ pc \in [Requests -> Steps]
           /\ seen \in [Requests -> Row \cup {None}]
           /\ locks \in [Requests -> SUBSET Names] /\ shares \in [Requests -> SUBSET Names]
           /\ rows \in [Requests -> [Names -> Row \cup {None}]]
           /\ links \in [Requests -> SUBSET Names]
           /\ failures \subseteq {"clash", "gone", "deadlock"}
           /\ at \in [Requests -> Nat \ {0}]
           /\ \A t \in Requests : at[t] \in Indices(t) /\ Name(t) \in Names
<1>1. \A t \in Requests : at[t] \in Indices(t)
      BY Jobs DEF ProvisioningInv, TypeOK, Indices
<1>2. \A t \in Requests : Name(t) \in Names
      BY <1>1, Jobs DEF Name
<1> QED BY <1>1, <1>2 DEF ProvisioningInv, TypeOK, Steps

LEMMA ProvisioningInit == Init => ProvisioningInv
<1> SUFFICES ASSUME Init PROVE ProvisioningInv
    OBVIOUS
<1>1. /\ locks = [t \in Requests |-> {}] /\ shares = [t \in Requests |-> {}]
      /\ rows = [t \in Requests |-> NoRows] /\ links = [t \in Requests |-> {}]
      /\ pc = [t \in Requests |-> "idle"] /\ at = [t \in Requests |-> 1]
      /\ seen = [t \in Requests |-> None] /\ policies = {} /\ failures = {}
      BY DEF Init
<1>2. NoRows \in [Names -> Row \cup {None}] /\ \A n \in Names : NoRows[n] = None
      BY DEF NoRows
<1>3. /\ user \in [Names -> Row \cup {None}] /\ alias \in [Devices \X Names -> 0..MaxIds]
      /\ AliasesAreLive /\ IdsDiffer /\ CurrentIsLatest
  <2>1. CASE user = NoRows /\ alias = [dn \in Devices \X Names |-> 0]
        BY <1>2, <2>1, Bounds DEF AliasesAreLive, IdsDiffer, CurrentIsLatest
  <2>2. ASSUME NEW m \in Names, NEW D \in Known,
               user = [NoRows EXCEPT ![m] = [id |-> 1, current |-> 0]],
               alias = [dn \in Devices \X Names |-> IF dn \in D \X {m} THEN 1 ELSE 0]
        PROVE  /\ user \in [Names -> Row \cup {None}] /\ alias \in [Devices \X Names -> 0..MaxIds]
               /\ AliasesAreLive /\ IdsDiffer /\ CurrentIsLatest
    <3> DEFINE first == [id |-> 1, current |-> 0]
    <3>1. first \in Row /\ first # None /\ first.id = 1 /\ first.current = 0
          BY Bounds DEF Row
    <3> HIDE DEF first
    <3>2. user \in [Names -> Row \cup {None}] /\ user[m] = first
          /\ \A n \in Names \ {m} : user[n] = None
          BY <1>2, <2>2, <3>1 DEF first
    <3>3. alias \in [Devices \X Names -> 0..MaxIds]
          BY <2>2, Bounds
    <3>4. AliasesAreLive
          BY <2>2, <3>1, <3>2 DEF AliasesAreLive
    <3>5. CurrentIsLatest
          BY <1>1, <3>1, <3>2 DEF CurrentIsLatest
    <3> QED BY <3>2, <3>3, <3>4, <3>5 DEF IdsDiffer
  <2> QED BY <2>1, <2>2 DEF Init
<1>4. TypeOK
  <2>1. \A t \in Requests : 1 <= Len(Job[t].names)
        BY Jobs
  <2> QED BY <1>1, <1>2, <1>3, <2>1 DEF TypeOK
<1>5. \A t \in Requests, n \in Names : HoldsUser(t, n) /\ WritesNext(t, n) /\ WritesFirst(t, n)
      BY <1>1, <1>2 DEF HoldsUser, WritesNext, WritesFirst, Inserting
<1>6. \A t \in Requests : LinksHeld(t) /\ HoldsEarlier(t)
      BY <1>1, <1>2 DEF LinksHeld, HoldsEarlier
<1> QED BY <1>1, <1>3, <1>4, <1>5, <1>6 DEF ProvisioningInv, PoliciesBelong, NobodyClashes

-----------------------------------------------------------------------------
\* What a request holds, as far as it concerns nobody else.
Sound(t) ==
    /\ \A n \in Names : HoldsUser(t, n) /\ WritesNext(t, n) /\ WritesFirst(t, n)
    /\ \A n \in shares[t], u \in Others(t) : n \notin locks[u]
    /\ LinksHeld(t) /\ HoldsEarlier(t)

OthersStay(t) ==
    \A u \in Others(t) :
        /\ pc'[u] = pc[u] /\ at'[u] = at[u] /\ locks'[u] = locks[u] /\ shares'[u] = shares[u]
        /\ rows'[u] = rows[u] /\ links'[u] = links[u]

LEMMA EverySound == ProvisioningInv => \A t \in Requests : Sound(t)
<1> SUFFICES ASSUME ProvisioningInv, NEW t \in Requests PROVE Sound(t)
    OBVIOUS
<1>1. \A n \in shares[t], u \in Others(t) : n \notin locks[u]
      BY Typed DEF ProvisioningInv, HoldsUser, Others
<1> QED BY <1>1 DEF ProvisioningInv, Sound

\* A statement of one request that writes no table: what the request holds afterwards
\* says what the others still hold.
LEMMA MovesOn ==
    ASSUME ProvisioningInv, NEW t \in Requests, UNCHANGED tables, TypeOK', OthersStay(t),
           Sound(t)', failures' \subseteq failures \cup {"gone", "deadlock"}
    PROVE  ProvisioningInv'
<1>1. ASSUME NEW u \in Others(t), NEW n \in Names
      PROVE  HoldsUser(u, n)' /\ WritesNext(u, n)'
  <2>1. HoldsUser(u, n) /\ WritesNext(u, n) /\ HoldsUser(t, n)'
        BY DEF ProvisioningInv, Others, Sound
  <2>2. n \in locks[u] => n \notin locks'[t] /\ n \notin shares'[t]
        BY <2>1, Typed DEF HoldsUser, Sound, OthersStay, Others
  <2> QED BY <2>1, <2>2 DEF HoldsUser, WritesNext, OthersStay, Others, tables
<1>2. ASSUME NEW u \in Others(t), NEW n \in Names, Inserting(u, n)'
      PROVE  WritesFirst(u, n)'
  <2>1. Inserting(u, n) /\ WritesFirst(u, n) /\ rows'[u] = rows[u]
        BY <1>2 DEF Inserting, OthersStay, ProvisioningInv, Others
  <2>2. ASSUME NEW m \in Names, rows'[t][m] # None, rows'[t][m].id = rows[u][n].id PROVE FALSE
    <3>1. CASE m \in locks'[t]
          BY <2>1, <2>2, <3>1 DEF Sound, HoldsUser, WritesNext, WritesFirst, tables
    <3>2. CASE m \notin locks'[t]
          BY <1>2, <2>1, <2>2, <3>2 DEF Sound, WritesFirst, Inserting, Others
    <3> QED BY <3>1, <3>2
  <2>3. ~Inserting(t, n)'
        BY <1>2 DEF Sound, WritesFirst, Others
  <2> QED BY <2>1, <2>2, <2>3 DEF WritesFirst, Inserting, OthersStay, Others, tables
<1>3. ASSUME NEW u \in Others(t) PROVE LinksHeld(u)' /\ HoldsEarlier(u)'
  <2>1. LinksHeld(u) /\ HoldsEarlier(u)
        BY DEF ProvisioningInv, Others
  <2>2. pc'[u] = pc[u] /\ at'[u] = at[u] /\ locks'[u] = locks[u] /\ shares'[u] = shares[u]
        /\ rows'[u] = rows[u] /\ links'[u] = links[u]
        BY DEF OthersStay
  <2> QED BY <2>1, <2>2 DEF LinksHeld, HoldsEarlier, Name
<1>4. \A u \in Requests, n \in Names : HoldsUser(u, n)' /\ WritesNext(u, n)' /\ WritesFirst(u, n)'
      BY <1>1, <1>2 DEF Sound, Others, WritesFirst
<1>5. \A u \in Requests : LinksHeld(u)' /\ HoldsEarlier(u)'
      BY <1>3 DEF Sound, Others
<1>6. NobodyClashes'
      BY DEF ProvisioningInv, NobodyClashes
<1> QED BY <1>4, <1>5, <1>6 DEF ProvisioningInv, IdsDiffer, PoliciesBelong, CurrentIsLatest,
                                AliasesAreLive, tables

\* A request that has let go of everything.
Released(t) ==
    /\ at[t] = 1 /\ seen[t] = None /\ locks[t] = {} /\ shares[t] = {}
    /\ rows[t] = NoRows /\ links[t] = {}

LEMMA ClearTyped ==
    ASSUME ProvisioningInv, NEW t \in Requests, Clear(t),
           NEW step \in {"retry", "done"}, pc' = [pc EXCEPT ![t] = step]
    PROVE  /\ at' \in [Requests -> Nat \ {0}] /\ (\A u \in Requests : at'[u] <= Len(Job[u].names))
           /\ seen' \in [Requests -> Row \cup {None}]
           /\ locks' \in [Requests -> SUBSET Names] /\ shares' \in [Requests -> SUBSET Names]
           /\ rows' \in [Requests -> [Names -> Row \cup {None}]]
           /\ links' \in [Requests -> SUBSET Names]
           /\ pc' \in [Requests -> Steps] /\ pc'[t] = step
           /\ Released(t)' /\ OthersStay(t)
<1>1. NoRows \in [Names -> Row \cup {None}]
      BY DEF NoRows
<1>2. /\ at' = [at EXCEPT ![t] = 1] /\ seen' = [seen EXCEPT ![t] = None]
      /\ locks' = [locks EXCEPT ![t] = {}] /\ shares' = [shares EXCEPT ![t] = {}]
      /\ rows' = [rows EXCEPT ![t] = NoRows] /\ links' = [links EXCEPT ![t] = {}]
      BY DEF Clear
<1>3. Released(t)' /\ OthersStay(t) /\ pc'[t] = step /\ pc' \in [Requests -> Steps]
      BY <1>1, <1>2, Typed DEF Released, OthersStay, Others, Steps
<1>4. \A u \in Requests : at'[u] <= Len(Job[u].names)
  <2>1. 1 <= Len(Job[t].names)
        BY Jobs
  <2> QED BY <1>2, <2>1, Typed DEF ProvisioningInv, TypeOK
<1> QED BY <1>1, <1>2, <1>3, <1>4, Typed

LEMMA ReleasedSound ==
    ASSUME NEW t \in Requests, Released(t)', pc'[t] \in {"retry", "done"}
    PROVE  Sound(t)'
<1>1. \A n \in Names : rows'[t][n] = None
      BY DEF Released, NoRows
<1> QED BY <1>1 DEF Released, Sound, HoldsUser, WritesNext, WritesFirst, Inserting, LinksHeld,
                    HoldsEarlier

LEMMA AbortKeeps ==
    ASSUME ProvisioningInv, NEW t \in Requests, NEW cause \in {"gone", "deadlock"}, Abort(t, cause)
    PROVE  ProvisioningInv'
<1>1. Clear(t) /\ pc' = [pc EXCEPT ![t] = "retry"] /\ failures' = failures \cup {cause}
      /\ UNCHANGED tables
      BY DEF Abort
<1>2. /\ at' \in [Requests -> Nat \ {0}] /\ (\A u \in Requests : at'[u] <= Len(Job[u].names))
      /\ seen' \in [Requests -> Row \cup {None}]
      /\ locks' \in [Requests -> SUBSET Names] /\ shares' \in [Requests -> SUBSET Names]
      /\ rows' \in [Requests -> [Names -> Row \cup {None}]]
      /\ links' \in [Requests -> SUBSET Names]
      /\ pc' \in [Requests -> Steps] /\ pc'[t] = "retry"
      /\ Released(t)' /\ OthersStay(t)
      BY <1>1, ClearTyped
<1>3. TypeOK'
      BY <1>1, <1>2, Typed DEF TypeOK, Steps, tables
<1>4. Sound(t)'
      BY <1>2, ReleasedSound
<1> QED BY <1>1, <1>2, <1>3, <1>4, MovesOn

-----------------------------------------------------------------------------
LEMMA FirstSteps ==
    ASSUME NEW t \in Requests
    PROVE  /\ FirstStep(t) \in {"insert", "alias", "select"}
           /\ FirstStep(t) # "select" => Kind(t) \in {"enroll", "sync"}
BY Jobs DEF FirstStep

\* A statement that only looks: nothing is held afterwards that was not held before.
LEMMA LooksKeep ==
    ASSUME ProvisioningInv, NEW t \in Requests, NEW step \in Steps, NEW row \in Row \cup {None},
           pc[t] \notin {"link", "commit", "done"},
           step \notin {"alias", "insert"} \/ Kind(t) \in {"enroll", "sync"}, step # "link",
           pc' = [pc EXCEPT ![t] = step], seen' = [seen EXCEPT ![t] = row],
           UNCHANGED <<tables, at, locks, shares, rows, links, failures>>
    PROVE  ProvisioningInv'
<1>1. pc' \in [Requests -> Steps] /\ pc'[t] = step /\ seen' \in [Requests -> Row \cup {None}]
      /\ \A u \in Others(t) : pc'[u] = pc[u]
      BY Typed DEF Others
<1>2. TypeOK'
      BY <1>1, Typed DEF ProvisioningInv, TypeOK, Steps, tables
<1>3. OthersStay(t)
      BY <1>1 DEF OthersStay
<1>4. Sound(t)'
  <2>0. Sound(t)
        BY EverySound
  <2>1. \A n \in Names : HoldsUser(t, n)' /\ WritesNext(t, n)' /\ WritesFirst(t, n)'
        BY <2>0 DEF Sound, HoldsUser, WritesNext, WritesFirst, Inserting, tables
  <2>2. LinksHeld(t)'
        BY <1>1, <2>0 DEF Sound, LinksHeld
  <2>3. HoldsEarlier(t)'
        BY <1>1, <2>0 DEF Sound, HoldsEarlier
  <2> QED BY <2>0, <2>1, <2>2, <2>3 DEF Sound
<1> QED BY <1>2, <1>3, <1>4, MovesOn

LEMMA BeginKeeps == ASSUME ProvisioningInv, NEW t \in Requests, Begin(t) PROVE ProvisioningInv'
<1>1. seen' = [seen EXCEPT ![t] = seen[t]] /\ seen[t] \in Row \cup {None}
      BY Typed DEF Begin
<1>2. FirstStep(t) \in Steps /\ FirstStep(t) # "link"
      /\ (FirstStep(t) \notin {"alias", "insert"} \/ Kind(t) \in {"enroll", "sync"})
      BY FirstSteps DEF Steps
<1> HIDE DEF FirstStep
<1> QED BY <1>1, <1>2, LooksKeep DEF Begin

\* The alias that is there stands for somebody.
LEMMA LookUpAliasKeeps ==
    ASSUME ProvisioningInv, NEW t \in Requests, LookUpAlias(t) PROVE ProvisioningInv'
<1>1. pc[t] = "alias" /\ Kind(t) \in {"enroll", "sync"}
      /\ UNCHANGED <<tables, at, locks, shares, rows, links, failures>>
      BY DEF LookUpAlias, ProvisioningInv, LinksHeld
<1>2. CASE AliasId(t) = 0
      BY <1>1, <1>2, LooksKeep DEF LookUpAlias, Steps
<1>3. CASE AliasId(t) # 0
  <2> DEFINE row == [id |-> AliasId(t), current |-> 0]
  <2>1. pc' = [pc EXCEPT ![t] = "select"] /\ seen' = [seen EXCEPT ![t] = row]
        BY <1>3 DEF LookUpAlias
  <2>2. AliasId(t) \in 1..MaxIds
    <3>1. Job[t].device \in Devices /\ Name(t) \in Names
          BY <1>1, Jobs, Typed
    <3>2. AliasId(t) \in 0..MaxIds
          BY <3>1, Typed DEF AliasId
    <3> QED BY <1>3, <3>2, Bounds
  <2> HIDE DEF AliasId
  <2>3. row \in Row
        BY <2>2 DEF Row
  <2> HIDE DEF row
  <2> QED BY <1>1, <2>1, <2>3, LooksKeep DEF Steps
<1> QED BY <1>2, <1>3

\* The user is gone, or is another one, or is loaded as it is now.
LEMMA SelectUserKeeps ==
    ASSUME ProvisioningInv, NEW t \in Requests, SelectUser(t) PROVE ProvisioningInv'
<1>1. pc[t] = "select"
      BY DEF SelectUser
<1>2. CASE user[Name(t)] = None \/ (seen[t] # None /\ seen[t].id # user[Name(t)].id)
  <2>1. CASE Kind(t) \in {"enroll", "sync"}
        BY <1>2, <2>1, AbortKeeps DEF SelectUser
  <2>2. CASE Kind(t) \notin {"enroll", "sync"}
    <3>1. seen' = [seen EXCEPT ![t] = seen[t]] /\ seen[t] \in Row \cup {None}
          BY <1>2, <2>2, Typed DEF SelectUser
    <3> QED BY <1>1, <1>2, <2>2, <3>1, LooksKeep DEF SelectUser, Steps
  <2> QED BY <2>1, <2>2
<1>3. CASE ~(user[Name(t)] = None \/ (seen[t] # None /\ seen[t].id # user[Name(t)].id))
  <2>1. user[Name(t)] \in Row \cup {None}
        BY Typed
  <2> QED BY <1>1, <1>3, <2>1, LooksKeep DEF SelectUser, AfterSelect, Steps
<1> QED BY <1>2, <1>3

\* On to the next user, or to the commit: pc and at stay in range.
LEMMA GoOnTyped ==
    ASSUME ProvisioningInv, NEW t \in Requests, GoOn(t)
    PROVE  /\ pc' \in [Requests -> Steps] /\ at' \in [Requests -> Nat \ {0}]
           /\ \A u \in Requests : at'[u] <= Len(Job[u].names)
           /\ \A u \in Others(t) : pc'[u] = pc[u] /\ at'[u] = at[u]
           /\ \/ at'[t] = at[t] + 1 /\ pc'[t] = FirstStep(t)
              \/ at'[t] = at[t] /\ pc'[t] = "commit"
<1>1. CASE at[t] < Len(Job[t].names)
  <2>1. at' = [at EXCEPT ![t] = at[t] + 1] /\ pc' = [pc EXCEPT ![t] = FirstStep(t)]
        BY <1>1 DEF GoOn
  <2>2. at[t] \in Nat \ {0} /\ Len(Job[t].names) \in Nat
        BY Typed, Jobs
  <2>3. at[t] + 1 \in Nat \ {0} /\ at[t] + 1 <= Len(Job[t].names)
        BY <1>1, <2>2
  <2>4. at' \in [Requests -> Nat \ {0}] /\ at'[t] = at[t] + 1 /\ \A u \in Others(t) : at'[u] = at[u]
        BY <2>1, <2>3, Typed DEF Others
  <2>5. \A u \in Requests : at'[u] <= Len(Job[u].names)
        BY <2>3, <2>4 DEF ProvisioningInv, TypeOK, Others
  <2>6. FirstStep(t) \in Steps
        BY FirstSteps DEF Steps
  <2> HIDE DEF FirstStep
  <2>7. pc' \in [Requests -> Steps] /\ pc'[t] = FirstStep(t) /\ \A u \in Others(t) : pc'[u] = pc[u]
        BY <2>1, <2>6, Typed DEF Others
  <2> QED BY <2>4, <2>5, <2>7
<1>2. CASE ~(at[t] < Len(Job[t].names))
  <2>1. at' = at /\ pc' = [pc EXCEPT ![t] = "commit"]
        BY <1>2 DEF GoOn
  <2> QED BY <2>1, Typed DEF Steps, Others, ProvisioningInv, TypeOK
<1> QED BY <1>1, <1>2

-----------------------------------------------------------------------------
LEMMA FreshIsUnused ==
    ASSUME ProvisioningInv, NEW i \in FreshIds
    PROVE  /\ i \in 1..MaxIds
           /\ \A m \in Names : user[m] # None => user[m].id # i
           /\ \A u \in Requests, m \in Names : rows[u][m] # None => rows[u][m].id # i
<1>1. \A m \in Names : user[m] # None => user[m].id \in IdsInUse
      BY DEF IdsInUse
<1>2. \A u \in Requests, m \in Names : rows[u][m] # None => rows[u][m].id \in IdsInUse
      BY DEF IdsInUse
<1> QED BY <1>1, <1>2 DEF FreshIds

\* A row of a name and an id that nobody has, not even in a transaction that is open.
LEMMA InsertUserKeeps ==
    ASSUME ProvisioningInv, NEW t \in Requests, InsertUser(t) PROVE ProvisioningInv'
<1>0. PICK n \in Names : n = Name(t)
      BY Typed
<1>1. pc[t] = "insert" /\ Blockers(t) = {} /\ Kind(t) \in {"enroll", "sync"}
      BY DEF InsertUser, ProvisioningInv, LinksHeld
<1>2. CASE user[n] # None
      BY <1>0, <1>1, <1>2, LooksKeep DEF InsertUser, OnDuplicate, Steps
<1>3. CASE user[n] = None
  <2>1. PICK i \in FreshIds : rows' = [rows EXCEPT ![t][n] = [id |-> i, current |-> 1]]
        BY <1>0, <1>3 DEF InsertUser
  <2> DEFINE new == [id |-> i, current |-> 1]
  <2>2. new \in Row /\ new # None /\ new.id = i /\ new.current = 1
        BY FreshIsUnused, Bounds DEF Row
  <2>3. rows' = [rows EXCEPT ![t] = [rows[t] EXCEPT ![n] = new]]
        BY <2>1
  <2> HIDE DEF new
  <2>4. rows' \in [Requests -> [Names -> Row \cup {None}]]
        /\ rows'[t][n] = new /\ (\A m \in Names \ {n} : rows'[t][m] = rows[t][m])
        /\ \A u \in Others(t) : rows'[u] = rows[u]
        BY <2>2, <2>3, Typed DEF Others
  <2>5. pc' = [pc EXCEPT ![t] = "link"]
        /\ UNCHANGED <<tables, at, seen, locks, shares, links, failures>>
        BY <1>0, <1>3 DEF InsertUser
  <2>6. pc' \in [Requests -> Steps] /\ pc'[t] = "link" /\ \A u \in Others(t) : pc'[u] = pc[u]
        BY <2>5, Typed DEF Steps, Others
  <2>7. TypeOK'
        BY <2>4, <2>5, <2>6, Typed DEF ProvisioningInv, TypeOK, Steps, tables
  <2>8. OthersStay(t)
        BY <2>4, <2>5, <2>6 DEF OthersStay
  <2>9. Sound(t)'
    <3>0. Sound(t)
          BY EverySound
    <3>1. n \notin locks[t]
          BY <1>1, <1>3, <3>0 DEF Sound, HoldsUser
    <3>2. \A u \in Others(t) : ~Inserting(u, n)
          BY <1>0, <1>1 DEF Blockers
    <3>3. WritesFirst(t, n)'
      <4>1. \A m \in Names : user'[m] # None => user'[m].id # i
            BY <2>5, FreshIsUnused DEF tables
      <4>2. ASSUME NEW u \in Requests, NEW m \in Names, rows'[u][m] # None, rows'[u][m].id = i
            PROVE  u = t /\ m = n
            BY <2>4, <4>2, FreshIsUnused DEF Others
      <4>3. \A u \in Requests : Inserting(u, n)' => u = t
            BY <2>4, <2>5, <3>2 DEF Inserting, Others
      <4> QED BY <1>3, <2>2, <2>4, <2>5, <4>1, <4>2, <4>3 DEF WritesFirst, tables
    <3>4. ASSUME NEW m \in Names, m # n PROVE WritesFirst(t, m)'
      <4> SUFFICES ASSUME Inserting(t, m)' PROVE WritesFirst(t, m)'
          BY DEF WritesFirst
      <4>1. Inserting(t, m) /\ WritesFirst(t, m) /\ rows'[t][m] = rows[t][m]
            BY <2>4, <2>5, <3>0, <3>4 DEF Inserting, Sound
      <4>2. rows[t][m].id # i
            BY <4>1, FreshIsUnused DEF Inserting
      <4>3. ASSUME NEW u \in Requests, NEW k \in Names, rows'[u][k] # None, rows'[u][k].id = rows[t][m].id
            PROVE  u = t /\ k = m
            BY <2>2, <2>4, <4>1, <4>2, <4>3 DEF WritesFirst, Others
      <4>4. \A u \in Requests : Inserting(u, m)' => u = t
            BY <2>4, <2>5, <4>1 DEF Inserting, Others, WritesFirst
      <4> QED BY <2>5, <4>1, <4>3, <4>4 DEF WritesFirst, tables
    <3>5. \A m \in Names : HoldsUser(t, m)' /\ WritesNext(t, m)'
          BY <2>4, <2>5, <3>0, <3>1 DEF Sound, HoldsUser, WritesNext, tables
    <3>6. LinksHeld(t)'
          BY <1>0, <1>1, <2>2, <2>4, <2>5, <2>6, <3>0, Typed DEF Sound, LinksHeld, Name
    <3>7. HoldsEarlier(t)'
      <4> SUFFICES ASSUME NEW m \in Names, m \in locks[t] \cup shares[t] \/ rows'[t][m] # None
                   PROVE  \E k \in Indices(t) : Job[t].names[k] = m /\ k <= at[t]
          BY <2>5, <2>6 DEF HoldsEarlier
      <4>1. CASE m = n
        <5>1. at[t] \in Indices(t) /\ at[t] \in Nat /\ Job[t].names[at[t]] = m
              BY <1>0, <4>1, Typed DEF Name
        <5>2. at[t] <= at[t]
              BY <5>1
        <5> QED BY <5>1, <5>2
      <4>2. CASE m # n
            BY <2>4, <3>0, <4>2 DEF Sound, HoldsEarlier
      <4> QED BY <4>1, <4>2
    <3>8. \A m \in shares'[t], u \in Others(t) : m \notin locks'[u]
          BY <2>5, <3>0 DEF Sound
    <3> QED BY <3>3, <3>4, <3>5, <3>6, <3>7, <3>8 DEF Sound, Others
  <2> QED BY <2>5, <2>7, <2>8, <2>9, MovesOn
<1> QED BY <1>2, <1>3

\* Where a request is at is a user it has come to.
LEMMA HereIsEarlier ==
    ASSUME ProvisioningInv, NEW t \in Requests
    PROVE  at[t] \in Indices(t) /\ at[t] \in Nat /\ at[t] <= at[t] /\ at[t] < at[t] + 1
           /\ Job[t].names[at[t]] = Name(t)
<1>1. at[t] \in Indices(t) /\ at[t] \in Nat /\ Job[t].names[at[t]] = Name(t)
      BY Typed DEF Name
<1> QED BY <1>1

\* What a request holds when it goes on are users it has left behind.
LEMMA GoOnHoldsEarlier ==
    ASSUME ProvisioningInv, NEW t \in Requests, GoOn(t) \/ (pc'[t] = "link" /\ at'[t] = at[t]),
           \A m \in Names : m \in locks'[t] \cup shares'[t] \/ rows'[t][m] # None =>
               m \in locks[t] \cup shares[t] \/ rows[t][m] # None \/ m = Name(t)
    PROVE  HoldsEarlier(t)'
<1>1. \/ at'[t] = at[t] + 1
      \/ at'[t] = at[t] /\ pc'[t] \in {"commit", "link"}
      BY GoOnTyped
<1>2. at[t] \in Nat
      BY HereIsEarlier
<1> SUFFICES ASSUME NEW m \in Names, m \in locks'[t] \cup shares'[t] \/ rows'[t][m] # None
             PROVE  \E k \in Indices(t) :
                       /\ Job[t].names[k] = m /\ k <= at'[t]
                       /\ pc'[t] \notin {"link", "commit", "done"} => k < at'[t]
    BY DEF HoldsEarlier, Indices
<1>3. \E k \in Indices(t) : Job[t].names[k] = m /\ k <= at[t]
      BY HereIsEarlier DEF ProvisioningInv, HoldsEarlier
<1>4. PICK k \in Indices(t) : Job[t].names[k] = m /\ k <= at[t]
      BY <1>3
<1>5. k \in Int
      BY DEF Indices
<1> QED BY <1>1, <1>2, <1>4, <1>5

LEMMA LockUserKeeps ==
    ASSUME ProvisioningInv, NEW t \in Requests, LockUser(t) PROVE ProvisioningInv'
<1>0. PICK n \in Names : n = Name(t)
      BY Typed
<1>1. pc[t] = "lock" /\ Blockers(t) = {}
      BY DEF LockUser
<1>2. CASE user[n] = None \/ user[n].id # seen[t].id
  <2>1. CASE Kind(t) # "delete"
        BY <1>0, <1>2, <2>1, AbortKeeps DEF LockUser
  <2>2. CASE Kind(t) = "delete"
    <3>1. seen' = [seen EXCEPT ![t] = seen[t]] /\ seen[t] \in Row \cup {None}
          BY <1>0, <1>2, <2>2, Typed DEF LockUser
    <3> QED BY <1>0, <1>1, <1>2, <2>2, <3>1, LooksKeep DEF LockUser, Steps
  <2> QED BY <2>1, <2>2
<1>3. CASE ~(user[n] = None \/ user[n].id # seen[t].id)
  <2> DEFINE new == NewRow(t, user[n])
  <2>1. /\ locks' = [locks EXCEPT ![t] = locks[t] \cup {n}]
        /\ rows' = [rows EXCEPT ![t] = [rows[t] EXCEPT ![n] = new]]
        /\ UNCHANGED <<tables, seen, shares, links, failures>>
        BY <1>0, <1>3 DEF LockUser, ReadAgain
  <2>2. user[n] \in Row
        BY <1>3, Typed
  <2>3. /\ new \in Row \cup {None}
        /\ new # None => new.id = user[n].id /\ new.current = user[n].current + 1
        /\ Kind(t) = "delete" => new = None
    <3> DEFINE next == [user[n] EXCEPT !.current = @ + 1]
    <3>1. next \in Row /\ next.id = user[n].id /\ next.current = user[n].current + 1
      <4>1. user[n].current + 1 \in Nat
            BY <2>2 DEF Row
      <4> QED BY <2>2, <4>1 DEF Row
    <3>2. new = next \/ new = None
          BY DEF NewRow
    <3>3. Kind(t) = "delete" => new = None
          BY DEF NewRow
    <3> QED BY <3>1, <3>2, <3>3
  <2>4. \/ Kind(t) \in {"enroll", "sync"} /\ pc' = [pc EXCEPT ![t] = "link"] /\ UNCHANGED at
        \/ GoOn(t)
        BY <1>0, <1>3 DEF LockUser
  <2> HIDE DEF new
  <2>5. /\ locks' \in [Requests -> SUBSET Names] /\ locks'[t] = locks[t] \cup {n}
        /\ rows' \in [Requests -> [Names -> Row \cup {None}]]
        /\ rows'[t][n] = new /\ (\A m \in Names \ {n} : rows'[t][m] = rows[t][m])
        /\ \A u \in Others(t) : rows'[u] = rows[u] /\ locks'[u] = locks[u]
        BY <2>1, <2>3, Typed DEF Others
  <2>6. /\ pc' \in [Requests -> Steps] /\ at' \in [Requests -> Nat \ {0}]
        /\ \A u \in Requests : at'[u] <= Len(Job[u].names)
        /\ \A u \in Others(t) : pc'[u] = pc[u] /\ at'[u] = at[u]
        /\ \/ pc'[t] \in {"commit", FirstStep(t)}
           \/ pc'[t] = "link" /\ at'[t] = at[t] /\ Kind(t) \in {"enroll", "sync"}
    <3>1. CASE GoOn(t)
          BY <3>1, GoOnTyped
    <3>2. CASE Kind(t) \in {"enroll", "sync"} /\ pc' = [pc EXCEPT ![t] = "link"] /\ UNCHANGED at
          BY <3>2, Typed DEF Steps, Others, ProvisioningInv, TypeOK
    <3> QED BY <2>4, <3>1, <3>2
  <2>7. TypeOK'
        BY <2>1, <2>5, <2>6, Typed DEF ProvisioningInv, TypeOK, Steps, tables
  <2>8. OthersStay(t)
        BY <2>1, <2>5, <2>6 DEF OthersStay, Others
  <2>9. Sound(t)'
    <3>0. Sound(t)
          BY EverySound
    <3>1. \A u \in Others(t) : n \notin locks[u] \cup shares[u]
          BY <1>0, <1>1 DEF Blockers
    <3>3. HoldsUser(t, n)' /\ WritesNext(t, n)' /\ WritesFirst(t, n)'
          BY <1>3, <2>1, <2>3, <2>5, <3>1 DEF HoldsUser, WritesNext, WritesFirst, Inserting, Others, tables
    <3>4. ASSUME NEW m \in Names, m # n PROVE HoldsUser(t, m)' /\ WritesNext(t, m)' /\ WritesFirst(t, m)'
      <4>1. HoldsUser(t, m)' /\ WritesNext(t, m)'
            BY <2>1, <2>5, <3>0, <3>4 DEF Sound, HoldsUser, WritesNext, Others, tables
      <4>2. WritesFirst(t, m)'
        <5> SUFFICES ASSUME Inserting(t, m)' PROVE WritesFirst(t, m)'
            BY DEF WritesFirst
        <5>1. Inserting(t, m) /\ WritesFirst(t, m) /\ rows'[t][m] = rows[t][m]
              BY <2>5, <3>0, <3>4 DEF Inserting, Sound
        <5>2. user[n].id # rows[t][m].id
              BY <1>3, <5>1 DEF WritesFirst
        <5>3. ASSUME NEW u \in Requests, NEW k \in Names, rows'[u][k] # None,
                     rows'[u][k].id = rows[t][m].id
              PROVE  u = t /\ k = m
              BY <2>3, <2>5, <5>1, <5>2, <5>3 DEF WritesFirst, Others
        <5>4. \A u \in Requests : Inserting(u, m)' => u = t
              BY <2>5, <5>1 DEF Inserting, Others, WritesFirst
        <5> QED BY <2>1, <5>1, <5>3, <5>4 DEF WritesFirst, tables
      <4> QED BY <4>1, <4>2
    <3>5. LinksHeld(t)'
      <4>1. pc'[t] \in {"alias", "insert", "link"} => Kind(t) \in {"enroll", "sync"}
            BY <2>6, FirstSteps
      <4>2. Kind(t) = "delete" => links'[t] = {} /\ rows'[t] = NoRows
        <5> SUFFICES ASSUME Kind(t) = "delete" PROVE links'[t] = {} /\ rows'[t] = NoRows
            OBVIOUS
        <5>1. links[t] = {} /\ rows[t] = NoRows /\ new = None
              BY <2>3, <3>0 DEF Sound, LinksHeld
        <5>2. \A m \in Names : rows'[t][m] = None
              BY <2>5, <5>1 DEF NoRows
        <5> QED BY <2>1, <2>5, <5>1, <5>2 DEF NoRows
      <4>3. pc'[t] = "link" => Name(t)' = n
            BY <1>0, <2>6, FirstSteps DEF Name
      <4>4. \A m \in links'[t] : m \in locks'[t] \/ rows'[t][m] # None
            BY <2>1, <2>5, <3>0, Typed DEF Sound, LinksHeld
      <4> QED BY <2>5, <4>1, <4>2, <4>3, <4>4 DEF LinksHeld, Kind
    <3>6. HoldsEarlier(t)'
      <4>1. \A m \in Names : m \in locks'[t] \cup shares'[t] \/ rows'[t][m] # None =>
               m \in locks[t] \cup shares[t] \/ rows[t][m] # None \/ m = Name(t)
            BY <1>0, <2>1, <2>5
      <4>2. GoOn(t) \/ (pc'[t] = "link" /\ at'[t] = at[t])
            BY <2>4, Typed
      <4> QED BY <4>1, <4>2, GoOnHoldsEarlier
    <3>7. \A m \in shares'[t], u \in Others(t) : m \notin locks'[u]
          BY <2>1, <2>5, <3>0 DEF Sound
    <3> QED BY <3>3, <3>4, <3>5, <3>6, <3>7 DEF Sound, Others
  <2> QED BY <2>1, <2>7, <2>8, <2>9, MovesOn
<1> QED BY <1>2, <1>3

\* The alias's foreign key: the row is this request's own, or nobody holds it.
LEMMA LinkAliasKeeps ==
    ASSUME ProvisioningInv, NEW t \in Requests, LinkAlias(t) PROVE ProvisioningInv'
<1>0. PICK n \in Names : n = Name(t)
      BY Typed
<1>1. /\ pc[t] = "link" /\ Blockers(t) = {}
      /\ links' = [links EXCEPT ![t] = links[t] \cup {n}]
      /\ shares' = [shares EXCEPT ![t] = shares[t] \cup {n}]
      /\ UNCHANGED <<tables, seen, locks, rows, failures>>
      BY <1>0 DEF LinkAlias
<1>2. Sound(t) /\ Kind(t) \in {"enroll", "sync"} /\ (n \in locks[t] \/ rows[t][n] # None)
      BY <1>0, <1>1, EverySound DEF Sound, LinksHeld
<1>3. GoOn(t)
      BY <1>0, <1>2 DEF LinkAlias
<1>4. /\ pc' \in [Requests -> Steps] /\ at' \in [Requests -> Nat \ {0}]
      /\ \A u \in Requests : at'[u] <= Len(Job[u].names)
      /\ \A u \in Others(t) : pc'[u] = pc[u] /\ at'[u] = at[u]
      /\ pc'[t] \in {"commit", FirstStep(t)}
      BY <1>3, GoOnTyped
<1>5. /\ links' \in [Requests -> SUBSET Names] /\ links'[t] = links[t] \cup {n}
      /\ shares' \in [Requests -> SUBSET Names] /\ shares'[t] = shares[t] \cup {n}
      /\ \A u \in Others(t) : links'[u] = links[u] /\ shares'[u] = shares[u]
      BY <1>1, Typed DEF Others
<1>6. TypeOK'
      BY <1>1, <1>4, <1>5, Typed DEF TypeOK, Steps, tables
<1>7. OthersStay(t)
      BY <1>1, <1>4, <1>5 DEF OthersStay
<1>8. Sound(t)'
  <2>1. \A m \in Names : HoldsUser(t, m)' /\ WritesNext(t, m)' /\ WritesFirst(t, m)'
        BY <1>1, <1>2, <1>5 DEF Sound, HoldsUser, WritesNext, WritesFirst, Inserting, Others, tables
  <2>2. LinksHeld(t)'
    <3>1. pc'[t] # "link"
          BY <1>4, FirstSteps
    <3> QED BY <1>1, <1>2, <1>5, <3>1 DEF Sound, LinksHeld, Kind
  <2>3. HoldsEarlier(t)'
    <3>1. \A m \in Names : m \in locks'[t] \cup shares'[t] \/ rows'[t][m] # None =>
             m \in locks[t] \cup shares[t] \/ rows[t][m] # None \/ m = Name(t)
          BY <1>0, <1>1, <1>5
    <3> QED BY <1>3, <3>1, GoOnHoldsEarlier
  <2>4. \A m \in shares'[t], u \in Others(t) : m \notin locks'[u]
        BY <1>0, <1>1, <1>2, <1>5 DEF Sound, Blockers
  <2> QED BY <2>1, <2>2, <2>3, <2>4 DEF Sound, Others
<1> QED BY <1>1, <1>6, <1>7, <1>8, MovesOn

-----------------------------------------------------------------------------
\* A commit changes users that nobody else holds or inserts, and gives no user another id.
Untouched(t) == \A n \in Names : n \notin locks[t] /\ ~Inserting(t, n) => user'[n] = user[n]

IdsKept(t) ==
    \A n \in Names : user'[n] # None =>
        \/ user[n] # None /\ user'[n].id = user[n].id
        \/ Inserting(t, n) /\ user'[n] = rows[t][n]

LEMMA CommitLeavesOthers ==
    ASSUME ProvisioningInv, NEW t \in Requests, Clear(t), pc' = [pc EXCEPT ![t] = "done"],
           UNCHANGED failures, user' \in [Names -> Row \cup {None}], policies' \subseteq Policy,
           alias' \in [Devices \X Names -> 0..MaxIds],
           Untouched(t), IdsKept(t),
           IdsDiffer', PoliciesBelong', CurrentIsLatest', AliasesAreLive'
    PROVE  ProvisioningInv'
<1>1. /\ at' \in [Requests -> Nat \ {0}] /\ (\A u \in Requests : at'[u] <= Len(Job[u].names))
      /\ seen' \in [Requests -> Row \cup {None}]
      /\ locks' \in [Requests -> SUBSET Names] /\ shares' \in [Requests -> SUBSET Names]
      /\ rows' \in [Requests -> [Names -> Row \cup {None}]]
      /\ links' \in [Requests -> SUBSET Names]
      /\ pc' \in [Requests -> Steps] /\ pc'[t] = "done"
      /\ Released(t)' /\ OthersStay(t)
      BY ClearTyped
<1>2. TypeOK'
      BY <1>1, Typed DEF TypeOK, Steps
<1>3. Sound(t)'
      BY <1>1, ReleasedSound
<1>4. ASSUME NEW u \in Others(t), NEW n \in Names
      PROVE  HoldsUser(u, n)' /\ WritesNext(u, n)' /\ WritesFirst(u, n)'
  <2>0. /\ HoldsUser(u, n) /\ WritesNext(u, n) /\ WritesFirst(u, n)
        /\ HoldsUser(t, n) /\ WritesFirst(t, n)
        BY DEF ProvisioningInv, Others
  <2>1. /\ locks'[u] = locks[u] /\ rows'[u] = rows[u]
        /\ locks'[t] = {} /\ shares'[t] = {} /\ \A m \in Names : rows'[t][m] = None
        /\ \A v \in Others(t) : locks'[v] = locks[v] /\ rows'[v] = rows[v] /\ shares'[v] = shares[v]
        BY <1>1 DEF OthersStay, Released, NoRows
  <2>2. n \in locks[u] => user'[n] = user[n]
        BY <2>0 DEF HoldsUser, WritesFirst, Untouched, Others
  <2>3. HoldsUser(u, n)' /\ WritesNext(u, n)'
        BY <2>0, <2>1, <2>2 DEF HoldsUser, WritesNext, Others
  <2>4. WritesFirst(u, n)'
    <3> SUFFICES ASSUME Inserting(u, n)' PROVE WritesFirst(u, n)'
        BY DEF WritesFirst
    <3>1. Inserting(u, n)
          BY <2>1 DEF Inserting
    <3>2. ~Inserting(t, n) /\ n \notin locks[t]
          BY <2>0, <3>1 DEF WritesFirst, HoldsUser, Others
    <3>3. user'[n] = None /\ rows'[u][n].current = 1
          BY <2>0, <2>1, <3>1, <3>2 DEF Untouched, WritesFirst
    <3>4. \A m \in Names : user'[m] # None => user'[m].id # rows[u][n].id
          BY <2>0, <3>1 DEF WritesFirst, IdsKept, Inserting, Others
    <3>5. ASSUME NEW v \in Requests, NEW m \in Names, rows'[v][m] # None, rows'[v][m].id = rows[u][n].id
          PROVE  v = u /\ m = n
          BY <2>0, <2>1, <3>1, <3>5 DEF WritesFirst, Others
    <3>6. \A v \in Requests : Inserting(v, n)' => v = u
          BY <2>0, <2>1, <3>1 DEF Inserting, WritesFirst, Others
    <3> QED BY <2>1, <3>3, <3>4, <3>5, <3>6 DEF WritesFirst
  <2> QED BY <2>3, <2>4
<1>5. ASSUME NEW u \in Others(t) PROVE LinksHeld(u)' /\ HoldsEarlier(u)'
  <2>1. LinksHeld(u) /\ HoldsEarlier(u)
        BY DEF ProvisioningInv, Others
  <2>2. pc'[u] = pc[u] /\ at'[u] = at[u] /\ locks'[u] = locks[u] /\ shares'[u] = shares[u]
        /\ rows'[u] = rows[u] /\ links'[u] = links[u]
        BY <1>1 DEF OthersStay
  <2> QED BY <2>1, <2>2 DEF LinksHeld, HoldsEarlier, Name
<1>6. \A u \in Requests, n \in Names : HoldsUser(u, n)' /\ WritesNext(u, n)' /\ WritesFirst(u, n)'
      BY <1>3, <1>4 DEF Sound, Others
<1>7. \A u \in Requests : LinksHeld(u)' /\ HoldsEarlier(u)'
      BY <1>3, <1>5 DEF Sound, Others
<1> QED BY <1>2, <1>6, <1>7 DEF ProvisioningInv, NobodyClashes

\* A row that is written is the next one of its user, or the first of a new one.
LEMMA WrittenRows ==
    ASSUME ProvisioningInv, NEW t \in Requests, NEW n \in Written(t)
    PROVE  /\ n \in Names /\ rows[t][n] \in Row /\ rows[t][n].current \in Nat \ {0}
           /\ \/ /\ n \in locks[t] /\ user[n] \in Row /\ rows[t][n].id = user[n].id
                 /\ rows[t][n].current = user[n].current + 1
              \/ /\ Inserting(t, n) /\ user[n] = None /\ rows[t][n].current = 1
                 /\ \A m \in Names : user[m] # None => user[m].id # rows[t][n].id
<1>1. n \in Names /\ rows[t][n] # None /\ rows[t][n] \in Row
      BY Typed DEF Written
<1>2. HoldsUser(t, n) /\ WritesNext(t, n) /\ WritesFirst(t, n)
      BY <1>1 DEF ProvisioningInv
<1>3. CASE n \in locks[t]
  <2>1. user[n] \in Row /\ rows[t][n].id = user[n].id /\ rows[t][n].current = user[n].current + 1
        BY <1>1, <1>2, <1>3, Typed DEF HoldsUser, WritesNext
  <2>2. user[n].current \in Nat
        BY <2>1 DEF Row
  <2>3. user[n].current + 1 \in Nat \ {0}
        BY <2>2
  <2> QED BY <1>1, <1>3, <2>1, <2>3
<1>4. CASE n \notin locks[t]
      BY <1>1, <1>2, <1>4 DEF WritesFirst, Inserting
<1> QED BY <1>3, <1>4

\* Whoever holds the row has seen the latest version there is.
LEMMA NoClash == ASSUME ProvisioningInv, NEW t \in Requests PROVE ~Clash(t)
<1> SUFFICES ASSUME NEW n \in Written(t), NEW p \in policies,
                    p = [id |-> rows[t][n].id, version |-> rows[t][n].current]
             PROVE  FALSE
    BY DEF Clash, NewPolicies
<1>1. p.id = rows[t][n].id /\ p.version = rows[t][n].current /\ n \in Names
      BY WrittenRows
<1>2. CASE n \in locks[t] /\ user[n] \in Row /\ rows[t][n].id = user[n].id
           /\ rows[t][n].current = user[n].current + 1
  <2>1. {q.version : q \in {r \in policies : r.id = user[n].id}} = 1..user[n].current
        BY <1>1, <1>2, Bounds DEF ProvisioningInv, CurrentIsLatest
  <2>2. user[n].current + 1 \in 1..user[n].current
        BY <1>1, <1>2, <2>1
  <2>3. user[n].current \in Nat
        BY <1>2 DEF Row
  <2> QED BY <2>2, <2>3
<1>3. CASE \A m \in Names : user[m] # None => user[m].id # rows[t][n].id
      BY <1>1, <1>3 DEF ProvisioningInv, PoliciesBelong
<1> QED BY <1>2, <1>3, WrittenRows

\* The user goes with its policies and its aliases.
LEMMA DeleteCommitKeeps ==
    ASSUME ProvisioningInv, NEW t \in Requests, Kind(t) = "delete", Commit(t)
    PROVE  ProvisioningInv'
<1>0. links[t] = {} /\ rows[t] = NoRows /\ Written(t) = {} /\ NewPolicies(t) = {}
      /\ \A n \in Names : ~Inserting(t, n)
  <2>1. links[t] = {} /\ rows[t] = NoRows
        BY DEF ProvisioningInv, LinksHeld
  <2>2. \A n \in Names : rows[t][n] = None
        BY <2>1 DEF NoRows
  <2> QED BY <2>1, <2>2 DEF Written, NewPolicies, Inserting
<1>1. /\ Clear(t) /\ pc' = [pc EXCEPT ![t] = "done"] /\ UNCHANGED failures
      /\ user' = [n \in Names |-> IF n \in locks[t] THEN None ELSE user[n]]
      /\ policies' = {p \in policies : \A n \in locks[t] : p.id # user[n].id}
      /\ alias' = [dn \in Devices \X Names |-> IF dn[2] \in locks[t] THEN 0 ELSE alias[dn]]
  <2>1. /\ Clear(t) /\ pc' = [pc EXCEPT ![t] = "done"] /\ UNCHANGED failures
        /\ user' = [n \in Names |-> IF n \in locks[t] THEN None
                                    ELSE IF n \in Written(t) THEN rows[t][n] ELSE user[n]]
        /\ policies' = {p \in policies : \A n \in locks[t] : p.id # user[n].id} \cup NewPolicies(t)
        /\ alias' = AliasesAfter(t)
        BY NoClash DEF Commit
  <2>2. \A dn \in Devices \X Names : ~NewAlias(t, dn)
        BY <1>0 DEF NewAlias
  <2>3. AliasesAfter(t) = [dn \in Devices \X Names |-> IF dn[2] \in locks[t] THEN 0 ELSE alias[dn]]
        BY <2>2 DEF AliasesAfter
  <2> QED BY <1>0, <2>1, <2>3
<1>2. user' \in [Names -> Row \cup {None}] /\ policies' \subseteq Policy
      /\ alias' \in [Devices \X Names -> 0..MaxIds]
      BY <1>1, Typed, Bounds
<1>3. Untouched(t) /\ IdsKept(t)
      BY <1>1 DEF Untouched, IdsKept
<1>4. \A n \in Names : user'[n] # None => n \notin locks[t] /\ user'[n] = user[n]
      BY <1>1
<1>5. \A n \in Names : n \notin locks[t] => user'[n] = user[n]
      BY <1>1
<1>6. \A n \in locks[t] : n \in Names /\ user[n] # None
      BY Typed DEF ProvisioningInv, HoldsUser
<1>7. IdsDiffer'
      BY <1>4 DEF ProvisioningInv, IdsDiffer
<1>8. PoliciesBelong'
      BY <1>1, <1>5 DEF ProvisioningInv, PoliciesBelong
<1>9. CurrentIsLatest'
  <2> SUFFICES ASSUME NEW n \in Names, user'[n] # None
               PROVE  {p.version : p \in {q \in policies' : q.id = user'[n].id}} = 1..user'[n].current
      BY DEF CurrentIsLatest
  <2>1. user'[n] = user[n] /\ n \notin locks[t]
        BY <1>4
  <2>2. \A m \in locks[t] : user[m].id # user[n].id
        BY <1>6, <2>1 DEF ProvisioningInv, IdsDiffer
  <2>3. {q \in policies' : q.id = user[n].id} = {q \in policies : q.id = user[n].id}
        BY <1>1, <2>2
  <2> QED BY <2>1, <2>3 DEF ProvisioningInv, CurrentIsLatest
<1>10. AliasesAreLive'
  <2> SUFFICES ASSUME NEW d \in Devices, NEW n \in Names, alias'[d, n] # 0
               PROVE  user'[n] # None /\ user'[n].id = alias'[d, n]
      BY DEF AliasesAreLive
  <2>1. n \notin locks[t] /\ alias'[d, n] = alias[d, n]
        BY <1>1
  <2> QED BY <1>5, <2>1 DEF ProvisioningInv, AliasesAreLive
<1> QED BY <1>1, <1>2, <1>3, <1>7, <1>8, <1>9, <1>10, CommitLeavesOthers

\* The rows a request has written replace those there were, and aliases point to them.
LEMMA WriteCommitKeeps ==
    ASSUME ProvisioningInv, NEW t \in Requests, Kind(t) # "delete", Commit(t)
    PROVE  ProvisioningInv'
<1>1. /\ Clear(t) /\ pc' = [pc EXCEPT ![t] = "done"] /\ UNCHANGED failures
      /\ user' = [n \in Names |-> IF n \in Written(t) THEN rows[t][n] ELSE user[n]]
      /\ policies' = policies \cup NewPolicies(t)
      /\ alias' = [dn \in Devices \X Names |-> IF NewAlias(t, dn) THEN LinkedId(t, dn[2]) ELSE alias[dn]]
  <2>1. /\ Clear(t) /\ pc' = [pc EXCEPT ![t] = "done"] /\ UNCHANGED failures
        /\ user' = [n \in Names |-> IF n \in {} THEN None
                                    ELSE IF n \in Written(t) THEN rows[t][n] ELSE user[n]]
        /\ policies' = {p \in policies : \A n \in {} : p.id # user[n].id} \cup NewPolicies(t)
        /\ alias' = AliasesAfter(t)
        BY NoClash DEF Commit
  <2>2. AliasesAfter(t) =
            [dn \in Devices \X Names |-> IF NewAlias(t, dn) THEN LinkedId(t, dn[2]) ELSE alias[dn]]
        BY DEF AliasesAfter
  <2> QED BY <2>1, <2>2
<1>2. \A n \in Names :
        /\ n \in Written(t) => user'[n] = rows[t][n] /\ user'[n] # None
        /\ n \notin Written(t) => user'[n] = user[n]
      BY <1>1 DEF Written
<1>3. Untouched(t)
      BY <1>2 DEF Untouched, Written, Inserting
<1>4. \A n \in Names : user'[n] # None =>
        \/ user[n] # None /\ user'[n].id = user[n].id
        \/ Inserting(t, n) /\ user'[n] = rows[t][n] /\ n \in Written(t)
      BY <1>2, WrittenRows, Bounds
<1>5. \A n \in Names : user[n] # None => user'[n] # None /\ user'[n].id = user[n].id
      BY <1>2, WrittenRows
<1>6. IdsDiffer'
  <2> SUFFICES ASSUME NEW m \in Names, NEW n \in Names, user'[m] # None, user'[n] # None,
                      user'[m].id = user'[n].id
               PROVE  m = n
      BY DEF IdsDiffer
  <2>1. CASE Inserting(t, m) /\ user'[m] = rows[t][m]
    <3>1. WritesFirst(t, m)
          BY DEF ProvisioningInv
    <3> QED BY <1>4, <2>1, <3>1 DEF WritesFirst, Inserting
  <2>2. CASE Inserting(t, n) /\ user'[n] = rows[t][n]
    <3>1. WritesFirst(t, n)
          BY DEF ProvisioningInv
    <3> QED BY <1>4, <2>2, <3>1 DEF WritesFirst, Inserting
  <2>3. CASE user[m] # None /\ user'[m].id = user[m].id /\ user[n] # None /\ user'[n].id = user[n].id
        BY <2>3 DEF ProvisioningInv, IdsDiffer
  <2> QED BY <1>4, <2>1, <2>2, <2>3
<1>7. PoliciesBelong'
  <2> SUFFICES ASSUME NEW p \in policies' PROVE \E n \in Names : user'[n] # None /\ user'[n].id = p.id
      BY DEF PoliciesBelong
  <2>1. CASE p \in policies
        BY <1>5, <2>1 DEF ProvisioningInv, PoliciesBelong
  <2>2. CASE p \in NewPolicies(t)
    <3>1. PICK n \in Written(t) : p = [id |-> rows[t][n].id, version |-> rows[t][n].current]
          BY <2>2 DEF NewPolicies
    <3> QED BY <1>2, <3>1 DEF Written
  <2> QED BY <1>1, <2>1, <2>2
<1>8. CurrentIsLatest'
  <2> SUFFICES ASSUME NEW n \in Names, user'[n] # None
               PROVE  {p.version : p \in {q \in policies' : q.id = user'[n].id}} = 1..user'[n].current
      BY DEF CurrentIsLatest
  <2>1. \A q \in NewPolicies(t) : q.id = user'[n].id =>
            n \in Written(t) /\ q.version = rows[t][n].current
    <3> SUFFICES ASSUME NEW m \in Written(t), rows[t][m].id = user'[n].id PROVE m = n
        BY DEF NewPolicies
    <3>1. m \in Names /\ user'[m] # None /\ user'[m].id = user'[n].id
          BY <1>2 DEF Written
    <3> QED BY <1>6, <3>1 DEF IdsDiffer
  <2>2. n \in Written(t) =>
            [id |-> rows[t][n].id, version |-> rows[t][n].current] \in NewPolicies(t)
        BY DEF NewPolicies
  <2>3. CASE n \notin Written(t)
    <3>1. user'[n] = user[n]
          BY <1>2, <2>3
    <3>2. {q \in policies' : q.id = user'[n].id} = {q \in policies : q.id = user[n].id}
          BY <1>1, <2>1, <2>3, <3>1
    <3> QED BY <3>1, <3>2 DEF ProvisioningInv, CurrentIsLatest
  <2>4. CASE n \in Written(t)
    <3> DEFINE new == [id |-> rows[t][n].id, version |-> rows[t][n].current]
               Old == {q \in policies : q.id = rows[t][n].id}
    <3>1. user'[n] = rows[t][n]
          BY <1>2, <2>4
    <3>2. {q \in policies' : q.id = user'[n].id} \subseteq Old \cup {q \in NewPolicies(t) : q.id = user'[n].id}
          /\ Old \subseteq {q \in policies' : q.id = user'[n].id}
          /\ new \in {q \in policies' : q.id = user'[n].id}
          BY <1>1, <2>2, <2>4, <3>1
    <3>3. {p.version : p \in {q \in policies' : q.id = user'[n].id}}
            = {p.version : p \in Old} \cup {rows[t][n].current}
          BY <2>1, <3>2
    <3>4. CASE n \in locks[t] /\ user[n] \in Row /\ rows[t][n].id = user[n].id
               /\ rows[t][n].current = user[n].current + 1
      <4>1. {p.version : p \in Old} = 1..user[n].current
            BY <3>4, Bounds DEF ProvisioningInv, CurrentIsLatest
      <4>2. user[n].current \in Nat
            BY <3>4 DEF Row
      <4>3. (1..user[n].current) \cup {user[n].current + 1} = 1..(user[n].current + 1)
            BY <4>2
      <4> QED BY <3>1, <3>3, <3>4, <4>1, <4>3
    <3>5. CASE rows[t][n].current = 1 /\ \A m \in Names : user[m] # None => user[m].id # rows[t][n].id
      <4>1. Old = {}
            BY <3>5 DEF ProvisioningInv, PoliciesBelong
      <4>2. {p.version : p \in Old} = {}
            BY <4>1
      <4> QED BY <3>1, <3>3, <3>5, <4>2
    <3> QED BY <2>4, <3>4, <3>5, WrittenRows
  <2> QED BY <2>3, <2>4
<1>9. \A n \in links[t] : n \in Names /\ user'[n] # None /\ LinkedId(t, n) = user'[n].id
  <2> SUFFICES ASSUME NEW n \in links[t]
               PROVE  n \in Names /\ user'[n] # None /\ LinkedId(t, n) = user'[n].id
      OBVIOUS
  <2>1. n \in Names /\ (n \in locks[t] \/ n \in Written(t))
        BY Typed DEF ProvisioningInv, LinksHeld, Written
  <2>2. n \in locks[t] => user[n] # None
        BY <2>1 DEF ProvisioningInv, HoldsUser
  <2> QED BY <1>2, <2>1, <2>2 DEF LinkedId
<1>10. AliasesAreLive'
  <2> SUFFICES ASSUME NEW d \in Devices, NEW n \in Names, alias'[d, n] # 0
               PROVE  user'[n] # None /\ user'[n].id = alias'[d, n]
      BY DEF AliasesAreLive
  <2>1. CASE NewAlias(t, <<d, n>>)
        BY <1>1, <1>9, <2>1 DEF NewAlias
  <2>2. CASE ~NewAlias(t, <<d, n>>)
        BY <1>1, <1>5, <2>2 DEF ProvisioningInv, AliasesAreLive
  <2> QED BY <2>1, <2>2
<1>11. user' \in [Names -> Row \cup {None}]
       BY <1>1, Typed
<1>12. policies' \subseteq Policy
       BY <1>1, Typed, WrittenRows DEF NewPolicies, Policy, Row
<1>13. alias' \in [Devices \X Names -> 0..MaxIds]
  <2>1. \A n \in Names : user'[n] # None => user'[n].id \in 0..MaxIds
        BY <1>11, Bounds DEF Row
  <2>2. \A dn \in Devices \X Names : NewAlias(t, dn) => LinkedId(t, dn[2]) \in 0..MaxIds
        BY <1>9, <2>1 DEF NewAlias
  <2> QED BY <1>1, <2>2, Typed
<1>14. IdsKept(t)
       BY <1>4 DEF IdsKept
<1> QED BY <1>1, <1>3, <1>6, <1>7, <1>8, <1>10, <1>11, <1>12, <1>13, <1>14, CommitLeavesOthers

LEMMA ProvisioningNext == ProvisioningInv /\ [Next]_vars => ProvisioningInv'
<1> SUFFICES ASSUME ProvisioningInv, [Next]_vars PROVE ProvisioningInv'
    OBVIOUS
<1>1. ASSUME NEW t \in Requests, Step(t) PROVE ProvisioningInv'
  <2>1. CASE Begin(t)
        BY <2>1, BeginKeeps
  <2>2. CASE LookUpAlias(t)
        BY <2>2, LookUpAliasKeeps
  <2>3. CASE SelectUser(t)
        BY <2>3, SelectUserKeeps
  <2>4. CASE Granted(t)
        BY <2>4, InsertUserKeeps, LockUserKeeps, LinkAliasKeeps DEF Granted
  <2>5. CASE Commit(t)
        BY <2>5, DeleteCommitKeeps, WriteCommitKeeps
  <2>6. CASE ResolveDeadlock(t)
        BY <2>6, AbortKeeps DEF ResolveDeadlock
  <2> QED BY <1>1, <2>1, <2>2, <2>3, <2>4, <2>5, <2>6 DEF Step
<1>2. CASE UNCHANGED vars
  <2>0. /\ user' = user /\ policies' = policies /\ alias' = alias /\ pc' = pc /\ at' = at
        /\ seen' = seen /\ locks' = locks /\ shares' = shares /\ rows' = rows /\ links' = links
        /\ failures' = failures
        BY <1>2 DEF vars, tables
  <2>1. TypeOK'
        BY <2>0 DEF ProvisioningInv, TypeOK
  <2>2. \A t \in Requests, n \in Names : HoldsUser(t, n)' /\ WritesNext(t, n)' /\ WritesFirst(t, n)'
        BY <2>0 DEF ProvisioningInv, HoldsUser, WritesNext, WritesFirst, Inserting
  <2>3. \A t \in Requests : LinksHeld(t)' /\ HoldsEarlier(t)'
        BY <2>0 DEF ProvisioningInv, LinksHeld, HoldsEarlier, Name
  <2> QED BY <2>0, <2>1, <2>2, <2>3 DEF ProvisioningInv, IdsDiffer, PoliciesBelong,
                                        CurrentIsLatest, AliasesAreLive, NobodyClashes
<1> QED BY <1>1, <1>2 DEF Next, Finished

LEMMA ProvisioningHolds == Spec => []ProvisioningInv
BY ProvisioningInit, ProvisioningNext, PTL DEF Spec

-----------------------------------------------------------------------------
\* Every variable keeps its type: ids and versions that are written are ids and versions.
THEOREM TypeCorrect == Spec => []TypeOK
<1>1. ProvisioningInv => TypeOK
      BY DEF ProvisioningInv
<1> QED BY <1>1, ProvisioningHolds, PTL

\* update_policy inserts version + 1 and repoints current_policy_id under the row's lock,
\* which reads the row again: versions have no gaps, and the current one is the latest.
THEOREM VersionsAreUnbroken == Spec => []CurrentIsLatest
<1>1. ProvisioningInv => CurrentIsLatest
      BY DEF ProvisioningInv
<1> QED BY <1>1, ProvisioningHolds, PTL

\* get_or_create_policy and update_policy serialize on the user's row: no version is
\* written twice, so nobody runs into uq_policies_user_version.
THEOREM EditsSerialize == Spec => []NobodyClashes
<1>1. ProvisioningInv => NobodyClashes
      BY DEF ProvisioningInv
<1> QED BY <1>1, ProvisioningHolds, PTL

\* ON DELETE CASCADE, and the foreign key's lock on the user while an alias is inserted:
\* an alias stands for the user that has its name now.
THEOREM AliasesFollowUsers == Spec => []AliasesAreLive
<1>1. ProvisioningInv => AliasesAreLive
      BY DEF ProvisioningInv
<1> QED BY <1>1, ProvisioningHolds, PTL

\* Whoever inserts an alias has the user's row already, so nobody waits there.
LEMMA LinkingNeverWaits ==
    ASSUME ProvisioningInv, NEW t \in Requests, pc[t] = "link" PROVE Blockers(t) = {}
<1> SUFFICES ASSUME NEW u \in Others(t), Name(t) \in locks[u] PROVE FALSE
    BY DEF Blockers
<1>1. Name(t) \in Names /\ (Name(t) \in locks[t] \/ rows[t][Name(t)] # None)
      BY Typed DEF ProvisioningInv, LinksHeld
<1>2. HoldsUser(t, Name(t)) /\ WritesFirst(t, Name(t)) /\ HoldsUser(u, Name(t))
      BY <1>1 DEF ProvisioningInv, Others
<1> QED BY <1>1, <1>2 DEF HoldsUser, WritesFirst, Inserting, Others

\* What somebody waits for is held by a request that has come to that user.
LEMMA BlockerHolds ==
    ASSUME ProvisioningInv, NEW t \in Requests, NEW u \in Blockers(t)
    PROVE  u \in Requests /\ (Name(t) \in locks[u] \cup shares[u] \/ rows[u][Name(t)] # None)
<1>1. CASE pc[t] = "insert"
      BY <1>1 DEF Blockers, Others, Inserting
<1>2. CASE pc[t] = "lock"
      BY <1>2 DEF Blockers, Others
<1>3. CASE pc[t] = "link"
      BY <1>3 DEF Blockers, Others
<1>4. CASE pc[t] \notin {"insert", "lock", "link"}
      BY <1>4 DEF Blockers
<1> QED BY <1>1, <1>2, <1>3, <1>4

\* A request that waits, and waits for one that waits: the other is further on.
LEMMA WaitsForLater ==
    ASSUME ProvisioningInv, NEW S \in SUBSET Requests, NEW t \in S, NEW u \in S,
           u \in Blockers(t), Blockers(u) # {},
           NEW rank \in [Names -> 1..Cardinality(Names)],
           \A v \in S : \A i, j \in DOMAIN Job[v].names :
               i < j => rank[Job[v].names[i]] < rank[Job[v].names[j]]
    PROVE  rank[Name(t)] < rank[Name(u)]
<1>1. Name(t) \in Names /\ (Name(t) \in locks[u] \cup shares[u] \/ rows[u][Name(t)] # None)
      BY BlockerHolds, Typed
<1>2. pc[u] \in {"insert", "lock"}
      BY LinkingNeverWaits DEF Blockers
<1>3. PICK i \in Indices(u) : Job[u].names[i] = Name(t) /\ i < at[u]
      BY <1>1, <1>2 DEF ProvisioningInv, HoldsEarlier
<1>4. DOMAIN Job[u].names = Indices(u) /\ at[u] \in Indices(u)
      BY Jobs, Typed DEF Indices
<1> QED BY <1>3, <1>4 DEF Name

\* The rows are locked user by user (provision_user_alias): as long as the requests list
\* users in one common order, whoever is furthest in it waits for nobody.
THEOREM OneOrderNeverDeadlocks == Spec => []DeadlocksAreCrossings
<1>1. ASSUME ProvisioningInv PROVE DeadlocksAreCrossings
  <2> SUFFICES ASSUME NEW S \in SUBSET Requests, Deadlocked(S), InOneOrder(S) PROVE FALSE
      BY DEF DeadlocksAreCrossings
  <2>1. PICK rank \in [Names -> 1..Cardinality(Names)] :
            \A v \in S : \A i, j \in DOMAIN Job[v].names :
                i < j => rank[Job[v].names[i]] < rank[Job[v].names[j]]
        BY DEF InOneOrder
  <2>2. Cardinality(Names) \in Nat
        BY ProvisioningAssumption, FS_CardinalityType
  <2> DEFINE Ranks == {rank[Name(t)] : t \in S}
  <2>3. Ranks \subseteq 1..Cardinality(Names) /\ Ranks # {}
        BY <1>1, Typed DEF Deadlocked
  <2>4. PICK x \in Ranks : \A y \in Ranks : y <= x
        BY <2>2, <2>3, Greatest
  <2>5. PICK t \in S : x = rank[Name(t)]
        OBVIOUS
  <2>6. PICK u \in S : u \in Blockers(t)
        BY DEF Deadlocked
  <2>7. Blockers(u) # {}
        BY DEF Deadlocked
  <2>8. rank[Name(t)] < rank[Name(u)]
        BY <1>1, <2>1, <2>6, <2>7, WaitsForLater
  <2>9. rank[Name(u)] <= rank[Name(t)]
        BY <2>4, <2>5
  <2>10. rank[Name(t)] \in Int /\ rank[Name(u)] \in Int
        BY <1>1, Typed
  <2> QED BY <2>8, <2>9, <2>10
<1> QED BY <1>1, ProvisioningHolds, PTL
=============================================================================
