------------------------- MODULE AdminAccountsProofs -------------------------
(***************************************************************************)
(* For any number of browsers, addresses, invites, accounts and sessions:  *)
(* invites make one account each, and a session that does not know the     *)
(* present password of its account was opened across the change of it.     *)
(***************************************************************************)
EXTENDS AdminAccounts, FiniteSetTheorems, TLAPS

Tx == [id: 0..MaxAccounts, email: Emails \cup {None}, password: 0..MaxChanges,
       invites: SUBSET Invites, doomed: SUBSET Sids]

Steps == {"idle", "hashing", "joining", "opening", "authed", "counted",
          "deleting", "changing"}

\* A request that makes an account knows the address, and one that has looked at an
\* account, or is making one, knows its id.
KnowsWhom(b) ==
    /\ pc[b] \in {"hashing", "joining"} => tx[b].email \in Emails
    /\ pc[b] \in {"joining", "opening", "authed", "counted", "deleting", "changing"} =>
         tx[b].id \in Ids

\* Nobody else has written an invite that a request has, and a claimed one stays open until
\* the claim commits.
HoldsInvites(b) ==
    /\ tx[b].invites # {} => pc[b] \in {"hashing", "joining", "deleting"}
    /\ \A i \in tx[b].invites :
         /\ pc[b] # "deleting" => invite[i] = "open"
         /\ \A c \in Browsers : i \in tx[c].invites => c = b

\* An account about to appear is not there yet, and nobody else makes the same.
HoldsId(b) ==
    pc[b] = "joining" =>
        /\ account[tx[b].id] = None
        /\ \A c \in Browsers : pc[c] = "joining" /\ tx[c].id = tx[b].id => c = b

\* A password change knows every session of the account: those it deletes, the one it
\* keeps, and those a login opens meanwhile.
CoversSessions(b) ==
    pc[b] = "changing" =>
        \A s \in Sids : session[s] # None /\ session[s].admin = tx[b].id =>
            s \in tx[b].doomed \/ s = cookie[b] \/ session[s].late

\* A password change and a deletion hold the row of their account.
Locking(b) == pc[b] \in {"deleting", "changing"}

HoldsAccount(b) ==
    Locking(b) =>
        /\ account[tx[b].id] # None
        /\ \A c \in Browsers : Locking(c) /\ tx[c].id = tx[b].id => c = b

Holds(b) ==
    /\ KnowsWhom(b) /\ HoldsInvites(b) /\ HoldsId(b)
    /\ HoldsAccount(b) /\ CoversSessions(b)

AccountsInv ==
    /\ TypeOK
    /\ \A b \in Browsers : Holds(b)
    /\ InviteIsOneAdmin
    /\ SessionsKnowThePassword

-----------------------------------------------------------------------------
LEMMA Bounds ==
    /\ MaxAccounts \in Nat /\ MaxSessions \in Nat /\ MaxChanges \in Nat
    /\ 0 \in 0..MaxAccounts /\ 0 \in 0..MaxSessions /\ 0 \in 0..MaxChanges
<1>1. MaxAccounts \in Nat /\ MaxSessions \in Nat /\ MaxChanges \in Nat
      BY AdminAccountsAssumption
<1> QED BY <1>1

LEMMA NoneIsNothing == None \notin Invites /\ None \notin Account /\ None \notin Session
BY AdminAccountsAssumption

LEMMA EmptyTx == NoTx \in Tx /\ NoTx.invites = {}
BY Bounds DEF NoTx, Tx

LEMMA Typed ==
    ASSUME AccountsInv
    PROVE  /\ tx \in [Browsers -> Tx] /\ (\A b \in Browsers : tx[b] \in Tx)
           /\ pc \in [Browsers -> Steps]
           /\ account \in [Ids -> {None} \cup Account] /\ session \in [Sids -> {None} \cup Session]
           /\ invite \in [Invites -> {"unknown", "open", "used", "expired"}]
           /\ creator \in [Invites -> 0..MaxAccounts]
           /\ cookie \in [Browsers -> 0..MaxSessions] /\ changes \in 0..MaxChanges
           /\ made \in [Invites -> Nat]
BY DEF AccountsInv, TypeOK, Tx, Steps

LEMMA AccountsInit == Init => AccountsInv
<1> SUFFICES ASSUME Init PROVE AccountsInv
    OBVIOUS
<1>1. TypeOK
      BY EmptyTx, Bounds DEF Init, TypeOK, Tx
<1>2. \A b \in Browsers : Holds(b)
      BY EmptyTx DEF Init, Holds, KnowsWhom, HoldsInvites, HoldsId, HoldsAccount, Locking, CoversSessions
<1> QED BY <1>1, <1>2 DEF Init, AccountsInv, InviteIsOneAdmin, SessionsKnowThePassword
-----------------------------------------------------------------------------
\* A request moves on without having written anything: what it holds afterwards is enough.
LEMMA MovesOn ==
    ASSUME AccountsInv, NEW b \in Browsers, NEW p \in Steps, NEW t \in Tx,
           UNCHANGED <<tables, cookie, made>>, changes' \in 0..MaxChanges,
           pc' = [pc EXCEPT ![b] = p], tx' = [tx EXCEPT ![b] = t],
           Holds(b)'
    PROVE  AccountsInv'
<1>1. /\ pc'[b] = p /\ tx'[b] = t /\ tx' \in [Browsers -> Tx] /\ pc' \in [Browsers -> Steps]
      /\ \A c \in Browsers \ {b} : pc'[c] = pc[c] /\ tx'[c] = tx[c]
      BY Typed
<1>2. \A c \in Browsers : Holds(c)'
  <2> SUFFICES ASSUME NEW c \in Browsers, c # b PROVE Holds(c)'
      OBVIOUS
  <2>0. Holds(c)
        BY DEF AccountsInv
  <2>1. KnowsWhom(c)'
        BY <1>1, <2>0 DEF Holds, KnowsWhom
  <2>2. HoldsInvites(c)'
        BY <1>1, <2>0 DEF Holds, HoldsInvites, tables
  <2>3. HoldsId(c)'
        BY <1>1, <2>0 DEF Holds, HoldsId, tables
  <2>4. HoldsAccount(c)'
        BY <1>1, <2>0 DEF Holds, HoldsAccount, Locking, tables
  <2>5. CoversSessions(c)'
        BY <1>1, <2>0 DEF Holds, CoversSessions, tables
  <2> QED BY <2>1, <2>2, <2>3, <2>4, <2>5 DEF Holds
<1>3. TypeOK'
      BY <1>1, <1>2, Typed DEF TypeOK, Tx, Steps, tables, Holds, HoldsAccount, Locking
<1> QED BY <1>2, <1>3 DEF AccountsInv, InviteIsOneAdmin, SessionsKnowThePassword, tables, Admins

\* An answer with nothing written.
LEMMA FailKeeps == ASSUME AccountsInv, NEW b \in Browsers, Fail(b) PROVE AccountsInv'
<1>1. pc' = [pc EXCEPT ![b] = "idle"] /\ tx' = [tx EXCEPT ![b] = NoTx]
      /\ UNCHANGED <<tables, cookie, made>> /\ changes' \in 0..MaxChanges
      BY Typed DEF Fail, Goto
<1>2. pc'[b] = "idle" /\ tx'[b] = NoTx
      BY <1>1, Typed
<1>3. Holds(b)'
      BY <1>2, EmptyTx DEF Holds, KnowsWhom, HoldsInvites, HoldsId, HoldsAccount, Locking, CoversSessions
<1> QED BY <1>1, <1>3, MovesOn, EmptyTx DEF Steps

\* A request that is idle has nothing in its transaction that the next one could inherit.
LEMMA BeginKeeps ==
    ASSUME AccountsInv, NEW b \in Browsers, pc[b] = "idle",
           UNCHANGED <<tables, cookie, changes, made>>
    PROVE  /\ \A e \in Emails : SetupOpen /\ Goto(b, "hashing") /\ tx' = [tx EXCEPT ![b].email = e]
                                => AccountsInv'
           /\ \A e \in Emails, i \in Invites :
                 /\ Claimable(i) /\ Goto(b, "hashing")
                 /\ tx' = [tx EXCEPT ![b].email = e, ![b].invites = {i}]
                 => AccountsInv'
           /\ \A a \in Ids :
                 /\ a \in Admins /\ Goto(b, "opening")
                 /\ tx' = [tx EXCEPT ![b].id = a, ![b].password = account[a].password]
                 => AccountsInv'
           /\ \A a \in Ids : Goto(b, "authed") /\ tx' = [tx EXCEPT ![b].id = a] => AccountsInv'
<1>1. Holds(b) /\ tx[b] \in Tx /\ changes' \in 0..MaxChanges
      BY Typed DEF AccountsInv
<1>2. tx[b].invites = {}
      BY <1>1 DEF Holds, HoldsInvites
<1>3. ASSUME NEW e \in Emails, SetupOpen, Goto(b, "hashing"), tx' = [tx EXCEPT ![b].email = e]
      PROVE  AccountsInv'
  <2> DEFINE t == [tx[b] EXCEPT !.email = e]
  <2>1. t \in Tx /\ t.invites = {} /\ t.email = e
        BY <1>1, <1>2 DEF Tx
  <2>2. pc' = [pc EXCEPT ![b] = "hashing"] /\ tx' = [tx EXCEPT ![b] = t]
        BY <1>3 DEF Goto
  <2> HIDE DEF t
  <2>3. pc'[b] = "hashing" /\ tx'[b] = t
        BY <2>2, Typed
  <2>4. Holds(b)'
        BY <1>3, <2>1, <2>3 DEF Holds, KnowsWhom, HoldsInvites, HoldsId, HoldsAccount, Locking,
                                CoversSessions, SetupOpen, Admins, tables
  <2> QED BY <1>1, <2>1, <2>2, <2>4, MovesOn DEF Steps
<1>4. ASSUME NEW e \in Emails, NEW i \in Invites, Claimable(i), Goto(b, "hashing"),
             tx' = [tx EXCEPT ![b].email = e, ![b].invites = {i}]
      PROVE  AccountsInv'
  <2> DEFINE t == [tx[b] EXCEPT !.email = e, !.invites = {i}]
  <2>1. t \in Tx /\ t.invites = {i} /\ t.email = e
        BY <1>1 DEF Tx
  <2>2. pc' = [pc EXCEPT ![b] = "hashing"] /\ tx' = [tx EXCEPT ![b] = t]
        BY <1>4 DEF Goto
  <2> HIDE DEF t
  <2>3. pc'[b] = "hashing" /\ tx'[b] = t /\ \A c \in Browsers \ {b} : tx'[c] = tx[c]
        BY <2>2, Typed
  <2>4. HoldsInvites(b)'
    <3>1. /\ tx'[b].invites = {i} /\ pc'[b] = "hashing" /\ invite'[i] = "open"
          /\ \A c \in Browsers : i \in tx'[c].invites => c = b
          BY <1>4, <2>1, <2>3 DEF Claimable, tables
    <3> QED BY <3>1 DEF HoldsInvites
  <2>5. Holds(b)'
        BY <2>1, <2>3, <2>4 DEF Holds, KnowsWhom, HoldsId, HoldsAccount, Locking, CoversSessions
  <2> QED BY <1>1, <2>1, <2>2, <2>5, MovesOn DEF Steps
<1>5. ASSUME NEW a \in Ids, NEW q \in 0..MaxChanges, NEW p \in {"opening", "authed"}, Goto(b, p),
             tx' = [tx EXCEPT ![b] = [tx[b] EXCEPT !.id = a, !.password = q]]
      PROVE  AccountsInv'
  <2> DEFINE t == [tx[b] EXCEPT !.id = a, !.password = q]
  <2>1. t \in Tx /\ t.invites = {} /\ t.id = a
    <3>1. a \in 0..MaxAccounts
          BY Bounds DEF Ids
    <3> QED BY <1>1, <1>2, <3>1 DEF Tx
  <2>2. pc' = [pc EXCEPT ![b] = p] /\ tx' = [tx EXCEPT ![b] = t]
        BY <1>5 DEF Goto
  <2> HIDE DEF t
  <2>3. pc'[b] = p /\ tx'[b] = t
        BY <2>2, Typed
  <2>4. Holds(b)'
        BY <2>1, <2>3 DEF Holds, KnowsWhom, HoldsInvites, HoldsId, HoldsAccount, Locking, CoversSessions
  <2> QED BY <1>1, <2>1, <2>2, <2>4, MovesOn DEF Steps
<1>6. ASSUME NEW a \in Ids, a \in Admins PROVE account[a].password \in 0..MaxChanges
      BY <1>6, Typed DEF Admins, Account
<1>7. \A a : [tx[b] EXCEPT !.id = a] = [tx[b] EXCEPT !.id = a, !.password = tx[b].password]
      /\ tx[b].password \in 0..MaxChanges
      BY <1>1 DEF Tx
<1>8. ASSUME NEW a \in Ids, a \in Admins, Goto(b, "opening"),
             tx' = [tx EXCEPT ![b].id = a, ![b].password = account[a].password]
      PROVE  AccountsInv'
  <2>1. account[a].password \in 0..MaxChanges
        BY <1>6, <1>8
  <2>2. tx' = [tx EXCEPT ![b] = [tx[b] EXCEPT !.id = a, !.password = account[a].password]]
        BY <1>8, Typed
  <2> QED BY <1>5, <1>8, <2>1, <2>2
<1>9. ASSUME NEW a \in Ids, Goto(b, "authed"), tx' = [tx EXCEPT ![b].id = a]
      PROVE  AccountsInv'
  <2>1. tx' = [tx EXCEPT ![b] = [tx[b] EXCEPT !.id = a, !.password = tx[b].password]]
        BY <1>7, <1>9
  <2> QED BY <1>5, <1>7, <1>9, <2>1
<1> QED BY <1>3, <1>4, <1>8, <1>9

LEMMA StartsKeep ==
    ASSUME AccountsInv, NEW b \in Browsers,
           \/ \E e \in Emails : Setup(b, e)
           \/ \E i \in Invites, e \in Emails : Redeem(b, i, e)
           \/ \E a \in Ids : Login(b, a)
           \/ Authenticate(b)
    PROVE  AccountsInv'
<1>1. ASSUME NEW e \in Emails, Setup(b, e) PROVE AccountsInv'
      BY <1>1, BeginKeeps DEF Setup, SignedOut
<1>2. ASSUME NEW i \in Invites, NEW e \in Emails, Redeem(b, i, e) PROVE AccountsInv'
      BY <1>2, BeginKeeps DEF Redeem, SignedOut
<1>3. ASSUME NEW a \in Ids, Login(b, a) PROVE AccountsInv'
      BY <1>3, BeginKeeps DEF Login, SignedOut
<1>4. ASSUME Authenticate(b) PROVE AccountsInv'
  <2>1. session[cookie[b]].admin \in Ids
        BY <1>4 DEF Authenticate, Authentic, Admins
  <2> QED BY <1>4, <2>1, BeginKeeps DEF Authenticate
<1> QED BY <1>1, <1>2, <1>3, <1>4

\* The new account's id is nobody else's, and the invite stays claimed.
LEMMA InsertAdminKeeps ==
    ASSUME AccountsInv, NEW b \in Browsers, InsertAdmin(b) \/ DuplicateEmail(b)
    PROVE  AccountsInv'
<1>1. CASE DuplicateEmail(b)
      BY <1>1, FailKeeps DEF DuplicateEmail
<1>2. CASE InsertAdmin(b)
  <2>1. PICK a \in FreshId : tx' = [tx EXCEPT ![b].id = a]
        BY <1>2 DEF InsertAdmin
  <2> DEFINE t == [tx[b] EXCEPT !.id = a]
  <2>2. a \in Ids /\ a \in 0..MaxAccounts /\ tx[b] \in Tx /\ Holds(b)
        BY Typed, Bounds DEF FreshId, Ids, AccountsInv
  <2>3. t \in Tx /\ t.id = a /\ t.invites = tx[b].invites
        /\ t.email = tx[b].email
        BY <2>2 DEF Tx
  <2>4. pc' = [pc EXCEPT ![b] = "joining"] /\ tx' = [tx EXCEPT ![b] = t]
        BY <1>2, <2>1 DEF InsertAdmin, Goto
  <2> HIDE DEF t
  <2>5. pc'[b] = "joining" /\ tx'[b] = t /\ pc[b] = "hashing"
        /\ \A c \in Browsers \ {b} : tx'[c] = tx[c] /\ pc'[c] = pc[c]
        BY <1>2, <2>4, Typed DEF InsertAdmin
  <2>6. UNCHANGED <<tables, cookie, changes, made>> /\ changes' \in 0..MaxChanges
        BY <1>2, Typed DEF InsertAdmin
  <2>7. HoldsId(b)'
        BY <2>2, <2>3, <2>5, <2>6 DEF HoldsId, FreshId, tables
  <2>8. HoldsInvites(b)'
        BY <2>2, <2>3, <2>5, <2>6 DEF Holds, HoldsInvites, tables
  <2>10. Holds(b)'
        BY <2>2, <2>3, <2>5, <2>7, <2>8 DEF Holds, KnowsWhom, HoldsAccount, Locking, CoversSessions
  <2> QED BY <2>3, <2>4, <2>6, <2>10, MovesOn DEF Steps
<1> QED BY <1>1, <1>2

LEMMA CountAdminsKeeps ==
    ASSUME AccountsInv, NEW b \in Browsers, NEW a \in Ids, CountAdmins(b, a)
    PROVE  AccountsInv'
<1>1. CASE ~MayDelete
      BY <1>1, FailKeeps DEF CountAdmins
<1>2. CASE MayDelete
  <2> DEFINE t == [tx[b] EXCEPT !.id = a]
  <2>1. a \in 0..MaxAccounts /\ tx[b] \in Tx /\ Holds(b) /\ pc[b] = "authed"
        BY Typed, Bounds DEF Ids, AccountsInv, CountAdmins
  <2>2. tx[b].invites = {}
        BY <2>1 DEF Holds, HoldsInvites
  <2>3. t \in Tx /\ t.id = a /\ t.invites = {}
        BY <2>1, <2>2 DEF Tx
  <2>4. pc' = [pc EXCEPT ![b] = "counted"] /\ tx' = [tx EXCEPT ![b] = t]
        BY <1>2, <2>1 DEF CountAdmins, Goto
  <2> HIDE DEF t
  <2>5. pc'[b] = "counted" /\ tx'[b] = t
        BY <2>4, Typed
  <2>6. UNCHANGED <<tables, cookie, changes, made>> /\ changes' \in 0..MaxChanges
        BY <1>2, Typed DEF CountAdmins
  <2>8. Holds(b)'
        BY <2>3, <2>5 DEF Holds, KnowsWhom, HoldsInvites, HoldsId, HoldsAccount, Locking, CoversSessions
  <2> QED BY <2>3, <2>4, <2>6, <2>8, MovesOn DEF Steps
<1> QED BY <1>1, <1>2

\* The UPDATE takes the row, and the query that follows sees every session there is.
LEMMA ChangePasswordKeeps ==
    ASSUME AccountsInv, NEW b \in Browsers, ChangePassword(b)
    PROVE  AccountsInv'
<1>1. CASE tx[b].id \notin Admins
      BY <1>1, FailKeeps DEF ChangePassword
<1>2. CASE tx[b].id \in Admins
  <2> DEFINE t == [tx[b] EXCEPT !.password = changes + 1, !.doomed = Doomed(b)]
  <2>1. changes + 1 \in 0..MaxChanges
    <3>1. changes \in 0..MaxChanges /\ changes < MaxChanges
          BY Typed DEF ChangePassword
    <3> QED BY <3>1, Bounds
  <2>2. tx[b] \in Tx /\ Holds(b) /\ pc[b] = "authed" /\ Doomed(b) \in SUBSET Sids
        BY Typed DEF AccountsInv, ChangePassword, Doomed
  <2>3. tx[b].invites = {} /\ tx[b].id \in Ids /\ account[tx[b].id] # None
        BY <1>2, <2>2 DEF Holds, HoldsInvites, KnowsWhom, Admins
  <2>4. t \in Tx /\ t.id = tx[b].id /\ t.invites = {} /\ t.doomed = Doomed(b)
    <3> HIDE DEF Doomed
    <3> DEFINE q == changes + 1
    <3>1. q \in 0..MaxChanges
          BY <2>1
    <3> HIDE DEF q
    <3>2. [tx[b] EXCEPT !.password = q, !.doomed = Doomed(b)] \in Tx
          /\ [tx[b] EXCEPT !.password = q, !.doomed = Doomed(b)].id = tx[b].id
          /\ [tx[b] EXCEPT !.password = q, !.doomed = Doomed(b)].invites = {}
          /\ [tx[b] EXCEPT !.password = q, !.doomed = Doomed(b)].doomed = Doomed(b)
          BY <2>2, <2>3, <3>1 DEF Tx
    <3> QED BY <3>2 DEF q
  <2>5. pc' = [pc EXCEPT ![b] = "changing"]
        /\ tx' = [tx EXCEPT ![b].password = changes + 1, ![b].doomed = Doomed(b)]
        BY <1>2 DEF ChangePassword, Goto
  <2>6. tx' = [tx EXCEPT ![b] = t]
        BY <2>5, Typed
  <2> HIDE DEF t
  <2>7. pc'[b] = "changing" /\ tx'[b] = t
        /\ \A c \in Browsers \ {b} : tx'[c] = tx[c] /\ pc'[c] = pc[c]
        BY <2>5, <2>6, Typed
  <2>8. UNCHANGED <<tables, cookie, made>> /\ changes' \in 0..MaxChanges
        /\ ~Changing(tx[b].id) /\ ~Deleting(tx[b].id)
        BY <1>2, <2>1 DEF ChangePassword
  <2>9. HoldsAccount(b)'
        BY <2>3, <2>4, <2>7, <2>8 DEF HoldsAccount, Locking, Changing, Deleting, tables
  <2>10. CoversSessions(b)'
        BY <2>4, <2>7, <2>8 DEF CoversSessions, Doomed, tables
  <2>11. Holds(b)'
        BY <2>3, <2>4, <2>7, <2>9, <2>10 DEF Holds, KnowsWhom, HoldsInvites, HoldsId
  <2> QED BY <2>4, <2>5, <2>6, <2>8, <2>11, MovesOn DEF Steps
<1> QED BY <1>1, <1>2

-----------------------------------------------------------------------------
\* A request that has ended holds nothing.
LEMMA EndedHolds ==
    ASSUME NEW b \in Browsers, pc'[b] = "idle", tx'[b] = NoTx
    PROVE  Holds(b)'
BY EmptyTx DEF Holds, KnowsWhom, HoldsInvites, HoldsId, HoldsAccount, Locking, CoversSessions

LEMMA Ended ==
    ASSUME AccountsInv, NEW b \in Browsers, Finish(b)
    PROVE  /\ tx' \in [Browsers -> Tx] /\ pc' \in [Browsers -> Steps] /\ Holds(b)'
           /\ pc'[b] = "idle" /\ tx'[b] = NoTx
           /\ \A c \in Browsers \ {b} : pc'[c] = pc[c] /\ tx'[c] = tx[c]
<1>1. /\ tx' \in [Browsers -> Tx] /\ pc' \in [Browsers -> Steps]
      /\ pc'[b] = "idle" /\ tx'[b] = NoTx
      /\ \A c \in Browsers \ {b} : pc'[c] = pc[c] /\ tx'[c] = tx[c]
      BY Typed, EmptyTx DEF Finish, Goto, Steps
<1> QED BY <1>1, EndedHolds

\* One new row, under the lowest id that is free.
LEMMA OpenSessionRow ==
    ASSUME AccountsInv, NEW b \in Browsers, NEW a \in Ids, NEW q \in 0..MaxChanges,
           NEW late \in BOOLEAN, OpenSession(b, a, q, late)
    PROVE  /\ session' \in [Sids -> {None} \cup Session] /\ cookie' \in [Browsers -> 0..MaxSessions]
           /\ \A c \in Browsers \ {b} : cookie'[c] = cookie[c]
           /\ \E s \in Sids :
                /\ session'[s] # None /\ session'[s].admin = a /\ session'[s].password = q
                /\ session'[s].late = late
                /\ \A r \in Sids \ {s} : session'[r] = session[r]
<1> DEFINE new == [admin |-> a, password |-> q, late |-> late]
<1>1. PICK s \in Sids : session' = [session EXCEPT ![s] = new] /\ cookie' = [cookie EXCEPT ![b] = s]
      BY DEF OpenSession, FreshSid
<1>2. new \in Session /\ new # None /\ new.admin = a /\ new.password = q /\ new.late = late
      BY NoneIsNothing DEF Session
<1>3. s \in 0..MaxSessions
      BY Bounds DEF Sids
<1> HIDE DEF new
<1>4. session' \in [Sids -> {None} \cup Session] /\ session'[s] = new
      /\ \A r \in Sids \ {s} : session'[r] = session[r]
      BY <1>1, <1>2, Typed
<1>5. cookie' \in [Browsers -> 0..MaxSessions] /\ \A c \in Browsers \ {b} : cookie'[c] = cookie[c]
      BY <1>1, <1>3, Typed
<1> QED BY <1>2, <1>4, <1>5

\* Account, session and used invite appear together.
LEMMA JoinKeeps == ASSUME AccountsInv, NEW b \in Browsers, Join(b) PROVE AccountsInv'
<1> DEFINE a == tx[b].id
<1>1. /\ pc[b] = "joining" /\ Finish(b) /\ changes' = changes
      /\ account' = [account EXCEPT ![a] = [email |-> tx[b].email, password |-> 0]]
      /\ OpenSession(b, a, 0, FALSE)
      /\ invite' = [i \in Invites |-> IF i \in tx[b].invites THEN "used" ELSE invite[i]]
      /\ made' = [i \in Invites |-> made[i] + IF i \in tx[b].invites THEN 1 ELSE 0]
      /\ creator' = creator
      BY DEF Join
<1>2. Holds(b) /\ a \in Ids /\ account[a] = None /\ tx[b] \in Tx
      BY <1>1, Typed DEF AccountsInv, Holds, KnowsWhom, HoldsId
<1>3. account' \in [Ids -> {None} \cup Account] /\ account'[a] # None /\ account'[a].password = 0
      /\ \A d \in Ids \ {a} : account'[d] = account[d]
  <2> DEFINE new == [email |-> tx[b].email, password |-> 0]
  <2>1. tx[b].email \in Emails
        BY <1>1, <1>2 DEF Holds, KnowsWhom
  <2>2. new \in Account /\ new # None /\ new.password = 0
        BY <2>1, Bounds, NoneIsNothing DEF Account
  <2> HIDE DEF new
  <2>3. account' = [account EXCEPT ![a] = new]
        BY <1>1 DEF new
  <2> QED BY <1>2, <2>2, <2>3, Typed
<1> HIDE DEF a
<1>4. /\ session' \in [Sids -> {None} \cup Session] /\ cookie' \in [Browsers -> 0..MaxSessions]
      /\ \A c \in Browsers \ {b} : cookie'[c] = cookie[c]
      BY <1>1, <1>2, OpenSessionRow, Bounds
<1>5. PICK s \in Sids :
        /\ session'[s] # None /\ session'[s].admin = a /\ session'[s].password = 0
        /\ \A r \in Sids \ {s} : session'[r] = session[r]
  <2> DEFINE late == FALSE
  <2>1. late \in BOOLEAN /\ OpenSession(b, a, 0, late)
        BY <1>1
  <2> HIDE DEF late
  <2> QED BY <2>1, <1>2, OpenSessionRow, Bounds
<1>6. \A i \in tx[b].invites : i \in Invites /\ invite[i] = "open"
      BY <1>1, <1>2 DEF Holds, HoldsInvites, Tx
<1>7. invite' \in [Invites -> {"unknown", "open", "used", "expired"}]
      BY <1>1, Typed
<1>8. made' \in [Invites -> Nat]
  <2>1. \A i \in Invites : made[i] \in Nat
        BY Typed
  <2> QED BY <1>1, <2>1
<1>9. ASSUME NEW c \in Browsers, c # b PROVE Holds(c)'
  <2>0. Holds(c)
        BY DEF AccountsInv
  <2>1. pc'[c] = pc[c] /\ tx'[c] = tx[c]
        BY <1>1, <1>9, Ended
  <2>2. KnowsWhom(c)'
        BY <2>0, <2>1 DEF Holds, KnowsWhom
  <2>3. HoldsInvites(c)'
    <3>1. ASSUME NEW i \in tx[c].invites, pc[c] # "deleting" PROVE invite'[i] = "open"
      <4>1. i \in Invites /\ i \notin tx[b].invites /\ invite[i] = "open"
            BY <1>9, <2>0, <3>1, Typed DEF Holds, HoldsInvites, Tx
      <4> QED BY <1>1, <4>1
    <3>2. \A d \in Browsers : tx'[d].invites \subseteq tx[d].invites
          BY <1>1, Ended, EmptyTx
    <3> QED BY <2>0, <2>1, <3>1, <3>2 DEF Holds, HoldsInvites
  <2>4. HoldsId(c)'
    <3> SUFFICES ASSUME pc[c] = "joining" PROVE HoldsId(c)'
        BY <2>1 DEF HoldsId
    <3>1. tx[c].id \in Ids /\ tx[c].id # a /\ account[tx[c].id] = None
          BY <1>1, <1>9, <2>0 DEF Holds, HoldsId, KnowsWhom, a
    <3>2. account'[tx'[c].id] = None
          BY <1>3, <2>1, <3>1
    <3>3. \A d \in Browsers : pc'[d] = "joining" /\ tx'[d].id = tx'[c].id => d = c
          BY <1>1, <2>0, <2>1, Ended DEF Holds, HoldsId
    <3> QED BY <3>2, <3>3 DEF HoldsId
  <2>5. HoldsAccount(c)' /\ (pc[c] = "changing" => tx[c].id # a)
    <3> SUFFICES ASSUME Locking(c) PROVE HoldsAccount(c)' /\ tx[c].id # a
        BY <2>1 DEF HoldsAccount, Locking
    <3>1. tx[c].id \in Ids /\ tx[c].id # a /\ account[tx[c].id] # None
          BY <1>2, <2>0 DEF Holds, HoldsAccount, Locking, KnowsWhom, Locking, a
    <3>2. account'[tx'[c].id] # None
          BY <1>3, <2>1, <3>1
    <3>3. \A d \in Browsers : Locking(d)' /\ tx'[d].id = tx'[c].id => d = c
          BY <1>1, <2>0, <2>1, Ended DEF Holds, HoldsAccount, Locking
    <3> QED BY <3>1, <3>2, <3>3 DEF HoldsAccount, Locking
  <2>6. CoversSessions(c)'
        BY <1>4, <1>5, <1>9, <2>0, <2>1, <2>5 DEF Holds, CoversSessions
  <2> QED BY <2>1, <2>2, <2>3, <2>4, <2>5, <2>6 DEF Holds
<1>10. /\ tx' \in [Browsers -> Tx] /\ pc' \in [Browsers -> Steps] /\ Holds(b)'
       BY <1>1, Ended
<1>11. TypeOK'
       BY <1>1, <1>3, <1>4, <1>7, <1>8, <1>9, <1>10, Typed
       DEF TypeOK, Tx, Steps, Holds, HoldsAccount, Locking
<1>12. InviteIsOneAdmin'
  <2> SUFFICES ASSUME NEW i \in Invites PROVE made'[i] = IF invite'[i] = "used" THEN 1 ELSE 0
      BY DEF InviteIsOneAdmin
  <2>1. made[i] \in Nat /\ made[i] = IF invite[i] = "used" THEN 1 ELSE 0
        BY Typed DEF AccountsInv, InviteIsOneAdmin
  <2>2. CASE i \in tx[b].invites
        BY <1>1, <1>6, <2>1, <2>2
  <2>3. CASE i \notin tx[b].invites
        BY <1>1, <2>1, <2>3
  <2> QED BY <2>2, <2>3
<1>13. SessionsKnowThePassword'
  <2> SUFFICES ASSUME NEW r \in Sids, session'[r] # None
               PROVE  /\ session'[r].admin \in Admins'
                      /\ session'[r].late \/ session'[r].password = account'[session'[r].admin].password
      BY DEF SessionsKnowThePassword
  <2>1. CASE r = s
        BY <1>2, <1>3, <1>5, <2>1 DEF Admins
  <2>2. CASE r # s
    <3>1. session'[r] = session[r]
          BY <1>5, <2>2
    <3>2. session[r].admin \in Ids \ {a} /\ account[session[r].admin] # None
          /\ (session[r].late \/ session[r].password = account[session[r].admin].password)
          BY <1>2, <3>1 DEF AccountsInv, SessionsKnowThePassword, Admins, a
    <3> QED BY <1>3, <3>1, <3>2 DEF Admins
  <2> QED BY <2>1, <2>2
<1> QED BY <1>9, <1>10, <1>11, <1>12, <1>13 DEF AccountsInv

\* A login that crosses a change of the password opens a session that is late.
LEMMA FinishLoginKeeps ==
    ASSUME AccountsInv, NEW b \in Browsers, FinishLogin(b) PROVE AccountsInv'
<1> DEFINE a == tx[b].id
           late == Changing(a) \/ tx[b].password # account[a].password
<1>1. CASE a \notin Admins
      BY <1>1, FailKeeps DEF FinishLogin
<1>2. CASE a \in Admins
  <2>1. /\ pc[b] = "opening" /\ OpenSession(b, a, tx[b].password, late) /\ Finish(b)
        /\ UNCHANGED <<account, invite, creator, changes, made>>
        BY <1>2 DEF FinishLogin
  <2>2. a \in Ids /\ account[a] # None /\ tx[b].password \in 0..MaxChanges /\ late \in BOOLEAN
        BY <1>2, Typed DEF Admins, Tx
  <2>3. Changing(a) => late
        OBVIOUS
  <2>4. late \/ tx[b].password = account[a].password
        OBVIOUS
  <2> HIDE DEF a, late
  <2>5. /\ session' \in [Sids -> {None} \cup Session] /\ cookie' \in [Browsers -> 0..MaxSessions]
        /\ \A c \in Browsers \ {b} : cookie'[c] = cookie[c]
        BY <2>1, <2>2, OpenSessionRow
  <2>6. PICK s \in Sids :
          /\ session'[s] # None /\ session'[s].admin = a /\ session'[s].password = tx[b].password
          /\ session'[s].late = late
          /\ \A r \in Sids \ {s} : session'[r] = session[r]
        BY <2>1, <2>2, OpenSessionRow
  <2>7. /\ tx' \in [Browsers -> Tx] /\ pc' \in [Browsers -> Steps] /\ Holds(b)'
        /\ tx'[b] = NoTx /\ pc'[b] = "idle"
        /\ \A c \in Browsers \ {b} : pc'[c] = pc[c] /\ tx'[c] = tx[c]
        BY <2>1, Ended
  <2>8. ASSUME NEW c \in Browsers, c # b PROVE Holds(c)'
    <3>0. Holds(c) /\ pc'[c] = pc[c] /\ tx'[c] = tx[c]
          BY <2>7, <2>8 DEF AccountsInv
    <3>1. HoldsInvites(c)'
          BY <2>1, <2>7, <3>0, EmptyTx DEF Holds, HoldsInvites
    <3>2. HoldsId(c)'
          BY <2>1, <2>7, <3>0 DEF Holds, HoldsId
    <3>3. HoldsAccount(c)'
          BY <2>1, <2>7, <3>0 DEF Holds, HoldsAccount, Locking
    <3>4. CoversSessions(c)'
          BY <2>3, <2>5, <2>6, <2>8, <3>0 DEF Holds, CoversSessions, Changing
    <3> QED BY <3>0, <3>1, <3>2, <3>3, <3>4 DEF Holds, KnowsWhom
  <2>9. TypeOK'
        BY <2>1, <2>5, <2>7, <2>8, Typed DEF TypeOK, Tx, Steps, Holds, HoldsAccount, Locking
  <2>10. SessionsKnowThePassword'
    <3> SUFFICES ASSUME NEW r \in Sids, session'[r] # None
                 PROVE  /\ session'[r].admin \in Admins'
                        /\ session'[r].late \/ session'[r].password = account'[session'[r].admin].password
        BY DEF SessionsKnowThePassword
    <3>1. CASE r = s
          BY <2>1, <2>2, <2>4, <2>6, <3>1 DEF Admins
    <3>2. CASE r # s
          BY <2>1, <2>6, <3>2 DEF AccountsInv, SessionsKnowThePassword, Admins
    <3> QED BY <3>1, <3>2
  <2> QED BY <2>1, <2>7, <2>8, <2>9, <2>10 DEF AccountsInv, InviteIsOneAdmin
<1> QED BY <1>1, <1>2

\* A session that goes away takes nothing from anybody else's request.
LEMMA SessionGoesKeeps ==
    ASSUME AccountsInv, NEW s \in Sids, session' = [session EXCEPT ![s] = None],
           cookie' \in [Browsers -> 0..MaxSessions],
           \A c \in Browsers : pc[c] = "changing" => cookie'[c] = cookie[c] \/ cookie[c] = s,
           UNCHANGED <<account, invite, creator, pc, tx, changes, made>>
    PROVE  AccountsInv'
<1>1. session' \in [Sids -> {None} \cup Session] /\ session'[s] = None
      /\ \A r \in Sids \ {s} : session'[r] = session[r]
      BY Typed
<1>2. \A c \in Browsers : CoversSessions(c)'
      BY <1>1 DEF AccountsInv, Holds, CoversSessions
<1>3. \A c \in Browsers : Holds(c)'
      BY <1>2 DEF AccountsInv, Holds, KnowsWhom, HoldsInvites, HoldsId, HoldsAccount, Locking,
                  Admins
<1>4. TypeOK'
      BY <1>1 DEF AccountsInv, TypeOK
<1>5. SessionsKnowThePassword'
      BY <1>1 DEF AccountsInv, SessionsKnowThePassword, Admins
<1> QED BY <1>3, <1>4, <1>5 DEF AccountsInv, InviteIsOneAdmin

LEMMA LogoutKeeps == ASSUME AccountsInv, NEW b \in Browsers, Logout(b) PROVE AccountsInv'
<1>1. cookie[b] \in Sids
      BY Typed, Bounds DEF Logout, Sids
<1>2. cookie' \in [Browsers -> 0..MaxSessions]
      BY Typed, Bounds DEF Logout
<1>3. \A c \in Browsers : pc[c] = "changing" => cookie'[c] = cookie[c]
      BY Typed DEF Logout
<1> QED BY <1>1, <1>2, <1>3, SessionGoesKeeps DEF Logout

LEMMA ExpireSessionKeeps == ASSUME AccountsInv, NEW s \in Sids, ExpireSession(s) PROVE AccountsInv'
<1>1. cookie' \in [Browsers -> 0..MaxSessions]
      BY Typed, Bounds DEF ExpireSession
<1>2. \A c \in Browsers : cookie'[c] = cookie[c] \/ cookie[c] = s
      BY Typed DEF ExpireSession
<1> QED BY <1>1, <1>2, SessionGoesKeeps DEF ExpireSession

\* Nobody has claimed an invite that is not open yet, or that expires.
LEMMA InviteKeeps ==
    ASSUME AccountsInv, NEW i \in Invites, NEW x \in {"open", "expired"},
           invite[i] \in {"unknown", "open"},
           \A b \in Browsers : pc[b] # "deleting" => i \notin tx[b].invites,
           invite' = [invite EXCEPT ![i] = x], creator' \in [Invites -> 0..MaxAccounts],
           UNCHANGED <<account, session, cookie, changes, made>>,
           tx' \in [Browsers -> Tx], pc' \in [Browsers -> Steps],
           \A b \in Browsers : (pc'[b] = "idle" /\ tx'[b] = NoTx) \/ (pc'[b] = pc[b] /\ tx'[b] = tx[b])
    PROVE  AccountsInv'
<1>1. invite' \in [Invites -> {"unknown", "open", "used", "expired"}] /\ invite'[i] = x
      /\ \A j \in Invites \ {i} : invite'[j] = invite[j]
      BY Typed
<1>2. ASSUME NEW b \in Browsers PROVE Holds(b)'
  <2>1. CASE pc'[b] = "idle" /\ tx'[b] = NoTx
        BY <2>1, EndedHolds
  <2>2. CASE pc'[b] = pc[b] /\ tx'[b] = tx[b]
    <3>0. Holds(b) /\ tx[b] \in Tx
          BY Typed DEF AccountsInv
    <3>1. HoldsInvites(b)'
      <4>1. \A j \in tx[b].invites : pc[b] # "deleting" => j \in Invites \ {i} /\ invite'[j] = "open"
            BY <1>1, <3>0 DEF Holds, HoldsInvites, Tx
      <4>2. \A c \in Browsers : tx'[c].invites \subseteq tx[c].invites
            BY EmptyTx
      <4> QED BY <2>2, <3>0, <4>1, <4>2 DEF Holds, HoldsInvites
    <3>2. HoldsId(b)'
          BY <2>2, <3>0 DEF Holds, HoldsId
    <3>3. HoldsAccount(b)'
          BY <2>2, <3>0 DEF Holds, HoldsAccount, Locking
    <3>4. CoversSessions(b)' /\ KnowsWhom(b)'
          BY <2>2, <3>0 DEF Holds, CoversSessions, KnowsWhom
    <3> QED BY <3>1, <3>2, <3>3, <3>4 DEF Holds
  <2> QED BY <2>1, <2>2
<1>3. TypeOK'
      BY <1>1, <1>2, Typed DEF TypeOK, Tx, Steps, Holds, HoldsAccount, Locking
<1>4. InviteIsOneAdmin'
      BY <1>1 DEF AccountsInv, InviteIsOneAdmin
<1> QED BY <1>2, <1>3, <1>4 DEF AccountsInv, SessionsKnowThePassword, Admins

LEMMA MintInviteKeeps ==
    ASSUME AccountsInv, NEW b \in Browsers, NEW i \in Invites, MintInvite(b, i)
    PROVE  AccountsInv'
<1>1. CASE tx[b].id \notin Admins
      BY <1>1, FailKeeps DEF MintInvite
<1>2. CASE tx[b].id \in Admins
  <2>1. \A c \in Browsers : pc[c] # "deleting" => i \notin tx[c].invites
        BY <1>2 DEF MintInvite, AccountsInv, Holds, HoldsInvites
  <2>2. Finish(b) /\ invite' = [invite EXCEPT ![i] = "open"] /\ invite[i] = "unknown"
        /\ UNCHANGED <<account, session, cookie, changes, made>>
        BY <1>2 DEF MintInvite
  <2>3. tx' \in [Browsers -> Tx] /\ pc' \in [Browsers -> Steps]
        /\ \A c \in Browsers : (pc'[c] = "idle" /\ tx'[c] = NoTx) \/ (pc'[c] = pc[c] /\ tx'[c] = tx[c])
        BY <2>2, Ended
  <2>4. creator' \in [Invites -> 0..MaxAccounts]
    <3>1. creator' = [creator EXCEPT ![i] = tx[b].id] /\ tx[b].id \in 0..MaxAccounts
          BY <1>2, Typed DEF MintInvite, Tx
    <3> QED BY <3>1, Typed
  <2> QED BY <2>1, <2>2, <2>3, <2>4, InviteKeeps
<1> QED BY <1>1, <1>2

LEMMA ExpireInviteKeeps == ASSUME AccountsInv, NEW i \in Invites, ExpireInvite(i) PROVE AccountsInv'
<1>1. invite' = [invite EXCEPT ![i] = "expired"] /\ invite[i] = "open"
      /\ (\A b \in Browsers : i \notin tx[b].invites)
      /\ UNCHANGED <<account, session, creator, cookie, pc, tx, changes, made>>
      BY DEF ExpireInvite, Claimable
<1> QED BY <1>1, Typed, InviteKeeps

\* The DELETE takes the row.
LEMMA DeleteAdminKeeps ==
    ASSUME AccountsInv, NEW b \in Browsers, DeleteAdmin(b) PROVE AccountsInv'
<1>1. CASE tx[b].id \notin Admins
      BY <1>1, FailKeeps DEF DeleteAdmin
<1>2. CASE tx[b].id \in Admins
  <2>1. /\ pc' = [pc EXCEPT ![b] = "deleting"] /\ UNCHANGED <<tables, cookie, tx, changes, made>>
        /\ pc[b] = "counted" /\ ~Changing(tx[b].id) /\ ~Deleting(tx[b].id)
        BY <1>2 DEF DeleteAdmin, Deletable, Goto
  <2>2. tx[b] \in Tx /\ Holds(b) /\ tx' = [tx EXCEPT ![b] = tx[b]] /\ changes' \in 0..MaxChanges
        BY <2>1, Typed DEF AccountsInv
  <2>3. pc'[b] = "deleting" /\ \A c \in Browsers \ {b} : pc'[c] = pc[c]
        BY <2>1, Typed
  <2>4. HoldsAccount(b)'
        BY <1>2, <2>1, <2>3 DEF HoldsAccount, Locking, Changing, Deleting, Admins, tables
  <2>5. Holds(b)'
        BY <2>1, <2>2, <2>3, <2>4 DEF Holds, KnowsWhom, HoldsInvites, HoldsId, CoversSessions
  <2> QED BY <2>1, <2>2, <2>5, MovesOn DEF Steps
<1> QED BY <1>1, <1>2

\* SET NULL takes an invite that nobody has.
LEMMA ForgetCreatorKeeps ==
    ASSUME AccountsInv, NEW b \in Browsers, NEW i \in Invites, ForgetCreator(b, i)
    PROVE  AccountsInv'
<1> DEFINE t == [tx[b] EXCEPT !.invites = tx[b].invites \cup {i}]
<1>1. /\ UNCHANGED <<tables, cookie, pc, changes, made>> /\ changes' \in 0..MaxChanges
      /\ pc[b] = "deleting" /\ \A c \in Browsers : i \notin tx[c].invites
      /\ tx' = [tx EXCEPT ![b] = t] /\ pc' = [pc EXCEPT ![b] = "deleting"]
      /\ tx[b] \in Tx /\ Holds(b)
      BY Typed DEF ForgetCreator, AccountsInv
<1>2. /\ t \in Tx /\ t.invites = tx[b].invites \cup {i} /\ t.id = tx[b].id
      BY <1>1 DEF Tx
<1> HIDE DEF t
<1>3. tx'[b] = t /\ pc'[b] = "deleting"
      /\ \A c \in Browsers \ {b} : tx'[c] = tx[c] /\ pc'[c] = pc[c]
      BY <1>1, Typed
<1>4. HoldsInvites(b)'
      BY <1>1, <1>2, <1>3 DEF Holds, HoldsInvites
<1>5. HoldsAccount(b)'
      BY <1>1, <1>2, <1>3 DEF Holds, HoldsAccount, Locking, tables
<1>6. Holds(b)'
      BY <1>1, <1>2, <1>3, <1>4, <1>5 DEF Holds, KnowsWhom, HoldsId, CoversSessions
<1> QED BY <1>1, <1>2, <1>6, MovesOn DEF Steps

\* Sessions go with their account, and nobody else has its row.
LEMMA FinishDeleteKeeps ==
    ASSUME AccountsInv, NEW b \in Browsers, FinishDelete(b) PROVE AccountsInv'
<1> DEFINE a == tx[b].id
<1>1. /\ pc[b] = "deleting" /\ Finish(b)
      /\ account' = [account EXCEPT ![a] = None]
      /\ session' = [s \in Sids |-> IF session[s] # None /\ session[s].admin = a
                                    THEN None ELSE session[s]]
      /\ creator' = [i \in Invites |-> IF i \in tx[b].invites THEN 0 ELSE creator[i]]
      /\ UNCHANGED <<invite, cookie, changes, made>>
      BY DEF FinishDelete
<1>2. a \in Ids /\ Holds(b)
      BY <1>1 DEF AccountsInv, Holds, KnowsWhom
<1> HIDE DEF a
<1>3. account' \in [Ids -> {None} \cup Account] /\ account'[a] = None
      /\ \A d \in Ids \ {a} : account'[d] = account[d]
      BY <1>1, <1>2, Typed
<1>4. session' \in [Sids -> {None} \cup Session]
      /\ \A s \in Sids : session'[s] # None => session'[s] = session[s] /\ session[s].admin # a
      BY <1>1, Typed
<1>5. /\ tx' \in [Browsers -> Tx] /\ pc' \in [Browsers -> Steps] /\ Holds(b)'
      /\ tx'[b] = NoTx /\ pc'[b] = "idle"
      /\ \A c \in Browsers \ {b} : pc'[c] = pc[c] /\ tx'[c] = tx[c]
      BY <1>1, Ended
<1>6. ASSUME NEW c \in Browsers, c # b PROVE Holds(c)'
  <2>0. Holds(c) /\ pc'[c] = pc[c] /\ tx'[c] = tx[c]
        BY <1>5, <1>6 DEF AccountsInv
  <2>1. KnowsWhom(c)'
        BY <2>0 DEF Holds, KnowsWhom
  <2>2. HoldsInvites(c)'
        BY <1>1, <1>5, <2>0, EmptyTx DEF Holds, HoldsInvites
  <2>3. HoldsId(c)'
        BY <1>3, <1>5, <2>0 DEF Holds, HoldsId, KnowsWhom
  <2>4. HoldsAccount(c)'
    <3>1. Locking(c) => tx[c].id \in Ids \ {a}
          BY <1>1, <1>2, <1>6, <2>0 DEF Holds, HoldsAccount, Locking, KnowsWhom, a
    <3> QED BY <1>3, <1>5, <2>0, <3>1 DEF Holds, HoldsAccount, Locking
  <2>5. CoversSessions(c)'
        BY <1>1, <1>4, <2>0 DEF Holds, CoversSessions
  <2> QED BY <2>1, <2>2, <2>3, <2>4, <2>5 DEF Holds
<1>7. creator' \in [Invites -> 0..MaxAccounts]
      BY <1>1, Typed, Bounds
<1>8. TypeOK'
      BY <1>1, <1>3, <1>4, <1>5, <1>6, <1>7, Typed
      DEF TypeOK, Tx, Steps, Holds, HoldsAccount, Locking
<1>9. SessionsKnowThePassword'
      BY <1>3, <1>4 DEF AccountsInv, SessionsKnowThePassword, Admins
<1> QED BY <1>1, <1>5, <1>6, <1>8, <1>9 DEF AccountsInv, InviteIsOneAdmin

\* The commit of a new password: the sessions are gone, go back to it, or are late.
LEMMA FinishChangeKeeps ==
    ASSUME AccountsInv, NEW b \in Browsers, FinishChange(b) PROVE AccountsInv'
<1> DEFINE a == tx[b].id
           q == tx[b].password
<1>1. /\ pc[b] = "changing" /\ Finish(b)
      /\ account' = [account EXCEPT ![a] = [account[a] EXCEPT !.password = q]]
      /\ session' = SessionsAfterChange(b)
      /\ UNCHANGED <<invite, creator, cookie, changes, made>>
      BY DEF FinishChange
<1>2. Holds(b) /\ a \in Ids /\ account[a] \in Account /\ q \in 0..MaxChanges
      BY <1>1, Typed DEF AccountsInv, Holds, KnowsWhom, HoldsAccount, Locking, Tx
<1> HIDE DEF a, q
<1>3. /\ account' \in [Ids -> {None} \cup Account]
      /\ account'[a] # None /\ account'[a].password = q
      /\ \A d \in Ids \ {a} : account'[d] = account[d]
  <2> DEFINE new == [account[a] EXCEPT !.password = q]
  <2>1. new \in Account /\ new # None /\ new.password = q
        BY <1>2, NoneIsNothing DEF Account
  <2> HIDE DEF new
  <2>2. account' = [account EXCEPT ![a] = new]
        BY <1>1 DEF new
  <2> QED BY <1>2, <2>1, <2>2, Typed
<1>4. ASSUME NEW s \in Sids
      PROVE  /\ session'[s] \in {None} \cup Session
             /\ session'[s] # None =>
                  /\ session[s] # None /\ session'[s].admin = session[s].admin
                  /\ session'[s] = session[s] \/ (session[s].admin = a /\ session'[s].password = q)
                  /\ session[s].admin = a => session[s].late \/ session'[s].password = q
             /\ session'[s] # None /\ session[s].admin = a /\ session'[s].password # q
                  => session'[s].late
             /\ session[s] # None /\ session[s].admin # a => session'[s] = session[s] \/ session'[s] = None
  <2> DEFINE kept == [session[s] EXCEPT !.password = q, !.late = FALSE]
  <2>1. session[s] # None =>
          kept \in Session /\ kept # None /\ kept.admin = session[s].admin /\ kept.password = q
    <3> SUFFICES ASSUME session[s] # None
                 PROVE  /\ kept \in Session /\ kept # None
                        /\ kept.admin = session[s].admin /\ kept.password = q
        OBVIOUS
    <3>1. session[s] \in Session
          BY Typed
    <3>2. kept \in Session /\ kept.admin = session[s].admin /\ kept.password = q
          BY <1>2, <3>1 DEF Session
    <3> QED BY <3>2, NoneIsNothing
  <2>2. session'[s] = IF s \in tx[b].doomed THEN None
                      ELSE IF s = cookie[b] /\ session[s] # None /\ session[s].admin = a
                      THEN kept ELSE session[s]
        BY <1>1 DEF SessionsAfterChange, a, q
  <2> HIDE DEF kept
  <2>3. session[s] # None /\ session[s].admin = a =>
            s \in tx[b].doomed \/ s = cookie[b] \/ session[s].late
        BY <1>1, <1>2 DEF Holds, CoversSessions, a
  <2> QED BY <2>1, <2>2, <2>3, Typed
<1>5. session' \in [Sids -> {None} \cup Session]
  <2>1. \A s \in Sids : session'[s] \in {None} \cup Session
        BY <1>4
  <2> QED BY <1>1, <2>1 DEF SessionsAfterChange
<1>6. /\ tx' \in [Browsers -> Tx] /\ pc' \in [Browsers -> Steps] /\ Holds(b)'
      /\ tx'[b] = NoTx /\ pc'[b] = "idle"
      /\ \A c \in Browsers \ {b} : pc'[c] = pc[c] /\ tx'[c] = tx[c]
      BY <1>1, Ended
<1>7. Admins' = Admins
      BY <1>2, <1>3, NoneIsNothing DEF Admins
<1>8. ASSUME NEW c \in Browsers, c # b PROVE Holds(c)'
  <2>0. Holds(c) /\ pc'[c] = pc[c] /\ tx'[c] = tx[c] /\ cookie'[c] = cookie[c]
        BY <1>1, <1>6, <1>8 DEF AccountsInv
  <2>1. HoldsInvites(c)'
        BY <1>1, <1>6, <2>0, EmptyTx DEF Holds, HoldsInvites
  <2>2. HoldsId(c)'
    <3>1. pc[c] = "joining" => tx[c].id \in Ids \ {a}
          BY <1>2, <2>0, NoneIsNothing DEF Holds, HoldsId, KnowsWhom
    <3> QED BY <1>3, <1>6, <2>0, <3>1 DEF Holds, HoldsId
  <2>3. HoldsAccount(c)' /\ (pc[c] = "changing" => tx[c].id # a)
    <3>1. Locking(c) => tx[c].id \in Ids \ {a}
          BY <1>1, <1>2, <1>8, <2>0 DEF Holds, HoldsAccount, Locking, KnowsWhom, a
    <3> QED BY <1>3, <1>6, <2>0, <3>1 DEF Holds, HoldsAccount, Locking
  <2>4. CoversSessions(c)'
        BY <1>4, <2>0, <2>3 DEF Holds, CoversSessions
  <2> QED BY <2>0, <2>1, <2>2, <2>3, <2>4 DEF Holds, KnowsWhom
<1>9. TypeOK'
      BY <1>1, <1>3, <1>5, <1>6, <1>8, Typed DEF TypeOK, Tx, Steps, Holds, HoldsAccount, Locking
<1>10. SessionsKnowThePassword'
  <2> SUFFICES ASSUME NEW s \in Sids, session'[s] # None
               PROVE  /\ session'[s].admin \in Admins'
                      /\ session'[s].late \/ session'[s].password = account'[session'[s].admin].password
      BY DEF SessionsKnowThePassword
  <2>1. session[s] # None /\ session'[s].admin = session[s].admin /\ session[s].admin \in Admins
        BY <1>4 DEF AccountsInv, SessionsKnowThePassword
  <2>2. CASE session[s].admin = a
        BY <1>3, <1>4, <1>7, <2>1, <2>2
  <2>3. CASE session[s].admin # a
    <3>1. session'[s] = session[s] /\ account'[session[s].admin] = account[session[s].admin]
          BY <1>3, <1>4, <2>1, <2>3 DEF Admins
    <3> QED BY <1>7, <2>1, <3>1 DEF AccountsInv, SessionsKnowThePassword
  <2> QED BY <2>2, <2>3
<1> QED BY <1>1, <1>6, <1>8, <1>9, <1>10 DEF AccountsInv, InviteIsOneAdmin

LEMMA RestartKeeps == ASSUME AccountsInv, Restart PROVE AccountsInv'
<1>1. tx' \in [Browsers -> Tx] /\ pc' \in [Browsers -> Steps]
      /\ \A b \in Browsers : pc'[b] = "idle" /\ tx'[b] = NoTx
      BY EmptyTx DEF Restart, Steps
<1>2. \A b \in Browsers : Holds(b)'
      BY <1>1, EndedHolds
<1>3. UNCHANGED <<account, session, invite, creator, cookie, changes, made>>
      BY DEF Restart, tables
<1>4. TypeOK'
      BY <1>1, <1>3, Typed DEF TypeOK, Tx, Steps
<1> QED BY <1>2, <1>3, <1>4 DEF AccountsInv, InviteIsOneAdmin, SessionsKnowThePassword, Admins

-----------------------------------------------------------------------------
LEMMA AccountsNext == AccountsInv /\ [Next]_vars => AccountsInv'
<1> SUFFICES ASSUME AccountsInv, [Next]_vars PROVE AccountsInv'
    OBVIOUS
<1>1. ASSUME NEW b \in Browsers, Step(b) PROVE AccountsInv'
  <2>1. CASE InsertAdmin(b) \/ DuplicateEmail(b)
        BY <2>1, InsertAdminKeeps
  <2>2. CASE Join(b)
        BY <2>2, JoinKeeps
  <2>3. CASE FinishLogin(b)
        BY <2>3, FinishLoginKeeps
  <2>4. ASSUME NEW i \in Invites, MintInvite(b, i) PROVE AccountsInv'
        BY <2>4, MintInviteKeeps
  <2>5. ASSUME NEW a \in Ids, CountAdmins(b, a) PROVE AccountsInv'
        BY <2>5, CountAdminsKeeps
  <2>6. CASE DeleteAdmin(b)
        BY <2>6, DeleteAdminKeeps
  <2>7. ASSUME NEW i \in Invites, ForgetCreator(b, i) PROVE AccountsInv'
        BY <2>7, ForgetCreatorKeeps
  <2>8. CASE FinishDelete(b)
        BY <2>8, FinishDeleteKeeps
  <2>9. CASE ChangePassword(b)
        BY <2>9, ChangePasswordKeeps
  <2>10. CASE FinishChange(b)
        BY <2>10, FinishChangeKeeps
  <2>11. CASE DeadlockAbort(b)
        BY <2>11, FailKeeps DEF DeadlockAbort
  <2> QED BY <1>1, <2>1, <2>2, <2>3, <2>4, <2>5, <2>6, <2>7, <2>8, <2>9, <2>10, <2>11 DEF Step
<1>2. CASE UNCHANGED vars
  <2>1. \A b \in Browsers : Holds(b)'
    <3> SUFFICES ASSUME NEW b \in Browsers PROVE Holds(b)'
        OBVIOUS
    <3>1. Holds(b)
          BY DEF AccountsInv
    <3> QED BY <1>2, <3>1 DEF vars, tables, Holds, KnowsWhom, HoldsInvites, HoldsId, HoldsAccount, Locking,
                              CoversSessions, Admins
  <2>2. TypeOK'
        BY <1>2 DEF vars, tables, AccountsInv, TypeOK
  <2> QED BY <1>2, <2>1, <2>2 DEF vars, tables, AccountsInv, Admins, InviteIsOneAdmin,
                                  SessionsKnowThePassword
<1>3. ASSUME NEW b \in Browsers,
             \/ \E e \in Emails : Setup(b, e)
             \/ \E i \in Invites, e \in Emails : Redeem(b, i, e)
             \/ \E a \in Ids : Login(b, a)
             \/ Authenticate(b)
      PROVE  AccountsInv'
      BY <1>3, StartsKeep
<1>4. ASSUME NEW b \in Browsers, Logout(b) PROVE AccountsInv'
      BY <1>4, LogoutKeeps
<1>5. ASSUME NEW s \in Sids, ExpireSession(s) PROVE AccountsInv'
      BY <1>5, ExpireSessionKeeps
<1>6. ASSUME NEW i \in Invites, ExpireInvite(i) PROVE AccountsInv'
      BY <1>6, ExpireInviteKeeps
<1>7. CASE Restart
      BY <1>7, RestartKeeps
<1> QED BY <1>1, <1>2, <1>3, <1>4, <1>5, <1>6, <1>7 DEF Next

LEMMA AccountsHold == Spec => []AccountsInv
BY AccountsInit, AccountsNext, PTL DEF Spec

\* Every variable keeps its type, and a password is only ever changed of an account that
\* is there (change_admin_own_password holds the row it has written).
THEOREM TypeCorrect == Spec => []TypeOK
<1>1. AccountsInv => TypeOK
      BY DEF AccountsInv
<1> QED BY <1>1, AccountsHold, PTL

\* redeem_invite claims by a conditional UPDATE and the commit adds the account with it:
\* an invite is used exactly when it has made one account.
THEOREM InvitesMakeOneAdmin == Spec => []InviteIsOneAdmin
<1>1. AccountsInv => InviteIsOneAdmin
      BY DEF AccountsInv
<1> QED BY <1>1, AccountsHold, PTL

\* delete_other_sessions ends every session there is but the one it came with: a session
\* that does not know the present password was opened across the change.
THEOREM SessionsFollowThePassword == Spec => []SessionsKnowThePassword
<1>1. AccountsInv => SessionsKnowThePassword
      BY DEF AccountsInv
<1> QED BY <1>1, AccountsHold, PTL
=============================================================================
