---------------------------- MODULE AdminAccounts ----------------------------
(***************************************************************************)
(* Who may administer the hub: accounts, sessions and invites              *)
(* (hub/timekpr_hub/services/admin_auth.py, api/admin_auth.py and their    *)
(* callers api/admin/admins.py and api/ui/admins.py).                      *)
(*                                                                         *)
(* A request is one database transaction at READ COMMITTED.  Hashing a     *)
(* password takes a while in a thread, so between what a request has read  *)
(* and what it commits there is room for every other request.  What it     *)
(* has read, and what it is going to write, is in tx.  A row it has        *)
(* written is its own until it ends: who wants it waits, and of requests   *)
(* that wait for one another the database ends one.  Account and session   *)
(* ids are random in the code; here an id out of use may be used again.    *)
(***************************************************************************)
EXTENDS Integers, FiniteSets

CONSTANTS
    Browsers,       \* each has one request at a time
    Emails, Invites,
    None,
    MaxAccounts,    \* bound: account ids in use at a time
    MaxSessions,    \* bound: session rows at a time
    MaxChanges      \* bound: password changes

Ids == 1..MaxAccounts
Sids == 1..MaxSessions
Account == [email: Emails, password: 0..MaxChanges]
Session == [admin: Ids, password: 0..MaxChanges, late: BOOLEAN]

ASSUME AdminAccountsAssumption ==
    /\ None \notin Emails \cup Invites \cup Account \cup Session
    /\ {MaxAccounts, MaxSessions, MaxChanges} \subseteq Nat

VARIABLES
    account,    \* admins: [email, password] by id, or None
    session,    \* admin_sessions: [admin, password, late], or None
    invite,     \* admin_invites
    creator,    \* their created_by_admin_id: an account, or 0 for NULL
    cookie,     \* the session each browser presents, or 0
    pc, tx,     \* the request of each browser and its transaction
    changes,    \* passwords chosen so far: a number names one, the first is 0
    made        \* history: how many accounts each invite has paid for

tables == <<account, session, invite, creator>>
vars == <<tables, cookie, pc, tx, changes, made>>

\* invites are the rows of admin_invites the transaction has written, doomed the sessions
\* it deletes with its commit.
NoTx == [id |-> 0, email |-> None, password |-> 0, invites |-> {}, doomed |-> {}]

\* password and late in a session are history: the password it was opened or kept with,
\* and whether it was opened across a change of it.
TypeOK ==
    /\ account \in [Ids -> {None} \cup Account]
    /\ session \in [Sids -> {None} \cup Session]
    /\ invite \in [Invites -> {"unknown", "open", "used", "expired"}]
    /\ creator \in [Invites -> 0..MaxAccounts]
    /\ cookie \in [Browsers -> 0..MaxSessions]
    /\ pc \in [Browsers -> {"idle", "hashing", "joining", "opening", "authed", "counted",
                            "deleting", "changing"}]
    /\ tx \in [Browsers -> [id: 0..MaxAccounts, email: Emails \cup {None},
                            password: 0..MaxChanges, invites: SUBSET Invites,
                            doomed: SUBSET Sids]]
    /\ changes \in 0..MaxChanges
    /\ made \in [Invites -> Nat]
    /\ \A b \in Browsers : pc[b] \in {"deleting", "changing"} => account[tx[b].id] # None

Init ==
    /\ account = [a \in Ids |-> None] /\ session = [s \in Sids |-> None]
    /\ invite = [i \in Invites |-> "unknown"] /\ creator = [i \in Invites |-> 0]
    /\ cookie = [b \in Browsers |-> 0]
    /\ pc = [b \in Browsers |-> "idle"] /\ tx = [b \in Browsers |-> NoTx]
    /\ changes = 0 /\ made = [i \in Invites |-> 0]

-----------------------------------------------------------------------------
Admins == {a \in Ids : account[a] # None}

Goto(b, step) == pc' = [pc EXCEPT ![b] = step]

\* The answer, with nothing written: an error page, or a rollback.
Fail(b) ==
    /\ Goto(b, "idle") /\ tx' = [tx EXCEPT ![b] = NoTx]
    /\ UNCHANGED <<tables, cookie, changes, made>>

\* The answer after a commit.
Finish(b) == Goto(b, "idle") /\ tx' = [tx EXCEPT ![b] = NoTx]

\* The row's lock: a password change has it from its UPDATE to its commit, a deletion from
\* its DELETE.  Until then everybody else still reads the row as it was.
Changing(a) == \E b \in Browsers : pc[b] = "changing" /\ tx[b].id = a
Deleting(a) == \E b \in Browsers : pc[b] = "deleting" /\ tx[b].id = a

FreshId == {a \in Ids : account[a] = None /\ \A b \in Browsers : tx[b].id # a}
FreshSid ==
    {s \in Sids : session[s] = None /\ \A b \in Browsers : s # cookie[b] /\ s \notin tx[b].doomed}

\* The bounds: a request begins only if there are ids for those under way and for it.
RoomForAccount == Cardinality(FreshId) > Cardinality({b \in Browsers : pc[b] = "hashing"})
RoomForSession ==
    Cardinality(FreshSid) >
    Cardinality({b \in Browsers : pc[b] \in {"hashing", "joining", "opening"}})

\* A browser asks for a session when it has none: who has two uses two browsers.
SignedOut(b) == pc[b] = "idle" /\ cookie[b] \notin {s \in Sids : session[s] # None}

\* create_session, and the cookie in the answer.
OpenSession(b, a, password, late) ==
    \E s \in FreshSid :
        /\ \A t \in FreshSid : s <= t
        /\ session' = [session EXCEPT ![s] = [admin |-> a, password |-> password, late |-> late]]
        /\ cookie' = [cookie EXCEPT ![b] = s]

-----------------------------------------------------------------------------
(***************************************************************************)
(* A new account: by POST /setup, or by POST /invite/{token}.              *)
(***************************************************************************)
\* any_admin_exists.
SetupOpen == Admins = {}

Setup(b, e) ==
    /\ SignedOut(b) /\ SetupOpen /\ RoomForAccount /\ RoomForSession
    /\ Goto(b, "hashing") /\ tx' = [tx EXCEPT ![b].email = e]
    /\ UNCHANGED <<tables, cookie, changes, made>>

\* Mutant: the invite is looked up first and marked as used later.
ClaimableUnlocked(i) == invite[i] = "open"

\* redeem_invite's UPDATE ... WHERE used_at IS NULL: a second claim waits for the first,
\* and for a deletion that is about to forget who has minted the invite.
Claimable(i) ==
    /\ invite[i] = "open"
    /\ \A b \in Browsers : i \notin tx[b].invites

Redeem(b, i, e) ==
    /\ SignedOut(b) /\ Claimable(i) /\ RoomForAccount /\ RoomForSession
    /\ Goto(b, "hashing") /\ tx' = [tx EXCEPT ![b].email = e, ![b].invites = {i}]
    /\ UNCHANGED <<tables, cookie, changes, made>>

EmailTaken(e) == \E a \in Admins : account[a].email = e

\* Those whose uncommitted INSERT or DELETE decides whether the address is free.
Deciding(e) ==
    {b \in Browsers : \/ pc[b] = "joining" /\ tx[b].email = e
                      \/ pc[b] = "deleting" /\ account[tx[b].id].email = e}

\* session.flush: the unique index makes the insert wait for them.
InsertAdmin(b) ==
    /\ pc[b] = "hashing"
    /\ ~EmailTaken(tx[b].email) /\ Deciding(tx[b].email) = {}
    /\ \E a \in FreshId : (\A c \in FreshId : a <= c) /\ tx' = [tx EXCEPT ![b].id = a]
    /\ Goto(b, "joining")
    /\ UNCHANGED <<tables, cookie, changes, made>>

\* The rollback takes the claim of the invite back with it.
DuplicateEmail(b) ==
    /\ pc[b] = "hashing" /\ EmailTaken(tx[b].email) /\ Deciding(tx[b].email) = {}
    /\ Fail(b)

\* The commit: account, first session and the used invite appear together.
Join(b) ==
    /\ pc[b] = "joining"
    /\ account' = [account EXCEPT ![tx[b].id] = [email |-> tx[b].email, password |-> 0]]
    /\ OpenSession(b, tx[b].id, 0, FALSE)
    /\ invite' = [i \in Invites |-> IF i \in tx[b].invites THEN "used" ELSE invite[i]]
    /\ made' = [i \in Invites |-> made[i] + IF i \in tx[b].invites THEN 1 ELSE 0]
    /\ Finish(b) /\ UNCHANGED <<creator, changes>>

-----------------------------------------------------------------------------
(***************************************************************************)
(* Logging in and out.                                                     *)
(***************************************************************************)
\* The account's row is read, and the password checked against it in a thread.
Login(b, a) ==
    /\ SignedOut(b) /\ a \in Admins /\ RoomForSession
    /\ Goto(b, "opening")
    /\ tx' = [tx EXCEPT ![b].id = a, ![b].password = account[a].password]
    /\ UNCHANGED <<tables, cookie, changes, made>>

\* The new session's foreign key is checked when it is inserted; the check does not wait
\* for a change of the password, but for a deletion.
FinishLogin(b) ==
    LET a == tx[b].id IN
    /\ pc[b] = "opening" /\ ~Deleting(a)
    /\ IF a \notin Admins
       THEN Fail(b)
       ELSE /\ OpenSession(b, a, tx[b].password,
                           Changing(a) \/ tx[b].password # account[a].password)
            /\ Finish(b) /\ UNCHANGED <<account, invite, creator, changes, made>>

\* Deleting a row that has gone meanwhile is not an error.
Logout(b) ==
    /\ pc[b] = "idle" /\ cookie[b] # 0
    /\ session' = [session EXCEPT ![cookie[b]] = None]
    /\ cookie' = [cookie EXCEPT ![b] = 0]
    /\ UNCHANGED <<account, invite, creator, pc, tx, changes, made>>

\* get_admin_by_session_token: a row that has not expired, of an account that exists.
Authentic(s) ==
    /\ s # 0 /\ session[s] # None
    /\ session[s].admin \in Admins

\* get_current_admin, the first statements of every handler below.
Authenticate(b) ==
    /\ pc[b] = "idle" /\ Authentic(cookie[b])
    /\ Goto(b, "authed")
    /\ tx' = [tx EXCEPT ![b].id = session[cookie[b]].admin]
    /\ UNCHANGED <<tables, cookie, changes, made>>

-----------------------------------------------------------------------------
(***************************************************************************)
(* What an admin does with accounts.                                       *)
(***************************************************************************)
\* POST /admin-invites; created_by_admin_id must exist.
MintInvite(b, i) ==
    /\ pc[b] = "authed" /\ invite[i] = "unknown" /\ ~Deleting(tx[b].id)
    /\ IF tx[b].id \in Admins
       THEN /\ invite' = [invite EXCEPT ![i] = "open"]
            /\ creator' = [creator EXCEPT ![i] = tx[b].id]
            /\ Finish(b) /\ UNCHANGED <<account, session, cookie, changes, made>>
       ELSE Fail(b)

\* count_admins; one or none is LastAdminError.
MayDelete == Cardinality(Admins) > 1

\* delete_admin_account counts before it looks at its target.
CountAdmins(b, target) ==
    /\ pc[b] = "authed" /\ target \notin FreshId
    /\ IF MayDelete
       THEN /\ Goto(b, "counted")
            /\ tx' = [tx EXCEPT ![b].id = target]
            /\ UNCHANGED <<tables, cookie, changes, made>>
       ELSE Fail(b)

\* Mutant: the count locks, and each waits for the other's.
DeletableAlone(b) ==
    /\ ~Changing(tx[b].id) /\ ~Deleting(tx[b].id)
    /\ \A c \in Browsers \ {b} : pc[c] # "counted"

\* Mutant: the deletion does not wait for the row.
DeletableAnyway(b) == TRUE

Deletable(b) == ~Changing(tx[b].id) /\ ~Deleting(tx[b].id)

\* The DELETE, once the row is free; an unknown or already deleted target changes nothing.
DeleteAdmin(b) ==
    /\ pc[b] = "counted" /\ Deletable(b)
    /\ IF tx[b].id \in Admins
       THEN Goto(b, "deleting") /\ UNCHANGED <<tables, cookie, tx, changes, made>>
       ELSE Fail(b)

\* ON DELETE SET NULL updates each invite the account has minted, one by one: who is
\* redeeming one has it until it joins or fails.
ForgetCreator(b, i) ==
    /\ pc[b] = "deleting" /\ creator[i] = tx[b].id
    /\ \A c \in Browsers : i \notin tx[c].invites
    /\ tx' = [tx EXCEPT ![b].invites = @ \cup {i}]
    /\ UNCHANGED <<tables, cookie, pc, changes, made>>

\* The commit: sessions go with their account, ON DELETE CASCADE.
FinishDelete(b) ==
    LET target == tx[b].id IN
    /\ pc[b] = "deleting"
    /\ \A i \in Invites : creator[i] = target => i \in tx[b].invites
    /\ account' = [account EXCEPT ![target] = None]
    /\ session' = [s \in Sids |-> IF session[s] # None /\ session[s].admin = target
                                  THEN None ELSE session[s]]
    /\ creator' = [i \in Invites |-> IF i \in tx[b].invites THEN 0 ELSE creator[i]]
    /\ Finish(b)
    /\ UNCHANGED <<invite, cookie, changes, made>>

\* Mutant: the sessions of the account are left alone.
DoomedNone(b) == {}

\* delete_other_sessions: all but the one the request came with.
Doomed(b) ==
    {s \in Sids : session[s] # None /\ session[s].admin = tx[b].id} \ {cookie[b]}

\* POST /admin/password, with the current password as Authenticate has read it: the query
\* for the other sessions flushes the UPDATE first, which locks the row.
ChangePassword(b) ==
    LET a == tx[b].id IN
    /\ pc[b] = "authed" /\ changes < MaxChanges
    /\ ~Changing(a) /\ ~Deleting(a)
    /\ IF a \notin Admins
       THEN Fail(b)
       ELSE /\ changes' = changes + 1
            /\ tx' = [tx EXCEPT ![b].password = changes + 1, ![b].doomed = Doomed(b)]
            /\ Goto(b, "changing")
            /\ UNCHANGED <<tables, cookie, made>>

SessionsAfterChange(b) ==
    [s \in Sids |-> IF s \in tx[b].doomed THEN None
                    ELSE IF s = cookie[b] /\ session[s] # None /\ session[s].admin = tx[b].id
                    THEN [session[s] EXCEPT !.password = tx[b].password, !.late = FALSE]
                    ELSE session[s]]

FinishChange(b) ==
    /\ pc[b] = "changing"
    /\ account' = [account EXCEPT ![tx[b].id].password = tx[b].password]
    /\ session' = SessionsAfterChange(b)
    /\ Finish(b)
    /\ UNCHANGED <<invite, creator, cookie, changes, made>>

-----------------------------------------------------------------------------
\* An expired row stays in the table, but nothing looks at it again except to delete it;
\* the cookie has the same life of 30 days.
ExpireSession(s) ==
    /\ session[s] # None
    /\ session' = [session EXCEPT ![s] = None]
    /\ cookie' = [b \in Browsers |-> IF cookie[b] = s THEN 0 ELSE cookie[b]]
    /\ UNCHANGED <<account, invite, creator, pc, tx, changes, made>>

ExpireInvite(i) ==
    /\ Claimable(i)
    /\ invite' = [invite EXCEPT ![i] = "expired"]
    /\ UNCHANGED <<account, session, creator, cookie, pc, tx, changes, made>>

\* The hub goes down: every open transaction is rolled back.
Restart ==
    /\ \E b \in Browsers : pc[b] # "idle"
    /\ pc' = [b \in Browsers |-> "idle"] /\ tx' = [b \in Browsers |-> NoTx]
    /\ UNCHANGED <<tables, cookie, changes, made>>

\* Whom a request waits for that has rows somebody else may be waiting for.
Blockers(b) ==
    CASE pc[b] = "hashing" -> Deciding(tx[b].email)
      [] pc[b] = "deleting" ->
           {c \in Browsers \ {b} : \E i \in tx[c].invites : creator[i] = tx[b].id}
      [] OTHER -> {}

\* PostgreSQL ends one of the requests that wait for one another.
Deadlocked(S) == S # {} /\ \A b \in S : Blockers(b) \cap S # {}

DeadlockAbort(b) ==
    /\ \E S \in SUBSET Browsers : b \in S /\ Deadlocked(S)
    /\ Fail(b)

\* What a request that has begun does next.
Step(b) ==
    \/ InsertAdmin(b) \/ DuplicateEmail(b) \/ Join(b)
    \/ FinishLogin(b)
    \/ \E i \in Invites : MintInvite(b, i)
    \/ \E a \in Ids : CountAdmins(b, a)
    \/ DeleteAdmin(b)
    \/ \E i \in Invites : ForgetCreator(b, i)
    \/ FinishDelete(b)
    \/ ChangePassword(b) \/ FinishChange(b)
    \/ DeadlockAbort(b)

Next ==
    \/ \E b \in Browsers :
         \/ \E e \in Emails : Setup(b, e)
         \/ \E i \in Invites, e \in Emails : Redeem(b, i, e)
         \/ \E a \in Ids : Login(b, a)
         \/ Logout(b)
         \/ Authenticate(b)
         \/ Step(b)
    \/ \E s \in Sids : ExpireSession(s)
    \/ \E i \in Invites : ExpireInvite(i)
    \/ Restart

\* A request's handler runs on: its statements are answered once the rows are free.
Spec == Init /\ [][Next]_vars /\ \A b \in Browsers : WF_vars(Step(b))

-----------------------------------------------------------------------------
\* An invite is used exactly when it has made one account: two submissions of the same
\* link cannot both succeed, and one that fails on its e-mail address leaves the invite
\* as good as it was (redeem_invite; the rollback in invite_submit).
InviteIsOneAdmin ==
    \A i \in Invites : made[i] = IF invite[i] = "used" THEN 1 ELSE 0

\* A session belongs to an account that exists and goes back to its present password: it
\* was opened with it, or it is the one the password was changed from.  The others are
\* gone, but for those a login opened that crossed the change (change_admin_own_password
\* with delete_other_sessions, against login_submit).
SessionsKnowThePassword ==
    \A s \in Sids : session[s] # None =>
        /\ session[s].admin \in Admins
        /\ session[s].late \/ session[s].password = account[session[s].admin].password

\* Every request gets its answer: the rows it waits for are given up in the end.  To
\* delete an account is to wait for whoever redeems an invite of its (created_by_admin_id,
\* SET NULL), who may be waiting for the deleted address: the database must step in.
RequestsEnd == \A b \in Browsers : pc[b] # "idle" ~> pc[b] = "idle"

-----------------------------------------------------------------------------
(***************************************************************************)
(* What the repository says and the code does not do.                      *)
(***************************************************************************)
\* "The last remaining admin can never be deleted -- including themselves" (delete_admin,
\* LastAdminError): delete_admin_account counts, and deletes later.
LastAdminStays == [][Admins # {} => Admins' # {}]_vars
=============================================================================
