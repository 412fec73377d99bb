--------------------------- MODULE HubPagesProofs ---------------------------
(***************************************************************************)
(* DayLimit and the pages and forms over it.  For every number of devices, *)
(* set of policies, gates, overrides and grants: what the five rows are    *)
(* read to mean, one after the other, is one register.  And for every      *)
(* number of browsers, pages and weekdays, whatever is open when: saving   *)
(* forms loses no edit but one that a page opened before it puts back, and *)
(* a page's figures are those of one moment.                               *)
(***************************************************************************)
EXTENDS HubPages, TLAPS

-----------------------------------------------------------------------------
(***************************************************************************)
(* The limit of the day, read row after row (DayLimit).                    *)
(***************************************************************************)
Steps == {"idle", "asked", "user", "grants", "override"}

RowsTyped ==
    /\ user \in Row
    /\ grants \in [Days -> Int] /\ override \in [Days -> Overrides \cup {None}]
    /\ released \subseteq Days

IsTx(t) == DOMAIN t = {"day", "user", "base", "grants"}

Shape ==
    /\ DOMAIN tx = Readers /\ tx = [r \in Readers |-> tx[r]]
    /\ \A r \in Readers : IsTx(tx[r])
    /\ seen = [r \in Readers |-> seen[r]]

\* A page has not been crossed by more changes than there were.
Counted == \A p \in Pages : crossed[p] <= changes

Cut(seconds) == IF seconds < 0 THEN 0 ELSE seconds

GateOpen(d) == Weekday(d) \in user.gated => d \in released

\* What the sync that holds the user's row knows.  Of what it has read only the
\* override can have been replaced since.  With it the limit was in force when it was
\* read; unless the day has been gated meanwhile it is what will be answered.
ReadSoFar(v) ==
    LET d == tx[v].day IN
    /\ tx[v].user = user
    /\ InForceOn(DaysOf(v, d)) \in seen[v]
    /\ pc[v] \in {"override", "grants"} /\ GateOpen(d)
          => \E s \in seen[v] : s[d] = Cut(tx[v].base[d] + grants[d])
    /\ pc[v] = "grants" => tx[v].grants[d] = grants[d]

LimitInv ==
    /\ TypeOK /\ Shape /\ Counted
    /\ \A v \in Devices : owner = v => ReadSoFar(v)

-----------------------------------------------------------------------------
LEMMA ItsOwnDay ==
    ASSUME NEW r, NEW d \in Days
    PROVE  d \in DaysOf(r, d) /\ DaysOf(r, d) \subseteq Days
BY DayLimitAssumption DEF DaysOf, Days

LEMMA WeekdayOfDay == \A d \in Days : Weekday(d) \in Weekdays
<1> SUFFICES ASSUME NEW d \in Days PROVE Weekday(d) \in Weekdays
    OBVIOUS
<1>1. d \in Nat /\ Week \in Nat \ {0}
      BY DayLimitAssumption DEF Days
<1>2. d % Week \in 0..Week - 1
      BY <1>1
<1> QED BY <1>1, <1>2 DEF Weekday, Weekdays

\* The formula yields seconds, never less than none.
LEMMA InForceIsSeconds ==
    ASSUME NEW u \in Row, NEW g \in [Days -> Int], NEW o \in [Days -> Overrides \cup {None}],
           NEW gated \in BOOLEAN, NEW d \in Days
    PROVE  LET base == IF o[d] = None THEN u.limits[Weekday(d)] ELSE o[d]
               total == base + g[d]
           IN  (IF gated \/ total < 0 THEN 0 ELSE total) \in Nat
<1> DEFINE base == IF o[d] = None THEN u.limits[Weekday(d)] ELSE o[d]
<1>1. u.limits[Weekday(d)] \in Nat
      BY WeekdayOfDay, DayLimitAssumption DEF Row
<1>2. base \in Nat
      BY <1>1, DayLimitAssumption
<1>3. g[d] \in Int
      OBVIOUS
<1> HIDE DEF base
<1>4. (IF gated \/ base + g[d] < 0 THEN 0 ELSE base + g[d]) \in Nat
      BY <1>2, <1>3
<1> QED BY <1>4 DEF base

LEMMA RegisterHoldsSeconds ==
    ASSUME RowsTyped PROVE [d \in Days |-> InForce(d)] \in [Days -> Nat]
<1> SUFFICES ASSUME NEW d \in Days PROVE InForce(d) \in Nat
    OBVIOUS
<1>1. (Weekday(d) \in user.gated /\ d \notin released) \in BOOLEAN
      OBVIOUS
<1> QED BY <1>1, InForceIsSeconds DEF RowsTyped, InForce

-----------------------------------------------------------------------------
LEMMA LimitInit == Init => LimitInv
<1> SUFFICES ASSUME Init PROVE LimitInv
    OBVIOUS
<1>1. 0 \in Days
      BY DayLimitAssumption DEF Days
<1>2. TypeOK
  <2>1. tx = [r \in Readers |-> NoTx] /\ NoTx.day = 0 /\ NoTx.user = None
        BY DEF Init, NoTx
  <2>2. \A v \in Devices : owner = v <=> pc[v] \in {"user", "override", "grants"}
        BY DayLimitAssumption DEF Init, Readers
  <2>3. changes \in 0..MaxChanges /\ crossed \in [Pages -> 0..MaxChanges]
        BY DayLimitAssumption DEF Init
  <2> QED BY <1>1, <2>1, <2>2, <2>3 DEF TypeOK, Init
<1>3. Shape
      BY DEF Init, Shape, IsTx, NoTx
<1>4. Counted
      BY DEF Init, Counted
<1> QED BY <1>2, <1>3, <1>4, DayLimitAssumption DEF Init, LimitInv, Readers

-----------------------------------------------------------------------------
(***************************************************************************)
(* What each kind of step does to the readers' copies.                     *)
(***************************************************************************)
LEMMA AfterReadUser ==
    ASSUME Shape, NEW r \in Readers, NEW step, ReadUser(r, step),
           pc = [q \in Readers |-> pc[q]]
    PROVE  /\ DOMAIN tx' = Readers /\ tx' = [q \in Readers |-> tx'[q]]
           /\ \A q \in Readers : IsTx(tx'[q])
           /\ \A q \in Readers : q # r => tx'[q] = tx[q] /\ pc'[q] = pc[q]
           /\ pc' = [pc EXCEPT ![r] = step] /\ pc'[r] = step
           /\ tx'[r].user = user
           /\ tx'[r].day = IF pc[r] = "idle" THEN day ELSE tx[r].day
<1> DEFINE today == IF pc[r] = "idle" THEN day ELSE tx[r].day
           t == [tx[r] EXCEPT !.user = user, !.day = today]
<1>1. tx' = [tx EXCEPT ![r] = t]
      BY DEF ReadUser
<1>2. IsTx(t) /\ t.user = user /\ t.day = today
      BY DEF Shape, IsTx
<1> HIDE DEF today, t
<1>3. tx'[r] = t /\ DOMAIN tx' = Readers /\ tx' = [q \in Readers |-> tx'[q]]
      /\ \A q \in Readers : q # r => tx'[q] = tx[q]
      BY <1>1 DEF Shape
<1>4. pc' = [pc EXCEPT ![r] = step] /\ pc'[r] = step
      /\ \A q \in Readers : q # r => pc'[q] = pc[q]
      BY DEF ReadUser
<1> QED BY <1>2, <1>3, <1>4 DEF Shape, today

LEMMA AfterReadOverrides ==
    ASSUME Shape, NEW r \in Readers, ReadOverrides(r), pc = [q \in Readers |-> pc[q]]
    PROVE  /\ DOMAIN tx' = Readers /\ tx' = [q \in Readers |-> tx'[q]]
           /\ \A q \in Readers : IsTx(tx'[q])
           /\ \A q \in Readers : q # r => tx'[q] = tx[q] /\ pc'[q] = pc[q]
           /\ pc' = [pc EXCEPT ![r] = "override"] /\ pc'[r] = "override"
           /\ tx'[r].day = tx[r].day /\ tx'[r].user = tx[r].user
           /\ tx'[r].base = [d \in DaysOf(r, tx[r].day) |->
                                IF override[d] = None THEN BaseDailyLimit(tx[r].user, d)
                                ELSE override[d]]
<1> DEFINE base == [e \in DaysOf(r, tx[r].day) |->
                       IF override[e] = None THEN BaseDailyLimit(tx[r].user, e)
                       ELSE override[e]]
           t == [tx[r] EXCEPT !.base = base]
<1>1. tx' = [tx EXCEPT ![r] = t]
      BY DEF ReadOverrides
<1> HIDE DEF base
<1>2. IsTx(t) /\ t.base = base /\ t.day = tx[r].day /\ t.user = tx[r].user
      BY DEF Shape, IsTx
<1> HIDE DEF t
<1>3. tx'[r] = t /\ DOMAIN tx' = Readers /\ tx' = [q \in Readers |-> tx'[q]]
      /\ \A q \in Readers : q # r => tx'[q] = tx[q]
      BY <1>1 DEF Shape
<1>4. pc' = [pc EXCEPT ![r] = "override"] /\ pc'[r] = "override"
      /\ \A q \in Readers : q # r => pc'[q] = pc[q]
      BY DEF ReadOverrides
<1> QED BY <1>2, <1>3, <1>4 DEF Shape, base

LEMMA AfterReadGrants ==
    ASSUME Shape, NEW r \in Readers, ReadGrants(r), pc = [q \in Readers |-> pc[q]]
    PROVE  /\ DOMAIN tx' = Readers /\ tx' = [q \in Readers |-> tx'[q]]
           /\ \A q \in Readers : IsTx(tx'[q])
           /\ \A q \in Readers : q # r => tx'[q] = tx[q] /\ pc'[q] = pc[q]
           /\ pc' = [pc EXCEPT ![r] = "grants"] /\ pc'[r] = "grants"
           /\ tx'[r].day = tx[r].day /\ tx'[r].user = tx[r].user
           /\ tx'[r].base = tx[r].base
           /\ tx'[r].grants = [d \in DaysOf(r, tx[r].day) |-> grants[d]]
<1> DEFINE sums == [e \in DaysOf(r, tx[r].day) |-> grants[e]]
           t == [tx[r] EXCEPT !.grants = sums]
<1>1. tx' = [tx EXCEPT ![r] = t]
      BY DEF ReadGrants
<1> HIDE DEF sums
<1>2. IsTx(t) /\ t.grants = sums /\ t.day = tx[r].day /\ t.user = tx[r].user /\ t.base = tx[r].base
      BY DEF Shape, IsTx
<1> HIDE DEF t
<1>3. tx'[r] = t /\ DOMAIN tx' = Readers /\ tx' = [q \in Readers |-> tx'[q]]
      /\ \A q \in Readers : q # r => tx'[q] = tx[q]
      BY <1>1 DEF Shape
<1>4. pc' = [pc EXCEPT ![r] = "grants"] /\ pc'[r] = "grants"
      /\ \A q \in Readers : q # r => pc'[q] = pc[q]
      BY DEF ReadGrants
<1> QED BY <1>2, <1>3, <1>4 DEF Shape, sums

-----------------------------------------------------------------------------
(***************************************************************************)
(* Changes.                                                                *)
(***************************************************************************)
\* While a sync holds the user's row nothing is added to what it reads, and neither the
\* row nor the grants change.
Undisturbed == user' = user /\ grants' = grants /\ released' \subseteq released

LEMMA ChangesWait ==
    ASSUME TypeOK, Administer
    PROVE  Committed /\ RowsTyped' /\ (owner # None => Undisturbed)
<1> USE DEF RowFree, MayInsert, Undisturbed, RowsTyped
<1>0. RowsTyped
      BY DEF TypeOK
<1>1. ASSUME NEW limits \in Policies, UpdatePolicy(limits)
      PROVE  Committed /\ RowsTyped' /\ (owner # None => Undisturbed)
      BY <1>0, <1>1 DEF UpdatePolicy, Row
<1>2. ASSUME NEW gated \in Gates, UpdateSettings(gated)
      PROVE  Committed /\ RowsTyped' /\ (owner # None => Undisturbed)
      BY <1>0, <1>2 DEF UpdateSettings, Row
<1>3. ASSUME NEW d \in Days, NEW seconds \in Bonuses, CreateGrant(d, seconds)
      PROVE  Committed /\ RowsTyped' /\ (owner # None => Undisturbed)
  <2>1. grants[d] + seconds \in Int
        BY <1>0, DayLimitAssumption
  <2> QED BY <1>0, <1>3, <2>1 DEF CreateGrant
<1>4. ASSUME NEW d \in Days, NEW limit \in Overrides, SetDayOverride(d, limit)
      PROVE  Committed /\ RowsTyped' /\ (owner # None => Undisturbed)
      BY <1>0, <1>4 DEF SetDayOverride
<1>5. ASSUME NEW d \in Days, ClearDayOverride(d)
      PROVE  Committed /\ RowsTyped' /\ (owner # None => Undisturbed)
      BY <1>0, <1>5 DEF ClearDayOverride
<1>6. ASSUME NEW d \in Days, ReleaseGate(d)
      PROVE  Committed /\ RowsTyped' /\ (owner # None => Undisturbed)
      BY <1>0, <1>6 DEF ReleaseGate
<1>7. ASSUME NEW d \in Days, UnreleaseGate(d)
      PROVE  Committed /\ RowsTyped' /\ (owner # None => Undisturbed)
      BY <1>0, <1>7 DEF UnreleaseGate
<1> QED BY <1>1, <1>2, <1>3, <1>4, <1>5, <1>6, <1>7 DEF Administer

LEMMA CommittedKeeps ==
    ASSUME LimitInv, Committed, RowsTyped', owner # None => Undisturbed
    PROVE  LimitInv'
<1>1. Committed /\ RowsTyped' /\ (owner # None => Undisturbed)
      OBVIOUS
<1>2. TypeOK'
  <2>1. changes + 1 \in 0..MaxChanges /\ MaxChanges \in Nat
        BY <1>1, DayLimitAssumption DEF Committed, LimitInv, TypeOK
  <2>2. \A p \in Pages : crossed[p] \in 0..MaxChanges /\ crossed[p] <= changes
        BY DEF LimitInv, TypeOK, Counted
  <2>3. \A p \in Pages : crossed[p] + 1 \in 0..MaxChanges
        BY <2>1, <2>2, <1>1 DEF LimitInv, TypeOK
  <2>4. crossed' \in [Pages -> 0..MaxChanges] /\ changes' \in 0..MaxChanges
        BY <2>1, <2>3, <1>1 DEF Committed
  <2>5. UNCHANGED <<day, owner, pc, tx>>
        BY <1>1 DEF Committed
  <2> QED BY <2>4, <2>5, <1>1 DEF LimitInv, TypeOK, RowsTyped, Row
<1>3. Shape'
      BY <1>1 DEF LimitInv, Shape, Committed
<1>4. Counted'
  <2>1. ASSUME NEW p \in Pages PROVE crossed'[p] <= changes'
    <3>1. crossed[p] \in Nat /\ changes \in Nat /\ crossed[p] <= changes
          BY DayLimitAssumption DEF LimitInv, TypeOK, Counted
    <3>2. crossed'[p] \in {0, crossed[p] + 1} /\ changes' = changes + 1
          BY <1>1 DEF Committed
    <3> QED BY <3>1, <3>2
  <2> QED BY <2>1 DEF Counted
<1>5. ASSUME NEW v \in Devices, owner' = v
      PROVE  ReadSoFar(v)'
  <2>1. owner = v /\ owner # None /\ tx' = tx /\ pc' = pc /\ Undisturbed
        BY <1>1, <1>5, DayLimitAssumption DEF Committed, Readers
  <2>2. ReadSoFar(v)
        BY <2>1 DEF LimitInv
  <2>3. seen'[v] = seen[v] \cup {InForceOn(DaysOf(v, tx[v].day))'}
        BY <1>1, <2>2, <2>1 DEF Committed, ReadSoFar, Readers
  <2>4. GateOpen(tx[v].day)' => GateOpen(tx[v].day)
        BY <2>1 DEF GateOpen, Undisturbed
  <2> QED BY <2>1, <2>2, <2>3, <2>4 DEF ReadSoFar, Undisturbed
<1> QED BY <1>2, <1>3, <1>4, <1>5 DEF LimitInv

LEMMA ChangeKeeps == ASSUME LimitInv, Administer PROVE LimitInv'
BY ChangesWait, CommittedKeeps DEF LimitInv

-----------------------------------------------------------------------------
(***************************************************************************)
(* Readers.                                                                *)
(***************************************************************************)
LEMMA NoReaderIsNone == None \notin Readers /\ None \notin Devices /\ Devices \cap Pages = {}
BY DayLimitAssumption DEF Readers

\* What one reader does leaves the invariant as it is for the others.
LEMMA ReaderKeeps ==
    ASSUME LimitInv, NEW r \in Readers, UNCHANGED rows, UNCHANGED changes,
           DOMAIN tx' = Readers, tx' = [q \in Readers |-> tx'[q]],
           \A q \in Readers : IsTx(tx'[q]),
           \A q \in Readers : q # r => tx'[q] = tx[q] /\ pc'[q] = pc[q] /\ seen'[q] = seen[q],
           tx'[r].day \in Days, tx'[r].user \in Row \cup {None},
           seen' = [q \in Readers |-> seen'[q]],
           day' \in Days, pc' \in [Readers -> Steps],
           owner' \in Devices \cup {None},
           \A v \in Devices : owner' = v <=> pc'[v] \in {"user", "override", "grants"},
           \A v \in Devices : owner' = v /\ v # r => owner = v,
           crossed' \in [Pages -> 0..MaxChanges], \A p \in Pages : crossed'[p] <= changes,
           r \in Devices /\ owner' = r => ReadSoFar(r)'
    PROVE  LimitInv'
<1>1. TypeOK'
  <2>1. \A q \in Readers : tx'[q].day \in Days /\ tx'[q].user \in Row \cup {None}
        BY DEF LimitInv, TypeOK
  <2> QED BY <2>1 DEF LimitInv, TypeOK, rows, Steps
<1>2. Shape'
      BY DEF Shape
<1>3. Counted'
      BY DEF Counted
<1>4. ASSUME NEW v \in Devices, owner' = v
      PROVE  ReadSoFar(v)'
  <2>1. CASE v # r
    <3>1. v \in Readers /\ owner = v
          BY <1>4, <2>1 DEF Readers
    <3>2. ReadSoFar(v)
          BY <3>1 DEF LimitInv
    <3>3. tx'[v] = tx[v] /\ pc'[v] = pc[v] /\ seen'[v] = seen[v]
          BY <2>1, <3>1
    <3> QED BY <3>2, <3>3 DEF ReadSoFar, rows, GateOpen, InForceOn, InForce
  <2> QED BY <2>1, <1>4
<1> QED BY <1>1, <1>2, <1>3, <1>4 DEF LimitInv

LEMMA AskKeeps ==
    ASSUME LimitInv, NEW v \in Devices, Ask(v) PROVE LimitInv'
<1>1. v \in Readers /\ ReadUser(v, "asked") /\ Shape /\ pc = [q \in Readers |-> pc[q]]
      BY DEF Ask, Readers, LimitInv, TypeOK
<1>2. UNCHANGED <<day, rows, owner, told, history>> /\ pc[v] = "idle"
      BY DEF Ask
<1>3. /\ DOMAIN tx' = Readers /\ tx' = [q \in Readers |-> tx'[q]]
      /\ \A q \in Readers : IsTx(tx'[q])
      /\ \A q \in Readers : q # v => tx'[q] = tx[q] /\ pc'[q] = pc[q]
      /\ pc' = [pc EXCEPT ![v] = "asked"] /\ pc'[v] = "asked"
      /\ tx'[v].user = user /\ tx'[v].day = day
      BY <1>1, <1>2, AfterReadUser
<1>4. owner' = owner /\ owner # v /\ seen' = seen /\ crossed' = crossed
      BY <1>2 DEF LimitInv, TypeOK, history
<1>5. pc' \in [Readers -> Steps]
      BY <1>3 DEF LimitInv, TypeOK, Steps
<1>6. \A w \in Devices : owner' = w <=> pc'[w] \in {"user", "override", "grants"}
      BY <1>3, <1>4 DEF LimitInv, TypeOK, Readers
<1> QED BY <1>1, <1>2, <1>3, <1>4, <1>5, <1>6, ReaderKeeps
        DEF LimitInv, TypeOK, Shape, Counted, history

\* A sync that has just taken the row has read it, and nothing else.
LEMMA LockKeeps ==
    ASSUME LimitInv, NEW v \in Devices, Lock(v)
    PROVE  /\ LimitInv' /\ owner = None /\ owner' = v /\ tx'[v].day = tx[v].day
           /\ seen'[v] = {InForceOn(DaysOf(v, tx[v].day))}
<1>1. v \in Readers /\ ReadUser(v, "user") /\ Shape /\ pc = [q \in Readers |-> pc[q]]
      BY DEF Lock, Readers, LimitInv, TypeOK
<1>2. UNCHANGED <<day, rows, told, changes, crossed>> /\ pc[v] = "asked"
      /\ owner = None /\ owner' = v /\ Begin(v)
      BY DEF Lock, RowFree
<1>3. /\ DOMAIN tx' = Readers /\ tx' = [q \in Readers |-> tx'[q]]
      /\ \A q \in Readers : IsTx(tx'[q])
      /\ \A q \in Readers : q # v => tx'[q] = tx[q] /\ pc'[q] = pc[q]
      /\ pc' = [pc EXCEPT ![v] = "user"] /\ pc'[v] = "user"
      /\ tx'[v].user = user /\ tx'[v].day = tx[v].day
      BY <1>1, <1>2, AfterReadUser
<1>4. /\ seen' = [q \in Readers |-> seen'[q]]
      /\ \A q \in Readers : q # v => seen'[q] = seen[q]
      /\ seen'[v] = {InForceOn(DaysOf(v, tx[v].day))}
  <2>1. seen' = [seen EXCEPT ![v] = {InForceOn(DaysOf(v, tx[v].day))}]
        BY <1>2, <1>3 DEF Begin
  <2> QED BY <2>1, <1>1 DEF Shape
<1>5. pc' \in [Readers -> Steps]
      BY <1>3 DEF LimitInv, TypeOK, Steps
<1>6. \A w \in Devices : owner' = w <=> pc'[w] \in {"user", "override", "grants"}
  <2>1. \A w \in Devices : pc[w] \notin {"user", "override", "grants"}
        BY <1>2, NoReaderIsNone DEF LimitInv, TypeOK
  <2> QED BY <2>1, <1>2, <1>3 DEF Readers
<1>7. ReadSoFar(v)'
      BY <1>2, <1>3, <1>4 DEF ReadSoFar, rows, InForceOn, InForce
<1>8. tx'[v].day \in Days /\ tx'[v].user \in Row \cup {None}
      BY <1>1, <1>3 DEF LimitInv, TypeOK
<1>9. LimitInv'
      BY <1>1, <1>2, <1>3, <1>4, <1>5, <1>6, <1>7, <1>8, ReaderKeeps
         DEF LimitInv, TypeOK, Counted
<1> QED BY <1>2, <1>3, <1>4, <1>9

\* The override is read: with the gate open the limit of this moment is what the copies
\* amount to.
LEMMA OverrideIsRead ==
    ASSUME LimitInv, NEW v \in Devices, owner = v, pc[v] = "user", ReadOverrides(v),
           NEW d, d = tx[v].day, GateOpen(d)
    PROVE  \E s \in seen[v] : s[d] = Cut(tx'[v].base[d] + grants[d])
<1>1. v \in Readers /\ Shape /\ pc = [q \in Readers |-> pc[q]] /\ ReadSoFar(v)
      BY DEF Readers, LimitInv, TypeOK
<1>2. d \in Days /\ d \in DaysOf(v, d) /\ DaysOf(v, d) \subseteq Days
      BY <1>1, ItsOwnDay DEF LimitInv, TypeOK
<1>3. tx'[v].base[d] = IF override[d] = None THEN user.limits[Weekday(d)] ELSE override[d]
  <2>1. tx'[v].base = [e \in DaysOf(v, tx[v].day) |->
                          IF override[e] = None THEN BaseDailyLimit(tx[v].user, e)
                          ELSE override[e]]
        BY <1>1, AfterReadOverrides
  <2>2. tx[v].user = user
        BY <1>1 DEF ReadSoFar
  <2> QED BY <1>2, <2>1, <2>2 DEF BaseDailyLimit
<1>4. InForce(d) = Cut(tx'[v].base[d] + grants[d])
      BY <1>3 DEF InForce, Cut, GateOpen
<1>5. InForceOn(DaysOf(v, d)) \in seen[v] /\ InForceOn(DaysOf(v, d))[d] = InForce(d)
      BY <1>1, <1>2 DEF ReadSoFar, InForceOn
<1> QED BY <1>4, <1>5

\* effective_daily_limit reads the override, then the grants.
LEMMA EffectiveDailyLimitKeeps ==
    ASSUME LimitInv, NEW v \in Devices, EffectiveDailyLimit(v)
    PROVE  /\ LimitInv' /\ UNCHANGED <<day, rows, owner, told, history>>
           /\ owner = v => tx'[v].day = tx[v].day
           /\ \A w \in Devices : w # v => tx'[w] = tx[w]
<1>1. v \in Readers /\ Shape /\ pc = [q \in Readers |-> pc[q]] /\ tx[v].day \in Days
      /\ tx[v].user \in Row \cup {None}
      BY DEF Readers, LimitInv, TypeOK
<1>2. tx[v].day \in DaysOf(v, tx[v].day)
      BY <1>1, ItsOwnDay
<1>3. UNCHANGED <<day, rows, owner, told, history>> /\ owner = v /\ ReadSoFar(v)
      /\ pc[v] \in {"user", "override"}
      BY DEF EffectiveDailyLimit, ReadOverrides, ReadGrants, LimitInv, TypeOK
<1> DEFINE Rest(step) ==
              /\ DOMAIN tx' = Readers /\ tx' = [q \in Readers |-> tx'[q]]
              /\ \A q \in Readers : IsTx(tx'[q])
              /\ \A q \in Readers : q # v => tx'[q] = tx[q] /\ pc'[q] = pc[q]
              /\ pc' = [pc EXCEPT ![v] = step] /\ pc'[v] = step
              /\ tx'[v].day = tx[v].day /\ tx'[v].user = tx[v].user
<1>4. ASSUME NEW step \in {"override", "grants"}, Rest(step), ReadSoFar(v)'
      PROVE  /\ LimitInv' /\ tx'[v].day = tx[v].day
             /\ \A w \in Devices : w # v => tx'[w] = tx[w]
  <2>1. pc' \in [Readers -> Steps]
        BY <1>4 DEF LimitInv, TypeOK, Steps
  <2>2. \A w \in Devices : owner' = w <=> pc'[w] \in {"user", "override", "grants"}
        BY <1>3, <1>4 DEF LimitInv, TypeOK, Readers
  <2>3. seen' = seen /\ crossed' = crossed /\ changes' = changes /\ owner' = owner
        BY <1>3 DEF history
  <2>4. LimitInv'
        BY <1>1, <1>3, <1>4, <2>1, <2>2, <2>3, ReaderKeeps
           DEF LimitInv, TypeOK, Shape, Counted
  <2> QED BY <1>4, <2>4 DEF Readers
<1>5. CASE pc[v] = "user" /\ ReadOverrides(v)
  <2>1. Rest("override")
        BY <1>1, <1>5, AfterReadOverrides
  <2>2. GateOpen(tx[v].day)
            => \E s \in seen[v] : s[tx[v].day] = Cut(tx'[v].base[tx[v].day] + grants[tx[v].day])
        BY <1>3, <1>5, OverrideIsRead
  <2>3. ReadSoFar(v)'
        BY <1>3, <2>1, <2>2 DEF ReadSoFar, rows, history, GateOpen, InForceOn, InForce
  <2> QED BY <1>3, <1>4, <2>1, <2>3
<1>6. CASE pc[v] = "override" /\ ReadGrants(v)
  <2>1. Rest("grants")
        BY <1>1, <1>6, AfterReadGrants
  <2>2. tx'[v].base = tx[v].base /\ tx'[v].grants[tx[v].day] = grants[tx[v].day]
    <3>1. tx'[v].base = tx[v].base
          /\ tx'[v].grants = [d \in DaysOf(v, tx[v].day) |-> grants[d]]
          BY <1>1, <1>6, AfterReadGrants
    <3> QED BY <1>2, <3>1
  <2>3. ReadSoFar(v)'
        BY <1>3, <1>6, <2>1, <2>2 DEF ReadSoFar, rows, history, GateOpen, InForceOn, InForce
  <2> QED BY <1>3, <1>4, <2>1, <2>3
<1> QED BY <1>3, <1>5, <1>6 DEF EffectiveDailyLimit

\* The last read is of the releases: shut now, the limit of now is none; open now, it
\* was open when the override was read, for nothing is released meanwhile.
LEMMA AnswerWasInForce ==
    ASSUME LimitInv, NEW v \in Devices, owner = v, pc[v] = "grants",
           NEW d, d = tx[v].day
    PROVE  \E s \in seen[v] : s[d] = Computed(v)[d]
<1>1. ReadSoFar(v) /\ v \in Readers
      BY DEF LimitInv, Readers
<1>2. d \in Days /\ d \in DaysOf(v, d)
      BY <1>1, ItsOwnDay DEF LimitInv, TypeOK
<1>3. Computed(v)[d] = CombineLimit(tx[v].base[d], tx[v].grants[d],
                                    IsGatedWeekday(tx[v].user, d), d \in released)
      BY <1>2 DEF Computed
<1>4. tx[v].user = user /\ tx[v].grants[d] = grants[d]
      BY <1>1 DEF ReadSoFar
<1>5. CASE GateOpen(d)
  <2>1. Computed(v)[d] = Cut(tx[v].base[d] + grants[d])
        BY <1>3, <1>4, <1>5 DEF CombineLimit, IsGatedWeekday, GateOpen, Cut
  <2> QED BY <1>1, <1>5, <2>1 DEF ReadSoFar
<1>6. CASE ~GateOpen(d)
  <2>1. Computed(v)[d] = 0 /\ InForce(d) = 0
        BY <1>3, <1>4, <1>6 DEF CombineLimit, IsGatedWeekday, GateOpen, InForce
  <2>2. InForceOn(DaysOf(v, d)) \in seen[v] /\ InForceOn(DaysOf(v, d))[d] = InForce(d)
        BY <1>1, <1>2 DEF ReadSoFar, InForceOn
  <2> QED BY <2>1, <2>2
<1> QED BY <1>5, <1>6

\* A computation that ends forgets what it has read.
LEMMA AfterFinish ==
    ASSUME LimitInv, NEW r \in Readers, Finish(r)
    PROVE  /\ DOMAIN tx' = Readers /\ tx' = [q \in Readers |-> tx'[q]]
           /\ \A q \in Readers : IsTx(tx'[q])
           /\ \A q \in Readers : q # r => tx'[q] = tx[q] /\ pc'[q] = pc[q] /\ seen'[q] = seen[q]
           /\ pc' \in [Readers -> Steps] /\ pc'[r] = "idle"
           /\ seen' = [q \in Readers |-> seen'[q]]
           /\ tx'[r].day \in Days /\ tx'[r].user \in Row \cup {None}
<1>1. pc' = [pc EXCEPT ![r] = "idle"] /\ tx' = [tx EXCEPT ![r] = NoTx]
      /\ seen' = [seen EXCEPT ![r] = {}]
      BY DEF Finish
<1>2. IsTx(NoTx) /\ NoTx.day \in Days /\ NoTx.user = None
      BY DayLimitAssumption DEF IsTx, NoTx, Days
<1>3. Shape /\ pc \in [Readers -> Steps]
      BY DEF LimitInv, TypeOK, Steps
<1> HIDE DEF NoTx
<1>4. tx'[r] = NoTx /\ DOMAIN tx' = Readers /\ tx' = [q \in Readers |-> tx'[q]]
      /\ \A q \in Readers : q # r => tx'[q] = tx[q]
      BY <1>1, <1>3 DEF Shape
<1>5. pc' \in [Readers -> Steps] /\ pc'[r] = "idle"
      /\ \A q \in Readers : q # r => pc'[q] = pc[q]
      BY <1>1, <1>3 DEF Steps
<1>6. seen' = [q \in Readers |-> seen'[q]]
      /\ \A q \in Readers : q # r => seen'[q] = seen[q]
      BY <1>1, <1>3 DEF Shape
<1> QED BY <1>2, <1>3, <1>4, <1>5, <1>6 DEF Shape

\* The sync commits: the row is free again.
LEMMA AnswerKeeps ==
    ASSUME LimitInv, NEW v \in Devices, Answer(v)
    PROVE  LimitInv' /\ owner = v
<1>1. v \in Readers /\ Finish(v) /\ owner' = None /\ UNCHANGED <<day, rows, changes, crossed>>
      BY DEF Answer, Readers
<1>2. owner = v
      BY DEF Answer, LimitInv, TypeOK
<1>3. /\ DOMAIN tx' = Readers /\ tx' = [q \in Readers |-> tx'[q]]
      /\ \A q \in Readers : IsTx(tx'[q])
      /\ \A q \in Readers : q # v => tx'[q] = tx[q] /\ pc'[q] = pc[q] /\ seen'[q] = seen[q]
      /\ pc' \in [Readers -> Steps] /\ pc'[v] = "idle"
      /\ seen' = [q \in Readers |-> seen'[q]]
      /\ tx'[v].day \in Days /\ tx'[v].user \in Row \cup {None}
      BY <1>1, AfterFinish
<1>4. \A w \in Devices : owner' = w <=> pc'[w] \in {"user", "override", "grants"}
  <2>1. \A w \in Devices : w # v => pc[w] \notin {"user", "override", "grants"}
        BY <1>2 DEF LimitInv, TypeOK
  <2> QED BY <2>1, <1>1, <1>3, NoReaderIsNone DEF Readers
<1>5. LimitInv'
      BY <1>1, <1>3, <1>4, NoReaderIsNone, ReaderKeeps DEF LimitInv, TypeOK, Counted
<1> QED BY <1>2, <1>5

\* A page is computed beside the syncs: it holds nothing and owns nothing.
LEMMA ComputeKeeps ==
    ASSUME LimitInv, NEW p \in Pages, Compute(p)
    PROVE  /\ LimitInv' /\ UNCHANGED <<rows, owner, told>>
           /\ \A v \in Devices : tx'[v] = tx[v] /\ seen'[v] = seen[v]
<1> DEFINE Beside ==
              /\ DOMAIN tx' = Readers /\ tx' = [q \in Readers |-> tx'[q]]
              /\ \A q \in Readers : IsTx(tx'[q])
              /\ \A q \in Readers : q # p => tx'[q] = tx[q] /\ pc'[q] = pc[q] /\ seen'[q] = seen[q]
              /\ pc' \in [Readers -> Steps]
              /\ seen' = [q \in Readers |-> seen'[q]]
              /\ tx'[p].day \in Days /\ tx'[p].user \in Row \cup {None}
<1>1. p \in Readers /\ Shape /\ pc \in [Readers -> Steps] /\ pc = [q \in Readers |-> pc[q]]
      /\ (\A v \in Devices : v # p /\ v \in Readers)
      BY NoReaderIsNone DEF Readers, LimitInv, TypeOK, Steps
<1>2. tx[p].day \in Days /\ tx[p].user \in Row \cup {None} /\ user \in Row /\ day \in Days
      BY <1>1 DEF LimitInv, TypeOK
<1>3. ASSUME Beside, UNCHANGED <<day, rows, owner, told, changes>>,
             crossed' = crossed \/ crossed' = [crossed EXCEPT ![p] = 0]
      PROVE  /\ LimitInv' /\ \A v \in Devices : tx'[v] = tx[v] /\ seen'[v] = seen[v]
  <2>1. \A w \in Devices : owner' = w <=> pc'[w] \in {"user", "override", "grants"}
        BY <1>1, <1>3 DEF LimitInv, TypeOK
  <2>2. crossed' \in [Pages -> 0..MaxChanges] /\ \A q \in Pages : crossed'[q] <= changes
    <3>1. changes \in Nat /\ 0 \in 0..MaxChanges /\ 0 <= changes
          BY DayLimitAssumption DEF LimitInv, TypeOK
    <3> QED BY <3>1, <1>3 DEF LimitInv, TypeOK, Counted
  <2>3. p \notin Devices
        BY <1>1
  <2>4. LimitInv'
        BY <1>1, <1>3, <2>1, <2>2, <2>3, ReaderKeeps DEF LimitInv, TypeOK
  <2> QED BY <2>4, <1>1, <1>3
<1>4. CASE OpenPage(p)
  <2>1. ReadUser(p, "user") /\ Begin(p) /\ UNCHANGED <<day, rows, owner, told, changes, crossed>>
        BY <1>4 DEF OpenPage
  <2>2. /\ DOMAIN tx' = Readers /\ tx' = [q \in Readers |-> tx'[q]]
        /\ \A q \in Readers : IsTx(tx'[q])
        /\ \A q \in Readers : q # p => tx'[q] = tx[q] /\ pc'[q] = pc[q]
        /\ pc' = [pc EXCEPT ![p] = "user"]
        /\ tx'[p].user = user /\ tx'[p].day = IF pc[p] = "idle" THEN day ELSE tx[p].day
        BY <1>1, <2>1, AfterReadUser
  <2>3. /\ seen' = [q \in Readers |-> seen'[q]]
        /\ \A q \in Readers : q # p => seen'[q] = seen[q]
    <3>1. PICK s : seen' = [seen EXCEPT ![p] = s]
          BY <2>1 DEF Begin
    <3> QED BY <3>1, <1>1 DEF Shape
  <2>4. pc' \in [Readers -> Steps]
        BY <2>2, <1>1 DEF Steps
  <2> QED BY <1>2, <1>3, <2>1, <2>2, <2>3, <2>4
<1>5. CASE ComputePage(p)
  <2>1. UNCHANGED <<day, rows, owner, told, history>> /\ (ReadGrants(p) \/ ReadOverrides(p))
        BY <1>5 DEF ComputePage, ReadGrants, ReadOverrides
  <2>2. PICK step \in {"grants", "override"} :
        /\ DOMAIN tx' = Readers /\ tx' = [q \in Readers |-> tx'[q]]
        /\ \A q \in Readers : IsTx(tx'[q])
        /\ \A q \in Readers : q # p => tx'[q] = tx[q] /\ pc'[q] = pc[q]
        /\ pc' = [pc EXCEPT ![p] = step]
        /\ tx'[p].day = tx[p].day /\ tx'[p].user = tx[p].user
        BY <1>1, <2>1, AfterReadGrants, AfterReadOverrides
  <2>3. pc' \in [Readers -> Steps]
        BY <2>2, <1>1 DEF Steps
  <2>4. seen' = seen /\ crossed' = crossed /\ changes' = changes
        BY <2>1 DEF history
  <2> QED BY <1>1, <1>2, <1>3, <2>1, <2>2, <2>3, <2>4 DEF Shape
<1>6. CASE ShowPage(p)
  <2>1. Finish(p) /\ UNCHANGED <<day, rows, owner, told, changes>>
        /\ crossed' = [crossed EXCEPT ![p] = 0]
        BY <1>6 DEF ShowPage
  <2>2. Beside
        BY <1>1, <2>1, AfterFinish
  <2> QED BY <1>3, <2>1, <2>2
<1>7. UNCHANGED <<rows, owner, told>>
      BY DEF Compute, OpenPage, ComputePage, ShowPage, ReadGrants, ReadOverrides
<1> QED BY <1>4, <1>5, <1>6, <1>7 DEF Compute

\* What has been read keeps meaning the day it was read for.
LEMMA MidnightKeeps == ASSUME LimitInv, Midnight PROVE LimitInv'
<1>1. day' \in Days /\ UNCHANGED <<rows, owner, pc, tx, told, history>>
      BY DayLimitAssumption DEF Midnight, LimitInv, TypeOK, Days
<1> QED BY <1>1 DEF LimitInv, TypeOK, Shape, Counted, ReadSoFar, GateOpen, InForceOn, InForce,
                    rows, history

LEMMA LimitStep == LimitInv /\ [Next]_vars => LimitInv'
<1> SUFFICES ASSUME LimitInv, [Next]_vars PROVE LimitInv'
    OBVIOUS
<1>1. CASE Administer
      BY <1>1, ChangeKeeps
<1>2. CASE Midnight
      BY <1>2, MidnightKeeps
<1>3. ASSUME NEW v \in Devices, Sync(v) PROVE LimitInv'
      BY <1>3, AskKeeps, LockKeeps, EffectiveDailyLimitKeeps, AnswerKeeps DEF Sync
<1>4. ASSUME NEW p \in Pages, Compute(p) PROVE LimitInv'
      BY <1>4, ComputeKeeps
<1>5. CASE UNCHANGED vars
  <2>1. /\ day' = day /\ user' = user /\ grants' = grants /\ override' = override
        /\ released' = released /\ owner' = owner /\ pc' = pc /\ tx' = tx
        /\ changes' = changes /\ seen' = seen /\ crossed' = crossed
        BY <1>5 DEF vars, rows, history
  <2>2. TypeOK' /\ Shape' /\ Counted'
        BY <2>1 DEF LimitInv, TypeOK, Shape, Counted
  <2>3. \A v \in Devices : owner = v => ReadSoFar(v)'
        BY <2>1 DEF LimitInv, ReadSoFar, GateOpen, InForceOn, InForce
  <2> QED BY <2>1, <2>2, <2>3 DEF LimitInv
<1> QED BY <1>1, <1>2, <1>3, <1>4, <1>5 DEF Next

\* At most one sync of the user is between taking his row and its answer, and it is the
\* one that holds it; rows, copies and counters have their types.
THEOREM TypeCorrect == Spec => []TypeOK
<1>1. LimitInv => TypeOK
      BY DEF LimitInv
<1> QED BY <1>1, LimitInit, LimitStep, PTL DEF Spec

-----------------------------------------------------------------------------
(***************************************************************************)
(* The refinement.                                                         *)
(***************************************************************************)
LimitOf == [d \in Days |-> InForce(d)]
ReadingOf == IF owner = None THEN None ELSE [device |-> owner, day |-> tx[owner].day]
SeenOf == IF owner = None THEN {} ELSE {limits[tx[owner].day] : limits \in seen[owner]}

LEMMA RegisterUnfolded ==
    /\ Register!Init <=> /\ LimitOf \in [Days -> Nat] /\ ReadingOf = None /\ SeenOf = {}
                         /\ told = [v \in Devices |-> None]
    /\ Register!Change <=>
          /\ LimitOf' \in [Days -> Nat]
          /\ SeenOf' = IF ReadingOf = None THEN {} ELSE SeenOf \cup {LimitOf'[ReadingOf.day]}
          /\ ReadingOf' = ReadingOf /\ told' = told
    /\ \A v \in Devices, d \in Days : Register!Read(v, d) <=>
          /\ ReadingOf = None
          /\ ReadingOf' = [device |-> v, day |-> d] /\ SeenOf' = {LimitOf[d]}
          /\ LimitOf' = LimitOf /\ told' = told
    /\ Register!Answer <=>
          /\ ReadingOf # None
          /\ \E s \in SeenOf : told' = [told EXCEPT ![ReadingOf.device] =
                                           [day |-> ReadingOf.day, limit |-> s]]
          /\ ReadingOf' = None /\ SeenOf' = {} /\ LimitOf' = LimitOf
    /\ Register!vars = <<LimitOf, ReadingOf, SeenOf, told>>
BY DEF LimitOf, ReadingOf, SeenOf, Register!Init, Register!Change, Register!Read,
       Register!Answer, Register!vars

\* The hub starts with a limit for every day and nobody asking.
LEMMA RegisterInit == Init => Register!Init
<1> SUFFICES ASSUME Init PROVE Register!Init
    OBVIOUS
<1>1. RowsTyped
      BY LimitInit DEF LimitInv, TypeOK, RowsTyped
<1>2. LimitOf \in [Days -> Nat]
      BY <1>1, RegisterHoldsSeconds DEF LimitOf
<1> QED BY <1>2, RegisterUnfolded DEF Init, ReadingOf, SeenOf

\* Whoever changes a row changes the register, whether or not a device is being answered.
LEMMA ChangesTheRegister ==
    ASSUME LimitInv, Administer PROVE Register!Change
<1>1. Committed /\ RowsTyped'
      BY ChangesWait DEF LimitInv
<1>2. LimitOf' \in [Days -> Nat]
  <2> SUFFICES ASSUME NEW d \in Days PROVE InForce(d)' \in Nat
      BY DEF LimitOf
  <2>1. (Weekday(d) \in user'.gated /\ d \notin released') \in BOOLEAN
        OBVIOUS
  <2> QED BY <1>1, <2>1, InForceIsSeconds DEF RowsTyped, InForce
<1>3. UNCHANGED <<owner, tx, told>>
      BY <1>1 DEF Committed
<1>4. ReadingOf' = ReadingOf /\ told' = told
      BY <1>3 DEF ReadingOf
<1>5. SeenOf' = IF ReadingOf = None THEN {} ELSE SeenOf \cup {LimitOf'[ReadingOf.day]}
  <2>1. CASE owner = None
        BY <2>1, <1>3 DEF SeenOf, ReadingOf
  <2>2. ASSUME NEW v \in Devices, owner = v
        PROVE  SeenOf' = IF ReadingOf = None THEN {} ELSE SeenOf \cup {LimitOf'[ReadingOf.day]}
    <3> DEFINE d == tx[v].day
    <3>1. v \in Readers /\ d \in Days /\ seen[v] # {} /\ owner # None
          BY <2>2, NoReaderIsNone DEF Readers, LimitInv, TypeOK, ReadSoFar
    <3>2. seen'[v] = seen[v] \cup {InForceOn(DaysOf(v, d))'}
          BY <1>1, <3>1 DEF Committed
    <3>3. InForceOn(DaysOf(v, d))'[d] = LimitOf'[d]
          BY <3>1, <1>3, ItsOwnDay DEF InForceOn, LimitOf
    <3>4. SeenOf = {limits[d] : limits \in seen[v]} /\ SeenOf' = {limits[d] : limits \in seen'[v]}
          BY <2>2, <3>1, <1>3 DEF SeenOf
    <3>5. ReadingOf = [device |-> v, day |-> d] /\ ReadingOf # None /\ ReadingOf.day = d
          BY <2>2, <3>1, DayLimitAssumption DEF ReadingOf
    <3> HIDE DEF d
    <3>6. SeenOf' = SeenOf \cup {LimitOf'[d]}
          BY <3>2, <3>3, <3>4
    <3> QED BY <3>5, <3>6
  <2> QED BY <2>1, <2>2 DEF LimitInv, TypeOK
<1> QED BY <1>2, <1>4, <1>5, RegisterUnfolded

\* Rows that stay as they are stay the limit they are.
LEMMA LimitStays == ASSUME UNCHANGED rows PROVE LimitOf' = LimitOf
BY DEF rows, LimitOf, InForce

\* Taking the row is when the device's question is put.
LEMMA LockReadsTheRegister ==
    ASSUME LimitInv, NEW v \in Devices, Lock(v)
    PROVE  \E d \in Days : Register!Read(v, d)
<1> DEFINE d == tx[v].day
<1>1. owner = None /\ owner' = v /\ tx'[v].day = d /\ seen'[v] = {InForceOn(DaysOf(v, d))}
      BY LockKeeps
<1>2. UNCHANGED rows /\ told' = told /\ d \in Days
      BY DEF Lock, LimitInv, TypeOK, Readers
<1>3. ReadingOf = None /\ ReadingOf' = [device |-> v, day |-> d]
      BY <1>1, NoReaderIsNone DEF ReadingOf
<1>4. SeenOf' = {LimitOf[d]}
  <2>1. InForceOn(DaysOf(v, d))[d] = LimitOf[d]
        BY <1>2, ItsOwnDay DEF InForceOn, LimitOf
  <2>2. SeenOf' = {limits[d] : limits \in seen'[v]}
        BY <1>1, NoReaderIsNone DEF SeenOf
  <2> HIDE DEF d
  <2> QED BY <1>1, <2>1, <2>2
<1>5. LimitOf' = LimitOf
      BY <1>2, LimitStays
<1> HIDE DEF d
<1> QED BY <1>2, <1>3, <1>4, <1>5, RegisterUnfolded

\* What the device is told was in force since.
LEMMA AnswerIsTheRegisters ==
    ASSUME LimitInv, NEW v \in Devices, Answer(v) PROVE Register!Answer
<1> DEFINE d == tx[v].day
<1>1. owner = v /\ owner # None /\ owner' = None /\ pc[v] = "grants" /\ UNCHANGED rows
      /\ told' = [told EXCEPT ![v] = [day |-> d, limit |-> Computed(v)[d]]]
      BY AnswerKeeps, NoReaderIsNone DEF Answer
<1>2. d \in Days
      BY DEF LimitInv, TypeOK, Readers
<1>3. ReadingOf = [device |-> v, day |-> d] /\ ReadingOf # None
      BY <1>1, <1>2, DayLimitAssumption DEF ReadingOf
<1>4. Computed(v)[d] \in SeenOf
  <2>1. PICK s \in seen[v] : s[d] = Computed(v)[d]
        BY <1>1, AnswerWasInForce
  <2> QED BY <1>1, <2>1 DEF SeenOf
<1>5. ReadingOf' = None /\ SeenOf' = {} /\ LimitOf' = LimitOf
      BY <1>1, LimitStays DEF ReadingOf, SeenOf
<1> HIDE DEF d
<1> QED BY <1>1, <1>3, <1>4, <1>5, RegisterUnfolded

\* The reads in between, the pages and midnight do not show.
LEMMA TheRestDoesNotShow ==
    ASSUME LimitInv, UNCHANGED <<rows, owner, told>>,
           \A v \in Devices : owner = v => tx'[v].day = tx[v].day /\ seen'[v] = seen[v]
    PROVE  UNCHANGED Register!vars
<1>1. LimitOf' = LimitOf /\ owner' = owner /\ told' = told
      BY LimitStays
<1>2. ReadingOf' = ReadingOf /\ SeenOf' = SeenOf
  <2>1. CASE owner = None
        BY <1>1, <2>1 DEF ReadingOf, SeenOf
  <2>2. ASSUME NEW v \in Devices, owner = v
        PROVE  ReadingOf' = ReadingOf /\ SeenOf' = SeenOf
    <3>1. tx'[v].day = tx[v].day /\ seen'[v] = seen[v] /\ owner' = v /\ v # None
          BY <1>1, <2>2, NoReaderIsNone
    <3>2. ReadingOf = [device |-> v, day |-> tx[v].day]
          /\ ReadingOf' = [device |-> v, day |-> tx'[v].day]
          BY <2>2, <3>1 DEF ReadingOf
    <3>3. SeenOf = {limits[tx[v].day] : limits \in seen[v]}
          /\ SeenOf' = {limits[tx'[v].day] : limits \in seen'[v]}
          BY <2>2, <3>1 DEF SeenOf
    <3> QED BY <3>1, <3>2, <3>3
  <2> QED BY <2>1, <2>2 DEF LimitInv, TypeOK
<1>3. Register!vars = <<LimitOf, ReadingOf, SeenOf, told>>
      BY RegisterUnfolded
<1>4. Register!vars' = <<LimitOf', ReadingOf', SeenOf', told'>>
      BY DEF LimitOf, ReadingOf, SeenOf, Register!vars
<1> QED BY <1>1, <1>2, <1>3, <1>4

LEMMA RegisterStep == LimitInv /\ [Next]_vars => [Register!Next]_(Register!vars)
<1> SUFFICES ASSUME LimitInv, [Next]_vars PROVE Register!Next \/ UNCHANGED Register!vars
    OBVIOUS
<1>1. CASE Administer
      BY <1>1, ChangesTheRegister DEF Register!Next
<1>2. CASE Midnight
      BY <1>2, TheRestDoesNotShow DEF Midnight, history
<1>3. ASSUME NEW v \in Devices, Sync(v)
      PROVE  Register!Next \/ UNCHANGED Register!vars
  <2>1. CASE Ask(v)
    <3>1. owner # v /\ UNCHANGED <<rows, owner, told>> /\ seen' = seen
          BY <2>1 DEF Ask, history, LimitInv, TypeOK
    <3>2. \A w \in Devices : w # v => tx'[w] = tx[w]
          BY <2>1 DEF Ask, ReadUser, Readers, LimitInv, Shape
    <3> QED BY <3>1, <3>2, TheRestDoesNotShow
  <2>2. CASE Lock(v)
        BY <2>2, LockReadsTheRegister DEF Register!Next
  <2>3. CASE EffectiveDailyLimit(v)
        BY <2>3, EffectiveDailyLimitKeeps, TheRestDoesNotShow DEF history
  <2>4. CASE Answer(v)
        BY <2>4, AnswerIsTheRegisters DEF Register!Next
  <2> QED BY <1>3, <2>1, <2>2, <2>3, <2>4 DEF Sync
<1>4. ASSUME NEW p \in Pages, Compute(p)
      PROVE  Register!Next \/ UNCHANGED Register!vars
      BY <1>4, ComputeKeeps, TheRestDoesNotShow
<1>5. CASE UNCHANGED vars
      BY <1>5, TheRestDoesNotShow DEF vars, history
<1> QED BY <1>1, <1>2, <1>3, <1>4, <1>5 DEF Next

\* The five rows are one register, for any number of devices, pages, policies, gates,
\* overrides and grants: what effective_daily_limit reads under the lock of the user's
\* row, row after row, is a limit that was in force while the lock was held.
THEOREM OneRegisterHolds == Spec => OneRegister
BY LimitInit, LimitStep, RegisterInit, RegisterStep, PTL DEF Spec, OneRegister, Register!Spec

-----------------------------------------------------------------------------
(***************************************************************************)
(* Forms and pages (HubPages).                                             *)
(***************************************************************************)
\* What a reader can have in his form: minutes the policy's form can show, for each
\* weekday those of a policy of its own; the gated weekdays.
IsForm(f) ==
    /\ DOMAIN f = {"fields", "touched", "filled"}
    /\ f.fields \in {Weekdays, {Gated}} /\ f.touched \subseteq f.fields
    /\ DOMAIN f.filled = f.fields
    /\ f.fields = Weekdays =>
          \A w \in Weekdays : \E limits \in Policies : f.filled[w] = Shown(limits[w])
    /\ f.fields = {Gated} => f.filled[Gated] \in Gates

FormsTyped ==
    /\ form = [b \in Browsers |-> form[b]]
    /\ \A b \in Browsers : form[b] = None \/ IsForm(form[b])

WantedTyped ==
    /\ wanted = [f \in Fields |-> wanted[f]] /\ \A w \in Weekdays : wanted[w] \in Nat
    /\ undone \subseteq Fields

\* A limit that has been cut down to whole minutes is not cut again.
AsWanted ==
    /\ \A w \in Weekdays \ undone :
          user.limits[w] \in {wanted[w], Entered(Shown(wanted[w]))}
    /\ Gated \notin undone => user.gated = wanted[Gated]

FormsInv == LimitInv /\ FormsTyped /\ WantedTyped /\ AsWanted

-----------------------------------------------------------------------------
LEMMA GatedIsNoWeekday ==
    Gated \notin Weekdays /\ Weekdays # {Gated} /\ Fields = Weekdays \cup {Gated}
<1>1. Week \in Nat \ {0}
      BY DayLimitAssumption
<1>2. 1 \in Weekdays /\ 0 \notin Weekdays
      BY <1>1 DEF Weekdays
<1> QED BY <1>2 DEF Gated, Fields

\* A form shows the whole minutes of a limit, and what it shows it writes back as it is.
LEMMA WholeMinutes ==
    ASSUME NEW s \in Nat
    PROVE  /\ Shown(s) \in Nat /\ Entered(Shown(s)) \in Nat
           /\ Entered(Shown(s)) <= s /\ s - Minute + 1 <= Entered(Shown(s))
<1>1. Minute \in Nat \ {0}
      BY HubPagesAssumption
<1>2. s \div Minute \in Nat /\ s % Minute \in 0..Minute - 1
      BY <1>1
<1>3. s = Minute * (s \div Minute) + (s % Minute)
      BY <1>1
<1>4. (s \div Minute) * Minute = s - (s % Minute)
      BY <1>1, <1>2, <1>3
<1> DEFINE m == s \div Minute
           r == s % Minute
<1>5. m * Minute = s - r /\ m \in Nat /\ r \in 0..Minute - 1
      BY <1>2, <1>4
<1>6. Shown(s) = m /\ Entered(m) = m * Minute
      BY DEF Shown, Entered
<1> HIDE DEF m, r
<1>7. Entered(m) \in Int /\ Entered(m) = s - r /\ r >= 0 /\ r <= Minute - 1
      BY <1>1, <1>5, <1>6
<1>8. m * Minute \in Nat
      BY <1>1, <1>5
<1> QED BY <1>1, <1>5, <1>6, <1>7, <1>8

LEMMA ShownAsEntered == ASSUME NEW m \in Nat PROVE Shown(Entered(m)) = m
<1>1. Minute \in Nat \ {0}
      BY HubPagesAssumption
<1>2. (m * Minute) \div Minute = m
      BY <1>1
<1> QED BY <1>2 DEF Shown, Entered

LEMMA PolicyIsSeconds == ASSUME NEW limits \in Policies, NEW w \in Weekdays PROVE limits[w] \in Nat
BY DayLimitAssumption

\* What the policy's form writes is a policy.
LEMMA FormIsPolicy ==
    ASSUME NEW f, IsForm(f), f.fields = Weekdays
    PROVE  [w \in Weekdays |-> Entered(f.filled[w])] \in Policies
<1>1. \A w \in Weekdays : \E limits \in Policies : f.filled[w] = Shown(limits[w])
      BY DEF IsForm
<1> DEFINE of == [w \in Weekdays |-> CHOOSE limits \in Policies : f.filled[w] = Shown(limits[w])]
<1>2. \A w \in Weekdays : of[w] \in Policies /\ f.filled[w] = Shown(of[w][w])
      BY <1>1
<1>3. of \in [Weekdays -> Policies]
      BY <1>2
<1> HIDE DEF of
<1>4. [w \in Weekdays |-> (of[w][w] \div Minute) * Minute] \in Policies
      BY <1>3, HubPagesAssumption
<1>5. [w \in Weekdays |-> Entered(f.filled[w])]
         = [w \in Weekdays |-> (of[w][w] \div Minute) * Minute]
      BY <1>2 DEF Shown, Entered
<1> QED BY <1>4, <1>5

LEMMA UserIsTyped ==
    ASSUME user \in Row
    PROVE  /\ user.limits \in Policies /\ user.gated \in Gates
           /\ \A w \in Weekdays : user.limits[w] \in Nat
BY DayLimitAssumption DEF Row

-----------------------------------------------------------------------------
LEMMA FormsStart == FormsInit => FormsInv
<1> SUFFICES ASSUME FormsInit PROVE FormsInv
    OBVIOUS
<1>1. Init /\ form = [b \in Browsers |-> None] /\ undone = {}
      /\ wanted = [f \in Fields |-> Value(user, f)]
      BY DEF FormsInit
<1>2. LimitInv
      BY <1>1, LimitInit
<1>3. \A w \in Weekdays : user.limits[w] \in Nat
      BY <1>2, UserIsTyped DEF LimitInv, TypeOK
<1>4. /\ \A w \in Weekdays : wanted[w] = user.limits[w]
      /\ wanted[Gated] = user.gated
      BY <1>1, GatedIsNoWeekday DEF Value
<1>5. FormsTyped
      BY <1>1 DEF FormsTyped
<1>6. WantedTyped
      BY <1>1, <1>3, <1>4 DEF WantedTyped
<1>7. AsWanted
      BY <1>4 DEF AsWanted
<1> QED BY <1>2, <1>5, <1>6, <1>7 DEF FormsInv

\* GET: the form shows what the user's row holds.
LEMMA OpenKeeps ==
    ASSUME FormsInv, NEW b \in Browsers, NEW fields \in {Weekdays, {Gated}}, OpenForm(b, fields)
    PROVE  FormsTyped'
<1> DEFINE filled == [f \in fields |-> ShownOf(user, f)]
           f == [fields |-> fields, touched |-> {}, filled |-> filled]
<1>1. form' = [form EXCEPT ![b] = f]
      BY DEF OpenForm
<1>2. /\ user.limits \in Policies /\ user.gated \in Gates
      BY UserIsTyped DEF FormsInv, LimitInv, TypeOK
<1>3. fields = Weekdays => \A w \in Weekdays : filled[w] = Shown(user.limits[w])
      BY GatedIsNoWeekday DEF ShownOf
<1>4. fields = {Gated} => filled[Gated] = user.gated
      BY DEF ShownOf
<1>5. DOMAIN filled = fields
      OBVIOUS
<1> HIDE DEF filled
<1>6. IsForm(f)
      BY <1>2, <1>3, <1>4, <1>5 DEF IsForm
<1> HIDE DEF f
<1> QED BY <1>1, <1>6 DEF FormsInv, FormsTyped

\* A reader fills in what the form offers.
LEMMA FillKeeps ==
    ASSUME FormsInv, NEW b \in Browsers, NEW g, NEW value, Fill(b, g, value),
           \/ g \in Weekdays /\ \E limits \in Policies : value = Shown(limits[g])
           \/ g = Gated /\ value \in Gates
    PROVE  FormsTyped'
<1> DEFINE filled == [form[b].filled EXCEPT ![g] = value]
           f == [form[b] EXCEPT !.touched = {g}, !.filled = filled]
<1>1. form' = [form EXCEPT ![b] = f]
      BY DEF Fill
<1>2. IsForm(form[b]) /\ g \in form[b].fields
      BY DEF Fill, FormsInv, FormsTyped
<1>3. /\ DOMAIN filled = form[b].fields /\ filled[g] = value
      /\ \A h \in form[b].fields : h # g => filled[h] = form[b].filled[h]
      BY <1>2 DEF IsForm
<1> HIDE DEF filled
<1>4. /\ DOMAIN f = {"fields", "touched", "filled"} /\ f.fields = form[b].fields
      /\ f.touched = {g} /\ f.filled = filled
      BY <1>2 DEF IsForm
<1> HIDE DEF f
<1>5. IsForm(f)
  <2>1. f.fields \in {Weekdays, {Gated}} /\ f.touched \subseteq f.fields
        BY <1>2, <1>4 DEF IsForm
  <2>2. ASSUME f.fields = Weekdays, NEW w \in Weekdays
        PROVE  \E limits \in Policies : f.filled[w] = Shown(limits[w])
    <3>1. CASE w = g
          BY <3>1, <1>3, <1>4, GatedIsNoWeekday
    <3>2. CASE w # g
          BY <3>2, <2>2, <1>2, <1>3, <1>4 DEF IsForm
    <3> QED BY <3>1, <3>2
  <2>3. f.fields = {Gated} => f.filled[Gated] \in Gates
        BY <1>2, <1>3, <1>4, GatedIsNoWeekday
  <2> QED BY <1>3, <1>4, <2>1, <2>2, <2>3 DEF IsForm
<1> QED BY <1>1, <1>5 DEF FormsInv, FormsTyped

\* POST: every field of the form is written, one sync having to wait or none.
LEMMA SaveKeeps ==
    ASSUME FormsInv, NEW b \in Browsers, SaveForm(b)
    PROVE  FormsInv'
<1>1. IsForm(form[b]) /\ owner = None /\ Committed /\ user' = Written(b)
      /\ UNCHANGED <<grants, override, released>> /\ form' = [form EXCEPT ![b] = None]
      BY DEF SaveForm, RowFree, FormsInv, FormsTyped
<1>2. /\ user.limits \in Policies /\ user.gated \in Gates /\ user \in Row
      /\ \A w \in Weekdays : user.limits[w] \in Nat
      BY UserIsTyped DEF FormsInv, LimitInv, TypeOK
<1>3. /\ user' \in Row
      /\ form[b].fields = {Gated} =>
            user'.gated = form[b].filled[Gated] /\ user'.limits = user.limits
      /\ form[b].fields = Weekdays =>
            /\ \A w \in Weekdays : user'.limits[w] = Entered(form[b].filled[w])
            /\ user'.gated = user.gated
  <2>1. CASE form[b].fields = {Gated}
    <3>1. user' = [user EXCEPT !.gated = form[b].filled[Gated]]
          BY <1>1, <2>1 DEF Written, Submitted
    <3>2. form[b].filled[Gated] \in Gates
          BY <1>1, <2>1 DEF IsForm
    <3> QED BY <2>1, <3>1, <3>2, <1>2, GatedIsNoWeekday DEF Row
  <2>2. CASE form[b].fields = Weekdays
    <3> DEFINE limits == [w \in Weekdays |-> Entered(form[b].filled[w])]
    <3>1. [w \in Weekdays |-> Submitted(b, w)] = limits
          BY GatedIsNoWeekday DEF Submitted
    <3>2. user' = [user EXCEPT !.limits = limits]
          BY <1>1, <2>2, <3>1, GatedIsNoWeekday DEF Written
    <3>3. limits \in Policies /\ \A w \in Weekdays : limits[w] = Entered(form[b].filled[w])
          BY <1>1, <2>2, FormIsPolicy
    <3> HIDE DEF limits
    <3> QED BY <2>2, <3>2, <3>3, <1>2, GatedIsNoWeekday DEF Row
  <2> QED BY <1>1, <2>1, <2>2 DEF IsForm
<1>4. LimitInv'
  <2>1. RowsTyped'
        BY <1>1, <1>3 DEF RowsTyped, FormsInv, LimitInv, TypeOK
  <2> QED BY <1>1, <2>1, CommittedKeeps DEF FormsInv
<1>5. FormsTyped'
      BY <1>1 DEF FormsInv, FormsTyped
<1>6. /\ \A f \in Fields : wanted'[f] = IF f \in form[b].touched THEN Value(user', f) ELSE wanted[f]
      /\ wanted' = [f \in Fields |-> wanted'[f]]
      /\ undone' = (undone \ form[b].touched)
                    \cup {f \in form[b].fields \ form[b].touched :
                             form[b].filled[f] # ShownOf(user, f)}
      BY DEF SaveForm
<1>7. \A w \in Weekdays : user'.limits[w] \in Nat
      BY <1>3, DayLimitAssumption DEF Row
<1>8. WantedTyped'
  <2>1. \A w \in Weekdays : wanted'[w] \in Nat
        BY <1>6, <1>7, GatedIsNoWeekday DEF Value, FormsInv, WantedTyped
  <2>2. undone' \subseteq Fields
        BY <1>1, <1>6, GatedIsNoWeekday DEF IsForm, FormsInv, WantedTyped
  <2> QED BY <1>6, <2>1, <2>2 DEF WantedTyped
<1>9. AsWanted'
  <2>1. ASSUME NEW w \in Weekdays, w \notin undone'
        PROVE  user'.limits[w] \in {wanted'[w], Entered(Shown(wanted'[w]))}
    <3>1. CASE w \in form[b].touched
          BY <3>1, <1>6, GatedIsNoWeekday DEF Value
    <3>2. CASE w \in form[b].fields \ form[b].touched
      <4>1. w \notin undone /\ form[b].filled[w] = Shown(user.limits[w]) /\ wanted'[w] = wanted[w]
            BY <3>2, <2>1, <1>6, GatedIsNoWeekday DEF ShownOf
      <4>2. user'.limits[w] = Entered(Shown(user.limits[w]))
            BY <4>1, <3>2, <1>1, <1>3, GatedIsNoWeekday DEF IsForm
      <4>3. user.limits[w] \in {wanted[w], Entered(Shown(wanted[w]))} /\ wanted[w] \in Nat
            BY <4>1 DEF FormsInv, AsWanted, WantedTyped
      <4>4. Shown(Entered(Shown(wanted[w]))) = Shown(wanted[w])
            BY <4>3, WholeMinutes, ShownAsEntered
      <4> QED BY <4>1, <4>2, <4>3, <4>4
    <3>3. CASE w \notin form[b].fields
      <4>1. user'.limits = user.limits /\ w \notin form[b].touched
            BY <3>3, <1>1, <1>3 DEF IsForm
      <4>2. w \notin undone /\ wanted'[w] = wanted[w]
            BY <4>1, <2>1, <1>6, GatedIsNoWeekday
      <4> QED BY <4>1, <4>2 DEF FormsInv, AsWanted
    <3> QED BY <3>1, <3>2, <3>3
  <2>2. ASSUME Gated \notin undone' PROVE user'.gated = wanted'[Gated]
    <3>1. CASE Gated \in form[b].touched
          BY <3>1, <1>6, GatedIsNoWeekday DEF Value
    <3>2. CASE Gated \in form[b].fields \ form[b].touched
          BY <3>2, <2>2, <1>1, <1>3, <1>6, GatedIsNoWeekday
             DEF ShownOf, FormsInv, AsWanted, IsForm
    <3>3. CASE Gated \notin form[b].fields
          BY <3>3, <2>2, <1>1, <1>3, <1>6, GatedIsNoWeekday DEF FormsInv, AsWanted, IsForm
    <3> QED BY <3>1, <3>2, <3>3
  <2> QED BY <2>1, <2>2 DEF AsWanted
<1> QED BY <1>4, <1>5, <1>8, <1>9 DEF FormsInv

\* Changes made with the API, and everything that changes neither form nor user.
LEMMA ElsewhereKeeps ==
    ASSUME FormsInv, Elsewhere
    PROVE  FormsInv'
<1>1. LimitInv'
      BY LimitStep DEF Elsewhere, FormsInv
<1>2. \A w \in Weekdays : user'.limits[w] \in Nat
      BY <1>1, DayLimitAssumption DEF LimitInv, TypeOK, Row
<1>3. /\ form' = form /\ wanted' = [f \in Fields |-> wanted'[f]]
      /\ \A f \in Fields : wanted'[f] = IF Value(user', f) # Value(user, f)
                                       THEN Value(user', f) ELSE wanted[f]
      /\ undone' = {f \in undone : Value(user', f) = Value(user, f)}
      BY DEF Elsewhere
<1>4. /\ \A w \in Weekdays : Value(user, w) = user.limits[w] /\ Value(user', w) = user'.limits[w]
      /\ Value(user, Gated) = user.gated /\ Value(user', Gated) = user'.gated
      BY GatedIsNoWeekday DEF Value
<1>5. WantedTyped'
      BY <1>2, <1>3, <1>4, GatedIsNoWeekday DEF FormsInv, WantedTyped
<1>6. AsWanted'
      BY <1>3, <1>4, GatedIsNoWeekday DEF FormsInv, AsWanted
<1> QED BY <1>1, <1>3, <1>5, <1>6 DEF FormsInv, FormsTyped

LEMMA FormsStep == FormsInv /\ [FormsNext]_<<vars, forms>> => FormsInv'
<1> SUFFICES ASSUME FormsInv, [FormsNext]_<<vars, forms>> PROVE FormsInv'
    OBVIOUS
<1>1. CASE Elsewhere
      BY <1>1, ElsewhereKeeps
<1>2. ASSUME UNCHANGED <<vars, wanted, undone>>, FormsTyped' PROVE FormsInv'
  <2>1. UNCHANGED vars /\ wanted' = wanted /\ undone' = undone /\ user' = user
        BY <1>2 DEF vars, rows
  <2>2. LimitInv'
        BY <2>1, LimitStep DEF FormsInv
  <2> QED BY <1>2, <2>1, <2>2 DEF FormsInv, WantedTyped, AsWanted
<1>3. ASSUME NEW b \in Browsers, NEW fields \in {Weekdays, {Gated}}, OpenForm(b, fields)
      PROVE  FormsInv'
      BY <1>3, <1>2, OpenKeeps DEF OpenForm
<1>4. ASSUME NEW b \in Browsers, NEW w \in Weekdays, NEW limits \in Policies,
             Fill(b, w, Shown(limits[w]))
      PROVE  FormsInv'
      BY <1>4, <1>2, FillKeeps DEF Fill
<1>5. ASSUME NEW b \in Browsers, NEW gated \in Gates, Fill(b, Gated, gated)
      PROVE  FormsInv'
      BY <1>5, <1>2, FillKeeps DEF Fill
<1>6. ASSUME NEW b \in Browsers, SaveForm(b) PROVE FormsInv'
      BY <1>6, SaveKeeps
<1>7. CASE UNCHANGED <<vars, forms>>
      BY <1>7, <1>2 DEF forms, FormsInv, FormsTyped
<1> QED BY <1>1, <1>3, <1>4, <1>5, <1>6, <1>7 DEF FormsNext

\* An open form holds a field for each of its row and nothing else; what the policy's form
\* writes is a policy again, so that rows, copies and counters keep their types.
THEOREM FormsTypeCorrect == FormsSpec => []FormsTypeOK
<1>1. FormsInv => FormsTypeOK
  <2>1. WantedTyped => DOMAIN wanted = Fields
        BY DEF WantedTyped
  <2> QED BY <2>1 DEF FormsInv, LimitInv, FormsTyped, WantedTyped, IsForm, FormsTypeOK
<1> QED BY <1>1, FormsStart, FormsStep, PTL DEF FormsSpec

\* update_policy_ui, update_user_settings_ui write every field of the page.  Whatever else
\* is open or saved, in any number of browsers: a limit nobody has put back is within a
\* minute of what was last asked for, the gated weekdays are as asked for.
THEOREM EditsStand == FormsSpec => []LastEditStands
<1>1. FormsInv => LastEditStands
  <2> SUFFICES ASSUME FormsInv, NEW f \in Fields, f \notin undone
               PROVE  IF f = Gated THEN user.gated = wanted[f]
                      ELSE user.limits[f] \in (wanted[f] - Minute + 1)..wanted[f]
      BY DEF LastEditStands
  <2>1. CASE f = Gated
        BY <2>1 DEF FormsInv, AsWanted
  <2>2. CASE f \in Weekdays
    <3>1. wanted[f] \in Nat /\ user.limits[f] \in {wanted[f], Entered(Shown(wanted[f]))}
          BY <2>2 DEF FormsInv, AsWanted, WantedTyped
    <3> DEFINE cut == Entered(Shown(wanted[f]))
    <3>2. cut \in Nat /\ cut <= wanted[f] /\ wanted[f] - Minute + 1 <= cut
          BY <3>1, WholeMinutes
    <3>3. user.limits[f] \in {wanted[f], cut} /\ Minute \in Nat \ {0}
          BY <3>1, HubPagesAssumption
    <3> HIDE DEF cut
    <3>4. user.limits[f] \in (wanted[f] - Minute + 1)..wanted[f]
          BY <3>1, <3>2, <3>3
    <3> QED BY <3>4, <2>2, GatedIsNoWeekday
  <2> QED BY <2>1, <2>2, GatedIsNoWeekday
<1> QED BY <1>1, FormsStart, FormsStep, PTL DEF FormsSpec

-----------------------------------------------------------------------------
(***************************************************************************)
(* Pages.                                                                  *)
(***************************************************************************)
\* The figures a page will show if nothing changes until then: what it has read, and for
\* the rest the rows as they are.
BaseOf(p, d) ==
    IF pc[p] = "override" THEN tx[p].base[d]
    ELSE IF override[d] = None THEN BaseDailyLimit(tx[p].user, d) ELSE override[d]

BonusOf(p, d) == IF pc[p] \in {"grants", "override"} THEN tx[p].grants[d] ELSE grants[d]

View(p) ==
    [d \in DaysOf(p, tx[p].day) |->
        CombineLimit(BaseOf(p, d), BonusOf(p, d), IsGatedWeekday(tx[p].user, d), d \in released)]

\* Nothing the page has read has been changed since.
UpToDate(p) ==
    /\ tx[p].user = user
    /\ \A d \in DaysOf(p, tx[p].day) :
          /\ pc[p] \in {"grants", "override"} => tx[p].grants[d] = grants[d]
          /\ pc[p] = "override" =>
                tx[p].base[d] = IF override[d] = None THEN BaseDailyLimit(tx[p].user, d)
                                ELSE override[d]

PageInv(p) ==
    /\ pc[p] # "asked" /\ (pc[p] = "idle" => crossed[p] = 0)
    /\ pc[p] # "idle" =>
          /\ InForceOn(DaysOf(p, tx[p].day)) \in seen[p]
          /\ crossed[p] = 0 => UpToDate(p)
          /\ crossed[p] < 2 => View(p) \in seen[p]

PagesInv == \A p \in Pages : PageInv(p)

LEMMA UpToDateShowsItsMoment ==
    ASSUME NEW p, UpToDate(p)
    PROVE  View(p) = InForceOn(DaysOf(p, tx[p].day))
<1> SUFFICES ASSUME NEW d \in DaysOf(p, tx[p].day)
             PROVE  CombineLimit(BaseOf(p, d), BonusOf(p, d), IsGatedWeekday(tx[p].user, d),
                                 d \in released) = InForce(d)
    BY DEF View, InForceOn
<1>1. BaseOf(p, d) = IF override[d] = None THEN user.limits[Weekday(d)] ELSE override[d]
      BY DEF UpToDate, BaseOf, BaseDailyLimit
<1>2. BonusOf(p, d) = grants[d]
      BY DEF UpToDate, BonusOf
<1>3. IsGatedWeekday(tx[p].user, d) <=> Weekday(d) \in user.gated
      BY DEF UpToDate, IsGatedWeekday
<1> QED BY <1>1, <1>2, <1>3 DEF CombineLimit, InForce

\* A change is of one row.
OneRowChanges ==
    \/ UNCHANGED <<grants, override, released>> \/ UNCHANGED <<user, override, released>>
    \/ UNCHANGED <<user, grants, released>> \/ UNCHANGED <<user, grants, override>>

\* A page that was up to date will show, whatever has been changed, what was in force
\* before the change or what is in force after it: either it had read the row or it had not.
LEMMA OneChangeIsSeenOrNot ==
    ASSUME NEW p, UpToDate(p), OneRowChanges, UNCHANGED <<pc, tx>>
    PROVE  View(p)' \in {InForceOn(DaysOf(p, tx[p].day)), InForceOn(DaysOf(p, tx[p].day))'}
<1> DEFINE D == DaysOf(p, tx[p].day)
<1>1. View(p) = InForceOn(D)
      BY UpToDateShowsItsMoment
<1>2. tx[p]' = tx[p] /\ pc[p]' = pc[p]
      OBVIOUS
<1>3. CASE UNCHANGED <<grants, override, released>>
  <2>1. View(p)' = View(p)
        BY <1>2, <1>3 DEF View, BaseOf, BonusOf
  <2> QED BY <1>1, <2>1
<1>4. CASE UNCHANGED <<user, override, released>>
  <2>1. CASE pc[p] \in {"grants", "override"}
    <3>1. View(p)' = View(p)
          BY <1>2, <1>4, <2>1 DEF View, BaseOf, BonusOf
    <3> QED BY <1>1, <3>1
  <2>2. CASE pc[p] \notin {"grants", "override"}
        BY <1>2, <1>4, <2>2 DEF UpToDate, View, InForceOn, InForce, BaseOf, BonusOf,
           CombineLimit, IsGatedWeekday, BaseDailyLimit
  <2> QED BY <2>1, <2>2
<1>5. CASE UNCHANGED <<user, grants, released>>
  <2>1. CASE pc[p] = "override"
    <3>1. View(p)' = View(p)
          BY <1>2, <1>5, <2>1 DEF View, BaseOf, BonusOf
    <3> QED BY <1>1, <3>1
  <2>2. CASE pc[p] # "override"
        BY <1>2, <1>5, <2>2 DEF UpToDate, View, InForceOn, InForce, BaseOf, BonusOf,
           CombineLimit, IsGatedWeekday, BaseDailyLimit
  <2> QED BY <2>1, <2>2
<1>6. CASE UNCHANGED <<user, grants, override>>
      BY <1>2, <1>6 DEF UpToDate, View, InForceOn, InForce, BaseOf, BonusOf,
         CombineLimit, IsGatedWeekday, BaseDailyLimit
<1> QED BY <1>3, <1>4, <1>5, <1>6 DEF OneRowChanges

LEMMA AChangeIsOfOneRow == (Administer \/ \E b \in Browsers : SaveForm(b)) => OneRowChanges
BY DEF Administer, UpdatePolicy, UpdateSettings, CreateGrant, SetDayOverride, ClearDayOverride,
       ReleaseGate, UnreleaseGate, SaveForm, OneRowChanges

LEMMA ChangeKeepsPages ==
    ASSUME LimitInv, NEW p \in Pages, PageInv(p), Committed, OneRowChanges
    PROVE  PageInv(p)'
<1>1. UNCHANGED <<pc, tx>> /\ p \in Readers /\ crossed[p] \in Nat
      /\ crossed' = [q \in Pages |-> IF pc[q] = "idle" THEN 0 ELSE crossed[q] + 1]
      BY DayLimitAssumption DEF Committed, Readers, LimitInv, TypeOK
<1>2. CASE pc[p] = "idle"
      BY <1>1, <1>2 DEF PageInv
<1>3. CASE pc[p] # "idle"
  <2> DEFINE now == InForceOn(DaysOf(p, tx[p].day))
  <2>1. now \in seen[p] /\ crossed'[p] = crossed[p] + 1
        BY <1>1, <1>3 DEF PageInv
  <2>2. seen'[p] = seen[p] \cup {now'}
        BY <2>1, <1>1 DEF Committed
  <2>3. crossed'[p] < 2 => View(p)' \in seen'[p]
    <3> SUFFICES ASSUME crossed'[p] < 2 PROVE View(p)' \in seen'[p]
        OBVIOUS
    <3>1. crossed[p] = 0
          BY <1>1, <2>1
    <3>2. UpToDate(p)
          BY <3>1, <1>3 DEF PageInv
    <3>3. View(p)' \in {now, now'}
          BY <3>2, <1>1, OneChangeIsSeenOrNot
    <3> HIDE DEF now
    <3> QED BY <2>1, <2>2, <3>3
  <2>4. crossed'[p] # 0
        BY <1>1, <2>1
  <2>5. now' \in seen'[p]
        BY <2>2
  <2> QED BY <1>1, <1>3, <2>3, <2>4, <2>5 DEF PageInv
<1> QED BY <1>2, <1>3

\* What others do to their own copies does not show on the page.
LEMMA OthersKeepPage ==
    ASSUME NEW p, PageInv(p), UNCHANGED rows, tx'[p] = tx[p], pc'[p] = pc[p],
           seen'[p] = seen[p], crossed'[p] = crossed[p]
    PROVE  PageInv(p)'
<1>1. UNCHANGED <<user, grants, override, released>>
      BY DEF rows
<1>2. View(p)' = View(p) /\ (UpToDate(p) => UpToDate(p)')
      BY <1>1 DEF View, BaseOf, BonusOf, UpToDate
<1>3. InForceOn(DaysOf(p, tx[p].day))' = InForceOn(DaysOf(p, tx[p].day))
      BY <1>1 DEF InForceOn, InForce
<1> QED BY <1>2, <1>3 DEF PageInv

LEMMA PageKeepsItself ==
    ASSUME LimitInv, NEW p \in Pages, PageInv(p), Compute(p)
    PROVE  PageInv(p)'
<1>1. p \in Readers /\ Shape /\ pc = [r \in Readers |-> pc[r]] /\ UNCHANGED <<rows, owner>>
      BY ComputeKeeps DEF Readers, LimitInv, TypeOK
<1>2. UNCHANGED <<user, grants, override, released>>
      BY <1>1 DEF rows
<1>3. CASE OpenPage(p)
  <2>1. pc[p] = "idle" /\ ReadUser(p, "user") /\ Begin(p) /\ crossed' = crossed
        BY <1>3 DEF OpenPage
  <2>2. pc'[p] = "user" /\ tx'[p].user = user
        BY <2>1, <1>1, AfterReadUser
  <2>3. seen'[p] = {InForceOn(DaysOf(p, tx'[p].day))}
        BY <2>1, <1>1 DEF Begin, Shape
  <2>4. InForceOn(DaysOf(p, tx[p].day))' = InForceOn(DaysOf(p, tx'[p].day))
        BY <1>2 DEF InForceOn, InForce
  <2>5. UpToDate(p)'
        BY <1>2, <2>2 DEF UpToDate
  <2>6. View(p)' = InForceOn(DaysOf(p, tx[p].day))'
        BY <1>2, <2>2 DEF View, BaseOf, BonusOf, InForceOn, InForce, CombineLimit,
           IsGatedWeekday, BaseDailyLimit
  <2> QED BY <2>2, <2>3, <2>4, <2>5, <2>6 DEF PageInv
<1>4. CASE pc[p] = "user" /\ ReadGrants(p)
  <2>1. /\ pc'[p] = "grants" /\ tx'[p].day = tx[p].day /\ tx'[p].user = tx[p].user
        /\ tx'[p].grants = [d \in DaysOf(p, tx[p].day) |-> grants[d]]
        BY <1>1, <1>4, AfterReadGrants
  <2>2. View(p)' = View(p) /\ (UpToDate(p) => UpToDate(p)')
        BY <1>2, <1>4, <2>1 DEF View, BaseOf, BonusOf, UpToDate
  <2>3. InForceOn(DaysOf(p, tx[p].day))' = InForceOn(DaysOf(p, tx[p].day))
        BY <1>2, <2>1 DEF InForceOn, InForce
  <2>4. seen' = seen /\ crossed' = crossed
        BY <1>4 DEF ReadGrants, history
  <2> QED BY <1>4, <2>1, <2>2, <2>3, <2>4 DEF PageInv
<1>5. CASE pc[p] = "grants" /\ ReadOverrides(p)
  <2>1. /\ pc'[p] = "override" /\ tx'[p].day = tx[p].day /\ tx'[p].user = tx[p].user
        /\ tx'[p].base = [d \in DaysOf(p, tx[p].day) |->
                              IF override[d] = None THEN BaseDailyLimit(tx[p].user, d)
                              ELSE override[d]]
        BY <1>1, <1>5, AfterReadOverrides
  <2>2. tx'[p].grants = tx[p].grants
        BY <1>1, <1>5 DEF ReadOverrides, Shape, IsTx
  <2>3. View(p)' = View(p) /\ (UpToDate(p) => UpToDate(p)')
        BY <1>2, <1>5, <2>1, <2>2 DEF View, BaseOf, BonusOf, UpToDate
  <2>4. InForceOn(DaysOf(p, tx[p].day))' = InForceOn(DaysOf(p, tx[p].day))
        BY <1>2, <2>1 DEF InForceOn, InForce
  <2>5. seen' = seen /\ crossed' = crossed
        BY <1>5 DEF ReadOverrides, history
  <2> QED BY <1>5, <2>1, <2>2, <2>3, <2>4, <2>5 DEF PageInv
<1>6. CASE ShowPage(p)
  <2>1. pc'[p] = "idle" /\ crossed'[p] = 0
        BY <1>1, <1>6 DEF ShowPage, Finish, LimitInv, TypeOK
  <2> QED BY <2>1 DEF PageInv
<1> QED BY <1>3, <1>4, <1>5, <1>6 DEF Compute, ComputePage

LEMMA ReadersAreApart ==
    ASSUME LimitInv, NEW p \in Pages, NEW r \in Readers, r # p,
           (r \in Devices /\ Sync(r)) \/ (r \in Pages /\ Compute(r))
    PROVE  UNCHANGED rows /\ tx'[p] = tx[p] /\ pc'[p] = pc[p] /\ seen'[p] = seen[p]
           /\ crossed'[p] = crossed[p]
<1>1. /\ p \in Readers /\ p \in DOMAIN tx /\ p \in DOMAIN pc
      /\ p \in DOMAIN seen /\ p \in DOMAIN crossed
  <2>1. DOMAIN seen = Readers
        BY DEF LimitInv, Shape
  <2> QED BY <2>1 DEF Readers, LimitInv, Shape, TypeOK
<1>2. ASSUME NEW step, ReadUser(r, step) PROVE tx'[p] = tx[p] /\ pc'[p] = pc[p]
      BY <1>1, <1>2 DEF ReadUser
<1>3. ReadGrants(r) \/ ReadOverrides(r) => /\ tx'[p] = tx[p] /\ pc'[p] = pc[p] /\ UNCHANGED rows
                                           /\ seen' = seen /\ crossed' = crossed
      BY <1>1 DEF ReadGrants, ReadOverrides, history
<1>4. Begin(r) => seen'[p] = seen[p]
      BY <1>1 DEF Begin
<1>5. Finish(r) => tx'[p] = tx[p] /\ pc'[p] = pc[p] /\ seen'[p] = seen[p]
      BY <1>1 DEF Finish
<1>6. CASE r \in Devices /\ Sync(r)
      BY <1>2, <1>3, <1>4, <1>5, <1>6
         DEF Sync, Ask, Lock, EffectiveDailyLimit, Answer, history
<1>7. CASE r \in Pages /\ Compute(r)
  <2>1. CASE OpenPage(r)
        BY <2>1, <1>2, <1>4 DEF OpenPage
  <2>2. CASE ComputePage(r)
        BY <2>2, <1>3 DEF ComputePage
  <2>3. CASE ShowPage(r)
        BY <2>3, <1>1, <1>5 DEF ShowPage
  <2> QED BY <1>7, <2>1, <2>2, <2>3 DEF Compute
<1> QED BY <1>6, <1>7

LEMMA PagesStart == Init => PagesInv
BY DEF Init, PagesInv, PageInv, Readers

LEMMA PagesStep ==
    ASSUME LimitInv, PagesInv, [FormsNext]_<<vars, forms>> PROVE PagesInv'
<1> SUFFICES ASSUME NEW p \in Pages PROVE PageInv(p)'
    BY DEF PagesInv
<1>0. PageInv(p) /\ p \in Readers
      BY DEF PagesInv, Readers
<1>1. CASE Administer \/ \E b \in Browsers : SaveForm(b)
  <2>1. Committed
        BY <1>1, ChangesWait DEF LimitInv, SaveForm
  <2> QED BY <1>0, <1>1, <2>1, AChangeIsOfOneRow, ChangeKeepsPages
<1>2. CASE Midnight
      BY <1>0, <1>2, OthersKeepPage DEF Midnight, history
<1>3. ASSUME NEW v \in Devices, Sync(v) PROVE PageInv(p)'
  <2>1. v \in Readers /\ v # p
        BY DayLimitAssumption DEF Readers
  <2> QED BY <1>0, <1>3, <2>1, ReadersAreApart, OthersKeepPage
<1>4. ASSUME NEW q \in Pages, Compute(q) PROVE PageInv(p)'
  <2>1. q \in Readers
        BY DEF Readers
  <2>2. CASE q = p
        BY <1>0, <1>4, <2>2, PageKeepsItself
  <2>3. CASE q # p
        BY <1>0, <1>4, <2>1, <2>3, ReadersAreApart, OthersKeepPage
  <2> QED BY <2>2, <2>3
<1>5. CASE UNCHANGED vars
      BY <1>0, <1>5, OthersKeepPage DEF vars, history
<1> QED BY <1>1, <1>2, <1>3, <1>4, <1>5 DEF FormsNext, Elsewhere, Next, OpenForm, Fill

\* When a page makes its last read, that of the releases, its figures are its view.
LEMMA ShownFiguresAreOfOneMoment ==
    ASSUME PagesInv, NEW p \in Pages, pc[p] = "override", crossed[p] < 2
    PROVE  Computed(p) \in seen[p]
<1>1. View(p) \in seen[p]
      BY DEF PagesInv, PageInv
<1>2. Computed(p) = View(p)
      BY DEF Computed, View, BaseOf, BonusOf
<1> QED BY <1>1, <1>2

\* summaries.py reads a user's rows one after the other under no lock, while policies,
\* settings, grants, overrides and releases change, with the API and with any number of
\* forms: with no more than one change in between, the figures of the page, those of the
\* past days too, are what was in force at one moment.
THEOREM PagesShowOneMoment == FormsSpec => PageIsOneMoment
<1> DEFINE OneMoment == \A p \in Pages :
       pc[p] = "override" /\ pc'[p] = "idle" /\ crossed[p] < 2 => Computed(p) \in seen[p]
<1>1. FormsInit => PagesInv
      BY PagesStart DEF FormsInit
<1>2. FormsInv /\ PagesInv /\ [FormsNext]_<<vars, forms>> => PagesInv'
      BY PagesStep DEF FormsInv
<1>3. FormsInv /\ PagesInv /\ [FormsNext]_<<vars, forms>> => [OneMoment]_vars
      BY ShownFiguresAreOfOneMoment DEF FormsInv
<1> QED BY <1>1, <1>2, <1>3, FormsStart, FormsStep, PTL DEF FormsSpec, PageIsOneMoment
=============================================================================
