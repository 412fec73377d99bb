------------------------- MODULE UsageLedgerProofs -------------------------
(***************************************************************************)
(* For any number of devices, any length of an outage and any number of    *)
(* restarts: the union of the spans is no more than the counters and, of   *)
(* one user, no less than they say but for what never had a span.          *)
(***************************************************************************)
EXTENDS UsageLedger, FiniteSetTheorems, FunctionTheorems, SequenceTheorems, TLAPS

\* Where spans of user u on device d can be: on the hub, in requests that may still get
\* there, in the buffers in memory and in state.json, in the tick under way.
OnHub(d, u) ==
    {[start |-> i.start, end |-> i.end] : i \in {i \in intervals : i.user = u /\ i.dev = d}}
Sent(d, u) == UNION {Reported(r, u) : r \in {r \in net : r.dev = d}}
Buffers(d, u) == ToSet(mem[d][u].pending) \cup ToSet(disk[d][u].pending)
Current(d, u) == IF tick[d] = NoRequest THEN {} ELSE {tick[d].span[u]}
Spans(d, u) == (OnHub(d, u) \cup Sent(d, u) \cup Buffers(d, u) \cup Current(d, u)) \ {NoSpan}

\* Counters and stamps of a device against the clock and the last tick.
Timely(d, u) ==
    /\ spent[d][u] <= now
    /\ \A s \in {mem[d][u], disk[d][u]} :
          s.last <= polled[d] /\ (s.day = Today => s.raw <= spent[d][u])
    /\ disk[d][u].day <= mem[d][u].day /\ mem[d][u].day <= Today

\* What is known of a tick that has sent its request: it was made at the last tick.
UnderWay(d) ==
    IF pc[d] \in {"sent", "replied"}
    THEN /\ tick[d] \in Request /\ tick[d].dev = d
         /\ tick[d].at = polled[d] /\ polled[d] > 0
         /\ \A u \in Users :
               /\ tick[d].pending[u] = mem[d][u].pending
               /\ tick[d].span[u] = NoSpan \/ tick[d].span[u].end = polled[d]
               /\ mem[d][u].day = DayOf(polled[d])
    ELSE tick[d] = NoRequest

\* A second of a device is the end of at most one span, and spans have a length.
SpansDiffer(d, u) ==
    \A s, t \in Spans(d, u) :
        s.start < s.end /\ s.end <= polled[d] /\ (s.end = t.end => s = t)

LedgerInv ==
    /\ TypeOK
    /\ \A d \in Devices : polled[d] <= now /\ UnderWay(d)
    /\ \A d \in Devices, u \in Users : Timely(d, u) /\ SpansDiffer(d, u)

\* Spans of a day up to a moment.
UpTo(spans, day, t) == {s \in spans : DayOf(s.end) = day /\ s.end <= t}
Measured(spans, day, t) == Cardinality(Covered(UpTo(spans, day, t)))

\* What the agent's counter of a day, a request's and the hub's account for: the spans
\* up to the last tick, up to the request's, up to the latest row.
Counted(d, u) ==
    /\ \A s \in Spans(d, u) : DayOf(s.end) <= mem[d][u].day
    /\ \A day \in Days :
          day = mem[d][u].day => Measured(Spans(d, u), day, polled[d]) <= mem[d][u].cum
    /\ \A r \in net : r.dev = d =>
          /\ r.at <= polled[d] /\ Measured(Spans(d, u), DayOf(r.at), r.at) <= r.cum[u]
          /\ \A s \in Reported(r, u) \ {NoSpan} : s.end <= r.at
    /\ \A day \in Days : \E t \in 0..polled[d] :
          /\ Measured(Spans(d, u), day, t) <= counter[u][d][day]
          /\ \A i \in intervals :
                i.user = u /\ i.dev = d /\ i.day = day /\ DayOf(i.end) = day => i.end <= t

CountInv == restarted = {} => \A d \in Devices, u \in Users : Counted(d, u)

\* The spans that back a state: those of today on the hub and in its buffer.
Held(d, u, pending) ==
    {s \in OnHub(d, u) \cup ToSet(pending) : DayOf(s.end) = Today}

\* A counter of today is backed by the spans up to some moment, since when timekpr can
\* have counted no more than has passed.
Backing(spans, t) == Cardinality(Covered({x \in spans : x.end <= t}))
Backs(spans, moment, lag, cum, unbacked) ==
    \E t \in 0..moment : lag <= moment - t /\ cum <= Backing(spans, t) + unbacked
Backed(d, u, s, spans) ==
    s.day = Today => Backs(spans, now, spent[d][u] - s.raw, s.cum, unspanned[d][u])

\* An answer says that the hub has every span of the request.
Delivered(d, u) ==
    pc[d] = "replied" => Reported(tick[d], u) \ {NoSpan} \subseteq OnHub(d, u)

BackedOf(d, u) ==
    /\ Backed(d, u, mem[d][u], Held(d, u, mem[d][u].pending) \cup Current(d, u))
    /\ Backed(d, u, disk[d][u], Held(d, u, disk[d][u].pending))
    /\ Delivered(d, u)

BackedInv == \A d \in Devices, u \in Users : BackedOf(d, u)

\* The key of a row has no user: of two users of a device whose spans end at the same
\* second one would lose his.
NoSharedEnd ==
    \A d \in Devices, u, v \in Users : u # v =>
        \A s \in Spans(d, u), t \in Spans(d, v) : s.end # t.end

-----------------------------------------------------------------------------
LEMMA Bounds ==
    /\ {MaxPending, Midnight, MaxNow, MaxFaults} \subseteq Nat /\ MaxPending > 0
    /\ 0 \in Second /\ Second \subseteq Nat
<1>1. {MaxPending, Midnight, MaxNow, MaxFaults} \subseteq Nat /\ MaxPending > 0
      BY UsageLedgerAssumption
<1> QED BY <1>1 DEF Second

LEMMA DayOfInOrder ==
    ASSUME NEW s \in Int, NEW t \in Int, s <= t
    PROVE  DayOf(s) \in Days /\ DayOf(s) <= DayOf(t)
<1> QED BY Bounds DEF DayOf, Days

LEMMA Larger ==
    ASSUME NEW a \in Int, NEW b \in Int
    PROVE  Max({a, b}) = IF a >= b THEN a ELSE b
<1> DEFINE m == IF a >= b THEN a ELSE b
<1>1. m \in {a, b} /\ \A y \in {a, b} : m >= y
      OBVIOUS
<1>2. \A x \in {a, b} : (\A y \in {a, b} : x >= y) => x = m
      OBVIOUS
<1> QED BY <1>1, <1>2 DEF Max

\* What is covered of a finite stretch of time is finite, and grows with the spans.
LEMMA CoveredFinite ==
    ASSUME NEW S \in SUBSET Span
    PROVE  IsFiniteSet(Covered(S)) /\ Cardinality(Covered(S)) \in Nat
<1>1. IsFiniteSet(0..MaxNow)
      BY Bounds, FS_Interval
<1>2. Covered(S) \subseteq 0..MaxNow
  <2> SUFFICES ASSUME NEW s \in S, NEW x \in Seconds(s) PROVE x \in 0..MaxNow
      BY DEF Covered
  <2>1. s.start \in 0..MaxNow /\ s.end \in 0..MaxNow
        BY DEF Span, Second
  <2> QED BY <2>1, Bounds DEF Seconds
<1> QED BY <1>1, <1>2, FS_Subset, FS_CardinalityType

LEMMA CoveredGrows ==
    ASSUME NEW T \in SUBSET Span, NEW S \in SUBSET T
    PROVE  Cardinality(Covered(S)) <= Cardinality(Covered(T))
<1>1. Covered(S) \subseteq Covered(T)
      BY DEF Covered
<1> QED BY <1>1, CoveredFinite, FS_Subset

\* One more span adds at most its length, and all of it if it is apart from the rest.
LEMMA CoveredAdds ==
    ASSUME NEW S \in SUBSET Span, NEW x \in Span, x.start <= x.end
    PROVE  /\ Length(x) \in Nat
           /\ Cardinality(Covered(S \cup {x})) <= Cardinality(Covered(S)) + Length(x)
           /\ (\A s \in S : s.end <= x.start) =>
                 Cardinality(Covered(S \cup {x})) = Cardinality(Covered(S)) + Length(x)
<1>1. x.start \in Nat /\ x.end \in Nat
      BY Bounds DEF Span
<1>2. Length(x) \in Nat /\ IsFiniteSet(Seconds(x)) /\ Cardinality(Seconds(x)) = Length(x)
  <2>1. IsFiniteSet(x.start..(x.end - 1))
        /\ Cardinality(x.start..(x.end - 1))
             = IF x.start > x.end - 1 THEN 0 ELSE (x.end - 1) - x.start + 1
    <3>1. x.start \in Int /\ x.end - 1 \in Int
          BY <1>1
    <3> QED BY <3>1, FS_Interval
  <2> QED BY <1>1, <2>1 DEF Length, Seconds
<1>3. Covered(S \cup {x}) = Covered(S) \cup Seconds(x)
      BY DEF Covered
<1>4. IsFiniteSet(Covered(S)) /\ Cardinality(Covered(S)) \in Nat
      BY CoveredFinite
<1> DEFINE both == Covered(S) \cap Seconds(x)
<1>5. IsFiniteSet(both) /\ Cardinality(both) \in Nat
      BY <1>4, FS_Intersection, FS_CardinalityType
<1>6. Cardinality(Covered(S \cup {x})) = Cardinality(Covered(S)) + Length(x) - Cardinality(both)
      BY <1>2, <1>3, <1>4, FS_Union
<1>7. ASSUME \A s \in S : s.end <= x.start PROVE both = {}
  <2> SUFFICES ASSUME NEW s \in S, NEW y \in Seconds(s), y \in Seconds(x) PROVE FALSE
      BY DEF Covered
  <2>1. s.start \in Nat /\ s.end \in Nat /\ s.end <= x.start
        BY <1>7, Bounds DEF Span
  <2> QED BY <1>1, <2>1 DEF Seconds
<1>8. Cardinality({}) = 0
      BY FS_EmptySet
<1> DEFINE b == Cardinality(both)
<1>9. b \in Nat /\ ((\A s \in S : s.end <= x.start) => b = 0)
      BY <1>5, <1>7, <1>8
<1>10. Cardinality(Covered(S \cup {x})) = Cardinality(Covered(S)) + Length(x) - b
      BY <1>6
<1> HIDE DEF b
<1> QED BY <1>2, <1>4, <1>9, <1>10

\* _buffer_unsent_span: the buffer keeps all but the oldest span, which goes when the
\* buffer is full.
LEMMA BufferedKeeps ==
    ASSUME NEW pending \in Seq(Span), Len(pending) <= MaxPending, NEW span \in Span
    PROVE  /\ Buffered(pending, span) \in Seq(Span)
           /\ Len(Buffered(pending, span)) <= MaxPending
           /\ ToSet(Buffered(pending, span)) \subseteq ToSet(pending) \cup ({span} \ {NoSpan})
           /\ span # NoSpan => span \in ToSet(Buffered(pending, span))
           /\ \A s \in ToSet(pending) \ ToSet(Buffered(pending, span)) :
                 s = Head(pending) /\ span # NoSpan /\ Len(pending) = MaxPending
<1>1. CASE span = NoSpan
      BY <1>1 DEF Buffered
<1>2. CASE span # NoSpan
  <2> DEFINE all == Append(pending, span)
             n == Len(pending)
             first == Max({1, Len(all) - MaxPending + 1})
  <2>1. /\ n \in Nat /\ all \in Seq(Span) /\ Len(all) = n + 1
        /\ \A i \in 1..n : all[i] = pending[i]
        /\ all[n + 1] = span
        OBVIOUS
  <2>2. first = IF n = MaxPending THEN 2 ELSE 1
        BY <2>1, Bounds, Larger
  <2>3. Buffered(pending, span) = SubSeq(all, first, n + 1)
        BY <1>2, <2>1 DEF Buffered
  <2> HIDE DEF first
  <2> DEFINE b == SubSeq(all, first, n + 1)
  <2>4. /\ b \in Seq(Span) /\ Len(b) = n + 2 - first
        /\ \A i \in 1..Len(b) : b[i] = all[i + first - 1]
    <3>1. first \in 1..n + 1 /\ first \in Int /\ n + 1 \in Int
          BY <2>1, <2>2, Bounds
    <3>2. \A i \in first..n + 1 : all[i] \in Span
          BY <2>1, <3>1
    <3>3. /\ b \in Seq(Span) /\ Len(b) = (IF first <= n + 1 THEN n + 1 - first + 1 ELSE 0)
          /\ \A i \in 1..n + 1 - first + 1 : b[i] = all[first + i - 1]
          BY <3>1, <3>2, SubSeqProperties
    <3> HIDE DEF b, first, all, n
    <3>4. n \in Nat
          BY <2>1
    <3> QED BY <3>1, <3>3, <3>4
  <2>5. Len(b) <= MaxPending /\ n \in Nat /\ Len(b) \in Nat /\ first \in {1, 2}
        BY <2>1, <2>2, <2>4, Bounds
  <2>6. DOMAIN b = 1..Len(b) /\ DOMAIN pending = 1..n
        BY <2>4
  <2> HIDE DEF all, b, n, first
  <2>7. span \in ToSet(b)
    <3>1. Len(b) \in 1..Len(b) /\ Len(b) + first - 1 = n + 1
          BY <2>1, <2>2, <2>4, <2>5, Bounds
    <3>2. b[Len(b)] = all[Len(b) + first - 1]
          BY <2>4, <3>1
    <3>3. b[Len(b)] = span
          BY <2>1, <3>1, <3>2
    <3> QED BY <2>6, <3>1, <3>3 DEF ToSet
  <2>8. ToSet(b) \subseteq ToSet(pending) \cup {span}
    <3> SUFFICES ASSUME NEW i \in 1..Len(b) PROVE b[i] \in ToSet(pending) \cup {span}
        BY <2>6 DEF ToSet
    <3>1. b[i] = all[i + first - 1] /\ i + first - 1 \in 1..n + 1
          BY <2>4, <2>5
    <3> DEFINE k == i + first - 1
    <3>2. k \in 1..n \/ k = n + 1
          BY <2>5, <3>1
    <3>3. b[i] = all[k]
          BY <3>1
    <3> HIDE DEF k
    <3>4. b[i] = IF k \in 1..n THEN pending[k] ELSE span
      <4>1. CASE k \in 1..n
            BY <2>1, <3>3, <4>1
      <4>2. CASE k \notin 1..n
            BY <2>1, <3>2, <3>3, <4>2
      <4> QED BY <4>1, <4>2
    <3> QED BY <2>6, <3>4 DEF ToSet
  <2>9. ASSUME NEW s \in ToSet(pending) \ ToSet(b) PROVE s = Head(pending) /\ n = MaxPending
    <3>1. PICK i \in 1..n : s = pending[i]
          BY <2>6 DEF ToSet
    <3>2. i < first
      <4> SUFFICES ASSUME i >= first PROVE FALSE
          BY <2>5
      <4>1. i - first + 1 \in 1..Len(b)
            BY <2>4, <2>5
      <4>2. b[i - first + 1] = pending[i]
            BY <2>1, <2>4, <2>5, <4>1
      <4> QED BY <2>6, <3>1, <4>1, <4>2 DEF ToSet
    <3> QED BY <2>2, <2>5, <3>1, <3>2
  <2> QED BY <1>2, <2>3, <2>4, <2>5, <2>7, <2>8, <2>9 DEF b, n
<1> QED BY <1>1, <1>2

-----------------------------------------------------------------------------
(***************************************************************************)
(* The ledger.                                                             *)
(***************************************************************************)
LEMMA Typed ==
    ASSUME LedgerInv
    PROVE  /\ now \in Nat /\ now <= MaxNow /\ Today \in Days
           /\ spent \in [Devices -> [Users -> Nat]]
           /\ mem \in [Devices -> [Users -> UserState]]
           /\ disk \in [Devices -> [Users -> UserState]]
           /\ pc \in [Devices -> {"idle", "sent", "replied", "save"}]
           /\ tick \in [Devices -> Request \cup {NoRequest}] /\ net \subseteq Request
           /\ polled \in [Devices -> Nat]
           /\ counter \in [Users -> [Devices -> [Days -> Nat]]]
           /\ unspanned \in [Devices -> [Users -> Int]]
<1>1. now \in Second /\ polled \in [Devices -> Second] /\ {mem, disk} \subseteq [Devices -> [Users -> UserState]]
      BY DEF LedgerInv, TypeOK
<1>2. now \in Nat /\ now <= MaxNow /\ polled \in [Devices -> Nat] /\ Today \in Days
      BY <1>1, Bounds DEF Second, Today, DayOf, Days
<1> QED BY <1>1, <1>2 DEF LedgerInv, TypeOK

LEMMA NoSpanIsEmpty ==
    /\ NoSpan \in Span /\ NoSpan.start = 0 /\ NoSpan.end = 0
    /\ Length(NoSpan) = 0 /\ Seconds(NoSpan) = {}
<1>1. NoSpan \in Span /\ NoSpan.start = 0 /\ NoSpan.end = 0
      BY Bounds DEF NoSpan, Span
<1> QED BY <1>1 DEF Length, Seconds

LEMMA SpansTyped ==
    ASSUME LedgerInv, NEW d \in Devices, NEW u \in Users
    PROVE  Spans(d, u) \subseteq Span
<1>1. OnHub(d, u) \subseteq Span
      BY DEF LedgerInv, TypeOK, OnHub, Span
<1>2. \A p \in Seq(Span) : ToSet(p) \subseteq Span
      BY DEF ToSet
<1>3. \A r \in Request : Reported(r, u) \subseteq Span
      BY <1>2 DEF Request, Reported
<1>4. Sent(d, u) \subseteq Span
      BY <1>3, Typed DEF Sent
<1>5. mem[d][u].pending \in Seq(Span) /\ disk[d][u].pending \in Seq(Span)
      BY Typed DEF UserState
<1>6. tick[d] = NoRequest \/ tick[d].span[u] \in Span
      BY Typed DEF Request
<1> QED BY <1>1, <1>2, <1>4, <1>5, <1>6 DEF Spans, Buffers, Current

LEMMA LedgerInit == Init => LedgerInv
<1> SUFFICES ASSUME Init PROVE LedgerInv
    OBVIOUS
<1>1. FreshUserState \in UserState /\ Len(FreshUserState.pending) = 0 /\ ToSet(<<>>) = {}
      BY Bounds DEF FreshUserState, UserState, Days, NoDay, ToSet
<1>2. TypeOK
  <2>1. MaxPending \in Nat /\ 0 \in 0..MaxFaults /\ 0 \in Second
        BY Bounds
  <2> QED BY <1>1, <2>1 DEF Init, TypeOK
<1>3. Today \in Days
      BY Bounds DEF Init, Today, DayOf, Days
<1>4. ASSUME NEW d \in Devices, NEW u \in Users
      PROVE  Timely(d, u) /\ SpansDiffer(d, u)
  <2>1. mem[d][u] = FreshUserState /\ disk[d][u] = FreshUserState /\ spent[d][u] = 0
        /\ polled[d] = 0 /\ now = 0 /\ tick[d] = NoRequest /\ intervals = {} /\ net = {}
        BY DEF Init
  <2>2. Timely(d, u)
        BY <1>3, <2>1 DEF Timely, FreshUserState, Days, NoDay
  <2>3. Spans(d, u) = {}
        BY <1>1, <2>1 DEF Spans, OnHub, Sent, Buffers, Current, FreshUserState
  <2> QED BY <2>2, <2>3 DEF SpansDiffer
<1>5. \A d \in Devices : polled[d] <= now /\ UnderWay(d)
      BY DEF Init, UnderWay
<1> QED BY <1>2, <1>4, <1>5 DEF LedgerInv

\* A step of another device, or of the hub, leaves a device alone.
Untouched(e) ==
    /\ spent'[e] = spent[e] /\ mem'[e] = mem[e] /\ disk'[e] = disk[e]
    /\ pc'[e] = pc[e] /\ tick'[e] = tick[e] /\ polled'[e] = polled[e]

LEMMA SpansLess ==
    ASSUME NEW d \in Devices, NEW u \in Users, SpansDiffer(d, u),
           Spans(d, u)' \subseteq Spans(d, u), polled'[d] = polled[d]
    PROVE  SpansDiffer(d, u)'
<1> QED BY DEF SpansDiffer

\* A step of device d, seen from any other.
LEMMA ElsewhereKeeps ==
    ASSUME LedgerInv, NEW d \in Devices, NEW e \in Devices, e # d, Untouched(e),
           UNCHANGED <<now, intervals>>, \A r \in net' : r \in net \/ r.dev = d
    PROVE  /\ (polled[e] <= now)' /\ UnderWay(e)'
           /\ \A u \in Users : Timely(e, u)' /\ SpansDiffer(e, u)' /\ Spans(e, u)' \subseteq Spans(e, u)
<1>1. Today' = Today
      BY DEF Today
<1>2. (polled[e] <= now)' /\ UnderWay(e)'
      BY DEF LedgerInv, UnderWay, Untouched
<1>3. ASSUME NEW u \in Users
      PROVE  Timely(e, u)' /\ SpansDiffer(e, u)' /\ Spans(e, u)' \subseteq Spans(e, u)
  <2>1. Timely(e, u)'
        BY <1>1 DEF LedgerInv, Timely, Untouched
  <2>2. Sent(e, u)' \subseteq Sent(e, u)
        BY DEF Sent, Reported
  <2>3. Spans(e, u)' \subseteq Spans(e, u)
        BY <2>2 DEF Spans, OnHub, Buffers, Current, Untouched
  <2> QED BY <2>1, <2>3, SpansLess DEF LedgerInv, Untouched
<1> QED BY <1>2, <1>3

\* What a tick makes of one user whose counter gains `burned`.
Ticked(d, u, burned) ==
    /\ burned \in Nat /\ burned <= spent[d][u] /\ spent[d][u] <= now
    /\ mem[d][u].day = Today => burned = spent[d][u] - mem[d][u].raw
    /\ mem[d][u].day # Today /\ mem[d][u].day # NoDay => burned = 0
    /\ mem'[d][u] = [mem[d][u] EXCEPT !.day = Today, !.cum = tick'[d].cum[u], !.raw = spent[d][u]]
    /\ tick'[d].cum[u] = (IF mem[d][u].day = Today THEN mem[d][u].cum + burned ELSE burned)
    /\ tick'[d].pending[u] = mem[d][u].pending
    /\ \/ tick'[d].span[u] = NoSpan
       \/ /\ tick'[d].span[u].start \in now - burned..now - 1 /\ tick'[d].span[u].start >= 0
          /\ tick'[d].span[u].end = now /\ burned > 0
    /\ tick'[d].span[u] \in Span /\ tick'[d].span[u].start <= tick'[d].span[u].end
    /\ Length(tick'[d].span[u]) <= burned
    /\ unspanned'[d][u] = (IF mem[d][u].day = Today THEN unspanned[d][u] ELSE 0)
                             + (burned - Length(tick'[d].span[u]))

LEMMA TickOfUser ==
    ASSUME LedgerInv, NEW d \in Devices, NEW active \in SUBSET Users, Tick(d, active),
           NEW u \in Users
    PROVE  /\ tick'[d].dev = d /\ tick'[d].at = now
           /\ net' = net \cup {tick'[d]} /\ polled'[d] = now /\ now > polled[d]
           /\ \E burned \in Nat : Ticked(d, u, burned)
<1> DEFINE s == mem[d][u]
           b == Burned(s, spent[d][u])
           span == IF u \in active /\ b > 0 THEN Cut(s, b) ELSE NoSpan
<1> SUFFICES /\ tick'[d].dev = d /\ tick'[d].at = now
             /\ net' = net \cup {tick'[d]} /\ polled'[d] = now /\ now > polled[d]
             /\ b \in Nat /\ Ticked(d, u, b)
    OBVIOUS
<1>1. /\ s \in UserState /\ spent[d][u] \in Nat /\ now \in Nat /\ now <= MaxNow
      /\ Today \in Days /\ polled[d] \in Nat /\ now > polled[d]
      BY Typed DEF Tick
<1>2. /\ spent[d][u] <= now /\ s.last <= polled[d]
      /\ s.day = Today => s.raw <= spent[d][u]
      BY DEF LedgerInv, Timely
<1>3. s.raw \in Nat /\ s.cum \in Nat /\ s.last \in Nat /\ NoDay \notin Days
  <2>1. s.raw \in Nat /\ s.cum \in Nat /\ s.last \in Second
        BY <1>1 DEF UserState
  <2>2. NoDay \notin Days
        BY DEF NoDay, Days
  <2> QED BY <2>1, <2>2, Bounds
<1>4. /\ b \in Nat /\ b <= spent[d][u]
      /\ (s.day = Today => b = spent[d][u] - s.raw)
      /\ (s.day # Today /\ s.day # NoDay => b = 0)
  <2>1. CASE s.day = NoDay
        BY <1>1, <1>3, <2>1 DEF Burned
  <2>2. CASE s.day # NoDay /\ s.day # Today
        BY <1>1, <2>2 DEF Burned
  <2>3. CASE s.day = Today
        BY <1>1, <1>2, <1>3, <2>3 DEF Burned
  <2> QED BY <2>1, <2>2, <2>3
<1>5. /\ tick'[d].span[u] = span /\ tick'[d].dev = d /\ tick'[d].at = now
      /\ tick'[d].pending[u] = s.pending
      /\ tick'[d].cum[u] = Cumulative(s, spent[d][u])
      /\ mem'[d][u] = [s EXCEPT !.day = Today, !.cum = tick'[d].cum[u], !.raw = spent[d][u]]
      /\ unspanned'[d][u] = (IF s.day = Today THEN unspanned[d][u] ELSE 0) + (b - Length(span))
      /\ net' = net \cup {tick'[d]} /\ polled'[d] = now
      BY Typed DEF Tick
<1> HIDE DEF s
<1>6. Cumulative(s, spent[d][u]) = IF s.day = Today THEN s.cum + b ELSE b
      BY DEF Cumulative
<1> HIDE DEF b
<1>7. CASE u \in active /\ b > 0
  <2>1. span = Cut(s, b)
        BY <1>7
  <2>2. Cut(s, b).start \in now - b..now - 1 /\ Cut(s, b).start >= 0 /\ Cut(s, b).end = now
    <3>1. Max({now - b, s.last}) = IF now - b >= s.last THEN now - b ELSE s.last
          BY <1>1, <1>3, <1>4, Larger
    <3> QED BY <1>1, <1>2, <1>3, <1>4, <1>7, <3>1 DEF Cut
  <2>3. Cut(s, b) = [start |-> Cut(s, b).start, end |-> now]
        BY DEF Cut
  <2>4. Cut(s, b) \in Span /\ Cut(s, b).start <= Cut(s, b).end /\ Length(Cut(s, b)) <= b
    <3> DEFINE from == Cut(s, b).start
    <3>1. from \in Second /\ now \in Second /\ now - from <= b /\ from <= now
          BY <1>1, <1>4, <2>2, Bounds DEF Second
    <3> HIDE DEF from
    <3>2. Cut(s, b) = [start |-> from, end |-> now]
          BY <2>3 DEF from
    <3> QED BY <3>1, <3>2 DEF Span, Length
  <2> HIDE DEF span
  <2> QED BY <1>1, <1>2, <1>4, <1>5, <1>6, <1>7, <2>1, <2>2, <2>4 DEF s, Ticked
<1>8. CASE ~(u \in active /\ b > 0)
  <2>1. span = NoSpan
        BY <1>8
  <2> HIDE DEF span
  <2> QED BY <1>1, <1>2, <1>4, <1>5, <1>6, <2>1, NoSpanIsEmpty DEF s, Ticked
<1> QED BY <1>7, <1>8

\* A tick adds one span, which ends now.
LEMMA TickSpans ==
    ASSUME LedgerInv, NEW d \in Devices, NEW active \in SUBSET Users, Tick(d, active),
           NEW u \in Users
    PROVE  Spans(d, u)' \subseteq Spans(d, u) \cup ({tick'[d].span[u]} \ {NoSpan})
<1> DEFINE r == tick'[d]
<1>1. /\ r.dev = d /\ r.pending[u] = mem[d][u].pending /\ net' = net \cup {r}
      /\ mem'[d][u].pending = mem[d][u].pending
  <2>1. mem[d][u] \in UserState
        BY Typed
  <2>2. PICK burned \in Nat : Ticked(d, u, burned)
        BY TickOfUser
  <2>3. mem'[d][u].pending = mem[d][u].pending
        BY <2>1, <2>2 DEF Ticked, UserState
  <2> QED BY <2>2, <2>3, TickOfUser DEF Ticked
<1>2. disk' = disk /\ intervals' = intervals
      BY DEF Tick, hubVars
<1> HIDE DEF r
<1>3. Reported(r, u) = ToSet(mem[d][u].pending) \cup {r.span[u]}
      BY <1>1 DEF Reported
<1>4. Sent(d, u)' \subseteq Sent(d, u) \cup ToSet(mem[d][u].pending) \cup {r.span[u]}
      BY <1>1, <1>3 DEF Sent, Reported
<1>5. Current(d, u)' \subseteq {r.span[u]}
      BY DEF Current, r
<1>6. OnHub(d, u)' = OnHub(d, u) /\ Buffers(d, u)' = Buffers(d, u)
      BY <1>1, <1>2 DEF OnHub, Buffers
<1>7. Spans(d, u)' \subseteq Spans(d, u) \cup ({r.span[u]} \ {NoSpan})
      BY <1>4, <1>5, <1>6 DEF Spans, Buffers
<1> QED BY <1>7 DEF r

LEMMA TickKeeps ==
    ASSUME LedgerInv, NEW d \in Devices, NEW active \in SUBSET Users, Tick(d, active)
    PROVE  LedgerInv'
<1> DEFINE r == tick'[d]
<1>1. now' = now /\ spent' = spent /\ disk' = disk /\ intervals' = intervals
      /\ counter' = counter /\ faults' = faults /\ restarted' = restarted
      /\ pc' = [pc EXCEPT ![d] = "sent"] /\ polled' = [polled EXCEPT ![d] = now]
      /\ now > polled[d]
      BY DEF Tick, hubVars
<1>2. ASSUME NEW u \in Users
      PROVE  mem'[d][u] \in UserState /\ mem'[d][u].pending = mem[d][u].pending
             /\ mem'[d][u].day = Today /\ mem'[d][u].raw = spent[d][u]
             /\ mem'[d][u].last = mem[d][u].last
             /\ r.cum[u] \in Nat /\ r.pending[u] \in Seq(Span) /\ r.span[u] \in Span
             /\ unspanned'[d][u] \in Int
  <2>1. mem[d][u] \in UserState /\ spent[d][u] \in Nat /\ Today \in Days /\ unspanned[d][u] \in Int
        BY Typed
  <2>0. PICK burned \in Nat : Ticked(d, u, burned)
        BY TickOfUser
  <2>2. r.cum[u] \in Nat
    <3>1. mem[d][u].cum \in Nat
          BY <2>1 DEF UserState
    <3> QED BY <2>0, <3>1 DEF Ticked
  <2>3. mem'[d][u] = [mem[d][u] EXCEPT !.day = Today, !.cum = r.cum[u], !.raw = spent[d][u]]
        /\ r.pending[u] = mem[d][u].pending /\ r.span[u] \in Span
        BY <2>0 DEF Ticked
  <2>4. unspanned'[d][u] \in Int
    <3>1. r.span[u].start \in Nat /\ r.span[u].end \in Nat
          BY <2>3, Bounds DEF Span
    <3>2. Length(r.span[u]) \in Int
          BY <3>1 DEF Length
    <3> QED BY <2>0, <2>1, <3>2 DEF Ticked
  <2> HIDE DEF r
  <2> QED BY <2>1, <2>2, <2>3, <2>4 DEF UserState
<1>3. r \in Request /\ r.dev = d /\ r.at = now
  <2>1. /\ r = [dev |-> d, at |-> now, cum |-> r.cum, pending |-> r.pending, span |-> r.span]
        /\ r.cum = [u \in Users |-> r.cum[u]] /\ r.pending = [u \in Users |-> r.pending[u]]
        /\ r.span = [u \in Users |-> r.span[u]]
        BY Typed DEF Tick
  <2> HIDE DEF r
  <2>2. now \in Second
        BY DEF LedgerInv, TypeOK
  <2> QED BY <1>2, <2>1, <2>2 DEF Request
<1>4. /\ mem' = [mem EXCEPT ![d] = [u \in Users |-> mem'[d][u]]]
      /\ tick' = [tick EXCEPT ![d] = r] /\ net' = net \cup {r}
      /\ unspanned' = [unspanned EXCEPT ![d] = [u \in Users |-> unspanned'[d][u]]]
      BY Typed DEF Tick
<1> HIDE DEF r
<1>5. mem' \in [Devices -> [Users -> UserState]] /\ unspanned' \in [Devices -> [Users -> Int]]
  <2> DEFINE f == [u \in Users |-> mem'[d][u]]
             g == [u \in Users |-> unspanned'[d][u]]
  <2>1. f \in [Users -> UserState] /\ g \in [Users -> Int]
        BY <1>2
  <2>2. \A h \in [Users -> UserState] : [mem EXCEPT ![d] = h] \in [Devices -> [Users -> UserState]]
        BY Typed
  <2>3. \A h \in [Users -> Int] : [unspanned EXCEPT ![d] = h] \in [Devices -> [Users -> Int]]
        BY Typed
  <2>4. mem' = [mem EXCEPT ![d] = f] /\ unspanned' = [unspanned EXCEPT ![d] = g]
        BY <1>4
  <2> HIDE DEF f, g
  <2> QED BY <2>1, <2>2, <2>3, <2>4
<1>6. TypeOK'
  <2>1. \A e \in Devices, u \in Users : mem'[e][u].pending = mem[e][u].pending
        BY <1>2, <1>4, Typed
  <2>2. now \in Second
        BY DEF LedgerInv, TypeOK
  <2>3. tick' \in [Devices -> Request \cup {NoRequest}] /\ net' \subseteq Request
        BY <1>3, <1>4, Typed
  <2>4. /\ pc' \in [Devices -> {"idle", "sent", "replied", "save"}]
        /\ polled' \in [Devices -> Second]
        BY <1>1, <2>2 DEF LedgerInv, TypeOK
  <2>5. \A e \in Devices, u \in Users :
           Len(mem'[e][u].pending) <= MaxPending /\ Len(disk'[e][u].pending) <= MaxPending
        BY <1>1, <2>1 DEF LedgerInv, TypeOK
  <2>6. restarted' \subseteq Devices /\ {mem', disk'} \subseteq [Devices -> [Users -> UserState]]
        BY <1>1, <1>5, Typed DEF LedgerInv, TypeOK
  <2> QED BY <1>1, <1>5, <2>2, <2>3, <2>4, <2>5, <2>6 DEF LedgerInv, TypeOK
<1>7. ASSUME NEW e \in Devices, e # d
      PROVE  /\ (polled[e] <= now)' /\ UnderWay(e)'
             /\ \A u \in Users : Timely(e, u)' /\ SpansDiffer(e, u)'
  <2>1. Untouched(e)
        BY <1>1, <1>4, <1>7, Typed DEF Untouched
  <2> QED BY <1>1, <1>3, <1>4, <1>7, <2>1, ElsewhereKeeps
<1>8. (polled[d] <= now)' /\ UnderWay(d)'
  <2>1. polled'[d] = now /\ pc'[d] = "sent" /\ tick'[d] = r /\ now > 0 /\ now \in Nat
        BY <1>1, <1>4, Typed
  <2>2. ASSUME NEW u \in Users PROVE r.span[u] = NoSpan \/ r.span[u].end = now
    <3>1. PICK burned \in Nat : Ticked(d, u, burned)
          BY TickOfUser
    <3> QED BY <3>1 DEF r, Ticked
  <2>3. ASSUME NEW u \in Users PROVE r.pending[u] = mem'[d][u].pending
    <3>1. PICK burned \in Nat : Ticked(d, u, burned)
          BY TickOfUser
    <3> QED BY <1>2, <3>1 DEF r, Ticked
  <2> QED BY <1>1, <1>2, <1>3, <2>1, <2>2, <2>3 DEF UnderWay, Today
<1>9. ASSUME NEW u \in Users PROVE Timely(d, u)' /\ SpansDiffer(d, u)'
  <2>1. polled'[d] = now /\ polled[d] \in Nat /\ now \in Nat /\ polled[d] < now
        /\ mem[d][u] \in UserState /\ disk[d][u] \in UserState
        BY <1>1, Typed
  <2>2. Today' = Today /\ Today \in Int /\ spent[d][u] \in Nat
        BY <1>1, Typed DEF Today, Days
  <2>3. Timely(d, u)'
    <3>1. mem[d][u].last \in Nat /\ disk[d][u].last \in Nat
          /\ mem[d][u].day \in Int /\ disk[d][u].day \in Int
      <4>1. \A s \in UserState : s.last \in Second /\ s.day \in Days \cup {NoDay}
            BY DEF UserState
      <4>2. Days \cup {NoDay} \subseteq Int
            BY DEF Days, NoDay
      <4> QED BY <2>1, <4>1, <4>2, Bounds
    <3> QED BY <1>1, <1>2, <2>1, <2>2, <3>1 DEF LedgerInv, Timely
  <2>4. Spans(d, u)' \subseteq Spans(d, u) \cup ({r.span[u]} \ {NoSpan})
        BY TickSpans DEF r
  <2>5. r.span[u] # NoSpan => r.span[u].start < now /\ r.span[u].end = now
    <3>1. PICK burned \in Nat : Ticked(d, u, burned)
          BY TickOfUser
    <3> QED BY <2>1, <3>1 DEF r, Ticked
  <2>6. \A s \in Spans(d, u) : s.start < s.end /\ s.end < now
    <3>1. \A s \in Spans(d, u) : s.end \in Nat
          BY SpansTyped, Bounds DEF Span
    <3> QED BY <2>1, <3>1 DEF LedgerInv, SpansDiffer
  <2>7. \A s, t \in Spans(d, u) : s.end = t.end => s = t
        BY DEF LedgerInv, SpansDiffer
  <2>8. now \in Nat /\ ~(now < now)
        BY <2>1
  <2>9. \A s, t \in Spans(d, u)' : s.start < s.end /\ s.end <= now /\ (s.end = t.end => s = t)
    <3> SUFFICES ASSUME NEW s \in Spans(d, u)', NEW t \in Spans(d, u)'
                 PROVE  s.start < s.end /\ s.end <= now /\ (s.end = t.end => s = t)
        OBVIOUS
    <3>1. s \in Spans(d, u) \/ (s = r.span[u] /\ r.span[u] # NoSpan)
          BY <2>4
    <3>2. t \in Spans(d, u) \/ (t = r.span[u] /\ r.span[u] # NoSpan)
          BY <2>4
    <3>3. \A x \in Spans(d, u) : x.end \in Nat
          BY SpansTyped, Bounds DEF Span
    <3> QED BY <2>1, <2>5, <2>6, <2>7, <3>1, <3>2, <3>3
  <2> QED BY <2>1, <2>3, <2>9 DEF SpansDiffer
<1> QED BY <1>6, <1>7, <1>8, <1>9 DEF LedgerInv

\* The steps of a device after its request has left.
LEMMA AnswerKeeps ==
    ASSUME LedgerInv, NEW d \in Devices, UNCHANGED <<now, spent, polled, net, hubVars>>,
           \A e \in Devices : e # d => Untouched(e),
           pc' \in [Devices -> {"idle", "sent", "replied", "save"}],
           tick' \in [Devices -> Request \cup {NoRequest}], UnderWay(d)',
           mem' \in [Devices -> [Users -> UserState]],
           disk' \in [Devices -> [Users -> UserState]],
           unspanned' \in [Devices -> [Users -> Int]],
           faults' \in 0..MaxFaults, restarted' \subseteq Devices,
           \A u \in Users :
              /\ Len(mem'[d][u].pending) <= MaxPending /\ Len(disk'[d][u].pending) <= MaxPending
              /\ Timely(d, u)' /\ Spans(d, u)' \subseteq Spans(d, u)
    PROVE  LedgerInv' /\ \A e \in Devices, u \in Users : Spans(e, u)' \subseteq Spans(e, u)
<1>1. ASSUME NEW e \in Devices, e # d
      PROVE  /\ (polled[e] <= now)' /\ UnderWay(e)'
             /\ \A u \in Users : Timely(e, u)' /\ SpansDiffer(e, u)' /\ Spans(e, u)' \subseteq Spans(e, u)
             /\ \A u \in Users : Len(mem'[e][u].pending) <= MaxPending
                                 /\ Len(disk'[e][u].pending) <= MaxPending
  <2>1. Untouched(e) /\ UNCHANGED <<now, intervals>>
        BY <1>1 DEF hubVars
  <2>2. \A u \in Users : Len(mem'[e][u].pending) <= MaxPending
                         /\ Len(disk'[e][u].pending) <= MaxPending
        BY <2>1 DEF LedgerInv, TypeOK, Untouched
  <2> QED BY <1>1, <2>1, <2>2, ElsewhereKeeps
<1>2. \A u \in Users : SpansDiffer(d, u)'
      BY SpansLess DEF LedgerInv
<1>3. TypeOK'
      BY <1>1 DEF LedgerInv, TypeOK, hubVars
<1>4. polled' = polled /\ now' = now
      OBVIOUS
<1> QED BY <1>1, <1>2, <1>3, <1>4 DEF LedgerInv

LEMMA StateFields ==
    ASSUME LedgerInv, NEW d \in Devices, NEW u \in Users, NEW s \in {mem[d][u], disk[d][u]}
    PROVE  /\ s \in UserState /\ s.day \in Int /\ s.raw \in Nat /\ s.cum \in Nat
           /\ s.last \in Nat /\ s.pending \in Seq(Span) /\ Len(s.pending) <= MaxPending
<1>1. s \in UserState /\ Len(s.pending) <= MaxPending
      BY Typed DEF LedgerInv, TypeOK
<1>2. Days \cup {NoDay} \subseteq Int
      BY DEF Days, NoDay
<1>3. s.day \in Days \cup {NoDay} /\ s.last \in Second /\ s.raw \in Nat /\ s.cum \in Nat
      /\ s.pending \in Seq(Span)
      BY <1>1 DEF UserState
<1> QED BY <1>1, <1>2, <1>3, Bounds

LEMMA ReceiveKeeps ==
    ASSUME LedgerInv, NEW d \in Devices, Receive(d)
    PROVE  LedgerInv' /\ \A e \in Devices, u \in Users : Spans(e, u)' \subseteq Spans(e, u)
<1> DEFINE new(u) == [mem[d][u] EXCEPT !.pending = <<>>,
                        !.last = IF tick[d].span[u] = NoSpan THEN mem[d][u].last ELSE tick[d].at]
           f == [u \in Users |-> new(u)]
<1>1. /\ mem' = [mem EXCEPT ![d] = f] /\ tick' = [tick EXCEPT ![d] = NoRequest]
      /\ pc' = [pc EXCEPT ![d] = "save"]
      /\ UNCHANGED <<now, spent, disk, polled, net, hubVars, faults, unspanned, restarted>>
  <2>1. UNCHANGED <<now, spent, disk, polled, net, hubVars, faults, unspanned, restarted>>
        BY DEF Receive, historyVars
  <2>2. tick' = [tick EXCEPT ![d] = NoRequest] /\ pc' = [pc EXCEPT ![d] = "save"]
        BY DEF Receive
  <2>3. mem' = [mem EXCEPT ![d] = f]
        BY DEF Receive
  <2> QED BY <2>1, <2>2, <2>3
<1>2. tick[d].at = polled[d] /\ polled[d] \in Second
      BY DEF Receive, LedgerInv, UnderWay, TypeOK
<1>3. ASSUME NEW u \in Users
      PROVE  /\ new(u) \in UserState /\ new(u).pending = <<>> /\ new(u).day = mem[d][u].day
             /\ new(u).raw = mem[d][u].raw /\ new(u).last \in {mem[d][u].last, polled[d]}
  <2> DEFINE m == mem[d][u]
             l == IF tick[d].span[u] = NoSpan THEN m.last ELSE tick[d].at
  <2>1. m \in UserState /\ m.last \in Second
        BY Typed DEF UserState
  <2>2. l \in Second /\ l \in {m.last, polled[d]}
        BY <1>2, <2>1
  <2>3. new(u) = [m EXCEPT !.pending = <<>>, !.last = l]
        OBVIOUS
  <2> HIDE DEF l, m, new
  <2>4. <<>> \in Seq(Span)
        OBVIOUS
  <2> QED BY <2>1, <2>2, <2>3, <2>4 DEF UserState, m
<1> HIDE DEF new
<1>4. f \in [Users -> UserState]
      BY <1>3
<1>5. \A u \in Users : mem'[d][u] = new(u)
      BY <1>1, Typed
<1> HIDE DEF f
<1>6. mem' \in [Devices -> [Users -> UserState]] /\ disk' \in [Devices -> [Users -> UserState]]
      BY <1>1, <1>4, Typed
<1>7. ASSUME NEW u \in Users
      PROVE  /\ Len(mem'[d][u].pending) <= MaxPending /\ Len(disk'[d][u].pending) <= MaxPending
             /\ Timely(d, u)' /\ Spans(d, u)' \subseteq Spans(d, u)
  <2>1. mem'[d][u].pending = <<>> /\ disk' = disk /\ Len(<<>>) = 0
        BY <1>1, <1>3, <1>5
  <2>2. Len(mem'[d][u].pending) <= MaxPending /\ Len(disk'[d][u].pending) <= MaxPending
        BY <2>1, Bounds, StateFields
  <2>3. Timely(d, u)'
    <3>1. polled[d] \in Nat
          BY Typed
    <3>2. Today' = Today /\ spent' = spent /\ now' = now /\ polled' = polled
          BY <1>1 DEF Today
    <3> QED BY <1>3, <1>5, <2>1, <3>1, <3>2 DEF LedgerInv, Timely
  <2>4. Spans(d, u)' \subseteq Spans(d, u)
    <3>1. ToSet(<<>>) = {}
          BY DEF ToSet
    <3>2. tick'[d] = NoRequest
          BY <1>1, Typed
    <3>3. Buffers(d, u)' \subseteq Buffers(d, u) /\ Current(d, u)' = {}
          BY <2>1, <3>1, <3>2 DEF Buffers, Current
    <3>4. OnHub(d, u)' = OnHub(d, u) /\ Sent(d, u)' = Sent(d, u)
          BY <1>1 DEF OnHub, Sent, Reported, hubVars
    <3> QED BY <3>3, <3>4 DEF Spans
  <2> QED BY <2>2, <2>3, <2>4
<1>8. \A e \in Devices : e # d => Untouched(e)
      BY <1>1, Typed DEF Untouched
<1>9. /\ pc' \in [Devices -> {"idle", "sent", "replied", "save"}]
      /\ tick' \in [Devices -> Request \cup {NoRequest}] /\ UnderWay(d)'
      BY <1>1, Typed DEF UnderWay
<1>10. /\ unspanned' \in [Devices -> [Users -> Int]]
       /\ faults' \in 0..MaxFaults /\ restarted' \subseteq Devices
       BY <1>1 DEF LedgerInv, TypeOK
<1> QED BY <1>1, <1>6, <1>7, <1>8, <1>9, <1>10, AnswerKeeps

LEMMA SaveKeeps ==
    ASSUME LedgerInv, NEW d \in Devices, Save(d)
    PROVE  LedgerInv' /\ \A e \in Devices, u \in Users : Spans(e, u)' \subseteq Spans(e, u)
<1>1. /\ disk' = [disk EXCEPT ![d] = mem[d]] /\ pc' = [pc EXCEPT ![d] = "idle"]
      /\ UNCHANGED <<now, spent, mem, tick, polled, net, hubVars, faults, unspanned, restarted>>
      /\ tick[d] = NoRequest
      BY DEF Save, historyVars, LedgerInv, UnderWay
<1>2. \A u \in Users : disk'[d][u] = mem[d][u]
      BY <1>1, Typed
<1>3. ASSUME NEW u \in Users
      PROVE  /\ Len(mem'[d][u].pending) <= MaxPending /\ Len(disk'[d][u].pending) <= MaxPending
             /\ Timely(d, u)' /\ Spans(d, u)' \subseteq Spans(d, u)
  <2>1. Len(mem'[d][u].pending) <= MaxPending /\ Len(disk'[d][u].pending) <= MaxPending
        BY <1>1, <1>2, StateFields
  <2>2. Timely(d, u)'
    <3>1. Today' = Today
          BY <1>1 DEF Today
    <3> QED BY <1>1, <1>2, <3>1, StateFields DEF LedgerInv, Timely
  <2>3. Spans(d, u)' \subseteq Spans(d, u)
    <3>1. Buffers(d, u)' \subseteq Buffers(d, u)
          BY <1>1, <1>2 DEF Buffers
    <3>2. OnHub(d, u)' = OnHub(d, u) /\ Sent(d, u)' = Sent(d, u) /\ Current(d, u)' = Current(d, u)
          BY <1>1 DEF OnHub, Sent, Current, Reported, hubVars
    <3> QED BY <3>1, <3>2 DEF Spans
  <2> QED BY <2>1, <2>2, <2>3
<1>4. \A e \in Devices : e # d => Untouched(e)
      BY <1>1, Typed DEF Untouched
<1>5. /\ pc' \in [Devices -> {"idle", "sent", "replied", "save"}]
      /\ tick' \in [Devices -> Request \cup {NoRequest}] /\ UnderWay(d)'
      /\ mem' \in [Devices -> [Users -> UserState]] /\ disk' \in [Devices -> [Users -> UserState]]
      BY <1>1, Typed DEF UnderWay
<1>6. /\ unspanned' \in [Devices -> [Users -> Int]]
      /\ faults' \in 0..MaxFaults /\ restarted' \subseteq Devices
      BY <1>1 DEF LedgerInv, TypeOK
<1> QED BY <1>1, <1>3, <1>4, <1>5, <1>6, AnswerKeeps

LEMMA CrashKeeps ==
    ASSUME LedgerInv, NEW d \in Devices, Crash(d)
    PROVE  LedgerInv' /\ \A e \in Devices, u \in Users : Spans(e, u)' \subseteq Spans(e, u)
<1>1. /\ mem' = [mem EXCEPT ![d] = disk[d]] /\ pc' = [pc EXCEPT ![d] = "idle"]
      /\ tick' = [tick EXCEPT ![d] = NoRequest] /\ restarted' = restarted \cup {d}
      /\ UNCHANGED <<now, spent, disk, polled, net, hubVars, unspanned>>
      BY DEF Crash
<1>2. \A u \in Users : mem'[d][u] = disk[d][u]
      BY <1>1, Typed
<1>3. ASSUME NEW u \in Users
      PROVE  /\ Len(mem'[d][u].pending) <= MaxPending /\ Len(disk'[d][u].pending) <= MaxPending
             /\ Timely(d, u)' /\ Spans(d, u)' \subseteq Spans(d, u)
  <2>1. Len(mem'[d][u].pending) <= MaxPending /\ Len(disk'[d][u].pending) <= MaxPending
        BY <1>1, <1>2, StateFields
  <2>2. Timely(d, u)'
    <3>1. Today' = Today /\ Today \in Int
          BY <1>1, Typed DEF Today, Days
    <3>2. disk[d][u].day \in Int /\ mem[d][u].day \in Int
          BY StateFields
    <3> QED BY <1>1, <1>2, <3>1, <3>2 DEF LedgerInv, Timely
  <2>3. Spans(d, u)' \subseteq Spans(d, u)
    <3>1. Buffers(d, u)' \subseteq Buffers(d, u)
          BY <1>1, <1>2 DEF Buffers
    <3>2. Current(d, u)' = {}
          BY <1>1, Typed DEF Current
    <3>3. OnHub(d, u)' = OnHub(d, u) /\ Sent(d, u)' = Sent(d, u)
          BY <1>1 DEF OnHub, Sent, Reported, hubVars
    <3> QED BY <3>1, <3>2, <3>3 DEF Spans
  <2> QED BY <2>1, <2>2, <2>3
<1>4. \A e \in Devices : e # d => Untouched(e)
      BY <1>1, Typed DEF Untouched
<1>5. /\ pc' \in [Devices -> {"idle", "sent", "replied", "save"}]
      /\ tick' \in [Devices -> Request \cup {NoRequest}] /\ UnderWay(d)'
      /\ mem' \in [Devices -> [Users -> UserState]] /\ disk' \in [Devices -> [Users -> UserState]]
      BY <1>1, Typed DEF UnderWay
<1>6. faults' \in 0..MaxFaults
      BY Bounds DEF Crash, LedgerInv, TypeOK
<1>7. unspanned' \in [Devices -> [Users -> Int]] /\ restarted' \subseteq Devices
      BY <1>1 DEF LedgerInv, TypeOK
<1> QED BY <1>1, <1>3, <1>4, <1>5, <1>6, <1>7, AnswerKeeps

LEMMA TimeoutKeeps ==
    ASSUME LedgerInv, NEW d \in Devices, Timeout(d)
    PROVE  LedgerInv' /\ \A e \in Devices, u \in Users : Spans(e, u)' \subseteq Spans(e, u)
<1> DEFINE buffer(u) == Buffered(mem[d][u].pending, tick[d].span[u])
           new(u) == [mem[d][u] EXCEPT !.pending = Buffered(mem[d][u].pending, tick[d].span[u])]
           f == [u \in Users |-> new(u)]
           g == [u \in Users |-> unspanned[d][u] + Overflow(mem[d][u].pending, tick[d].span[u])]
<1>1. /\ mem' = [mem EXCEPT ![d] = f] /\ tick' = [tick EXCEPT ![d] = NoRequest]
      /\ unspanned' = [unspanned EXCEPT ![d] = g] /\ pc' = [pc EXCEPT ![d] = "save"]
      /\ UNCHANGED <<now, spent, disk, polled, net, hubVars, restarted>>
      BY Typed DEF Timeout
<1>2. tick[d] \in Request /\ tick[d] # NoRequest
  <2>1. pc[d] \in {"sent", "replied"}
        BY DEF Timeout
  <2>2. tick[d] \in Request /\ tick[d].at > 0
        BY <2>1 DEF LedgerInv, UnderWay
  <2>3. NoRequest.at = 0
        BY DEF NoRequest
  <2> QED BY <2>2, <2>3
<1>3. ASSUME NEW u \in Users
      PROVE  /\ tick[d].span[u] \in Span /\ buffer(u) \in Seq(Span) /\ Len(buffer(u)) <= MaxPending
             /\ ToSet(buffer(u)) \subseteq ToSet(mem[d][u].pending) \cup {tick[d].span[u]}
  <2>1. tick[d].span[u] \in Span
        BY <1>2 DEF Request
  <2>2. mem[d][u].pending \in Seq(Span) /\ Len(mem[d][u].pending) <= MaxPending
        BY StateFields
  <2> QED BY <2>1, <2>2, BufferedKeeps
<1>4. ASSUME NEW u \in Users
      PROVE  /\ new(u) \in UserState /\ new(u).pending = buffer(u) /\ new(u).day = mem[d][u].day
             /\ new(u).raw = mem[d][u].raw /\ new(u).last = mem[d][u].last
  <2>1. mem[d][u] \in UserState
        BY Typed
  <2>2. new(u) = [mem[d][u] EXCEPT !.pending = buffer(u)]
        OBVIOUS
  <2> HIDE DEF buffer, new
  <2> QED BY <1>3, <2>1, <2>2 DEF UserState
<1>5. ASSUME NEW u \in Users PROVE g[u] \in Int
  <2>1. Overflow(mem[d][u].pending, tick[d].span[u]) \in Int
    <3>1. mem[d][u].pending \in Seq(Span)
          BY StateFields
    <3>2. CASE Len(mem[d][u].pending) = MaxPending
      <4>1. Head(mem[d][u].pending) \in Span
            BY <3>1, <3>2, Bounds
      <4>2. \A x \in Span : x.start \in Nat /\ x.end \in Nat
            BY Bounds DEF Span
      <4>3. \A x \in Span : Length(x) \in Int
            BY <4>2 DEF Length
      <4> QED BY <4>1, <4>3 DEF Overflow
    <3>3. CASE Len(mem[d][u].pending) # MaxPending
          BY <3>3 DEF Overflow
    <3> QED BY <3>2, <3>3
  <2>2. unspanned[d][u] \in Int
        BY Typed
  <2> QED BY <2>1, <2>2
<1> HIDE DEF new, buffer
<1>6. f \in [Users -> UserState] /\ g \in [Users -> Int]
      BY <1>4, <1>5
<1>7. \A u \in Users : mem'[d][u] = new(u)
      BY <1>1, Typed
<1> HIDE DEF f, g
<1>8. /\ mem' \in [Devices -> [Users -> UserState]] /\ disk' \in [Devices -> [Users -> UserState]]
      /\ unspanned' \in [Devices -> [Users -> Int]]
      BY <1>1, <1>6, Typed
<1>9. ASSUME NEW u \in Users
      PROVE  /\ Len(mem'[d][u].pending) <= MaxPending /\ Len(disk'[d][u].pending) <= MaxPending
             /\ Timely(d, u)' /\ Spans(d, u)' \subseteq Spans(d, u)
  <2>1. mem'[d][u].pending = buffer(u) /\ disk' = disk
        BY <1>1, <1>4, <1>7
  <2>2. Len(mem'[d][u].pending) <= MaxPending /\ Len(disk'[d][u].pending) <= MaxPending
        BY <1>3, <2>1, StateFields
  <2>3. Timely(d, u)'
    <3>1. Today' = Today /\ spent' = spent /\ now' = now /\ polled' = polled
          BY <1>1 DEF Today
    <3> QED BY <1>4, <1>7, <2>1, <3>1 DEF LedgerInv, Timely
  <2>4. Spans(d, u)' \subseteq Spans(d, u)
    <3>1. tick'[d] = NoRequest
          BY <1>1, Typed
    <3>2. Buffers(d, u)' \subseteq Buffers(d, u) \cup {tick[d].span[u]}
          BY <1>3, <2>1 DEF Buffers
    <3>3. Current(d, u)' = {} /\ Current(d, u) = {tick[d].span[u]}
          BY <1>2, <3>1 DEF Current
    <3>4. OnHub(d, u)' = OnHub(d, u) /\ Sent(d, u)' = Sent(d, u)
          BY <1>1 DEF OnHub, Sent, Reported, hubVars
    <3> QED BY <3>2, <3>3, <3>4 DEF Spans
  <2> QED BY <2>2, <2>3, <2>4
<1>10. \A e \in Devices : e # d => Untouched(e)
      BY <1>1, Typed DEF Untouched
<1>11. /\ pc' \in [Devices -> {"idle", "sent", "replied", "save"}]
       /\ tick' \in [Devices -> Request \cup {NoRequest}] /\ UnderWay(d)'
      BY <1>1, Typed DEF UnderWay
<1>12. faults' \in 0..MaxFaults /\ restarted' \subseteq Devices
      BY <1>1, Bounds DEF Timeout, LedgerInv, TypeOK
<1> QED BY <1>1, <1>8, <1>9, <1>10, <1>11, <1>12, AnswerKeeps

\* The hub takes a span from a request and nowhere else.
LEMMA SyncSpans ==
    ASSUME LedgerInv, NEW r \in net, Sync(r), NEW d \in Devices, NEW u \in Users
    PROVE  /\ OnHub(d, u) \subseteq OnHub(d, u)'
           /\ \A s \in OnHub(d, u)' \ OnHub(d, u) :
                 r.dev = d /\ s \in Reported(r, u) \ {NoSpan} /\ s.start < s.end
           /\ Spans(d, u)' \subseteq Spans(d, u)
           /\ \A i \in intervals' \ intervals :
                 /\ i.dev = r.dev /\ i.day = Today /\ i.user \in Users /\ i.start < i.end
                 /\ [start |-> i.start, end |-> i.end] \in Reported(r, i.user) \ {NoSpan}
<1>1. /\ r \in Request /\ net' = net \ {r} /\ intervals' = intervals \cup Insert(r)
      /\ mem' = mem /\ disk' = disk /\ tick' = tick
      BY Typed DEF Sync
<1>2. \A v \in Users : \A s \in Reported(r, v) : s \in Span
      BY <1>1 DEF Request, Reported, ToSet
<1>3. ASSUME NEW i \in Insert(r)
      PROVE  /\ i.dev = r.dev /\ i.day = Today /\ i.user \in Users /\ i.start < i.end
             /\ [start |-> i.start, end |-> i.end] \in Reported(r, i.user) \ {NoSpan}
  <2>1. PICK v \in Users : i \in Rows(r, v)
        BY DEF Insert
  <2>2. PICK s \in Reported(r, v) : s.start < s.end /\
           i = [user |-> v, dev |-> r.dev, day |-> Today, start |-> s.start, end |-> s.end]
        BY <2>1 DEF Rows
  <2>3. s = [start |-> s.start, end |-> s.end]
        BY <1>2 DEF Span
  <2>4. s # NoSpan
        BY <2>2, NoSpanIsEmpty
  <2> QED BY <2>2, <2>3, <2>4
<1>4. ASSUME NEW s \in OnHub(d, u)' \ OnHub(d, u)
      PROVE  r.dev = d /\ s \in Reported(r, u) \ {NoSpan} /\ s.start < s.end
  <2>1. PICK i \in intervals' : i.user = u /\ i.dev = d /\ s = [start |-> i.start, end |-> i.end]
        BY DEF OnHub
  <2>2. i \in Insert(r)
        BY <1>1, <2>1 DEF OnHub
  <2> QED BY <1>3, <2>1, <2>2
<1>5. OnHub(d, u) \subseteq OnHub(d, u)'
      BY <1>1 DEF OnHub
<1>6. Spans(d, u)' \subseteq Spans(d, u)
  <2>1. Sent(d, u)' \subseteq Sent(d, u)
        BY <1>1 DEF Sent, Reported
  <2>2. Buffers(d, u)' = Buffers(d, u) /\ Current(d, u)' = Current(d, u)
        BY <1>1 DEF Buffers, Current
  <2>3. OnHub(d, u)' \subseteq OnHub(d, u) \cup Sent(d, u)
        BY <1>4 DEF Sent
  <2> QED BY <2>1, <2>2, <2>3 DEF Spans
<1> QED BY <1>1, <1>3, <1>4, <1>5, <1>6

\* A counter is merged by taking the larger.
LEMMA SyncCounters ==
    ASSUME LedgerInv, NEW r \in net, Sync(r), NEW u \in Users, NEW d \in Devices, NEW day \in Days
    PROVE  /\ counter' \in [Users -> [Devices -> [Days -> Nat]]]
           /\ counter'[u][d][day] >= counter[u][d][day]
           /\ d = r.dev /\ day = Today => counter'[u][d][day] >= r.cum[u]
<1>1. r.dev \in Devices /\ Today \in Days /\ r.cum \in [Users -> Nat]
      /\ counter \in [Users -> [Devices -> [Days -> Nat]]]
      BY Typed DEF Request
<1> DEFINE most(v) == Max({counter[v][r.dev][Today], r.cum[v]})
<1>2. ASSUME NEW v \in Users
      PROVE  most(v) \in Nat /\ most(v) >= counter[v][r.dev][Today] /\ most(v) >= r.cum[v]
  <2>1. counter[v][r.dev][Today] \in Nat /\ r.cum[v] \in Nat
        BY <1>1
  <2> QED BY <2>1, Larger
<1>3. counter' = [v \in Users |-> [counter[v] EXCEPT ![r.dev][Today] = most(v)]]
      BY DEF Sync
<1> HIDE DEF most
<1>4. \A v \in Users : [counter[v] EXCEPT ![r.dev][Today] = most(v)] \in [Devices -> [Days -> Nat]]
      BY <1>1, <1>2
<1>5. counter'[u] = [counter[u] EXCEPT ![r.dev][Today] = most(u)]
      BY <1>3
<1>6. counter[u][d][day] \in Nat /\ counter[u] \in [Devices -> [Days -> Nat]]
      BY <1>1
<1> QED BY <1>1, <1>2, <1>3, <1>4, <1>5, <1>6

LEMMA SyncKeeps ==
    ASSUME LedgerInv, NEW r \in net, Sync(r)
    PROVE  LedgerInv'
<1>1. /\ r \in Request /\ net' = net \ {r} /\ intervals' = intervals \cup Insert(r)
      /\ UNCHANGED <<now, spent, mem, disk, tick, polled, faults, unspanned, restarted>>
      /\ pc' = IF pc[r.dev] = "sent" /\ tick[r.dev] = r
               THEN [pc EXCEPT ![r.dev] = "replied"] ELSE pc
      BY Typed DEF Sync, historyVars
<1>2. \A u \in Users : \A s \in Reported(r, u) : s \in Span
      BY <1>1 DEF Request, Reported, ToSet
<1>3. intervals' \subseteq [user: Users, dev: Devices, day: Days, start: Second, end: Second]
  <2>1. r.dev \in Devices /\ Today \in Days
        BY <1>1, Typed DEF Request
  <2>2. ASSUME NEW u \in Users
        PROVE  Rows(r, u) \subseteq [user: Users, dev: Devices, day: Days, start: Second, end: Second]
        BY <1>2, <2>1 DEF Rows, Span
  <2>3. Insert(r) \subseteq [user: Users, dev: Devices, day: Days, start: Second, end: Second]
        BY <2>2 DEF Insert
  <2> QED BY <1>1, <2>3 DEF LedgerInv, TypeOK
<1>4. counter' \in [Users -> [Devices -> [Days -> Nat]]]
  <2>1. CASE Users = {}
        BY <2>1 DEF Sync
  <2>2. CASE Users # {}
    <3>1. PICK u \in Users : TRUE
          BY <2>2
    <3>2. r.dev \in Devices /\ Today \in Days
          BY <1>1, Typed DEF Request
    <3> QED BY <3>2, SyncCounters
  <2> QED BY <2>1, <2>2
<1>5. pc' \in [Devices -> {"idle", "sent", "replied", "save"}]
      BY <1>1, Typed
<1>6. TypeOK'
      BY <1>1, <1>3, <1>4, <1>5 DEF LedgerInv, TypeOK
<1>7. ASSUME NEW d \in Devices PROVE UnderWay(d)'
  <2>1. (pc'[d] \in {"sent", "replied"}) <=> (pc[d] \in {"sent", "replied"})
        BY <1>1, Typed
  <2> QED BY <1>1, <2>1 DEF LedgerInv, UnderWay
<1>8. Today' = Today
      BY <1>1 DEF Today
<1>9. ASSUME NEW d \in Devices, NEW u \in Users PROVE Timely(d, u)' /\ SpansDiffer(d, u)'
  <2>1. Timely(d, u)'
        BY <1>1, <1>8 DEF LedgerInv, Timely
  <2>2. Spans(d, u)' \subseteq Spans(d, u)
        BY SyncSpans
  <2> QED BY <1>1, <2>1, <2>2, SpansLess DEF LedgerInv
<1>10. \A d \in Devices : (polled[d] <= now)'
      BY <1>1 DEF LedgerInv
<1> QED BY <1>6, <1>7, <1>9, <1>10 DEF LedgerInv

LEMMA ElapseKeeps ==
    ASSUME LedgerInv, NEW used \in SUBSET (Devices \X Users), Elapse(used)
    PROVE  /\ LedgerInv' /\ now' = now + 1 /\ Today' \in Days /\ Today <= Today'
           /\ Today' # Today => Today' = 1 /\ now' = Midnight
           /\ \A d \in Devices, u \in Users :
                 /\ Spans(d, u)' = Spans(d, u)
                 /\ spent'[d][u] <= spent[d][u] + 1
                 /\ Today' = Today => spent'[d][u] >= spent[d][u]
<1>1. /\ now < MaxNow /\ now' = now + 1 /\ now \in Nat
      /\ UNCHANGED <<mem, disk, pc, tick, polled, net, intervals, counter, faults, unspanned, restarted>>
      BY Typed DEF Elapse, hubVars, historyVars
<1>2. /\ Today \in Days /\ Today' \in Days /\ Today <= Today'
      /\ Today' = Today \/ (now' = Midnight /\ Today' = 1 /\ Today = 0)
      /\ now' = Midnight => Today' = 1 /\ Today = 0
      BY <1>1, Bounds DEF Today, DayOf, Days
<1>3. \A d \in Devices, u \in Users :
         spent'[d][u] = IF now' = Midnight THEN 0
                        ELSE spent[d][u] + (IF <<d, u>> \in used THEN 1 ELSE 0)
      BY DEF Elapse
<1>4. \A d \in Devices, u \in Users :
         spent[d][u] \in Nat /\ spent'[d][u] \in Nat /\ spent'[d][u] <= spent[d][u] + 1
         /\ (now' # Midnight => spent'[d][u] >= spent[d][u])
  <2> TAKE d \in Devices, u \in Users
  <2> DEFINE inc == IF <<d, u>> \in used THEN 1 ELSE 0
  <2>1. spent[d][u] \in Nat
        BY Typed
  <2>2. spent'[d][u] = IF now' = Midnight THEN 0 ELSE spent[d][u] + inc
        BY <1>3
  <2>3. inc \in {0, 1}
        OBVIOUS
  <2> HIDE DEF inc
  <2> QED BY <2>1, <2>2, <2>3
<1>5. spent' \in [Devices -> [Users -> Nat]]
  <2> DEFINE h == [d \in Devices |-> [u \in Users |->
                     IF now' = Midnight THEN 0
                     ELSE spent[d][u] + (IF <<d, u>> \in used THEN 1 ELSE 0)]]
  <2>1. spent' = h
        BY DEF Elapse
  <2>2. h \in [Devices -> [Users -> Nat]]
        BY Typed
  <2> QED BY <2>1, <2>2
<1>6. TypeOK'
  <2>1. now' \in Second
        BY <1>1, Bounds DEF Second
  <2> QED BY <1>1, <1>5, <2>1 DEF LedgerInv, TypeOK
<1>7. ASSUME NEW d \in Devices PROVE (polled[d] <= now)' /\ UnderWay(d)'
  <2>1. polled[d] \in Nat /\ polled[d] <= now
        BY Typed DEF LedgerInv
  <2> QED BY <1>1, <2>1 DEF LedgerInv, UnderWay
<1>8. ASSUME NEW d \in Devices, NEW u \in Users
      PROVE  Timely(d, u)' /\ SpansDiffer(d, u)' /\ Spans(d, u)' = Spans(d, u)
  <2>1. Timely(d, u)'
    <3>1. /\ mem[d][u].day \in Int /\ disk[d][u].day \in Int
          /\ mem[d][u].raw \in Nat /\ disk[d][u].raw \in Nat
          BY StateFields
    <3>2. Timely(d, u)
          BY DEF LedgerInv
    <3>3. disk[d][u].day <= Today /\ mem[d][u].day <= Today
          BY <1>2, <3>1, <3>2 DEF Timely, Days
    <3>4. disk[d][u].day <= Today' /\ mem[d][u].day <= Today'
          BY <1>2, <3>1, <3>3 DEF Days
    <3>5. ASSUME NEW s \in {mem[d][u], disk[d][u]}, s.day = Today' PROVE s.raw <= spent'[d][u]
      <4>1. Today' = Today /\ now' # Midnight
            BY <1>2, <3>1, <3>3, <3>5
      <4>2. s.raw \in Nat /\ s.raw <= spent[d][u]
            BY <3>1, <3>2, <3>5, <4>1 DEF Timely
      <4> QED BY <1>4, <4>1, <4>2
    <3>6. spent'[d][u] <= now'
          BY <1>1, <1>4, <3>2 DEF Timely
    <3> QED BY <1>1, <3>2, <3>4, <3>5, <3>6 DEF Timely
  <2>2. Spans(d, u)' = Spans(d, u)
        BY <1>1 DEF Spans, OnHub, Sent, Buffers, Current, Reported
  <2> QED BY <1>1, <2>1, <2>2, SpansLess DEF LedgerInv
<1> QED BY <1>1, <1>2, <1>4, <1>6, <1>7, <1>8 DEF LedgerInv

LEMMA LedgerNext == LedgerInv /\ [Next]_vars => LedgerInv'
<1> SUFFICES ASSUME LedgerInv, [Next]_vars PROVE LedgerInv'
    OBVIOUS
<1>1. ASSUME NEW d \in Devices, NEW active \in SUBSET Users, Tick(d, active) PROVE LedgerInv'
      BY <1>1, TickKeeps
<1>2. ASSUME NEW d \in Devices, Receive(d) PROVE LedgerInv'
      BY <1>2, ReceiveKeeps
<1>3. ASSUME NEW d \in Devices, Timeout(d) PROVE LedgerInv'
      BY <1>3, TimeoutKeeps
<1>4. ASSUME NEW d \in Devices, Save(d) PROVE LedgerInv'
      BY <1>4, SaveKeeps
<1>5. ASSUME NEW d \in Devices, Crash(d) PROVE LedgerInv'
      BY <1>5, CrashKeeps
<1>6. ASSUME NEW r \in net, Sync(r) PROVE LedgerInv'
      BY <1>6, SyncKeeps
<1>7. ASSUME NEW used \in SUBSET (Devices \X Users), Elapse(used) PROVE LedgerInv'
      BY <1>7, ElapseKeeps
<1>8. CASE UNCHANGED vars
  <2>1. UNCHANGED <<now, spent, mem, disk, pc, tick, polled, net, counter, intervals, faults,
                    unspanned, restarted>>
        BY <1>8 DEF vars, hubVars, historyVars
  <2>2. Today' = Today
        BY <2>1 DEF Today
  <2>3. TypeOK'
        BY <2>1 DEF LedgerInv, TypeOK
  <2>4. \A d \in Devices : (polled[d] <= now)' /\ UnderWay(d)'
        BY <2>1 DEF LedgerInv, UnderWay
  <2>5. ASSUME NEW d \in Devices, NEW u \in Users PROVE Timely(d, u)' /\ SpansDiffer(d, u)'
    <3>1. Timely(d, u)'
          BY <2>1, <2>2 DEF LedgerInv, Timely
    <3>2. Spans(d, u)' = Spans(d, u)
          BY <2>1 DEF Spans, OnHub, Sent, Buffers, Current, Reported
    <3> QED BY <2>1, <3>1, <3>2, SpansLess DEF LedgerInv
  <2> QED BY <2>3, <2>4, <2>5 DEF LedgerInv
<1> QED BY <1>1, <1>2, <1>3, <1>4, <1>5, <1>6, <1>7, <1>8 DEF Next

LEMMA LedgerHolds == Spec => []LedgerInv
<1>1. Init => LedgerInv
      BY LedgerInit
<1>2. LedgerInv /\ [Next]_vars => LedgerInv'
      BY LedgerNext
<1> QED BY <1>1, <1>2, PTL DEF Spec

\* Type correctness of the ledger: no state of agents, network and hub leaves its types,
\* and no buffer of unsent spans outgrows MAX_PENDING_SPANS (tick.py's
\* _buffer_unsent_span).
THEOREM TypeCorrect == Spec => []TypeOK
<1>1. LedgerInv => TypeOK
      BY DEF LedgerInv
<1> QED BY <1>1, LedgerHolds, PTL

-----------------------------------------------------------------------------
(***************************************************************************)
(* The counters bound the union.                                           *)
(***************************************************************************)
LEMMA MeasuredLess ==
    ASSUME NEW S \in SUBSET Span, NEW T \in SUBSET Span, NEW day, NEW t,
           UpTo(S, day, t) \subseteq UpTo(T, day, t)
    PROVE  /\ Measured(S, day, t) \in Nat /\ Measured(T, day, t) \in Nat
           /\ Measured(S, day, t) <= Measured(T, day, t)
<1>1. UpTo(S, day, t) \in SUBSET Span /\ UpTo(T, day, t) \in SUBSET Span
      BY DEF UpTo
<1> QED BY <1>1, CoveredFinite, CoveredGrows DEF Measured

\* A step that gives a device no new span and its counters no new value.
LEMMA CountedStays ==
    ASSUME LedgerInv, LedgerInv', NEW d \in Devices, NEW u \in Users, Counted(d, u),
           Spans(d, u)' \subseteq Spans(d, u), polled'[d] = polled[d],
           mem'[d][u].day = mem[d][u].day, mem'[d][u].cum = mem[d][u].cum,
           \A r \in net' : r \in net \/ r.dev # d,
           intervals' = intervals, counter' = counter
    PROVE  Counted(d, u)'
<1>1. \A day, t : /\ Measured(Spans(d, u), day, t) \in Nat /\ Measured(Spans(d, u)', day, t) \in Nat
                  /\ Measured(Spans(d, u)', day, t) <= Measured(Spans(d, u), day, t)
  <2>1. Spans(d, u) \in SUBSET Span /\ Spans(d, u)' \in SUBSET Span
        BY SpansTyped
  <2>2. \A day, t : UpTo(Spans(d, u)', day, t) \subseteq UpTo(Spans(d, u), day, t)
        BY DEF UpTo
  <2> HIDE DEF Spans
  <2> QED BY <2>1, <2>2, MeasuredLess
<1>2. /\ mem[d][u].cum \in Nat /\ counter \in [Users -> [Devices -> [Days -> Nat]]]
      /\ polled \in [Devices -> Nat] /\ net \subseteq Request
      BY Typed, StateFields
<1>3. \A s \in Spans(d, u)' : DayOf(s.end) <= mem'[d][u].day
      BY DEF Counted
<1>4. \A day \in Days :
         day = mem'[d][u].day => Measured(Spans(d, u)', day, polled'[d]) <= mem'[d][u].cum
  <2> TAKE day \in Days
  <2> HAVE day = mem'[d][u].day
  <2>1. Measured(Spans(d, u), day, polled[d]) <= mem[d][u].cum
        BY DEF Counted
  <2> QED BY <1>1, <1>2, <2>1
<1>5. ASSUME NEW r \in net', r.dev = d
      PROVE  /\ r.at <= polled'[d] /\ Measured(Spans(d, u)', DayOf(r.at), r.at) <= r.cum[u]
             /\ \A s \in Reported(r, u) \ {NoSpan} : s.end <= r.at
  <2>1. /\ r.at <= polled[d] /\ Measured(Spans(d, u), DayOf(r.at), r.at) <= r.cum[u]
        /\ \A s \in Reported(r, u) \ {NoSpan} : s.end <= r.at
        BY <1>5 DEF Counted
  <2>2. r.cum[u] \in Nat
        BY <1>2, <1>5 DEF Request
  <2> QED BY <1>1, <2>1, <2>2
<1>6. ASSUME NEW day \in Days
      PROVE  \E t \in 0..polled'[d] :
                /\ Measured(Spans(d, u)', day, t) <= counter'[u][d][day]
                /\ \A i \in intervals' :
                      i.user = u /\ i.dev = d /\ i.day = day /\ DayOf(i.end) = day => i.end <= t
  <2>1. PICK t \in 0..polled[d] :
                /\ Measured(Spans(d, u), day, t) <= counter[u][d][day]
                /\ \A i \in intervals :
                      i.user = u /\ i.dev = d /\ i.day = day /\ DayOf(i.end) = day => i.end <= t
        BY DEF Counted
  <2>2. Measured(Spans(d, u)', day, t) <= counter[u][d][day]
    <3>1. counter[u][d][day] \in Nat
          BY <1>2
    <3> QED BY <1>1, <2>1, <3>1
  <2> QED BY <2>1, <2>2
<1> QED BY <1>3, <1>4, <1>5, <1>6 DEF Counted

\* A tick adds a span of at most the seconds its counter gains, and of an earlier moment
\* nothing changes.
LEMMA TickCounts ==
    ASSUME LedgerInv, LedgerInv', NEW d \in Devices, NEW active \in SUBSET Users,
           Tick(d, active), NEW u \in Users, Counted(d, u)
    PROVE  Counted(d, u)'
<1> DEFINE r == tick'[d]
           span == tick'[d].span[u]
           old == Spans(d, u)
           new == Spans(d, u)'
<1>1. /\ r.dev = d /\ r.at = now /\ net' = net \cup {r} /\ polled'[d] = now /\ now > polled[d]
      /\ now \in Nat /\ polled[d] \in Nat /\ Today \in Days
      /\ intervals' = intervals /\ counter' = counter
      BY TickOfUser, Typed DEF Tick, hubVars
<1>2. PICK burned \in Nat : Ticked(d, u, burned)
      BY TickOfUser
<1>3. /\ old \in SUBSET Span /\ new \in SUBSET Span /\ new \subseteq old \cup ({span} \ {NoSpan})
  <2>1. old \in SUBSET Span
        BY SpansTyped
  <2>2. new \subseteq old \cup ({span} \ {NoSpan})
        BY TickSpans
  <2>3. span \in Span
        BY <1>2 DEF Ticked
  <2> HIDE DEF old, new, span
  <2> QED BY <2>1, <2>2, <2>3
<1>4. /\ span \in Span /\ span.start <= span.end /\ Length(span) <= burned
      /\ span # NoSpan => span.end = now
      /\ mem'[d][u].day = Today /\ mem'[d][u].cum = r.cum[u] /\ r.pending[u] = mem[d][u].pending
      /\ r.cum[u] = (IF mem[d][u].day = Today THEN mem[d][u].cum + burned ELSE burned)
  <2>1. mem[d][u] \in UserState
        BY Typed
  <2> QED BY <1>2, <2>1 DEF Ticked, UserState
<1>5. /\ mem[d][u].day \in Int /\ mem[d][u].cum \in Nat /\ mem[d][u].day <= Today
      BY StateFields DEF LedgerInv, Timely
<1>6. \A s \in old : s.end \in Nat /\ s.end <= polled[d] /\ DayOf(s.end) <= mem[d][u].day
  <2>1. \A s \in old : s.end \in Nat
        BY <1>3, Bounds DEF Span
  <2> QED BY <2>1 DEF LedgerInv, SpansDiffer, Counted
<1>7. ASSUME NEW day, NEW t \in Nat, t <= polled[d]
      PROVE  /\ Measured(new, day, t) \in Nat /\ Measured(old, day, t) \in Nat
             /\ Measured(new, day, t) <= Measured(old, day, t)
  <2>1. UpTo(new, day, t) \subseteq UpTo(old, day, t)
        BY <1>1, <1>3, <1>4, <1>7 DEF UpTo
  <2> HIDE DEF old, new
  <2> QED BY <1>3, <2>1, MeasuredLess
<1>8. Measured(new, Today, now) <= r.cum[u]
  <2> DEFINE kept == UpTo(old, Today, polled[d])
             n == Cardinality(Covered(kept))
  <2>1. kept \in SUBSET Span
        BY <1>3 DEF UpTo
  <2>2. n \in Nat
        BY <2>1, CoveredFinite
  <2>3. n + burned <= r.cum[u] /\ r.cum[u] \in Nat
    <3>1. n + burned <= r.cum[u]
      <4> HIDE DEF n
      <4>1. CASE mem[d][u].day = Today
        <5>1. n <= mem[d][u].cum
              BY <1>1, <4>1 DEF Counted, Measured, n
        <5> QED BY <1>4, <1>5, <2>2, <4>1, <5>1
      <4>2. CASE mem[d][u].day # Today
        <5>1. n = 0
          <6>1. Today \in Int
                BY <1>1 DEF Days
          <6>2. \A s \in old : DayOf(s.end) # Today
            <7> SUFFICES ASSUME NEW s \in old, DayOf(s.end) = Today PROVE FALSE
                OBVIOUS
            <7>1. DayOf(s.end) <= mem[d][u].day
                  BY <1>6
            <7> QED BY <1>5, <4>2, <6>1, <7>1
          <6>3. Covered(kept) = {}
                BY <6>2 DEF UpTo, Covered
          <6> QED BY <6>3, FS_EmptySet DEF n
        <5> QED BY <1>4, <4>2, <5>1
      <4> QED BY <4>1, <4>2
    <3> QED BY <1>4, <1>5, <3>1
  <2>4. UpTo(new, Today, now) \subseteq kept \cup {span}
        BY <1>3, <1>6 DEF UpTo
  <2>5. Cardinality(Covered(kept \cup {span})) <= n + Length(span) /\ Length(span) \in Nat
        BY <1>4, <2>1, CoveredAdds
  <2>6. Cardinality(Covered(UpTo(new, Today, now))) <= Cardinality(Covered(kept \cup {span}))
    <3>1. kept \cup {span} \in SUBSET Span
          BY <1>4, <2>1
    <3> HIDE DEF kept, new, span
    <3> QED BY <2>4, <3>1, CoveredGrows
  <2>7. Cardinality(Covered(UpTo(new, Today, now))) \in Nat
        /\ Cardinality(Covered(kept \cup {span})) \in Nat
    <3>1. kept \cup {span} \in SUBSET Span /\ UpTo(new, Today, now) \in SUBSET Span
          BY <1>3, <1>4, <2>1 DEF UpTo
    <3> HIDE DEF kept, new, span
    <3> QED BY <3>1, CoveredFinite
  <2> HIDE DEF n, kept, new, span
  <2>8. Length(span) <= burned
        BY <1>4 DEF span
  <2> QED BY <1>2, <2>2, <2>3, <2>5, <2>6, <2>7, <2>8 DEF Measured
<1>9. \A s \in new : DayOf(s.end) <= mem'[d][u].day
  <2> SUFFICES ASSUME NEW s \in new PROVE DayOf(s.end) <= Today
      BY <1>4
  <2>1. CASE s \in old
    <3>1. s.end \in Nat /\ s.end <= now
          BY <1>1, <1>6, <2>1
    <3> QED BY <1>1, <3>1, DayOfInOrder DEF Today
  <2>2. CASE s \notin old
    <3>1. s.end = now
          BY <1>3, <1>4, <2>2
    <3> QED BY <1>1, <3>1, DayOfInOrder DEF Today
  <2> QED BY <2>1, <2>2
<1>10. ASSUME NEW q \in net', q.dev = d
       PROVE  /\ q.at <= now /\ Measured(new, DayOf(q.at), q.at) <= q.cum[u]
              /\ \A s \in Reported(q, u) \ {NoSpan} : s.end <= q.at
  <2>1. CASE q \in net
    <3>1. /\ q.at <= polled[d] /\ Measured(old, DayOf(q.at), q.at) <= q.cum[u]
          /\ \A s \in Reported(q, u) \ {NoSpan} : s.end <= q.at
          BY <1>10, <2>1 DEF Counted
    <3>2. q.at \in Nat /\ q.cum[u] \in Nat
          BY <2>1, Typed, Bounds DEF Request
    <3>3. Measured(new, DayOf(q.at), q.at) <= Measured(old, DayOf(q.at), q.at)
          /\ Measured(new, DayOf(q.at), q.at) \in Nat /\ Measured(old, DayOf(q.at), q.at) \in Nat
          BY <1>7, <3>1, <3>2
    <3> HIDE DEF old, new
    <3> QED BY <1>1, <3>1, <3>2, <3>3
  <2>2. CASE q \notin net
    <3>1. q = r
          BY <1>1, <2>2
    <3>2. \A s \in Reported(r, u) \ {NoSpan} : s.end <= now
      <4> SUFFICES ASSUME NEW s \in Reported(r, u) \ {NoSpan} PROVE s.end <= now
          OBVIOUS
      <4>1. s \in old \/ s = span
            BY <1>4 DEF Reported, Spans, Buffers
      <4> QED BY <1>1, <1>4, <1>6, <4>1
    <3> HIDE DEF new, r
    <3> QED BY <1>1, <1>8, <3>1, <3>2 DEF Today
  <2> QED BY <2>1, <2>2
<1>11. ASSUME NEW day \in Days
       PROVE  \E t \in 0..now :
                /\ Measured(new, day, t) <= counter'[u][d][day]
                /\ \A i \in intervals' :
                      i.user = u /\ i.dev = d /\ i.day = day /\ DayOf(i.end) = day => i.end <= t
  <2>1. PICK t \in 0..polled[d] :
                /\ Measured(old, day, t) <= counter[u][d][day]
                /\ \A i \in intervals :
                      i.user = u /\ i.dev = d /\ i.day = day /\ DayOf(i.end) = day => i.end <= t
        BY DEF Counted
  <2>2. /\ Measured(new, day, t) <= Measured(old, day, t)
        /\ Measured(new, day, t) \in Nat /\ Measured(old, day, t) \in Nat
        BY <1>7
  <2>3. counter[u][d][day] \in Nat /\ t \in 0..now
        BY <1>1, Typed
  <2> HIDE DEF old, new
  <2> QED BY <1>1, <2>1, <2>2, <2>3
<1> QED BY <1>1, <1>4, <1>8, <1>9, <1>10, <1>11 DEF Counted

\* The hub's counter of a day reaches at least as far as its rows of the day: a row comes
\* with the counter of the same request.
LEMMA SyncCounts ==
    ASSUME LedgerInv, LedgerInv', NEW r \in net, Sync(r), NEW d \in Devices, NEW u \in Users,
           \A v \in Users : Counted(d, v)
    PROVE  Counted(d, u)'
<1> DEFINE old == Spans(d, u)
           new == Spans(d, u)'
<1>1. /\ UNCHANGED <<now, mem, polled>> /\ net' = net \ {r} /\ r \in Request
      /\ now \in Nat /\ polled[d] \in Nat /\ polled[d] <= now
      BY Typed DEF Sync, LedgerInv
<1>2. /\ new \subseteq old
      /\ \A i \in intervals' \ intervals :
            /\ i.dev = r.dev /\ i.day = Today /\ i.user \in Users /\ i.start < i.end
            /\ [start |-> i.start, end |-> i.end] \in Reported(r, i.user) \ {NoSpan}
      BY SyncSpans
<1>3. ASSUME NEW day, NEW t
      PROVE  /\ Measured(new, day, t) \in Nat /\ Measured(old, day, t) \in Nat
             /\ Measured(new, day, t) <= Measured(old, day, t)
  <2>1. old \in SUBSET Span
        BY SpansTyped
  <2>2. new \in SUBSET Span
        BY <1>2, <2>1
  <2>3. UpTo(new, day, t) \subseteq UpTo(old, day, t)
        BY <1>2 DEF UpTo
  <2> HIDE DEF old, new
  <2> QED BY <2>1, <2>2, <2>3, MeasuredLess
<1>4. \A s \in new : DayOf(s.end) <= mem'[d][u].day
      BY <1>1, <1>2 DEF Counted
<1>5. ASSUME NEW day \in Days, day = mem'[d][u].day
      PROVE  Measured(new, day, polled'[d]) <= mem'[d][u].cum
  <2>1. Measured(old, day, polled[d]) <= mem[d][u].cum /\ mem[d][u].cum \in Nat
        BY <1>1, <1>5, StateFields DEF Counted
  <2> HIDE DEF old, new
  <2> QED BY <1>1, <1>3, <2>1
<1>6. ASSUME NEW q \in net', q.dev = d
      PROVE  /\ q.at <= polled'[d] /\ Measured(new, DayOf(q.at), q.at) <= q.cum[u]
             /\ \A s \in Reported(q, u) \ {NoSpan} : s.end <= q.at
  <2>1. /\ q.at <= polled[d] /\ Measured(old, DayOf(q.at), q.at) <= q.cum[u]
        /\ \A s \in Reported(q, u) \ {NoSpan} : s.end <= q.at
        BY <1>1, <1>6 DEF Counted
  <2>2. q.cum[u] \in Nat
        BY <1>1, <1>6, Typed DEF Request
  <2> HIDE DEF old, new
  <2> QED BY <1>1, <1>3, <2>1, <2>2
<1>7. ASSUME NEW day \in Days
      PROVE  \E t \in 0..polled'[d] :
                /\ Measured(new, day, t) <= counter'[u][d][day]
                /\ \A i \in intervals' :
                      i.user = u /\ i.dev = d /\ i.day = day /\ DayOf(i.end) = day => i.end <= t
  <2>1. PICK t \in 0..polled[d] :
                /\ Measured(old, day, t) <= counter[u][d][day]
                /\ \A i \in intervals :
                      i.user = u /\ i.dev = d /\ i.day = day /\ DayOf(i.end) = day => i.end <= t
        BY DEF Counted
  <2>2. /\ counter[u][d][day] \in Nat /\ counter'[u][d][day] \in Nat
        /\ counter'[u][d][day] >= counter[u][d][day]
        /\ d = r.dev /\ day = Today => counter'[u][d][day] >= r.cum[u]
        BY SyncCounters, Typed
  <2>3. Measured(new, day, t) <= counter'[u][d][day]
    <3>1. Measured(new, day, t) <= Measured(old, day, t)
          /\ Measured(new, day, t) \in Nat /\ Measured(old, day, t) \in Nat
          BY <1>3
    <3> HIDE DEF old, new
    <3> QED BY <2>1, <2>2, <3>1
  <2>4. ASSUME NEW i \in intervals' \ intervals, i.user = u, i.dev = d, i.day = day
        PROVE  d = r.dev /\ day = Today /\ i.end <= r.at /\ i.end \in Nat
    <3> DEFINE s == [start |-> i.start, end |-> i.end]
    <3>1. d = r.dev /\ day = Today /\ s \in Reported(r, u) \ {NoSpan}
          BY <1>2, <2>4
    <3>2. s.end <= r.at
          BY <3>1 DEF Counted
    <3>3. i.end \in Nat
          BY <2>4, Bounds DEF LedgerInv, TypeOK
    <3> QED BY <3>1, <3>2, <3>3
  <2>5. CASE r.dev = d /\ day = Today /\ DayOf(r.at) = Today
    <3>1. /\ r.at <= polled[d] /\ Measured(old, DayOf(r.at), r.at) <= r.cum[u]
          /\ r.at \in Nat /\ r.cum[u] \in Nat
          BY <1>1, <2>5, Bounds DEF Counted, Request
    <3>2. CASE r.at <= t
      <4>1. ASSUME NEW i \in intervals', i.user = u, i.dev = d, i.day = day, DayOf(i.end) = day
            PROVE  i.end <= t
        <5>1. CASE i \in intervals
              BY <2>1, <4>1, <5>1
        <5>2. CASE i \notin intervals
          <6>1. i.end <= r.at /\ i.end \in Nat
                BY <2>4, <4>1, <5>2
          <6> QED BY <3>1, <3>2, <6>1
        <5> QED BY <5>1, <5>2
      <4> QED BY <1>1, <2>3, <4>1
    <3>3. CASE r.at > t
      <4>1. ASSUME NEW i \in intervals', i.user = u, i.dev = d, i.day = day, DayOf(i.end) = day
            PROVE  i.end <= r.at
        <5>1. CASE i \in intervals
          <6>1. i.end <= t /\ i.end \in Nat
                BY <2>1, <4>1, <5>1, Bounds DEF LedgerInv, TypeOK
          <6> QED BY <3>1, <3>3, <6>1
        <5>2. CASE i \notin intervals
              BY <2>4, <4>1, <5>2
        <5> QED BY <5>1, <5>2
      <4>2. Measured(new, day, r.at) <= counter'[u][d][day]
        <5>1. Measured(new, day, r.at) <= Measured(old, day, r.at)
              /\ Measured(new, day, r.at) \in Nat /\ Measured(old, day, r.at) \in Nat
              BY <1>3
        <5> HIDE DEF old, new
        <5> QED BY <2>2, <2>5, <3>1, <5>1
      <4>3. r.at \in 0..polled'[d]
            BY <1>1, <3>1
      <4> QED BY <4>1, <4>2, <4>3
    <3> QED BY <3>1, <3>2, <3>3
  <2>6. CASE ~(r.dev = d /\ day = Today /\ DayOf(r.at) = Today)
    <3>1. ASSUME NEW i \in intervals', i.user = u, i.dev = d, i.day = day, DayOf(i.end) = day
          PROVE  i \in intervals
      <4> SUFFICES ASSUME i \notin intervals PROVE FALSE
          OBVIOUS
      <4>1. d = r.dev /\ day = Today /\ i.end <= r.at /\ i.end \in Nat
            BY <2>4, <3>1
      <4>2. r.at <= polled[d] /\ r.at \in Nat
            BY <1>1, <4>1, Bounds DEF Counted, Request
      <4>3. DayOf(i.end) <= DayOf(r.at) /\ DayOf(r.at) <= Today
            /\ DayOf(i.end) \in Days /\ DayOf(r.at) \in Days
            BY <1>1, <4>1, <4>2, DayOfInOrder DEF Today
      <4> QED BY <2>6, <3>1, <4>1, <4>3 DEF Days
    <3> QED BY <1>1, <2>1, <2>3, <3>1
  <2> QED BY <2>5, <2>6
<1> QED BY <1>4, <1>5, <1>6, <1>7 DEF Counted

LEMMA CountInit == ASSUME Init, LedgerInv PROVE CountInv
<1> SUFFICES ASSUME NEW d \in Devices, NEW u \in Users PROVE Counted(d, u)
    BY DEF CountInv
<1>1. /\ mem[d][u] = FreshUserState /\ disk[d][u] = FreshUserState
      /\ polled[d] = 0 /\ tick[d] = NoRequest /\ intervals = {} /\ net = {}
      /\ counter = [v \in Users |-> [e \in Devices |-> [day \in Days |-> 0]]]
      BY DEF Init
<1>2. Spans(d, u) = {}
  <2>1. ToSet(FreshUserState.pending) = {}
        BY DEF FreshUserState, ToSet
  <2> QED BY <1>1, <2>1 DEF Spans, OnHub, Sent, Buffers, Current
<1>3. \A day, t : Measured(Spans(d, u), day, t) = 0
      BY <1>2, FS_EmptySet DEF Measured, UpTo, Covered
<1>4. 0 \in 0..polled[d] /\ \A day \in Days : counter[u][d][day] = 0
      BY <1>1
<1>5. mem[d][u].cum = 0
      BY <1>1 DEF FreshUserState
<1> QED BY <1>1, <1>2, <1>3, <1>4, <1>5 DEF Counted

LEMMA CountNext == LedgerInv /\ LedgerInv' /\ CountInv /\ [Next]_vars => CountInv'
<1> SUFFICES ASSUME LedgerInv, LedgerInv', CountInv, [Next]_vars, restarted' = {},
                    NEW e \in Devices, NEW u \in Users
             PROVE  Counted(e, u)'
    BY DEF CountInv
<1>1. ASSUME restarted = {} PROVE \A v \in Users : Counted(e, v)
      BY <1>1 DEF CountInv
<1>2. ASSUME NEW d \in Devices, NEW active \in SUBSET Users, Tick(d, active) PROVE Counted(e, u)'
  <2>1. Counted(e, u)
        BY <1>1, <1>2 DEF Tick
  <2>2. CASE e = d
        BY <1>2, <2>1, <2>2, TickCounts
  <2>3. CASE e # d
    <3>1. /\ net' = net \cup {tick'[d]} /\ tick'[d].dev = d
          BY <1>2, TickOfUser
    <3>2. Untouched(e) /\ UNCHANGED <<now, intervals, counter>>
          BY <1>2, <2>3, Typed DEF Tick, Untouched, hubVars
    <3>3. Spans(e, u)' \subseteq Spans(e, u)
          BY <2>3, <3>1, <3>2, ElsewhereKeeps
    <3>4. \A r \in net' : r \in net \/ r.dev # e
          BY <2>3, <3>1
    <3> QED BY <2>1, <3>2, <3>3, <3>4, CountedStays DEF Untouched
  <2> QED BY <2>2, <2>3
<1>3. ASSUME NEW d \in Devices, Receive(d) \/ Timeout(d) \/ Save(d) PROVE Counted(e, u)'
  <2>1. /\ Spans(e, u)' \subseteq Spans(e, u)
        /\ UNCHANGED <<polled, net, intervals, counter, restarted>>
        BY <1>3, ReceiveKeeps, TimeoutKeeps, SaveKeeps DEF Receive, Timeout, Save, hubVars, historyVars
  <2>2. mem'[e][u].day = mem[e][u].day /\ mem'[e][u].cum = mem[e][u].cum
    <3>1. mem[e][u] \in UserState /\ mem \in [Devices -> [Users -> UserState]]
          BY Typed
    <3>2. CASE Receive(d)
          BY <3>1, <3>2 DEF Receive, UserState
    <3>3. CASE Timeout(d)
          BY <3>1, <3>3 DEF Timeout, UserState
    <3>4. CASE Save(d)
          BY <3>4 DEF Save
    <3> QED BY <1>3, <3>2, <3>3, <3>4
  <2>3. Counted(e, u)
        BY <1>1, <2>1
  <2> QED BY <2>1, <2>2, <2>3, CountedStays
<1>4. ASSUME NEW d \in Devices, Crash(d) PROVE Counted(e, u)'
      BY <1>4 DEF Crash
<1>5. ASSUME NEW r \in net, Sync(r) PROVE Counted(e, u)'
  <2>1. restarted = {}
        BY <1>5 DEF Sync, historyVars
  <2> QED BY <1>1, <1>5, <2>1, SyncCounts
<1>6. ASSUME NEW used \in SUBSET (Devices \X Users), Elapse(used) PROVE Counted(e, u)'
  <2>1. UNCHANGED <<mem, polled, net, intervals, counter, restarted>> /\ Spans(e, u)' = Spans(e, u)
        BY <1>6, ElapseKeeps DEF Elapse, hubVars, historyVars
  <2> QED BY <1>1, <2>1, CountedStays
<1>7. CASE UNCHANGED vars
  <2>1. /\ UNCHANGED <<mem, disk, tick, polled, net, intervals, counter, restarted>>
        BY <1>7 DEF vars, hubVars, historyVars
  <2>2. Spans(e, u)' = Spans(e, u)
        BY <2>1 DEF Spans, OnHub, Sent, Buffers, Current, Reported
  <2> QED BY <1>1, <2>1, <2>2, CountedStays
<1> QED BY <1>2, <1>3, <1>4, <1>5, <1>6, <1>7 DEF Next

LEMMA CountHolds == Spec => []CountInv
<1>1. Init => CountInv
      BY LedgerInit, CountInit
<1>2. LedgerInv /\ LedgerInv' /\ CountInv /\ [Next]_vars => CountInv'
      BY CountNext
<1> QED BY <1>1, <1>2, LedgerHolds, PTL DEF Spec

\* Sets counted one by one are counted side by side.
LEMMA SideBySide ==
    ASSUME NEW D, IsFiniteSet(D), NEW C, NEW n \in [D -> Nat],
           \A d \in D : IsFiniteSet(C[d]) /\ Cardinality(C[d]) <= n[d]
    PROVE  /\ IsFiniteSet(UNION {{d} \X (1..n[d]) : d \in D})
           /\ Cardinality(UNION {C[d] : d \in D}) <= Cardinality(UNION {{d} \X (1..n[d]) : d \in D})
<1> DEFINE A == UNION {C[d] : d \in D}
           rows(d) == {d} \X (1..n[d])
           B == UNION {rows(d) : d \in D}
<1>1. IsFiniteSet(B)
  <2> DEFINE all == {rows(d) : d \in D}
             g == [d \in D |-> rows(d)]
  <2>1. g \in Surjection(D, all)
        BY DEF Surjection
  <2>2. IsFiniteSet(all)
    <3> HIDE DEF g, all
    <3> QED BY <2>1, FS_Surjection
  <2>3. ASSUME NEW d \in D PROVE IsFiniteSet(rows(d))
    <3>1. IsFiniteSet({d})
          BY FS_Singleton
    <3>2. n[d] \in Int /\ 1 \in Int
          OBVIOUS
    <3>3. IsFiniteSet(1..n[d])
          BY <3>2, FS_Interval
    <3> QED BY <3>1, <3>3, FS_Product
  <2> HIDE DEF rows
  <2>4. \A T \in all : IsFiniteSet(T)
        BY <2>3
  <2> HIDE DEF all
  <2>5. IsFiniteSet(UNION all)
        BY <2>2, <2>4, FS_UNION
  <2> QED BY <2>5 DEF all
<1>2. ASSUME NEW d \in D PROVE \E f : f \in Injection(C[d], 1..n[d])
  <2> DEFINE k == Cardinality(C[d])
  <2>1. k \in Nat /\ k <= n[d] /\ ExistsBijection(1..k, C[d])
        BY FS_CardinalityType
  <2>2. ExistsBijection(C[d], 1..k)
        BY <2>1, Fun_ExistsBijSymmetric
  <2>3. PICK f : f \in Bijection(C[d], 1..k)
        BY <2>2 DEF ExistsBijection
  <2>4. 1..k \subseteq 1..n[d]
        BY <2>1
  <2> HIDE DEF k
  <2>5. f \in [C[d] -> 1..k] /\ IsInjective(f)
        BY <2>3 DEF Bijection, Injection
  <2>6. f \in [C[d] -> 1..n[d]]
        BY <2>4, <2>5
  <2> QED BY <2>5, <2>6 DEF Injection
<1> DEFINE into(d) == CHOOSE f : f \in Injection(C[d], 1..n[d])
           home(x) == CHOOSE d \in D : x \in C[d]
           h == [x \in A |-> <<home(x), into(home(x))[x]>>]
<1>3. \A d \in D : into(d) \in Injection(C[d], 1..n[d])
      BY <1>2
<1>4. \A x \in A : home(x) \in D /\ x \in C[home(x)]
      OBVIOUS
<1> HIDE DEF into, home
<1>5. \A d \in D : into(d) \in [C[d] -> 1..n[d]]
                   /\ \A x, y \in C[d] : into(d)[x] = into(d)[y] => x = y
      BY <1>3 DEF Injection, IsInjective
<1>6. \A x \in A : h[x] \in B
  <2> TAKE x \in A
  <2>1. into(home(x))[x] \in 1..n[home(x)]
        BY <1>4, <1>5
  <2>2. h[x] \in rows(home(x))
        BY <2>1
  <2> QED BY <1>4, <2>2
<1>7. \A x, y \in A : h[x] = h[y] => x = y
  <2> TAKE x, y \in A
  <2> HAVE h[x] = h[y]
  <2>1. home(x) = home(y) /\ into(home(x))[x] = into(home(y))[y]
        OBVIOUS
  <2> QED BY <1>4, <1>5, <2>1
<1>8. h \in [A -> B] /\ DOMAIN h = A
  <2>1. h = [x \in A |-> h[x]]
        OBVIOUS
  <2> HIDE DEF h, A, B
  <2> QED BY <1>6, <2>1
<1>9. h \in Injection(A, B)
  <2> HIDE DEF h, A, B
  <2> QED BY <1>7, <1>8 DEF Injection, IsInjective
<1>10. Cardinality(A) <= Cardinality(B)
  <2> HIDE DEF h, A, B
  <2> QED BY <1>1, <1>9, FS_Injection
<1> QED BY <1>1, <1>10

LEMMA UnionBound ==
    ASSUME LedgerInv, CountInv, restarted = {}, NEW u \in Users, NEW day \in Days, Punctual(day)
    PROVE  /\ UnionSeconds(u, day) <= ParallelSeconds(u, day)
           /\ \A d \in Devices : counter[u][d][day] <= ParallelSeconds(u, day)
<1> DEFINE reach(d, t) ==
             /\ Measured(Spans(d, u), day, t) <= counter[u][d][day]
             /\ \A i \in intervals :
                   i.user = u /\ i.dev = d /\ i.day = day /\ DayOf(i.end) = day => i.end <= t
           until(d) == CHOOSE t \in 0..polled[d] : reach(d, t)
           upto(d) == UpTo(Spans(d, u), day, until(d))
           C == [d \in Devices |-> Covered(upto(d))]
           n == [d \in Devices |-> counter[u][d][day]]
           rows == {i \in intervals : i.user = u /\ i.day = day}
           A == UNION {C[d] : d \in Devices}
<1>1. \A d \in Devices : reach(d, until(d))
  <2> TAKE d \in Devices
  <2>1. \E t \in 0..polled[d] : reach(d, t)
        BY DEF CountInv, Counted
  <2> HIDE DEF reach
  <2> QED BY <2>1
<1> HIDE DEF until
<1>2. n \in [Devices -> Nat]
      BY Typed
<1>3. ASSUME NEW d \in Devices
      PROVE  IsFiniteSet(C[d]) /\ Cardinality(C[d]) <= n[d] /\ C[d] \subseteq 0..MaxNow
  <2>1. upto(d) \in SUBSET Span
        BY SpansTyped DEF UpTo
  <2>2. IsFiniteSet(Covered(upto(d)))
        BY <2>1, CoveredFinite
  <2>3. Cardinality(Covered(upto(d))) <= counter[u][d][day]
        BY <1>1 DEF Measured
  <2>4. Covered(upto(d)) \subseteq 0..MaxNow
    <3> SUFFICES ASSUME NEW s \in upto(d), NEW x \in Seconds(s) PROVE x \in 0..MaxNow
        BY DEF Covered
    <3>1. s.start \in 0..MaxNow /\ s.end \in 0..MaxNow
          BY <2>1 DEF Span, Second
    <3> QED BY <3>1, Bounds DEF Seconds
  <2> QED BY <2>2, <2>3, <2>4
<1>4. ASSUME NEW i \in rows PROVE Seconds(i) \subseteq A
  <2> DEFINE s == [start |-> i.start, end |-> i.end]
             d == i.dev
  <2>1. i \in intervals /\ i.user = u /\ i.day = day /\ d \in Devices
        BY DEF LedgerInv, TypeOK
  <2>2. Seconds(i) = Seconds(s)
        BY DEF Seconds
  <2>3. CASE s = NoSpan
    <3>1. Seconds(s) = {}
          BY <2>3, NoSpanIsEmpty
    <3> QED BY <2>2, <3>1
  <2>4. CASE s # NoSpan
    <3>1. s \in Spans(d, u)
          BY <2>1, <2>4 DEF Spans, OnHub
    <3>2. DayOf(s.end) = day /\ s.end <= until(d)
          BY <1>1, <2>1 DEF Punctual
    <3>3. s \in upto(d)
          BY <3>1, <3>2 DEF UpTo
    <3> HIDE DEF s, d, upto
    <3>4. Seconds(s) \subseteq C[d]
          BY <2>1, <3>3 DEF Covered
    <3> QED BY <2>1, <2>2, <3>4
  <2> QED BY <2>3, <2>4
<1> HIDE DEF C
<1>5. Covered(rows) \subseteq A
      BY <1>4 DEF Covered
<1>6. IsFiniteSet(A) /\ Cardinality(Covered(rows)) <= Cardinality(A)
  <2>1. A \subseteq 0..MaxNow
        BY <1>3
  <2>2. IsFiniteSet(0..MaxNow)
        BY Bounds, FS_Interval
  <2> HIDE DEF A, rows
  <2>3. IsFiniteSet(A)
        BY <2>1, <2>2, FS_Subset
  <2> QED BY <1>5, <2>3, FS_Subset
<1>7. IsFiniteSet(Devices)
      BY UsageLedgerAssumption
<1> HIDE DEF n
<1>8. /\ IsFiniteSet(UNION {{d} \X (1..n[d]) : d \in Devices})
      /\ Cardinality(A) <= Cardinality(UNION {{d} \X (1..n[d]) : d \in Devices})
      BY <1>2, <1>3, <1>7, SideBySide
<1>9. ParallelSeconds(u, day) = Cardinality(UNION {{d} \X (1..n[d]) : d \in Devices})
  <2>1. \A d \in Devices : n[d] = counter[u][d][day]
        BY DEF n
  <2>2. {{d} \X (1..n[d]) : d \in Devices} = {{d} \X (1..counter[u][d][day]) : d \in Devices}
        BY <2>1
  <2> QED BY <2>2 DEF ParallelSeconds
<1>10. /\ Cardinality(Covered(rows)) \in Int /\ Cardinality(A) \in Int
       /\ Cardinality(UNION {{d} \X (1..n[d]) : d \in Devices}) \in Int
  <2> HIDE DEF A, rows
  <2>1. IsFiniteSet(Covered(rows))
        BY <1>5, <1>6, FS_Subset
  <2> QED BY <1>6, <1>8, <2>1, FS_CardinalityType
<1>11. ASSUME NEW d \in Devices PROVE counter[u][d][day] <= ParallelSeconds(u, day)
  <2> DEFINE S == {d} \X (1..n[d])
  <2>1. n[d] \in Nat /\ n[d] = counter[u][d][day]
        BY <1>2 DEF n
  <2>2. IsFiniteSet({d}) /\ Cardinality({d}) = 1
        BY FS_Singleton
  <2>3. IsFiniteSet(1..n[d]) /\ Cardinality(1..n[d]) = n[d]
    <3>1. 1 \in Int /\ n[d] \in Int
          BY <2>1
    <3>2. IsFiniteSet(1..n[d])
          /\ Cardinality(1..n[d]) = IF 1 > n[d] THEN 0 ELSE n[d] - 1 + 1
          BY <3>1, FS_Interval
    <3> QED BY <2>1, <3>2
  <2>4. Cardinality(S) = 1 * n[d]
        BY <2>2, <2>3, FS_Product
  <2>5. S \subseteq UNION {{e} \X (1..n[e]) : e \in Devices}
        OBVIOUS
  <2> HIDE DEF S
  <2>6. Cardinality(S) <= Cardinality(UNION {{e} \X (1..n[e]) : e \in Devices})
        BY <1>8, <2>5, FS_Subset
  <2> QED BY <1>9, <2>1, <2>4, <2>6
<1> QED BY <1>6, <1>8, <1>9, <1>10, <1>11 DEF UnionSeconds

LEMMA CountBounds == LedgerInv /\ CountInv => BurnOnce
<1> QED BY UnionBound DEF BurnOnce, WallclockSeconds

\* Burn once is never dearer than parallel: for any number of devices and any outage,
\* what aggregate.py's global_spent_wallclock comes to for a day is at most the sum of
\* the devices' counters, its global_spent_parallel.
THEOREM UnionIsNeverMore == Spec => []BurnOnce
<1>1. LedgerInv /\ CountInv => BurnOnce
      BY CountBounds
<1> QED BY <1>1, LedgerHolds, CountHolds, PTL

-----------------------------------------------------------------------------
(***************************************************************************)
(* The spans bound the counters.                                           *)
(***************************************************************************)
LEMMA BackingGrows ==
    ASSUME NEW S \in SUBSET Span, NEW T \in SUBSET Span, S \ {NoSpan} \subseteq T, NEW t
    PROVE  /\ Backing(S, t) \in Nat /\ Backing(T, t) \in Nat /\ Backing(S, t) <= Backing(T, t)
<1> DEFINE s == {x \in S : x.end <= t}
           z == {x \in T : x.end <= t}
<1>1. s \in SUBSET Span /\ z \in SUBSET Span /\ s \ {NoSpan} \in SUBSET z
      OBVIOUS
<1>2. Covered(s) = Covered(s \ {NoSpan})
      BY NoSpanIsEmpty DEF Covered
<1> HIDE DEF s, z
<1>3. Cardinality(Covered(s \ {NoSpan})) <= Cardinality(Covered(z))
      BY <1>1, CoveredGrows
<1>4. Cardinality(Covered(s)) \in Nat /\ Cardinality(Covered(z)) \in Nat
      BY <1>1, CoveredFinite
<1> QED BY <1>2, <1>3, <1>4 DEF s, z, Backing

\* More spans, or more seconds that never had one, back as much or more.
LEMMA BacksMore ==
    ASSUME NEW S \in SUBSET Span, NEW T \in SUBSET Span, S \ {NoSpan} \subseteq T,
           NEW moment, NEW lag, NEW cum \in Nat, NEW a \in Int, NEW b \in Int, a <= b,
           Backs(S, moment, lag, cum, a)
    PROVE  Backs(T, moment, lag, cum, b)
<1>1. PICK t \in 0..moment : lag <= moment - t /\ cum <= Backing(S, t) + a
      BY DEF Backs
<1>2. Backing(S, t) \in Nat /\ Backing(T, t) \in Nat /\ Backing(S, t) <= Backing(T, t)
      BY BackingGrows
<1>3. cum <= Backing(T, t) + b
      BY <1>1, <1>2
<1> QED BY <1>1, <1>3 DEF Backs

LEMMA HeldTyped ==
    ASSUME LedgerInv, NEW d \in Devices, NEW u \in Users
    PROVE  /\ \A pending \in Seq(Span) : Held(d, u, pending) \in SUBSET Span
           /\ Current(d, u) \in SUBSET Span /\ OnHub(d, u) \in SUBSET Span
           /\ Held(d, u, mem[d][u].pending) \in SUBSET Span
           /\ Held(d, u, disk[d][u].pending) \in SUBSET Span
           /\ unspanned[d][u] \in Int /\ mem[d][u].cum \in Nat /\ disk[d][u].cum \in Nat
<1>1. OnHub(d, u) \subseteq Span
      BY DEF LedgerInv, TypeOK, OnHub, Span
<1>2. \A p \in Seq(Span) : ToSet(p) \subseteq Span
      BY DEF ToSet
<1>3. tick[d] = NoRequest \/ tick[d].span[u] \in Span
      BY Typed DEF Request
<1>4. Current(d, u) \in SUBSET Span
      BY <1>3 DEF Current
<1>5. \A pending \in Seq(Span) : Held(d, u, pending) \in SUBSET Span
      BY <1>1, <1>2 DEF Held
<1>6. mem[d][u].pending \in Seq(Span) /\ disk[d][u].pending \in Seq(Span)
      /\ mem[d][u].cum \in Nat /\ disk[d][u].cum \in Nat
      BY StateFields
<1> QED BY <1>1, <1>4, <1>5, <1>6, Typed

\* A step that leaves a device alone, and on the hub drops nothing.
LEMMA BackedStays ==
    ASSUME LedgerInv, NEW d \in Devices, NEW u \in Users, BackedOf(d, u),
           now' = now, spent'[d] = spent[d], mem'[d] = mem[d], disk'[d] = disk[d],
           tick'[d] = tick[d], unspanned'[d] = unspanned[d],
           OnHub(d, u) \subseteq OnHub(d, u)', OnHub(d, u)' \subseteq Span
    PROVE  /\ Backed(d, u, mem[d][u], Held(d, u, mem[d][u].pending) \cup Current(d, u))'
           /\ Backed(d, u, disk[d][u], Held(d, u, disk[d][u].pending))'
<1>1. Today' = Today
      BY DEF Today
<1>2. /\ mem[d][u].pending \in Seq(Span) /\ disk[d][u].pending \in Seq(Span)
      /\ mem[d][u].cum \in Nat /\ disk[d][u].cum \in Nat /\ unspanned[d][u] \in Int
      /\ Current(d, u) \in SUBSET Span
      BY StateFields, HeldTyped
<1>3. ASSUME NEW p \in Seq(Span)
      PROVE  /\ {s \in OnHub(d, u) \cup ToSet(p) : DayOf(s.end) = Today} \in SUBSET Span
             /\ {s \in OnHub(d, u)' \cup ToSet(p) : DayOf(s.end) = Today} \in SUBSET Span
  <2>1. OnHub(d, u) \subseteq Span
        BY HeldTyped
  <2>2. ToSet(p) \subseteq Span
        BY DEF ToSet
  <2> QED BY <2>1, <2>2
<1> DEFINE pm == mem[d][u].pending
           pd == disk[d][u].pending
           m == {s \in OnHub(d, u) \cup ToSet(pm) : DayOf(s.end) = Today} \cup Current(d, u)
           mm == {s \in OnHub(d, u)' \cup ToSet(pm) : DayOf(s.end) = Today} \cup Current(d, u)
           k == {s \in OnHub(d, u) \cup ToSet(pd) : DayOf(s.end) = Today}
           kk == {s \in OnHub(d, u)' \cup ToSet(pd) : DayOf(s.end) = Today}
<1>4. m \in SUBSET Span /\ mm \in SUBSET Span /\ k \in SUBSET Span /\ kk \in SUBSET Span
      /\ m \ {NoSpan} \subseteq mm /\ k \ {NoSpan} \subseteq kk
      BY <1>2, <1>3
<1>5. ASSUME mem[d][u].day = Today
      PROVE  Backs(mm, now, spent[d][u] - mem[d][u].raw, mem[d][u].cum, unspanned[d][u])
  <2>1. Backs(m, now, spent[d][u] - mem[d][u].raw, mem[d][u].cum, unspanned[d][u])
        BY <1>5 DEF BackedOf, Backed, Held
  <2>2. unspanned[d][u] <= unspanned[d][u]
        BY <1>2
  <2> HIDE DEF m, mm
  <2> QED BY <1>2, <1>4, <2>1, <2>2, BacksMore
<1>6. ASSUME disk[d][u].day = Today
      PROVE  Backs(kk, now, spent[d][u] - disk[d][u].raw, disk[d][u].cum, unspanned[d][u])
  <2>1. Backs(k, now, spent[d][u] - disk[d][u].raw, disk[d][u].cum, unspanned[d][u])
        BY <1>6 DEF BackedOf, Backed, Held
  <2>2. unspanned[d][u] <= unspanned[d][u]
        BY <1>2
  <2> HIDE DEF k, kk
  <2> QED BY <1>2, <1>4, <2>1, <2>2, BacksMore
<1>7. Current(d, u)' = Current(d, u)
      BY DEF Current
<1> QED BY <1>1, <1>5, <1>6, <1>7 DEF Backed, Held

\* A tick reports the last seconds its counter gained; what was backed before ends
\* before them.
LEMMA TickBacks ==
    ASSUME LedgerInv, NEW d \in Devices, NEW active \in SUBSET Users, Tick(d, active),
           NEW u \in Users, BackedOf(d, u)
    PROVE  BackedOf(d, u)'
<1> DEFINE s == mem[d][u]
           span == tick'[d].span[u]
           held == Held(d, u, s.pending)
           base == IF s.day = Today THEN s.cum ELSE 0
           unbacked == IF s.day = Today THEN unspanned[d][u] ELSE 0
           gained == unspanned'[d][u]
           count == tick'[d].cum[u]
<1>1. /\ now' = now /\ spent' = spent /\ disk' = disk /\ intervals' = intervals
      /\ pc'[d] = "sent" /\ tick[d] = NoRequest
  <2>1. now' = now /\ spent' = spent /\ disk' = disk /\ intervals' = intervals
        BY DEF Tick, hubVars
  <2>2. pc[d] = "idle" /\ pc'[d] = "sent"
        BY Typed DEF Tick
  <2> QED BY <2>1, <2>2 DEF LedgerInv, UnderWay
<1>2. PICK burned \in Nat : Ticked(d, u, burned)
      BY TickOfUser
<1>3. /\ mem'[d][u].day = Today /\ mem'[d][u].cum = count /\ mem'[d][u].raw = spent[d][u]
      /\ mem'[d][u].pending = s.pending
  <2>1. s \in UserState
        BY Typed
  <2> QED BY <1>2, <2>1 DEF Ticked, UserState
<1>4. /\ Today' = Today /\ Today \in Int /\ now \in Nat /\ spent[d][u] \in Nat
      /\ s.cum \in Nat /\ s.raw \in Nat /\ s.day \in Int /\ unspanned[d][u] \in Int
      /\ disk[d][u].day \in Int /\ disk[d][u].cum \in Nat /\ disk[d][u].day <= s.day /\ s.day <= Today
      BY <1>1, Typed, StateFields DEF Today, Days, LedgerInv, Timely
<1>5. /\ span \in Span /\ span.start <= span.end /\ Length(span) <= burned
      /\ span = NoSpan \/ (span.start >= now - burned /\ span.end = now)
      /\ count = base + burned /\ gained = unbacked + (burned - Length(span))
      BY <1>2, <1>4 DEF Ticked
<1>6. held \in SUBSET Span /\ Length(span) \in Nat
  <2>1. held \in SUBSET Span
        BY HeldTyped
  <2>2. \A x \in Span : x.start \in Nat /\ x.end \in Nat
        BY Bounds DEF Span
  <2> HIDE DEF span, held
  <2> QED BY <1>5, <2>1, <2>2 DEF Length
<1>7. \E S \in SUBSET held : base <= Cardinality(Covered(S)) + unbacked
                             /\ \A x \in S : x.end <= now - burned
  <2>1. CASE s.day = Today
    <3>1. Current(d, u) = {}
          BY <1>1 DEF Current
    <3>2. Backs(held, now, spent[d][u] - s.raw, s.cum, unspanned[d][u])
          BY <2>1, <3>1 DEF BackedOf, Backed
    <3>3. PICK t \in 0..now : spent[d][u] - s.raw <= now - t
                              /\ s.cum <= Backing(held, t) + unspanned[d][u]
          BY <3>2 DEF Backs
    <3> DEFINE S == {x \in held : x.end <= t}
    <3>4. burned <= now - t
          BY <1>2, <2>1, <3>3 DEF Ticked
    <3>5. \A x \in S : x.end <= now - burned
      <4>1. \A x \in Span : x.end \in Nat
            BY Bounds DEF Span
      <4> QED BY <1>4, <1>6, <3>4, <4>1
    <3>6. S \in SUBSET held /\ base <= Cardinality(Covered(S)) + unbacked
          BY <2>1, <3>3 DEF Backing
    <3> QED BY <3>5, <3>6
  <2>2. CASE s.day # Today
    <3>1. Cardinality(Covered({})) = 0
      <4>1. Covered({}) = {}
            BY DEF Covered
      <4> QED BY <4>1, FS_EmptySet
    <3>2. base = 0 /\ unbacked = 0
          BY <2>2
    <3> QED BY <3>1, <3>2
  <2> QED BY <2>1, <2>2
<1>8. PICK S \in SUBSET held : base <= Cardinality(Covered(S)) + unbacked
                               /\ \A x \in S : x.end <= now - burned
      BY <1>7
<1> DEFINE a == Cardinality(Covered(S))
           b == Cardinality(Covered(S \cup {span}))
           c == Backing(held \cup {span}, now)
<1>9. a \in Nat /\ b \in Nat /\ b >= a + Length(span)
  <2>1. S \in SUBSET Span /\ S \cup {span} \in SUBSET Span
        BY <1>5, <1>6
  <2>2. a \in Nat /\ b \in Nat
    <3> HIDE DEF span, held
    <3> QED BY <2>1, CoveredFinite
  <2>3. CASE span = NoSpan
    <3>1. a <= b
      <4> HIDE DEF span, held
      <4> QED BY <2>1, CoveredGrows
    <3> HIDE DEF a, b
    <3> QED BY <2>2, <2>3, <3>1, NoSpanIsEmpty
  <2>4. CASE span # NoSpan
    <3>1. \A x \in S : x.end <= span.start
      <4>1. \A x \in Span : x.end \in Nat /\ x.start \in Nat
            BY Bounds DEF Span
      <4>2. span.start >= now - burned /\ span.start \in Nat
            BY <1>5, <2>4, <4>1
      <4> HIDE DEF span, held
      <4> QED BY <1>4, <1>8, <2>1, <4>1, <4>2
    <3>2. b = a + Length(span)
      <4> HIDE DEF span, held
      <4> QED BY <1>5, <2>1, <3>1, CoveredAdds
    <3> HIDE DEF a, b
    <3> QED BY <2>2, <3>2, <1>6
  <2> QED BY <2>2, <2>3, <2>4
<1>10. c \in Nat /\ b <= c
  <2> DEFINE z == {x \in held \cup {span} : x.end <= now}
  <2>1. span.end <= now
        BY <1>4, <1>5, NoSpanIsEmpty
  <2>2. \A x \in S : x.end <= now
    <3>1. \A x \in Span : x.end \in Nat
          BY Bounds DEF Span
    <3> QED BY <1>4, <1>6, <1>8, <3>1
  <2>3. z \in SUBSET Span /\ S \cup {span} \in SUBSET z
        BY <1>5, <1>6, <2>1, <2>2
  <2> HIDE DEF z, span, held
  <2>4. b <= Cardinality(Covered(z)) /\ Cardinality(Covered(z)) \in Nat
        BY <2>3, CoveredGrows, CoveredFinite
  <2> QED BY <2>4 DEF z, Backing
<1>11. /\ count <= c + gained
       /\ s.day = Today => gained >= unspanned[d][u] /\ gained \in Int
  <2>1. base \in Nat /\ unbacked \in Int /\ (s.day = Today => unbacked = unspanned[d][u])
        BY <1>4
  <2> HIDE DEF a, b, c, base, unbacked, gained, count, span
  <2> QED BY <1>5, <1>6, <1>8, <1>9, <1>10, <2>1 DEF a
<1>12. Backs(held \cup {span}, now, 0, count, gained)
  <2>1. now \in 0..now /\ 0 <= now - now
        BY <1>4
  <2> HIDE DEF held, span, count, gained
  <2> QED BY <1>11, <2>1 DEF Backs, c
<1>13. Backed(d, u, mem[d][u], Held(d, u, mem[d][u].pending) \cup Current(d, u))'
  <2>1. Current(d, u)' = {span}
    <3>1. tick'[d].at = now /\ now > polled[d] /\ polled[d] \in Nat
          BY TickOfUser, Typed
    <3>2. NoRequest.at = 0
          BY DEF NoRequest
    <3>3. tick'[d] # NoRequest
          BY <3>1, <3>2
    <3> QED BY <3>3 DEF Current
  <2>2. Held(d, u, mem[d][u].pending)' = held
        BY <1>1, <1>3, <1>4 DEF Held, OnHub
  <2>3. spent'[d][u] - mem'[d][u].raw = 0
        BY <1>1, <1>3, <1>4
  <2> HIDE DEF held, span
  <2> QED BY <1>1, <1>3, <1>12, <2>1, <2>2, <2>3 DEF Backed
<1>14. Backed(d, u, disk[d][u], Held(d, u, disk[d][u].pending))'
  <2> DEFINE k == Held(d, u, disk[d][u].pending)
  <2>1. Held(d, u, disk[d][u].pending)' = k
        BY <1>1, <1>4 DEF Held, OnHub
  <2>2. ASSUME disk[d][u].day = Today
        PROVE  Backs(k, now, spent[d][u] - disk[d][u].raw, disk[d][u].cum, gained)
    <3>1. s.day = Today
          BY <1>4, <2>2
    <3>2. gained >= unspanned[d][u] /\ gained \in Int
          BY <1>11, <3>1
    <3>3. Backs(k, now, spent[d][u] - disk[d][u].raw, disk[d][u].cum, unspanned[d][u])
          BY <2>2 DEF BackedOf, Backed
    <3>4. k \in SUBSET Span
          BY HeldTyped
    <3> HIDE DEF k, gained
    <3>5. k \ {NoSpan} \subseteq k /\ unspanned[d][u] <= gained
          BY <1>4, <3>2
    <3> QED BY <1>4, <3>2, <3>3, <3>4, <3>5, BacksMore
  <2> HIDE DEF k
  <2> QED BY <1>1, <1>4, <2>1, <2>2 DEF Backed
<1>15. Delivered(d, u)'
      BY <1>1 DEF Delivered
<1> QED BY <1>13, <1>14, <1>15 DEF BackedOf

\* After an answer nothing need be buffered: the hub has it.
LEMMA ReceiveBacks ==
    ASSUME LedgerInv, NEW d \in Devices, Receive(d), NEW u \in Users, BackedOf(d, u)
    PROVE  BackedOf(d, u)'
<1> DEFINE s == mem[d][u]
           S == Held(d, u, s.pending) \cup Current(d, u)
           T == Held(d, u, <<>>)
<1>1. /\ now' = now /\ spent' = spent /\ disk' = disk /\ intervals' = intervals
      /\ unspanned' = unspanned /\ Today' = Today
      /\ pc[d] = "replied" /\ pc'[d] = "save" /\ tick'[d] = NoRequest
      BY Typed DEF Receive, hubVars, historyVars, Today
<1>2. /\ mem'[d][u].day = s.day /\ mem'[d][u].cum = s.cum /\ mem'[d][u].raw = s.raw
      /\ mem'[d][u].pending = <<>>
  <2>1. s \in UserState
        BY Typed
  <2>2. mem'[d][u] = [s EXCEPT !.pending = <<>>,
                               !.last = IF tick[d].span[u] = NoSpan THEN s.last ELSE tick[d].at]
        BY Typed DEF Receive
  <2> HIDE DEF s
  <2> QED BY <2>1, <2>2 DEF UserState
<1>3. \A p \in Seq(Span) : Held(d, u, p)' = Held(d, u, p)
      BY <1>1 DEF Held, OnHub
<1>4. ASSUME s.day = Today
      PROVE  Backs(T, now, spent[d][u] - s.raw, s.cum, unspanned[d][u])
  <2>1. /\ Reported(tick[d], u) \ {NoSpan} \subseteq OnHub(d, u)
        /\ tick[d].pending[u] = s.pending
        /\ tick[d].span[u] = NoSpan \/ DayOf(tick[d].span[u].end) = Today
        BY <1>1, <1>4 DEF BackedOf, Delivered, LedgerInv, UnderWay
  <2>2. S \ {NoSpan} \subseteq T
        BY <2>1 DEF Held, Current, Reported
  <2>3. S \in SUBSET Span /\ T \in SUBSET Span
    <3>1. <<>> \in Seq(Span)
          OBVIOUS
    <3> QED BY <3>1, HeldTyped
  <2>4. Backs(S, now, spent[d][u] - s.raw, s.cum, unspanned[d][u])
        BY <1>4 DEF BackedOf, Backed
  <2>5. s.cum \in Nat /\ unspanned[d][u] \in Int /\ unspanned[d][u] <= unspanned[d][u]
        BY HeldTyped
  <2> HIDE DEF S, T, s
  <2> QED BY <2>2, <2>3, <2>4, <2>5, BacksMore
<1>5. Backed(d, u, mem[d][u], Held(d, u, mem[d][u].pending) \cup Current(d, u))'
  <2>1. Held(d, u, mem[d][u].pending)' = T /\ Current(d, u)' = {}
        BY <1>1, <1>2 DEF Held, OnHub, Current
  <2> HIDE DEF T
  <2> QED BY <1>1, <1>2, <1>4, <2>1 DEF Backed
<1>6. Backed(d, u, disk[d][u], Held(d, u, disk[d][u].pending))'
  <2>1. Held(d, u, disk[d][u].pending)' = Held(d, u, disk[d][u].pending)
        BY <1>1 DEF Held, OnHub
  <2> QED BY <1>1, <2>1 DEF BackedOf, Backed
<1>7. Delivered(d, u)'
      BY <1>1 DEF Delivered
<1> QED BY <1>5, <1>6, <1>7 DEF BackedOf

\* A request given up goes to the buffer, and what the cap pushes out of it is accounted
\* for.
LEMMA TimeoutBacks ==
    ASSUME LedgerInv, NEW d \in Devices, Timeout(d), NEW u \in Users, BackedOf(d, u)
    PROVE  BackedOf(d, u)'
<1> DEFINE s == mem[d][u]
           span == tick[d].span[u]
           kept == Buffered(s.pending, span)
           over == Overflow(s.pending, span)
           S == Held(d, u, s.pending) \cup Current(d, u)
           T == Held(d, u, kept)
           k == Held(d, u, disk[d][u].pending)
           full == span # NoSpan /\ Len(s.pending) = MaxPending
           h == Head(s.pending)
<1>1. /\ now' = now /\ spent' = spent /\ disk' = disk /\ intervals' = intervals /\ Today' = Today
      /\ pc[d] \in {"sent", "replied"} /\ pc'[d] = "save" /\ tick'[d] = NoRequest
      /\ unspanned'[d][u] = unspanned[d][u] + over
      BY Typed DEF Timeout, hubVars, Today
<1>2. /\ mem'[d][u].day = s.day /\ mem'[d][u].cum = s.cum /\ mem'[d][u].raw = s.raw
      /\ mem'[d][u].pending = kept
  <2>1. s \in UserState
        BY Typed
  <2>2. mem'[d][u] = [s EXCEPT !.pending = kept]
        BY Typed DEF Timeout
  <2> HIDE DEF s, kept
  <2> QED BY <2>1, <2>2 DEF UserState
<1>3. /\ tick[d] \in Request /\ span \in Span
      /\ span = NoSpan \/ DayOf(span.end) = s.day
  <2>1. tick[d] \in Request
        BY <1>1 DEF LedgerInv, UnderWay
  <2> QED BY <1>1, <2>1 DEF LedgerInv, UnderWay, Request
<1>4. /\ s.pending \in Seq(Span) /\ Len(s.pending) <= MaxPending
      /\ s.cum \in Nat /\ unspanned[d][u] \in Int /\ disk[d][u].cum \in Nat
      BY StateFields, HeldTyped
<1>5. /\ kept \in Seq(Span) /\ (span # NoSpan => span \in ToSet(kept))
      /\ \A x \in ToSet(s.pending) \ ToSet(kept) : full /\ x = h
  <2> HIDE DEF s, span
  <2> QED BY <1>3, <1>4, BufferedKeeps
<1>6. S \in SUBSET Span /\ T \in SUBSET Span /\ k \in SUBSET Span
      BY <1>5, HeldTyped
<1>7. full => h \in Span /\ h.start <= h.end /\ Length(h) \in Nat
  <2> HAVE full
  <2>1. 1 \in DOMAIN s.pending /\ h = s.pending[1]
        BY <1>4, Bounds
  <2>2. h \in Span /\ h \in ToSet(s.pending)
        BY <1>4, <2>1 DEF ToSet
  <2>3. h.start \in Nat /\ h.end \in Nat
        BY <2>2, Bounds DEF Span
  <2>4. h = NoSpan \/ h \in Spans(d, u)
        BY <2>2 DEF Spans, Buffers
  <2>5. h.start <= h.end
    <3> HIDE DEF h, s
    <3>1. CASE h = NoSpan
          BY <3>1, NoSpanIsEmpty
    <3>2. CASE h # NoSpan
          BY <2>3, <2>4, <3>2 DEF LedgerInv, SpansDiffer
    <3> QED BY <3>1, <3>2
  <2> HIDE DEF h
  <2> QED BY <2>2, <2>3, <2>5 DEF Length
<1>8. over \in Nat /\ over = IF full THEN Length(h) ELSE 0
      BY <1>7 DEF Overflow
<1>9. ASSUME s.day = Today
      PROVE  Backs(T, now, spent[d][u] - s.raw, s.cum, unspanned[d][u] + over)
  <2>1. Backs(S, now, spent[d][u] - s.raw, s.cum, unspanned[d][u])
        BY <1>9 DEF BackedOf, Backed
  <2>2. \A x \in S : x \in T \/ x = NoSpan \/ (full /\ x = h)
    <3> SUFFICES ASSUME NEW x \in S, x \notin T, x # NoSpan PROVE full /\ x = h
        OBVIOUS
    <3>1. CASE x \in Current(d, u)
      <4>1. x = span /\ x \in ToSet(kept)
            BY <1>5, <3>1 DEF Current
      <4> HIDE DEF kept
      <4> QED BY <1>3, <1>9, <4>1 DEF Held
    <3>2. CASE x \in Held(d, u, s.pending)
      <4> HIDE DEF kept
      <4> QED BY <1>5, <3>2 DEF Held
    <3> QED BY <3>1, <3>2
  <2>3. CASE ~full
    <3>1. S \ {NoSpan} \subseteq T
          BY <2>2, <2>3
    <3>2. unspanned[d][u] + over \in Int /\ unspanned[d][u] <= unspanned[d][u] + over
          BY <1>4, <1>8
    <3> HIDE DEF S, T, s, over, full
    <3> QED BY <1>4, <1>6, <2>1, <3>1, <3>2, BacksMore DEF s
  <2>4. CASE full
    <3>1. PICK t \in 0..now : spent[d][u] - s.raw <= now - t
                              /\ s.cum <= Backing(S, t) + unspanned[d][u]
          BY <2>1 DEF Backs
    <3> DEFINE y == {x \in S : x.end <= t}
               z == {x \in T : x.end <= t}
               a == Cardinality(Covered(y))
               b == Cardinality(Covered(z))
               c == Cardinality(Covered(z \cup {h}))
    <3>2. y \in SUBSET Span /\ z \in SUBSET Span /\ y \ {NoSpan} \in SUBSET (z \cup {h})
          BY <1>6, <2>2
    <3>3. Covered(y) = Covered(y \ {NoSpan})
          BY NoSpanIsEmpty DEF Covered
    <3> HIDE DEF y, z, h, full
    <3>4. a <= c /\ a \in Nat /\ b \in Nat /\ c \in Nat
      <4>1. z \cup {h} \in SUBSET Span
            BY <1>7, <2>4, <3>2
      <4>2. Cardinality(Covered(y \ {NoSpan})) <= c
            BY <3>2, <4>1, CoveredGrows
      <4> QED BY <3>2, <3>3, <4>1, <4>2, CoveredFinite
    <3>5. c <= b + Length(h)
          BY <1>7, <2>4, <3>2, CoveredAdds
    <3>6. s.cum <= a + unspanned[d][u]
          BY <3>1 DEF y, Backing
    <3>7. over = Length(h)
          BY <1>8, <2>4
    <3>8. s.cum <= b + (unspanned[d][u] + over)
      <4> HIDE DEF a, b, c, over, s
      <4> QED BY <1>4, <1>8, <3>4, <3>5, <3>6, <3>7 DEF s
    <3>9. s.cum <= Backing(T, t) + (unspanned[d][u] + over)
          BY <3>8 DEF z, Backing
    <3> QED BY <3>1, <3>9 DEF Backs
  <2> QED BY <2>3, <2>4
<1>10. Backed(d, u, mem[d][u], Held(d, u, mem[d][u].pending) \cup Current(d, u))'
  <2>1. Held(d, u, mem[d][u].pending)' = T /\ Current(d, u)' = {}
        BY <1>1, <1>2 DEF Held, OnHub, Current
  <2> HIDE DEF T, over
  <2> QED BY <1>1, <1>2, <1>9, <2>1 DEF Backed
<1>11. Backed(d, u, disk[d][u], Held(d, u, disk[d][u].pending))'
  <2>1. Held(d, u, disk[d][u].pending)' = k
        BY <1>1 DEF Held, OnHub
  <2>2. ASSUME disk[d][u].day = Today
        PROVE  Backs(k, now, spent[d][u] - disk[d][u].raw, disk[d][u].cum, unspanned[d][u] + over)
    <3>1. Backs(k, now, spent[d][u] - disk[d][u].raw, disk[d][u].cum, unspanned[d][u])
          BY <2>2 DEF BackedOf, Backed
    <3>2. unspanned[d][u] + over \in Int /\ unspanned[d][u] <= unspanned[d][u] + over
          BY <1>4, <1>8
    <3>3. k \ {NoSpan} \subseteq k
          OBVIOUS
    <3> HIDE DEF k, over
    <3> QED BY <1>4, <1>6, <3>1, <3>2, <3>3, BacksMore
  <2> HIDE DEF k, over
  <2> QED BY <1>1, <2>1, <2>2 DEF Backed
<1>12. Delivered(d, u)'
      BY <1>1 DEF Delivered
<1> QED BY <1>10, <1>11, <1>12 DEF BackedOf

LEMMA SaveBacks ==
    ASSUME LedgerInv, NEW d \in Devices, Save(d), NEW u \in Users, BackedOf(d, u)
    PROVE  BackedOf(d, u)'
<1>1. /\ now' = now /\ spent' = spent /\ mem' = mem /\ intervals' = intervals
      /\ unspanned' = unspanned /\ Today' = Today /\ tick' = tick
      /\ disk'[d] = mem[d] /\ pc[d] = "save" /\ pc'[d] = "idle"
      BY Typed DEF Save, hubVars, historyVars, Today
<1>2. tick[d] = NoRequest
      BY <1>1 DEF LedgerInv, UnderWay
<1>3. Current(d, u) = {} /\ Current(d, u)' = {}
      BY <1>1, <1>2 DEF Current
<1>4. /\ Held(d, u, mem[d][u].pending)' = Held(d, u, mem[d][u].pending)
      /\ Held(d, u, disk[d][u].pending)' = Held(d, u, mem[d][u].pending)
      BY <1>1 DEF Held, OnHub
<1>5. Backed(d, u, mem[d][u], Held(d, u, mem[d][u].pending))
      BY <1>3 DEF BackedOf
<1>6. Delivered(d, u)'
      BY <1>1 DEF Delivered
<1> QED BY <1>1, <1>3, <1>4, <1>5, <1>6 DEF BackedOf, Backed

LEMMA CrashBacks ==
    ASSUME LedgerInv, NEW d \in Devices, Crash(d), NEW u \in Users, BackedOf(d, u)
    PROVE  BackedOf(d, u)'
<1>1. /\ now' = now /\ spent' = spent /\ disk' = disk /\ intervals' = intervals
      /\ unspanned' = unspanned /\ Today' = Today /\ tick'[d] = NoRequest
      /\ mem'[d] = disk[d] /\ pc'[d] = "idle"
      BY Typed DEF Crash, hubVars, Today
<1>2. Current(d, u)' = {}
      BY <1>1 DEF Current
<1>3. /\ Held(d, u, mem[d][u].pending)' = Held(d, u, disk[d][u].pending)
      /\ Held(d, u, disk[d][u].pending)' = Held(d, u, disk[d][u].pending)
      BY <1>1 DEF Held, OnHub
<1>4. Delivered(d, u)'
      BY <1>1 DEF Delivered
<1> QED BY <1>1, <1>2, <1>3, <1>4 DEF BackedOf, Backed

\* Of a request with no end another user has, every span is on the hub after its sync:
\* inserted now, or the row with that end was there, and is the same span.
LEMMA SyncDelivers ==
    ASSUME LedgerInv, NoSharedEnd, NEW r \in net, Sync(r), NEW u \in Users
    PROVE  Reported(r, u) \ {NoSpan} \subseteq OnHub(r.dev, u)'
<1> SUFFICES ASSUME NEW s \in Reported(r, u) \ {NoSpan} PROVE s \in OnHub(r.dev, u)'
    OBVIOUS
<1> DEFINE d == r.dev
           row == [user |-> u, dev |-> d, day |-> Today, start |-> s.start, end |-> s.end]
<1>1. d \in Devices /\ r \in Request /\ intervals' = intervals \cup Insert(r)
      BY Typed DEF Sync, Request
<1>2. s \in Spans(d, u) /\ s \in Span
      BY <1>1, SpansTyped DEF Spans, Sent
<1>3. s.start < s.end /\ s = [start |-> s.start, end |-> s.end]
      /\ s.start \in Nat /\ s.end \in Nat
      BY <1>1, <1>2, Bounds DEF LedgerInv, SpansDiffer, Span
<1>4. row \in Rows(r, u)
      BY <1>3 DEF Rows
<1>5. CASE \A other \in intervals \cup RowsBefore(r, u) : ~(other.dev = d /\ other.end = s.end)
  <2>1. row \in Insert(r)
        BY <1>4, <1>5 DEF Insert
  <2>2. row \in intervals' /\ row.user = u /\ row.dev = d
        BY <1>1, <2>1
  <2> QED BY <1>3, <2>2 DEF OnHub
<1>6. ASSUME NEW other \in intervals, other.dev = d, other.end = s.end
      PROVE  s \in OnHub(d, u)'
  <2> DEFINE v == other.user
             x == [start |-> other.start, end |-> other.end]
  <2>1. v \in Users /\ x \in OnHub(d, v)
        BY <1>6 DEF LedgerInv, TypeOK, OnHub
  <2>2. x # NoSpan
        BY <1>3, <1>6, NoSpanIsEmpty
  <2>3. x \in Spans(d, v)
        BY <2>1, <2>2 DEF Spans
  <2>4. x.end = s.end
        BY <1>6
  <2>5. v = u
        BY <1>1, <1>2, <2>1, <2>3, <2>4 DEF NoSharedEnd
  <2>6. x = s
        BY <1>1, <1>2, <2>3, <2>4, <2>5 DEF LedgerInv, SpansDiffer
  <2> QED BY <1>1, <2>1, <2>5, <2>6, SyncSpans
<1>7. ASSUME NEW other \in RowsBefore(r, u), other.dev = d, other.end = s.end
      PROVE  FALSE
  <2>1. PICK i \in DOMAIN UserOrder :
               /\ \A j \in DOMAIN UserOrder : UserOrder[j] = u => i < j
               /\ other \in Rows(r, UserOrder[i])
        BY <1>7 DEF RowsBefore
  <2> DEFINE v == UserOrder[i]
  <2>2. v \in Users /\ v # u
    <3>1. v \in Users
          BY DEF Users, ToSet
    <3>2. i \in Int
          BY UsageLedgerAssumption
    <3> QED BY <2>1, <3>1, <3>2
  <2>3. PICK x \in Reported(r, v) : x.start < x.end /\ x.end = s.end
        BY <1>7, <2>1 DEF Rows
  <2>4. x \in Spans(d, v)
        BY <2>3, NoSpanIsEmpty DEF Spans, Sent
  <2> QED BY <1>1, <1>2, <2>2, <2>3, <2>4 DEF NoSharedEnd
<1> QED BY <1>5, <1>6, <1>7

LEMMA SyncBacks ==
    ASSUME LedgerInv, NoSharedEnd, NEW r \in net, Sync(r), NEW d \in Devices, NEW u \in Users,
           BackedOf(d, u)
    PROVE  BackedOf(d, u)'
<1>1. /\ UNCHANGED <<now, spent, mem, disk, tick, unspanned>>
      /\ pc' = IF pc[r.dev] = "sent" /\ tick[r.dev] = r
               THEN [pc EXCEPT ![r.dev] = "replied"] ELSE pc
      BY DEF Sync, historyVars
<1>2. OnHub(d, u) \subseteq OnHub(d, u)'
      BY SyncSpans
<1>3. OnHub(d, u)' \subseteq Span
  <2>1. r \in Request
        BY Typed
  <2>2. Reported(r, u) \subseteq Span
        BY <2>1 DEF Request, Reported, ToSet
  <2>3. \A s \in OnHub(d, u)' \ OnHub(d, u) : s \in Reported(r, u)
        BY SyncSpans
  <2> QED BY <2>2, <2>3, HeldTyped
<1>4. Delivered(d, u)'
  <2> SUFFICES ASSUME pc'[d] = "replied"
               PROVE  Reported(tick[d], u) \ {NoSpan} \subseteq OnHub(d, u)'
      BY <1>1 DEF Delivered, Reported
  <2>1. CASE pc[d] = "replied"
        BY <1>2, <2>1 DEF BackedOf, Delivered
  <2>2. CASE pc[d] # "replied"
    <3>1. r.dev = d /\ tick[d] = r
          BY <1>1, <2>2, Typed
    <3> QED BY <3>1, SyncDelivers
  <2> QED BY <2>1, <2>2
<1> QED BY <1>1, <1>2, <1>3, <1>4, BackedStays DEF BackedOf

\* A second passes: the lag of a counter grows with the time it is behind.
LEMMA ElapseBacks ==
    ASSUME LedgerInv, NEW used \in SUBSET (Devices \X Users), Elapse(used),
           NEW d \in Devices, NEW u \in Users, BackedOf(d, u)
    PROVE  BackedOf(d, u)'
<1>1. /\ UNCHANGED <<mem, disk, pc, tick, intervals, unspanned>>
      /\ now' = now + 1 /\ now \in Nat /\ Today \in Int /\ Today' \in Int /\ Today <= Today'
      /\ spent'[d][u] <= spent[d][u] + 1 /\ spent'[d][u] \in Int /\ spent[d][u] \in Int
  <2>1. UNCHANGED <<mem, disk, pc, tick, intervals, unspanned>>
        BY DEF Elapse, hubVars, historyVars
  <2>2. LedgerInv' /\ now' = now + 1 /\ Today' \in Days /\ Today <= Today'
        /\ spent'[d][u] <= spent[d][u] + 1
        BY ElapseKeeps
  <2>3. spent'[d][u] \in Nat
        BY <2>2 DEF LedgerInv, TypeOK
  <2> QED BY <2>1, <2>2, <2>3, Typed DEF Days
<1>2. /\ mem[d][u].day \in Int /\ disk[d][u].day \in Int
      /\ mem[d][u].raw \in Nat /\ disk[d][u].raw \in Nat
      /\ disk[d][u].day <= mem[d][u].day /\ mem[d][u].day <= Today
      BY StateFields DEF LedgerInv, Timely
<1>3. ASSUME NEW S, NEW raw \in Nat, NEW cum, NEW a, Backs(S, now, spent[d][u] - raw, cum, a)
      PROVE  Backs(S, now', spent'[d][u] - raw, cum, a)
  <2>1. PICK t \in 0..now : spent[d][u] - raw <= now - t /\ cum <= Backing(S, t) + a
        BY <1>3 DEF Backs
  <2>2. t \in 0..now' /\ spent'[d][u] - raw <= now' - t
        BY <1>1, <2>1
  <2> QED BY <2>1, <2>2 DEF Backs
<1>4. \A s \in {mem[d][u], disk[d][u]} : s.day = Today' => s.day = Today /\ Today' = Today
      BY <1>1, <1>2
<1>5. ASSUME Today' = Today
      PROVE  /\ (Held(d, u, mem[d][u].pending) \cup Current(d, u))'
                   = Held(d, u, mem[d][u].pending) \cup Current(d, u)
             /\ Held(d, u, disk[d][u].pending)' = Held(d, u, disk[d][u].pending)
      BY <1>1, <1>5 DEF Held, OnHub, Current
<1>6. Backed(d, u, mem[d][u], Held(d, u, mem[d][u].pending) \cup Current(d, u))'
  <2> DEFINE S == Held(d, u, mem[d][u].pending) \cup Current(d, u)
  <2> SUFFICES ASSUME mem[d][u].day = Today'
               PROVE  Backs(S', now', spent'[d][u] - mem[d][u].raw, mem[d][u].cum, unspanned[d][u])
      BY <1>1 DEF Backed
  <2>1. S' = S /\ mem[d][u].day = Today
        BY <1>4, <1>5
  <2>2. Backs(S, now, spent[d][u] - mem[d][u].raw, mem[d][u].cum, unspanned[d][u])
        BY <2>1 DEF BackedOf, Backed
  <2> HIDE DEF S
  <2>3. Backs(S, now', spent'[d][u] - mem[d][u].raw, mem[d][u].cum, unspanned[d][u])
        BY <1>2, <1>3, <2>2
  <2> QED BY <2>1, <2>3
<1>7. Backed(d, u, disk[d][u], Held(d, u, disk[d][u].pending))'
  <2> DEFINE S == Held(d, u, disk[d][u].pending)
  <2> SUFFICES ASSUME disk[d][u].day = Today'
               PROVE  Backs(S', now', spent'[d][u] - disk[d][u].raw, disk[d][u].cum, unspanned[d][u])
      BY <1>1 DEF Backed
  <2>1. S' = S /\ disk[d][u].day = Today
        BY <1>4, <1>5
  <2>2. Backs(S, now, spent[d][u] - disk[d][u].raw, disk[d][u].cum, unspanned[d][u])
        BY <2>1 DEF BackedOf, Backed
  <2> HIDE DEF S
  <2>3. Backs(S, now', spent'[d][u] - disk[d][u].raw, disk[d][u].cum, unspanned[d][u])
        BY <1>2, <1>3, <2>2
  <2> QED BY <2>1, <2>3
<1>8. Delivered(d, u)'
      BY <1>1 DEF BackedOf, Delivered, OnHub, Reported
<1> QED BY <1>6, <1>7, <1>8 DEF BackedOf

LEMMA BackedNext == LedgerInv /\ NoSharedEnd /\ BackedInv /\ [Next]_vars => BackedInv'
<1> SUFFICES ASSUME LedgerInv, NoSharedEnd, BackedInv, [Next]_vars,
                    NEW e \in Devices, NEW u \in Users
             PROVE  BackedOf(e, u)'
    BY DEF BackedInv
<1>1. BackedOf(e, u) /\ OnHub(e, u) \subseteq Span
      BY HeldTyped DEF BackedInv
<1>2. ASSUME Untouched(e), UNCHANGED <<now, intervals>>, unspanned'[e] = unspanned[e]
      PROVE  BackedOf(e, u)'
  <2>1. OnHub(e, u)' = OnHub(e, u)
        BY <1>2 DEF OnHub
  <2>2. Delivered(e, u)'
        BY <1>1, <1>2, <2>1 DEF BackedOf, Delivered, Reported, Untouched
  <2> QED BY <1>1, <1>2, <2>1, <2>2, BackedStays DEF Untouched, BackedOf
<1>3. ASSUME NEW d \in Devices, NEW active \in SUBSET Users, Tick(d, active)
      PROVE  BackedOf(e, u)'
  <2>1. CASE e = d
        BY <1>1, <1>3, <2>1, TickBacks
  <2>2. CASE e # d
        BY <1>2, <1>3, <2>2, Typed DEF Tick, Untouched, hubVars
  <2> QED BY <2>1, <2>2
<1>4. ASSUME NEW d \in Devices, Receive(d) PROVE BackedOf(e, u)'
  <2>1. CASE e = d
        BY <1>1, <1>4, <2>1, ReceiveBacks
  <2>2. CASE e # d
        BY <1>2, <1>4, <2>2, Typed DEF Receive, Untouched, hubVars, historyVars
  <2> QED BY <2>1, <2>2
<1>5. ASSUME NEW d \in Devices, Timeout(d) PROVE BackedOf(e, u)'
  <2>1. CASE e = d
        BY <1>1, <1>5, <2>1, TimeoutBacks
  <2>2. CASE e # d
        BY <1>2, <1>5, <2>2, Typed DEF Timeout, Untouched, hubVars
  <2> QED BY <2>1, <2>2
<1>6. ASSUME NEW d \in Devices, Save(d) PROVE BackedOf(e, u)'
  <2>1. CASE e = d
        BY <1>1, <1>6, <2>1, SaveBacks
  <2>2. CASE e # d
        BY <1>2, <1>6, <2>2, Typed DEF Save, Untouched, hubVars, historyVars
  <2> QED BY <2>1, <2>2
<1>7. ASSUME NEW d \in Devices, Crash(d) PROVE BackedOf(e, u)'
  <2>1. CASE e = d
        BY <1>1, <1>7, <2>1, CrashBacks
  <2>2. CASE e # d
        BY <1>2, <1>7, <2>2, Typed DEF Crash, Untouched, hubVars
  <2> QED BY <2>1, <2>2
<1>8. ASSUME NEW r \in net, Sync(r) PROVE BackedOf(e, u)'
      BY <1>1, <1>8, SyncBacks
<1>9. ASSUME NEW used \in SUBSET (Devices \X Users), Elapse(used) PROVE BackedOf(e, u)'
      BY <1>1, <1>9, ElapseBacks
<1>10. CASE UNCHANGED vars
      BY <1>2, <1>10 DEF vars, hubVars, historyVars, Untouched
<1> QED BY <1>3, <1>4, <1>5, <1>6, <1>7, <1>8, <1>9, <1>10 DEF Next

LEMMA BackedInit == Init => BackedInv
<1> SUFFICES ASSUME Init, NEW d \in Devices, NEW u \in Users PROVE BackedOf(d, u)
    BY DEF BackedInv
<1>1. mem[d][u].day = NoDay /\ disk[d][u].day = NoDay /\ pc[d] = "idle"
      BY DEF Init, FreshUserState
<1>2. Today # NoDay
      BY DEF Today, DayOf, NoDay
<1> QED BY <1>1, <1>2 DEF BackedOf, Backed, Delivered

LEMMA BackedEnough == LedgerInv /\ BackedInv => NoActivityLost
<1> SUFFICES ASSUME LedgerInv, BackedInv, NEW d \in Devices, NEW u \in Users,
                    mem[d][u].day = Today
             PROVE  mem[d][u].cum <= Cardinality(Covered(Kept(d, u))) + unspanned[d][u]
    BY DEF NoActivityLost
<1> DEFINE S == Held(d, u, mem[d][u].pending) \cup Current(d, u)
<1>1. S \in SUBSET Span
      BY HeldTyped
<1>2. S \subseteq Kept(d, u) /\ Kept(d, u) \subseteq S
      BY DEF Held, Current, OnHub, Kept
<1>3. PICK t \in 0..now : mem[d][u].cum <= Backing(S, t) + unspanned[d][u]
      BY DEF BackedInv, BackedOf, Backed, Backs
<1> DEFINE z == {x \in S : x.end <= t}
<1>4. z \in SUBSET S
      OBVIOUS
<1> HIDE DEF S, z
<1>5. Cardinality(Covered(z)) <= Cardinality(Covered(S))
      /\ Cardinality(Covered(z)) \in Nat /\ Cardinality(Covered(S)) \in Nat
      BY <1>1, <1>4, CoveredGrows, CoveredFinite
<1>6. mem[d][u].cum <= Cardinality(Covered(z)) + unspanned[d][u]
      BY <1>3 DEF z, Backing
<1>7. mem[d][u].cum \in Nat /\ unspanned[d][u] \in Int
      BY HeldTyped
<1>8. S = Kept(d, u)
      BY <1>2
<1> QED BY <1>5, <1>6, <1>7, <1>8

\* Nothing measured is lost, whatever times out, is sent twice, comes late or restarts
\* (tick.py's pending_spans, aggregate.py's insert_activity_interval): every second an
\* agent's counter gained today is in a span on the hub, in the buffer or under way, or
\* never had a span.  The table's key names a device and an end but no user, so this
\* takes that no two users of a device have a span with the same end.
THEOREM NothingIsLost == Spec /\ []NoSharedEnd => []NoActivityLost
<1>1. Init => BackedInv
      BY BackedInit
<1>2. LedgerInv /\ NoSharedEnd /\ BackedInv /\ [Next]_vars => BackedInv'
      BY BackedNext
<1>3. LedgerInv /\ BackedInv => NoActivityLost
      BY BackedEnough
<1> QED BY <1>1, <1>2, <1>3, LedgerHolds, PTL DEF Spec

\* It takes nothing of a household with one child.
THEOREM OnlyChildLosesNothing ==
    ASSUME \A u, v \in Users : u = v
    PROVE  Spec => []NoActivityLost
<1>1. NoSharedEnd
      BY DEF NoSharedEnd
<1>2. []NoSharedEnd
      BY <1>1, PTL
<1> QED BY <1>2, NothingIsLost, PTL

=============================================================================
