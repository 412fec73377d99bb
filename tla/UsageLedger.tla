---------------------------- MODULE UsageLedger ----------------------------
(***************************************************************************)
(* How activity on several devices becomes one total.  Each agent reports  *)
(* an absolute counter and, for the tick, the span of wall-clock time it   *)
(* covered (agent/timekpr_hub_agent/tick.py); the hub keeps the largest    *)
(* counter and every span (hub/timekpr_hub/services/aggregate.py), and the *)
(* wall-clock total is the union of the spans, so that two devices used at *)
(* once burn the budget once.                                              *)
(*                                                                         *)
(* Requests travel on their own: one the agent has given up may still      *)
(* reach the hub later, after newer ones and after midnight.  Clocks agree *)
(* here and timekpr's spent value never jumps back: AgentTick is about     *)
(* what happens when they do not and it does.                              *)
(***************************************************************************)
EXTENDS Integers, Sequences, FiniteSets, SequencesExt, FiniteSetsExt

CONSTANTS
    Devices,
    UserOrder,      \* the managed users in the order every agent reports them
    MaxPending,     \* MAX_PENDING_SPANS
    Midnight,       \* the second at which day 1 begins
    MaxNow,         \* bound: seconds that pass
    MaxFaults       \* bound: lost requests, lost answers and crashes

ASSUME UsageLedgerAssumption ==
    /\ UserOrder \in Seq(ToSet(UserOrder))
    /\ IsFiniteSet(Devices)
    /\ MaxPending \in Nat \ {0}
    /\ {Midnight, MaxNow, MaxFaults} \subseteq Nat

VARIABLES
    now,        \* seconds since the start
    spent,      \* spent[d][u]: timekpr's TIME_SPENT_DAY
    mem,        \* mem[d][u]: the running agent's UserState
    disk,       \* the same in state.json
    pc,         \* pc[d]: where the tick loop is
    tick,       \* tick[d]: the request under way
    polled,     \* polled[d]: the second of the last tick; there is one a second at most
    net,        \* requests that have not reached the hub, and may never
    counter,    \* usage_counters: the seconds by user, device and day
    intervals,  \* activity_intervals
    faults,
    unspanned,  \* history: seconds today no span was kept for, by device and user
    restarted   \* history: the devices whose agent died in the middle of a tick

hubVars == <<counter, intervals>>
historyVars == <<unspanned, restarted>>
vars == <<now, spent, mem, disk, pc, tick, polled, net, hubVars, faults, historyVars>>

-----------------------------------------------------------------------------
Users == ToSet(UserOrder)
Days == {0, 1}
NoDay == -1
Second == 0..MaxNow

DayOf(second) == IF second < Midnight THEN 0 ELSE 1
Today == DayOf(now)

Span == [start: Second, end: Second]
NoSpan == [start |-> 0, end |-> 0]      \* zero-width: sync skips it
Length(span) == span.end - span.start

\* state.py's UserState: the fields the accounting reads.
UserState == [day: Days \cup {NoDay}, cum: Nat, raw: Nat, last: Second, pending: Seq(Span)]
FreshUserState == [day |-> NoDay, cum |-> 0, raw |-> 0, last |-> 0, pending |-> <<>>]

\* The body of POST /sync: for each user the counter, what is buffered, this tick's span.
Request ==
    [dev: Devices, at: Second, cum: [Users -> Nat],
     pending: [Users -> Seq(Span)], span: [Users -> Span]]
NoRequest ==
    [dev |-> "none", at |-> 0, cum |-> [u \in Users |-> 0],
     pending |-> [u \in Users |-> <<>>], span |-> [u \in Users |-> NoSpan]]

TypeOK ==
    /\ now \in Second
    /\ spent \in [Devices -> [Users -> Nat]]
    /\ {mem, disk} \subseteq [Devices -> [Users -> UserState]]
    /\ \A d \in Devices, u \in Users :
         Len(mem[d][u].pending) <= MaxPending /\ Len(disk[d][u].pending) <= MaxPending
    /\ pc \in [Devices -> {"idle", "sent", "replied", "save"}]
    /\ polled \in [Devices -> Second]
    /\ tick \in [Devices -> Request \cup {NoRequest}] /\ net \subseteq Request
    /\ counter \in [Users -> [Devices -> [Days -> Nat]]]
    /\ intervals \subseteq [user: Users, dev: Devices, day: Days, start: Second, end: Second]
    /\ faults \in 0..MaxFaults
    /\ unspanned \in [Devices -> [Users -> Int]] /\ restarted \subseteq Devices

Init ==
    /\ now = 0
    /\ spent = [d \in Devices |-> [u \in Users |-> 0]]
    /\ mem = [d \in Devices |-> [u \in Users |-> FreshUserState]] /\ disk = mem
    /\ pc = [d \in Devices |-> "idle"] /\ tick = [d \in Devices |-> NoRequest]
    /\ polled = [d \in Devices |-> 0] /\ net = {}
    /\ counter = [u \in Users |-> [d \in Devices |-> [day \in Days |-> 0]]]
    /\ intervals = {}
    /\ faults = 0
    /\ unspanned = [d \in Devices |-> [u \in Users |-> 0]] /\ restarted = {}

-----------------------------------------------------------------------------
(***************************************************************************)
(* The agent.                                                              *)
(***************************************************************************)
\* Mutant: a rollover goes unnoticed.
BurnedSigned(s, shown) == IF s.day = NoDay THEN shown ELSE shown - s.raw

\* burned_this_tick_s: what the cumulative counter gains.
Burned(s, shown) ==
    CASE s.day = NoDay -> shown
      [] s.day # NoDay /\ s.day # Today -> 0
      [] OTHER -> shown - s.raw

Cumulative(s, shown) ==
    IF s.day = Today THEN s.cum + Burned(s, shown) ELSE Burned(s, shown)

\* Mutant: a span covers everything since the previous one.
CutSinceLast(s, burned) == [start |-> s.last, end |-> now]

\* The span of a tick: the last `burned` seconds, but not before the end of the span
\* last reported.
Cut(s, burned) ==
    [start |-> IF s.last = 0 THEN now - burned ELSE Max({now - burned, s.last}),
     end |-> now]

\* run_tick up to hub.sync; active says for whom timekpr shows an active session at
\* this very moment.
Tick(d, active) ==
    /\ pc[d] = "idle"
    /\ now > polled[d]
    /\ polled' = [polled EXCEPT ![d] = now]
    /\ LET burned == [u \in Users |-> Burned(mem[d][u], spent[d][u])]
           span == [u \in Users |-> IF u \in active /\ burned[u] > 0
                                    THEN Cut(mem[d][u], burned[u]) ELSE NoSpan]
           request ==
             [dev |-> d, at |-> now,
              cum |-> [u \in Users |-> Cumulative(mem[d][u], spent[d][u])],
              pending |-> [u \in Users |-> mem[d][u].pending],
              span |-> span]
       IN  /\ tick' = [tick EXCEPT ![d] = request]
           /\ net' = net \cup {request}
           /\ mem' = [mem EXCEPT ![d] = [u \in Users |->
                        [mem[d][u] EXCEPT !.day = Today, !.cum = request.cum[u],
                                          !.raw = spent[d][u]]]]
           /\ unspanned' = [unspanned EXCEPT ![d] = [u \in Users |->
                              (IF mem[d][u].day = Today THEN @[u] ELSE 0)
                                + (burned[u] - Length(span[u]))]]
    /\ pc' = [pc EXCEPT ![d] = "sent"]
    /\ UNCHANGED <<now, spent, disk, hubVars, faults, restarted>>

\* The answer arrives: what was buffered is on the hub.
Receive(d) ==
    /\ pc[d] = "replied"
    /\ mem' = [mem EXCEPT ![d] = [u \in Users |->
                 [mem[d][u] EXCEPT !.pending = <<>>,
                                   !.last = IF tick[d].span[u] = NoSpan
                                            THEN mem[d][u].last ELSE tick[d].at]]]
    /\ pc' = [pc EXCEPT ![d] = "save"]
    /\ tick' = [tick EXCEPT ![d] = NoRequest]
    /\ UNCHANGED <<now, spent, disk, polled, net, hubVars, faults, historyVars>>

\* _buffer_unsent_span: the oldest go first.
Buffered(pending, span) ==
    IF span = NoSpan THEN pending
    ELSE LET all == Append(pending, span)
         IN  SubSeq(all, Max({1, Len(all) - MaxPending + 1}), Len(all))

\* What the cap makes the buffer forget.
Overflow(pending, span) ==
    IF span # NoSpan /\ Len(pending) = MaxPending THEN Length(Head(pending)) ELSE 0

\* HubUnreachableError; whether the hub gets the request is another matter.
Timeout(d) ==
    /\ pc[d] \in {"sent", "replied"}
    /\ faults < MaxFaults
    /\ faults' = faults + 1
    /\ mem' = [mem EXCEPT ![d] = [u \in Users |->
                 [mem[d][u] EXCEPT !.pending = Buffered(mem[d][u].pending, tick[d].span[u])]]]
    /\ unspanned' = [unspanned EXCEPT ![d] = [u \in Users |->
                       @[u] + Overflow(mem[d][u].pending, tick[d].span[u])]]
    /\ pc' = [pc EXCEPT ![d] = "save"]
    /\ tick' = [tick EXCEPT ![d] = NoRequest]
    /\ UNCHANGED <<now, spent, disk, polled, net, hubVars, restarted>>

Save(d) ==
    /\ pc[d] = "save"
    /\ disk' = [disk EXCEPT ![d] = mem[d]]
    /\ pc' = [pc EXCEPT ![d] = "idle"]
    /\ UNCHANGED <<now, spent, mem, tick, polled, net, hubVars, faults, historyVars>>

Crash(d) ==
    /\ pc[d] # "idle"
    /\ faults < MaxFaults
    /\ faults' = faults + 1
    /\ mem' = [mem EXCEPT ![d] = disk[d]]
    /\ pc' = [pc EXCEPT ![d] = "idle"]
    /\ tick' = [tick EXCEPT ![d] = NoRequest]
    /\ restarted' = restarted \cup {d}
    /\ UNCHANGED <<now, spent, disk, polled, net, hubVars, unspanned>>

-----------------------------------------------------------------------------
(***************************************************************************)
(* The hub.                                                                *)
(***************************************************************************)
\* Mutant: only this tick's span is sent.
ReportedLatest(r, u) == {r.span[u]}

\* active_spans: what is buffered, then this tick's.
Reported(r, u) == ToSet(r.pending[u]) \cup {r.span[u]}

Rows(r, u) ==
    {[user |-> u, dev |-> r.dev, day |-> Today, start |-> s.start, end |-> s.end] :
        s \in {s \in Reported(r, u) : s.start < s.end}}

\* The rows of the users who come before u in a request.
RowsBefore(r, u) ==
    UNION {Rows(r, UserOrder[i]) :
             i \in {i \in DOMAIN UserOrder : \A j \in DOMAIN UserOrder : UserOrder[j] = u => i < j}}

\* insert_activity_interval, user by user: whoever comes second with a device and an end
\* is not inserted.
Insert(r) ==
    UNION {{row \in Rows(r, u) :
              \A other \in intervals \cup RowsBefore(r, u) :
                 ~(other.dev = row.dev /\ other.end = row.end)} : u \in Users}

\* POST /sync, one transaction: every user's counter is merged and spans inserted
\* under the hub's own today, in the order of the request.
Sync(r) ==
    /\ r \in net
    /\ net' = net \ {r}
    /\ counter' = [u \in Users |->
                     [counter[u] EXCEPT ![r.dev][Today] = Max({@, r.cum[u]})]]
    /\ intervals' = intervals \cup Insert(r)
    /\ pc' = IF pc[r.dev] = "sent" /\ tick[r.dev] = r
             THEN [pc EXCEPT ![r.dev] = "replied"] ELSE pc
    /\ UNCHANGED <<now, spent, mem, disk, tick, polled, faults, historyVars>>

\* A second passes, used on some devices by some users; midnight starts the counters
\* again.
Elapse(used) ==
    /\ now < MaxNow
    /\ now' = now + 1
    /\ spent' = [d \in Devices |-> [u \in Users |->
                   IF now' = Midnight THEN 0
                   ELSE spent[d][u] + (IF <<d, u>> \in used THEN 1 ELSE 0)]]
    /\ UNCHANGED <<mem, disk, pc, tick, polled, net, hubVars, faults, historyVars>>

Next ==
    \/ \E d \in Devices :
         \/ \E active \in SUBSET Users : Tick(d, active)
         \/ Receive(d) \/ Timeout(d) \/ Save(d) \/ Crash(d)
    \/ \E r \in net : Sync(r)
    \/ \E used \in SUBSET (Devices \X Users) : Elapse(used)

Spec == Init /\ [][Next]_vars

-----------------------------------------------------------------------------
Seconds(i) == i.start..(i.end - 1)
Covered(spans) == UNION {Seconds(s) : s \in spans}

\* range_agg over a user's rows of a day, summed.
UnionSeconds(u, day) ==
    Cardinality(Covered({i \in intervals : i.user = u /\ i.day = day}))

\* global_spent_wallclock is the greatest of these: no single device was active for less
\* than it says.
WallclockSeconds(u, day) == {UnionSeconds(u, day)} \cup {counter[u][d][day] : d \in Devices}

\* global_spent_parallel: the counters of all devices side by side, each second of each
\* an element of its own.
ParallelSeconds(u, day) ==
    Cardinality(UNION {{d} \X (1..counter[u][d][day]) : d \in Devices})

\* The rows of the day were measured on it.
Punctual(day) == \A i \in intervals : i.day = day => DayOf(i.end) = day

\* Burn once never burns more than parallel: whatever was buffered, replayed or came
\* late, a user's wall-clock total for a day is at most the sum of the devices' counters,
\* unless a report crossed midnight or an agent died before it could save what it had
\* reported.  (It may then cut a second span over time the first already covers.)
BurnOnce ==
    restarted = {} =>
      \A u \in Users, day \in Days :
        Punctual(day) =>
          \A seconds \in WallclockSeconds(u, day) : seconds <= ParallelSeconds(u, day)

\* The spans of user u on device d that are somewhere: on the hub, in the buffer, or
\* in the tick under way.
Kept(d, u) ==
    {[start |-> i.start, end |-> i.end] :
        i \in {i \in intervals : i.user = u /\ i.dev = d /\ DayOf(i.end) = Today}}
    \cup {s \in ToSet(mem[d][u].pending) : DayOf(s.end) = Today}
    \cup (IF tick[d] = NoRequest THEN {} ELSE {tick[d].span[u]})

\* No second the counter gained is missing from the spans, but those that never had
\* one: an outage, a lost answer, a retry or a restart loses none (state.py: buffered
\* "instead of losing that activity from the wall-clock union forever").  Seconds that
\* two spans cover count once.
NoActivityLost ==
    \A d \in Devices, u \in Users :
      mem[d][u].day = Today =>
        mem[d][u].cum <= Cardinality(Covered(Kept(d, u))) + unspanned[d][u]

=============================================================================
