------------------------------ MODULE DayHours ------------------------------
(***************************************************************************)
(* The two forms of a day's allowed hours (core/timekpr_hub_core/          *)
(* allowed_hours.py): intervals of the day, as an administrator thinks of  *)
(* them, and timekpr's records, one per clock hour.  An hour without a     *)
(* record is forbidden; "unaccounted" time is allowed and free.            *)
(***************************************************************************)
EXTENDS Integers, Sequences, SequencesExt

CONSTANTS
    HoursInDay,     \* 24
    HourLen         \* 60

ASSUME DayHoursAssumption == {HoursInDay, HourLen} \subseteq Nat \ {0}

DayLen == HoursInDay * HourLen

TimeInterval ==
    {iv \in [start: 0..(DayLen - 1), end: 1..DayLen, unaccounted: BOOLEAN] : iv.start < iv.end}

HourRecord ==
    {r \in [hour: 0..(HoursInDay - 1), start: 0..(HourLen - 1), end: 1..HourLen,
            unaccounted: BOOLEAN] : r.start < r.end}

Unrestricted == <<[start |-> 0, end |-> DayLen, unaccounted |-> FALSE]>>

FirstHour(iv) == iv.start \div HourLen

\* The places of a list in ascending order of their keys, as sorted(..., key=...) has them.
Sorting(keys) ==
    CHOOSE p \in [DOMAIN keys -> DOMAIN keys] :
        IsInjective(p) /\ \A i, j \in DOMAIN keys : i < j => keys[p[i]] <= keys[p[j]]

Sorted(list, keys) == LET p == Sorting(keys) IN [i \in DOMAIN list |-> list[p[i]]]

\* Mutant: the hour an interval ends at the top of counts as its last.
LastHourInclusive(iv) == iv.end \div HourLen

LastHour(iv) == (iv.end - 1) \div HourLen

InOrder(ivs) == Sorted(ivs, [i \in DOMAIN ivs |-> ivs[i].start])

\* Mutant: overlap is all that is looked for.
ValidDisjoint(ivs) ==
    \A i \in 1..(Len(ivs) - 1) : InOrder(ivs)[i + 1].start >= InOrder(ivs)[i].end

\* validate_intervals: neighbours neither overlap nor share a clock hour.
Valid(ivs) ==
    \A i \in 1..(Len(ivs) - 1) :
        LET a == InOrder(ivs)[i]
            b == InOrder(ivs)[i + 1]
        IN  b.start >= a.end /\ LastHour(a) # FirstHour(b)

\* The records of one interval.
RecordsOf(iv) ==
    [k \in 1..(LastHour(iv) - FirstHour(iv) + 1) |->
        LET hour == FirstHour(iv) + k - 1
            from == iv.start - hour * HourLen
            to == iv.end - hour * HourLen
        IN  [hour |-> hour,
             start |-> IF from > 0 THEN from ELSE 0,
             end |-> IF to < HourLen THEN to ELSE HourLen,
             unaccounted |-> iv.unaccounted]]

IntervalsToHours(ivs) == FlattenSeq([i \in 1..Len(ivs) |-> RecordsOf(ivs[i])])

\* Mutant: the flag is not looked at.
ContinuesAnyway(iv, start, unaccounted) == start = iv.end

\* A flag change always breaks the interval.
Continues(iv, start, unaccounted) == start = iv.end /\ unaccounted = iv.unaccounted

\* A record that follows on the last interval prolongs it; an empty one is passed over.
WithRecord(ivs, r) ==
    LET start == r.hour * HourLen + r.start
        end == r.hour * HourLen + r.end
    IN  IF start >= end THEN ivs
        ELSE IF ivs # <<>> /\ Continues(Last(ivs), start, r.unaccounted)
        THEN [ivs EXCEPT ![Len(ivs)].end = end]
        ELSE Append(ivs, [start |-> start, end |-> end, unaccounted |-> r.unaccounted])

\* hours_to_intervals.
HoursToIntervals(records) ==
    FoldLeft(WithRecord, <<>>, Sorted(records, [i \in DOMAIN records |-> records[i].hour]))

-----------------------------------------------------------------------------
(***************************************************************************)
(* What each form says of every minute.                                    *)
(***************************************************************************)
Allowed(unaccounted) == IF unaccounted THEN "free" ELSE "counted"

IntervalMinutes(ivs) ==
    [minute \in 0..(DayLen - 1) |->
        LET covering == {i \in DOMAIN ivs : ivs[i].start <= minute /\ minute < ivs[i].end}
        IN  IF covering = {} THEN "forbidden"
            ELSE Allowed(ivs[CHOOSE i \in covering : TRUE].unaccounted)]

\* hours_to_dbus_payload is keyed by hour, so a second record of one hour replaces the
\* first; timekpr allows what the record of the hour covers.
DeviceMinutes(records) ==
    [minute \in 0..(DayLen - 1) |->
        LET ofHour == {i \in DOMAIN records : records[i].hour = minute \div HourLen}
            last == CHOOSE i \in ofHour : \A j \in ofHour : j <= i
            within == minute % HourLen
        IN  IF ofHour = {} \/ within < records[last].start \/ within >= records[last].end
            THEN "forbidden"
            ELSE Allowed(records[last].unaccounted)]

=============================================================================
