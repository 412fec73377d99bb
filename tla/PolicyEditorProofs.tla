------------------------- MODULE PolicyEditorProofs -------------------------
(***************************************************************************)
(* For every length of the hour and of the day, and whatever intervals and *)
(* windows are asked for: a device gets to the minute what was asked for,  *)
(* the intervals shown for it are the whole of it and no longer than they  *)
(* must be, and a page saved untouched changes nothing its form can show.  *)
(*                                                                         *)
(* The argument has three parts: what a record and an interval say of one  *)
(* minute; that expanding intervals into records (a concatenation) and     *)
(* merging records into intervals (a loop) both keep it (Agree); and the   *)
(* invariant that every list kept is a day, one record an hour (IsDay).    *)
(***************************************************************************)
EXTENDS PolicyEditor, FiniteSetTheorems, FunctionTheorems, SequenceTheorems,
        NaturalsInduction, WellFoundedInduction, TLAPS

-----------------------------------------------------------------------------
(***************************************************************************)
(* Hours, records and intervals, minute by minute.                         *)
(***************************************************************************)
\* The first minute of an hour.
Top(hour) == hour * HourLen

\* The minutes of the day a record allows, and an interval covers.
Allows(r, minute) == Top(r.hour) + r.start <= minute /\ minute < Top(r.hour) + r.end
Covers(iv, minute) == iv.start <= minute /\ minute < iv.end

\* An hour and a day have a length.
LEMMA Lengths == HourLen \in Nat \ {0} /\ HoursInDay \in Nat \ {0} /\ DayLen \in Nat \ {0}
<1>1. HourLen \in Nat \ {0} /\ HoursInDay \in Nat \ {0}
      BY DayHoursAssumption
<1>2. \A a, b \in Nat \ {0} : a * b \in Nat \ {0}
      OBVIOUS
<1>3. QED
      BY <1>1, <1>2 DEF DayLen

\* Hours follow one another from the first minute of the day to its last.
LEMMA TopOf ==
    ASSUME NEW hour \in Int
    PROVE  /\ Top(hour) \in Int /\ Top(hour + 1) = Top(hour) + HourLen
           /\ Top(0) = 0 /\ Top(HoursInDay) = DayLen
BY Lengths DEF Top, DayLen

\* A later hour begins when an earlier one is over.
LEMMA TopsApart ==
    ASSUME NEW h \in Int, NEW k \in Int, h < k
    PROVE  Top(h) + HourLen <= Top(k)
<1>1. k - h - 1 \in Nat /\ HourLen \in Nat
      BY Lengths
<1>2. \A a, b \in Nat : a * b >= 0
      OBVIOUS
<1>3. (k - h - 1) * HourLen >= 0
      BY <1>1, <1>2
<1>4. (k - h - 1) * HourLen = k * HourLen - h * HourLen - HourLen
      BY <1>1
<1>5. h * HourLen \in Int /\ k * HourLen \in Int
      BY <1>1
<1>6. QED
      BY <1>1, <1>3, <1>4, <1>5 DEF Top

\* An hour of the day lies in the day.
LEMMA TopInDay ==
    ASSUME NEW hour \in 0..(HoursInDay - 1)
    PROVE  0 <= Top(hour) /\ Top(hour) + HourLen <= DayLen
<1>1. hour \in Nat /\ hour < HoursInDay /\ HoursInDay \in Int /\ HourLen \in Nat
      BY Lengths
<1>2. 0 <= Top(hour)
      <2>1. \A a, b \in Nat : 0 <= a * b
            OBVIOUS
      <2>2. QED
            BY <1>1, <2>1 DEF Top
<1>3. Top(hour) + HourLen <= Top(HoursInDay)
      BY <1>1, TopsApart
<1>4. Top(HoursInDay) = DayLen
      BY <1>1, TopOf
<1>5. QED
      BY <1>2, <1>3, <1>4

\* A minute lies in the hour its quotient names.
LEMMA HourOf ==
    ASSUME NEW minute \in Int
    PROVE  /\ minute \div HourLen \in Int
           /\ Top(minute \div HourLen) <= minute
           /\ minute < Top(minute \div HourLen) + HourLen
           /\ minute % HourLen = minute - Top(minute \div HourLen)
BY Lengths DEF Top

\* The hour a minute lies in is the one its quotient names.
LEMMA HourIs ==
    ASSUME NEW minute \in Int, NEW hour \in Int,
           Top(hour) <= minute, minute < Top(hour) + HourLen
    PROVE  minute \div HourLen = hour
<1> DEFINE of == minute \div HourLen
<1>1. of \in Int /\ Top(of) <= minute /\ minute < Top(of) + HourLen /\ Top(of) \in Int /\ Top(hour) \in Int
      BY HourOf, TopOf
<1> HIDE DEF of
<1>2. ~ of < hour
      <2> SUFFICES ASSUME of < hour PROVE FALSE
          OBVIOUS
      <2>1. Top(of) + HourLen <= Top(hour)
            BY <1>1, TopsApart
      <2>2. QED
            BY <1>1, <2>1, Lengths
<1>3. ~ hour < of
      <2> SUFFICES ASSUME hour < of PROVE FALSE
          OBVIOUS
      <2>1. Top(hour) + HourLen <= Top(of)
            BY <1>1, TopsApart
      <2>2. QED
            BY <1>1, <2>1, Lengths
<1>4. QED
      BY <1>1, <1>2, <1>3 DEF of

\* A minute of the day lies in an hour of the day.
LEMMA HourInDay ==
    ASSUME NEW minute \in Times
    PROVE  minute \div HourLen \in 0..(HoursInDay - 1)
<1>1. minute \in Nat /\ minute < DayLen
      BY Lengths DEF Times
<1> DEFINE hour == minute \div HourLen
<1>2. hour \in Int /\ Top(hour) <= minute /\ minute < Top(hour) + HourLen
      BY <1>1, HourOf
<1>3. Top(0) = 0 /\ Top(HoursInDay) = DayLen /\ Top(hour) \in Int
      BY <1>2, TopOf, Lengths
<1> HIDE DEF hour
<1>4. ~ hour < 0
      <2> SUFFICES ASSUME hour < 0 PROVE FALSE
          OBVIOUS
      <2>1. Top(hour) + HourLen <= Top(0)
            BY <1>2, TopsApart
      <2>2. QED
            BY <1>1, <1>2, <1>3, <2>1, Lengths
<1>5. ~ HoursInDay <= hour
      <2> SUFFICES ASSUME HoursInDay < hour \/ HoursInDay = hour PROVE FALSE
          BY <1>2, Lengths
      <2>1. HoursInDay < hour => Top(HoursInDay) + HourLen <= Top(hour)
            BY <1>2, TopsApart, Lengths
      <2>2. QED
            BY <1>1, <1>2, <1>3, <2>1, Lengths
<1>6. QED
      BY <1>2, <1>4, <1>5, Lengths DEF hour

\* Later minutes lie in no earlier hour.
LEMMA HoursAscend ==
    ASSUME NEW a \in Int, NEW b \in Int, a <= b
    PROVE  a \div HourLen <= b \div HourLen
<1> DEFINE h == a \div HourLen
           k == b \div HourLen
<1>1. h \in Int /\ k \in Int /\ Top(h) <= a /\ b < Top(k) + HourLen
      BY HourOf
<1>2. Top(h) \in Int /\ Top(k) \in Int
      BY <1>1, TopOf
<1> HIDE DEF h, k
<1>3. ~ k < h
      <2> SUFFICES ASSUME k < h PROVE FALSE
          OBVIOUS
      <2>1. Top(k) + HourLen <= Top(h)
            BY <1>1, TopsApart
      <2>2. QED
            BY <1>1, <1>2, <2>1, Lengths
<1>4. QED
      BY <1>1, <1>3 DEF h, k

\* The fields of an interval; its hours are of the day.
LEMMA IntervalIs ==
    ASSUME NEW iv \in TimeInterval
    PROVE  /\ iv = [start |-> iv.start, end |-> iv.end, unaccounted |-> iv.unaccounted]
           /\ iv.start \in 0..(DayLen - 1) /\ iv.end \in 1..DayLen /\ iv.start < iv.end
           /\ iv.unaccounted \in BOOLEAN
           /\ FirstHour(iv) \in 0..(HoursInDay - 1) /\ LastHour(iv) \in 0..(HoursInDay - 1)
           /\ FirstHour(iv) <= LastHour(iv)
<1>1. /\ iv = [start |-> iv.start, end |-> iv.end, unaccounted |-> iv.unaccounted]
      /\ iv.start \in 0..(DayLen - 1) /\ iv.end \in 1..DayLen /\ iv.start < iv.end
      /\ iv.unaccounted \in BOOLEAN
      BY DEF TimeInterval
<1>2. iv.start \in Times /\ iv.end - 1 \in Times /\ iv.start <= iv.end - 1
      BY <1>1, Lengths DEF Times
<1>3. FirstHour(iv) \in 0..(HoursInDay - 1) /\ LastHour(iv) \in 0..(HoursInDay - 1)
      BY <1>2, HourInDay DEF FirstHour, LastHour
<1>4. FirstHour(iv) <= LastHour(iv)
      <2>1. iv.start \in Int /\ iv.end - 1 \in Int
            BY <1>1, Lengths
      <2>2. QED
            BY <1>2, <2>1, HoursAscend DEF FirstHour, LastHour
<1>5. QED
      BY <1>1, <1>3, <1>4

\* The fields of a record.
LEMMA RecordIs ==
    ASSUME NEW r \in HourRecord
    PROVE  /\ r = [hour |-> r.hour, start |-> r.start, end |-> r.end, unaccounted |-> r.unaccounted]
           /\ r.hour \in 0..(HoursInDay - 1) /\ r.start \in 0..(HourLen - 1)
           /\ r.end \in 1..HourLen /\ r.start < r.end /\ r.unaccounted \in BOOLEAN
           /\ Top(r.hour) \in Int
<1>1. /\ r = [hour |-> r.hour, start |-> r.start, end |-> r.end, unaccounted |-> r.unaccounted]
      /\ r.hour \in 0..(HoursInDay - 1) /\ r.start \in 0..(HourLen - 1)
      /\ r.end \in 1..HourLen /\ r.start < r.end /\ r.unaccounted \in BOOLEAN
      BY DEF HourRecord
<1>2. r.hour \in Int
      BY <1>1, Lengths
<1>3. QED
      BY <1>1, <1>2, TopOf

\* A record allows minutes of its hour alone.
LEMMA AllowsInItsHour ==
    ASSUME NEW r \in HourRecord, NEW minute \in Times
    PROVE  Allows(r, minute) <=> /\ minute \div HourLen = r.hour
                                 /\ r.start <= minute % HourLen
                                 /\ minute % HourLen < r.end
<1>1. minute \in Int /\ r.hour \in Int /\ r.start \in Int /\ r.end \in Int /\ Top(r.hour) \in Int
      BY RecordIs, Lengths DEF Times
<1>2. 0 <= r.start /\ r.end <= HourLen
      BY RecordIs, Lengths
<1>3. ASSUME Allows(r, minute) PROVE minute \div HourLen = r.hour
      <2>1. Top(r.hour) <= minute /\ minute < Top(r.hour) + HourLen
            BY <1>1, <1>2, <1>3, Lengths DEF Allows
      <2>2. QED
            BY <1>1, <2>1, HourIs
<1>4. ASSUME minute \div HourLen = r.hour
      PROVE  Allows(r, minute) <=> r.start <= minute % HourLen /\ minute % HourLen < r.end
      <2>1. minute % HourLen = minute - Top(r.hour)
            BY <1>1, <1>4, HourOf
      <2> HIDE <1>4
      <2>2. QED
            BY <1>1, <2>1 DEF Allows
<1>5. QED
      BY <1>3, <1>4

\* The records of one interval: one for each of its hours, which allows what of the hour
\* the interval covers.
LEMMA RecordsOfInterval ==
    ASSUME NEW iv \in TimeInterval
    PROVE  LET hours == LastHour(iv) - FirstHour(iv) + 1
               records == RecordsOf(iv)
           IN  /\ hours \in Nat \ {0} /\ DOMAIN records = 1..hours /\ Len(records) = hours
               /\ records \in Seq(HourRecord)
               /\ \A k \in 1..hours :
                     /\ records[k].hour = FirstHour(iv) + k - 1
                     /\ records[k].unaccounted = iv.unaccounted
                     /\ \A minute \in Times :
                           Allows(records[k], minute)
                             <=> Covers(iv, minute) /\ minute \div HourLen = records[k].hour
<1> DEFINE hours == LastHour(iv) - FirstHour(iv) + 1
           records == RecordsOf(iv)
<1>1. hours \in Nat \ {0}
      BY IntervalIs, Lengths
<1>2. records = [k \in 1..hours |->
          LET hour == FirstHour(iv) + k - 1
              from == iv.start - Top(hour)
              to == iv.end - Top(hour)
          IN  [hour |-> hour,
               start |-> IF from > 0 THEN from ELSE 0,
               end |-> IF to < HourLen THEN to ELSE HourLen,
               unaccounted |-> iv.unaccounted]]
      BY Zenon DEF RecordsOf, Top
<1>3. DOMAIN records = 1..hours
      BY <1>2, Zenon
<1>4. /\ iv.start \in Int /\ iv.end \in Int /\ iv.start < iv.end
      /\ FirstHour(iv) \in Int /\ LastHour(iv) \in Int
      /\ 0 <= FirstHour(iv) /\ LastHour(iv) <= HoursInDay - 1
      BY IntervalIs, Lengths
<1>5. /\ Top(FirstHour(iv)) <= iv.start /\ iv.start < Top(FirstHour(iv)) + HourLen
      /\ Top(LastHour(iv)) <= iv.end - 1 /\ iv.end - 1 < Top(LastHour(iv)) + HourLen
      BY <1>4, HourOf DEF FirstHour, LastHour
<1>6. ASSUME NEW k \in 1..hours
      PROVE  /\ records[k] \in HourRecord /\ records[k].hour = FirstHour(iv) + k - 1
             /\ records[k].unaccounted = iv.unaccounted
             /\ \A minute \in Times :
                   Allows(records[k], minute)
                     <=> Covers(iv, minute) /\ minute \div HourLen = records[k].hour
      <2> DEFINE hour == FirstHour(iv) + k - 1
                 from == iv.start - Top(hour)
                 to == iv.end - Top(hour)
      <2>1. records[k] = [hour |-> hour, start |-> IF from > 0 THEN from ELSE 0,
                          end |-> IF to < HourLen THEN to ELSE HourLen,
                          unaccounted |-> iv.unaccounted]
            BY <1>2, Zenon
      <2>2. hour \in Int /\ FirstHour(iv) <= hour /\ hour <= LastHour(iv) /\ k \in Int
            BY <1>1, <1>4
      <2>3. /\ Top(hour) \in Int /\ Top(FirstHour(iv)) \in Int /\ Top(LastHour(iv)) \in Int
            /\ HourLen \in Nat \ {0}
            BY <1>4, <2>2, TopOf, Lengths
      <2>4. iv.start < Top(hour) + HourLen
            <3>1. CASE hour = FirstHour(iv)
                  BY <1>5, <3>1
            <3>2. CASE FirstHour(iv) < hour
                  <4>1. Top(FirstHour(iv)) + HourLen <= Top(hour)
                        BY <1>4, <2>2, <3>2, TopsApart
                  <4>2. QED
                        BY <1>4, <1>5, <2>3, <4>1
            <3>3. QED
                  BY <1>4, <2>2, <3>1, <3>2
      <2>5. Top(hour) < iv.end
            <3>1. CASE hour = LastHour(iv)
                  BY <1>4, <1>5, <2>3, <3>1
            <3>2. CASE hour < LastHour(iv)
                  <4>1. Top(hour) + HourLen <= Top(LastHour(iv))
                        BY <1>4, <2>2, <3>2, TopsApart
                  <4>2. QED
                        BY <1>4, <1>5, <2>3, <4>1
            <3>3. QED
                  BY <1>4, <2>2, <3>1, <3>2
      <2>6. hour \in 0..(HoursInDay - 1)
            BY <1>4, <2>2, Lengths
      <2> HIDE DEF hour, records
      <2>7. /\ records[k].hour = hour /\ records[k].unaccounted = iv.unaccounted
            /\ records[k].start \in 0..(HourLen - 1) /\ records[k].end \in 1..HourLen
            /\ records[k].start < records[k].end
            BY <1>4, <2>1, <2>3, <2>4, <2>5
      <2>8. records[k] \in HourRecord
            BY <2>1, <2>6, <2>7, IntervalIs DEF HourRecord
      <2>9. ASSUME NEW minute \in Times
            PROVE  Allows(records[k], minute)
                     <=> Covers(iv, minute) /\ minute \div HourLen = records[k].hour
            <3>1. minute \in Int
                  BY Lengths DEF Times
            <3>2. Allows(records[k], minute)
                    <=> /\ Top(hour) <= minute /\ minute < Top(hour) + HourLen
                        /\ Covers(iv, minute)
                  BY <1>4, <2>1, <2>3, <2>7, <3>1 DEF Allows, Covers
            <3>3. (Top(hour) <= minute /\ minute < Top(hour) + HourLen)
                    <=> minute \div HourLen = hour
                  BY <2>2, <3>1, HourIs, HourOf
            <3>4. QED
                  BY <2>7, <3>2, <3>3
      <2>10. QED
            BY <2>7, <2>8, <2>9 DEF hour
<1>7. records \in Seq(HourRecord) /\ Len(records) = hours
      <2>1. records \in [1..hours -> HourRecord]
            BY <1>2, <1>6
      <2>2. QED
            BY <1>1, <2>1, IsASeq, LenProperties, ElementOfSeq
<1>8. QED
      BY <1>1, <1>3, <1>6, <1>7

\* One record an hour at most.
DistinctHours(records) ==
    \A i, j \in DOMAIN records : records[i].hour = records[j].hour => i = j

\* What a list of records must be for a device to read it as it is meant.
IsDay(records) == records \in Seq(HourRecord) /\ DistinctHours(records)

\* Intervals and records that say the same of every minute.
Agree(ivs, records) ==
    \A minute \in Times :
        /\ \A i \in DOMAIN ivs : Covers(ivs[i], minute) =>
              \E j \in DOMAIN records : /\ Allows(records[j], minute)
                                        /\ records[j].unaccounted = ivs[i].unaccounted
        /\ \A j \in DOMAIN records : Allows(records[j], minute) =>
              \E i \in DOMAIN ivs : Covers(ivs[i], minute)

\* Both readings are functions on the minutes of the day.
LEMMA MinutesTyped ==
    /\ \A ivs : IntervalMinutes(ivs) = [minute \in Times |-> IntervalMinutes(ivs)[minute]]
    /\ \A records : DeviceMinutes(records) = [minute \in Times |-> DeviceMinutes(records)[minute]]
<1>1. ASSUME NEW ivs
      PROVE  IntervalMinutes(ivs) = [minute \in Times |-> IntervalMinutes(ivs)[minute]]
      <2> DEFINE Says(minute) ==
                     LET covering == {i \in DOMAIN ivs : ivs[i].start <= minute /\ minute < ivs[i].end}
                     IN  IF covering = {} THEN "forbidden"
                         ELSE Allowed(ivs[CHOOSE i \in covering : TRUE].unaccounted)
      <2>1. IntervalMinutes(ivs) = [minute \in Times |-> Says(minute)]
            BY Zenon DEF IntervalMinutes, Times
      <2> HIDE DEF Says
      <2>2. QED
            BY <2>1
<1>2. ASSUME NEW records
      PROVE  DeviceMinutes(records) = [minute \in Times |-> DeviceMinutes(records)[minute]]
      <2> DEFINE Says(minute) ==
                     LET ofHour == {i \in DOMAIN records : records[i].hour = minute \div HourLen}
                         last == CHOOSE i \in ofHour : \A j \in ofHour : j <= i
                         within == minute % HourLen
                     IN  IF ofHour = {} \/ within < records[last].start \/ within >= records[last].end
                         THEN "forbidden" ELSE Allowed(records[last].unaccounted)
      <2>1. DeviceMinutes(records) = [minute \in Times |-> Says(minute)]
            BY Zenon DEF DeviceMinutes, Times
      <2> HIDE DEF Says
      <2>2. QED
            BY <2>1
<1>3. QED
      BY <1>1, <1>2

\* On a day of records, a minute is what the record says that allows it.
LEMMA DeviceMinuteIs ==
    ASSUME NEW records, IsDay(records), NEW minute \in Times
    PROVE  /\ \A j \in DOMAIN records : Allows(records[j], minute) =>
                 DeviceMinutes(records)[minute] = Allowed(records[j].unaccounted)
           /\ (\A j \in DOMAIN records : ~ Allows(records[j], minute)) =>
                 DeviceMinutes(records)[minute] = "forbidden"
<1> DEFINE ofHour == {i \in DOMAIN records : records[i].hour = minute \div HourLen}
           last == CHOOSE i \in ofHour : \A j \in ofHour : j <= i
           within == minute % HourLen
<1>1. DeviceMinutes(records)[minute] =
          IF ofHour = {} \/ within < records[last].start \/ within >= records[last].end
          THEN "forbidden" ELSE Allowed(records[last].unaccounted)
      BY Zenon DEF DeviceMinutes, Times
<1>2. /\ \A j \in DOMAIN records : records[j] \in HourRecord /\ j \in Int
      /\ \A i, j \in ofHour : i = j
      BY ElementOfSeq, LenProperties DEF IsDay, DistinctHours
<1>3. within \in Int
      <2>1. minute \in Int
            BY Lengths DEF Times
      <2>2. QED
            BY <2>1, Lengths
<1>4. \A i \in ofHour : last = i
      BY <1>2
<1> HIDE DEF last
<1>5. ASSUME NEW j \in DOMAIN records, Allows(records[j], minute)
      PROVE  DeviceMinutes(records)[minute] = Allowed(records[j].unaccounted)
      <2>1. j \in ofHour /\ ~ within < records[j].start /\ ~ within >= records[j].end
            BY <1>2, <1>3, <1>5, AllowsInItsHour, RecordIs, Lengths
      <2>2. last = j /\ ofHour # {}
            BY <1>4, <2>1
      <2> HIDE DEF ofHour, within
      <2>3. QED
            BY <1>1, <2>1, <2>2
<1>6. ASSUME \A j \in DOMAIN records : ~ Allows(records[j], minute)
      PROVE  DeviceMinutes(records)[minute] = "forbidden"
      <2>1. CASE ofHour = {}
            BY <1>1, <2>1
      <2>2. ASSUME NEW j \in ofHour PROVE DeviceMinutes(records)[minute] = "forbidden"
            <3>1. j \in DOMAIN records /\ records[j].hour = minute \div HourLen /\ last = j
                  BY <1>4
            <3>2. within < records[j].start \/ within >= records[j].end
                  BY <1>2, <1>3, <1>6, <3>1, AllowsInItsHour, RecordIs, Lengths
            <3> HIDE DEF ofHour, within
            <3>3. QED
                  BY <1>1, <3>1, <3>2
      <2>3. QED
            BY <2>1, <2>2
<1>7. QED
      BY <1>5, <1>6

\* Intervals and records that agree are read alike.
LEMMA SameMinutes ==
    ASSUME NEW ivs, NEW records, IsDay(records), Agree(ivs, records)
    PROVE  IntervalMinutes(ivs) = DeviceMinutes(records)
<1>1. ASSUME NEW minute \in Times
      PROVE  IntervalMinutes(ivs)[minute] = DeviceMinutes(records)[minute]
      <2> DEFINE covering == {i \in DOMAIN ivs : ivs[i].start <= minute /\ minute < ivs[i].end}
                 some == CHOOSE i \in covering : TRUE
      <2>1. IntervalMinutes(ivs)[minute] =
                IF covering = {} THEN "forbidden" ELSE Allowed(ivs[some].unaccounted)
            BY Zenon DEF IntervalMinutes, Times
      <2>2. CASE covering = {}
            <3>1. \A j \in DOMAIN records : ~ Allows(records[j], minute)
                  BY <2>2 DEF Agree, Covers
            <3>2. QED
                  BY <2>1, <2>2, <3>1, DeviceMinuteIs
      <2>3. CASE covering # {}
            <3>1. some \in DOMAIN ivs /\ Covers(ivs[some], minute)
                  BY <2>3 DEF Covers
            <3> HIDE DEF some
            <3>2. PICK j \in DOMAIN records :
                      Allows(records[j], minute) /\ records[j].unaccounted = ivs[some].unaccounted
                  BY <3>1 DEF Agree
            <3>3. DeviceMinutes(records)[minute] = Allowed(records[j].unaccounted)
                  BY <3>2, DeviceMinuteIs
            <3>4. QED
                  BY <2>1, <2>3, <3>2, <3>3, Zenon
      <2>4. QED
            BY <2>2, <2>3
<1>2. QED
      BY <1>1, MinutesTyped, Zenon

-----------------------------------------------------------------------------
\* Induction up to a bound, over a set rather than a predicate.
LEMMA StepByStep ==
    ASSUME NEW n \in Nat, NEW S, 0 \in S, \A k \in 0..(n - 1) : k \in S => k + 1 \in S
    PROVE  0..n \subseteq S
<1> DEFINE T == 0..n \ S
           R == {ss \in Nat \X Nat : ss[1] < ss[2]}
<1>1. SUFFICES ASSUME T # {} PROVE FALSE
      OBVIOUS
<1>2. IsWellFoundedOn(R, Nat)
      BY NatLessThanWellFounded, Zenon DEF OpToRel
<1>3. T \subseteq Nat
      OBVIOUS
<1> HIDE DEF R, T
<1>4. PICK x \in T : \A y \in T : ~(<<y, x>> \in R)
      BY <1>1, <1>2, <1>3, WFMin
<1>5. x \in 0..n /\ x \notin S
      BY DEF T
<1>6. x # 0 /\ x - 1 \in 0..(n - 1)
      BY <1>5
<1>7. x - 1 \in T
      BY <1>5, <1>6 DEF T
<1>8. <<x - 1, x>> \in R
      BY <1>5, <1>6 DEF R
<1>9. QED
      BY <1>4, <1>7, <1>8

\* p puts the keys in ascending order.
Ascends(keys, p) ==
    IsInjective(p) /\ \A i, j \in DOMAIN keys : i < j => keys[p[i]] <= keys[p[j]]

\* Whatever the keys, there is an order in which they ascend: by induction on their
\* number, the last one put among the others.
LEMMA SortingExists ==
    ASSUME NEW n \in Nat, NEW keys \in [1..n -> Int]
    PROVE  \E p \in [1..n -> 1..n] : Ascends(keys, p)
<1> DEFINE S == {k \in Nat : \A of \in [1..k -> Int] : \E p \in [1..k -> 1..k] : Ascends(of, p)}
<1>1. 0 \in S
      <2> SUFFICES ASSUME NEW of \in [1..0 -> Int]
                   PROVE  \E p \in [1..0 -> 1..0] : Ascends(of, p)
          OBVIOUS
      <2> DEFINE p == [i \in 1..0 |-> i]
      <2>1. p \in [1..0 -> 1..0] /\ Ascends(of, p)
            BY DEF Ascends, IsInjective
      <2>2. QED
            BY <2>1
<1>2. ASSUME NEW k \in 0..(n - 1), k \in S PROVE k + 1 \in S
      <2>1. k \in Nat /\ k + 1 \in Nat
            OBVIOUS
      <2> SUFFICES ASSUME NEW of \in [1..(k + 1) -> Int]
                   PROVE  \E p \in [1..(k + 1) -> 1..(k + 1)] : Ascends(of, p)
          BY <2>1
      <2> DEFINE before == [i \in 1..k |-> of[i]]
                 new == of[k + 1]
      <2>2. before \in [1..k -> Int] /\ new \in Int /\ \A i \in 1..k : before[i] = of[i]
            BY <2>1
      <2>3. PICK q \in [1..k -> 1..k] : Ascends(before, q)
            BY <1>2, <2>2
      <2>4. /\ \A i, j \in 1..k : q[i] = q[j] => i = j
            /\ \A i, j \in 1..k : i < j => of[q[i]] <= of[q[j]]
            /\ \A i \in 1..k : q[i] \in 1..k /\ of[q[i]] \in Int
            BY <2>1, <2>2, <2>3 DEF Ascends, IsInjective
      <2>5. \E c \in 0..k : /\ \A i \in 1..c : of[q[i]] <= new
                            /\ \A i \in (c + 1)..k : new <= of[q[i]]
            <3> DEFINE T == {c \in 0..k : \A i \in 1..c : of[q[i]] <= new}
            <3>1. 0 \in T
                  BY <2>1
            <3>2. CASE k \in T
                  <4>1. k \in 0..k /\ \A i \in 1..k : of[q[i]] <= new
                        BY <2>1, <3>2
                  <4>2. \A i \in (k + 1)..k : new <= of[q[i]]
                        BY <2>1
                  <4>3. QED
                        BY <4>1, <4>2
            <3>3. CASE k \notin T
                  <4>1. PICK c \in 0..(k - 1) : c \in T /\ c + 1 \notin T
                        <5> HIDE DEF T
                        <5>1. ~ 0..k \subseteq T
                              <6>1. k \in 0..k
                                    BY <2>1
                              <6>2. QED
                                    BY <3>3, <6>1
                        <5>2. QED
                              BY <2>1, <3>1, <5>1, StepByStep
                  <4>2. new < of[q[c + 1]]
                        <5>1. c + 1 \in 0..k /\ c \in Nat
                              BY <2>1
                        <5>2. PICK i \in 1..(c + 1) : ~ of[q[i]] <= new
                              BY <4>1, <5>1
                        <5>3. i \notin 1..c
                              BY <4>1, <5>2
                        <5>4. i = c + 1 /\ i \in 1..k
                              BY <2>1, <5>1, <5>2, <5>3
                        <5>5. of[q[i]] \in Int
                              BY <2>4, <5>4
                        <5>6. QED
                              BY <2>2, <5>2, <5>4, <5>5
                  <4>3. ASSUME NEW i \in (c + 1)..k PROVE new <= of[q[i]]
                        <5>1. /\ i \in 1..k /\ c + 1 \in 1..k
                              /\ i = c + 1 \/ c + 1 < i
                              BY <2>1, <4>1
                        <5>2. of[q[i]] \in Int /\ of[q[c + 1]] \in Int
                              BY <2>4, <5>1
                        <5>3. CASE i = c + 1
                              BY <2>2, <4>2, <5>2, <5>3
                        <5>4. CASE c + 1 < i
                              <6>1. of[q[c + 1]] <= of[q[i]]
                                    BY <2>4, <5>1, <5>4
                              <6>2. \A x, y, z \in Int : x < y /\ y <= z => x <= z
                                    OBVIOUS
                              <6>3. QED
                                    BY <2>2, <4>2, <5>2, <6>1, <6>2, Zenon
                        <5>5. QED
                              BY <5>1, <5>3, <5>4
                  <4>4. QED
                        BY <2>1, <4>1, <4>3
            <3>4. QED
                  BY <3>2, <3>3
      <2>6. PICK c \in 0..k : /\ \A i \in 1..c : of[q[i]] <= new
                              /\ \A i \in (c + 1)..k : new <= of[q[i]]
            BY <2>5
      <2> DEFINE p == [i \in 1..(k + 1) |-> IF i <= c THEN q[i]
                                            ELSE IF i = c + 1 THEN k + 1 ELSE q[i - 1]]
      <2>7. ASSUME NEW i \in 1..(k + 1)
            PROVE  /\ i <= c => i \in 1..c /\ i \in 1..k /\ p[i] = q[i]
                   /\ i = c + 1 => p[i] = k + 1
                   /\ i > c + 1 => i - 1 \in (c + 1)..k /\ i - 1 \in 1..k /\ p[i] = q[i - 1]
                   /\ i \in Int
            BY <2>1
      <2>8. p \in [1..(k + 1) -> 1..(k + 1)]
            <3> SUFFICES ASSUME NEW i \in 1..(k + 1) PROVE p[i] \in 1..(k + 1)
                OBVIOUS
            <3>1. i <= c \/ i = c + 1 \/ i > c + 1
                  BY <2>1
            <3> HIDE DEF p
            <3>2. p[i] \in 1..k \/ p[i] = k + 1
                  BY <2>4, <2>7, <3>1
            <3>3. QED
                  BY <2>1, <3>2
      <2> HIDE DEF p
      <2>9. ASSUME NEW i \in 1..(k + 1), NEW j \in 1..(k + 1), i < j
            PROVE  of[p[i]] <= of[p[j]] /\ p[i] # p[j]
            <3>1. /\ c \in Int /\ i \in Int /\ j \in Int
                  /\ i <= c \/ i = c + 1 \/ i > c + 1
                  /\ j <= c \/ j = c + 1 \/ j > c + 1
                  BY <2>1
            <3>2. CASE j <= c
                  <4>1. i \in 1..k /\ j \in 1..k /\ p[i] = q[i] /\ p[j] = q[j] /\ i # j
                        <5>1. i <= c
                              BY <2>9, <3>1, <3>2
                        <5>2. i \in 1..k /\ p[i] = q[i]
                              BY <2>7, <5>1
                        <5>3. j \in 1..k /\ p[j] = q[j]
                              BY <2>7, <3>2
                        <5>4. i # j
                              BY <2>9, <3>1
                        <5>5. QED
                              BY <5>2, <5>3, <5>4
                  <4>2. QED
                        BY <2>4, <2>9, <4>1
            <3>3. CASE j = c + 1
                  <4>1. i \in 1..c /\ i \in 1..k /\ p[i] = q[i] /\ p[j] = k + 1
                        BY <2>7, <2>9, <3>1, <3>3
                  <4>2. of[q[i]] <= new /\ q[i] \in 1..k
                        BY <2>4, <2>6, <4>1
                  <4>3. QED
                        BY <2>1, <4>1, <4>2
            <3>4. CASE j > c + 1 /\ i = c + 1
                  <4>1. j - 1 \in (c + 1)..k /\ j - 1 \in 1..k /\ p[j] = q[j - 1] /\ p[i] = k + 1
                        BY <2>7, <3>4
                  <4>2. new <= of[q[j - 1]] /\ q[j - 1] \in 1..k
                        BY <2>4, <2>6, <4>1
                  <4>3. QED
                        BY <2>1, <4>1, <4>2
            <3>5. CASE j > c + 1 /\ i <= c
                  <4>1. /\ j - 1 \in 1..k /\ p[j] = q[j - 1]
                        /\ i \in 1..k /\ p[i] = q[i] /\ i < j - 1 /\ i # j - 1
                        <5>1. i \in 1..k /\ p[i] = q[i] /\ j - 1 \in 1..k /\ p[j] = q[j - 1]
                              BY <2>7, <3>5
                        <5>2. i < j - 1 /\ i # j - 1
                              BY <3>1, <3>5
                        <5>3. QED
                              BY <5>1, <5>2
                  <4>2. QED
                        BY <2>4, <4>1
            <3>6. CASE j > c + 1 /\ i > c + 1
                  <4>1. /\ j - 1 \in 1..k /\ p[j] = q[j - 1]
                        /\ i - 1 \in 1..k /\ p[i] = q[i - 1] /\ i - 1 < j - 1 /\ i - 1 # j - 1
                        <5>1. i - 1 \in 1..k /\ p[i] = q[i - 1] /\ j - 1 \in 1..k /\ p[j] = q[j - 1]
                              BY <2>7, <3>6
                        <5>2. i - 1 < j - 1 /\ i - 1 # j - 1
                              BY <2>9, <3>1
                        <5>3. QED
                              BY <5>1, <5>2
                  <4>2. QED
                        BY <2>4, <4>1
            <3>7. QED
                  BY <3>1, <3>2, <3>3, <3>4, <3>5, <3>6
      <2>10. Ascends(of, p)
            <3>1. DOMAIN p = 1..(k + 1) /\ DOMAIN of = 1..(k + 1)
                  BY <2>8
            <3>2. ASSUME NEW i \in 1..(k + 1), NEW j \in 1..(k + 1), p[i] = p[j] PROVE i = j
                  <4>1. ~ i < j /\ ~ j < i
                        BY <2>9, <3>2
                  <4>2. QED
                        BY <2>1, <4>1
            <3>3. QED
                  BY <2>9, <3>1, <3>2 DEF Ascends, IsInjective
      <2>11. QED
            BY <2>8, <2>10
<1>3. n \in S
      <2> HIDE DEF S
      <2>1. 0..n \subseteq S
            BY <1>1, <1>2, StepByStep
      <2>2. QED
            BY <2>1
<1>4. QED
      BY <1>3

\* A list sorted by keys: the same elements, each where one place of the list goes to.
LEMMA SortedIs ==
    ASSUME NEW A, NEW list \in Seq(A), NEW keys \in [1..Len(list) -> Int]
    PROVE  \E p \in [1..Len(list) -> 1..Len(list)] :
              /\ \A i, j \in 1..Len(list) : p[i] = p[j] => i = j
              /\ \A i, j \in 1..Len(list) : i < j => keys[p[i]] <= keys[p[j]]
              /\ \A k \in 1..Len(list) : \E i \in 1..Len(list) : p[i] = k
              /\ Sorted(list, keys) = [i \in 1..Len(list) |-> list[p[i]]]
              /\ Sorted(list, keys) \in Seq(A) /\ Len(Sorted(list, keys)) = Len(list)
<1> DEFINE n == Len(list)
           p == Sorting(keys)
<1>1. n \in Nat /\ DOMAIN list = 1..n /\ DOMAIN keys = 1..n /\ \A k \in 1..n : list[k] \in A
      BY LenProperties, ElementOfSeq
<1>2. p = CHOOSE q \in [1..n -> 1..n] : Ascends(keys, q)
      BY <1>1, Zenon DEF Sorting, Ascends
<1>3. p \in [1..n -> 1..n] /\ Ascends(keys, p)
      <2>1. \E q \in [1..n -> 1..n] : Ascends(keys, q)
            BY <1>1, SortingExists
      <2>2. QED
            BY <1>2, <2>1, Zenon
<1>4. Sorted(list, keys) = [i \in 1..n |-> list[p[i]]]
      BY <1>1, Zenon DEF Sorted
<1> HIDE DEF p
<1>5. \A k \in 1..n : \E i \in 1..n : p[i] = k
      <2>1. p \in Injection(1..n, 1..n) /\ IsFiniteSet(1..n)
            <3>1. p \in Injection(1..n, 1..n)
                  BY <1>3 DEF Ascends, Injection
            <3>2. IsFiniteSet(1..n)
                  BY <1>1, FS_Interval
            <3>3. QED
                  BY <3>1, <3>2
      <2>2. p \in Surjection(1..n, 1..n)
            BY <2>1, FS_Injection
      <2>3. QED
            BY <2>2 DEF Surjection
<1>6. Sorted(list, keys) \in Seq(A) /\ Len(Sorted(list, keys)) = n
      <2>1. Sorted(list, keys) \in [1..n -> A]
            BY <1>1, <1>3, <1>4
      <2>2. QED
            BY <1>1, <2>1, LenProperties
<1>7. QED
      BY <1>1, <1>3, <1>4, <1>5, <1>6 DEF Ascends, IsInjective

-----------------------------------------------------------------------------
\* Looking at neighbours is enough: of any two intervals one ends in an earlier clock
\* hour than the other begins in.
LEMMA ValidApart ==
    ASSUME NEW ivs \in Seq(TimeInterval), Valid(ivs),
           NEW i \in 1..Len(ivs), NEW j \in 1..Len(ivs), i # j
    PROVE  LastHour(ivs[i]) < FirstHour(ivs[j]) \/ LastHour(ivs[j]) < FirstHour(ivs[i])
<1> DEFINE n == Len(ivs)
           keys == [k \in DOMAIN ivs |-> ivs[k].start]
           o == InOrder(ivs)
<1>1. /\ n \in Nat /\ DOMAIN ivs = 1..n
      /\ \A k \in 1..n : /\ ivs[k] \in TimeInterval
                         /\ ivs[k].start \in Int /\ ivs[k].end \in Int
      <2>1. n \in Nat /\ DOMAIN ivs = 1..n /\ \A k \in 1..n : ivs[k] \in TimeInterval
            BY LenProperties, ElementOfSeq
      <2>2. QED
            BY <2>1, IntervalIs, Lengths
<1>2. keys \in [1..n -> Int] /\ o = Sorted(ivs, keys)
      BY <1>1 DEF InOrder
<1> HIDE DEF keys, o
<1>3. PICK p \in [1..n -> 1..n] :
          /\ \A k \in 1..n : \E a \in 1..n : p[a] = k
          /\ o = [a \in 1..n |-> ivs[p[a]]]
      <2>1. \E p \in [1..Len(ivs) -> 1..Len(ivs)] :
               /\ \A a, b \in 1..Len(ivs) : p[a] = p[b] => a = b
               /\ \A a, b \in 1..Len(ivs) : a < b => keys[p[a]] <= keys[p[b]]
               /\ \A k \in 1..Len(ivs) : \E a \in 1..Len(ivs) : p[a] = k
               /\ Sorted(ivs, keys) = [a \in 1..Len(ivs) |-> ivs[p[a]]]
               /\ Sorted(ivs, keys) \in Seq(TimeInterval) /\ Len(Sorted(ivs, keys)) = Len(ivs)
            BY <1>2, SortedIs, Zenon
      <2>2. QED
            BY <1>2, <2>1, Zenon
<1>4. \A a \in 1..n : /\ o[a] \in TimeInterval /\ FirstHour(o[a]) \in Int /\ LastHour(o[a]) \in Int
                      /\ FirstHour(o[a]) <= LastHour(o[a])
                      /\ o[a].start \in Int /\ o[a].end \in Int
      <2> SUFFICES ASSUME NEW a \in 1..n
                   PROVE  /\ o[a] \in TimeInterval
                          /\ FirstHour(o[a]) \in Int /\ LastHour(o[a]) \in Int
                          /\ FirstHour(o[a]) <= LastHour(o[a])
                          /\ o[a].start \in Int /\ o[a].end \in Int
          OBVIOUS
      <2>1. o[a] \in TimeInterval
            BY <1>1, <1>3
      <2>2. \A iv \in TimeInterval : /\ FirstHour(iv) \in Int /\ LastHour(iv) \in Int
                                     /\ FirstHour(iv) <= LastHour(iv)
                                     /\ iv.start \in Int /\ iv.end \in Int
            BY IntervalIs, Lengths
      <2>3. QED
            BY <2>1, <2>2, Zenon
<1>5. ASSUME NEW a \in 1..(n - 1) PROVE LastHour(o[a]) < FirstHour(o[a + 1])
      <2>1. a \in 1..n /\ a + 1 \in 1..n
            BY <1>1
      <2>2. o[a + 1].start >= o[a].end /\ LastHour(o[a]) # FirstHour(o[a + 1])
            BY Zenon DEF Valid, o
      <2>3. o[a].end - 1 \in Int /\ o[a + 1].start \in Int /\ o[a].end - 1 <= o[a + 1].start
            <3>1. o[a].end \in Int /\ o[a + 1].start \in Int
                  BY <1>4, <2>1
            <3>2. \A s, e \in Int : s >= e => e - 1 \in Int /\ e - 1 <= s
                  OBVIOUS
            <3>3. QED
                  BY <2>2, <3>1, <3>2, Zenon
      <2>4. LastHour(o[a]) <= FirstHour(o[a + 1])
            BY <2>3, HoursAscend DEF LastHour, FirstHour
      <2>5. QED
            BY <1>4, <2>1, <2>2, <2>4
<1> DEFINE S == {b \in 0..n : \A a \in 1..(b - 1) : LastHour(o[a]) < FirstHour(o[b])}
<1>6. 0 \in S
      BY <1>1
<1>7. ASSUME NEW b \in 0..(n - 1), b \in S PROVE b + 1 \in S
      <2>1. b + 1 \in 1..n /\ b \in Int
            BY <1>1
      <2>2. ASSUME NEW a \in 1..b PROVE LastHour(o[a]) < FirstHour(o[b + 1])
            <3>1. b \in 1..(n - 1) /\ b \in 1..n /\ a \in 1..n
                  BY <1>1
            <3>2. LastHour(o[b]) < FirstHour(o[b + 1])
                  BY <1>5, <3>1
            <3>3. CASE a = b
                  BY <3>2, <3>3
            <3>4. CASE a # b
                  <4>1. LastHour(o[a]) < FirstHour(o[b])
                        BY <1>7, <2>1, <3>4
                  <4>2. QED
                        BY <1>4, <2>1, <3>1, <3>2, <4>1
            <3>5. QED
                  BY <3>3, <3>4
      <2>3. \A a \in 1..((b + 1) - 1) : LastHour(o[a]) < FirstHour(o[b + 1])
            <3>1. (b + 1) - 1 = b
                  BY <2>1
            <3>2. QED
                  BY <2>2, <3>1
      <2>4. QED
            BY <1>1, <2>1, <2>3
<1> HIDE DEF S
<1>8. 0..n \subseteq S
      BY <1>1, <1>6, <1>7, StepByStep
<1>9. \A a, b \in 1..n : a < b => LastHour(o[a]) < FirstHour(o[b])
      <2> SUFFICES ASSUME NEW a \in 1..n, NEW b \in 1..n, a < b
                   PROVE  LastHour(o[a]) < FirstHour(o[b])
          OBVIOUS
      <2>1. b \in S /\ a \in 1..(b - 1)
            BY <1>1, <1>8
      <2>2. QED
            BY <2>1 DEF S
<1>10. PICK a \in 1..n, b \in 1..n : p[a] = i /\ p[b] = j
      BY <1>3
<1>11. o[a] = ivs[i] /\ o[b] = ivs[j] /\ (a < b \/ b < a)
      <2>1. o[a] = ivs[i] /\ o[b] = ivs[j] /\ a # b
            BY <1>3, <1>10
      <2>2. QED
            BY <1>1, <2>1
<1>12. QED
      BY <1>9, <1>11

\* The pieces one after the other.
LEMMA FlattenIs ==
    ASSUME NEW n \in Nat \ {0}, NEW parts \in [1..n -> Seq(HourRecord)]
    PROVE  \E f : /\ f[1] = parts[1]
                  /\ \A k \in 1..(n - 1) : f[k + 1] = f[k] \o parts[k + 1]
                  /\ FlattenSeq(parts) = f[n]
<1> DEFINE Sums(g, k) == g = [i \in 1..k |-> IF i = 1 THEN parts[i] ELSE g[i - 1] \o parts[i]]
           S == {k \in 0..n : \E g : Sums(g, k)}
<1>1. 0 \in S
      <2>1. Sums([i \in 1..0 |-> 0], 0)
            OBVIOUS
      <2>2. 0 \in 0..n
            OBVIOUS
      <2> HIDE DEF Sums
      <2>3. QED
            BY <2>1, <2>2
<1>2. ASSUME NEW k \in 0..(n - 1), k \in S PROVE k + 1 \in S
      <2>1. PICK g : Sums(g, k)
            BY <1>2
      <2> DEFINE h == [i \in 1..(k + 1) |-> IF i <= k THEN g[i]
                                            ELSE IF i = 1 THEN parts[i] ELSE g[k] \o parts[i]]
      <2>2. \A i \in 1..k : g[i] = IF i = 1 THEN parts[i] ELSE g[i - 1] \o parts[i]
            BY <2>1
      <2>3. ASSUME NEW i \in 1..(k + 1)
            PROVE  h[i] = IF i = 1 THEN parts[i] ELSE h[i - 1] \o parts[i]
            <3>1. CASE i <= k
                  <4>1. i \in 1..k /\ h[i] = g[i]
                        BY <3>1
                  <4>2. i # 1 => i - 1 \in 1..(k + 1) /\ i - 1 <= k
                        BY <3>1
                  <4>3. i # 1 => h[i - 1] = g[i - 1]
                        BY <4>2
                  <4> HIDE DEF h
                  <4>4. QED
                        BY <2>2, <4>1, <4>3
            <3>2. CASE ~ i <= k
                  <4>1. i = k + 1 /\ h[i] = IF i = 1 THEN parts[i] ELSE g[k] \o parts[i]
                        BY <3>2
                  <4>2. i # 1 => i - 1 = k /\ i - 1 \in 1..(k + 1) /\ h[i - 1] = g[k]
                        BY <4>1
                  <4> HIDE DEF h
                  <4>3. QED
                        BY <4>1, <4>2
            <3>3. QED
                  BY <3>1, <3>2
      <2>4. h = [i \in 1..(k + 1) |-> h[i]]
            OBVIOUS
      <2> HIDE DEF h
      <2>5. Sums(h, k + 1)
            BY <2>3, <2>4
      <2>6. k + 1 \in 0..n
            OBVIOUS
      <2> HIDE DEF Sums
      <2>7. QED
            BY <2>5, <2>6
<1>3. \E g : Sums(g, n)
      <2> HIDE DEF S
      <2>1. n \in S
            <3>1. 0..n \subseteq S
                  BY <1>1, <1>2, StepByStep
            <3>2. QED
                  BY <3>1
      <2>2. QED
            BY <2>1 DEF S
<1> DEFINE f == CHOOSE g : Sums(g, n)
<1>4. Len(parts) = n
      BY LenProperties, SeqDef
<1>5. FlattenSeq(parts) = f[n]
      BY <1>4 DEF FlattenSeq
<1>6. Sums(f, n)
      BY <1>3
<1> HIDE DEF f
<1>7. \A i \in 1..n : f[i] = IF i = 1 THEN parts[i] ELSE f[i - 1] \o parts[i]
      BY <1>6
<1>8. f[1] = parts[1]
      BY <1>7
<1>9. ASSUME NEW k \in 1..(n - 1) PROVE f[k + 1] = f[k] \o parts[k + 1]
      <2>1. k + 1 \in 1..n /\ k + 1 # 1 /\ (k + 1) - 1 = k
            OBVIOUS
      <2>2. QED
            BY <1>7, <2>1
<1>10. QED
      BY <1>5, <1>8, <1>9

\* The records of an interval as a set: a day's, of the interval's hours, which allow
\* together what the interval covers.
LEMMA PieceIs ==
    ASSUME NEW iv \in TimeInterval
    PROVE  /\ IsDay(RecordsOf(iv))
           /\ \A r \in Range(RecordsOf(iv)) :
                 /\ r.hour \in Int /\ FirstHour(iv) <= r.hour /\ r.hour <= LastHour(iv)
                 /\ r.unaccounted = iv.unaccounted
                 /\ \A minute \in Times : Allows(r, minute) => Covers(iv, minute)
           /\ \A minute \in Times :
                 Covers(iv, minute) => \E r \in Range(RecordsOf(iv)) : Allows(r, minute)
<1> DEFINE hours == LastHour(iv) - FirstHour(iv) + 1
           records == RecordsOf(iv)
           first == FirstHour(iv)
           last == LastHour(iv)
<1>1. /\ hours \in Nat \ {0} /\ DOMAIN records = 1..hours /\ records \in Seq(HourRecord)
      /\ \A k \in 1..hours :
            /\ records[k].hour = first + k - 1 /\ records[k].unaccounted = iv.unaccounted
            /\ \A minute \in Times :
                  Allows(records[k], minute)
                    <=> Covers(iv, minute) /\ minute \div HourLen = records[k].hour
      BY RecordsOfInterval, Zenon
<1>2. first \in Int /\ last \in Int /\ iv.start \in Int /\ iv.end \in Int
      <2>1. first \in 0..(HoursInDay - 1) /\ last \in 0..(HoursInDay - 1)
            BY IntervalIs
      <2>2. iv.start \in 0..(DayLen - 1) /\ iv.end \in 1..DayLen
            BY IntervalIs
      <2> HIDE DEF first, last
      <2>3. QED
            BY <2>1, <2>2, Lengths
<1>3. Range(records) = {records[k] : k \in 1..hours}
      BY <1>1 DEF Range
<1>4. hours = last - first + 1
      OBVIOUS
<1> HIDE DEF hours, records
<1>5. \A k \in 1..hours : k \in Int /\ first + k - 1 \in Int /\ first <= first + k - 1
                          /\ first + k - 1 <= last
      <2> HIDE DEF first, last
      <2>1. QED
            BY <1>1, <1>2, <1>4
<1>6. DistinctHours(records)
      <2> HIDE DEF first, last
      <2>1. ASSUME NEW a \in 1..hours, NEW b \in 1..hours, records[a].hour = records[b].hour
            PROVE  a = b
            <3>1. records[a].hour = first + a - 1 /\ records[b].hour = first + b - 1
                  BY <1>1
            <3>2. a \in Int /\ b \in Int
                  BY <1>5
            <3>3. first + a - 1 = first + b - 1
                  BY <2>1, <3>1, Zenon
            <3>4. \A x, i, j \in Int : x + i - 1 = x + j - 1 => i = j
                  OBVIOUS
            <3>5. QED
                  BY <1>2, <3>2, <3>3, <3>4, Zenon
      <2>2. QED
            BY <1>1, <2>1 DEF DistinctHours
<1>7. ASSUME NEW minute \in Times, Covers(iv, minute)
      PROVE  \E k \in 1..hours : Allows(records[k], minute)
      <2> DEFINE hour == minute \div HourLen
      <2>1. minute \in Int /\ hour \in Int
            BY HourOf, Lengths DEF Times
      <2>2. iv.start <= minute /\ minute <= iv.end - 1 /\ iv.end - 1 \in Int
            BY <1>2, <1>7, <2>1 DEF Covers
      <2>3. first <= hour /\ hour <= last
            BY <1>2, <2>1, <2>2, HoursAscend DEF FirstHour, LastHour
      <2> DEFINE k == hour - first + 1
      <2> HIDE DEF hour, first, last
      <2>4. k \in 1..hours /\ first + k - 1 = hour
            BY <1>2, <1>4, <2>1, <2>3
      <2> HIDE DEF k
      <2>5. Allows(records[k], minute)
            BY <1>1, <1>7, <2>4 DEF hour
      <2>6. QED
            BY <2>4, <2>5
<1> HIDE DEF first, last
<1>8. QED
      BY <1>1, <1>3, <1>5, <1>6, <1>7 DEF IsDay, first, last, records

\* Two days without an hour in common, one after the other, are a day.
LEMMA JoinedDays ==
    ASSUME NEW s, NEW t, IsDay(s), IsDay(t),
           \A a \in Range(s), b \in Range(t) : a.hour # b.hour
    PROVE  IsDay(s \o t) /\ Range(s \o t) = Range(s) \cup Range(t)
<1> DEFINE m == Len(s)
           n == Len(t)
           st == s \o t
<1>1. /\ s \in Seq(HourRecord) /\ t \in Seq(HourRecord) /\ m \in Nat /\ n \in Nat
      /\ DOMAIN s = 1..m /\ DOMAIN t = 1..n
      BY LenProperties DEF IsDay
<1>2. /\ st \in Seq(HourRecord) /\ DOMAIN st = 1..(m + n)
      /\ \A a \in 1..(m + n) : st[a] = IF a <= m THEN s[a] ELSE t[a - m]
      BY <1>1, ConcatProperties, LenProperties
<1> HIDE DEF m, n, st
<1>3. \A a \in 1..(m + n) : \/ a \in 1..m /\ st[a] = s[a]
                            \/ a - m \in 1..n /\ st[a] = t[a - m]
      BY <1>1, <1>2
<1>4. Range(st) = Range(s) \cup Range(t)
      BY <1>1, RangeConcatenation DEF st
<1>5. ASSUME NEW a \in 1..(m + n), NEW b \in 1..(m + n), st[a].hour = st[b].hour
      PROVE  a = b
      <2>1. \A i \in 1..m, j \in 1..n : s[i].hour # t[j].hour
            BY <1>1 DEF Range
      <2>2. /\ \A i, j \in 1..m : s[i].hour = s[j].hour => i = j
            /\ \A i, j \in 1..n : t[i].hour = t[j].hour => i = j
            BY <1>1 DEF IsDay, DistinctHours
      <2>3. CASE a \in 1..m /\ st[a] = s[a]
            <3>1. CASE b \in 1..m /\ st[b] = s[b]
                  BY <1>5, <2>2, <2>3, <3>1
            <3>2. CASE b - m \in 1..n /\ st[b] = t[b - m]
                  BY <1>5, <2>1, <2>3, <3>2
            <3>3. QED
                  BY <1>3, <3>1, <3>2
      <2>4. CASE a - m \in 1..n /\ st[a] = t[a - m]
            <3>1. CASE b \in 1..m /\ st[b] = s[b]
                  BY <1>5, <2>1, <2>4, <3>1
            <3>2. CASE b - m \in 1..n /\ st[b] = t[b - m]
                  <4>1. a - m = b - m
                        BY <1>5, <2>2, <2>4, <3>2, Zenon
                  <4>2. QED
                        BY <1>1, <4>1
            <3>3. QED
                  BY <1>3, <3>1, <3>2
      <2>5. QED
            BY <1>3, <2>3, <2>4
<1>6. QED
      BY <1>2, <1>4, <1>5 DEF IsDay, DistinctHours, st

\* What a validated list expands into: a day's records, which say what the list says.
LEMMA ExpandedDay ==
    ASSUME NEW ivs \in Seq(TimeInterval), Valid(ivs)
    PROVE  IsDay(IntervalsToHours(ivs)) /\ Agree(ivs, IntervalsToHours(ivs))
<1> DEFINE n == Len(ivs)
           parts == [i \in 1..n |-> RecordsOf(ivs[i])]
           records == IntervalsToHours(ivs)
           Upto(k, s) == IsDay(s) /\ Range(s) = UNION {Range(parts[i]) : i \in 1..k}
<1>1. /\ n \in Nat /\ DOMAIN ivs = 1..n /\ \A i \in 1..n : ivs[i] \in TimeInterval
      BY LenProperties, ElementOfSeq
<1>2. /\ parts \in [1..n -> Seq(HourRecord)] /\ Len(parts) = n
      /\ \A i \in 1..n : parts[i] = RecordsOf(ivs[i])
      <2>1. \A i \in 1..n : RecordsOf(ivs[i]) \in Seq(HourRecord)
            BY <1>1, PieceIs DEF IsDay
      <2>2. parts \in [1..n -> Seq(HourRecord)]
            BY <2>1
      <2>3. QED
            BY <1>1, <2>2, LenProperties, SeqDef
<1>3. records = FlattenSeq(parts)
      BY DEF IntervalsToHours
<1> HIDE DEF n, parts, records
<1>4. \A i \in 1..n : IsDay(parts[i])
      BY <1>1, <1>2, PieceIs
<1>5. ASSUME NEW k \in 1..(n - 1), NEW s, Upto(k, s) PROVE Upto(k + 1, s \o parts[k + 1])
      <2>1. k + 1 \in 1..n /\ 1..(k + 1) = 1..k \cup {k + 1} /\ \A i \in 1..k : i \in 1..n /\ i # k + 1
            BY <1>1
      <2>2. ASSUME NEW i \in 1..k, NEW a \in Range(parts[i]), NEW b \in Range(parts[k + 1])
            PROVE  a.hour # b.hour
            <3> DEFINE iv == ivs[i]
                       later == ivs[k + 1]
            <3>1. iv \in TimeInterval /\ later \in TimeInterval
                  BY <1>1, <2>1
            <3>2. LastHour(iv) < FirstHour(later) \/ LastHour(later) < FirstHour(iv)
                  BY <2>1, ValidApart DEF n
            <3>3. parts[i] = RecordsOf(iv) /\ parts[k + 1] = RecordsOf(later)
                  BY <1>2, <2>1
            <3> HIDE DEF iv, later
            <3>4. /\ a.hour \in Int /\ FirstHour(iv) <= a.hour /\ a.hour <= LastHour(iv)
                  /\ b.hour \in Int /\ FirstHour(later) <= b.hour /\ b.hour <= LastHour(later)
                  BY <2>2, <3>1, <3>3, PieceIs
            <3>5. \A x \in TimeInterval : FirstHour(x) \in Int /\ LastHour(x) \in Int
                  <4>1. \A x \in TimeInterval : /\ FirstHour(x) \in 0..(HoursInDay - 1)
                                                /\ LastHour(x) \in 0..(HoursInDay - 1)
                        BY IntervalIs, Zenon
                  <4>2. \A h \in 0..(HoursInDay - 1) : h \in Int
                        OBVIOUS
                  <4>3. QED
                        BY <4>1, <4>2, Zenon
            <3>6. \A w, x, y, z \in Int : w <= x /\ x < y /\ y <= z => w # z /\ z # w
                  OBVIOUS
            <3>7. QED
                  BY <3>1, <3>2, <3>4, <3>5, <3>6, Zenon
      <2>3. \A a \in Range(s), b \in Range(parts[k + 1]) : a.hour # b.hour
            BY <1>5, <2>2
      <2>4. IsDay(s \o parts[k + 1]) /\ Range(s \o parts[k + 1]) = Range(s) \cup Range(parts[k + 1])
            BY <1>4, <1>5, <2>1, <2>3, JoinedDays
      <2>5. UNION {Range(parts[i]) : i \in 1..(k + 1)}
              = (UNION {Range(parts[i]) : i \in 1..k}) \cup Range(parts[k + 1])
            BY <2>1
      <2>6. QED
            BY <1>5, <2>4, <2>5
<1>6. Upto(n, records)
      <2>1. CASE n = 0
            <3>1. records = parts /\ parts = << >>
                  BY <1>2, <1>3, <2>1 DEF FlattenSeq
            <3>2. IsDay(<< >>) /\ Range(<< >>) = {} /\ 1..0 = {}
                  BY DEF IsDay, DistinctHours, Range
            <3>3. QED
                  BY <2>1, <3>1, <3>2
      <2>2. CASE n # 0
            <3>1. n \in Nat \ {0}
                  BY <1>1, <2>2
            <3>2. PICK f : /\ f[1] = parts[1]
                           /\ \A k \in 1..(n - 1) : f[k + 1] = f[k] \o parts[k + 1]
                           /\ FlattenSeq(parts) = f[n]
                  BY <1>2, <3>1, FlattenIs, ZenonT(60)
            <3> DEFINE S == {k \in 0..n : k = 0 \/ Upto(k, f[k])}
            <3>3. 0 \in S
                  BY <3>1
            <3>4. ASSUME NEW k \in 0..(n - 1), k \in S PROVE k + 1 \in S
                  <4>1. k + 1 \in 1..n /\ k + 1 \in 0..n /\ 1 \in 1..n
                        BY <3>1
                  <4>2. CASE k = 0
                        <5>1. 0 + 1 = 1 /\ 1..1 = {1}
                              OBVIOUS
                        <5>2. Upto(1, f[1])
                              BY <1>4, <3>2, <4>1, <5>1
                        <5> HIDE DEF Upto
                        <5>3. QED
                              BY <4>1, <4>2, <5>1, <5>2
                  <4>3. CASE k # 0
                        <5>1. k \in 1..(n - 1)
                              BY <3>1, <4>3
                        <5> HIDE DEF Upto
                        <5>2. Upto(k, f[k])
                              BY <3>4, <4>3
                        <5>3. Upto(k + 1, f[k + 1])
                              BY <1>5, <3>2, <5>1, <5>2
                        <5>4. QED
                              BY <4>1, <5>3
                  <4>4. QED
                        BY <4>2, <4>3
            <3>5. n \in S
                  <4> HIDE DEF S
                  <4>1. 0..n \subseteq S
                        BY <1>1, <3>3, <3>4, StepByStep
                  <4>2. QED
                        BY <1>1, <4>1
            <3> HIDE DEF Upto
            <3>6. QED
                  BY <1>3, <2>2, <3>2, <3>5
      <2>3. QED
            BY <2>1, <2>2
<1>7. ASSUME NEW minute \in Times, NEW i \in 1..n, Covers(ivs[i], minute)
      PROVE  \E a \in DOMAIN records : /\ Allows(records[a], minute)
                                       /\ records[a].unaccounted = ivs[i].unaccounted
      <2>1. PICK r \in Range(parts[i]) : Allows(r, minute) /\ r.unaccounted = ivs[i].unaccounted
            BY <1>1, <1>2, <1>7, PieceIs
      <2>2. r \in Range(records)
            BY <1>6
      <2>3. QED
            BY <2>1, <2>2 DEF Range
<1>8. ASSUME NEW minute \in Times, NEW a \in DOMAIN records, Allows(records[a], minute)
      PROVE  \E i \in 1..n : Covers(ivs[i], minute)
      <2>1. records[a] \in Range(records)
            BY DEF Range
      <2>2. PICK i \in 1..n : records[a] \in Range(parts[i])
            BY <1>6, <2>1
      <2>3. Covers(ivs[i], minute)
            BY <1>1, <1>2, <1>8, <2>2, PieceIs
      <2>4. QED
            BY <2>3
<1>9. QED
      BY <1>1, <1>6, <1>7, <1>8 DEF Agree, records

\* One interval needs no validation.
LEMMA OneIsValid ==
    ASSUME NEW iv \in TimeInterval
    PROVE  <<iv>> \in Seq(TimeInterval) /\ Valid(<<iv>>) /\ Len(<<iv>>) = 1 /\ <<iv>>[1] = iv
BY DEF Valid

-----------------------------------------------------------------------------
\* The last of some first places.
LEMMA MaxIsLast ==
    ASSUME NEW k \in Nat, NEW t \in SUBSET (1..(k + 1)), k + 1 \in t
    PROVE  Max(t) = k + 1
<1>1. \A y \in t : k + 1 >= y
      OBVIOUS
<1>2. \A x \in t : (\A y \in t : x >= y) => x = k + 1
      OBVIOUS
<1>3. QED
      BY <1>1, <1>2 DEF Max

\* The loop over sorted records, turn by turn.
LEMMA LoopIs ==
    ASSUME NEW n \in Nat, NEW s, DOMAIN s = 1..n
    PROVE  \E acc : /\ acc[0] = << >>
                    /\ \A k \in 0..(n - 1) : acc[k + 1] = WithRecord(acc[k], s[k + 1])
                    /\ FoldLeft(WithRecord, << >>, s) = acc[n]
<1> DEFINE Folds(g, k) ==
               g = [t \in SUBSET (1..k) |-> IF t = {} THEN << >>
                                            ELSE WithRecord(g[t \ {Max(t)}], s[Max(t)])]
           S == {k \in 0..n : \E g : Folds(g, k)}
<1>1. 0 \in S
      <2> DEFINE g == [t \in SUBSET (1..0) |-> << >>]
      <2>1. \A t \in SUBSET (1..0) : t = {}
            OBVIOUS
      <2>2. Folds(g, 0)
            BY <2>1
      <2>3. 0 \in 0..n
            OBVIOUS
      <2> HIDE DEF Folds
      <2>4. QED
            BY <2>2, <2>3
<1>2. ASSUME NEW k \in 0..(n - 1), k \in S PROVE k + 1 \in S
      <2>1. PICK g : Folds(g, k)
            BY <1>2
      <2> DEFINE h == [t \in SUBSET (1..(k + 1)) |->
                          IF k + 1 \in t THEN WithRecord(g[t \ {k + 1}], s[k + 1]) ELSE g[t]]
      <2>2. \A t \in SUBSET (1..k) : g[t] = IF t = {} THEN << >>
                                            ELSE WithRecord(g[t \ {Max(t)}], s[Max(t)])
            BY <2>1
      <2>3. ASSUME NEW t \in SUBSET (1..(k + 1))
            PROVE  h[t] = IF t = {} THEN << >> ELSE WithRecord(h[t \ {Max(t)}], s[Max(t)])
            <3>1. CASE k + 1 \in t
                  <4>1. Max(t) = k + 1 /\ t # {}
                        BY <3>1, MaxIsLast
                  <4>2. /\ t \ {k + 1} \in SUBSET (1..(k + 1))
                        /\ k + 1 \notin t \ {k + 1}
                        OBVIOUS
                  <4>3. h[t \ {k + 1}] = g[t \ {k + 1}]
                        BY <4>2
                  <4>4. h[t] = WithRecord(g[t \ {k + 1}], s[k + 1])
                        BY <3>1
                  <4> HIDE DEF h
                  <4>5. QED
                        BY <4>1, <4>3, <4>4
            <3>2. CASE k + 1 \notin t
                  <4>1. t \in SUBSET (1..k)
                        BY <3>2
                  <4>2. t \ {Max(t)} \in SUBSET (1..(k + 1)) /\ k + 1 \notin t \ {Max(t)}
                        BY <3>2
                  <4>3. h[t] = g[t] /\ h[t \ {Max(t)}] = g[t \ {Max(t)}]
                        BY <3>2, <4>2
                  <4> HIDE DEF h
                  <4>4. QED
                        BY <2>2, <4>1, <4>3
            <3>3. QED
                  BY <3>1, <3>2
      <2>4. h = [t \in SUBSET (1..(k + 1)) |-> h[t]]
            OBVIOUS
      <2> HIDE DEF h
      <2>5. Folds(h, k + 1)
            BY <2>3, <2>4
      <2>6. k + 1 \in 0..n
            OBVIOUS
      <2> HIDE DEF Folds
      <2>7. QED
            BY <2>5, <2>6
<1>3. \E g : Folds(g, n)
      <2> HIDE DEF S
      <2>1. n \in S
            <3>1. 0..n \subseteq S
                  BY <1>1, <1>2, StepByStep
            <3>2. QED
                  BY <3>1
      <2>2. QED
            BY <2>1 DEF S
<1> DEFINE f == CHOOSE g : Folds(g, n)
           acc == [k \in 0..n |-> f[1..k]]
<1>4. FoldLeft(WithRecord, << >>, s) = f[1..n]
      BY DEF FoldLeft, MapThenFoldSet
<1>5. Folds(f, n)
      BY <1>3
<1> HIDE DEF f
<1>6. \A t \in SUBSET (1..n) : f[t] = IF t = {} THEN << >>
                                     ELSE WithRecord(f[t \ {Max(t)}], s[Max(t)])
      BY <1>5
<1> HIDE DEF Folds
<1>7. acc[0] = << >> /\ acc[n] = f[1..n]
      <2>1. 1..0 = {} /\ {} \in SUBSET (1..n)
            OBVIOUS
      <2>2. f[{}] = << >>
            BY <1>6, <2>1
      <2>3. QED
            BY <2>1, <2>2
<1>8. ASSUME NEW k \in 0..(n - 1) PROVE acc[k + 1] = WithRecord(acc[k], s[k + 1])
      <2>1. /\ 1..(k + 1) \in SUBSET (1..n) /\ k + 1 \in 1..(k + 1) /\ 1..(k + 1) # {}
            /\ (1..(k + 1)) \ {k + 1} = 1..k
            OBVIOUS
      <2>2. Max(1..(k + 1)) = k + 1
            BY <2>1, MaxIsLast
      <2>3. f[1..(k + 1)] = WithRecord(f[1..k], s[k + 1])
            BY <1>6, <2>1, <2>2
      <2>4. acc[k + 1] = f[1..(k + 1)] /\ acc[k] = f[1..k]
            OBVIOUS
      <2>5. QED
            BY <2>3, <2>4
<1>9. QED
      BY <1>4, <1>7, <1>8

\* Two intervals meet only where the flag changes.
Maximal(ivs) ==
    \A i \in 1..(Len(ivs) - 1) :
        \/ ivs[i].end < ivs[i + 1].start
        \/ ivs[i].end = ivs[i + 1].start /\ ivs[i].unaccounted # ivs[i + 1].unaccounted

\* What the loop has made of the first k records of a day.
MadeOf(ivs, o, k) ==
    /\ ivs \in Seq(TimeInterval) /\ Maximal(ivs)
    /\ k > 0 => /\ Len(ivs) > 0 /\ ivs[Len(ivs)].end = Top(o[k].hour) + o[k].end
                /\ ivs[Len(ivs)].unaccounted = o[k].unaccounted
    /\ k = 0 => ivs = << >>
    /\ \A minute \in Times :
          /\ \A i \in 1..Len(ivs) : Covers(ivs[i], minute) =>
                \E j \in 1..k : /\ Allows(o[j], minute)
                                /\ o[j].unaccounted = ivs[i].unaccounted
          /\ \A j \in 1..k : Allows(o[j], minute) =>
                \E i \in 1..Len(ivs) : Covers(ivs[i], minute)

\* One turn: the next record, of a later hour, prolongs the last interval or begins one.
LEMMA OneTurn ==
    ASSUME NEW n \in Nat, NEW o \in [1..n -> HourRecord], NEW k \in 0..(n - 1),
           k > 0 => o[k].hour < o[k + 1].hour,
           NEW ivs, MadeOf(ivs, o, k)
    PROVE  MadeOf(WithRecord(ivs, o[k + 1]), o, k + 1)
<1> DEFINE r == o[k + 1]
           start == Top(r.hour) + r.start
           end == Top(r.hour) + r.end
           m == Len(ivs)
           new == [start |-> start, end |-> end, unaccounted |-> r.unaccounted]
           longer == [ivs EXCEPT ![m].end = end]
<1>1. /\ k \in Nat /\ k + 1 \in 1..n /\ r \in HourRecord
      /\ r.hour \in Int /\ Top(r.hour) \in Int
      /\ r.start \in Int /\ r.end \in Int /\ 0 <= r.start /\ r.start < r.end /\ r.end <= HourLen
      /\ 0 <= r.hour /\ r.hour <= HoursInDay - 1 /\ r.unaccounted \in BOOLEAN
      /\ HourLen \in Nat /\ HoursInDay \in Nat /\ DayLen \in Nat
      <2>1. k \in Nat /\ k + 1 \in 1..n
            OBVIOUS
      <2>2. r \in HourRecord
            BY <2>1
      <2> HIDE DEF r
      <2>3. QED
            BY <2>1, <2>2, RecordIs, Lengths
<1>2. /\ ivs \in Seq(TimeInterval) /\ Maximal(ivs) /\ m \in Nat /\ DOMAIN ivs = 1..m
      /\ \A i \in 1..m : /\ ivs[i] \in TimeInterval /\ ivs[i].start \in Int /\ ivs[i].end \in Int
                         /\ ivs[i].start < ivs[i].end
      <2>1. ivs \in Seq(TimeInterval) /\ Maximal(ivs)
            BY DEF MadeOf
      <2>2. m \in Nat /\ DOMAIN ivs = 1..m /\ \A i \in 1..m : ivs[i] \in TimeInterval
            BY <2>1, LenProperties, ElementOfSeq
      <2>3. \A iv \in TimeInterval : iv.start \in Int /\ iv.end \in Int /\ iv.start < iv.end
            BY IntervalIs, Lengths
      <2>4. QED
            BY <2>1, <2>2, <2>3
<1>3. start \in Int /\ end \in Int /\ 0 <= start /\ start < end /\ end <= DayLen
      <2> HIDE DEF r
      <2>1. r.hour \in 0..(HoursInDay - 1)
            BY <1>1
      <2>2. 0 <= Top(r.hour) /\ Top(r.hour) + HourLen <= DayLen
            BY <2>1, TopInDay
      <2>3. \A top, s, e, len, day \in Int :
               0 <= top /\ 0 <= s /\ s < e /\ e <= len /\ top + len <= day =>
                  /\ top + s \in Int /\ top + e \in Int /\ 0 <= top + s
                  /\ top + s < top + e /\ top + e <= day
            OBVIOUS
      <2>4. HourLen \in Int /\ DayLen \in Int
            BY <1>1
      <2>5. QED
            BY <1>1, <2>2, <2>3, <2>4, Zenon
<1>4. new \in TimeInterval
      BY <1>1, <1>3 DEF TimeInterval
<1>5. m > 0 <=> k > 0
      BY <1>1, <1>2 DEF MadeOf
<1>6. m > 0 => ivs[m].end <= start
      <2> SUFFICES ASSUME m > 0 PROVE ivs[m].end <= start
          OBVIOUS
      <2>1. ivs[m].end = Top(o[k].hour) + o[k].end /\ o[k].hour < r.hour
            BY <1>5 DEF MadeOf
      <2>2. o[k] \in HourRecord
            BY <1>1, <1>5
      <2>3. o[k].hour \in Int /\ o[k].end \in Int /\ o[k].end <= HourLen /\ Top(o[k].hour) \in Int
            BY <2>2, RecordIs, Lengths
      <2>4. Top(o[k].hour) + HourLen <= Top(r.hour)
            BY <1>1, <2>1, <2>3, TopsApart
      <2> HIDE DEF r
      <2>5. \A e, t, top, len, s \in Int : e <= len /\ t + len <= top /\ 0 <= s => t + e <= top + s
            OBVIOUS
      <2>6. HourLen \in Int
            BY <1>1
      <2>7. QED
            BY <1>1, <2>1, <2>3, <2>4, <2>5, <2>6, ZenonT(60)
<1>7. WithRecord(ivs, r) = IF m > 0 /\ start = ivs[m].end /\ r.unaccounted = ivs[m].unaccounted
                           THEN longer ELSE Append(ivs, new)
      <2>1. ivs # << >> <=> m > 0
            BY <1>2, EmptySeq
      <2>2. ~ start >= end
            BY <1>3
      <2> HIDE DEF r
      <2>3. QED
            BY <2>1, <2>2 DEF WithRecord, Continues, Last, Top
<1>8. \A minute \in Times : minute \in Int /\ (Allows(r, minute) <=> start <= minute /\ minute < end)
      BY Lengths DEF Allows, Times
<1> HIDE DEF r, start, end
<1>9. CASE m > 0 /\ start = ivs[m].end /\ r.unaccounted = ivs[m].unaccounted
      <2>1. WithRecord(ivs, r) = longer
            BY <1>7, <1>9
      <2>2. /\ longer = [i \in 1..m |-> IF i = m THEN [ivs[m] EXCEPT !.end = end] ELSE ivs[i]]
            /\ m \in 1..m
            <3>1. m \in 1..m
                  BY <1>2, <1>9
            <3>2. longer = [i \in 1..m |-> IF i = m THEN [ivs[m] EXCEPT !.end = end] ELSE ivs[i]]
                  BY <1>2 DEF longer
            <3>3. QED
                  BY <3>1, <3>2
      <2> DEFINE last == [start |-> ivs[m].start, end |-> end, unaccounted |-> ivs[m].unaccounted]
      <2>3. /\ [ivs[m] EXCEPT !.end = end] = last
            /\ ivs[m].unaccounted \in BOOLEAN /\ ivs[m].start \in 0..(DayLen - 1)
            <3>1. \A iv \in TimeInterval :
                     /\ iv = [start |-> iv.start, end |-> iv.end, unaccounted |-> iv.unaccounted]
                     /\ iv.unaccounted \in BOOLEAN /\ iv.start \in 0..(DayLen - 1)
                  BY IntervalIs, Zenon
            <3>2. ivs[m] \in TimeInterval
                  BY <1>2, <2>2
            <3>3. QED
                  BY <3>1, <3>2
      <2>4. last \in TimeInterval
            <3>1. ivs[m].start < ivs[m].end /\ ivs[m].start \in Int /\ ivs[m].end \in Int
                  BY <1>2, <2>2
            <3>2. ivs[m].start < end /\ end \in 1..DayLen
                  BY <1>1, <1>3, <1>9, <3>1
            <3>3. QED
                  BY <2>3, <3>2 DEF TimeInterval
      <2>5. /\ longer[m] = last /\ \A i \in 1..m : i # m => longer[i] = ivs[i]
            /\ longer \in [1..m -> TimeInterval]
            BY <1>2, <2>2, <2>3, <2>4
      <2>6. longer \in Seq(TimeInterval) /\ Len(longer) = m
            BY <1>2, <2>5, LenProperties, SeqDef
      <2>7. last.start = ivs[m].start /\ last.end = end /\ last.unaccounted = ivs[m].unaccounted
            OBVIOUS
      <2> HIDE DEF longer, last
      <2>8. Maximal(longer)
            <3> SUFFICES ASSUME NEW i \in 1..(m - 1)
                         PROVE  \/ longer[i].end < longer[i + 1].start
                                \/ /\ longer[i].end = longer[i + 1].start
                                   /\ longer[i].unaccounted # longer[i + 1].unaccounted
                BY <2>6 DEF Maximal
            <3>1. i \in 1..m /\ i + 1 \in 1..m /\ i # m
                  BY <1>2
            <3>2. longer[i] = ivs[i] /\ longer[i + 1].start = ivs[i + 1].start
                  /\ longer[i + 1].unaccounted = ivs[i + 1].unaccounted
                  BY <2>5, <2>7, <3>1
            <3>3. QED
                  BY <1>2, <3>2 DEF Maximal
      <2>9. ASSUME NEW minute \in Times
            PROVE  Covers(last, minute) <=> Covers(ivs[m], minute) \/ Allows(r, minute)
            <3>1. /\ ivs[m].start \in Int /\ ivs[m].end \in Int /\ ivs[m].start < ivs[m].end
                  /\ minute \in Int
                  BY <1>2, <1>8, <2>2
            <3>2. Covers(last, minute) <=> ivs[m].start <= minute /\ minute < end
                  BY <2>7 DEF Covers
            <3>3. Covers(ivs[m], minute) <=> ivs[m].start <= minute /\ minute < start
                  BY <1>9 DEF Covers
            <3>4. Allows(r, minute) <=> start <= minute /\ minute < end
                  BY <1>8
            <3>5. start = ivs[m].end
                  BY <1>9
            <3>6. QED
                  BY <1>3, <3>1, <3>2, <3>3, <3>4, <3>5
      <2>10. ASSUME NEW minute \in Times, NEW i \in 1..m, Covers(longer[i], minute)
             PROVE  \E j \in 1..(k + 1) : /\ Allows(o[j], minute)
                                          /\ o[j].unaccounted = longer[i].unaccounted
             <3>1. \A a \in 1..m : Covers(ivs[a], minute) =>
                       \E j \in 1..(k + 1) : /\ Allows(o[j], minute)
                                             /\ o[j].unaccounted = ivs[a].unaccounted
                   <4>1. 1..k \subseteq 1..(k + 1)
                         BY <1>1
                   <4>2. QED
                         BY <4>1 DEF MadeOf
             <3>2. longer[i].unaccounted = ivs[i].unaccounted
                   BY <2>5, <2>7
             <3>3. CASE Covers(ivs[i], minute)
                   BY <3>1, <3>2, <3>3
             <3>4. CASE ~ Covers(ivs[i], minute)
                   <4>1. i = m /\ Allows(r, minute)
                         BY <2>5, <2>9, <2>10, <3>4
                   <4>2. k + 1 \in 1..(k + 1) /\ o[k + 1].unaccounted = longer[i].unaccounted
                         BY <1>1, <1>9, <3>2, <4>1 DEF r
                   <4>3. QED
                         BY <4>1, <4>2 DEF r
             <3>5. QED
                   BY <3>3, <3>4
      <2>11. ASSUME NEW minute \in Times, NEW j \in 1..(k + 1), Allows(o[j], minute)
             PROVE  \E i \in 1..m : Covers(longer[i], minute)
             <3>1. CASE j = k + 1
                   BY <2>2, <2>5, <2>9, <2>11, <3>1 DEF r
             <3>2. CASE j \in 1..k
                   <4>1. PICK i \in 1..m : Covers(ivs[i], minute)
                         BY <2>11, <3>2 DEF MadeOf
                   <4>2. Covers(longer[i], minute)
                         BY <2>5, <2>9, <4>1
                   <4>3. QED
                         BY <4>2
             <3>3. QED
                   BY <1>1, <3>1, <3>2
      <2>12. k + 1 > 0 /\ ~ k + 1 = 0
             BY <1>1
      <2>13. m > 0 /\ longer[m].end = Top(o[k + 1].hour) + o[k + 1].end
             /\ longer[m].unaccounted = o[k + 1].unaccounted
             BY <1>9, <2>5, <2>7 DEF end, r
      <2>14. MadeOf(longer, o, k + 1)
             BY <2>6, <2>8, <2>10, <2>11, <2>12, <2>13 DEF MadeOf
      <2>15. QED
             BY <2>1, <2>14 DEF r
<1>10. CASE ~ (m > 0 /\ start = ivs[m].end /\ r.unaccounted = ivs[m].unaccounted)
      <2> DEFINE more == Append(ivs, new)
      <2>1. WithRecord(ivs, r) = more
            BY <1>7, <1>10
      <2>2. /\ more \in Seq(TimeInterval) /\ Len(more) = m + 1 /\ more[m + 1] = new
            /\ \A i \in 1..m : more[i] = ivs[i]
            BY <1>2, <1>4, AppendProperties
      <2>3. new.start = start /\ new.end = end /\ new.unaccounted = r.unaccounted
            OBVIOUS
      <2> HIDE DEF more, new
      <2>4. Maximal(more)
            <3> SUFFICES ASSUME NEW i \in 1..m
                         PROVE  \/ more[i].end < more[i + 1].start
                                \/ /\ more[i].end = more[i + 1].start
                                   /\ more[i].unaccounted # more[i + 1].unaccounted
                <4>1. (m + 1) - 1 = m
                      BY <1>2
                <4>2. QED
                      BY <2>2, <4>1 DEF Maximal
            <3>1. CASE i = m
                  <4>1. more[i] = ivs[m] /\ more[i + 1] = new /\ m > 0 /\ ivs[m].end \in Int
                        BY <1>2, <2>2, <3>1
                  <4>2. ivs[m].end <= start
                        BY <1>6, <4>1
                  <4>3. ivs[m].end < start \/ ivs[m].end = start
                        BY <1>3, <4>1, <4>2
                  <4>4. QED
                        BY <1>10, <2>3, <4>1, <4>3
            <3>2. CASE i # m
                  <4>1. i \in 1..(m - 1) /\ i + 1 \in 1..m
                        <5>1. m \in Nat
                              BY <1>2
                        <5> HIDE DEF m
                        <5>2. QED
                              BY <3>2, <5>1
                  <4>2. more[i] = ivs[i] /\ more[i + 1] = ivs[i + 1]
                        BY <2>2, <4>1
                  <4>3. QED
                        BY <1>2, <4>1, <4>2 DEF Maximal
            <3>3. QED
                  BY <3>1, <3>2
      <2>5. ASSUME NEW minute \in Times
            PROVE  Covers(new, minute) <=> Allows(r, minute)
            BY <1>8, <2>3 DEF Covers
      <2>6. ASSUME NEW minute \in Times, NEW i \in 1..(m + 1), Covers(more[i], minute)
             PROVE  \E j \in 1..(k + 1) : /\ Allows(o[j], minute)
                                          /\ o[j].unaccounted = more[i].unaccounted
             <3>1. CASE i = m + 1
                   <4>1. k + 1 \in 1..(k + 1)
                         BY <1>1
                   <4>2. more[i] = new /\ Allows(r, minute)
                         BY <2>2, <2>5, <2>6, <3>1
                   <4>3. Allows(o[k + 1], minute) /\ o[k + 1].unaccounted = more[i].unaccounted
                         BY <2>3, <4>2 DEF r
                   <4>4. QED
                         BY <4>1, <4>3
             <3>2. CASE i \in 1..m
                   <4>1. \E j \in 1..k : /\ Allows(o[j], minute)
                                         /\ o[j].unaccounted = ivs[i].unaccounted
                         BY <2>2, <2>6, <3>2 DEF MadeOf
                   <4>2. 1..k \subseteq 1..(k + 1) /\ more[i] = ivs[i]
                         BY <1>1, <2>2, <3>2
                   <4>3. QED
                         BY <4>1, <4>2
             <3> HIDE DEF m
             <3>3. i \in 1..m \/ i = m + 1
                   BY <1>2
             <3>4. QED
                   BY <3>1, <3>2, <3>3
      <2>7. ASSUME NEW minute \in Times, NEW j \in 1..(k + 1), Allows(o[j], minute)
             PROVE  \E i \in 1..(m + 1) : Covers(more[i], minute)
             <3>1. CASE j = k + 1
                   <4>1. m + 1 \in 1..(m + 1)
                         BY <1>2
                   <4>2. Covers(more[m + 1], minute)
                         BY <2>2, <2>5, <2>7, <3>1 DEF r
                   <4>3. QED
                         BY <4>1, <4>2
             <3>2. CASE j \in 1..k
                   <4>1. PICK i \in 1..m : Covers(ivs[i], minute)
                         BY <2>7, <3>2 DEF MadeOf
                   <4>2. i \in 1..(m + 1) /\ more[i] = ivs[i]
                         BY <1>2, <2>2
                   <4>3. QED
                         BY <4>1, <4>2
             <3>3. QED
                   BY <1>1, <3>1, <3>2
      <2>8. k + 1 > 0 /\ ~ k + 1 = 0 /\ m + 1 > 0
             BY <1>1, <1>2
      <2>9. more[m + 1].end = Top(o[k + 1].hour) + o[k + 1].end
             /\ more[m + 1].unaccounted = o[k + 1].unaccounted
             BY <2>2, <2>3 DEF end, r
      <2>10. MadeOf(more, o, k + 1)
             BY <2>2, <2>4, <2>6, <2>7, <2>8, <2>9, SMTT(60) DEF MadeOf
      <2>11. QED
             BY <2>1, <2>10 DEF r
<1>11. QED
      BY <1>9, <1>10

\* hours_to_intervals gives back the minutes of a day's records, in intervals that
\* cannot be longer.
LEMMA MergedDay ==
    ASSUME NEW records, IsDay(records)
    PROVE  /\ HoursToIntervals(records) \in Seq(TimeInterval)
           /\ Maximal(HoursToIntervals(records))
           /\ Agree(HoursToIntervals(records), records)
<1> DEFINE n == Len(records)
           keys == [i \in DOMAIN records |-> records[i].hour]
           o == Sorted(records, keys)
<1>1. /\ records \in Seq(HourRecord) /\ n \in Nat /\ DOMAIN records = 1..n
      /\ \A i \in 1..n : records[i] \in HourRecord
      BY LenProperties, ElementOfSeq DEF IsDay
<1>2. keys \in [1..n -> Int] /\ \A i \in 1..n : keys[i] = records[i].hour
      <2>1. \A r \in HourRecord : r.hour \in Int
            BY RecordIs, Lengths
      <2>2. QED
            BY <1>1, <2>1
<1>3. PICK p \in [1..n -> 1..n] :
              /\ \A i, j \in 1..n : p[i] = p[j] => i = j
              /\ \A i, j \in 1..n : i < j => keys[p[i]] <= keys[p[j]]
              /\ \A k \in 1..n : \E i \in 1..n : p[i] = k
              /\ o = [i \in 1..n |-> records[p[i]]]
      <2> HIDE DEF keys
      <2>1. records \in Seq(HourRecord) /\ keys \in [1..Len(records) -> Int]
            BY <1>1, <1>2
      <2>2. \E p \in [1..Len(records) -> 1..Len(records)] :
              /\ \A i, j \in 1..Len(records) : p[i] = p[j] => i = j
              /\ \A i, j \in 1..Len(records) : i < j => keys[p[i]] <= keys[p[j]]
              /\ \A k \in 1..Len(records) : \E i \in 1..Len(records) : p[i] = k
              /\ Sorted(records, keys) = [i \in 1..Len(records) |-> records[p[i]]]
              /\ Sorted(records, keys) \in Seq(HourRecord)
              /\ Len(Sorted(records, keys)) = Len(records)
            BY <2>1, SortedIs, Zenon
      <2>3. QED
            BY <2>2, Zenon
<1>4. HoursToIntervals(records) = FoldLeft(WithRecord, << >>, o)
      BY DEF HoursToIntervals
<1> HIDE DEF n, o, keys
<1>5. o \in [1..n -> HourRecord] /\ DOMAIN o = 1..n /\ \A i \in 1..n : o[i] = records[p[i]]
      BY <1>1, <1>3
<1>6. ASSUME NEW k \in 1..(n - 1) PROVE o[k].hour < o[k + 1].hour
      <2>1. k \in 1..n /\ k + 1 \in 1..n /\ k < k + 1 /\ k # k + 1
            BY <1>1
      <2>2. p[k] \in 1..n /\ p[k + 1] \in 1..n /\ p[k] # p[k + 1] /\ keys[p[k]] <= keys[p[k + 1]]
            BY <1>3, <2>1
      <2>3. keys[p[k]] # keys[p[k + 1]]
            BY <1>1, <1>2, <2>2 DEF IsDay, DistinctHours
      <2>4. keys[p[k]] \in Int /\ keys[p[k + 1]] \in Int
            BY <1>2, <2>2
      <2>5. o[k].hour = keys[p[k]] /\ o[k + 1].hour = keys[p[k + 1]]
            BY <1>2, <1>5, <2>1, <2>2
      <2>6. \A a, b \in Int : a <= b /\ a # b => a < b
            OBVIOUS
      <2>7. QED
            BY <2>2, <2>3, <2>4, <2>5, <2>6
<1>7. PICK acc : /\ acc[0] = << >>
                 /\ \A k \in 0..(n - 1) : acc[k + 1] = WithRecord(acc[k], o[k + 1])
                 /\ FoldLeft(WithRecord, << >>, o) = acc[n]
      BY <1>1, <1>5, LoopIs
<1> DEFINE S == {k \in 0..n : MadeOf(acc[k], o, k)}
<1>8. 0 \in S
      <2>1. << >> \in Seq(TimeInterval) /\ Len(<< >>) = 0 /\ 1..0 = {} /\ 1..(0 - 1) = {}
            OBVIOUS
      <2>2. Maximal(<< >>)
            BY <2>1 DEF Maximal
      <2>3. MadeOf(<< >>, o, 0)
            BY <2>1, <2>2 DEF MadeOf
      <2>4. QED
            BY <1>1, <1>7, <2>3
<1>9. ASSUME NEW k \in 0..(n - 1), k \in S PROVE k + 1 \in S
      <2>1. k + 1 \in 0..n /\ (k > 0 => k \in 1..(n - 1))
            BY <1>1
      <2>2. MadeOf(acc[k], o, k) /\ (k > 0 => o[k].hour < o[k + 1].hour)
            BY <1>6, <1>9, <2>1
      <2>3. MadeOf(WithRecord(acc[k], o[k + 1]), o, k + 1)
            BY <1>1, <1>5, <2>2, OneTurn
      <2>4. QED
            BY <1>7, <2>1, <2>3
<1>10. n \in S
      <2> HIDE DEF S
      <2>1. 0..n \subseteq S
            BY <1>1, <1>8, <1>9, StepByStep
      <2>2. n \in 0..n
            BY <1>1
      <2>3. QED
            BY <2>1, <2>2
<1> DEFINE ivs == HoursToIntervals(records)
<1>11. MadeOf(ivs, o, n)
      BY <1>4, <1>7, <1>10
<1> HIDE DEF ivs, S
<1>12. ivs \in Seq(TimeInterval) /\ Maximal(ivs) /\ DOMAIN ivs = 1..Len(ivs)
      BY <1>11, LenProperties DEF MadeOf
<1>13. ASSUME NEW minute \in Times, NEW i \in DOMAIN ivs, Covers(ivs[i], minute)
       PROVE  \E j \in DOMAIN records : /\ Allows(records[j], minute)
                                        /\ records[j].unaccounted = ivs[i].unaccounted
       <2>1. PICK j \in 1..n : Allows(o[j], minute) /\ o[j].unaccounted = ivs[i].unaccounted
             BY <1>11, <1>12, <1>13 DEF MadeOf
       <2>2. QED
             BY <1>1, <1>3, <1>5, <2>1
<1>14. ASSUME NEW minute \in Times, NEW j \in DOMAIN records, Allows(records[j], minute)
       PROVE  \E i \in DOMAIN ivs : Covers(ivs[i], minute)
       <2>1. PICK i \in 1..n : p[i] = j
             BY <1>1, <1>3
       <2>2. Allows(o[i], minute)
             BY <1>5, <1>14, <2>1
       <2>3. QED
             BY <1>11, <1>12, <2>2 DEF MadeOf
<1>15. Agree(ivs, records)
      BY <1>13, <1>14 DEF Agree
<1>16. QED
      BY <1>12, <1>15 DEF ivs

-----------------------------------------------------------------------------
\* A set in a list: every element once.
LEMMA ListedIs ==
    ASSUME NEW S, IsFiniteSet(S)
    PROVE  /\ SetToSeq(S) \in Seq(S) /\ Cardinality(S) \in Nat
           /\ DOMAIN SetToSeq(S) = 1..Cardinality(S) /\ Len(SetToSeq(S)) = Cardinality(S)
           /\ \A i, j \in 1..Cardinality(S) : SetToSeq(S)[i] = SetToSeq(S)[j] => i = j
           /\ \A x \in S : \E i \in 1..Cardinality(S) : SetToSeq(S)[i] = x
<1> DEFINE n == Cardinality(S)
           list == SetToSeq(S)
<1>1. n \in Nat /\ ExistsBijection(1..n, S)
      BY FS_CardinalityType
<1>2. \E f \in [1..n -> S] : IsInjective(f)
      BY <1>1 DEF ExistsBijection, Bijection, Injection, IsInjective
<1>3. list \in [1..n -> S] /\ IsInjective(list)
      BY <1>2 DEF SetToSeq
<1> HIDE DEF n, list
<1>4. list \in Seq(S) /\ DOMAIN list = 1..n /\ Len(list) = n
      BY <1>1, <1>3, LenProperties, SeqDef
<1>5. list \in Injection(1..n, S)
      BY <1>3 DEF Injection, IsInjective
<1>6. list \in Surjection(1..n, S)
      <2>1. Cardinality(1..n) = n
            BY <1>1, FS_Interval
      <2>2. QED
            BY <1>5, <2>1, FS_Injection DEF n
<1>7. \A x \in S : \E i \in 1..n : list[i] = x
      BY <1>6 DEF Surjection
<1>8. \A i, j \in 1..n : list[i] = list[j] => i = j
      BY <1>3, <1>4 DEF IsInjective
<1>9. QED
      BY <1>1, <1>4, <1>7, <1>8 DEF n, list

\* The records of chosen hours.
Chosen(hours, free) ==
    LET some == SetToSeq(hours)
        ordered == Sorted(some, some)
    IN  [i \in 1..Len(ordered) |-> [hour |-> ordered[i], start |-> 0, end |-> HourLen,
                                    unaccounted |-> free]]

\* They are a day, and allow the chosen hours alone.
LEMMA ChosenDay ==
    ASSUME NEW hours \in SUBSET (0..(HoursInDay - 1)), NEW free \in BOOLEAN
    PROVE  /\ IsDay(Chosen(hours, free)) /\ (hours # {} => Chosen(hours, free) # << >>)
           /\ \A minute \in Times :
                 DeviceMinutes(Chosen(hours, free))[minute]
                   = IF minute \div HourLen \in hours THEN Allowed(free) ELSE "forbidden"
<1> DEFINE some == SetToSeq(hours)
           n == Cardinality(hours)
           ordered == Sorted(some, some)
           records == Chosen(hours, free)
<1>1. IsFiniteSet(hours)
      <2>1. IsFiniteSet(0..(HoursInDay - 1))
            <3>1. HoursInDay - 1 \in Int /\ 0 \in Int
                  BY Lengths
            <3>2. QED
                  BY <3>1, FS_Interval
      <2>2. QED
            BY <2>1, FS_Subset
<1>2. /\ some \in Seq(hours) /\ n \in Nat /\ DOMAIN some = 1..n /\ Len(some) = n
      /\ \A i, j \in 1..n : some[i] = some[j] => i = j
      /\ \A x \in hours : \E i \in 1..n : some[i] = x
      BY <1>1, ListedIs
<1> HIDE DEF some, n
<1>3. some \in [1..Len(some) -> Int]
      <2>1. \A i \in 1..n : some[i] \in hours
            BY <1>2, ElementOfSeq
      <2>2. hours \subseteq Int
            BY Lengths
      <2>3. some = [i \in 1..n |-> some[i]]
            BY <1>2
      <2>4. QED
            BY <1>2, <2>1, <2>2, <2>3
<1>4. \E p \in [1..Len(some) -> 1..Len(some)] :
              /\ \A i, j \in 1..Len(some) : p[i] = p[j] => i = j
              /\ \A i, j \in 1..Len(some) : i < j => some[p[i]] <= some[p[j]]
              /\ \A k \in 1..Len(some) : \E i \in 1..Len(some) : p[i] = k
              /\ Sorted(some, some) = [i \in 1..Len(some) |-> some[p[i]]]
              /\ Sorted(some, some) \in Seq(hours) /\ Len(Sorted(some, some)) = Len(some)
      BY <1>2, <1>3, SortedIs, Zenon
<1>5. PICK p \in [1..n -> 1..n] :
              /\ \A i, j \in 1..n : p[i] = p[j] => i = j
              /\ \A k \in 1..n : \E i \in 1..n : p[i] = k
              /\ ordered = [i \in 1..n |-> some[p[i]]]
              /\ ordered \in Seq(hours) /\ Len(ordered) = n
      <2>1. PICK q \in [1..Len(some) -> 1..Len(some)] :
              /\ \A i, j \in 1..Len(some) : q[i] = q[j] => i = j
              /\ \A k \in 1..Len(some) : \E i \in 1..Len(some) : q[i] = k
              /\ ordered = [i \in 1..Len(some) |-> some[q[i]]]
              /\ ordered \in Seq(hours) /\ Len(ordered) = Len(some)
            BY <1>4, Zenon
      <2> HIDE DEF ordered
      <2>2. /\ q \in [1..n -> 1..n]
            /\ \A i, j \in 1..n : q[i] = q[j] => i = j
            /\ \A k \in 1..n : \E i \in 1..n : q[i] = k
            /\ ordered = [i \in 1..n |-> some[q[i]]]
            /\ ordered \in Seq(hours) /\ Len(ordered) = n
            BY <1>2, <2>1
      <2>3. QED
            BY <2>2, Zenon
<1>6. records = [i \in 1..n |-> [hour |-> ordered[i], start |-> 0, end |-> HourLen,
                                 unaccounted |-> free]]
      BY <1>5 DEF Chosen, some
<1> HIDE DEF ordered, records
<1>7. \A i \in 1..n : ordered[i] \in hours /\ ordered[i] = some[p[i]]
      BY <1>2, <1>5, ElementOfSeq
<1>8. \A x \in hours : \E i \in 1..n : ordered[i] = x
      <2> SUFFICES ASSUME NEW x \in hours PROVE \E i \in 1..n : ordered[i] = x
          OBVIOUS
      <2>1. PICK k \in 1..n : some[k] = x
            BY <1>2
      <2>2. PICK i \in 1..n : p[i] = k
            BY <1>5
      <2>3. QED
            BY <1>7, <2>1, <2>2
<1>9. \A i, j \in 1..n : ordered[i] = ordered[j] => i = j
      <2>1. \A i \in 1..n : p[i] \in 1..n
            BY <1>5
      <2>2. ASSUME NEW i \in 1..n, NEW j \in 1..n, ordered[i] = ordered[j] PROVE i = j
            <3>1. some[p[i]] = some[p[j]]
                  BY <1>7, <2>2
            <3>2. p[i] = p[j]
                  BY <1>2, <2>1, <3>1
            <3>3. QED
                  BY <1>5, <3>2
      <2>3. QED
            BY <2>2
<1>10. /\ DOMAIN records = 1..n
       /\ \A i \in 1..n : /\ records[i] \in HourRecord
                          /\ records[i].hour = ordered[i] /\ records[i].unaccounted = free
                          /\ records[i].start = 0 /\ records[i].end = HourLen
       <2>1. /\ DOMAIN records = 1..n
             /\ \A i \in 1..n : /\ records[i] = [hour |-> ordered[i], start |-> 0, end |-> HourLen,
                                                 unaccounted |-> free]
                                /\ records[i].hour = ordered[i] /\ records[i].unaccounted = free
                                /\ records[i].start = 0 /\ records[i].end = HourLen
             BY <1>6
       <2>2. 0 \in 0..(HourLen - 1) /\ HourLen \in 1..HourLen /\ 0 < HourLen
             BY Lengths
       <2>3. \A hour \in hours : [hour |-> hour, start |-> 0, end |-> HourLen, unaccounted |-> free]
                                   \in HourRecord
             BY <2>2 DEF HourRecord
       <2>4. QED
             BY <1>7, <2>1, <2>3
<1>11. IsDay(records)
       <2>1. records = [i \in 1..n |-> records[i]]
             BY <1>6, <1>10
       <2>2. records \in [1..n -> HourRecord]
             BY <1>10, <2>1
       <2>3. records \in Seq(HourRecord)
             BY <1>2, <2>2, SeqDef
       <2>4. DistinctHours(records)
             BY <1>9, <1>10 DEF DistinctHours
       <2>5. QED
             BY <2>3, <2>4 DEF IsDay
<1>12. ASSUME NEW minute \in Times, NEW i \in 1..n
       PROVE  Allows(records[i], minute) <=> minute \div HourLen = ordered[i]
       <2>1. Allows(records[i], minute) <=> /\ minute \div HourLen = ordered[i]
                                            /\ 0 <= minute % HourLen
                                            /\ minute % HourLen < HourLen
             BY <1>10, AllowsInItsHour
       <2>2. \A a \in Int, b \in Nat \ {0} : 0 <= a % b /\ a % b < b
             OBVIOUS
       <2>3. minute \in Int
             BY Lengths DEF Times
       <2>4. QED
             BY <2>1, <2>2, <2>3, Lengths
<1>13. ASSUME NEW minute \in Times
       PROVE  DeviceMinutes(records)[minute]
                = IF minute \div HourLen \in hours THEN Allowed(free) ELSE "forbidden"
       <2>1. CASE minute \div HourLen \in hours
             <3>1. PICK i \in 1..n : ordered[i] = minute \div HourLen
                   BY <1>8, <2>1
             <3>2. Allows(records[i], minute)
                   BY <1>12, <3>1
             <3>3. DeviceMinutes(records)[minute] = Allowed(free)
                   <4>1. \A j \in DOMAIN records : Allows(records[j], minute) =>
                             DeviceMinutes(records)[minute] = Allowed(records[j].unaccounted)
                         BY <1>11, DeviceMinuteIs
                   <4>2. i \in DOMAIN records /\ records[i].unaccounted = free
                         BY <1>10
                   <4>3. QED
                         BY <3>2, <4>1, <4>2
             <3>4. QED
                   BY <2>1, <3>3
       <2>2. CASE minute \div HourLen \notin hours
             <3>1. \A i \in DOMAIN records : ~ Allows(records[i], minute)
                   BY <1>7, <1>10, <1>12, <2>2
             <3>2. DeviceMinutes(records)[minute] = "forbidden"
                   BY <1>11, <3>1, DeviceMinuteIs
             <3>3. QED
                   BY <2>2, <3>2
       <2>3. QED
             BY <2>1, <2>2
<1>14. hours # {} => records # << >>
       <2>1. hours # {} => DOMAIN records # {}
             BY <1>8, <1>10
       <2>2. DOMAIN << >> = {}
             OBVIOUS
       <2>3. QED
             BY <2>1, <2>2, Zenon
<1>15. QED
       BY <1>11, <1>13, <1>14 DEF records

\* Where nothing is covered nothing is recorded, and the other way about.
LEMMA EmptyTogether ==
    ASSUME NEW ivs \in Seq(TimeInterval), NEW records \in Seq(HourRecord), Agree(ivs, records)
    PROVE  ivs = << >> <=> records = << >>
<1>1. ASSUME ivs # << >> PROVE records # << >>
      <2>1. 1 \in DOMAIN ivs /\ ivs[1] \in TimeInterval
            BY <1>1, EmptySeq, LenProperties, ElementOfSeq
      <2>2. ivs[1].start \in Times /\ Covers(ivs[1], ivs[1].start)
            BY <2>1, IntervalIs, Lengths DEF Times, Covers
      <2>3. \E j \in DOMAIN records : TRUE
            BY <2>1, <2>2 DEF Agree
      <2>4. QED
            BY <2>3
<1>2. ASSUME records # << >> PROVE ivs # << >>
      <2> DEFINE r == records[1]
                 minute == Top(r.hour) + r.start
      <2>1. 1 \in DOMAIN records /\ r \in HourRecord
            BY <1>2, EmptySeq, LenProperties, ElementOfSeq
      <2>2. /\ r.hour \in 0..(HoursInDay - 1) /\ r.start \in 0..(HourLen - 1) /\ r.end \in 1..HourLen
            /\ r.start < r.end /\ Top(r.hour) \in Int
            BY <2>1, RecordIs
      <2> HIDE DEF r
      <2>3. 0 <= Top(r.hour) /\ Top(r.hour) + HourLen <= DayLen
            BY <2>2, TopInDay
      <2>4. minute \in Times /\ Allows(r, minute)
            BY <2>2, <2>3, Lengths, SMTT(60) DEF Times, Allows
      <2>5. \E i \in DOMAIN ivs : TRUE
            BY <2>1, <2>4 DEF Agree, r
      <2>6. QED
            BY <2>5
<1>3. QED
      BY <1>1, <1>2

\* A day of records says of each minute one of three things.
LEMMA DeviceMinutesAre ==
    ASSUME NEW records, IsDay(records)
    PROVE  DeviceMinutes(records) \in Minutes
<1>1. ASSUME NEW minute \in Times
      PROVE  DeviceMinutes(records)[minute] \in {"forbidden", "counted", "free"}
      <2>1. CASE \E j \in DOMAIN records : Allows(records[j], minute)
            <3>1. \E j \in DOMAIN records : DeviceMinutes(records)[minute] = Allowed(records[j].unaccounted)
                  BY <2>1, DeviceMinuteIs
            <3>2. QED
                  BY <3>1 DEF Allowed
      <2>2. CASE ~ \E j \in DOMAIN records : Allows(records[j], minute)
            BY <2>2, DeviceMinuteIs
      <2>3. QED
            BY <2>1, <2>2
<1>2. DeviceMinutes(records) = [minute \in Times |-> DeviceMinutes(records)[minute]]
      BY MinutesTyped
<1>3. QED
      BY <1>1, <1>2 DEF Minutes

-----------------------------------------------------------------------------
\* What a single interval, the whole day and no entry at all come to.
LEMMA WindowMinutes ==
    ASSUME NEW iv \in TimeInterval
    PROVE  IntervalMinutes(<<iv>>)
             = [minute \in Times |->
                  IF Covers(iv, minute) THEN Allowed(iv.unaccounted) ELSE "forbidden"]
<1> DEFINE one == <<iv>>
<1>1. DOMAIN one = {1} /\ one[1] = iv
      OBVIOUS
<1> HIDE DEF one
<1>2. ASSUME NEW minute \in Times
      PROVE  IntervalMinutes(one)[minute]
               = IF Covers(iv, minute) THEN Allowed(iv.unaccounted) ELSE "forbidden"
      <2> DEFINE covering == {i \in DOMAIN one : one[i].start <= minute /\ minute < one[i].end}
      <2>1. IntervalMinutes(one)[minute]
              = IF covering = {} THEN "forbidden"
                ELSE Allowed(one[CHOOSE i \in covering : TRUE].unaccounted)
            BY DEF IntervalMinutes, Times
      <2>2. covering = IF Covers(iv, minute) THEN {1} ELSE {}
            BY <1>1 DEF Covers
      <2> HIDE DEF covering
      <2>3. CASE Covers(iv, minute)
            <3>1. covering = {1} /\ covering # {}
                  BY <2>2, <2>3
            <3>2. (CHOOSE i \in covering : TRUE) = 1
                  BY <3>1
            <3>3. QED
                  BY <1>1, <2>1, <2>3, <3>1, <3>2
      <2>4. CASE ~ Covers(iv, minute)
            BY <2>1, <2>2, <2>4
      <2>5. QED
            BY <2>3, <2>4
<1>3. IntervalMinutes(one) = [minute \in Times |-> IntervalMinutes(one)[minute]]
      BY MinutesTyped
<1>4. QED
      BY <1>2, <1>3 DEF one

\* The records of one window, on a device, are the window.
LEMMA WindowDay ==
    ASSUME NEW iv \in TimeInterval
    PROVE  /\ IsDay(IntervalsToHours(<<iv>>))
           /\ DeviceMinutes(IntervalsToHours(<<iv>>)) = IntervalMinutes(<<iv>>)
           /\ IntervalsToHours(<<iv>>) # << >>
<1>1. <<iv>> \in Seq(TimeInterval) /\ Valid(<<iv>>) /\ <<iv>> # << >>
      BY OneIsValid
<1>2. IsDay(IntervalsToHours(<<iv>>)) /\ Agree(<<iv>>, IntervalsToHours(<<iv>>))
      BY <1>1, ExpandedDay
<1>3. IntervalsToHours(<<iv>>) # << >>
      BY <1>1, <1>2, EmptyTogether DEF IsDay
<1>4. QED
      BY <1>2, <1>3, SameMinutes

\* No restriction.
Counted == [minute \in Times |-> "counted"]

\* No restriction, as an interval and as records, counts every minute.
LEMMA WholeDay ==
    /\ Unrestricted \in Seq(TimeInterval) /\ Len(Unrestricted) = 1 /\ Unrestricted[1] \in TimeInterval
    /\ Unrestricted = <<Unrestricted[1]>> /\ IntervalMinutes(Unrestricted) = Counted
    /\ IsDay(Anytime) /\ DeviceMinutes(Anytime) = Counted /\ Anytime # << >>
<1> DEFINE iv == [start |-> 0, end |-> DayLen, unaccounted |-> FALSE]
<1>1. iv \in TimeInterval
      BY Lengths DEF TimeInterval
<1>2. iv.start = 0 /\ iv.end = DayLen /\ iv.unaccounted = FALSE /\ Unrestricted = <<iv>>
      BY DEF Unrestricted
<1> HIDE DEF iv
<1>3. <<iv>> \in Seq(TimeInterval) /\ Len(<<iv>>) = 1 /\ <<iv>>[1] = iv
      BY <1>1, OneIsValid
<1>4. \A minute \in Times : Covers(iv, minute) /\ Allowed(iv.unaccounted) = "counted"
      BY <1>2, Lengths DEF Covers, Times, Allowed
<1>5. IntervalMinutes(<<iv>>)
        = [minute \in Times |->
             IF Covers(iv, minute) THEN Allowed(iv.unaccounted) ELSE "forbidden"]
      BY <1>1, WindowMinutes
<1>6. IntervalMinutes(<<iv>>) = Counted
      BY <1>4, <1>5 DEF Counted
<1>7. /\ IsDay(IntervalsToHours(<<iv>>)) /\ IntervalsToHours(<<iv>>) # << >>
      /\ DeviceMinutes(IntervalsToHours(<<iv>>)) = IntervalMinutes(<<iv>>)
      BY <1>1, WindowDay
<1>8. QED
      BY <1>1, <1>2, <1>3, <1>6, <1>7 DEF Anytime

\* A day of records is neither "not set" nor a refusal.
LEMMA NoSentinel ==
    \A records : IsDay(records) => records # Unset /\ records # Rejected
BY PolicyEditorAssumption DEF IsDay

\* What a window and the whole day say is a day of minutes.
LEMMA MinutesAre ==
    /\ \A unaccounted : Allowed(unaccounted) \in {"forbidden", "counted", "free"}
    /\ \A iv \in TimeInterval : IntervalMinutes(<<iv>>) \in Minutes
    /\ Counted \in Minutes
<1>1. \A unaccounted : Allowed(unaccounted) \in {"forbidden", "counted", "free"}
      BY DEF Allowed
<1>2. ASSUME NEW iv \in TimeInterval PROVE IntervalMinutes(<<iv>>) \in Minutes
      <2>1. IntervalMinutes(<<iv>>)
              = [minute \in Times |->
                   IF Covers(iv, minute) THEN Allowed(iv.unaccounted) ELSE "forbidden"]
            BY WindowMinutes
      <2>2. QED
            BY <1>1, <2>1 DEF Minutes
<1>3. Counted \in Minutes
      BY DEF Counted, Minutes
<1>4. QED
      BY <1>1, <1>2, <1>3

-----------------------------------------------------------------------------
\* What a form says, mode by mode.
LEMMA FormSays ==
    ASSUME NEW form
    PROVE  /\ form.mode = "all" => FormMinutes(form) = Counted
           /\ form.mode = "between" =>
                FormMinutes(form)
                  = [minute \in Times |->
                       IF form.from <= minute /\ minute < form.to THEN "counted" ELSE "forbidden"]
           /\ form.mode = "custom" =>
                FormMinutes(form)
                  = [minute \in Times |->
                       IF minute \div HourLen \in form.hours THEN Allowed(form.free)
                       ELSE "forbidden"]
<1> DEFINE said(minute) ==
             CASE form.mode = "all" -> "counted"
               [] form.mode = "between" ->
                    IF form.from <= minute /\ minute < form.to THEN "counted" ELSE "forbidden"
               [] form.mode = "custom" ->
                    IF minute \div HourLen \in form.hours THEN Allowed(form.free) ELSE "forbidden"
<1>1. FormMinutes(form) = [minute \in Times |-> said(minute)]
      BY DEF FormMinutes
<1>2. CASE form.mode = "all"
      BY <1>1, <1>2 DEF Counted
<1>3. CASE form.mode = "between"
      BY <1>1, <1>3
<1>4. CASE form.mode = "custom"
      BY <1>1, <1>4
<1>5. QED
      BY <1>2, <1>3, <1>4

\* A form is answered with an error when a field it needs is empty; otherwise the records
\* it becomes say on a device what the form says.
LEMMA ParsedForm ==
    ASSUME NEW form \in Form
    PROVE  /\ Parse(form) # Rejected =>
                /\ IsDay(Parse(form)) /\ Parse(form) # << >>
                /\ DeviceMinutes(Parse(form)) = FormMinutes(form)
           /\ Parse(form) = Rejected <=>
                \/ /\ form.mode = "between"
                   /\ Blank \in {form.from, form.to} \/ form.from >= form.to
                \/ form.mode = "custom" /\ form.hours = {}
           /\ FormMinutes(form) \in Minutes
<1> DEFINE mode == form.mode
<1>1. /\ mode \in {"all", "between", "custom"} /\ form.from \in Times \cup {Blank}
      /\ form.to \in Times \cup {Blank} /\ form.hours \in SUBSET (0..(HoursInDay - 1))
      /\ form.free \in BOOLEAN
      BY DEF Form
<1>2. CASE mode = "all"
      <2>1. Parse(form) = Anytime
            BY <1>2 DEF Parse
      <2>2. FormMinutes(form) = Counted
            BY <1>2, FormSays
      <2>3. QED
            BY <1>2, <2>1, <2>2, WholeDay, NoSentinel, MinutesAre
<1>3. CASE mode = "between"
      <2> DEFINE iv == [start |-> form.from, end |-> form.to, unaccounted |-> FALSE]
                 empty == Blank \in {form.from, form.to} \/ form.from >= form.to
      <2>1. Parse(form) = IF empty THEN Rejected ELSE IntervalsToHours(<<iv>>)
            BY <1>3 DEF Parse
      <2>2. FormMinutes(form)
              = [minute \in Times |->
                   IF form.from <= minute /\ minute < form.to THEN "counted" ELSE "forbidden"]
            BY <1>3, FormSays
      <2>3. FormMinutes(form) \in Minutes
            BY <2>2 DEF Minutes
      <2>4. CASE empty
            BY <1>3, <2>1, <2>3, <2>4
      <2>5. CASE ~ empty
            <3>1. form.from \in Times /\ form.to \in Times /\ form.from < form.to
                  <4>1. form.from \in Times /\ form.to \in Times
                        BY <1>1, <2>5
                  <4>2. \A a, b \in Times : ~ a >= b => a < b
                        BY Lengths DEF Times
                  <4>3. QED
                        BY <2>5, <4>1, <4>2
            <3>2. iv \in TimeInterval
                  BY <3>1, Lengths DEF TimeInterval, Times
            <3>3. iv.start = form.from /\ iv.end = form.to /\ iv.unaccounted = FALSE
                  OBVIOUS
            <3> HIDE DEF iv
            <3>4. /\ IsDay(Parse(form)) /\ Parse(form) # << >>
                  /\ DeviceMinutes(Parse(form)) = IntervalMinutes(<<iv>>)
                  BY <2>1, <2>5, <3>2, WindowDay
            <3>5. IntervalMinutes(<<iv>>)
                    = [minute \in Times |->
                         IF Covers(iv, minute) THEN Allowed(iv.unaccounted) ELSE "forbidden"]
                  BY <3>2, WindowMinutes
            <3>6. IntervalMinutes(<<iv>>) = FormMinutes(form)
                  BY <2>2, <3>3, <3>5 DEF Covers, Allowed
            <3>7. QED
                  BY <1>3, <2>3, <2>5, <3>4, <3>6, NoSentinel
      <2>6. QED
            BY <2>4, <2>5
<1>4. CASE mode = "custom"
      <2>1. Parse(form) = IF form.hours = {} THEN Rejected ELSE Chosen(form.hours, form.free)
            BY <1>4 DEF Parse, Chosen
      <2>2. FormMinutes(form)
              = [minute \in Times |->
                   IF minute \div HourLen \in form.hours THEN Allowed(form.free) ELSE "forbidden"]
            BY <1>4, FormSays
      <2>3. FormMinutes(form) \in Minutes
            BY <2>2, MinutesAre DEF Minutes
      <2>4. CASE form.hours = {}
            BY <1>4, <2>1, <2>3, <2>4
      <2>5. CASE form.hours # {}
            <3> DEFINE records == Chosen(form.hours, form.free)
            <3>1. /\ IsDay(records) /\ records # << >>
                  /\ \A minute \in Times :
                        DeviceMinutes(records)[minute]
                          = IF minute \div HourLen \in form.hours THEN Allowed(form.free)
                            ELSE "forbidden"
                  BY <1>1, <2>5, ChosenDay
            <3> HIDE DEF records
            <3>2. DeviceMinutes(records) = [minute \in Times |-> DeviceMinutes(records)[minute]]
                  BY MinutesTyped
            <3>3. DeviceMinutes(records) = FormMinutes(form)
                  BY <2>2, <3>1, <3>2
            <3>4. Parse(form) = records
                  BY <2>1, <2>5 DEF records
            <3>5. QED
                  BY <1>4, <2>3, <2>5, <3>1, <3>3, <3>4, NoSentinel
      <2>6. QED
            BY <2>4, <2>5
<1>5. QED
      BY <1>1, <1>2, <1>3, <1>4

-----------------------------------------------------------------------------
\* The forms a page shows are forms it can send.
LEMMA FormsAre ==
    /\ AllDay \in Form /\ AllDay.mode = "all"
    /\ \A from \in Times, to \in Times \cup {Blank} :
          /\ Between(from, to) \in Form /\ Between(from, to).mode = "between"
          /\ Between(from, to).from = from /\ Between(from, to).to = to
    /\ \A hours \in SUBSET (0..(HoursInDay - 1)), free \in BOOLEAN :
          /\ Custom(hours, free) \in Form /\ Custom(hours, free).mode = "custom"
          /\ Custom(hours, free).hours = hours /\ Custom(hours, free).free = free
<1>1. 0 \in Times
      BY Lengths DEF Times
<1>2. AllDay \in Form /\ AllDay.mode = "all"
      BY <1>1 DEF AllDay, Form
<1>3. ASSUME NEW from \in Times, NEW to \in Times \cup {Blank}
      PROVE  /\ Between(from, to) \in Form /\ Between(from, to).mode = "between"
             /\ Between(from, to).from = from /\ Between(from, to).to = to
      BY <1>2 DEF Between, Form
<1>4. ASSUME NEW hours \in SUBSET (0..(HoursInDay - 1)), NEW free \in BOOLEAN
      PROVE  /\ Custom(hours, free) \in Form /\ Custom(hours, free).mode = "custom"
             /\ Custom(hours, free).hours = hours /\ Custom(hours, free).free = free
      BY <1>2 DEF Custom, Form
<1>5. QED
      BY <1>2, <1>3, <1>4

\* What a page reads off records for its hour grid.
HoursOf(records) == {records[i].hour : i \in DOMAIN records}
AllFree(records) == records # << >> /\ \A i \in DOMAIN records : records[i].unaccounted

\* What a page opens with, case by case.
LEMMA ClassifiedIs ==
    ASSUME NEW records, IsDay(records)
    PROVE  LET merged == HoursToIntervals(records)
               custom == Custom(HoursOf(records), AllFree(records))
           IN  /\ HoursOf(records) \in SUBSET (0..(HoursInDay - 1)) /\ AllFree(records) \in BOOLEAN
               /\ Classify(records)
                    = IF Len(merged) # 1 THEN custom
                      ELSE IF merged[1].start = 0 /\ merged[1].end = DayLen THEN AllDay
                      ELSE IF ~ merged[1].unaccounted
                      THEN Between(merged[1].start, TimeField(merged[1].end))
                      ELSE custom
<1> DEFINE merged == HoursToIntervals(records)
           custom == Custom(HoursOf(records), AllFree(records))
<1>1. records # Unset
      BY NoSentinel
<1>2. HoursOf(records) \in SUBSET (0..(HoursInDay - 1)) /\ AllFree(records) \in BOOLEAN
      <2>1. \A i \in DOMAIN records : records[i] \in HourRecord
            BY LenProperties, ElementOfSeq DEF IsDay
      <2>2. \A r \in HourRecord : r.hour \in 0..(HoursInDay - 1)
            BY RecordIs
      <2>3. QED
            BY <2>1, <2>2 DEF HoursOf, AllFree
<1>3. Classify(records)
        = IF Len(merged) # 1 THEN custom
          ELSE IF merged[1].start = 0 /\ merged[1].end = DayLen THEN AllDay
          ELSE IF ShowsAsWindow(merged[1])
          THEN Between(merged[1].start, TimeField(merged[1].end))
          ELSE custom
      BY <1>1, Zenon DEF Classify, HoursOf, AllFree
<1> HIDE DEF merged, custom
<1>4. QED
      BY <1>2, <1>3 DEF merged, custom, ShowsAsWindow

\* A page opens with a form it can send.
LEMMA ClassifiedForm ==
    ASSUME NEW records, records = Unset \/ IsDay(records)
    PROVE  Classify(records) \in Form
<1>1. CASE records = Unset
      BY <1>1, FormsAre DEF Classify
<1>2. CASE IsDay(records)
      <2> DEFINE merged == HoursToIntervals(records)
                 custom == Custom(HoursOf(records), AllFree(records))
      <2>1. custom \in Form
            BY <1>2, ClassifiedIs, FormsAre
      <2>2. merged \in Seq(TimeInterval)
            BY <1>2, MergedDay
      <2>3. Len(merged) = 1 => Between(merged[1].start, TimeField(merged[1].end)) \in Form
            <3> SUFFICES ASSUME Len(merged) = 1
                         PROVE  Between(merged[1].start, TimeField(merged[1].end)) \in Form
                OBVIOUS
            <3> HIDE DEF merged
            <3>1. merged[1] \in TimeInterval
                  BY <2>2, ElementOfSeq
            <3>2. merged[1].start \in Times /\ TimeField(merged[1].end) \in Times \cup {Blank}
                  BY <3>1, IntervalIs, Lengths DEF Times, TimeField
            <3>3. QED
                  BY <3>2, FormsAre
      <2>4. Classify(records)
              = IF Len(merged) # 1 THEN custom
                ELSE IF merged[1].start = 0 /\ merged[1].end = DayLen THEN AllDay
                ELSE IF ~ merged[1].unaccounted
                THEN Between(merged[1].start, TimeField(merged[1].end))
                ELSE custom
            BY <1>2, ClassifiedIs
      <2> HIDE DEF merged, custom
      <2>5. QED
            BY <2>1, <2>3, <2>4, FormsAre
<1>3. QED
      BY <1>1, <1>2

-----------------------------------------------------------------------------
(***************************************************************************)
(* The invariant: one record an hour at most, whichever way the hours came;*)
(* a page nobody touched shows what it was opened on; and the history is   *)
(* what the device's records say.                                          *)
(***************************************************************************)
EditorInv ==
    /\ stored = Unset \/ IsDay(stored)
    /\ override = Unset \/ IsDay(override)
    /\ page = Unset \/ /\ page.form \in Form /\ page.touched \in BOOLEAN
                       /\ page.of = Unset \/ IsDay(page.of)
                       /\ ~ page.touched => page.form = Classify(page.of)
    /\ asked \in Minutes /\ askedToday \in Minutes \cup {Unset}
    /\ DeviceMinutes(Materialized) = asked
    /\ override # Unset => DeviceMinutes(override) = askedToday

\* Nothing set is no restriction.
LEMMA InitInv == Init => EditorInv
<1> SUFFICES ASSUME Init PROVE EditorInv
    OBVIOUS
<1>1. stored = Unset /\ override = Unset /\ page = Unset /\ asked = Counted /\ askedToday = Unset
      BY DEF Init, Counted
<1>2. Materialized = Anytime
      BY <1>1 DEF Materialized
<1>3. QED
      BY <1>1, <1>2, WholeDay, MinutesAre DEF EditorInv

\* Records that are a day, and not empty, are sent as they are.
LEMMA SentAsStored ==
    ASSUME IsDay(stored)
    PROVE  Materialized = IF stored = << >> THEN Anytime ELSE stored
BY NoSentinel DEF Materialized

\* One step per action; all that changes a list puts in a day of records.
LEMMA StepInv == EditorInv /\ [Next]_vars => EditorInv'
<1> SUFFICES ASSUME EditorInv, [Next]_vars PROVE EditorInv'
    OBVIOUS
<1>1. ASSUME OpenPage PROVE EditorInv'
      <2> DEFINE opened == [form |-> Classify(stored), of |-> stored, touched |-> FALSE]
      <2>1. page' = opened /\ UNCHANGED <<stored, override, asked, askedToday>>
            BY <1>1 DEF OpenPage
      <2>2. Classify(stored) \in Form
            BY ClassifiedForm DEF EditorInv
      <2>3. opened.form = Classify(stored) /\ opened.of = stored /\ opened.touched = FALSE
            OBVIOUS
      <2> HIDE DEF opened
      <2>4. QED
            BY <2>1, <2>2, <2>3 DEF EditorInv, Materialized
<1>2. ASSUME NEW form \in Form, Fill(form) PROVE EditorInv'
      <2> DEFINE filled == [form |-> form, of |-> Unset, touched |-> TRUE]
      <2>1. page' = filled /\ UNCHANGED <<stored, override, asked, askedToday>>
            BY <1>2 DEF Fill
      <2>2. filled.form = form /\ filled.of = Unset /\ filled.touched = TRUE
            OBVIOUS
      <2> HIDE DEF filled
      <2>3. QED
            BY <2>1, <2>2 DEF EditorInv, Materialized
<1>3. ASSUME SavePage PROVE EditorInv'
      <2>1. page # Unset /\ page' = Unset /\ UNCHANGED <<override, askedToday>> /\ page.form \in Form
            BY <1>3 DEF SavePage, EditorInv
      <2>2. CASE Parse(page.form) = Rejected
            <3>1. UNCHANGED <<stored, asked>>
                  BY <1>3, <2>2 DEF SavePage
            <3>2. QED
                  BY <2>1, <3>1 DEF EditorInv, Materialized
      <2>3. CASE Parse(page.form) # Rejected
            <3>1. stored' = Parse(page.form) /\ asked' = FormMinutes(page.form)
                  BY <1>3, <2>3 DEF SavePage
            <3>2. /\ IsDay(Parse(page.form)) /\ Parse(page.form) # << >>
                  /\ DeviceMinutes(Parse(page.form)) = FormMinutes(page.form)
                  /\ FormMinutes(page.form) \in Minutes
                  BY <2>1, <2>3, ParsedForm
            <3>3. IsDay(stored') /\ stored' # << >> /\ DeviceMinutes(stored') = asked' /\ asked' \in Minutes
                  BY <3>1, <3>2
            <3>4. Materialized' = stored'
                  BY <3>3, NoSentinel DEF Materialized
            <3>5. QED
                  BY <2>1, <3>3, <3>4 DEF EditorInv
      <2>4. QED
            BY <2>2, <2>3
<1>4. ASSUME NEW ivs \in ApiDays, PutHours(ivs) PROVE EditorInv'
      <2> DEFINE records == IntervalsToHours(ivs)
      <2>1. /\ Valid(ivs) /\ stored' = records /\ UNCHANGED <<override, page, askedToday>>
            /\ asked' = IF ivs = << >> THEN IntervalMinutes(Unrestricted) ELSE IntervalMinutes(ivs)
            BY <1>4 DEF PutHours
      <2>2. ivs \in Seq(TimeInterval)
            BY PolicyEditorAssumption
      <2>3. IsDay(records) /\ Agree(ivs, records)
            BY <2>1, <2>2, ExpandedDay
      <2> HIDE DEF records
      <2>4. IntervalMinutes(ivs) = DeviceMinutes(records) /\ DeviceMinutes(records) \in Minutes
            BY <2>3, SameMinutes, DeviceMinutesAre
      <2>5. ivs = << >> <=> records = << >>
            BY <2>2, <2>3, EmptyTogether DEF IsDay
      <2>6. Materialized' = IF records = << >> THEN Anytime ELSE records
            BY <2>1, <2>3, NoSentinel DEF Materialized
      <2>7. DeviceMinutes(Materialized)' = asked' /\ asked' \in Minutes
            BY <2>1, <2>4, <2>5, <2>6, WholeDay, MinutesAre
      <2>8. QED
            BY <2>1, <2>3, <2>7 DEF EditorInv
<1>5. ASSUME NEW iv \in Windows \cup {Unrestricted[1]}, SetDayHours(iv) PROVE EditorInv'
      <2> DEFINE records == IntervalsToHours(<<iv>>)
      <2>1. /\ override' = records /\ askedToday' = IntervalMinutes(<<iv>>)
            /\ UNCHANGED <<stored, page, asked>>
            BY <1>5 DEF SetDayHours
      <2>2. iv \in TimeInterval
            BY PolicyEditorAssumption, WholeDay
      <2>3. IsDay(records) /\ DeviceMinutes(records) = IntervalMinutes(<<iv>>)
            BY <2>2, WindowDay
      <2>4. IntervalMinutes(<<iv>>) \in Minutes
            BY <2>2, MinutesAre
      <2> HIDE DEF records
      <2>5. QED
            BY <2>1, <2>3, <2>4 DEF EditorInv, Materialized
<1>6. ASSUME ClearDayHours PROVE EditorInv'
      <2>1. override' = Unset /\ askedToday' = Unset /\ UNCHANGED <<stored, page, asked>>
            BY <1>6 DEF ClearDayHours
      <2>2. QED
            BY <2>1 DEF EditorInv, Materialized
<1>7. CASE UNCHANGED vars
      <2>1. UNCHANGED <<stored, override, page, asked, askedToday>>
            BY <1>7 DEF vars
      <2>2. QED
            BY <2>1 DEF EditorInv, Materialized
<1>8. CASE Next
      <2>1. \A from, to \in Times : Between(from, to) \in Form
            BY FormsAre
      <2>2. \A hours \in SUBSET (0..(HoursInDay - 1)), free \in BOOLEAN : Custom(hours, free) \in Form
            BY FormsAre
      <2>3. AllDay \in Form
            BY FormsAre
      <2>4. QED
            BY <1>1, <1>2, <1>3, <1>4, <1>5, <1>6, <1>8, <2>1, <2>2, <2>3, Zenon DEF Next
<1>9. QED
      BY <1>7, <1>8

\* The invariant holds in every reachable state.
LEMMA AlwaysInv == Spec => []EditorInv
BY InitInv, StepInv, PTL DEF Spec

-----------------------------------------------------------------------------
\* The stored records, the override and the page have the shapes the rows and the form
\* have, and what was asked for is a day of minutes.
THEOREM TypeCorrect == Spec => []TypeOK
<1>1. EditorInv => TypeOK
      BY DEF EditorInv, TypeOK, IsDay
<1>2. QED
      BY <1>1, AlwaysInv, PTL

\* allowed_hours.py, effective_policy.py: the payload allows exactly the minutes last
\* asked for, through form, API or one-day window, for any length of the day and hour.
THEOREM AskedIsOnTheDevice == Spec => []DeviceGetsWhatWasAsked
<1>1. EditorInv => DeviceGetsWhatWasAsked
      BY DEF EditorInv, DeviceGetsWhatWasAsked, Effective
<1>2. QED
      BY <1>1, AlwaysInv, PTL

\* hours_to_intervals inverts intervals_to_hours on whatever is stored, and leaves no two
\* intervals that could be one.
THEOREM Reassembles == Spec => []ReassembledExactly
<1>1. EditorInv => ReassembledExactly
      <2> SUFFICES ASSUME EditorInv, stored # Unset
                   PROVE  LET ivs == HoursToIntervals(stored)
                          IN  IntervalMinutes(ivs) = DeviceMinutes(stored) /\ Maximal(ivs)
          BY DEF ReassembledExactly, Maximal
      <2>1. IsDay(stored)
            BY DEF EditorInv
      <2>2. Maximal(HoursToIntervals(stored)) /\ Agree(HoursToIntervals(stored), stored)
            BY <2>1, MergedDay
      <2>3. QED
            BY <2>1, <2>2, SameMinutes
<1>2. QED
      BY <1>1, AlwaysInv, PTL

-----------------------------------------------------------------------------
\* A list of length one.
LEMMA OnlyOne ==
    ASSUME NEW S, NEW list \in Seq(S), Len(list) = 1
    PROVE  list = <<list[1]>> /\ list[1] \in S
<1>1. list[1] \in S /\ DOMAIN list = 1..1
      BY LenProperties, ElementOfSeq
<1>2. list = [i \in 1..1 |-> list[1]]
      <2>1. list = [i \in DOMAIN list |-> list[i]] /\ \A i \in 1..1 : i = 1
            BY LenProperties
      <2>2. QED
            BY <1>1, <2>1
<1>3. <<list[1]>> = [i \in 1..1 |-> list[1]]
      OBVIOUS
<1>4. QED
      BY <1>1, <1>2, <1>3

\* A form made of hours the form can show becomes the same hours again.
LEMMA UntouchedDay ==
    ASSUME NEW records, IsDay(records), Expressible(records)
    PROVE  /\ Parse(Classify(records)) # Rejected
           /\ DeviceMinutes(Parse(Classify(records))) = DeviceMinutes(records)
<1> DEFINE ivs == HoursToIntervals(records)
           form == Classify(records)
           hours == HoursOf(records)
           free == AllFree(records)
           whole == ivs[1].start = 0 /\ ivs[1].end = DayLen
           window == Between(ivs[1].start, TimeField(ivs[1].end))
           custom == Custom(hours, free)
<1>1. ivs \in Seq(TimeInterval) /\ Len(ivs) \in Nat /\ IntervalMinutes(ivs) = DeviceMinutes(records)
      <2>1. ivs \in Seq(TimeInterval) /\ Agree(ivs, records)
            BY MergedDay
      <2> HIDE DEF ivs
      <2>2. QED
            BY <2>1, SameMinutes, LenProperties
<1>2. /\ hours \in SUBSET (0..(HoursInDay - 1)) /\ free \in BOOLEAN
      /\ form = IF Len(ivs) # 1 THEN custom ELSE IF whole THEN AllDay
                ELSE IF ~ ivs[1].unaccounted THEN window ELSE custom
      BY ClassifiedIs
<1>3. form \in Form
      BY ClassifiedForm
<1>4. \/ ivs = Unrestricted
      \/ Len(ivs) = 1 /\ ~ivs[1].unaccounted /\ ivs[1].end < DayLen
      \/ /\ records # <<>>
         /\ \A i \in DOMAIN records : /\ records[i].start = 0 /\ records[i].end = HourLen
                                      /\ records[i].unaccounted = records[1].unaccounted
         /\ \/ Len(ivs) > 1
            \/ ivs[1].unaccounted /\ \E m \in Times : DeviceMinutes(records)[m] = "forbidden"
      BY NoSentinel, Zenon DEF Expressible
<1> HIDE DEF ivs, form, custom, hours, free
<1>5. Len(ivs) = 1 => /\ ivs[1] \in TimeInterval /\ ivs = <<ivs[1]>>
                      /\ IntervalMinutes(ivs)
                           = [minute \in Times |-> IF Covers(ivs[1], minute)
                                                   THEN Allowed(ivs[1].unaccounted) ELSE "forbidden"]
      BY <1>1, OnlyOne, WindowMinutes
<1>6. ASSUME Parse(form) # Rejected, FormMinutes(form) = IntervalMinutes(ivs)
      PROVE  /\ Parse(form) # Rejected
             /\ DeviceMinutes(Parse(form)) = DeviceMinutes(records)
      BY <1>1, <1>3, <1>6, ParsedForm
<1>7. CASE ivs = Unrestricted
      <2>1. Len(ivs) = 1 /\ whole
            BY <1>7, WholeDay DEF Unrestricted
      <2>2. form = AllDay /\ form.mode = "all"
            BY <1>2, <2>1, FormsAre
      <2>3. Parse(form) # Rejected
            BY <1>3, <2>2, ParsedForm
      <2>4. FormMinutes(form) = IntervalMinutes(ivs)
            BY <1>7, <2>2, FormSays, WholeDay
      <2>5. QED
            BY <1>6, <2>3, <2>4 DEF form
<1>8. CASE Len(ivs) = 1 /\ ~ivs[1].unaccounted /\ ivs[1].end < DayLen
      <2>1. ivs[1].start \in Times /\ ivs[1].end \in Times /\ ivs[1].start < ivs[1].end
            BY <1>5, <1>8, IntervalIs, Lengths DEF Times
      <2>2. ~ whole /\ TimeField(ivs[1].end) = ivs[1].end
            BY <1>8, <2>1, Lengths DEF TimeField, Times
      <2>3. form = Between(ivs[1].start, ivs[1].end)
            BY <1>2, <1>8, <2>2
      <2>4. form.mode = "between" /\ form.from = ivs[1].start /\ form.to = ivs[1].end
            BY <2>1, <2>3, FormsAre
      <2>5. Blank \notin {form.from, form.to} /\ ~ form.from >= form.to
            BY <2>1, <2>4, Lengths DEF Times, Blank
      <2>6. Parse(form) # Rejected
            BY <1>3, <2>4, <2>5, ParsedForm
      <2>7. FormMinutes(form)
              = [minute \in Times |->
                   IF form.from <= minute /\ minute < form.to THEN "counted" ELSE "forbidden"]
            BY <2>4, FormSays
      <2>8. FormMinutes(form) = IntervalMinutes(ivs)
            BY <1>5, <1>8, <2>4, <2>7 DEF Covers, Allowed
      <2>9. QED
            BY <1>6, <2>6, <2>8 DEF form
<1>9. CASE /\ records # <<>>
           /\ \A i \in DOMAIN records : /\ records[i].start = 0 /\ records[i].end = HourLen
                                        /\ records[i].unaccounted = records[1].unaccounted
           /\ \/ Len(ivs) > 1
              \/ ivs[1].unaccounted /\ \E m \in Times : DeviceMinutes(records)[m] = "forbidden"
      <2>1. form = custom
            <3>1. CASE Len(ivs) # 1
                  BY <1>2, <3>1
            <3>2. CASE Len(ivs) = 1
                  <4>1. ivs[1].unaccounted
                        BY <1>9, <3>2
                  <4>2. PICK m \in Times : DeviceMinutes(records)[m] = "forbidden"
                        BY <1>9, <3>2
                  <4>3. ~ Covers(ivs[1], m)
                        BY <1>1, <1>5, <3>2, <4>1, <4>2 DEF Allowed
                  <4>4. ~ whole
                        BY <4>3, Lengths DEF Covers, Times
                  <4>5. QED
                        BY <1>2, <3>2, <4>1, <4>4
            <3>3. QED
                  BY <3>1, <3>2
      <2>2. form.mode = "custom" /\ form.hours = hours /\ form.free = free
            BY <1>2, <2>1, FormsAre DEF custom
      <2>3. /\ records \in Seq(HourRecord) /\ 1 \in DOMAIN records
            /\ \A i \in DOMAIN records : records[i] \in HourRecord
            BY <1>9, EmptySeq, LenProperties, ElementOfSeq DEF IsDay
      <2>4. hours # {}
            BY <2>3 DEF hours, HoursOf
      <2>5. \A i \in DOMAIN records : Allowed(records[i].unaccounted) = Allowed(free)
            <3>1. \A i \in DOMAIN records : records[i].unaccounted \in BOOLEAN
                  BY <2>3, RecordIs
            <3>2. free <=> records[1].unaccounted
                  BY <1>9, <2>3, <3>1 DEF free, AllFree
            <3>3. QED
                  BY <1>9, <3>1, <3>2, <2>3 DEF Allowed
      <2>6. ASSUME NEW minute \in Times
            PROVE  DeviceMinutes(records)[minute]
                     = IF minute \div HourLen \in hours THEN Allowed(free) ELSE "forbidden"
            <3>1. \A a \in Int, b \in Nat \ {0} : 0 <= a % b /\ a % b < b
                  OBVIOUS
            <3>2. minute \in Int
                  BY Lengths DEF Times
            <3>3. 0 <= minute % HourLen /\ minute % HourLen < HourLen
                  BY <3>1, <3>2, Lengths
            <3>4. \A i \in DOMAIN records :
                     Allows(records[i], minute) <=> minute \div HourLen = records[i].hour
                  BY <1>9, <2>3, <3>3, AllowsInItsHour
            <3>5. CASE minute \div HourLen \in hours
                  <4>1. PICK i \in DOMAIN records : records[i].hour = minute \div HourLen
                        BY <3>5 DEF hours, HoursOf
                  <4>2. DeviceMinutes(records)[minute] = Allowed(records[i].unaccounted)
                        BY <3>4, <4>1, DeviceMinuteIs
                  <4>3. QED
                        BY <2>5, <3>5, <4>2
            <3>6. CASE minute \div HourLen \notin hours
                  <4>1. \A i \in DOMAIN records : ~ Allows(records[i], minute)
                        BY <3>4, <3>6 DEF hours, HoursOf
                  <4>2. DeviceMinutes(records)[minute] = "forbidden"
                        BY <4>1, DeviceMinuteIs
                  <4>3. QED
                        BY <3>6, <4>2
            <3>7. QED
                  BY <3>5, <3>6
      <2>7. DeviceMinutes(records) = [minute \in Times |-> DeviceMinutes(records)[minute]]
            BY MinutesTyped
      <2>8. FormMinutes(form)
              = [minute \in Times |->
                   IF minute \div HourLen \in hours THEN Allowed(free) ELSE "forbidden"]
            BY <2>2, FormSays
      <2>9. FormMinutes(form) = IntervalMinutes(ivs)
            BY <1>1, <2>6, <2>7, <2>8
      <2>10. Parse(form) # Rejected
            BY <1>3, <2>2, <2>4, ParsedForm
      <2>11. QED
            BY <1>6, <2>9, <2>10 DEF form
<1>10. QED
      BY <1>4, <1>7, <1>8, <1>9

\* api/ui/policy.py: a page saved as it was opened is accepted and leaves every minute
\* of hours its form has a way to show as it was.
THEOREM UntouchedSaves == Spec => UntouchedSaveKeepsExpressible
<1> DEFINE keeps == UntouchedSave /\ Expressible(page.of) =>
                      /\ Parse(page.form) # Rejected
                      /\ DeviceMinutes(Parse(page.form))
                           = (IF page.of = Unset THEN [minute \in Times |-> "counted"]
                              ELSE DeviceMinutes(page.of))
<1>1. EditorInv /\ [Next]_vars => [keeps]_vars
      <2> SUFFICES ASSUME EditorInv, SavePage, ~ page.touched, Expressible(page.of)
                   PROVE  /\ Parse(page.form) # Rejected
                          /\ DeviceMinutes(Parse(page.form))
                               = (IF page.of = Unset THEN [minute \in Times |-> "counted"]
                                  ELSE DeviceMinutes(page.of))
          BY DEF UntouchedSave
      <2>1. page.form = Classify(page.of) /\ (page.of = Unset \/ IsDay(page.of))
            BY DEF SavePage, EditorInv
      <2>2. CASE page.of = Unset
            <3>1. Classify(page.of) = AllDay
                  BY <2>2 DEF Classify
            <3>2. Parse(AllDay) # Rejected /\ DeviceMinutes(Parse(AllDay)) = FormMinutes(AllDay)
                  BY FormsAre, ParsedForm
            <3>3. FormMinutes(AllDay) = Counted
                  BY FormsAre, FormSays
            <3>4. QED
                  BY <2>1, <2>2, <3>1, <3>2, <3>3 DEF Counted
      <2>3. CASE IsDay(page.of)
            BY <2>1, <2>3, NoSentinel, UntouchedDay
      <2>4. QED
            BY <2>1, <2>2, <2>3
<1>2. QED
      BY <1>1, AlwaysInv, PTL DEF Spec, UntouchedSaveKeepsExpressible
=============================================================================
