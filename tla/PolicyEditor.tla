---------------------------- MODULE PolicyEditor ----------------------------
(***************************************************************************)
(* One weekday's allowed hours from what an administrator asks for to what *)
(* a device gets: the policy page's form (hub/timekpr_hub/api/ui/          *)
(* policy.py), PUT /users/{u}/policy, the one-day window (api/ui/          *)
(* overrides.py, api/admin/users.py) and the payload of a sync             *)
(* (core/timekpr_hub_core/effective_policy.py).                            *)
(***************************************************************************)
EXTENDS DayHours

CONSTANTS
    Unset,          \* a day without an entry, no override, no page
    Rejected,       \* a form that is answered with an error 422
    ApiDays,        \* interval lists clients of the API expand into records
    Windows         \* one-day windows asked for

ASSUME PolicyEditorAssumption ==
    /\ {Unset, Rejected} \cap Seq(HourRecord) = {}
    /\ ApiDays \subseteq Seq(TimeInterval)
    /\ Windows \subseteq TimeInterval

VARIABLES
    stored,         \* Policy.allowed_hours_json of the day
    override,       \* DayHourOverride.intervals_json of today
    page,           \* the policy page open in a browser
    asked, askedToday   \* history: what was asked for, minute by minute

vars == <<stored, override, page, asked, askedToday>>

Blank == -1         \* an <input type=time> without a value
Times == 0..(DayLen - 1)

Form == [mode: {"all", "between", "custom"}, from: Times \cup {Blank}, to: Times \cup {Blank},
         hours: SUBSET (0..(HoursInDay - 1)), free: BOOLEAN]

Minutes == [Times -> {"forbidden", "counted", "free"}]

TypeOK ==
    /\ stored \in Seq(HourRecord) \cup {Unset}
    /\ override \in Seq(HourRecord) \cup {Unset}
    /\ page = Unset \/ /\ page.form \in Form
                       /\ page.of \in Seq(HourRecord) \cup {Unset}
                       /\ page.touched \in BOOLEAN
    /\ asked \in Minutes /\ askedToday \in Minutes \cup {Unset}

Anytime == IntervalsToHours(Unrestricted)

Init ==
    /\ stored = Unset /\ override = Unset /\ page = Unset
    /\ asked = [minute \in Times |-> "counted"] /\ askedToday = Unset

-----------------------------------------------------------------------------
(***************************************************************************)
(* The policy page.                                                        *)
(***************************************************************************)
AllDay == [mode |-> "all", from |-> 0, to |-> 0, hours |-> {}, free |-> FALSE]
Between(from, to) == [AllDay EXCEPT !.mode = "between", !.from = from, !.to = to]
Custom(hours, free) == [AllDay EXCEPT !.mode = "custom", !.hours = hours, !.free = free]

\* A time field takes 00:00 to 23:59 and shows nothing for 24:00.
TimeField(minute) == IF minute < DayLen THEN minute ELSE Blank

\* Mutant: an unaccounted window is shown as any other.
ShowsAsWindowAlways(iv) == TRUE

\* "between" has nowhere to show the flag.
ShowsAsWindow(iv) == ~iv.unaccounted

\* _classify_day_hours: the form for what is stored.  Fields of the modes not chosen
\* are left out.
Classify(records) ==
    IF records = Unset THEN AllDay
    ELSE LET merged == HoursToIntervals(records)
             custom == Custom({records[i].hour : i \in DOMAIN records},
                              /\ records # <<>>
                              /\ \A i \in DOMAIN records : records[i].unaccounted)
         IN  IF Len(merged) # 1 THEN custom
             ELSE IF merged[1].start = 0 /\ merged[1].end = DayLen THEN AllDay
             ELSE IF ShowsAsWindow(merged[1])
             THEN Between(merged[1].start, TimeField(merged[1].end))
             ELSE custom

\* _parse_day_hours: the records for what is submitted.
Parse(form) ==
    CASE form.mode = "all" -> Anytime
      [] form.mode = "between" ->
           IF Blank \in {form.from, form.to} \/ form.from >= form.to
           THEN Rejected
           ELSE IntervalsToHours(<<[start |-> form.from, end |-> form.to, unaccounted |-> FALSE]>>)
      [] form.mode = "custom" ->
           IF form.hours = {}
           THEN Rejected
           ELSE LET some == SetToSeq(form.hours)
                    hours == Sorted(some, some)
                IN  [i \in 1..Len(hours) |-> [hour |-> hours[i], start |-> 0, end |-> HourLen,
                                              unaccounted |-> form.free]]

\* What a form says of every minute.
FormMinutes(form) ==
    [minute \in Times |->
        CASE form.mode = "all" -> "counted"
          [] form.mode = "between" ->
               IF form.from <= minute /\ minute < form.to THEN "counted" ELSE "forbidden"
          [] form.mode = "custom" ->
               IF minute \div HourLen \in form.hours THEN Allowed(form.free) ELSE "forbidden"]

OpenPage ==
    /\ page = Unset
    /\ page' = [form |-> Classify(stored), of |-> stored, touched |-> FALSE]
    /\ UNCHANGED <<stored, override, asked, askedToday>>

Fill(form) ==
    /\ page # Unset
    /\ page' = [form |-> form, of |-> Unset, touched |-> TRUE]
    /\ UNCHANGED <<stored, override, asked, askedToday>>

SavePage ==
    /\ page # Unset
    /\ page' = Unset
    /\ IF Parse(page.form) = Rejected
       THEN UNCHANGED <<stored, asked>>
       ELSE stored' = Parse(page.form) /\ asked' = FormMinutes(page.form)
    /\ UNCHANGED <<override, askedToday>>

-----------------------------------------------------------------------------
(***************************************************************************)
(* The API and the one-day window.                                         *)
(***************************************************************************)
\* PUT policy takes any records; a client gets them from a validated list of
\* intervals, or leaves the day empty, which stands for no restriction.
PutHours(ivs) ==
    /\ Valid(ivs)
    /\ stored' = IntervalsToHours(ivs)
    /\ asked' = IF ivs = <<>> THEN IntervalMinutes(Unrestricted) ELSE IntervalMinutes(ivs)
    /\ UNCHANGED <<override, page, askedToday>>

\* set_day_hour_override: "unrestricted", or one window.
SetDayHours(iv) ==
    /\ override' = IntervalsToHours(<<iv>>)
    /\ askedToday' = IntervalMinutes(<<iv>>)
    /\ UNCHANGED <<stored, page, asked>>

\* Cleared, or the day is over.
ClearDayHours ==
    /\ override # Unset
    /\ override' = Unset /\ askedToday' = Unset
    /\ UNCHANGED <<stored, page, asked>>

\* materialize_allowed_hours, with_day_hour_override.
Materialized == IF stored \in {Unset, <<>>} THEN Anytime ELSE stored
Effective == IF override # Unset THEN override ELSE Materialized

Next ==
    \/ OpenPage
    \/ \E from, to \in Times : Fill(Between(from, to))
    \/ \E hours \in SUBSET (0..(HoursInDay - 1)), free \in BOOLEAN : Fill(Custom(hours, free))
    \/ Fill(AllDay)
    \/ SavePage
    \/ \E ivs \in ApiDays : PutHours(ivs)
    \/ \E iv \in Windows \cup {Unrestricted[1]} : SetDayHours(iv)
    \/ ClearDayHours

Spec == Init /\ [][Next]_vars

-----------------------------------------------------------------------------
\* A device gets to the minute the hours last asked for, by whichever way: form, API or
\* one-day window, through records of one clock hour each (allowed_hours.py: "one clock
\* hour cannot hold two intervals").
DeviceGetsWhatWasAsked ==
    DeviceMinutes(Effective) = IF override # Unset THEN askedToday ELSE asked

\* The intervals shown for stored records cover the same minutes, and two of them meet
\* only where the flag changes (hours_to_intervals: "the inverse of intervals_to_hours").
ReassembledExactly ==
    stored # Unset =>
        LET ivs == HoursToIntervals(stored)
        IN  /\ IntervalMinutes(ivs) = DeviceMinutes(stored)
            /\ \A i \in 1..(Len(ivs) - 1) :
                 \/ ivs[i].end < ivs[i + 1].start
                 \/ ivs[i].end = ivs[i + 1].start /\ ivs[i].unaccounted # ivs[i + 1].unaccounted

\* Hours the form has a way to show: any time; one counted window that ends before
\* midnight; or whole hours with one flag, which are not the whole day nor, being
\* counted, one window up to midnight.
Expressible(records) ==
    IF records = Unset THEN TRUE
    ELSE LET ivs == HoursToIntervals(records)
             minutes == DeviceMinutes(records)
         IN  \/ ivs = Unrestricted
             \/ Len(ivs) = 1 /\ ~ivs[1].unaccounted /\ ivs[1].end < DayLen
             \/ /\ records # <<>>
                /\ \A i \in DOMAIN records : /\ records[i].start = 0 /\ records[i].end = HourLen
                                             /\ records[i].unaccounted = records[1].unaccounted
                /\ Len(ivs) > 1 \/ (ivs[1].unaccounted /\ \E m \in Times : minutes[m] = "forbidden")

UntouchedSave == SavePage /\ ~page.touched

\* Opening the page and saving it for another field's sake leaves hours the form can
\* show as they were.
UntouchedSaveKeepsExpressible ==
    [][UntouchedSave /\ Expressible(page.of) =>
         /\ Parse(page.form) # Rejected
         /\ DeviceMinutes(Parse(page.form))
              = (IF page.of = Unset THEN [minute \in Times |-> "counted"]
                 ELSE DeviceMinutes(page.of))]_vars
=============================================================================
