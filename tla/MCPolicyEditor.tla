-------------------------- MODULE MCPolicyEditor --------------------------
EXTENDS PolicyEditor

\* Pairs around the boundaries of the first clock hour: disjoint, meeting on and off the
\* hour, sharing an hour, overlapping.
Pairs == {<<a, b>> : a \in {iv \in TimeInterval : iv.start = 0 /\ iv.end <= HourLen + 1},
                     b \in {iv \in TimeInterval : iv.end >= DayLen - 1 /\ iv.start <= HourLen + 1}}
AllDays == {<<>>} \cup {<<iv>> : iv \in TimeInterval} \cup Pairs

WindowsDef == {[start |-> HourLen - 1, end |-> DayLen - 1, unaccounted |-> TRUE],
               [start |-> HourLen, end |-> HourLen + 1, unaccounted |-> FALSE]}
=============================================================================
