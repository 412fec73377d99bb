--------------------------- MODULE MCPolicyPush ---------------------------
EXTENDS PolicyPush

CONSTANTS open, evening

HourPlansDef == {open, evening}

\* They differ in every setting, and each uses another default.
Evenings == [days |-> <<>>, limits |-> <<2, 1>>, hours |-> <<None, evening>>,
             weekly |-> 9, lockout |-> "suspendwake", wake |-> "7;8"]
OneDay == [days |-> <<2>>, limits |-> <<1, 2>>, hours |-> <<None, None>>,
           weekly |-> 8, lockout |-> "suspendwake", wake |-> ""]

PoliciesDef == {Evenings, OneDay}

=============================================================================
