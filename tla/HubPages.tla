------------------------------ MODULE HubPages ------------------------------
(***************************************************************************)
(* The pages of one user on the screens of several administrators: figures *)
(* computed while others change the rows behind them (DayLimit), and two   *)
(* forms, for the policy's daily limits (hub/timekpr_hub/api/ui/policy.py) *)
(* and for the settings (api/ui/users.py).  A form lies open for as long   *)
(* as its reader likes, shows seconds as whole minutes, and when it is     *)
(* saved writes every field it has.                                        *)
(***************************************************************************)
EXTENDS DayLimit

CONSTANTS
    Browsers,       \* each has at most one form open
    Minute          \* seconds in a minute (60 in the code)

\* Any limits of the weekdays together are a policy, those in whole minutes too.
ASSUME HubPagesAssumption ==
    /\ Minute \in Nat \ {0}
    /\ \A of \in [Weekdays -> Policies] :
          [w \in Weekdays |-> (of[w][w] \div Minute) * Minute] \in Policies

VARIABLES
    form,           \* the form in each browser, or None
    wanted,         \* history: each field as last asked for by who changed it
    undone          \* history: fields put back since, by who meant another field

forms == <<form, wanted, undone>>

\* The fields of the policy's form are weekdays; the settings' gated weekdays are one.
Gated == 0
Fields == Weekdays \cup {Gated}

Value(row, f) == IF f = Gated THEN row.gated ELSE row.limits[f]

FormsTypeOK ==
    /\ TypeOK
    /\ \A b \in Browsers :
          form[b] = None \/ /\ form[b].fields \in {Weekdays, {Gated}}
                            /\ DOMAIN form[b].filled = form[b].fields
                            /\ form[b].touched \subseteq form[b].fields
    /\ undone \subseteq Fields /\ DOMAIN wanted = Fields

FormsInit ==
    /\ Init
    /\ form = [b \in Browsers |-> None]
    /\ wanted = [f \in Fields |-> Value(user, f)] /\ undone = {}

-----------------------------------------------------------------------------
\* Mutant: rounded to the nearest minute.
ShownNearest(seconds) == (seconds + Minute \div 2) \div Minute

\* _split_hm.
Shown(seconds) == seconds \div Minute

\* Mutant: the minutes of a menu that begins with 1.
EnteredFromOne(minutes) == (minutes + 1) * Minute

\* _hm_seconds.
Entered(minutes) == minutes * Minute

ShownOf(row, f) == IF f = Gated THEN row.gated ELSE Shown(row.limits[f])

\* GET /users/{u}, GET /users/{u}/settings; and what the reader then fills in: one field,
\* a bound.
OpenForm(b, fields) ==
    /\ form[b] = None
    /\ form' = [form EXCEPT ![b] =
                   [fields |-> fields, touched |-> {},
                    filled |-> [f \in fields |-> ShownOf(user, f)]]]
    /\ UNCHANGED <<vars, wanted, undone>>

Fill(b, f, value) ==
    /\ form[b] # None /\ form[b].touched = {} /\ f \in form[b].fields
    /\ value # form[b].filled[f]
    /\ form' = [form EXCEPT ![b].touched = {f}, ![b].filled[f] = value]
    /\ UNCHANGED <<vars, wanted, undone>>

Submitted(b, f) == IF f = Gated THEN form[b].filled[f] ELSE Entered(form[b].filled[f])

\* The row of users once the form is written to it.
Written(b) ==
    IF Gated \in form[b].fields
    THEN [user EXCEPT !.gated = Submitted(b, Gated)]
    ELSE [user EXCEPT !.limits = [w \in Weekdays |-> Submitted(b, w)]]

\* POST /users/{u}/policy, POST /users/{u}/settings.
SaveForm(b) ==
    /\ form[b] # None /\ RowFree
    /\ form' = [form EXCEPT ![b] = None]
    /\ user' = Written(b) /\ UNCHANGED <<grants, override, released>> /\ Committed
    /\ wanted' = [f \in Fields |-> IF f \in form[b].touched THEN Value(user', f) ELSE wanted[f]]
    /\ undone' = (undone \ form[b].touched)
                    \cup {f \in form[b].fields \ form[b].touched :
                             form[b].filled[f] # ShownOf(user, f)}

\* The rest of DayLimit.  A client of the API asks for all it sends.
Elsewhere ==
    /\ Next
    /\ wanted' = [f \in Fields |-> IF Value(user', f) # Value(user, f) THEN Value(user', f)
                                   ELSE wanted[f]]
    /\ undone' = {f \in undone : Value(user', f) = Value(user, f)}
    /\ UNCHANGED form

FormsNext ==
    \/ Elsewhere
    \/ \E b \in Browsers :
          \/ \E fields \in {Weekdays, {Gated}} : OpenForm(b, fields)
          \/ \E w \in Weekdays, limits \in Policies : Fill(b, w, Shown(limits[w]))
          \/ \E gated \in Gates : Fill(b, Gated, gated)
          \/ SaveForm(b)

FormsSpec == FormsInit /\ [][FormsNext]_<<vars, forms>>

\* Nothing is assumed of those who read and fill in forms.
FairFormsSpec == FormsSpec /\ Fairness

-----------------------------------------------------------------------------
\* update_policy_ui, update_user_settings_ui: a field is what the last person to change
\* it asked for, unless somebody has since saved a page opened before that.  Saves for
\* the sake of other fields cut a limit down to whole minutes, once: however many there
\* are, it has not lost a minute.
LastEditStands ==
    \A f \in Fields \ undone :
        IF f = Gated THEN user.gated = wanted[f]
        ELSE user.limits[f] \in (wanted[f] - Minute + 1)..wanted[f]
=============================================================================
