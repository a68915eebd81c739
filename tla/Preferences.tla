---------------------------- MODULE Preferences ----------------------------
(***************************************************************************)
(* The preferences of one account (handler/user.go): both update handlers  *)
(* read the row, or the defaults, put the fields the request names into it *)
(* and write all of it back.                                               *)
(***************************************************************************)
EXTENDS Integers, FiniteSets

CONSTANTS
  Editor,     \* updates that may run at the same time
  Value,      \* of a field, "default" among them
  None

VARIABLES
  prefs,      \* user_preferences: [Field -> Value], or None for no row
  edit,       \* updates under way: the fields they set, or None
  loaded,     \*   the preferences they have read
  wanted,     \* history: what the last update of a field to finish has set it to
  muddled     \* history: updates that ran while another one wrote, and their fields

prefVars == <<prefs, edit, loaded, wanted, muddled>>

\* notification_time is set by both screens; one field stands for the others of each.
Field == {"theme", "notification_time", "notif_weekly"}
PreferencesForm == {"theme", "notification_time"}
NotificationForm == {"notif_weekly", "notification_time"}

\* What a request may name.
Input == UNION {[form -> Value] : form \in SUBSET Field}

ASSUME PrefAssumption == "default" \in Value /\ None \notin Input

DefaultUserPreferences == [f \in Field |-> "default"]

PrefInit ==
  /\ prefs = None
  /\ edit = [r \in Editor |-> None]
  /\ loaded = [r \in Editor |-> None]
  /\ wanted = DefaultUserPreferences
  /\ muddled = {}

Stored == IF prefs = None THEN DefaultUserPreferences ELSE prefs

\* A request names some of its form's fields; an account without a row has the defaults.
loadPrefs(r, input) ==
  /\ edit[r] = None
  /\ edit' = [edit EXCEPT ![r] = input]
  /\ loaded' = [loaded EXCEPT ![r] = Stored]
  /\ UNCHANGED <<prefs, wanted, muddled>>

UpdatePreferences(r) ==
  \E form \in SUBSET PreferencesForm \ {{}} : \E input \in [form -> Value] : loadPrefs(r, input)

UpdateNotificationPrefs(r) ==
  \E form \in SUBSET NotificationForm \ {{}} : \E input \in [form -> Value] : loadPrefs(r, input)

\* Faulty variant: a field the request does not name takes its default.
MergeOverDefaults(before, input) ==
  [f \in Field |-> IF f \in DOMAIN input THEN input[f] ELSE "default"]

Merge(before, input) == [f \in Field |-> IF f \in DOMAIN input THEN input[f] ELSE before[f]]

\* The whole row.  An update that read before another wrote takes the other's fields back.
Upsert(r) ==
  /\ edit[r] # None
  /\ prefs' = Merge(loaded[r], edit[r])
  /\ wanted' = [f \in Field |-> IF f \in DOMAIN edit[r] THEN edit[r][f] ELSE wanted[f]]
  /\ muddled' = IF \E q \in Editor \ {r} : edit[q] # None
                  THEN muddled \union DOMAIN edit[r] ELSE muddled \ DOMAIN edit[r]
  /\ edit' = [edit EXCEPT ![r] = None]
  /\ loaded' = [loaded EXCEPT ![r] = None]

\* The write, or the process, fails.
Drop(r) ==
  /\ edit[r] # None
  /\ edit' = [edit EXCEPT ![r] = None]
  /\ loaded' = [loaded EXCEPT ![r] = None]
  /\ UNCHANGED <<prefs, wanted, muddled>>

PrefNext ==
  \E r \in Editor : \/ UpdatePreferences(r)
                    \/ UpdateNotificationPrefs(r)
                    \/ Upsert(r)
                    \/ Drop(r)

PrefSpec == PrefInit /\ [][PrefNext]_prefVars

-----------------------------------------------------------------------------
(* Property *)

\* A saved field stays as it was last set whatever the other screen saves, but for a field
\* one update set while another was under way: that one may take it back (user.go:225).
SavedFieldsStay ==
  \A f \in Field \ muddled : Stored[f] = wanted[f]

=============================================================================
