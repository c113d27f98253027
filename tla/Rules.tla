-------------------------------- MODULE Rules --------------------------------
(***************************************************************************)
(* The domain rules of app/rules.py: the status machine, what makes a      *)
(* title usable, and what a list filter keeps.  A title is a value; all    *)
(* that is known of its characters is which title it becomes once its      *)
(* whitespace is collapsed and which queries it contains.                  *)
(***************************************************************************)

CONSTANTS
    RawTitles,   \* titles a client may send, short enough for the schema
    Normalised,  \* normalise_title, as a function on RawTitles
    Queries,     \* search texts
    Containing   \* the titles that contain each query, letter case apart

ASSUME RulesAssumption ==
    /\ "" \in RawTitles
    /\ Normalised \in [RawTitles -> RawTitles]
    /\ Normalised[""] = ""
    /\ \A raw \in RawTitles : Normalised[Normalised[raw]] = Normalised[raw]
    /\ Containing \in [Queries -> SUBSET RawTitles]

TaskStatus == {"todo", "in_progress", "done"}

ALLOWED_TRANSITIONS ==
    [s \in TaskStatus |->
        IF s = "in_progress" THEN {"todo", "done"} ELSE {"in_progress"}]

(* Fault: finished work may go straight back to todo. *)
CanReset(current, target) ==
    current = target \/ target \in ALLOWED_TRANSITIONS[current] \/ target = "todo"

can_transition(current, target) ==
    current = target \/ target \in ALLOWED_TRANSITIONS[current]

(* Fault: emptiness is tested on the text as it was sent. *)
UsableAsSent(raw) == raw # ""

(* validate_title accepts what is not empty once normalised.  Nothing the  *)
(* schema lets through is too long for it: normalising only shortens.      *)
usable_title(raw) == Normalised[raw] # ""

(* The titles a task may be stored under: tidy, and not empty. *)
Titles == {t \in RawTitles : Normalised[t] = t /\ t # ""}

(* An absent filter is "any". *)
matches_filter(status, title, wanted, query) ==
    /\ wanted # "any" => status = wanted
    /\ query # "any" => title \in Containing[query]
=============================================================================
