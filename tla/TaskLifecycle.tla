---------------------------- MODULE TaskLifecycle ----------------------------
(***************************************************************************)
(* What the task endpoints promise, with requests and sessions left out:   *)
(* a task is created once, by one account, as todo; it stays with that     *)
(* account; it may change status while it lives; once deleted it stays     *)
(* deleted.  LegalSpec adds the status machine of app/rules.py:32-41.      *)
(***************************************************************************)
CONSTANTS TaskIds, Accounts, NoAccount

VARIABLES
    age,      \* "unborn", "live" or "dead"
    holder,   \* the account a live task belongs to
    status    \* the status of a live task

vars == <<age, holder, status>>

Init ==
    /\ age = [t \in TaskIds |-> "unborn"]
    /\ holder = [t \in TaskIds |-> NoAccount]
    /\ status = [t \in TaskIds |-> "none"]

Add(t, a) ==
    /\ age[t] = "unborn"
    /\ age' = [age EXCEPT ![t] = "live"]
    /\ holder' = [holder EXCEPT ![t] = a]
    /\ status' = [status EXCEPT ![t] = "todo"]

Move(t, s) ==
    /\ age[t] = "live"
    /\ status' = [status EXCEPT ![t] = s]
    /\ UNCHANGED <<age, holder>>

(* Some tasks of one account go at once. *)
Remove(S, a) ==
    /\ \A t \in S : age[t] = "live" /\ holder[t] = a
    /\ age' = [t \in TaskIds |-> IF t \in S THEN "dead" ELSE age[t]]
    /\ holder' = [t \in TaskIds |-> IF t \in S THEN NoAccount ELSE holder[t]]
    /\ status' = [t \in TaskIds |-> IF t \in S THEN "none" ELSE status[t]]

AddOrRemove ==
    \E a \in Accounts :
        \/ \E t \in TaskIds : Add(t, a)
        \/ \E S \in SUBSET TaskIds : Remove(S, a)

Legal(current, target) ==
    {current, target} \in {{"todo", "in_progress"}, {"in_progress", "done"}}

Next ==
    \/ AddOrRemove
    \/ \E t \in TaskIds, s \in {"todo", "in_progress", "done"} : Move(t, s)

LegalNext ==
    \/ AddOrRemove
    \/ \E t \in TaskIds, s \in {"todo", "in_progress", "done"} :
           Legal(status[t], s) /\ Move(t, s)

Spec      == Init /\ [][Next]_vars
LegalSpec == Init /\ [][LegalNext]_vars
=============================================================================
