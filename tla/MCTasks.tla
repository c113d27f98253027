------------------------------- MODULE MCTasks -------------------------------
(* Two requests in flight over two tasks; two accounts of a customer with  *)
(* the bulk_delete feature and one of a customer without it.               *)
EXTENDS Tasks, TLC

MCRawTitles  == {"", " ", "a", " a ", "b"}
MCNormalised == [raw \in MCRawTitles |->
                    CASE raw \in {"", " "} -> "" [] raw \in {"a", " a "} -> "a" [] raw = "b" -> "b"]
MCContaining == "A" :> {"a", " a "}

CONSTANTS ann, bob, cat

MCAccounts == [id : {ann, bob}, tenant : {"custa"}]
                \cup [id : {cat}, tenant : {"custb"}]
MCDrafts   == {[title |-> " ", description |-> Absent], [title |-> " a ", description |-> Absent]}
MCFilters  == {[status |-> "any", query |-> "any"], [status |-> "done", query |-> "A"]}

Body(title, description, status) ==
    [title |-> title, description |-> description, status |-> status]

(* A new title with and without a move, every single move, a blank title   *)
(* beside a move, and an empty body.                                       *)
MCPatches == {NoFields, Body("b", Absent, Absent), Body(" ", Absent, "in_progress"),
              Body(" a ", Absent, "done")}
               \cup {Body(Absent, Absent, s) : s \in TaskStatus}

(* For one request at a time, every body there is. *)
AnyPatch == Fields

MCSymmetry == Permutations(Requests) \cup Permutations(TaskIds)
                \cup Permutations({ann, bob})
=============================================================================
