--------------------------- MODULE MCTaskListView ---------------------------
(* One task and two handlers: enough for an answer to be overtaken, for    *)
(* an action to fail while another succeeds, and for a row to go stale.    *)
EXTENDS TaskListView, TLC

MCRawTitles  == {"", " ", "milk"}
MCNormalised == [t \in MCRawTitles |-> IF t = " " THEN "" ELSE t]
MCQueries    == {"dog"}
MCContaining == [q \in MCQueries |-> {}]

Symmetry == Permutations(Handlers)
=============================================================================
