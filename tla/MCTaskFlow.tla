----------------------------- MODULE MCTaskFlow -----------------------------
(* Two requests, two customers with the bulk_delete feature, the demo      *)
(* account of each, two tokens, one task.                                  *)
EXTENDS TaskFlow, TLC

CONSTANTS custa, custb, demo_a, demo_b

MCTenants    == {custa, custb}
MCDemoUser   == (custa :> demo_a) @@ (custb :> demo_b)
MCRawTitles  == {"", "a", " a "}
MCNormalised == ("" :> "") @@ ("a" :> "a") @@ (" a " :> "a")
MCContaining == "A" :> {"a", " a "}
MCDrafts     == {[title |-> " a ", description |-> Absent]}
MCFilters    == {[status |-> "any", query |-> "any"]}
MCPatches    == {[title |-> Absent, description |-> Absent, status |-> "in_progress"]}
BothMoves    == {[title |-> Absent, description |-> Absent, status |-> s] :
                    s \in {"in_progress", "done"}}

SwapCustomers == (custa :> custb) @@ (custb :> custa)
                   @@ (demo_a :> demo_b) @@ (demo_b :> demo_a)

MCSymmetry == Permutations(Requests) \cup Permutations(Jtis) \cup {SwapCustomers}
=============================================================================
