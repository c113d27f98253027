----------------------------- MODULE MCSessions -----------------------------
(* Two requests in flight, two customers whose demo accounts share a       *)
(* username, room for one more account, and two tokens.                    *)
EXTENDS Sessions, TLC

CONSTANTS custa, custb, demo_a, demo_b, usr_1

MCTenants  == {custa, custb}
MCUserIds  == {demo_a, demo_b, usr_1}
MCDemoUser == (custa :> demo_a) @@ (custb :> demo_b)

(* The customers are alike, each with its own demo account. *)
SwapCustomers == (custa :> custb) @@ (custb :> custa)
                   @@ (demo_a :> demo_b) @@ (demo_b :> demo_a)

MCSymmetry == Permutations(Requests) \cup Permutations(Jtis) \cup {SwapCustomers}
=============================================================================
