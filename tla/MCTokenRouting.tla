--------------------------- MODULE MCTokenRouting ---------------------------
(* Who uses which gate token, for the instances of TokenRouting. *)
EXTENDS TokenRouting

CONSTANTS r1, r2, g1, g2

\* Every gate token has one client, which waits for an answer.
OneClientEach == r1 :> g1 @@ r2 :> g2

\* Two requests of one gate token at a time.
TwoClientsOneGate == r1 :> g1 @@ r2 :> g1

\* With one client each, the clients are interchangeable together with their gate tokens.
Exchange == {r1 :> r2 @@ r2 :> r1 @@ g1 :> g2 @@ g2 :> g1}
=============================================================================
