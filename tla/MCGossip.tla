------------------------------ MODULE MCGossip ------------------------------
(* A tree of two branches: a1-a2-a3, and b1, so heavy that it outweighs two   *)
(* blocks of the other; one branch alone; or two branches of the same length. *)
EXTENDS Gossip, TLC

CONSTANTS g, a1, a2, a3, b1, b2, n1, n2

Fork == (a1 :> g) @@ (a2 :> a1) @@ (a3 :> a2) @@ (b1 :> g)
Uneven == (a1 :> 1) @@ (a2 :> 1) @@ (a3 :> 2) @@ (b1 :> 3)
Line == (a1 :> g) @@ (a2 :> a1) @@ (a3 :> a2)
Twins == (a1 :> g) @@ (a2 :> a1) @@ (b1 :> g) @@ (b2 :> b1)
Even == [b \in Block |-> 1]

\* Blocks that carry a reveal are twice as large as those that do not.
Size == [b \in Block |-> IF b \in {a2, a3, b2} THEN 2 ELSE 1]

OneLink == {<<n1, n2>>}
=============================================================================
