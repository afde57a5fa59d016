----------------------------- MODULE MCTimeline -----------------------------
(* Instances of Timeline for TLC: ann and bob in this cluster, rex in       *)
(* another; bob follows both.                                               *)
EXTENDS Timeline

CONSTANTS ann, bob, rex, a1, x1

MCLocal     == {ann, bob}
MCPosts     == {a1, x1}
MCAuthorOf  == [p \in MCPosts |-> IF p = a1 THEN ann ELSE rex]
MCFollowers == [v \in {ann, rex} |-> {bob}]
MCMaster    == [r \in Replicas |-> IF r = "master" THEN 1 ELSE 0]
MCBobTwice  == [u \in MCLocal |-> IF u = bob THEN 2 ELSE 1]
MCOnce      == [u \in MCLocal |-> 1]
MCNever     == [r \in Replicas |-> 0]
=============================================================================
