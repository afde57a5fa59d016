------------------------------- MODULE MCTsd -------------------------------
(* Instances of Tsd for TLC: two users with a client each, and two clients  *)
(* that run for one user.                                                   *)
EXTENDS Tsd

CONSTANTS ann, bob, c1, c2

MCUsers    == {ann, bob}
MCClients  == {c1, c2}
MCOwnEach  == [c \in MCClients |-> IF c = c1 THEN ann ELSE bob]
MCOneOwner == [c \in MCClients |-> ann]
=============================================================================
