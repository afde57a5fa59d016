------------------------------- MODULE MCChat -------------------------------
(* An instance of Chat for TLC: two clients, and one name for a room.       *)
EXTENDS Chat

CONSTANTS p1, p2, r1

MCProcs == {p1, p2}
MCNames == {r1}
=============================================================================
