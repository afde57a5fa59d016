---------------------------- MODULE SocialGraph ----------------------------
(***************************************************************************)
(* What the single-server SNS (src/MP2) promises about follows: every      *)
(* FOLLOW adds one follow, every UNFOLLOW takes one away, and LIST shows a *)
(* client whom its user follows at that moment.  Nothing is ever lost, a   *)
(* restart of the server included.  Tsd implements this.                   *)
(*                                                                         *)
(* A user may follow another several times, and then has to unfollow him   *)
(* as often: neither handler looks for an earlier follow.                  *)
(***************************************************************************)
EXTENDS Naturals

CONSTANTS
    Users,     \* user names
    Clients,   \* client processes
    OwnerOf    \* client -> the user it runs for

VARIABLES
    edges,     \* user -> user -> how often the first follows the second
    shown      \* client -> the users its last LIST showed as followed

graphVars == <<edges, shown>>

Followed(u) == {v \in Users : edges[u][v] > 0}

Init ==
    /\ edges = [u \in Users |-> [v \in Users |-> 0]]
    /\ shown = [c \in Clients |-> {}]

Follow(u, v) ==
    /\ u # v
    /\ edges' = [edges EXCEPT ![u][v] = @ + 1]
    /\ UNCHANGED shown

Unfollow(u, v) ==
    /\ edges[u][v] > 0
    /\ edges' = [edges EXCEPT ![u][v] = @ - 1]
    /\ UNCHANGED shown

List(c) ==
    /\ shown' = [shown EXCEPT ![c] = Followed(OwnerOf[c])]
    /\ UNCHANGED edges

Next ==
    \/ \E u, v \in Users : Follow(u, v) \/ Unfollow(u, v)
    \/ \E c \in Clients : List(c)

Spec == Init /\ [][Next]_graphVars
=============================================================================
