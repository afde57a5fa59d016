------------------------------- MODULE Rooms -------------------------------
(***************************************************************************)
(* What the chat server (src/MP1) promises about rooms.  A process that is *)
(* connected has a seat.  From a seat outside all rooms rooms are opened,  *)
(* entered and closed; what is said from a seat in a room is heard by all  *)
(* others in that room and by nobody else; who is in a room that is closed *)
(* is outside again, and is warned.  Chat implements this.                 *)
(*                                                                         *)
(* The place belongs to the seat, not to the process: who departs leaves   *)
(* it behind, and who gets the seat next is where the seat is.             *)
(***************************************************************************)
EXTENDS Sequences, Naturals

CONSTANTS
    Seats,    \* places at the server, one for each connection
    Procs     \* processes that connect

VARIABLES
    rooms,    \* names of the rooms there are
    at,       \* seat in a room -> the name of that room
    guest,    \* taken seat -> who sits there
    inbox     \* process -> what it has heard and not read yet

roomsVars == <<rooms, at, guest, inbox>>

Init ==
    /\ rooms = {}
    /\ at = <<>>
    /\ guest = <<>>
    /\ inbox = [p \in Procs |-> <<>>]

Outside(s) == s \in Seats \ DOMAIN at
Members(r) == {s \in DOMAIN at : at[s] = r}

\* Whoever sits on a seat s that out names hears out[s].
Tell(out) ==
    LET SeatsOf(p) == {s \in DOMAIN out \cap DOMAIN guest : guest[s] = p}
    IN  inbox' = [p \in Procs |->
            IF SeatsOf(p) = {} THEN inbox[p]
            ELSE Append(inbox[p], out[CHOOSE s \in SeatsOf(p) : TRUE])]

Answer(s, status) == Tell([t \in {s} |-> status])

-----------------------------------------------------------------------------
Arrive(s, p) ==
    /\ s \in Seats \ DOMAIN guest
    /\ \A t \in DOMAIN guest : guest[t] # p
    /\ inbox[p] = <<>>
    /\ guest' = [t \in DOMAIN guest \cup {s} |-> IF t = s THEN p ELSE guest[t]]
    /\ UNCHANGED <<rooms, at, inbox>>

Depart(s) ==
    /\ s \in DOMAIN guest
    /\ guest' = [t \in DOMAIN guest \ {s} |-> guest[t]]
    /\ inbox' = [inbox EXCEPT ![guest[s]] = <<>>]
    /\ UNCHANGED <<rooms, at>>

Read(p) ==
    /\ \E k \in 1..Len(inbox[p]) :
           inbox' = [inbox EXCEPT ![p] = SubSeq(@, k + 1, Len(@))]
    /\ UNCHANGED <<rooms, at, guest>>

-----------------------------------------------------------------------------
Open(s) ==
    /\ Outside(s)
    /\ \E r \in rooms' \ rooms : rooms' = rooms \cup {r}
    /\ Answer(s, "0")
    /\ UNCHANGED <<at, guest>>

Enter(s, r) ==
    /\ Outside(s) /\ r \in rooms
    /\ at' = [t \in DOMAIN at \cup {s} |-> IF t = s THEN r ELSE at[t]]
    /\ Answer(s, "0")
    /\ UNCHANGED <<rooms, guest>>

\* Whoever closes the room is outside, so he is not among its members.
Close(s, r) ==
    /\ Outside(s) /\ r \in rooms
    /\ rooms' = rooms \ {r}
    /\ at' = [t \in DOMAIN at \ Members(r) |-> at[t]]
    /\ Tell([t \in Members(r) \cup {s} |-> IF t = s THEN "0" ELSE "warning"])
    /\ UNCHANGED guest

\* The list of rooms, or a refusal.
Reply(s) ==
    /\ Outside(s)
    /\ \E status \in {"1", "2", "3", "L"} :
           /\ status = "1" => rooms # {}
           /\ Answer(s, status)
    /\ UNCHANGED <<rooms, at, guest>>

Say(s) ==
    /\ s \in DOMAIN at
    /\ Tell([t \in Members(at[s]) \ {s} |-> "line"])
    /\ UNCHANGED <<rooms, at, guest>>

Next ==
    \/ \E p \in Procs : Read(p) \/ \E s \in Seats : Arrive(s, p)
    \/ \E s \in Seats :
           \/ Depart(s) \/ Open(s) \/ Reply(s) \/ Say(s)
           \/ \E r \in rooms : Enter(s, r) \/ Close(s, r)

Spec == Init /\ [][Next]_roomsVars
=============================================================================
