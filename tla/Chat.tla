-------------------------------- MODULE Chat --------------------------------
(***************************************************************************)
(* ChatServer with its clients, src/MP1/crc.cpp: commands and replies, and *)
(* chat mode with its two threads, one that sends what is typed until it   *)
(* sees the flag "stop", one that receives until it sees the warning that  *)
(* the room is going to be closed.                                         *)
(*                                                                         *)
(* A recv of the client may take several messages as well; the program     *)
(* looks at the first only.  Clients may be interrupted at any time.       *)
(***************************************************************************)
EXTENDS ChatServer

CONSTANT
    MaxInputs    \* bound on the lines users type, commands included

ASSUME ChatAssumption == MaxInputs \in Nat

VARIABLES
    phase,      \* client -> "new", "command", "waiting" (for a reply), "chat",
                \* "leaving" (the warning was seen, the sender still runs)
    command,    \* client -> the command whose reply it waits for, or ChatLine
    sender,     \* client -> "off", "check" (about to look at stop), "typing"
    stop,       \* client -> the flag of that name
    inputs      \* lines typed so far

clientVars == <<phase, command, sender, stop>>
vars == <<serverVars, clientVars, inputs>>

TypeOK ==
    /\ ServerTypeOK
    /\ phase \in [Procs -> {"new", "command", "waiting", "chat", "leaving"}]
    /\ command \in [Procs -> Messages]
    /\ sender \in [Procs -> {"off", "check", "typing"}]
    /\ stop \in [Procs -> BOOLEAN]
    /\ inputs \in 0..MaxInputs

Init ==
    /\ ServerInit
    /\ phase = [p \in Procs |-> "new"]
    /\ command = [p \in Procs |-> ChatLine]
    /\ sender = [p \in Procs |-> "off"]
    /\ stop = [p \in Procs |-> FALSE]
    /\ inputs = 0

Running(p) == p \notin hungup

\* The server's loop; the clients do not move.
ServerStep(A) == A /\ UNCHANGED <<clientVars, inputs>>

-----------------------------------------------------------------------------
connect_to(p) ==
    /\ phase[p] = "new" /\ Running(p)
    /\ phase' = [phase EXCEPT ![p] = "command"]
    /\ backlog' = backlog \cup {p}
    /\ UNCHANGED <<server, tables, current_sockets, bounced, toServer, toClient,
                   hungup, estranged, command, sender, stop, inputs>>

Sends(p, m) ==
    /\ inputs < MaxInputs
    /\ inputs' = inputs + 1
    /\ toServer' = [toServer EXCEPT ![p] = Append(@, m)]

\* The first half of process_command.
SendCommand(p, m) ==
    /\ phase[p] = "command" /\ Running(p)
    /\ Sends(p, m)
    /\ command' = [command EXCEPT ![p] = m]
    /\ phase' = [phase EXCEPT ![p] = "waiting"]
    /\ UNCHANGED <<server, tables, sockets, toClient, hungup, estranged, sender, stop>>

\* A recv of client p takes the first k messages.  A warning behind the first
\* is not seen.
Receives(p, k) ==
    /\ k \in 1..Len(toClient[p])
    /\ toClient' = [toClient EXCEPT ![p] = SubSeq(@, k + 1, Len(@))]
    /\ estranged' = IF \E i \in 2..k : toClient[p][i] = Warning
                    THEN estranged \cup {p} ELSE estranged

\* The second half; main enters chat mode after a JOIN that succeeded.  What is
\* not a reply leaves reply.status uninitialized, or ends the client when it is
\* too short for substr.
Succeeds(m) == IF m.kind = "reply" THEN {m.status \in {"0", "L"}} ELSE BOOLEAN

RecvReply(p, k) ==
    /\ phase[p] = "waiting" /\ Running(p)
    /\ Receives(p, k)
    /\ \E success \in Succeeds(toClient[p][1]) :
           IF success /\ command[p].kind = "JOIN"
           THEN /\ phase' = [phase EXCEPT ![p] = "chat"]
                /\ sender' = [sender EXCEPT ![p] = "check"]
           ELSE /\ phase' = [phase EXCEPT ![p] = "command"]
                /\ UNCHANGED sender
    /\ command' = [command EXCEPT ![p] = ChatLine]
    /\ UNCHANGED <<server, tables, sockets, toServer, hungup, stop, inputs>>

\* sendMessage: looks at stop, then waits for a line and sends it.
SenderChecks(p) ==
    /\ sender[p] = "check" /\ Running(p)
    /\ sender' = [sender EXCEPT ![p] = IF stop[p] THEN "off" ELSE "typing"]
    /\ UNCHANGED <<serverVars, phase, command, stop, inputs>>

sendMessage(p) ==
    /\ sender[p] = "typing" /\ Running(p)
    /\ Sends(p, ChatLine)
    /\ sender' = [sender EXCEPT ![p] = "check"]
    /\ UNCHANGED <<server, tables, sockets, toClient, hungup, estranged,
                   phase, command, stop>>

receiveMessage(p, k) ==
    /\ phase[p] = "chat" /\ Running(p)
    /\ Receives(p, k)
    /\ phase' = IF toClient[p][1] = Warning
                THEN [phase EXCEPT ![p] = "leaving"] ELSE phase
    /\ UNCHANGED <<server, tables, sockets, toServer, hungup, command, sender,
                   stop, inputs>>

\* process_chatmode: the future is set, then both threads are joined.  Nothing
\* resets stop.
SetStop(p) ==
    /\ phase[p] = "leaving" /\ ~stop[p] /\ Running(p)
    /\ stop' = [stop EXCEPT ![p] = TRUE]
    /\ UNCHANGED <<serverVars, phase, command, sender, inputs>>

EndChat(p) ==
    /\ phase[p] = "leaving" /\ stop[p] /\ sender[p] = "off" /\ Running(p)
    /\ phase' = [phase EXCEPT ![p] = "command"]
    /\ UNCHANGED <<serverVars, command, sender, stop, inputs>>

\* Ctrl-C, or one of the exceptions above; what was on its way is dropped.
Quit(p) ==
    /\ phase[p] # "new" /\ Running(p)
    /\ hungup' = hungup \cup {p}
    /\ toClient' = [toClient EXCEPT ![p] = <<>>]
    /\ UNCHANGED <<server, tables, sockets, toServer, estranged, clientVars, inputs>>

-----------------------------------------------------------------------------
\* Without its server nothing moves.
Next ==
    /\ server = "up"
    /\ \/ \E p \in Procs, f \in Fds : ServerStep(Accept(p, f))
       \/ \E f \in Fds : ServerStep(Serve(f))
       \/ \E p \in Procs :
              \/ connect_to(p)
              \/ \E m \in Commands : SendCommand(p, m)
              \/ \E k \in 1..Len(toClient[p]) : RecvReply(p, k) \/ receiveMessage(p, k)
              \/ SenderChecks(p) \/ sendMessage(p) \/ SetStop(p) \/ EndChat(p)
              \/ Quit(p)

Spec == Init /\ [][Next]_vars

\* select returns every ready descriptor and the loop visits them all; a client
\* that waits for a reply runs.
Fairness ==
    /\ \A p \in Procs :
           /\ WF_vars(server = "up" /\ \E f \in Fds : ServerStep(Accept(p, f)))
           /\ WF_vars(server = "up" /\ \E k \in 1..Len(toClient[p]) : RecvReply(p, k))
    /\ \A f \in Fds : WF_vars(server = "up" /\ ServerStep(Serve(f)))

FairSpec == Spec /\ Fairness

-----------------------------------------------------------------------------
(* Properties                                                               *)

\* The tables agree, though descriptors are closed and handed out again under
\* them: who is in chat mode is in one room, once, the room clients names; who
\* is not is in none.  So at() never throws.
TablesAgree ==
    /\ server # "thrown"
    /\ \A f \in chatmodeClients : f \in DOMAIN clients /\ clients[f] \in DOMAIN chatrooms
    /\ \A r \in DOMAIN chatrooms :
           /\ ToSet(chatrooms[r]) = {f \in chatmodeClients : clients[f] = r}
           /\ \A i, j \in DOMAIN chatrooms[r] : chatrooms[r][i] = chatrooms[r][j] => i = j

\* LIST shows the rooms there are, each once.
ListAgrees ==
    /\ ToSet(listChatrooms) = DOMAIN chatrooms
    /\ Len(listChatrooms) = Cardinality(DOMAIN chatrooms)

\* A client and the server agree that it is in chat mode, but for what is on
\* its way: the reply to its JOIN, or the warning.  Excepted are the estranged:
\* who got a descriptor that was still in a room, whose line came when the room
\* was gone, and whose warning came glued to another message.
ChatModeAgrees ==
    \A f \in Open :
        LET p == current_sockets[f]
        IN  p \notin estranged \cup hungup =>
              /\ f \in chatmodeClients =>
                     \/ phase[p] = "chat"
                     \/ /\ phase[p] = "waiting" /\ command[p].kind = "JOIN"
                        /\ toClient[p] # <<>> /\ toClient[p][1].status = "0"
              /\ phase[p] = "chat" =>
                     f \in chatmodeClients \/ Warning \in ToSet(toClient[p])

\* The same clients get the reply to the command they sent, never an earlier
\* one or a message of a room.
ReplyFits(p) ==
    phase[p] = "waiting" /\ toClient[p] # <<>> =>
        toClient[p][1].to = <<command[p]>>
RepliesFit == \A p \in Procs \ estranged : ReplyFits(p)

\* And they do get one, unless the server dies or they leave.
CommandsAnswered ==
    \A p \in Procs :
        phase[p] = "waiting" ~> \/ phase[p] # "waiting"
                                \/ p \in estranged \cup hungup
                                \/ server # "up"

\* The four tables and the streams implement Rooms: a seat is a descriptor, its
\* guest the process at the other end while it runs.  A line reaches all others
\* in the room of its descriptor, and nobody else; the warning reaches all in the
\* room that is deleted; every other message answers its sender.
Guest == [f \in {g \in Open : current_sockets[g] \notin hungup} |-> current_sockets[f]]
Place == [f \in chatmodeClients |-> clients[f]]
Heard(m) == IF m.kind = "reply" THEN m.status ELSE m.kind
Inbox == [p \in Procs |-> [i \in DOMAIN toClient[p] |-> Heard(toClient[p][i])]]

House == INSTANCE Rooms WITH
    Seats <- Fds, rooms <- DOMAIN chatrooms, at <- Place, guest <- Guest, inbox <- Inbox
RoomsSpec == House!Spec

\* "Send an input command to the server and return the result" (crc.cpp:97):
\* process_command returns the result of its command, for every client.
ReplyIsResult == \A p \in Procs : ReplyFits(p)
=============================================================================
