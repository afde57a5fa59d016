----------------------------- MODULE ChatServer -----------------------------
(***************************************************************************)
(* The chat server src/MP1/crsd.cpp: its select loop, its four tables of   *)
(* rooms and members, and the streams between it and the clients.          *)
(*                                                                         *)
(* One turn of the loop, for one ready descriptor, is one step: the server *)
(* is a single thread.  A stream keeps no boundaries between messages, so  *)
(* one recv may take several that wait; all of them together are then one  *)
(* command, whose first word decides and whose argument has the others     *)
(* glued to it.  A recv that takes part of a message is left out, and so   *)
(* are messages that do not fit the buffers, and commands without the      *)
(* argument they need.                                                     *)
(***************************************************************************)
EXTENDS Integers, Sequences, FiniteSets, SequencesExt

CONSTANTS
    Procs,    \* client processes; each connects once
    Names     \* what users type for the name of a room

ASSUME ChatServerAssumption == IsFiniteSet(Procs)

VARIABLES
    server,            \* "up", "thrown" (uncaught exception) or "killed" (SIGPIPE)
    chatrooms,         \* name -> sequence of descriptors
    clients,           \* descriptor -> name of its room
    listChatrooms,     \* sequence of names
    chatmodeClients,   \* set of descriptors
    current_sockets,   \* open descriptor -> the client at its other end
    backlog,           \* clients that connected and were not accepted yet
    bounced,           \* descriptors whose peer has refused a message
    toServer,          \* client -> messages on their way to the server
    toClient,          \* client -> messages on their way to the client
    hungup,            \* clients whose process is gone
    estranged          \* history: clients whose idea of being in chat mode may
                       \* differ from the server's for good

tables  == <<chatrooms, clients, listChatrooms, chatmodeClients>>
sockets == <<current_sockets, backlog, bounced>>
serverVars == <<server, tables, sockets, toServer, toClient, hungup, estranged>>

\* One descriptor for each client is enough: a client connects once.
Fds == 1..Cardinality(Procs)

NoName == ""
Commands == [kind : {"CREATE", "JOIN", "DELETE"}, name : Names]
              \cup [kind : {"LIST", "other"}, name : {NoName}]
ChatLine == [kind |-> "line", name |-> NoName]
Messages == Commands \cup {ChatLine}

\* What the server sends: "to" is what a reply answers.
Reply(st, s) == [kind |-> "reply", status |-> st, to |-> s]
Forwarded    == [kind |-> "line", status |-> "", to |-> <<>>]
Warning      == [kind |-> "warning", status |-> "", to |-> <<>>]
Statuses     == {"0", "1", "2", "3", "L"}

ServerTypeOK ==
    /\ server \in {"up", "thrown", "killed"}
    /\ DOMAIN clients \subseteq Fds
    /\ \A r \in DOMAIN chatrooms : chatrooms[r] \in Seq(Fds)
    /\ chatmodeClients \subseteq Fds
    /\ DOMAIN current_sockets \subseteq Fds
    /\ \A f \in DOMAIN current_sockets : current_sockets[f] \in Procs
    /\ backlog \subseteq Procs
    /\ bounced \subseteq Fds
    /\ toServer \in [Procs -> Seq(Messages)]
    /\ \A p \in Procs : \A i \in DOMAIN toClient[p] :
           /\ toClient[p][i].kind \in {"reply", "line", "warning"}
           /\ toClient[p][i].kind = "reply" => toClient[p][i].status \in Statuses
    /\ hungup \subseteq Procs
    /\ estranged \subseteq Procs

ServerInit ==
    /\ server = "up"
    /\ chatrooms = <<>>
    /\ clients = <<>>
    /\ listChatrooms = <<>>
    /\ chatmodeClients = {}
    /\ current_sockets = <<>>
    /\ backlog = {}
    /\ bounced = {}
    /\ toServer = [p \in Procs |-> <<>>]
    /\ toClient = [p \in Procs |-> <<>>]
    /\ hungup = {}
    /\ estranged = {}

Put(fun, k, v) == [x \in DOMAIN fun \cup {k} |-> IF x = k THEN v ELSE fun[x]]
Drop(fun, k)   == [x \in DOMAIN fun \ {k} |-> fun[x]]

-----------------------------------------------------------------------------
(* Sockets                                                                  *)

Open == DOMAIN current_sockets

\* A turn for descriptor f, whose recv takes the first k messages that wait:
\* they are the command the server sees.
Taken(f, k) == SubSeq(toServer[current_sockets[f]], 1, k)
Takes(f, k, kinds) ==
    /\ f \in Open
    /\ k \in 1..Len(toServer[current_sockets[f]])
    /\ toServer[current_sockets[f]][1].kind \in kinds
    /\ toServer' = [toServer EXCEPT ![current_sockets[f]] = SubSeq(@, k + 1, Len(@))]

RoomIn(s) == <<s[1].name>> \o Tail(s)

\* The server sends out[f] to each descriptor f of a set.  Where nothing is open
\* the send fails.  A client that is gone answers the first message with a
\* reset; the next one to it may raise SIGPIPE, which ends the server.
Send(out) ==
    LET deaf == {f \in DOMAIN out \cap Open : current_sockets[f] \in hungup}
        Gets(p, f) == f \in DOMAIN out \cap Open /\ current_sockets[f] = p
    IN  /\ toClient' = [p \in Procs |->
               IF p \notin hungup /\ \E f \in Fds : Gets(p, f)
               THEN Append(toClient[p], out[CHOOSE f \in Fds : Gets(p, f)])
               ELSE toClient[p]]
        /\ bounced' = bounced \cup deaf
        /\ server' \in {"up"} \cup (IF deaf \cap bounced = {} THEN {} ELSE {"killed"})

Answer(f, st, s) == Send([g \in {f} |-> Reply(st, s)])

\* accept hands out the lowest free descriptor.
Accept(p, f) ==
    /\ p \in backlog
    /\ backlog' = backlog \ {p}
    /\ f \in Fds \ Open
    /\ \A g \in Fds \ Open : f <= g
    /\ current_sockets' = Put(current_sockets, f, p)
    /\ estranged' = IF f \in chatmodeClients THEN estranged \cup {p} ELSE estranged
    /\ UNCHANGED <<server, tables, bounced, toServer, toClient, hungup>>

\* recv returns 0: the descriptor is closed, and stays in the tables.
Close(f) ==
    /\ f \in Open
    /\ current_sockets[f] \in hungup
    /\ toServer[current_sockets[f]] = <<>>
    /\ current_sockets' = Drop(current_sockets, f)
    /\ bounced' = bounced \ {f}
    /\ UNCHANGED <<server, tables, backlog, toServer, toClient, hungup, estranged>>

-----------------------------------------------------------------------------
(* Commands of a descriptor that is not in chat mode                        *)

Create(f, k) ==
    /\ f \notin chatmodeClients
    /\ Takes(f, k, {"CREATE"})
    /\ LET s == Taken(f, k)
           r == RoomIn(s)
       IN  IF r \in DOMAIN chatrooms
           THEN Answer(f, "1", s) /\ UNCHANGED <<chatrooms, listChatrooms>>
           ELSE /\ chatrooms' = Put(chatrooms, r, <<>>)
                /\ listChatrooms' = Append(listChatrooms, r)
                /\ Answer(f, "0", s)
    /\ UNCHANGED <<clients, chatmodeClients, current_sockets, backlog, hungup, estranged>>

\* Mutant: the members of the room stay as they were.
BugJoined(r, f) == chatrooms[r]

Joined(r, f) == Append(chatrooms[r], f)

\* Mutant: it is not answered.
BugWelcome(f, s) == UNCHANGED <<server, bounced, toClient>>

Welcome(f, s) == Answer(f, "0", s)

Join(f, k) ==
    /\ f \notin chatmodeClients
    /\ Takes(f, k, {"JOIN"})
    /\ LET s == Taken(f, k)
           r == RoomIn(s)
       IN  IF r \notin DOMAIN chatrooms
           THEN Answer(f, "2", s) /\ UNCHANGED <<chatrooms, clients, chatmodeClients>>
           ELSE /\ clients' = Put(clients, f, r)
                /\ chatrooms' = Put(chatrooms, r, Joined(r, f))
                /\ chatmodeClients' = chatmodeClients \cup {f}
                /\ Welcome(f, s)
    /\ UNCHANGED <<listChatrooms, current_sockets, backlog, hungup, estranged>>

\* Mutant: the name stays in the list.
BugUnlisted(r) == listChatrooms

Unlisted(r) == RemoveFirst(listChatrooms, r)

\* Mutants: nobody is warned; everybody connected is.
BugWarnsNone(r) == {}
BugWarnsAll(r) == Open

Warned(r) == ToSet(chatrooms[r])

\* Everybody in the room leaves chat mode and is told; the answer comes last.
\* Of clients only the entry of the caller is erased.
Delete(f, k) ==
    /\ f \notin chatmodeClients
    /\ Takes(f, k, {"DELETE"})
    /\ LET s == Taken(f, k)
           r == RoomIn(s)
       IN  IF r \notin DOMAIN chatrooms
           THEN Answer(f, "2", s) /\ UNCHANGED tables
           ELSE /\ chatmodeClients' = chatmodeClients \ ToSet(chatrooms[r])
                /\ Send([g \in Warned(r) \cup {f} |->
                           IF g = f THEN Reply("0", s) ELSE Warning])
                /\ listChatrooms' = Unlisted(r)
                /\ chatrooms' = Drop(chatrooms, r)
                /\ clients' = Drop(clients, f)
    /\ UNCHANGED <<current_sockets, backlog, hungup, estranged>>

List(f, k) ==
    /\ f \notin chatmodeClients
    /\ Takes(f, k, {"LIST"})
    /\ Answer(f, "L", Taken(f, k))
    /\ UNCHANGED <<tables, current_sockets, backlog, hungup, estranged>>

\* Mutant: an answer without a status.
BugInvalidStatus == ""

InvalidStatus == "3"

\* Whatever else it is, a line meant for a room that is gone included.
Invalid(f, k) ==
    /\ f \notin chatmodeClients
    /\ Takes(f, k, {"line", "other"})
    /\ Answer(f, InvalidStatus, Taken(f, k))
    /\ estranged' = IF Taken(f, k)[1] = ChatLine
                    THEN estranged \cup {current_sockets[f]} ELSE estranged
    /\ UNCHANGED <<tables, current_sockets, backlog, hungup>>

-----------------------------------------------------------------------------
(* Chat mode: whatever is taken goes to the others in the room, unanswered.  *)
(* clients.at and chatrooms.at throw where there is no entry.                *)

\* Mutant: who speaks is sent his own line.
BugOthers(f) == ToSet(chatrooms[clients[f]])

Others(f) == ToSet(chatrooms[clients[f]]) \ {f}

Chat(f, k) ==
    /\ f \in chatmodeClients
    /\ Takes(f, k, {"CREATE", "JOIN", "DELETE", "LIST", "line", "other"})
    /\ IF f \in DOMAIN clients /\ clients[f] \in DOMAIN chatrooms
       THEN Send([g \in Others(f) |-> Forwarded])
       ELSE server' = "thrown" /\ UNCHANGED <<toClient, bounced>>
    /\ UNCHANGED <<tables, current_sockets, backlog, hungup, estranged>>

\* A turn of the select loop for descriptor f.
Serve(f) ==
    \/ Close(f)
    \/ f \in Open /\ \E k \in 1..Len(toServer[current_sockets[f]]) :
           \/ Create(f, k) \/ Join(f, k) \/ Delete(f, k)
           \/ List(f, k) \/ Invalid(f, k) \/ Chat(f, k)
=============================================================================
