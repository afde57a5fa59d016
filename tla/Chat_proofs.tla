---------------------------- MODULE Chat_proofs ----------------------------
(***************************************************************************)
(* Theorems about Chat, for any number of clients, names and typed lines.  *)
(***************************************************************************)
EXTENDS Chat, FiniteSetTheorems, TLAPS

\* The part of the type invariant the proof needs.
TablesTyped ==
    /\ chatmodeClients \subseteq Fds
    /\ \A r \in DOMAIN chatrooms : chatrooms[r] \in Seq(Fds)

TablesInv == TablesTyped /\ TablesAgree

\* What a step that does not touch the tables has to keep.
TablesKept == UNCHANGED tables /\ server' # "thrown"

-----------------------------------------------------------------------------
(* Lemmas                                                                   *)

\* A message sent never throws.
LEMMA SendSafe ==
    ASSUME NEW out, Send(out)
    PROVE  server' # "thrown"
  BY DEF Send

\* So is an answer.
LEMMA AnswerSafe ==
    ASSUME NEW f, NEW st, NEW s, Answer(f, st, s)
    PROVE  server' # "thrown"
  BY SendSafe DEF Answer

\* The invariant speaks of the tables and of a throw only.
LEMMA KeptPreserves ==
    ASSUME TablesInv, TablesKept
    PROVE  TablesInv'
  BY DEF TablesInv, TablesTyped, TablesAgree, TablesKept, tables, ToSet, Fds

\* Appending to a sequence adds to the set of its elements.
LEMMA AppendSet ==
    ASSUME NEW S, NEW s \in Seq(S), NEW e
    PROVE  /\ ToSet(Append(s, e)) = ToSet(s) \cup {e}
           /\ DOMAIN Append(s, e) = 1..(Len(s) + 1)
           /\ \A i \in 1..Len(s) : Append(s, e)[i] = s[i]
           /\ Append(s, e)[Len(s) + 1] = e
  <1>1. /\ DOMAIN Append(s, e) = 1..(Len(s) + 1)
        /\ DOMAIN s = 1..Len(s)
        /\ Len(s) \in Nat
        /\ \A i \in 1..Len(s) : Append(s, e)[i] = s[i]
        /\ Append(s, e)[Len(s) + 1] = e
    OBVIOUS
  <1>2. ToSet(Append(s, e)) = ToSet(s) \cup {e}
    BY <1>1 DEF ToSet
  <1>3. QED
    BY <1>1, <1>2

-----------------------------------------------------------------------------
(* The handlers that change a table                                         *)

\* CREATE makes a room nobody is in.
LEMMA CreatePreserves ==
    ASSUME TablesInv, NEW f \in Fds, NEW k, Create(f, k)
    PROVE  TablesInv'
  <1> DEFINE r == RoomIn(Taken(f, k))
  <1>1. CASE r \in DOMAIN chatrooms
    <2>1. TablesKept
      BY <1>1, AnswerSafe DEF Create, TablesKept, tables
    <2>2. QED
      BY <2>1, KeptPreserves
  <1>2. CASE r \notin DOMAIN chatrooms
    <2>1. /\ chatrooms' = Put(chatrooms, r, <<>>)
          /\ clients' = clients /\ chatmodeClients' = chatmodeClients
          /\ server' # "thrown"
      BY <1>2, AnswerSafe DEF Create
    <2>2. /\ DOMAIN chatrooms' = DOMAIN chatrooms \cup {r}
          /\ chatrooms'[r] = <<>>
          /\ \A q \in DOMAIN chatrooms : chatrooms'[q] = chatrooms[q]
      BY <1>2, <2>1 DEF Put
    <2>3. TablesTyped'
      <3>1. ASSUME NEW q \in DOMAIN chatrooms' PROVE chatrooms'[q] \in Seq(Fds)
        <4>1. <<>> \in Seq(Fds)
          OBVIOUS
        <4>2. QED
          BY <2>2, <3>1, <4>1 DEF TablesInv, TablesTyped
      <3>2. QED
        BY <2>1, <3>1 DEF TablesInv, TablesTyped
    <2>4. {g \in chatmodeClients : clients[g] = r} = {}
      BY <1>2 DEF TablesInv, TablesAgree
    <2>5. TablesAgree'
      BY <2>1, <2>2, <2>4 DEF TablesInv, TablesAgree, ToSet
    <2>6. QED
      BY <2>3, <2>5 DEF TablesInv
  <1>3. QED
    BY <1>1, <1>2

\* JOIN adds a descriptor that was in no room to one.
LEMMA JoinPreserves ==
    ASSUME TablesInv, NEW f \in Fds, NEW k, Join(f, k)
    PROVE  TablesInv'
  <1> DEFINE r == RoomIn(Taken(f, k))
  <1>1. CASE r \notin DOMAIN chatrooms
    <2>1. TablesKept
      BY <1>1, AnswerSafe DEF Join, Joined, Welcome, TablesKept, tables
    <2>2. QED
      BY <2>1, KeptPreserves
  <1>2. CASE r \in DOMAIN chatrooms
    <2>1. /\ f \notin chatmodeClients
          /\ clients' = Put(clients, f, r)
          /\ chatrooms' = Put(chatrooms, r, Append(chatrooms[r], f))
          /\ chatmodeClients' = chatmodeClients \cup {f}
          /\ server' # "thrown"
      BY <1>2, AnswerSafe DEF Join, Joined, Welcome
    <2>2. /\ DOMAIN chatrooms' = DOMAIN chatrooms
          /\ chatrooms'[r] = Append(chatrooms[r], f)
          /\ \A q \in DOMAIN chatrooms : q # r => chatrooms'[q] = chatrooms[q]
          /\ DOMAIN clients' = DOMAIN clients \cup {f}
          /\ clients'[f] = r
          /\ \A g \in DOMAIN clients : g # f => clients'[g] = clients[g]
      BY <1>2, <2>1 DEF Put
    <2>3. chatrooms[r] \in Seq(Fds)
      BY <1>2 DEF TablesInv, TablesTyped
    <2>4. /\ ToSet(chatrooms'[r]) = ToSet(chatrooms[r]) \cup {f}
          /\ DOMAIN chatrooms'[r] = 1..(Len(chatrooms[r]) + 1)
          /\ \A i \in 1..Len(chatrooms[r]) : chatrooms'[r][i] = chatrooms[r][i]
          /\ chatrooms'[r][Len(chatrooms[r]) + 1] = f
      BY <2>2, <2>3, AppendSet
    <2>5. TablesTyped'
      <3>1. Append(chatrooms[r], f) \in Seq(Fds)
        BY <2>3
      <3>2. ASSUME NEW q \in DOMAIN chatrooms' PROVE chatrooms'[q] \in Seq(Fds)
        BY <2>2, <3>1, <3>2 DEF TablesInv, TablesTyped
      <3>3. QED
        BY <2>1, <3>2 DEF TablesInv, TablesTyped
    <2>6. \A g \in chatmodeClients : clients'[g] = clients[g]
      BY <2>1, <2>2 DEF TablesInv, TablesAgree
    <2>7. \A g \in chatmodeClients' : g \in DOMAIN clients' /\ clients'[g] \in DOMAIN chatrooms'
      BY <1>2, <2>1, <2>2, <2>6 DEF TablesInv, TablesAgree
    <2>8. ASSUME NEW q \in DOMAIN chatrooms'
          PROVE  ToSet(chatrooms'[q]) = {g \in chatmodeClients' : clients'[g] = q}
      <3>1. ToSet(chatrooms[q]) = {g \in chatmodeClients : clients[g] = q}
        BY <2>2, <2>8 DEF TablesInv, TablesAgree
      <3>2. CASE q = r
        BY <2>1, <2>2, <2>4, <2>6, <3>1, <3>2
      <3>3. CASE q # r
        <4>1. ToSet(chatrooms'[q]) = ToSet(chatrooms[q])
          BY <2>2, <2>8, <3>3
        <4>2. QED
          BY <2>1, <2>2, <2>6, <3>1, <3>3, <4>1
      <3>4. QED
        BY <3>2, <3>3
    <2>9. \A i \in DOMAIN chatrooms[r] : chatrooms[r][i] # f
      BY <1>2, <2>1 DEF TablesInv, TablesAgree, ToSet
    <2>10. ASSUME NEW q \in DOMAIN chatrooms',
                  NEW i \in DOMAIN chatrooms'[q], NEW j \in DOMAIN chatrooms'[q],
                  chatrooms'[q][i] = chatrooms'[q][j]
           PROVE  i = j
      <3>1. CASE q # r
        BY <2>2, <2>10, <3>1 DEF TablesInv, TablesAgree
      <3>2. CASE q = r
        <4>1. DOMAIN chatrooms[r] = 1..Len(chatrooms[r]) /\ Len(chatrooms[r]) \in Nat
          BY <2>3
        <4>2. /\ i \in 1..Len(chatrooms[r]) \/ i = Len(chatrooms[r]) + 1
              /\ j \in 1..Len(chatrooms[r]) \/ j = Len(chatrooms[r]) + 1
          BY <2>4, <2>10, <3>2, <4>1
        <4>3. QED
          BY <1>2, <2>4, <2>9, <2>10, <3>2, <4>1, <4>2 DEF TablesInv, TablesAgree
      <3>3. QED
        BY <3>1, <3>2
    <2>11. TablesAgree'
      BY <2>1, <2>7, <2>8, <2>10 DEF TablesAgree
    <2>12. QED
      BY <2>5, <2>11 DEF TablesInv
  <1>3. QED
    BY <1>1, <1>2

\* DELETE takes a room away with everybody in it.  The caller is in none, so its
\* entry in clients is of no use to anyone.
LEMMA DeletePreserves ==
    ASSUME TablesInv, NEW f \in Fds, NEW k, Delete(f, k)
    PROVE  TablesInv'
  <1> DEFINE r == RoomIn(Taken(f, k))
  <1>1. CASE r \notin DOMAIN chatrooms
    <2>1. TablesKept
      BY <1>1, AnswerSafe DEF Delete, Warned, Unlisted, TablesKept
    <2>2. QED
      BY <2>1, KeptPreserves
  <1>2. CASE r \in DOMAIN chatrooms
    <2>1. /\ f \notin chatmodeClients
          /\ chatmodeClients' = chatmodeClients \ ToSet(chatrooms[r])
          /\ chatrooms' = Drop(chatrooms, r)
          /\ clients' = Drop(clients, f)
          /\ server' # "thrown"
      BY <1>2, SendSafe DEF Delete, Warned, Unlisted
    <2>2. /\ DOMAIN chatrooms' = DOMAIN chatrooms \ {r}
          /\ \A q \in DOMAIN chatrooms' : chatrooms'[q] = chatrooms[q]
          /\ DOMAIN clients' = DOMAIN clients \ {f}
          /\ \A g \in DOMAIN clients' : clients'[g] = clients[g]
      BY <2>1 DEF Drop
    <2>3. chatmodeClients' = {g \in chatmodeClients : clients[g] # r}
      BY <1>2, <2>1 DEF TablesInv, TablesAgree
    <2>4. \A g \in chatmodeClients' : g \in DOMAIN clients' /\ clients'[g] = clients[g]
      BY <2>1, <2>2, <2>3 DEF TablesInv, TablesAgree
    <2>5. TablesTyped'
      BY <2>1, <2>2 DEF TablesInv, TablesTyped, Fds
    <2>6. TablesAgree'
      BY <2>1, <2>2, <2>3, <2>4 DEF TablesInv, TablesAgree
    <2>7. QED
      BY <2>5, <2>6 DEF TablesInv
  <1>3. QED
    BY <1>1, <1>2

\* Chat mode: both at() find what they look for.
LEMMA ChatPreserves ==
    ASSUME TablesInv, NEW f \in Fds, NEW k, Chat(f, k)
    PROVE  TablesInv'
  <1>1. f \in DOMAIN clients /\ clients[f] \in DOMAIN chatrooms
    BY DEF Chat, TablesInv, TablesAgree
  <1>2. TablesKept
    BY <1>1, SendSafe DEF Chat, TablesKept
  <1>3. QED
    BY <1>2, KeptPreserves

-----------------------------------------------------------------------------
\* One turn of the select loop.
LEMMA ServePreserves ==
    ASSUME TablesInv, server = "up", NEW f \in Fds, Serve(f)
    PROVE  TablesInv'
  <1>1. CASE Close(f)
    BY <1>1, KeptPreserves DEF Close, TablesKept
  <1>2. ASSUME NEW k, Create(f, k) PROVE TablesInv'
    BY <1>2, CreatePreserves
  <1>3. ASSUME NEW k, Join(f, k) PROVE TablesInv'
    BY <1>3, JoinPreserves
  <1>4. ASSUME NEW k, Delete(f, k) PROVE TablesInv'
    BY <1>4, DeletePreserves
  <1>5. ASSUME NEW k, List(f, k) PROVE TablesInv'
    <2>1. TablesKept
      BY <1>5, AnswerSafe DEF List, TablesKept
    <2>2. QED
      BY <2>1, KeptPreserves
  <1>6. ASSUME NEW k, Invalid(f, k) PROVE TablesInv'
    <2>1. TablesKept
      BY <1>6, AnswerSafe DEF Invalid, InvalidStatus, TablesKept
    <2>2. QED
      BY <2>1, KeptPreserves
  <1>7. ASSUME NEW k, Chat(f, k) PROVE TablesInv'
    BY <1>7, ChatPreserves
  <1>8. QED
    BY <1>1, <1>2, <1>3, <1>4, <1>5, <1>6, <1>7 DEF Serve

\* A client touches no table.
LEMMA ClientKeeps ==
    ASSUME server = "up", NEW p \in Procs,
           \/ connect_to(p)
           \/ \E m \in Commands : SendCommand(p, m)
           \/ \E k \in 1..Len(toClient[p]) : RecvReply(p, k) \/ receiveMessage(p, k)
           \/ SenderChecks(p) \/ sendMessage(p) \/ SetStop(p) \/ EndChat(p)
           \/ Quit(p)
    PROVE  TablesKept
  BY DEF connect_to, SendCommand, RecvReply, receiveMessage, SenderChecks, sendMessage,
         SetStop, EndChat, Quit, TablesKept, serverVars

LEMMA NextPreserves ==
    ASSUME TablesInv, Next
    PROVE  TablesInv'
  <1>1. server = "up"
    BY DEF Next
  <1>2. CASE \E p \in Procs, f \in Fds : ServerStep(Accept(p, f))
    <2>1. TablesKept
      BY <1>1, <1>2 DEF ServerStep, Accept, TablesKept
    <2>2. QED
      BY <2>1, KeptPreserves
  <1>3. CASE \E f \in Fds : ServerStep(Serve(f))
    BY <1>1, <1>3, ServePreserves DEF ServerStep
  <1>4. CASE \E p \in Procs :
                \/ connect_to(p)
                \/ \E m \in Commands : SendCommand(p, m)
                \/ \E k \in 1..Len(toClient[p]) : RecvReply(p, k) \/ receiveMessage(p, k)
                \/ SenderChecks(p) \/ sendMessage(p) \/ SetStop(p) \/ EndChat(p)
                \/ Quit(p)
    <2>1. TablesKept
      BY <1>1, <1>4, ClientKeeps
    <2>2. QED
      BY <2>1, KeptPreserves
  <1>5. QED
    BY <1>2, <1>3, <1>4 DEF Next

-----------------------------------------------------------------------------
LEMMA TablesInvariant == Spec => []TablesInv
  <1>1. Init => TablesInv
    BY DEF Init, ServerInit, TablesInv, TablesTyped, TablesAgree
  <1>2. TablesInv /\ [Next]_vars => TablesInv'
    <2>1. ASSUME TablesInv, UNCHANGED vars PROVE TablesInv'
      BY <2>1 DEF vars, serverVars, tables, TablesInv, TablesTyped, TablesAgree, ToSet, Fds
    <2>2. QED
      BY <2>1, NextPreserves
  <1>3. QED
    BY <1>1, <1>2, PTL DEF Spec

\* The server's tables agree with each other at any time, whoever comes, goes,
\* or gets the descriptor of another: at() in crsd.cpp never throws.
THEOREM TablesAlwaysAgree == Spec => []TablesAgree
  <1>1. TablesInv => TablesAgree
    BY DEF TablesInv
  <1>2. QED
    BY <1>1, TablesInvariant, PTL

-----------------------------------------------------------------------------
(***************************************************************************)
(* Types.  The type invariant says of a message to a client what the model *)
(* tells apart only; a step needs that those messages are a sequence, and  *)
(* of what.                                                                *)
(***************************************************************************)

Outgoing == [kind : {"reply"}, status : Statuses, to : Seq(Messages)]
              \cup {Forwarded, Warning}

\* Without the rooms and who is in them, of which TablesTyped speaks.
StreamsTyped ==
    /\ server \in {"up", "thrown", "killed"}
    /\ DOMAIN clients \subseteq Fds
    /\ DOMAIN current_sockets \subseteq Fds
    /\ \A f \in DOMAIN current_sockets : current_sockets[f] \in Procs
    /\ backlog \subseteq Procs
    /\ bounced \subseteq Fds
    /\ toServer \in [Procs -> Seq(Messages)]
    /\ toClient \in [Procs -> Seq(Outgoing)]
    /\ hungup \subseteq Procs
    /\ estranged \subseteq Procs

ClientsTyped ==
    /\ phase \in [Procs -> {"new", "command", "waiting", "chat", "leaving"}]
    /\ command \in [Procs -> Messages]
    /\ sender \in [Procs -> {"off", "check", "typing"}]
    /\ stop \in [Procs -> BOOLEAN]
    /\ inputs \in 0..MaxInputs

TypeInv == StreamsTyped /\ ClientsTyped

\* What is left of a stream after the first k messages.
LEMMA RestOfStream ==
    ASSUME NEW S, NEW s \in Seq(S), NEW k \in 1..Len(s)
    PROVE  /\ SubSeq(s, k + 1, Len(s)) \in Seq(S)
           /\ Len(SubSeq(s, k + 1, Len(s))) = Len(s) - k
           /\ \A i \in 1..(Len(s) - k) : SubSeq(s, k + 1, Len(s))[i] = s[k + i]
  <1>1. Len(s) \in Nat /\ k \in Nat
    OBVIOUS
  <1>2. SubSeq(s, k + 1, Len(s)) = [i \in 1..(Len(s) - k) |-> s[k + i]]
    BY <1>1
  <1>3. \A i \in 1..(Len(s) - k) : s[k + i] \in S
    BY <1>1
  <1>4. QED
    BY <1>1, <1>2, <1>3

\* What a recv of the server takes is a sequence of messages, and not empty.
LEMMA TakenTyped ==
    ASSUME StreamsTyped, NEW f \in Open, NEW k \in 1..Len(toServer[current_sockets[f]])
    PROVE  /\ Taken(f, k) \in Seq(Messages)
           /\ Len(Taken(f, k)) = k
           /\ \A i \in 1..k : Taken(f, k)[i] = toServer[current_sockets[f]][i]
  <1> DEFINE s == toServer[current_sockets[f]]
  <1>1. s \in Seq(Messages)
    BY DEF StreamsTyped, Open
  <1> HIDE DEF s
  <1>2. Len(s) \in Nat /\ k \in 1..Len(s)
    BY <1>1 DEF s
  <1>3. SubSeq(s, 1, k) = [i \in 1..k |-> s[i]]
    BY <1>1, <1>2
  <1>4. \A i \in 1..k : s[i] \in Messages
    BY <1>1, <1>2
  <1>5. /\ SubSeq(s, 1, k) \in Seq(Messages)
        /\ Len(SubSeq(s, 1, k)) = k
        /\ \A i \in 1..k : SubSeq(s, 1, k)[i] = s[i]
    BY <1>2, <1>3, <1>4
  <1>6. QED
    BY <1>5 DEF Taken, s

\* And it leaves a sequence behind.
LEMMA TakesTyped ==
    ASSUME StreamsTyped, NEW f, NEW k, NEW kinds, Takes(f, k, kinds)
    PROVE  toServer' \in [Procs -> Seq(Messages)]
  <1> DEFINE p == current_sockets[f]
  <1>1. p \in Procs /\ toServer[p] \in Seq(Messages) /\ k \in 1..Len(toServer[p])
    BY DEF Takes, Open, StreamsTyped
  <1>2. SubSeq(toServer[p], k + 1, Len(toServer[p])) \in Seq(Messages)
    BY <1>1, RestOfStream
  <1>3. QED
    BY <1>1, <1>2 DEF Takes, StreamsTyped

\* A send appends what it is given, at most one message to each client.
LEMMA SendTyped ==
    ASSUME StreamsTyped,
           NEW out, \A g \in DOMAIN out : out[g] \in Outgoing,
           Send(out)
    PROVE  /\ toClient' \in [Procs -> Seq(Outgoing)]
           /\ bounced' \subseteq Fds
           /\ server' \in {"up", "killed"}
  <1> DEFINE Gets(p, f) == f \in DOMAIN out \cap Open /\ current_sockets[f] = p
             Chosen(p) == CHOOSE f \in Fds : Gets(p, f)
  <1>1. toClient' = [p \in Procs |->
               IF p \notin hungup /\ \E f \in Fds : Gets(p, f)
               THEN Append(toClient[p], out[Chosen(p)])
               ELSE toClient[p]]
    BY DEF Send
  <1>2. ASSUME NEW p \in Procs, \E f \in Fds : Gets(p, f)
        PROVE  out[Chosen(p)] \in Outgoing
    <2>1. Gets(p, Chosen(p))
      BY <1>2
    <2>2. QED
      BY <2>1
  <1>3. ASSUME NEW p \in Procs PROVE toClient[p] \in Seq(Outgoing)
    BY DEF StreamsTyped
  <1> HIDE DEF Gets, Chosen
  <1>4. ASSUME NEW p \in Procs, \E f \in Fds : Gets(p, f)
        PROVE  Append(toClient[p], out[Chosen(p)]) \in Seq(Outgoing)
    BY <1>2, <1>3, <1>4
  <1>5. toClient' \in [Procs -> Seq(Outgoing)]
    BY <1>1, <1>3, <1>4
  <1>6. bounced' \subseteq Fds /\ server' \in {"up", "killed"}
    BY DEF Send, StreamsTyped, Open
  <1>7. QED
    BY <1>5, <1>6

LEMMA AnswerTyped ==
    ASSUME StreamsTyped,
           NEW f, NEW st \in Statuses, NEW s \in Seq(Messages), Answer(f, st, s)
    PROVE  /\ toClient' \in [Procs -> Seq(Outgoing)]
           /\ bounced' \subseteq Fds
           /\ server' \in {"up", "killed"}
  <1> DEFINE out == [g \in {f} |-> Reply(st, s)]
  <1>1. \A g \in DOMAIN out : out[g] \in Outgoing
    BY DEF Outgoing, Reply
  <1>2. Send(out)
    BY DEF Answer
  <1> HIDE DEF out
  <1>3. QED
    BY <1>1, <1>2, SendTyped

\* A turn of the server moves no client.
LEMMA ServeTyped ==
    ASSUME StreamsTyped, NEW f \in Fds, Serve(f), server = "up"
    PROVE  StreamsTyped'
  <1>1. CASE Close(f)
    BY <1>1 DEF Close, StreamsTyped, Drop, Open, tables, Fds
  <1>2. ASSUME NEW k, NEW kinds, Takes(f, k, kinds),
               toClient' \in [Procs -> Seq(Outgoing)],
               bounced' \subseteq Fds,
               server' \in {"up", "thrown", "killed"},
               DOMAIN clients' \subseteq Fds,
               estranged' \subseteq Procs,
               UNCHANGED <<current_sockets, backlog, hungup>>
        PROVE  StreamsTyped'
    <2>1. toServer' \in [Procs -> Seq(Messages)]
      BY <1>2, TakesTyped
    <2>2. QED
      BY <1>2, <2>1 DEF StreamsTyped, Fds
  <1>3. ASSUME NEW k, NEW kinds, Takes(f, k, kinds)
        PROVE  /\ Taken(f, k) \in Seq(Messages)
               /\ current_sockets[f] \in Procs
    <2>1. f \in Open /\ k \in 1..Len(toServer[current_sockets[f]])
      BY <1>3 DEF Takes
    <2>2. QED
      BY <2>1, TakenTyped DEF StreamsTyped, Open
  <1>4. DOMAIN clients \subseteq Fds /\ bounced \subseteq Fds /\ estranged \subseteq Procs
        /\ toClient \in [Procs -> Seq(Outgoing)]
    BY DEF StreamsTyped
  <1>5. ASSUME NEW k, NEW st \in Statuses, NEW kinds, Takes(f, k, kinds),
               Answer(f, st, Taken(f, k))
        PROVE  /\ toClient' \in [Procs -> Seq(Outgoing)]
               /\ bounced' \subseteq Fds
               /\ server' \in {"up", "thrown", "killed"}
    BY <1>3, <1>5, AnswerTyped
  <1>6. {"0", "1", "2", "3", "L"} = Statuses
    BY DEF Statuses
  <1>7. ASSUME NEW k, Create(f, k) PROVE StreamsTyped'
    <2>1. Takes(f, k, {"CREATE"})
      BY <1>7 DEF Create
    <2>2. Answer(f, "0", Taken(f, k)) \/ Answer(f, "1", Taken(f, k))
      BY <1>7 DEF Create
    <2>3. UNCHANGED <<clients, current_sockets, backlog, hungup, estranged>>
      BY <1>7 DEF Create
    <2>4. QED
      BY <1>2, <1>4, <1>5, <1>6, <2>1, <2>2, <2>3
  <1>8. ASSUME NEW k, Join(f, k) PROVE StreamsTyped'
    <2>1. Takes(f, k, {"JOIN"})
      BY <1>8 DEF Join
    <2>2. Answer(f, "0", Taken(f, k)) \/ Answer(f, "2", Taken(f, k))
      BY <1>8 DEF Join, Welcome
    <2>3. UNCHANGED <<current_sockets, backlog, hungup, estranged>>
      BY <1>8 DEF Join
    <2>4. DOMAIN clients' \subseteq Fds
      BY <1>4, <1>8 DEF Join, Put
    <2>5. QED
      BY <1>2, <1>4, <1>5, <1>6, <2>1, <2>2, <2>3, <2>4
  <1>9. ASSUME NEW k, Delete(f, k) PROVE StreamsTyped'
    <2> DEFINE r == RoomIn(Taken(f, k))
               out == [g \in Warned(r) \cup {f} |->
                          IF g = f THEN Reply("0", Taken(f, k)) ELSE Warning]
    <2>1. Takes(f, k, {"DELETE"})
      BY <1>9 DEF Delete
    <2>2. /\ toClient' \in [Procs -> Seq(Outgoing)]
          /\ bounced' \subseteq Fds
          /\ server' \in {"up", "thrown", "killed"}
      <3>1. CASE r \notin DOMAIN chatrooms
        <4>1. Answer(f, "2", Taken(f, k))
          BY <1>9, <3>1 DEF Delete
        <4>2. QED
          BY <1>5, <1>6, <2>1, <4>1
      <3>2. CASE r \in DOMAIN chatrooms
        <4>1. Send(out)
          BY <1>9, <3>2 DEF Delete
        <4>2. Taken(f, k) \in Seq(Messages)
          BY <1>3, <2>1
        <4>3. \A g \in DOMAIN out : out[g] \in Outgoing
          BY <1>6, <4>2 DEF Outgoing, Reply
        <4> HIDE DEF out
        <4>4. QED
          BY <4>1, <4>3, SendTyped
      <3>3. QED
        BY <3>1, <3>2
    <2>3. UNCHANGED <<current_sockets, backlog, hungup, estranged>>
      BY <1>9 DEF Delete
    <2>4. DOMAIN clients' \subseteq Fds
      BY <1>4, <1>9 DEF Delete, Drop, tables
    <2>5. QED
      BY <1>2, <1>4, <2>1, <2>2, <2>3, <2>4
  <1>10. ASSUME NEW k, List(f, k) PROVE StreamsTyped'
    <2>1. /\ Takes(f, k, {"LIST"})
          /\ Answer(f, "L", Taken(f, k))
          /\ UNCHANGED <<clients, current_sockets, backlog, hungup, estranged>>
      BY <1>10 DEF List, tables
    <2>2. QED
      BY <1>2, <1>4, <1>5, <1>6, <2>1
  <1>11. ASSUME NEW k, Invalid(f, k) PROVE StreamsTyped'
    <2>1. /\ Takes(f, k, {"line", "other"})
          /\ Answer(f, "3", Taken(f, k))
          /\ UNCHANGED <<clients, current_sockets, backlog, hungup>>
          /\ estranged' \in {estranged, estranged \cup {current_sockets[f]}}
      BY <1>11 DEF Invalid, InvalidStatus, tables
    <2>2. estranged' \subseteq Procs
      BY <1>3, <1>4, <2>1
    <2>3. QED
      BY <1>2, <1>4, <1>5, <1>6, <2>1, <2>2
  <1>12. ASSUME NEW k, Chat(f, k) PROVE StreamsTyped'
    <2> DEFINE out == [g \in ToSet(chatrooms[clients[f]]) \ {f} |-> Forwarded]
    <2>1. PICK kinds : Takes(f, k, kinds)
      BY <1>12 DEF Chat
    <2>2. UNCHANGED <<clients, current_sockets, backlog, hungup, estranged>>
      BY <1>12 DEF Chat, tables
    <2>3. \/ Send(out)
          \/ server' = "thrown" /\ UNCHANGED <<toClient, bounced>>
      BY <1>12 DEF Chat, Others
    <2>4. \A g \in DOMAIN out : out[g] \in Outgoing
      BY DEF Outgoing
    <2> HIDE DEF out
    <2>5. /\ toClient' \in [Procs -> Seq(Outgoing)]
          /\ bounced' \subseteq Fds
          /\ server' \in {"up", "thrown", "killed"}
      BY <1>4, <2>3, <2>4, SendTyped
    <2>6. QED
      BY <1>2, <1>4, <2>1, <2>2, <2>5
  <1>13. QED
    BY <1>1, <1>7, <1>8, <1>9, <1>10, <1>11, <1>12 DEF Serve

LEMMA AcceptTyped ==
    ASSUME StreamsTyped, NEW p \in Procs, NEW f \in Fds, Accept(p, f)
    PROVE  StreamsTyped'
  BY DEF Accept, StreamsTyped, Put, Open, tables, Fds

\* What the rest of a message to a client says.
LEMMA RecvTyped ==
    ASSUME StreamsTyped, NEW p \in Procs, NEW k, Receives(p, k)
    PROVE  toClient' \in [Procs -> Seq(Outgoing)] /\ estranged' \subseteq Procs
  <1>1. toClient[p] \in Seq(Outgoing) /\ k \in 1..Len(toClient[p])
    BY DEF Receives, StreamsTyped
  <1>2. SubSeq(toClient[p], k + 1, Len(toClient[p])) \in Seq(Outgoing)
    BY <1>1, RestOfStream
  <1>3. QED
    BY <1>2 DEF Receives, StreamsTyped

LEMMA SendsTyped ==
    ASSUME TypeInv, NEW p \in Procs, NEW m \in Messages, Sends(p, m)
    PROVE  toServer' \in [Procs -> Seq(Messages)] /\ inputs' \in 0..MaxInputs
  <1>1. toServer[p] \in Seq(Messages)
    BY DEF TypeInv, StreamsTyped
  <1>2. Append(toServer[p], m) \in Seq(Messages)
    BY <1>1
  <1>3. toServer' \in [Procs -> Seq(Messages)]
    BY <1>2 DEF Sends, TypeInv, StreamsTyped
  <1>4. inputs' \in 0..MaxInputs
    BY ChatAssumption DEF Sends, TypeInv, ClientsTyped
  <1>5. QED
    BY <1>3, <1>4

\* A step of a client moves no table and no descriptor.
LEMMA ClientTyped ==
    ASSUME TypeInv, NEW p \in Procs,
           \/ connect_to(p)
           \/ \E m \in Commands : SendCommand(p, m)
           \/ \E k \in 1..Len(toClient[p]) : RecvReply(p, k) \/ receiveMessage(p, k)
           \/ SenderChecks(p) \/ sendMessage(p) \/ SetStop(p) \/ EndChat(p)
           \/ Quit(p)
    PROVE  TypeInv'
  <1>1. CASE connect_to(p)
    BY <1>1 DEF connect_to, TypeInv, StreamsTyped, ClientsTyped, tables, Fds
  <1>2. ASSUME NEW m \in Commands, SendCommand(p, m) PROVE TypeInv'
    <2>1. m \in Messages /\ Sends(p, m)
      BY <1>2 DEF Messages, SendCommand
    <2>2. toServer' \in [Procs -> Seq(Messages)] /\ inputs' \in 0..MaxInputs
      BY <2>1, SendsTyped
    <2>3. StreamsTyped'
      BY <1>2, <2>2 DEF SendCommand, TypeInv, StreamsTyped, tables, sockets, Fds
    <2>4. ClientsTyped'
      BY <1>2, <2>1, <2>2 DEF SendCommand, TypeInv, ClientsTyped
    <2>5. QED
      BY <2>3, <2>4 DEF TypeInv
  <1>3. ASSUME NEW k, RecvReply(p, k) PROVE TypeInv'
    <2>1. toClient' \in [Procs -> Seq(Outgoing)] /\ estranged' \subseteq Procs
      BY <1>3, RecvTyped DEF RecvReply, TypeInv
    <2>2. StreamsTyped'
      BY <1>3, <2>1 DEF RecvReply, TypeInv, StreamsTyped, tables, sockets, Fds
    <2>3. ClientsTyped'
      BY <1>3 DEF RecvReply, TypeInv, ClientsTyped, Messages
    <2>4. QED
      BY <2>2, <2>3 DEF TypeInv
  <1>4. ASSUME NEW k, receiveMessage(p, k) PROVE TypeInv'
    <2>1. toClient' \in [Procs -> Seq(Outgoing)] /\ estranged' \subseteq Procs
      BY <1>4, RecvTyped DEF receiveMessage, TypeInv
    <2>2. StreamsTyped'
      BY <1>4, <2>1 DEF receiveMessage, TypeInv, StreamsTyped, tables, sockets, Fds
    <2>3. ClientsTyped'
      BY <1>4 DEF receiveMessage, TypeInv, ClientsTyped
    <2>4. QED
      BY <2>2, <2>3 DEF TypeInv
  <1>5. CASE SenderChecks(p) \/ SetStop(p) \/ EndChat(p)
    <2>1. StreamsTyped'
      BY <1>5 DEF SenderChecks, SetStop, EndChat, TypeInv, StreamsTyped,
                  serverVars, tables, sockets, Fds
    <2>2. ClientsTyped'
      BY <1>5 DEF SenderChecks, SetStop, EndChat, TypeInv, ClientsTyped
    <2>3. QED
      BY <2>1, <2>2 DEF TypeInv
  <1>6. CASE sendMessage(p)
    <2>1. ChatLine \in Messages /\ Sends(p, ChatLine)
      BY <1>6 DEF Messages, sendMessage
    <2>2. toServer' \in [Procs -> Seq(Messages)] /\ inputs' \in 0..MaxInputs
      BY <2>1, SendsTyped
    <2>3. StreamsTyped'
      BY <1>6, <2>2 DEF sendMessage, TypeInv, StreamsTyped, tables, sockets, Fds
    <2>4. ClientsTyped'
      BY <1>6, <2>2 DEF sendMessage, TypeInv, ClientsTyped
    <2>5. QED
      BY <2>3, <2>4 DEF TypeInv
  <1>7. CASE Quit(p)
    <2>1. <<>> \in Seq(Outgoing)
      OBVIOUS
    <2>2. StreamsTyped'
      BY <1>7, <2>1 DEF Quit, TypeInv, StreamsTyped, tables, sockets, Fds
    <2>3. ClientsTyped'
      BY <1>7 DEF Quit, TypeInv, ClientsTyped, clientVars
    <2>4. QED
      BY <2>2, <2>3 DEF TypeInv
  <1>8. QED
    BY <1>1, <1>2, <1>3, <1>4, <1>5, <1>6, <1>7

LEMMA NextTyped ==
    ASSUME TypeInv, Next
    PROVE  TypeInv'
  <1>1. server = "up"
    BY DEF Next
  <1>2. ASSUME StreamsTyped', UNCHANGED <<clientVars, inputs>> PROVE TypeInv'
    BY <1>2 DEF TypeInv, ClientsTyped, clientVars
  <1>3. CASE \E p \in Procs, f \in Fds : ServerStep(Accept(p, f))
    BY <1>2, <1>3, AcceptTyped DEF ServerStep, TypeInv
  <1>4. CASE \E f \in Fds : ServerStep(Serve(f))
    BY <1>1, <1>2, <1>4, ServeTyped DEF ServerStep, TypeInv
  <1>5. QED
    BY <1>3, <1>4, ClientTyped DEF Next

LEMMA TypesInvariant == Spec => []TypeInv
  <1>1. Init => TypeInv
    <2>1. <<>> \in Seq(Messages) /\ <<>> \in Seq(Outgoing)
      OBVIOUS
    <2>2. Init => StreamsTyped
      BY <2>1 DEF Init, ServerInit, StreamsTyped
    <2>3. Init => ClientsTyped
      BY ChatAssumption DEF Init, ClientsTyped, Messages
    <2>4. QED
      BY <2>2, <2>3 DEF TypeInv
  <1>2. TypeInv /\ [Next]_vars => TypeInv'
    <2>1. ASSUME TypeInv, UNCHANGED vars PROVE TypeInv'
      BY <2>1 DEF vars, serverVars, clientVars, tables, sockets, TypeInv, StreamsTyped,
                  ClientsTyped, Fds
    <2>2. QED
      BY <2>1, NextTyped
  <1>3. QED
    BY <1>1, <1>2, PTL DEF Spec

\* Every variable has its type, for any number of clients, names and lines.
THEOREM TypeCorrect == Spec => []TypeOK
  <1>1. TablesInv /\ TypeInv => TypeOK
    <2>1. ASSUME TypeInv, NEW p \in Procs, NEW i \in DOMAIN toClient[p]
          PROVE  /\ toClient[p][i].kind \in {"reply", "line", "warning"}
                 /\ toClient[p][i].kind = "reply" => toClient[p][i].status \in Statuses
      <3>1. toClient[p] \in Seq(Outgoing)
        BY <2>1 DEF TypeInv, StreamsTyped
      <3>2. toClient[p][i] \in Outgoing
        BY <2>1, <3>1
      <3>3. ASSUME NEW e \in Outgoing
            PROVE  /\ e.kind \in {"reply", "line", "warning"}
                   /\ e.kind = "reply" => e.status \in Statuses
        <4>1. CASE e \in [kind : {"reply"}, status : Statuses, to : Seq(Messages)]
          <5>1. e.kind \in {"reply"} /\ e.status \in Statuses
            BY <4>1
          <5>2. QED
            BY <5>1
        <4>2. CASE e \in {Forwarded, Warning}
          <5>1. Forwarded.kind = "line" /\ Warning.kind = "warning"
            BY DEF Forwarded, Warning
          <5>2. e = Forwarded \/ e = Warning
            BY <4>2
          <5>3. e.kind = "line" \/ e.kind = "warning"
            BY <5>1, <5>2
          <5>4. QED
            BY <5>3
        <4>3. QED
          BY <4>1, <4>2 DEF Outgoing
      <3>4. QED
        BY <3>2, <3>3
    <2>2. QED
      BY <2>1 DEF TablesInv, TablesTyped, TypeInv, StreamsTyped, ClientsTyped, TypeOK,
                  ServerTypeOK
  <1>2. QED
    BY <1>1, TablesInvariant, TypesInvariant, PTL

-----------------------------------------------------------------------------
(* The list of rooms: RemoveFirst takes the one entry of a room's name.      *)

Once(s) == \A i, j \in DOMAIN s : s[i] = s[j] => i = j

ListInv ==
    /\ listChatrooms \in Seq(DOMAIN chatrooms)
    /\ Once(listChatrooms)
    /\ IsFiniteSet(DOMAIN chatrooms)
    /\ ListAgrees

\* One sequence behind another.
LEMMA Glued ==
    ASSUME NEW S, NEW s \in Seq(S), NEW t \in Seq(S)
    PROVE  /\ s \o t \in Seq(S) /\ Len(s \o t) = Len(s) + Len(t)
           /\ \A i \in 1..(Len(s) + Len(t)) :
                 (s \o t)[i] = IF i <= Len(s) THEN s[i] ELSE t[i - Len(s)]
  OBVIOUS

\* Where nothing is there twice, RemoveFirst takes away what it is asked to.
LEMMA FirstRemoved ==
    ASSUME NEW S, NEW s \in Seq(S), Once(s), NEW n \in 1..Len(s)
    PROVE  /\ Len(RemoveFirst(s, s[n])) = Len(s) - 1
           /\ RemoveFirst(s, s[n]) \in Seq(S \ {s[n]})
           /\ Once(RemoveFirst(s, s[n]))
           /\ ToSet(RemoveFirst(s, s[n])) = ToSet(s) \ {s[n]}
  <1> DEFINE t == RemoveFirst(s, s[n])
             L == Len(s)
  <1>1. L \in Nat /\ n \in 1..L /\ DOMAIN s = 1..L
    OBVIOUS
  <1>2. SelectInSeq(s, LAMBDA v : v = s[n]) = n
    <2> DEFINE I == {i \in 1..Len(s) : s[i] = s[n]}
    <2>1. I = {n}
      BY <1>1 DEF Once
    <2> HIDE DEF I
    <2>2. Min(I) = n
      BY <1>1, <2>1 DEF Min
    <2>3. I # {}
      BY <2>1
    <2> USE DEF I
    <2>4. QED
      BY <2>2, <2>3 DEF SelectInSeq
  <1>3. t = SubSeq(s, 1, n - 1) \o SubSeq(s, n + 1, L)
    BY <1>1, <1>2 DEF RemoveFirst, RemoveAt
  <1> DEFINE a == SubSeq(s, 1, n - 1)
             b == SubSeq(s, n + 1, L)
  <1>4. /\ a \in Seq(S) /\ Len(a) = n - 1
        /\ \A i \in 1..(n - 1) : a[i] = s[i]
    <2>1. a = [i \in 1..(n - 1) |-> s[i]]
      BY <1>1
    <2>2. \A i \in 1..(n - 1) : s[i] \in S
      BY <1>1
    <2>3. n - 1 \in Nat
      BY <1>1
    <2> HIDE DEF a
    <2>4. QED
      BY <2>1, <2>2, <2>3
  <1>5. /\ b \in Seq(S) /\ Len(b) = L - n
        /\ \A i \in 1..(L - n) : b[i] = s[n + i]
    BY RestOfStream
  <1> HIDE DEF t, L, a, b
  <1>6. /\ t \in Seq(S) /\ Len(t) = L - 1 /\ DOMAIN t = 1..(L - 1)
        /\ \A i \in 1..(n - 1) : t[i] = s[i]
        /\ \A i \in n..(L - 1) : t[i] = s[i + 1]
    <2>1. t = a \o b
      BY <1>3 DEF a, b
    <2>2. /\ a \o b \in Seq(S) /\ Len(a \o b) = Len(a) + Len(b)
          /\ \A i \in 1..(Len(a) + Len(b)) :
                (a \o b)[i] = IF i <= Len(a) THEN a[i] ELSE b[i - Len(a)]
      BY <1>4, <1>5, Glued
    <2>3. Len(a) + Len(b) = L - 1
      BY <1>1, <1>4, <1>5
    <2>4. t \in Seq(S) /\ Len(t) = L - 1 /\ DOMAIN t = 1..(L - 1)
      BY <2>1, <2>2, <2>3
    <2>5. ASSUME NEW i \in 1..(n - 1) PROVE t[i] = s[i]
      BY <1>1, <1>4, <2>1, <2>2, <2>3, <2>5
    <2>6. ASSUME NEW i \in n..(L - 1) PROVE t[i] = s[i + 1]
      <3>1. /\ i \in 1..(L - 1) /\ ~(i <= n - 1)
            /\ i - (n - 1) \in 1..(L - n) /\ n + (i - (n - 1)) = i + 1
        BY <1>1
      <3>2. t[i] = b[i - Len(a)]
        BY <1>4, <2>1, <2>2, <2>3, <3>1
      <3>3. QED
        BY <1>4, <1>5, <3>1, <3>2
    <2>7. QED
      BY <2>4, <2>5, <2>6
  <1>7. /\ \A i \in 1..(L - 1) : \E j \in 1..L : j # n /\ t[i] = s[j]
        /\ Once(t)
    <2> DEFINE from(i) == IF i < n THEN i ELSE i + 1
    <2>1. \A i \in 1..(L - 1) : from(i) \in 1..L /\ from(i) # n /\ t[i] = s[from(i)]
      BY <1>1, <1>6
    <2>2. \A i, j \in 1..(L - 1) : from(i) = from(j) => i = j
      BY <1>1
    <2> HIDE DEF from
    <2>3. QED
      BY <1>1, <1>6, <2>1, <2>2 DEF Once
  <1>8. \A i \in 1..(L - 1) : t[i] # s[n] /\ t[i] \in S
    <2>1. ASSUME NEW i \in 1..(L - 1) PROVE t[i] # s[n] /\ t[i] \in S
      <3>1. PICK j \in 1..L : j # n /\ t[i] = s[j]
        BY <1>7
      <3>2. s[j] # s[n]
        BY <1>1, <3>1 DEF Once
      <3>3. s[j] \in S
        BY <1>1
      <3>4. QED
        BY <3>1, <3>2, <3>3
    <2>2. QED
      BY <2>1
  <1>9. ToSet(t) = ToSet(s) \ {s[n]}
    <2>1. ASSUME NEW i \in 1..(L - 1) PROVE t[i] \in ToSet(s) \ {s[n]}
      BY <1>1, <1>7, <1>8 DEF ToSet
    <2>2. ASSUME NEW j \in 1..L, s[j] # s[n] PROVE s[j] \in ToSet(t)
      <3>1. CASE j < n
        BY <1>1, <1>6, <3>1 DEF ToSet
      <3>2. CASE j > n
        <4>1. j - 1 \in n..(L - 1) /\ t[j - 1] = s[j]
          BY <1>1, <1>6, <3>2
        <4>2. QED
          BY <1>1, <1>6, <4>1 DEF ToSet
      <3>3. QED
        BY <1>1, <2>2, <3>1, <3>2
    <2>3. QED
      BY <1>1, <1>6, <2>1, <2>2 DEF ToSet
  <1>10. t \in Seq(S \ {s[n]})
    BY <1>6, <1>8
  <1>11. QED
    BY <1>6, <1>7, <1>9, <1>10 DEF t, L

\* Rooms and their list are touched by CREATE, JOIN and DELETE alone.
LEMMA ListKept ==
    ASSUME ListInv, DOMAIN chatrooms' = DOMAIN chatrooms, UNCHANGED listChatrooms
    PROVE  ListInv'
  BY DEF ListInv, ListAgrees, Once, ToSet

LEMMA CreateLists ==
    ASSUME ListInv, NEW f, NEW k, Create(f, k)
    PROVE  ListInv'
  <1> DEFINE r == RoomIn(Taken(f, k))
             s == listChatrooms
             D == DOMAIN chatrooms
  <1>1. CASE r \in D
    BY <1>1, ListKept DEF Create
  <1>2. CASE r \notin D
    <2>1. DOMAIN chatrooms' = D \cup {r} /\ listChatrooms' = Append(s, r)
      BY <1>2 DEF Create, Put
    <2>2. s \in Seq(D) /\ Once(s) /\ IsFiniteSet(D) /\ ToSet(s) = D
          /\ Len(s) = Cardinality(D)
      BY DEF ListInv, ListAgrees
    <2> HIDE DEF r, s, D
    <2>3. /\ ToSet(Append(s, r)) = ToSet(s) \cup {r}
          /\ DOMAIN Append(s, r) = 1..(Len(s) + 1)
          /\ \A i \in 1..Len(s) : Append(s, r)[i] = s[i]
          /\ Append(s, r)[Len(s) + 1] = r
      BY <2>2, AppendSet
    <2>4. Append(s, r) \in Seq(D \cup {r}) /\ Len(Append(s, r)) = Len(s) + 1
      BY <2>2
    <2>5. Len(s) \in Nat /\ DOMAIN s = 1..Len(s) /\ \A i \in 1..Len(s) : s[i] # r
      BY <1>2, <2>2 DEF D
    <2>6. Once(Append(s, r))
      BY <2>2, <2>3, <2>5 DEF Once
    <2>7. IsFiniteSet(D \cup {r}) /\ Cardinality(D \cup {r}) = Cardinality(D) + 1
      BY <1>2, <2>2, FS_AddElement
    <2>8. QED
      BY <2>1, <2>2, <2>3, <2>4, <2>6, <2>7 DEF ListInv, ListAgrees
  <1>3. QED
    BY <1>1, <1>2

LEMMA DeleteLists ==
    ASSUME ListInv, NEW f, NEW k, Delete(f, k)
    PROVE  ListInv'
  <1> DEFINE r == RoomIn(Taken(f, k))
             s == listChatrooms
             D == DOMAIN chatrooms
  <1>1. CASE r \notin D
    BY <1>1, ListKept DEF Delete, tables
  <1>2. CASE r \in D
    <2>1. DOMAIN chatrooms' = D \ {r} /\ listChatrooms' = RemoveFirst(s, r)
      BY <1>2 DEF Delete, Drop, Unlisted
    <2>2. s \in Seq(D) /\ Once(s) /\ IsFiniteSet(D) /\ ToSet(s) = D
          /\ Len(s) = Cardinality(D)
      BY DEF ListInv, ListAgrees
    <2> HIDE DEF r, s, D
    <2>3. PICK n \in 1..Len(s) : s[n] = r
      BY <1>2, <2>2 DEF D, ToSet
    <2>4. /\ Len(RemoveFirst(s, r)) = Len(s) - 1
          /\ RemoveFirst(s, r) \in Seq(D \ {r})
          /\ Once(RemoveFirst(s, r))
          /\ ToSet(RemoveFirst(s, r)) = ToSet(s) \ {r}
      BY <2>2, <2>3, FirstRemoved
    <2>5. IsFiniteSet(D \ {r}) /\ Cardinality(D \ {r}) = Cardinality(D) - 1
      BY <1>2, <2>2, FS_RemoveElement
    <2>6. QED
      BY <2>1, <2>2, <2>4, <2>5 DEF ListInv, ListAgrees
  <1>3. QED
    BY <1>1, <1>2

LEMMA ServeLists ==
    ASSUME ListInv, NEW f \in Fds, Serve(f)
    PROVE  ListInv'
  <1>1. ASSUME NEW k, Join(f, k) PROVE ListInv'
    <2>1. DOMAIN chatrooms' = DOMAIN chatrooms /\ UNCHANGED listChatrooms
      BY <1>1 DEF Join, Put
    <2>2. QED
      BY <2>1, ListKept
  <1>2. ASSUME Close(f) \/ \E k : List(f, k) \/ Invalid(f, k) \/ Chat(f, k) PROVE ListInv'
    <2>1. DOMAIN chatrooms' = DOMAIN chatrooms /\ UNCHANGED listChatrooms
      BY <1>2 DEF Close, List, Invalid, Chat, tables
    <2>2. QED
      BY <2>1, ListKept
  <1>3. QED
    BY <1>1, <1>2, CreateLists, DeleteLists DEF Serve

\* LIST shows every room there is, and none twice.
THEOREM ListIsRight == Spec => []ListAgrees
  <1>1. Init => ListInv
    <2>1. Init => DOMAIN chatrooms = {} /\ listChatrooms = <<>>
      BY DEF Init, ServerInit
    <2>2. Len(<<>>) = 0 /\ DOMAIN <<>> = {} /\ \A S : <<>> \in Seq(S)
      OBVIOUS
    <2>3. QED
      BY <2>1, <2>2, FS_EmptySet DEF ListInv, ListAgrees, Once, ToSet
  <1>2. ListInv /\ [Next]_vars => ListInv'
    <2>1. ASSUME ListInv, UNCHANGED tables PROVE ListInv'
      BY <2>1, ListKept DEF tables
    <2>2. CASE UNCHANGED vars
      BY <2>1, <2>2 DEF vars, serverVars, tables
    <2>3. CASE \E p \in Procs, f \in Fds : ServerStep(Accept(p, f))
      BY <2>1, <2>3 DEF ServerStep, Accept
    <2>4. CASE \E f \in Fds : ServerStep(Serve(f))
      BY <2>4, ServeLists DEF ServerStep
    <2>5. ASSUME NEW p \in Procs,
                 \/ connect_to(p)
                 \/ \E m \in Commands : SendCommand(p, m)
                 \/ \E k \in 1..Len(toClient[p]) : RecvReply(p, k) \/ receiveMessage(p, k)
                 \/ SenderChecks(p) \/ sendMessage(p) \/ SetStop(p) \/ EndChat(p)
                 \/ Quit(p)
          PROVE  UNCHANGED tables
      BY <2>5 DEF connect_to, SendCommand, RecvReply, receiveMessage, SenderChecks,
                  sendMessage, SetStop, EndChat, Quit, serverVars
    <2>6. QED
      BY <2>1, <2>2, <2>3, <2>4, <2>5 DEF Next
  <1>3. ListInv => ListAgrees
    BY DEF ListInv
  <1>4. QED
    BY <1>1, <1>2, <1>3, PTL DEF Spec

-----------------------------------------------------------------------------
(***************************************************************************)
(* Chat mode.  What the two streams of a client can hold while neither it  *)
(* nor the server has lost track: one case for each phase of the client,   *)
(* and for whether the server has it in chat mode.  S is the stream to the *)
(* server, C the one to the client, c the command of the client.           *)
(***************************************************************************)

Lines(S, n) == \A i \in 1..n : S[i] = ChatLine

\* After n messages: lines of the room only.
AllForwarded(C, n) == \A i \in (n + 1)..Len(C) : C[i] = Forwarded

\* After n messages: lines of the room, and the warning, once and at the end.
EndsInWarning(C, n) ==
    /\ n < Len(C)
    /\ C[Len(C)] = Warning
    /\ \A i \in (n + 1)..(Len(C) - 1) : C[i] = Forwarded

\* The JOIN that the client waits for was granted.
Granted(c, S, C) ==
    /\ c \in Commands /\ c.kind = "JOIN"
    /\ S = <<>>
    /\ C # <<>> /\ C[1] = Reply("0", <<c>>)

InRoom(ph, c, S, C) ==
    \/ ph = "chat" /\ Lines(S, Len(S)) /\ AllForwarded(C, 0)
    \/ ph = "waiting" /\ Granted(c, S, C) /\ AllForwarded(C, 1)

OutOfRoom(ph, c, S, C) ==
    \/ ph = "new" /\ S = <<>> /\ C = <<>>
    \/ ph \in {"command", "leaving"} /\ Lines(S, Len(S)) /\ C = <<>>
    \/ ph = "chat" /\ Lines(S, Len(S)) /\ EndsInWarning(C, 0)
    \/ /\ ph = "waiting" /\ c \in Commands
       /\ S # <<>> /\ S[Len(S)] = c /\ Lines(S, Len(S) - 1)
       /\ C = <<>>
    \/ ph = "waiting" /\ Granted(c, S, C) /\ EndsInWarning(C, 1)
    \/ /\ ph = "waiting" /\ c \in Commands
       /\ S = <<>>
       /\ \E st \in Statuses : /\ C = <<Reply(st, <<c>>)>>
                               /\ c.kind = "JOIN" => st \notin {"0", "L"}

Held(p) == \E f \in Open : current_sockets[f] = p
InChat(p) == \E f \in Open : current_sockets[f] = p /\ f \in chatmodeClients

InPhase(p) ==
    IF InChat(p) THEN InRoom(phase[p], command[p], toServer[p], toClient[p])
                 ELSE OutOfRoom(phase[p], command[p], toServer[p], toClient[p])

\* A client connects once, and its sender runs in chat mode only.
ConnectedOnce ==
    /\ \A f, g \in Open : current_sockets[f] = current_sockets[g] => f = g
    /\ \A p \in backlog : ~Held(p) /\ phase[p] # "new"
    /\ \A p \in Procs : phase[p] = "new" => ~Held(p) /\ p \notin hungup
    /\ \A p \in hungup : toClient[p] = <<>>
    /\ \A p \in Procs : phase[p] \notin {"chat", "leaving"} => sender[p] = "off"

PhasesAgree == \A p \in Procs \ (estranged \cup hungup) : InPhase(p)

PhaseInv == ConnectedOnce /\ PhasesAgree

\* Messages are told apart by their kind.
LEMMA Kinds ==
    /\ Forwarded # Warning
    /\ \A st, s : Reply(st, s) # Warning /\ Reply(st, s).to = s /\ Reply(st, s).status = st
                  /\ Reply(st, s).kind = "reply"
    /\ ChatLine.kind = "line"
    /\ \A c \in Commands : c # ChatLine /\ c \in Messages
  <1>1. /\ Forwarded.kind = "line" /\ Warning.kind = "warning" /\ ChatLine.kind = "line"
        /\ \A st, s : /\ Reply(st, s).kind = "reply" /\ Reply(st, s).to = s
                      /\ Reply(st, s).status = st
    BY DEF Forwarded, Warning, ChatLine, Reply
  <1>2. \A c \in Commands : c.kind \in {"CREATE", "JOIN", "DELETE", "LIST", "other"}
    BY DEF Commands
  <1>3. \A c \in Commands : c.kind # "line"
    BY <1>2
  <1>4. Forwarded # Warning /\ \A st, s : Reply(st, s) # Warning
    BY <1>1
  <1>5. \A c \in Commands : c # ChatLine /\ c \in Messages
    BY <1>1, <1>3 DEF Messages
  <1>6. QED
    BY <1>1, <1>4, <1>5

\* Appending, index by index.
LEMMA Appended ==
    ASSUME NEW T, NEW s \in Seq(T), NEW e
    PROVE  /\ Append(s, e) # <<>>
           /\ Len(Append(s, e)) = Len(s) + 1
           /\ Len(s) \in Nat
           /\ \A i \in 1..Len(s) : Append(s, e)[i] = s[i]
           /\ Append(s, e)[Len(s) + 1] = e
  OBVIOUS

\* The server forwards a line to a client it has in chat mode.
LEMMA LineArrives ==
    ASSUME NEW ph, NEW c, NEW S, NEW C \in Seq(Outgoing), InRoom(ph, c, S, C)
    PROVE  InRoom(ph, c, S, Append(C, Forwarded))
  <1> DEFINE D == Append(C, Forwarded)
  <1>1. /\ D # <<>> /\ Len(D) = Len(C) + 1 /\ Len(C) \in Nat
        /\ \A i \in 1..Len(C) : D[i] = C[i]
        /\ D[Len(C) + 1] = Forwarded
    BY Appended
  <1>2. C # <<>> => 1 \in 1..Len(C)
    OBVIOUS
  <1> HIDE DEF D
  <1>3. ASSUME NEW n \in {0, 1}, AllForwarded(C, n) PROVE AllForwarded(D, n)
    BY <1>1, <1>3 DEF AllForwarded
  <1>4. Granted(c, S, C) => Granted(c, S, D)
    BY <1>1, <1>2 DEF Granted
  <1>5. InRoom(ph, c, S, D)
    BY <1>3, <1>4 DEF InRoom
  <1>6. QED
    BY <1>5 DEF D

\* The server warns a client it has in chat mode, and has it there no longer.
LEMMA WarningArrives ==
    ASSUME NEW ph, NEW c, NEW S, NEW C \in Seq(Outgoing), InRoom(ph, c, S, C)
    PROVE  OutOfRoom(ph, c, S, Append(C, Warning))
  <1> DEFINE D == Append(C, Warning)
  <1>1. /\ D # <<>> /\ Len(D) = Len(C) + 1 /\ Len(C) \in Nat
        /\ \A i \in 1..Len(C) : D[i] = C[i]
        /\ D[Len(C) + 1] = Warning
    BY Appended
  <1>2. C # <<>> => 1 \in 1..Len(C)
    OBVIOUS
  <1> HIDE DEF D
  <1>3. ASSUME NEW n \in {0, 1}, AllForwarded(C, n), n = 0 \/ 1 \in 1..Len(C)
        PROVE EndsInWarning(D, n)
    BY <1>1, <1>3 DEF AllForwarded, EndsInWarning
  <1>4. Granted(c, S, C) => Granted(c, S, D) /\ 1 \in 1..Len(C)
    BY <1>1, <1>2 DEF Granted
  <1>5. OutOfRoom(ph, c, S, D)
    BY <1>3, <1>4 DEF InRoom, OutOfRoom
  <1>6. QED
    BY <1>5 DEF D

\* What is left of lines is lines.
LEMMA LinesLeft ==
    ASSUME NEW S \in Seq(Messages), Lines(S, Len(S)), NEW k \in 1..Len(S)
    PROVE  Lines(SubSeq(S, k + 1, Len(S)), Len(SubSeq(S, k + 1, Len(S))))
  <1> DEFINE R == SubSeq(S, k + 1, Len(S))
  <1>1. /\ Len(R) = Len(S) - k
        /\ \A i \in 1..(Len(S) - k) : R[i] = S[k + i]
    BY RestOfStream
  <1> HIDE DEF R
  <1>2. Len(S) \in Nat
    OBVIOUS
  <1>3. Lines(R, Len(R))
    BY <1>1, <1>2 DEF Lines
  <1>4. QED
    BY <1>3 DEF R

\* The server takes lines of a client it has in chat mode.
LEMMA LinesTaken ==
    ASSUME NEW ph, NEW c, NEW S \in Seq(Messages), NEW C, NEW k \in 1..Len(S),
           InRoom(ph, c, S, C)
    PROVE  InRoom(ph, c, SubSeq(S, k + 1, Len(S)), C)
  <1>1. S # <<>>
    OBVIOUS
  <1>2. ph = "chat" /\ Lines(S, Len(S)) /\ AllForwarded(C, 0)
    BY <1>1 DEF InRoom, Granted
  <1>3. QED
    BY <1>2, LinesLeft DEF InRoom

\* A command that the server takes from a client it does not have in chat mode,
\* and that no line is glued to, is the one the client waits for an answer to.
LEMMA CommandTaken ==
    ASSUME NEW ph, NEW c, NEW S \in Seq(Messages), NEW C, NEW k \in 1..Len(S),
           OutOfRoom(ph, c, S, C), S[1] # ChatLine
    PROVE  /\ ph = "waiting" /\ c \in Commands /\ C = <<>>
           /\ S[1] = c /\ Len(S) = 1 /\ k = 1
           /\ SubSeq(S, 1, k) = <<c>>
           /\ SubSeq(S, k + 1, Len(S)) = <<>>
  <1>1. S # <<>> /\ Len(S) \in Nat /\ 1 \in 1..Len(S)
    OBVIOUS
  <1>2. ~Lines(S, Len(S))
    BY <1>1 DEF Lines
  <1>3. /\ ph = "waiting" /\ c \in Commands /\ C = <<>>
        /\ S[Len(S)] = c /\ Lines(S, Len(S) - 1)
    BY <1>1, <1>2 DEF OutOfRoom, Granted
  <1>4. Len(S) = 1
    <2>1. ~(1 \in 1..(Len(S) - 1))
      BY <1>3 DEF Lines
    <2>2. Len(S) \in Nat /\ Len(S) >= 1 /\ ~(Len(S) - 1 >= 1)
      BY <1>1, <2>1
    <2>3. \A n \in Nat : n >= 1 /\ ~(n - 1 >= 1) => n = 1
      OBVIOUS
    <2>4. QED
      BY <2>2, <2>3
  <1>5. k = 1 /\ S[1] = c
    BY <1>3, <1>4
  <1>6. SubSeq(S, 1, 1) = <<c>>
    <2>1. SubSeq(S, 1, 1) = [i \in 1..1 |-> S[i]]
      BY <1>4
    <2>2. <<c>> = [i \in 1..1 |-> c]
      OBVIOUS
    <2>3. \A i \in 1..1 : S[i] = c
      BY <1>5
    <2>4. QED
      BY <2>1, <2>2, <2>3
  <1>7. SubSeq(S, 2, 1) = <<>>
    BY <1>4
  <1>8. QED
    BY <1>3, <1>4, <1>5, <1>6, <1>7

\* The client sends a command.
LEMMA CommandSent ==
    ASSUME NEW c, NEW m \in Commands, NEW S \in Seq(Messages), NEW C,
           OutOfRoom("command", c, S, C)
    PROVE  OutOfRoom("waiting", m, Append(S, m), C)
  <1> DEFINE R == Append(S, m)
  <1>1. /\ R # <<>> /\ Len(R) = Len(S) + 1 /\ Len(S) \in Nat
        /\ \A i \in 1..Len(S) : R[i] = S[i]
        /\ R[Len(S) + 1] = m
    BY Appended
  <1>2. Lines(S, Len(S)) /\ C = <<>>
    BY DEF OutOfRoom
  <1> HIDE DEF R
  <1>3. R[Len(R)] = m /\ Len(R) - 1 = Len(S)
    BY <1>1
  <1>4. Lines(R, Len(R) - 1)
    BY <1>1, <1>2, <1>3 DEF Lines
  <1>5. OutOfRoom("waiting", m, R, C)
    BY <1>1, <1>2, <1>3, <1>4 DEF OutOfRoom
  <1>6. QED
    BY <1>5 DEF R

\* The client sends a line, in chat mode or after the warning.
LEMMA LineSent ==
    ASSUME NEW S \in Seq(Messages), Lines(S, Len(S))
    PROVE  Lines(Append(S, ChatLine), Len(Append(S, ChatLine)))
  <1> DEFINE R == Append(S, ChatLine)
  <1>1. /\ Len(R) = Len(S) + 1 /\ Len(S) \in Nat
        /\ \A i \in 1..Len(S) : R[i] = S[i]
        /\ R[Len(S) + 1] = ChatLine
    BY Appended
  <1> HIDE DEF R
  <1>2. Lines(R, Len(R))
    BY <1>1 DEF Lines
  <1>3. QED
    BY <1>2 DEF R

\* The answer arrives: a JOIN that is granted, and everything else.
LEMMA JoinAnswered ==
    ASSUME NEW c \in Commands, c.kind = "JOIN", NEW S, S = <<>>
    PROVE  InRoom("waiting", c, S, Append(<<>>, Reply("0", <<c>>)))
  <1> DEFINE e == Reply("0", <<c>>)
             D == Append(<<>>, e)
  <1>1. D = <<e>> /\ D # <<>> /\ D[1] = e /\ Len(D) = 1
    OBVIOUS
  <1>2. Granted(c, S, D)
    BY <1>1 DEF Granted
  <1>3. AllForwarded(D, 1)
    BY <1>1 DEF AllForwarded
  <1> HIDE DEF D
  <1>4. InRoom("waiting", c, S, D)
    BY <1>2, <1>3 DEF InRoom
  <1>5. QED
    BY <1>4 DEF D

LEMMA OtherAnswered ==
    ASSUME NEW c \in Commands, NEW st \in Statuses, c.kind = "JOIN" => st \notin {"0", "L"},
           NEW S, S = <<>>
    PROVE  OutOfRoom("waiting", c, S, Append(<<>>, Reply(st, <<c>>)))
  <1>1. Append(<<>>, Reply(st, <<c>>)) = <<Reply(st, <<c>>)>>
    OBVIOUS
  <1>2. QED
    BY <1>1 DEF OutOfRoom

\* A stream of a room read up to message k, of which the first n were no lines.
LEMMA ForwardedRead ==
    ASSUME NEW C \in Seq(Outgoing), NEW n \in {0, 1}, NEW k \in 1..Len(C), AllForwarded(C, n)
    PROVE  AllForwarded(SubSeq(C, k + 1, Len(C)), 0)
  <1> DEFINE D == SubSeq(C, k + 1, Len(C))
             L == Len(C)
  <1>1. /\ Len(D) = L - k
        /\ \A i \in 1..(L - k) : D[i] = C[k + i]
    BY RestOfStream
  <1>2. L \in Nat
    OBVIOUS
  <1>3. \A i \in (n + 1)..L : C[i] = Forwarded
    BY DEF AllForwarded
  <1> HIDE DEF D, L
  <1>4. \A i \in 1..(L - k) : k + i \in (n + 1)..L
    BY <1>2 DEF L
  <1>5. AllForwarded(D, 0)
    BY <1>1, <1>3, <1>4 DEF AllForwarded
  <1>6. QED
    BY <1>5 DEF D

LEMMA WarningLeft ==
    ASSUME NEW C \in Seq(Outgoing), NEW n \in {0, 1}, NEW k \in 1..Len(C), EndsInWarning(C, n),
           \A i \in 2..k : C[i] # Warning,
           n = 1 \/ C[1] # Warning
    PROVE  EndsInWarning(SubSeq(C, k + 1, Len(C)), 0)
  <1> DEFINE D == SubSeq(C, k + 1, Len(C))
             L == Len(C)
  <1>1. /\ Len(D) = L - k
        /\ \A i \in 1..(L - k) : D[i] = C[k + i]
    BY RestOfStream
  <1>2. L \in Nat /\ k \in 1..L
    OBVIOUS
  <1>3. /\ n < L
        /\ C[L] = Warning
        /\ \A i \in (n + 1)..(L - 1) : C[i] = Forwarded
    BY DEF EndsInWarning
  <1> HIDE DEF D, L
  <1>4. k # L
    <2>1. SUFFICES ASSUME k = L PROVE FALSE
      OBVIOUS
    <2>2. L = 1
      BY <1>2, <1>3, <2>1
    <2>3. n = 0 /\ C[1] # Warning
      BY <1>3, <2>2
    <2>4. QED
      BY <1>3, <2>2, <2>3
  <1>5. k < L
    BY <1>2, <1>4
  <1>6. D[L - k] = Warning
    BY <1>1, <1>2, <1>3, <1>5
  <1>7. ASSUME NEW i \in 1..(L - k - 1) PROVE D[i] = Forwarded
    <2>1. i \in 1..(L - k) /\ k + i \in (n + 1)..(L - 1)
      BY <1>2
    <2>2. QED
      BY <1>1, <1>3, <2>1
  <1>8. EndsInWarning(D, 0)
    BY <1>1, <1>2, <1>5, <1>6, <1>7 DEF EndsInWarning
  <1>9. QED
    BY <1>8 DEF D

\* The client receives in chat mode, and the first message is no warning.
LEMMA LinesRead ==
    ASSUME NEW c, NEW S, NEW C \in Seq(Outgoing), NEW k \in 1..Len(C),
           \A i \in 1..k : C[i] # Warning
    PROVE  /\ InRoom("chat", c, S, C) => InRoom("chat", c, S, SubSeq(C, k + 1, Len(C)))
           /\ OutOfRoom("chat", c, S, C) => OutOfRoom("chat", c, S, SubSeq(C, k + 1, Len(C)))
  <1> DEFINE D == SubSeq(C, k + 1, Len(C))
  <1>1. (\A i \in 2..k : C[i] # Warning) /\ C[1] # Warning
    OBVIOUS
  <1>2. AllForwarded(C, 0) => AllForwarded(D, 0)
    BY ForwardedRead
  <1>3. EndsInWarning(C, 0) => EndsInWarning(D, 0)
    BY <1>1, WarningLeft
  <1> HIDE DEF D
  <1>4. InRoom("chat", c, S, C) => InRoom("chat", c, S, D)
    BY <1>2 DEF InRoom
  <1>5. OutOfRoom("chat", c, S, C) => OutOfRoom("chat", c, S, D)
    BY <1>3 DEF OutOfRoom
  <1>6. QED
    BY <1>4, <1>5 DEF D

\* The first message is the warning: it is the last one.
LEMMA WarningRead ==
    ASSUME NEW c, NEW S, NEW C \in Seq(Outgoing), NEW k \in 1..Len(C), C[1] = Warning
    PROVE  /\ ~InRoom("chat", c, S, C)
           /\ OutOfRoom("chat", c, S, C) => OutOfRoom("leaving", c, S, SubSeq(C, k + 1, Len(C)))
  <1>1. Len(C) \in Nat /\ 1 \in 1..Len(C) /\ C # <<>>
    OBVIOUS
  <1>2. ~AllForwarded(C, 0)
    BY <1>1, Kinds DEF AllForwarded
  <1>3. ~InRoom("chat", c, S, C)
    BY <1>2 DEF InRoom
  <1>4. ASSUME OutOfRoom("chat", c, S, C)
        PROVE  OutOfRoom("leaving", c, S, SubSeq(C, k + 1, Len(C)))
    <2>1. Lines(S, Len(S)) /\ EndsInWarning(C, 0)
      BY <1>4 DEF OutOfRoom
    <2>2. ~(1 \in 1..(Len(C) - 1))
      BY <2>1, Kinds DEF EndsInWarning
    <2>3. Len(C) = 1 /\ k = 1
      <3>1. \A n \in Nat : n >= 1 /\ ~(1 \in 1..(n - 1)) => n = 1
        OBVIOUS
      <3>2. Len(C) \in Nat /\ Len(C) >= 1
        BY <1>1
      <3> DEFINE L == Len(C)
      <3>3. L \in Nat /\ L >= 1 /\ ~(1 \in 1..(L - 1))
        BY <2>2, <3>2
      <3> HIDE DEF L
      <3>4. L = 1
        BY <3>1, <3>3
      <3>5. k \in 1..L
        BY DEF L
      <3>6. k = 1
        BY <3>4, <3>5
      <3>7. QED
        BY <3>4, <3>6 DEF L
    <2>4. SubSeq(C, k + 1, Len(C)) = <<>>
      BY <2>3
    <2>5. QED
      BY <2>1, <2>4 DEF OutOfRoom
  <1>5. QED
    BY <1>3, <1>4

\* The client reads the reply it waits for: what it answers, and what is left.
LEMMA ReplyInRoom ==
    ASSUME NEW c, NEW d, NEW S \in Seq(Messages), NEW C \in Seq(Outgoing), NEW k \in 1..Len(C),
           InRoom("waiting", c, S, C)
    PROVE  /\ c.kind = "JOIN" /\ C[1] = Reply("0", <<c>>)
           /\ InRoom("chat", d, S, SubSeq(C, k + 1, Len(C)))
  <1>1. Granted(c, S, C) /\ AllForwarded(C, 1)
    BY DEF InRoom
  <1>2. AllForwarded(SubSeq(C, k + 1, Len(C)), 0)
    BY <1>1, ForwardedRead
  <1>3. Lines(S, Len(S))
    BY <1>1 DEF Granted, Lines
  <1>4. QED
    BY <1>1, <1>2, <1>3 DEF Granted, InRoom

LEMMA ReplyOutOfRoom ==
    ASSUME NEW c, NEW d, NEW S \in Seq(Messages), NEW C \in Seq(Outgoing), NEW k \in 1..Len(C),
           OutOfRoom("waiting", c, S, C), \A i \in 2..k : C[i] # Warning
    PROVE  \/ /\ c.kind = "JOIN" /\ C[1] = Reply("0", <<c>>)
              /\ OutOfRoom("chat", d, S, SubSeq(C, k + 1, Len(C)))
           \/ /\ \E st \in Statuses : /\ C[1] = Reply(st, <<c>>)
                                      /\ c.kind = "JOIN" => st \notin {"0", "L"}
              /\ OutOfRoom("command", d, S, SubSeq(C, k + 1, Len(C)))
  <1>1. C # <<>> /\ Len(C) \in Nat
    OBVIOUS
  <1>2. CASE Granted(c, S, C) /\ EndsInWarning(C, 1)
    <2>1. EndsInWarning(SubSeq(C, k + 1, Len(C)), 0)
      BY <1>2, WarningLeft
    <2>2. Lines(S, Len(S))
      BY <1>2 DEF Granted, Lines
    <2>3. QED
      BY <1>2, <2>1, <2>2 DEF Granted, OutOfRoom
  <1>3. ASSUME S = <<>>, NEW st \in Statuses, C = <<Reply(st, <<c>>)>>,
               c.kind = "JOIN" => st \notin {"0", "L"}
        PROVE  /\ C[1] = Reply(st, <<c>>)
               /\ OutOfRoom("command", d, S, SubSeq(C, k + 1, Len(C)))
    <2>1. Len(C) = 1 /\ C[1] = Reply(st, <<c>>)
      BY <1>3
    <2>2. k = 1
      BY <2>1
    <2>3. SubSeq(C, k + 1, Len(C)) = <<>>
      BY <2>1, <2>2
    <2>4. Lines(S, Len(S))
      BY <1>3 DEF Lines
    <2>5. QED
      BY <2>1, <2>3, <2>4 DEF OutOfRoom
  <1>4. QED
    BY <1>1, <1>2, <1>3 DEF OutOfRoom

-----------------------------------------------------------------------------
(* Chat mode: the turns of the server                                       *)

\* A client has one descriptor at most.
LEMMA OwnDescriptor ==
    ASSUME ConnectedOnce, NEW f \in Open
    PROVE  /\ Held(current_sockets[f])
           /\ InChat(current_sockets[f]) <=> f \in chatmodeClients
  BY DEF ConnectedOnce, Held, InChat

\* Whom a send reaches.
LEMMA SendReaches ==
    ASSUME StreamsTyped, ConnectedOnce, NEW out, Send(out)
    PROVE  /\ \A f \in Open \cap DOMAIN out : current_sockets[f] \notin hungup =>
                 toClient'[current_sockets[f]] = Append(toClient[current_sockets[f]], out[f])
           /\ \A p \in Procs : (\A f \in Open \cap DOMAIN out : current_sockets[f] # p)
                                  => toClient'[p] = toClient[p]
           /\ \A p \in hungup : toClient'[p] = toClient[p]
  <1> DEFINE Gets(p, f) == f \in DOMAIN out \cap Open /\ current_sockets[f] = p
             Chosen(p) == CHOOSE f \in Fds : Gets(p, f)
  <1>1. toClient' = [p \in Procs |->
               IF p \notin hungup /\ \E f \in Fds : Gets(p, f)
               THEN Append(toClient[p], out[Chosen(p)])
               ELSE toClient[p]]
    BY DEF Send
  <1>2. ASSUME NEW f \in Open \cap DOMAIN out
        PROVE  /\ current_sockets[f] \in Procs
               /\ \E g \in Fds : Gets(current_sockets[f], g)
               /\ Chosen(current_sockets[f]) = f
    <2>1. f \in Fds /\ Gets(current_sockets[f], f) /\ current_sockets[f] \in Procs
      BY DEF StreamsTyped, Open
    <2>2. \A g \in Fds : Gets(current_sockets[f], g) => g = f
      BY DEF ConnectedOnce
    <2> HIDE DEF Gets
    <2>3. QED
      BY <2>1, <2>2
  <1>3. ASSUME NEW p \in Procs, \A f \in Open \cap DOMAIN out : current_sockets[f] # p
        PROVE  ~\E f \in Fds : Gets(p, f)
    BY <1>3
  <1>4. hungup \subseteq Procs
    BY DEF StreamsTyped
  <1> HIDE DEF Gets, Chosen
  <1>5. \A f \in Open \cap DOMAIN out : current_sockets[f] \notin hungup =>
             toClient'[current_sockets[f]] = Append(toClient[current_sockets[f]], out[f])
    BY <1>1, <1>2
  <1>6. \A p \in Procs : (\A f \in Open \cap DOMAIN out : current_sockets[f] # p)
                            => toClient'[p] = toClient[p]
    BY <1>1, <1>3
  <1>7. \A p \in hungup : toClient'[p] = toClient[p]
    BY <1>1, <1>4
  <1>8. QED
    BY <1>5, <1>6, <1>7

\* An answer reaches the client of its descriptor, and nobody else.
LEMMA AnswerReaches ==
    ASSUME StreamsTyped, ConnectedOnce, NEW f \in Open, NEW st, NEW s, Answer(f, st, s)
    PROVE  /\ current_sockets[f] \notin hungup =>
                 toClient'[current_sockets[f]] = Append(toClient[current_sockets[f]], Reply(st, s))
           /\ \A p \in Procs : current_sockets[f] # p => toClient'[p] = toClient[p]
           /\ \A p \in hungup : toClient'[p] = toClient[p]
  <1> DEFINE out == [g \in {f} |-> Reply(st, s)]
  <1>1. Send(out) /\ f \in DOMAIN out /\ out[f] = Reply(st, s) /\ DOMAIN out = {f}
    BY DEF Answer
  <1> HIDE DEF out
  <1>2. QED
    BY <1>1, SendReaches

\* What a recv does to the streams to the server.
LEMMA TakesFrom ==
    ASSUME StreamsTyped, NEW f, NEW k, NEW kinds, Takes(f, k, kinds)
    PROVE  /\ f \in Open /\ current_sockets[f] \in Procs
           /\ toServer[current_sockets[f]] \in Seq(Messages)
           /\ k \in 1..Len(toServer[current_sockets[f]])
           /\ toServer'[current_sockets[f]] =
                 SubSeq(toServer[current_sockets[f]], k + 1, Len(toServer[current_sockets[f]]))
           /\ \A p \in Procs : p # current_sockets[f] => toServer'[p] = toServer[p]
           /\ Taken(f, k) = SubSeq(toServer[current_sockets[f]], 1, k)
           /\ toServer[current_sockets[f]][1].kind \in kinds
           /\ Taken(f, k)[1] = toServer[current_sockets[f]][1]
  <1>1. /\ f \in Open /\ current_sockets[f] \in Procs
        /\ toServer[current_sockets[f]] \in Seq(Messages)
        /\ k \in 1..Len(toServer[current_sockets[f]])
        /\ toServer[current_sockets[f]][1].kind \in kinds
    BY DEF Takes, StreamsTyped, Open
  <1>2. 1 \in 1..k
    BY <1>1
  <1>3. Taken(f, k)[1] = toServer[current_sockets[f]][1]
    BY <1>1, <1>2, TakenTyped
  <1>4. QED
    BY <1>1, <1>3 DEF Takes, StreamsTyped, Taken

\* A turn that hands out no descriptor and writes nothing to who is gone.
LEMMA ConnectedKept ==
    ASSUME ConnectedOnce, UNCHANGED <<clientVars, current_sockets, backlog, hungup>>,
           \A p \in hungup : toClient'[p] = toClient[p]
    PROVE  ConnectedOnce'
  BY DEF ConnectedOnce, clientVars, Held, Open

\* A client of which a step moves nothing.
LEMMA PhaseKept ==
    ASSUME NEW p \in Procs, InPhase(p),
           phase'[p] = phase[p], command'[p] = command[p],
           toServer'[p] = toServer[p], toClient'[p] = toClient[p],
           InChat(p)' <=> InChat(p)
    PROVE  InPhase(p)'
  BY DEF InPhase

\* The same of the streams of a client that is still in step with the server.
LEMMA OwnCommand ==
    ASSUME StreamsTyped, NEW p \in Procs, InPhase(p), ~InChat(p),
           NEW k \in 1..Len(toServer[p]), toServer[p][1] # ChatLine
    PROVE  /\ phase[p] = "waiting" /\ command[p] \in Commands /\ toClient[p] = <<>>
           /\ toServer[p][1] = command[p]
           /\ SubSeq(toServer[p], 1, k) = <<command[p]>>
           /\ SubSeq(toServer[p], k + 1, Len(toServer[p])) = <<>>
  <1> DEFINE ph == phase[p]
             c == command[p]
             S == toServer[p]
             C == toClient[p]
  <1>1. OutOfRoom(ph, c, S, C)
    BY DEF InPhase
  <1>2. S \in Seq(Messages) /\ k \in 1..Len(S) /\ S[1] # ChatLine
    BY DEF StreamsTyped
  <1> HIDE DEF ph, c, S, C
  <1>3. /\ ph = "waiting" /\ c \in Commands /\ C = <<>>
        /\ S[1] = c /\ SubSeq(S, 1, k) = <<c>> /\ SubSeq(S, k + 1, Len(S)) = <<>>
    BY <1>1, <1>2, CommandTaken, ZenonT(30)
  <1>4. QED
    BY <1>3 DEF ph, c, S, C

\* Every turn that answers a command.  A line among what is taken estranges.
LEMMA AnswerPhases ==
    ASSUME StreamsTyped, PhaseInv, NEW f, NEW k, NEW kinds, NEW st \in Statuses,
           f \notin chatmodeClients, Takes(f, k, kinds), Answer(f, st, Taken(f, k)),
           UNCHANGED <<clientVars, current_sockets, backlog, hungup>>,
           estranged \subseteq estranged',
           Taken(f, k)[1] = ChatLine => current_sockets[f] \in estranged',
           \/ /\ UNCHANGED chatmodeClients
              /\ Taken(f, k)[1].kind = "JOIN" => st \notin {"0", "L"}
           \/ /\ chatmodeClients' = chatmodeClients \cup {f}
              /\ Taken(f, k)[1].kind = "JOIN" /\ st = "0"
    PROVE  PhaseInv'
  <1>0. PICK p : p = current_sockets[f]
    OBVIOUS
  <1> DEFINE S == toServer[p]
  <1>1. /\ f \in Open /\ p \in Procs /\ S \in Seq(Messages) /\ k \in 1..Len(S)
        /\ toServer'[p] = SubSeq(S, k + 1, Len(S))
        /\ \A q \in Procs : q # p => toServer'[q] = toServer[q]
        /\ Taken(f, k) = SubSeq(S, 1, k)
        /\ Taken(f, k)[1] = S[1]
    BY <1>0, TakesFrom
  <1>2. ConnectedOnce
    BY DEF PhaseInv
  <1>3. /\ p \notin hungup => toClient'[p] = Append(toClient[p], Reply(st, Taken(f, k)))
        /\ \A q \in Procs : p # q => toClient'[q] = toClient[q]
        /\ \A q \in hungup : toClient'[q] = toClient[q]
    BY <1>0, <1>1, <1>2, AnswerReaches
  <1>4. ConnectedOnce'
    BY <1>2, <1>3, ConnectedKept
  <1>5. /\ ~InChat(p) /\ (InChat(p)' <=> f \in chatmodeClients')
        /\ \A q \in Procs : q # p => (InChat(q)' <=> InChat(q))
    BY <1>0, <1>1, <1>2 DEF InChat, ConnectedOnce, Open
  <1> HIDE DEF S
  <1>6. ASSUME NEW q \in Procs \ (estranged' \cup hungup') PROVE InPhase(q)'
    <2>1. q \notin hungup /\ InPhase(q) /\ phase' = phase /\ command' = command
      BY <1>6 DEF PhaseInv, PhasesAgree, clientVars
    <2>2. CASE q # p
      BY <1>1, <1>3, <1>5, <2>1, <2>2, PhaseKept
    <2>3. CASE q = p
      <3> DEFINE c == command[p]
      <3>1. S[1] # ChatLine
        BY <1>0, <1>1, <1>6, <2>3
      <3>2. /\ phase[p] = "waiting" /\ c \in Commands /\ toClient[p] = <<>>
            /\ S[1] = c /\ SubSeq(S, 1, k) = <<c>> /\ SubSeq(S, k + 1, Len(S)) = <<>>
        BY <1>1, <1>5, <2>1, <2>3, <3>1, OwnCommand DEF S
      <3>3. /\ toServer'[p] = <<>>
            /\ toClient'[p] = Append(<<>>, Reply(st, <<c>>))
        BY <1>1, <1>3, <2>1, <2>3, <3>2
      <3>4. CASE UNCHANGED chatmodeClients /\ (Taken(f, k)[1].kind = "JOIN" => st \notin {"0", "L"})
        <4>1. ~InChat(p)'
          BY <1>5, <3>4
        <4>2. c.kind = "JOIN" => st \notin {"0", "L"}
          BY <1>1, <3>2, <3>4
        <4>3. OutOfRoom("waiting", c, toServer'[p], toClient'[p])
          BY <3>2, <3>3, <4>2, OtherAnswered
        <4>4. OutOfRoom(phase'[p], command'[p], toServer'[p], toClient'[p])
          BY <2>1, <3>2, <4>3
        <4>5. InPhase(p)'
          BY <4>1, <4>4 DEF InPhase
        <4>6. QED
          BY <2>3, <4>5
      <3>5. CASE /\ chatmodeClients' = chatmodeClients \cup {f}
                 /\ Taken(f, k)[1].kind = "JOIN" /\ st = "0"
        <4>1. InChat(p)'
          BY <1>5, <3>5
        <4>2. InRoom("waiting", c, toServer'[p], toClient'[p])
          BY <1>1, <3>2, <3>3, <3>5, JoinAnswered
        <4>3. InRoom(phase'[p], command'[p], toServer'[p], toClient'[p])
          BY <2>1, <3>2, <4>2
        <4>4. InPhase(p)'
          BY <4>1, <4>3 DEF InPhase
        <4>5. QED
          BY <2>3, <4>4
      <3>6. QED
        BY <3>4, <3>5
    <2>4. QED
      BY <2>2, <2>3
  <1>7. QED
    BY <1>4, <1>6 DEF PhaseInv, PhasesAgree

\* DELETE: who was in the room is warned and out of chat mode, at once.
LEMMA DeletePhases ==
    ASSUME StreamsTyped, TablesInv, PhaseInv, NEW f, NEW k, Delete(f, k),
           UNCHANGED clientVars
    PROVE  PhaseInv'
  <1> DEFINE r == RoomIn(Taken(f, k))
             out == [g \in Warned(r) \cup {f} |->
                        IF g = f THEN Reply("0", Taken(f, k)) ELSE Warning]
  <1>0. PICK p : p = current_sockets[f]
    OBVIOUS
  <1> DEFINE S == toServer[p]
             c == command[p]
  <1>1. /\ Takes(f, k, {"DELETE"}) /\ f \notin chatmodeClients
        /\ UNCHANGED <<clientVars, current_sockets, backlog, hungup>>
        /\ UNCHANGED estranged
    BY DEF Delete
  <1>2. /\ f \in Open /\ p \in Procs /\ S \in Seq(Messages) /\ k \in 1..Len(S)
        /\ toServer'[p] = SubSeq(S, k + 1, Len(S))
        /\ \A q \in Procs : q # p => toServer'[q] = toServer[q]
        /\ Taken(f, k) = SubSeq(S, 1, k)
        /\ Taken(f, k)[1] = S[1]
        /\ S[1].kind = "DELETE"
    BY <1>0, <1>1, TakesFrom
  <1>3. S[1] # ChatLine
    BY <1>2, Kinds
  <1>4. CASE r \notin DOMAIN chatrooms
    <2>1. Answer(f, "2", Taken(f, k)) /\ UNCHANGED chatmodeClients
      BY <1>4 DEF Delete, tables
    <2>2. /\ "2" \in Statuses /\ Taken(f, k)[1].kind # "JOIN" /\ Taken(f, k)[1] # ChatLine
          /\ estranged \subseteq estranged'
      BY <1>1, <1>2, <1>3 DEF Statuses
    <2>3. QED
      BY <1>1, <2>1, <2>2, AnswerPhases
  <1>5. CASE r \in DOMAIN chatrooms
    <2> DEFINE M == ToSet(chatrooms[r])
    <2>1. Send(out) /\ chatmodeClients' = chatmodeClients \ M
      BY <1>5 DEF Delete
    <2>2. M \subseteq chatmodeClients /\ f \notin M
      BY <1>1, <1>5 DEF TablesInv, TablesAgree
    <2>3. /\ DOMAIN out = M \cup {f} /\ out[f] = Reply("0", Taken(f, k))
          /\ \A g \in M : out[g] = Warning
      BY <2>2 DEF Warned
    <2>4. ConnectedOnce
      BY DEF PhaseInv
    <2> HIDE DEF out, M, r
    <2>5. /\ \A g \in Open \cap DOMAIN out : current_sockets[g] \notin hungup =>
                toClient'[current_sockets[g]] = Append(toClient[current_sockets[g]], out[g])
          /\ \A q \in Procs : (\A g \in Open \cap DOMAIN out : current_sockets[g] # q)
                                 => toClient'[q] = toClient[q]
          /\ \A q \in hungup : toClient'[q] = toClient[q]
      BY <2>1, <2>4, SendReaches
    <2>6. ConnectedOnce'
      BY <1>1, <2>4, <2>5, ConnectedKept
    <2>7. /\ ~InChat(p) /\ ~InChat(p)'
          /\ \A q \in Procs : InChat(q)' <=> InChat(q) /\ ~\E g \in Open \cap M : current_sockets[g] = q
      BY <1>0, <1>1, <1>2, <2>1, <2>2, <2>4 DEF InChat, ConnectedOnce, Open
    <2> HIDE DEF S
    <2>8. ASSUME NEW q \in Procs \ (estranged' \cup hungup') PROVE InPhase(q)'
      <3>1. q \notin hungup /\ InPhase(q) /\ phase' = phase /\ command' = command
        BY <1>1, <2>8 DEF PhaseInv, PhasesAgree, clientVars
      <3>2. CASE q = p
        <4>1. /\ phase[p] = "waiting" /\ c \in Commands /\ toClient[p] = <<>>
              /\ S[1] = c /\ SubSeq(S, 1, k) = <<c>> /\ SubSeq(S, k + 1, Len(S)) = <<>>
          BY <1>2, <1>3, <2>7, <3>1, <3>2, OwnCommand DEF S
        <4>2. f \in Open \cap DOMAIN out
          BY <1>2, <2>3
        <4>3. /\ toServer'[p] = <<>>
              /\ toClient'[p] = Append(<<>>, Reply("0", <<c>>))
          <5>1. toClient'[p] = Append(toClient[p], Reply("0", Taken(f, k)))
            BY <1>0, <2>3, <2>5, <3>1, <3>2, <4>2
          <5>2. Taken(f, k) = <<c>>
            BY <1>2, <4>1
          <5>3. QED
            BY <1>2, <4>1, <5>1, <5>2
        <4>4. "0" \in Statuses /\ c.kind # "JOIN"
          BY <1>2, <4>1 DEF Statuses
        <4>5. OutOfRoom("waiting", c, toServer'[p], toClient'[p])
          BY <4>1, <4>3, <4>4, OtherAnswered
        <4>6. OutOfRoom(phase'[p], command'[p], toServer'[p], toClient'[p])
          BY <3>1, <4>1, <4>5
        <4>7. InPhase(p)'
          BY <2>7, <4>6 DEF InPhase
        <4>8. QED
          BY <3>2, <4>7
      <3>3. ASSUME q # p, NEW g \in Open \cap M, current_sockets[g] = q
            PROVE  InPhase(q)'
        <4>1. InChat(q)
          BY <2>2, <3>3 DEF InChat
        <4>2. InRoom(phase[q], command[q], toServer[q], toClient[q])
          BY <3>1, <4>1 DEF InPhase
        <4>3. toClient'[q] = Append(toClient[q], Warning)
          BY <2>3, <2>5, <3>1, <3>3
        <4>4. toServer'[q] = toServer[q] /\ toClient[q] \in Seq(Outgoing)
          BY <1>2, <3>3 DEF StreamsTyped
        <4>5. OutOfRoom(phase[q], command[q], toServer[q], Append(toClient[q], Warning))
          BY <4>2, <4>4, WarningArrives
        <4>6. OutOfRoom(phase'[q], command'[q], toServer'[q], toClient'[q])
          BY <3>1, <4>3, <4>4, <4>5
        <4>7. ~InChat(q)'
          BY <2>7, <3>3
        <4>8. QED
          BY <4>6, <4>7 DEF InPhase
      <3>4. ASSUME q # p, ~\E g \in Open \cap M : current_sockets[g] = q
            PROVE  InPhase(q)'
        <4>1. \A g \in Open \cap DOMAIN out : current_sockets[g] # q
          BY <1>0, <2>3, <3>4
        <4>2. toClient'[q] = toClient[q] /\ toServer'[q] = toServer[q]
          BY <1>2, <2>5, <3>4, <4>1
        <4>3. InChat(q)' <=> InChat(q)
          BY <2>7, <3>4
        <4>4. QED
          BY <3>1, <4>2, <4>3, PhaseKept
      <3>5. QED
        BY <3>2, <3>3, <3>4
    <2>9. QED
      BY <2>6, <2>8 DEF PhaseInv, PhasesAgree
  <1>6. QED
    BY <1>4, <1>5

\* Chat mode: what is taken are lines, and lines is what the others get.
LEMMA ChatPhases ==
    ASSUME StreamsTyped, TablesInv, PhaseInv, NEW f, NEW k, Chat(f, k),
           UNCHANGED clientVars
    PROVE  PhaseInv'
  <1> DEFINE M == ToSet(chatrooms[clients[f]]) \ {f}
             out == [g \in M |-> Forwarded]
  <1>0. PICK p : p = current_sockets[f]
    OBVIOUS
  <1>1. /\ f \in chatmodeClients
        /\ UNCHANGED <<clientVars, current_sockets, backlog, hungup>>
        /\ UNCHANGED estranged /\ UNCHANGED chatmodeClients
    BY DEF Chat, tables
  <1>2. PICK kinds : Takes(f, k, kinds)
    BY DEF Chat
  <1>3. /\ f \in Open /\ p \in Procs /\ toServer[p] \in Seq(Messages) /\ k \in 1..Len(toServer[p])
        /\ toServer'[p] = SubSeq(toServer[p], k + 1, Len(toServer[p]))
        /\ \A q \in Procs : q # p => toServer'[q] = toServer[q]
    BY <1>0, <1>2, TakesFrom
  <1>4. f \in DOMAIN clients /\ clients[f] \in DOMAIN chatrooms
    BY <1>1 DEF TablesInv, TablesAgree
  <1>5. Send(out)
    BY <1>4 DEF Chat, Others
  <1>6. M \subseteq chatmodeClients /\ f \notin M
    BY <1>4 DEF TablesInv, TablesAgree
  <1>7. ConnectedOnce
    BY DEF PhaseInv
  <1>8. DOMAIN out = M /\ \A g \in M : out[g] = Forwarded
    OBVIOUS
  <1> HIDE DEF out, M
  <1>9. /\ \A g \in Open \cap DOMAIN out : current_sockets[g] \notin hungup =>
              toClient'[current_sockets[g]] = Append(toClient[current_sockets[g]], out[g])
        /\ \A q \in Procs : (\A g \in Open \cap DOMAIN out : current_sockets[g] # q)
                               => toClient'[q] = toClient[q]
        /\ \A q \in hungup : toClient'[q] = toClient[q]
    BY <1>5, <1>7, SendReaches
  <1>10. ConnectedOnce'
    BY <1>1, <1>7, <1>9, ConnectedKept
  <1>11. InChat(p) /\ \A q \in Procs : InChat(q)' <=> InChat(q)
    BY <1>0, <1>1, <1>3 DEF InChat, Open
  <1>12. ASSUME NEW q \in Procs \ (estranged' \cup hungup') PROVE InPhase(q)'
    <2>1. q \notin hungup /\ InPhase(q) /\ phase' = phase /\ command' = command
      BY <1>1, <1>12 DEF PhaseInv, PhasesAgree, clientVars
    <2>2. CASE q = p
      <3>1. InRoom(phase[p], command[p], toServer[p], toClient[p])
        BY <1>11, <2>1, <2>2 DEF InPhase
      <3>2. toClient'[p] = toClient[p]
        <4>1. \A g \in Open \cap DOMAIN out : current_sockets[g] # p
          BY <1>0, <1>3, <1>6, <1>7, <1>8 DEF ConnectedOnce
        <4>2. QED
          BY <1>3, <1>9, <4>1
      <3>3. InRoom(phase[p], command[p], SubSeq(toServer[p], k + 1, Len(toServer[p])), toClient[p])
        BY <1>3, <3>1, LinesTaken
      <3>4. InRoom(phase'[p], command'[p], toServer'[p], toClient'[p])
        BY <1>3, <2>1, <3>2, <3>3
      <3>5. InPhase(p)'
        BY <1>3, <1>11, <3>4 DEF InPhase
      <3>6. QED
        BY <2>2, <3>5
    <2>3. ASSUME q # p, NEW g \in Open \cap M, current_sockets[g] = q
          PROVE  InPhase(q)'
      <3>1. InChat(q)
        BY <1>6, <2>3 DEF InChat
      <3>2. InRoom(phase[q], command[q], toServer[q], toClient[q])
        BY <2>1, <3>1 DEF InPhase
      <3>3. toClient'[q] = Append(toClient[q], Forwarded)
        BY <1>8, <1>9, <2>1, <2>3
      <3>4. toServer'[q] = toServer[q] /\ toClient[q] \in Seq(Outgoing)
        BY <1>3, <2>3 DEF StreamsTyped
      <3>5. InRoom(phase[q], command[q], toServer[q], Append(toClient[q], Forwarded))
        BY <3>2, <3>4, LineArrives
      <3>6. InRoom(phase'[q], command'[q], toServer'[q], toClient'[q])
        BY <2>1, <3>3, <3>4, <3>5
      <3>7. QED
        BY <1>11, <3>1, <3>6 DEF InPhase
    <2>4. ASSUME q # p, ~\E g \in Open \cap M : current_sockets[g] = q
          PROVE  InPhase(q)'
      <3>1. \A g \in Open \cap DOMAIN out : current_sockets[g] # q
        BY <1>8, <2>4
      <3>2. toClient'[q] = toClient[q] /\ toServer'[q] = toServer[q]
        BY <1>3, <1>9, <2>4, <3>1
      <3>3. QED
        BY <1>11, <2>1, <3>2, PhaseKept
    <2>5. QED
      BY <2>2, <2>3, <2>4
  <1>13. QED
    BY <1>10, <1>12 DEF PhaseInv, PhasesAgree

LEMMA ServePhases ==
    ASSUME StreamsTyped, TablesInv, PhaseInv, NEW f \in Fds, Serve(f), UNCHANGED clientVars
    PROVE  PhaseInv'
  <1>1. CASE Close(f)
    <2>1. /\ f \in Open /\ current_sockets[f] \in hungup
          /\ DOMAIN current_sockets' = Open \ {f}
          /\ \A g \in Open \ {f} : current_sockets'[g] = current_sockets[g]
          /\ UNCHANGED <<clientVars, chatmodeClients, backlog, toServer, toClient, hungup, estranged>>
      BY <1>1 DEF Close, Drop, Open, tables
    <2>2. ConnectedOnce'
      BY <2>1 DEF PhaseInv, ConnectedOnce, Held, Open, clientVars
    <2>3. ASSUME NEW q \in Procs \ (estranged' \cup hungup') PROVE InPhase(q)'
      <3>1. InPhase(q) /\ q # current_sockets[f]
        BY <2>1, <2>3 DEF PhaseInv, PhasesAgree
      <3>2. InChat(q)' <=> InChat(q)
        BY <2>1, <3>1 DEF InChat, Open
      <3>3. QED
        BY <2>1, <3>1, <3>2, PhaseKept DEF clientVars
    <2>4. QED
      BY <2>2, <2>3 DEF PhaseInv, PhasesAgree
  <1>2. ASSUME NEW k, NEW kinds, Takes(f, k, kinds)
        PROVE  Taken(f, k)[1].kind \in kinds
    BY <1>2, TakesFrom
  <1>3. {"0", "1", "2", "3", "L"} = Statuses
    BY DEF Statuses
  <1>4. ASSUME NEW k, Create(f, k) PROVE PhaseInv'
    <2>1. /\ f \notin chatmodeClients /\ Takes(f, k, {"CREATE"})
          /\ UNCHANGED <<clientVars, chatmodeClients, current_sockets, backlog, hungup, estranged>>
          /\ Answer(f, "0", Taken(f, k)) \/ Answer(f, "1", Taken(f, k))
      BY <1>4 DEF Create
    <2>2. Taken(f, k)[1].kind = "CREATE"
      BY <1>2, <2>1
    <2>3. Taken(f, k)[1].kind # "JOIN" /\ Taken(f, k)[1] # ChatLine
      BY <2>2, Kinds
    <2>4. QED
      BY <1>3, <2>1, <2>3, AnswerPhases
  <1>5. ASSUME NEW k, Join(f, k) PROVE PhaseInv'
    <2>1. /\ f \notin chatmodeClients /\ Takes(f, k, {"JOIN"})
          /\ UNCHANGED <<clientVars, current_sockets, backlog, hungup, estranged>>
      BY <1>5 DEF Join
    <2>2. \/ Answer(f, "0", Taken(f, k)) /\ chatmodeClients' = chatmodeClients \cup {f}
          \/ Answer(f, "2", Taken(f, k)) /\ UNCHANGED chatmodeClients
      BY <1>5 DEF Join, Welcome
    <2>3. Taken(f, k)[1].kind = "JOIN"
      BY <1>2, <2>1
    <2>4. Taken(f, k)[1] # ChatLine /\ "2" \notin {"0", "L"}
      BY <2>3, Kinds
    <2>5. CASE Answer(f, "0", Taken(f, k)) /\ chatmodeClients' = chatmodeClients \cup {f}
      BY <1>3, <2>1, <2>3, <2>4, <2>5, AnswerPhases
    <2>6. CASE Answer(f, "2", Taken(f, k)) /\ UNCHANGED chatmodeClients
      BY <1>3, <2>1, <2>4, <2>6, AnswerPhases
    <2>7. QED
      BY <2>2, <2>5, <2>6
  <1>6. ASSUME NEW k, Delete(f, k) PROVE PhaseInv'
    BY <1>6, DeletePhases
  <1>7. ASSUME NEW k, List(f, k) PROVE PhaseInv'
    <2>1. /\ f \notin chatmodeClients /\ Takes(f, k, {"LIST"})
          /\ UNCHANGED <<clientVars, chatmodeClients, current_sockets, backlog, hungup, estranged>>
          /\ Answer(f, "L", Taken(f, k))
      BY <1>7 DEF List, tables
    <2>2. Taken(f, k)[1].kind = "LIST"
      BY <1>2, <2>1
    <2>3. Taken(f, k)[1].kind # "JOIN" /\ Taken(f, k)[1] # ChatLine
      BY <2>2, Kinds
    <2>4. QED
      BY <1>3, <2>1, <2>3, AnswerPhases
  <1>8. ASSUME NEW k, Invalid(f, k) PROVE PhaseInv'
    <2>1. /\ f \notin chatmodeClients /\ Takes(f, k, {"line", "other"})
          /\ UNCHANGED <<clientVars, chatmodeClients, current_sockets, backlog, hungup>>
          /\ Answer(f, "3", Taken(f, k))
          /\ estranged \subseteq estranged'
          /\ Taken(f, k)[1] = ChatLine => current_sockets[f] \in estranged'
      BY <1>8 DEF Invalid, InvalidStatus, tables
    <2>2. Taken(f, k)[1].kind \in {"line", "other"}
      BY <1>2, <2>1
    <2>3. Taken(f, k)[1].kind # "JOIN"
      BY <2>2
    <2>4. QED
      BY <1>3, <2>1, <2>3, AnswerPhases
  <1>9. ASSUME NEW k, Chat(f, k) PROVE PhaseInv'
    BY <1>9, ChatPhases
  <1>10. QED
    BY <1>1, <1>4, <1>5, <1>6, <1>7, <1>8, <1>9 DEF Serve

\* accept: who gets a descriptor that is still in a room is estranged.
LEMMA AcceptPhases ==
    ASSUME StreamsTyped, PhaseInv, NEW p \in Procs, NEW f \in Fds, Accept(p, f),
           UNCHANGED clientVars
    PROVE  PhaseInv'
  <1>1. /\ p \in backlog /\ f \notin Open
        /\ DOMAIN current_sockets' = Open \cup {f}
        /\ current_sockets'[f] = p
        /\ \A g \in Open : current_sockets'[g] = current_sockets[g]
        /\ backlog' = backlog \ {p}
        /\ f \in chatmodeClients => p \in estranged'
        /\ estranged \subseteq estranged'
        /\ UNCHANGED <<clientVars, chatmodeClients, toServer, toClient, hungup>>
    BY DEF Accept, Put, Open, tables
  <1>2. ~Held(p) /\ phase[p] # "new"
    BY <1>1 DEF PhaseInv, ConnectedOnce
  <1>3. ConnectedOnce'
    BY <1>1, <1>2 DEF PhaseInv, ConnectedOnce, Held, Open, clientVars
  <1>4. ASSUME NEW q \in Procs \ (estranged' \cup hungup') PROVE InPhase(q)'
    <2>1. InPhase(q)
      BY <1>1, <1>4 DEF PhaseInv, PhasesAgree
    <2>2. CASE q = p
      <3>1. ~InChat(p) /\ f \notin chatmodeClients
        BY <1>1, <1>2, <1>4, <2>2 DEF InChat, Held
      <3>2. ~InChat(p)'
        BY <1>1, <1>2, <3>1 DEF InChat, Held, Open
      <3>3. QED
        BY <1>1, <2>1, <2>2, <3>1, <3>2, PhaseKept DEF clientVars
    <2>3. CASE q # p
      <3>1. InChat(q)' <=> InChat(q)
        BY <1>1, <2>3 DEF InChat, Open
      <3>2. QED
        BY <1>1, <2>1, <3>1, PhaseKept DEF clientVars
    <2>4. QED
      BY <2>2, <2>3
  <1>5. QED
    BY <1>3, <1>4 DEF PhaseInv, PhasesAgree

-----------------------------------------------------------------------------
(* Chat mode: the steps of a client                                         *)

\* A client moves neither the server's tables nor the other clients.
LEMMA OthersStay ==
    ASSUME PhaseInv, NEW p \in Procs, UNCHANGED <<current_sockets, chatmodeClients>>,
           hungup \subseteq hungup', estranged \subseteq estranged',
           \A q \in Procs \ {p} : /\ phase'[q] = phase[q] /\ command'[q] = command[q]
                                  /\ toServer'[q] = toServer[q] /\ toClient'[q] = toClient[q],
           ConnectedOnce',
           p \notin estranged' \cup hungup' => InPhase(p)'
    PROVE  PhaseInv'
  <1>1. ASSUME NEW q \in Procs \ (estranged' \cup hungup') PROVE InPhase(q)'
    <2>1. CASE q = p
      BY <1>1, <2>1
    <2>2. CASE q # p
      <3>1. InPhase(q)
        BY <1>1 DEF PhaseInv, PhasesAgree
      <3>2. InChat(q)' <=> InChat(q)
        BY DEF InChat, Open
      <3>3. QED
        BY <2>2, <3>1, <3>2, PhaseKept
    <2>3. QED
      BY <2>1, <2>2
  <1>2. QED
    BY <1>1 DEF PhaseInv, PhasesAgree

\* What a recv of a client does to its stream.
LEMMA ReadsFrom ==
    ASSUME StreamsTyped, NEW p \in Procs, NEW k, Receives(p, k)
    PROVE  /\ toClient[p] \in Seq(Outgoing) /\ k \in 1..Len(toClient[p])
           /\ toClient'[p] = SubSeq(toClient[p], k + 1, Len(toClient[p]))
           /\ \A q \in Procs \ {p} : toClient'[q] = toClient[q]
           /\ estranged \subseteq estranged'
           /\ p \notin estranged' => \A i \in 2..k : toClient[p][i] # Warning
  BY DEF Receives, StreamsTyped

\* What a send of a client does to its stream.
LEMMA WritesTo ==
    ASSUME StreamsTyped, NEW p \in Procs, NEW m, Sends(p, m)
    PROVE  /\ toServer[p] \in Seq(Messages)
           /\ toServer'[p] = Append(toServer[p], m)
           /\ \A q \in Procs \ {p} : toServer'[q] = toServer[q]
  BY DEF Sends, StreamsTyped

\* A client that is in step, by its phase.
LEMMA PhaseTells ==
    ASSUME PhaseInv, NEW p \in Procs, p \notin estranged, Running(p)
    PROVE  /\ InPhase(p)
           /\ InChat(p) => phase[p] \in {"chat", "waiting"}
  <1>1. InPhase(p)
    BY DEF PhaseInv, PhasesAgree, Running
  <1>2. QED
    BY <1>1 DEF InPhase, InRoom

LEMMA ConnectPhases ==
    ASSUME TypeInv, PhaseInv, NEW p \in Procs, connect_to(p)
    PROVE  PhaseInv'
  <1>1. /\ phase[p] = "new" /\ phase' = [phase EXCEPT ![p] = "command"]
        /\ backlog' = backlog \cup {p} /\ Running(p)
        /\ UNCHANGED <<current_sockets, chatmodeClients, toServer, toClient, hungup,
                       estranged, command, sender>>
    BY DEF connect_to, tables
  <1>2. phase'[p] = "command" /\ \A q \in Procs \ {p} : phase'[q] = phase[q]
    BY <1>1 DEF TypeInv, ClientsTyped
  <1>3. ConnectedOnce'
    BY <1>1, <1>2 DEF PhaseInv, ConnectedOnce, Held, Open, TypeInv, StreamsTyped
  <1>4. ASSUME p \notin estranged' \cup hungup' PROVE InPhase(p)'
    <2>1. InPhase(p) /\ ~InChat(p)
      BY <1>1, <1>4, PhaseTells
    <2>2. OutOfRoom("new", command[p], toServer[p], toClient[p])
      BY <1>1, <2>1 DEF InPhase
    <2>3. toServer[p] = <<>> /\ toClient[p] = <<>>
      BY <2>2 DEF OutOfRoom
    <2>4. Lines(<<>>, Len(<<>>))
      BY DEF Lines
    <2>5. OutOfRoom("command", command[p], toServer[p], toClient[p])
      BY <2>3, <2>4 DEF OutOfRoom
    <2>6. ~InChat(p)'
      BY <1>1, <2>1 DEF InChat, Open
    <2>7. QED
      BY <1>1, <1>2, <2>5, <2>6 DEF InPhase
  <1>5. QED
    BY <1>1, <1>2, <1>3, <1>4, OthersStay

LEMMA CommandPhases ==
    ASSUME TypeInv, PhaseInv, NEW p \in Procs, NEW m \in Commands, SendCommand(p, m)
    PROVE  PhaseInv'
  <1>1. /\ phase[p] = "command" /\ phase' = [phase EXCEPT ![p] = "waiting"]
        /\ command' = [command EXCEPT ![p] = m]
        /\ Sends(p, m) /\ Running(p)
        /\ UNCHANGED <<current_sockets, backlog, chatmodeClients, toClient, hungup, estranged, sender>>
    BY DEF SendCommand, tables, sockets
  <1>2. /\ phase'[p] = "waiting" /\ command'[p] = m
        /\ \A q \in Procs \ {p} : phase'[q] = phase[q] /\ command'[q] = command[q]
    BY <1>1 DEF TypeInv, ClientsTyped
  <1>3. /\ toServer[p] \in Seq(Messages)
        /\ toServer'[p] = Append(toServer[p], m)
        /\ \A q \in Procs \ {p} : toServer'[q] = toServer[q]
    BY <1>1, WritesTo DEF TypeInv
  <1>4. ConnectedOnce'
    BY <1>1, <1>2 DEF PhaseInv, ConnectedOnce, Held, Open, TypeInv, StreamsTyped
  <1>5. ASSUME p \notin estranged' \cup hungup' PROVE InPhase(p)'
    <2>1. InPhase(p) /\ ~InChat(p)
      BY <1>1, <1>5, PhaseTells
    <2>2. OutOfRoom("command", command[p], toServer[p], toClient[p])
      BY <1>1, <2>1 DEF InPhase
    <2>3. OutOfRoom("waiting", m, Append(toServer[p], m), toClient[p])
      BY <1>3, <2>2, CommandSent
    <2>4. ~InChat(p)'
      BY <1>1, <2>1 DEF InChat, Open
    <2>5. OutOfRoom(phase'[p], command'[p], toServer'[p], toClient'[p])
      BY <1>1, <1>2, <1>3, <2>3
    <2>6. QED
      BY <2>4, <2>5 DEF InPhase
  <1>6. QED
    BY <1>1, <1>2, <1>3, <1>4, <1>5, OthersStay

LEMMA ReplyPhases ==
    ASSUME TypeInv, PhaseInv, NEW p \in Procs, NEW k, RecvReply(p, k)
    PROVE  PhaseInv'
  <1> DEFINE C == toClient[p]
             c == command[p]
             D == SubSeq(C, k + 1, Len(C))
  <1>1. /\ phase[p] = "waiting" /\ Receives(p, k) /\ Running(p)
        /\ command' = [command EXCEPT ![p] = ChatLine]
        /\ UNCHANGED <<current_sockets, backlog, chatmodeClients, toServer, hungup>>
    BY DEF RecvReply, tables, sockets
  <1>2. PICK success \in Succeeds(C[1]) :
            IF success /\ c.kind = "JOIN"
            THEN /\ phase' = [phase EXCEPT ![p] = "chat"]
                 /\ sender' = [sender EXCEPT ![p] = "check"]
            ELSE /\ phase' = [phase EXCEPT ![p] = "command"]
                 /\ UNCHANGED sender
    BY DEF RecvReply
  <1>3. /\ \A q \in Procs \ {p} : /\ phase'[q] = phase[q] /\ command'[q] = command[q]
                                  /\ sender'[q] = sender[q]
        /\ command'[p] = ChatLine
        /\ \/ success /\ c.kind = "JOIN" /\ phase'[p] = "chat"
           \/ ~(success /\ c.kind = "JOIN") /\ phase'[p] = "command" /\ sender'[p] = sender[p]
    BY <1>1, <1>2 DEF TypeInv, ClientsTyped
  <1>4. /\ C \in Seq(Outgoing) /\ k \in 1..Len(C) /\ toClient'[p] = D
        /\ \A q \in Procs \ {p} : toClient'[q] = toClient[q]
        /\ estranged \subseteq estranged'
        /\ p \notin estranged' => \A i \in 2..k : C[i] # Warning
    BY <1>1, ReadsFrom DEF TypeInv
  <1>5. ConnectedOnce'
    BY <1>1, <1>3, <1>4 DEF PhaseInv, ConnectedOnce, Held, Open, TypeInv, StreamsTyped, Running
  <1>6. ASSUME p \notin estranged' \cup hungup' PROVE InPhase(p)'
    <2>1. InPhase(p) /\ (InChat(p)' <=> InChat(p))
      BY <1>1, <1>4, <1>6, PhaseTells DEF InChat, Open
    <2>2. toServer[p] \in Seq(Messages) /\ toServer'[p] = toServer[p]
      BY <1>1 DEF TypeInv, StreamsTyped
    <2>3. ASSUME NEW st \in Statuses, C[1] = Reply(st, <<c>>)
          PROVE  success <=> st \in {"0", "L"}
      <3>1. C[1].kind = "reply" /\ C[1].status = st
        BY <2>3, Kinds
      <3>2. QED
        BY <3>1 DEF Succeeds
    <2> HIDE DEF C, c, D
    <2>4. CASE InChat(p)
      <3>1. InRoom("waiting", c, toServer[p], C)
        BY <1>1, <2>1, <2>4 DEF InPhase, C, c
      <3>2. /\ c.kind = "JOIN" /\ C[1] = Reply("0", <<c>>)
            /\ InRoom("chat", ChatLine, toServer[p], D)
        BY <1>4, <2>2, <3>1, ReplyInRoom DEF D
      <3>3. success
        BY <2>3, <3>2 DEF Statuses
      <3>4. InRoom(phase'[p], command'[p], toServer'[p], toClient'[p])
        BY <1>3, <1>4, <2>2, <3>2, <3>3
      <3>5. QED
        BY <2>1, <2>4, <3>4 DEF InPhase
    <2>5. CASE ~InChat(p)
      <3>1. OutOfRoom("waiting", c, toServer[p], C)
        BY <1>1, <2>1, <2>5 DEF InPhase, C, c
      <3>2. \/ /\ c.kind = "JOIN" /\ C[1] = Reply("0", <<c>>)
               /\ OutOfRoom("chat", ChatLine, toServer[p], D)
            \/ /\ \E st \in Statuses : /\ C[1] = Reply(st, <<c>>)
                                       /\ c.kind = "JOIN" => st \notin {"0", "L"}
               /\ OutOfRoom("command", ChatLine, toServer[p], D)
        BY <1>4, <1>6, <2>2, <3>1, ReplyOutOfRoom DEF D
      <3>3. CASE /\ c.kind = "JOIN" /\ C[1] = Reply("0", <<c>>)
                 /\ OutOfRoom("chat", ChatLine, toServer[p], D)
        <4>1. success
          BY <2>3, <3>3 DEF Statuses
        <4>2. OutOfRoom(phase'[p], command'[p], toServer'[p], toClient'[p])
          BY <1>3, <1>4, <2>2, <3>3, <4>1
        <4>3. QED
          BY <2>1, <2>5, <4>2 DEF InPhase
      <3>4. CASE /\ \E st \in Statuses : /\ C[1] = Reply(st, <<c>>)
                                         /\ c.kind = "JOIN" => st \notin {"0", "L"}
                 /\ OutOfRoom("command", ChatLine, toServer[p], D)
        <4>1. ~(success /\ c.kind = "JOIN")
          BY <2>3, <3>4
        <4>2. OutOfRoom(phase'[p], command'[p], toServer'[p], toClient'[p])
          BY <1>3, <1>4, <2>2, <3>4, <4>1
        <4>3. QED
          BY <2>1, <2>5, <4>2 DEF InPhase
      <3>5. QED
        BY <3>2, <3>3, <3>4
    <2>6. QED
      BY <2>4, <2>5
  <1>7. QED
    BY <1>1, <1>3, <1>4, <1>5, <1>6, OthersStay

LEMMA MessagePhases ==
    ASSUME TypeInv, PhaseInv, NEW p \in Procs, NEW k, receiveMessage(p, k)
    PROVE  PhaseInv'
  <1> DEFINE C == toClient[p]
             S == toServer[p]
             D == SubSeq(C, k + 1, Len(C))
  <1>1. /\ phase[p] = "chat" /\ Receives(p, k) /\ Running(p)
        /\ phase' = IF C[1] = Warning THEN [phase EXCEPT ![p] = "leaving"] ELSE phase
        /\ UNCHANGED <<current_sockets, backlog, chatmodeClients, toServer, hungup,
                       command, sender>>
    BY DEF receiveMessage, tables, sockets
  <1>2. /\ \A q \in Procs \ {p} : phase'[q] = phase[q]
        /\ phase'[p] = IF C[1] = Warning THEN "leaving" ELSE "chat"
    BY <1>1 DEF TypeInv, ClientsTyped
  <1>3. /\ C \in Seq(Outgoing) /\ k \in 1..Len(C) /\ toClient'[p] = D
        /\ \A q \in Procs \ {p} : toClient'[q] = toClient[q]
        /\ estranged \subseteq estranged'
        /\ p \notin estranged' => \A i \in 2..k : C[i] # Warning
    BY <1>1, ReadsFrom DEF TypeInv
  <1>4. ConnectedOnce'
    BY <1>1, <1>2, <1>3 DEF PhaseInv, ConnectedOnce, Held, Open, TypeInv, StreamsTyped, Running
  <1>5. ASSUME p \notin estranged' \cup hungup' PROVE InPhase(p)'
    <2>1. InPhase(p) /\ (InChat(p)' <=> InChat(p))
      BY <1>1, <1>3, <1>5, PhaseTells DEF InChat, Open
    <2> HIDE DEF C, S, D
    <2>2. /\ InChat(p) => InRoom("chat", command[p], S, C)
          /\ ~InChat(p) => OutOfRoom("chat", command[p], S, C)
      BY <1>1, <2>1 DEF InPhase, S, C
    <2>3. CASE C[1] = Warning
      <3>1. ~InChat(p) /\ OutOfRoom("leaving", command[p], S, D)
        BY <1>3, <2>2, <2>3, WarningRead DEF D
      <3>2. OutOfRoom(phase'[p], command'[p], toServer'[p], toClient'[p])
        BY <1>1, <1>2, <1>3, <2>3, <3>1 DEF S
      <3>3. QED
        BY <2>1, <3>1, <3>2 DEF InPhase
    <2>4. CASE C[1] # Warning
      <3>1. \A i \in 1..k : C[i] # Warning
        <4>1. \A i \in 1..k : i = 1 \/ i \in 2..k
          BY <1>3
        <4>2. QED
          BY <1>3, <1>5, <2>4, <4>1
      <3>2. /\ InChat(p) => InRoom("chat", command[p], S, D)
            /\ ~InChat(p) => OutOfRoom("chat", command[p], S, D)
        BY <1>3, <2>2, <3>1, LinesRead DEF D
      <3>3. phase'[p] = "chat" /\ command'[p] = command[p] /\ toServer'[p] = S /\ toClient'[p] = D
        BY <1>1, <1>2, <1>3, <2>4 DEF S
      <3>4. QED
        BY <2>1, <3>2, <3>3 DEF InPhase
    <2>5. QED
      BY <2>3, <2>4
  <1>6. QED
    BY <1>1, <1>2, <1>3, <1>4, <1>5, OthersStay

LEMMA LinePhases ==
    ASSUME TypeInv, PhaseInv, NEW p \in Procs, sendMessage(p)
    PROVE  PhaseInv'
  <1> DEFINE S == toServer[p]
             R == Append(S, ChatLine)
  <1>1. /\ sender[p] = "typing" /\ Sends(p, ChatLine) /\ Running(p)
        /\ sender' = [sender EXCEPT ![p] = "check"]
        /\ UNCHANGED <<current_sockets, backlog, chatmodeClients, toClient, hungup, estranged,
                       phase, command>>
    BY DEF sendMessage, tables, sockets
  <1>2. \A q \in Procs \ {p} : sender'[q] = sender[q]
    BY <1>1 DEF TypeInv, ClientsTyped
  <1>3. S \in Seq(Messages) /\ toServer'[p] = R /\ \A q \in Procs \ {p} : toServer'[q] = toServer[q]
    BY <1>1, WritesTo DEF TypeInv
  <1>4. phase[p] \in {"chat", "leaving"}
    BY <1>1 DEF PhaseInv, ConnectedOnce
  <1>5. ConnectedOnce'
    BY <1>1, <1>2, <1>4 DEF PhaseInv, ConnectedOnce, Held, Open, TypeInv, StreamsTyped
  <1>6. ASSUME p \notin estranged' \cup hungup' PROVE InPhase(p)'
    <2>1. InPhase(p) /\ (InChat(p)' <=> InChat(p))
      BY <1>1, <1>6, PhaseTells DEF InChat, Open
    <2>2. Lines(S, Len(S)) => Lines(R, Len(R))
      BY <1>3, LineSent
    <2> HIDE DEF S, R
    <2>3. /\ InChat(p) => InRoom(phase[p], command[p], S, toClient[p])
          /\ ~InChat(p) => OutOfRoom(phase[p], command[p], S, toClient[p])
      BY <2>1 DEF InPhase, S
    <2>4. InRoom(phase[p], command[p], S, toClient[p])
             => InRoom(phase[p], command[p], R, toClient[p])
      BY <1>4, <2>2 DEF InRoom
    <2>5. OutOfRoom(phase[p], command[p], S, toClient[p])
             => OutOfRoom(phase[p], command[p], R, toClient[p])
      BY <1>4, <2>2 DEF OutOfRoom
    <2>6. QED
      BY <1>1, <1>3, <2>1, <2>3, <2>4, <2>5 DEF InPhase
  <1>7. QED
    BY <1>1, <1>3, <1>5, <1>6, OthersStay

LEMMA ClientPhases ==
    ASSUME TypeInv, PhaseInv, NEW p \in Procs,
           \/ connect_to(p)
           \/ \E m \in Commands : SendCommand(p, m)
           \/ \E k \in 1..Len(toClient[p]) : RecvReply(p, k) \/ receiveMessage(p, k)
           \/ SenderChecks(p) \/ sendMessage(p) \/ SetStop(p) \/ EndChat(p)
           \/ Quit(p)
    PROVE  PhaseInv'
  <1>1. CASE SenderChecks(p)
    <2>1. /\ sender[p] = "check" /\ \A q \in Procs \ {p} : sender'[q] = sender[q]
          /\ UNCHANGED <<current_sockets, backlog, chatmodeClients, toServer, toClient, hungup,
                         estranged, phase, command>>
      BY <1>1 DEF SenderChecks, TypeInv, ClientsTyped, serverVars, tables, sockets
    <2>2. phase[p] \in {"chat", "leaving"}
      BY <2>1 DEF PhaseInv, ConnectedOnce
    <2>3. ConnectedOnce'
      BY <2>1, <2>2 DEF PhaseInv, ConnectedOnce, Held, Open
    <2>4. ASSUME p \notin estranged' \cup hungup' PROVE InPhase(p)'
      BY <2>1, <2>4 DEF PhaseInv, PhasesAgree, InPhase, InChat, Open
    <2>5. QED
      BY <2>1, <2>3, <2>4, OthersStay
  <1>2. CASE SetStop(p)
    <2>1. UNCHANGED <<current_sockets, backlog, chatmodeClients, toServer, toClient, hungup,
                      estranged, phase, command, sender>>
      BY <1>2 DEF SetStop, serverVars, tables, sockets
    <2>2. ConnectedOnce'
      BY <2>1 DEF PhaseInv, ConnectedOnce, Held, Open
    <2>3. ASSUME p \notin estranged' \cup hungup' PROVE InPhase(p)'
      BY <2>1, <2>3 DEF PhaseInv, PhasesAgree, InPhase, InChat, Open
    <2>4. QED
      BY <2>1, <2>2, <2>3, OthersStay
  <1>3. CASE EndChat(p)
    <2>1. /\ phase[p] = "leaving" /\ sender[p] = "off" /\ Running(p)
          /\ phase'[p] = "command" /\ \A q \in Procs \ {p} : phase'[q] = phase[q]
          /\ UNCHANGED <<current_sockets, backlog, chatmodeClients, toServer, toClient, hungup,
                         estranged, command, sender>>
      BY <1>3 DEF EndChat, TypeInv, ClientsTyped, serverVars, tables, sockets
    <2>2. ConnectedOnce'
      BY <2>1 DEF PhaseInv, ConnectedOnce, Held, Open, TypeInv, StreamsTyped
    <2>3. ASSUME p \notin estranged' \cup hungup' PROVE InPhase(p)'
      <3>1. InPhase(p) /\ ~InChat(p)
        BY <2>1, <2>3, PhaseTells
      <3>2. OutOfRoom("leaving", command[p], toServer[p], toClient[p])
        BY <2>1, <3>1 DEF InPhase
      <3>3. OutOfRoom("command", command[p], toServer[p], toClient[p])
        BY <3>2 DEF OutOfRoom
      <3>4. ~InChat(p)'
        BY <2>1, <3>1 DEF InChat, Open
      <3>5. QED
        BY <2>1, <3>3, <3>4 DEF InPhase
    <2>4. QED
      BY <2>1, <2>2, <2>3, OthersStay
  <1>4. CASE Quit(p)
    <2>1. /\ phase[p] # "new" /\ hungup' = hungup \cup {p}
          /\ toClient'[p] = <<>> /\ \A q \in Procs \ {p} : toClient'[q] = toClient[q]
          /\ UNCHANGED <<current_sockets, backlog, chatmodeClients, toServer,
                         estranged, phase, command, sender>>
      BY <1>4 DEF Quit, TypeInv, StreamsTyped, clientVars, tables, sockets
    <2>2. ConnectedOnce'
      BY <2>1 DEF PhaseInv, ConnectedOnce, Held, Open, TypeInv, StreamsTyped
    <2>3. QED
      BY <2>1, <2>2, OthersStay
  <1>5. QED
    BY <1>1, <1>2, <1>3, <1>4, ConnectPhases, CommandPhases, ReplyPhases, MessagePhases, LinePhases

LEMMA PhasesInvariant == Spec => []PhaseInv
  <1>1. Init => PhaseInv
    <2>1. ASSUME Init PROVE ConnectedOnce
      BY <2>1 DEF Init, ServerInit, ConnectedOnce, Held, Open
    <2>2. ASSUME Init, NEW p \in Procs PROVE InPhase(p)
      <3>1. /\ phase[p] = "new" /\ toServer[p] = <<>> /\ toClient[p] = <<>>
            /\ chatmodeClients = {}
        BY <2>2 DEF Init, ServerInit
      <3>2. ~InChat(p)
        BY <3>1 DEF InChat
      <3>3. OutOfRoom(phase[p], command[p], toServer[p], toClient[p])
        BY <3>1 DEF OutOfRoom
      <3>4. QED
        BY <3>2, <3>3 DEF InPhase
    <2>3. QED
      BY <2>1, <2>2 DEF PhaseInv, PhasesAgree
  <1>2. TypeInv /\ TablesInv /\ PhaseInv /\ [Next]_vars => PhaseInv'
    <2> SUFFICES ASSUME TypeInv, TablesInv, PhaseInv, [Next]_vars PROVE PhaseInv'
      OBVIOUS
    <2>1. CASE UNCHANGED vars
      BY <2>1 DEF vars, serverVars, clientVars, tables, sockets, PhaseInv, ConnectedOnce,
                  PhasesAgree, InPhase, InChat, Held, Open
    <2>2. CASE \E p \in Procs, f \in Fds : ServerStep(Accept(p, f))
      BY <2>2, AcceptPhases DEF ServerStep, TypeInv
    <2>3. CASE \E f \in Fds : ServerStep(Serve(f))
      BY <2>3, ServePhases DEF ServerStep, TypeInv
    <2>4. QED
      BY <2>1, <2>2, <2>3, ClientPhases DEF Next
  <1>3. QED
    BY <1>1, <1>2, TypesInvariant, TablesInvariant, PTL DEF Spec

\* Client and server agree about chat mode, but for what is on its way, for any
\* number of clients and rooms: crc.cpp leaves chat mode on nothing but the
\* warning, and crsd.cpp sends that in the turn in which it deletes the room.
THEOREM ChatModesAgree == Spec => []ChatModeAgrees
  <1>1. TypeInv /\ PhaseInv => ChatModeAgrees
    <2> SUFFICES ASSUME TypeInv, PhaseInv, NEW f \in Open, NEW p, p = current_sockets[f],
                        p \notin estranged \cup hungup
                 PROVE  /\ f \in chatmodeClients =>
                               \/ phase[p] = "chat"
                               \/ /\ phase[p] = "waiting" /\ command[p].kind = "JOIN"
                                  /\ toClient[p] # <<>> /\ toClient[p][1].status = "0"
                        /\ phase[p] = "chat" =>
                               f \in chatmodeClients \/ Warning \in ToSet(toClient[p])
      BY DEF ChatModeAgrees
    <2>1. p \in Procs /\ (InChat(p) <=> f \in chatmodeClients)
      BY OwnDescriptor DEF TypeInv, StreamsTyped, Open, PhaseInv
    <2>2. InPhase(p)
      BY <2>1 DEF PhaseInv, PhasesAgree
    <2>3. CASE f \in chatmodeClients
      <3>1. InRoom(phase[p], command[p], toServer[p], toClient[p])
        BY <2>1, <2>2, <2>3 DEF InPhase
      <3>2. CASE phase[p] = "waiting" /\ Granted(command[p], toServer[p], toClient[p])
        BY <3>2, Kinds DEF Granted
      <3>3. QED
        BY <2>3, <3>1, <3>2 DEF InRoom
    <2>4. CASE f \notin chatmodeClients
      <3>1. OutOfRoom(phase[p], command[p], toServer[p], toClient[p])
        BY <2>1, <2>2, <2>4 DEF InPhase
      <3>2. ASSUME phase[p] = "chat" PROVE Warning \in ToSet(toClient[p])
        <4>1. EndsInWarning(toClient[p], 0)
          BY <3>1, <3>2 DEF OutOfRoom
        <4>2. toClient[p] \in Seq(Outgoing)
          BY <2>1 DEF TypeInv, StreamsTyped
        <4>3. Len(toClient[p]) \in 1..Len(toClient[p])
          BY <4>1, <4>2 DEF EndsInWarning
        <4>4. QED
          BY <4>1, <4>2, <4>3 DEF EndsInWarning, ToSet
      <3>3. QED
        BY <2>4, <3>2
    <2>5. QED
      BY <2>3, <2>4
  <1>2. QED
    BY <1>1, TypesInvariant, PhasesInvariant, PTL

\* A client that is in step gets the reply to its own command, never an earlier
\* one, and never a message of a room.
THEOREM RepliesAlwaysFit == Spec => []RepliesFit
  <1>1. PhaseInv => RepliesFit
    <2> SUFFICES ASSUME PhaseInv, NEW p \in Procs \ estranged,
                        phase[p] = "waiting", toClient[p] # <<>>
                 PROVE  toClient[p][1].to = <<command[p]>>
      BY DEF RepliesFit, ReplyFits
    <2>1. p \notin hungup
      BY DEF PhaseInv, ConnectedOnce
    <2>2. InPhase(p)
      BY <2>1 DEF PhaseInv, PhasesAgree
    <2>3. \E st : toClient[p][1] = Reply(st, <<command[p]>>)
      <3>1. CASE Granted(command[p], toServer[p], toClient[p])
        BY <3>1 DEF Granted
      <3>2. ASSUME NEW st \in Statuses, toClient[p] = <<Reply(st, <<command[p]>>)>>
            PROVE  toClient[p][1] = Reply(st, <<command[p]>>)
        BY <3>2
      <3>3. QED
        BY <2>2, <3>1, <3>2 DEF InPhase, InRoom, OutOfRoom
    <2>4. QED
      BY <2>3, Kinds
  <1>2. QED
    BY <1>1, PhasesInvariant, PTL

-----------------------------------------------------------------------------
(***************************************************************************)
(* The server implements Rooms.                                            *)
(***************************************************************************)

\* Who holds no descriptor was sent nothing.
Unheard == \A p \in Procs : ~Held(p) => toClient[p] = <<>>

RoomsInv == TypeInv /\ TablesInv /\ ConnectedOnce /\ Unheard

HeardOf(s) == [i \in DOMAIN s |-> Heard(s[i])]

\* What is heard of a stream that gets longer, or of which the first part is read.
LEMMA HeardAppended ==
    ASSUME NEW s \in Seq(Outgoing), NEW e \in Outgoing
    PROVE  HeardOf(Append(s, e)) = Append(HeardOf(s), Heard(e))
  <1> DEFINE t == Append(s, e)
             T == {Heard(m) : m \in Outgoing}
  <1>1. /\ t \in Seq(Outgoing) /\ Len(t) = Len(s) + 1 /\ Len(s) \in Nat
        /\ \A i \in 1..Len(s) : t[i] = s[i] /\ s[i] \in Outgoing
        /\ t[Len(s) + 1] = e
    OBVIOUS
  <1>2. HeardOf(s) = [i \in 1..Len(s) |-> Heard(s[i])] /\ HeardOf(s) \in Seq(T)
    BY <1>1 DEF HeardOf
  <1>3. HeardOf(t) = [i \in 1..(Len(s) + 1) |-> Heard(t[i])]
    BY <1>1 DEF HeardOf
  <1>4. QED
    BY <1>1, <1>2, <1>3

LEMMA HeardRest ==
    ASSUME NEW s \in Seq(Outgoing), NEW k \in 1..Len(s)
    PROVE  /\ HeardOf(SubSeq(s, k + 1, Len(s))) = SubSeq(HeardOf(s), k + 1, Len(HeardOf(s)))
           /\ Len(HeardOf(s)) = Len(s)
  <1> DEFINE t == SubSeq(s, k + 1, Len(s))
             T == {Heard(m) : m \in Outgoing}
             H == HeardOf(s)
             R == SubSeq(H, k + 1, Len(s))
  <1>1. /\ t \in Seq(Outgoing) /\ Len(t) = Len(s) - k /\ Len(s) \in Nat /\ k \in Nat
        /\ \A i \in 1..(Len(s) - k) : t[i] = s[k + i] /\ k + i \in 1..Len(s)
        /\ \A i \in 1..Len(s) : s[i] \in Outgoing
    BY RestOfStream
  <1>2. /\ H = [i \in 1..Len(s) |-> Heard(s[i])] /\ H \in Seq(T)
        /\ Len(H) = Len(s)
    BY <1>1 DEF HeardOf
  <1>3. /\ HeardOf(t) = [i \in 1..(Len(s) - k) |-> Heard(s[k + i])]
    BY <1>1 DEF HeardOf
  <1> HIDE DEF T, H
  <1>4. /\ R \in Seq(T) /\ Len(R) = Len(s) - k
        /\ \A i \in 1..(Len(s) - k) : R[i] = H[k + i]
    BY <1>2, RestOfStream
  <1>5. \A i \in 1..(Len(s) - k) : R[i] = Heard(s[k + i])
    BY <1>1, <1>2, <1>4
  <1> HIDE DEF R
  <1>6. R = [i \in 1..(Len(s) - k) |-> Heard(s[k + i])]
    BY <1>4, <1>5
  <1>7. QED
    BY <1>2, <1>3, <1>6 DEF R, H

\* A send tells everybody who is to be told, and nobody else.
LEMMA SendTells ==
    ASSUME StreamsTyped, ConnectedOnce,
           NEW out, \A g \in DOMAIN out : out[g] \in Outgoing, Send(out),
           NEW told, DOMAIN told = DOMAIN out, \A g \in DOMAIN out : told[g] = Heard(out[g])
    PROVE  House!Tell(told)
  <1> DEFINE SeatsOf(p) == {s \in DOMAIN told \cap DOMAIN Guest : Guest[s] = p}
  <1>1. /\ toClient \in [Procs -> Seq(Outgoing)] /\ toClient' \in [Procs -> Seq(Outgoing)]
        /\ Inbox = [p \in Procs |-> HeardOf(toClient[p])]
        /\ Inbox' = [p \in Procs |-> HeardOf(toClient'[p])]
    BY SendTyped DEF StreamsTyped, Inbox, HeardOf
  <1>2. ASSUME NEW p \in Procs, SeatsOf(p) = {} PROVE Inbox'[p] = Inbox[p]
    <2>1. p \in hungup \/ \A g \in Open \cap DOMAIN out : current_sockets[g] # p
      BY <1>2 DEF Guest
    <2> HIDE DEF SeatsOf
    <2>2. toClient'[p] = toClient[p]
      BY <2>1, SendReaches
    <2>3. QED
      BY <1>1, <2>2
  <1>3. ASSUME NEW p \in Procs, SeatsOf(p) # {}
        PROVE  Inbox'[p] = Append(Inbox[p], told[CHOOSE s \in SeatsOf(p) : TRUE])
    <2> DEFINE s == CHOOSE t \in SeatsOf(p) : TRUE
    <2>1. s \in SeatsOf(p)
      BY <1>3
    <2>2. s \in Open \cap DOMAIN out /\ current_sockets[s] = p /\ p \notin hungup
      BY <2>1 DEF Guest
    <2> HIDE DEF s
    <2>3. toClient'[p] = Append(toClient[p], out[s])
      BY <2>2, SendReaches
    <2>4. HeardOf(toClient'[p]) = Append(HeardOf(toClient[p]), Heard(out[s]))
      BY <1>1, <2>2, <2>3, HeardAppended
    <2>5. Inbox'[p] = Append(Inbox[p], told[s])
      BY <1>1, <2>2, <2>4
    <2>6. QED
      BY <2>5 DEF s
  <1>4. Inbox' = [p \in Procs |-> IF SeatsOf(p) = {} THEN Inbox[p]
                                 ELSE Append(Inbox[p], told[CHOOSE s \in SeatsOf(p) : TRUE])]
    BY <1>1, <1>2, <1>3
  <1>5. QED
    BY <1>4 DEF House!Tell

LEMMA AnswerTells ==
    ASSUME StreamsTyped, ConnectedOnce,
           NEW f, NEW st \in Statuses, NEW s \in Seq(Messages), Answer(f, st, s)
    PROVE  House!Answer(f, st)
  <1> DEFINE out == [g \in {f} |-> Reply(st, s)]
             told == [t \in {f} |-> st]
  <1>1. Reply(st, s) \in Outgoing /\ Heard(Reply(st, s)) = st
    BY DEF Outgoing, Reply, Heard
  <1>2. /\ DOMAIN told = DOMAIN out
        /\ \A g \in DOMAIN out : out[g] \in Outgoing /\ told[g] = Heard(out[g])
    BY <1>1
  <1>3. Send(out)
    BY DEF Answer
  <1> HIDE DEF out, told
  <1>4. House!Tell(told)
    BY <1>2, <1>3, SendTells
  <1>5. QED
    BY <1>4 DEF House!Answer, told

\* Where no table changes the rooms and places are the same.
LEMMA PlacesKept ==
    ASSUME UNCHANGED <<chatrooms, clients, chatmodeClients>>
    PROVE  UNCHANGED <<DOMAIN chatrooms, Place>>
  BY DEF Place

LEMMA GuestsKept ==
    ASSUME UNCHANGED <<current_sockets, hungup>>
    PROVE  UNCHANGED Guest
  BY DEF Guest, Open

\* Who is at a descriptor outside chat mode is outside the rooms.
LEMMA OutsideRooms ==
    ASSUME NEW f \in Fds
    PROVE  House!Outside(f) <=> f \notin chatmodeClients
  BY DEF House!Outside, Place

\* The members of a room are those its vector has: the tables agree.
LEMMA RoomMembers ==
    ASSUME TablesInv, NEW r \in DOMAIN chatrooms
    PROVE  House!Members(r) = ToSet(chatrooms[r]) /\ ToSet(chatrooms[r]) \subseteq chatmodeClients
  <1>1. ToSet(chatrooms[r]) = {f \in chatmodeClients : clients[f] = r}
    BY DEF TablesInv, TablesAgree
  <1>2. QED
    BY <1>1 DEF House!Members, Place

LEMMA CreateOpens ==
    ASSUME RoomsInv, NEW f \in Fds, NEW k, Create(f, k)
    PROVE  House!Open(f) \/ House!Reply(f)
  <1> DEFINE s == Taken(f, k)
             r == RoomIn(s)
  <1>1. /\ House!Outside(f) /\ UNCHANGED Guest /\ s \in Seq(Messages)
        /\ UNCHANGED <<clients, chatmodeClients>>
    BY OutsideRooms, GuestsKept, TakenTyped DEF Create, Takes, RoomsInv, TypeInv
  <1>2. UNCHANGED Place
    BY <1>1 DEF Place
  <1>3. CASE r \in DOMAIN chatrooms
    <2>1. Answer(f, "1", s) /\ UNCHANGED chatrooms
      BY <1>3 DEF Create
    <2>2. House!Answer(f, "1")
      BY <1>1, <2>1, AnswerTells DEF RoomsInv, TypeInv, Statuses
    <2>3. QED
      BY <1>1, <1>2, <1>3, <2>1, <2>2 DEF House!Reply
  <1>4. CASE r \notin DOMAIN chatrooms
    <2>1. Answer(f, "0", s) /\ chatrooms' = Put(chatrooms, r, <<>>)
      BY <1>4 DEF Create
    <2>2. House!Answer(f, "0")
      BY <1>1, <2>1, AnswerTells DEF RoomsInv, TypeInv, Statuses
    <2>3. /\ (DOMAIN chatrooms)' = DOMAIN chatrooms \cup {r}
          /\ r \in (DOMAIN chatrooms)' \ DOMAIN chatrooms
      BY <1>4, <2>1 DEF Put
    <2>4. QED
      BY <1>1, <1>2, <2>2, <2>3 DEF House!Open
  <1>5. QED
    BY <1>3, <1>4

LEMMA JoinEnters ==
    ASSUME RoomsInv, NEW f \in Fds, NEW k, Join(f, k)
    PROVE  (\E r \in DOMAIN chatrooms : House!Enter(f, r)) \/ House!Reply(f)
  <1> DEFINE s == Taken(f, k)
             r == RoomIn(s)
  <1>1. /\ House!Outside(f) /\ UNCHANGED Guest /\ s \in Seq(Messages)
    BY OutsideRooms, GuestsKept, TakenTyped DEF Join, Takes, RoomsInv, TypeInv
  <1>2. CASE r \notin DOMAIN chatrooms
    <2>1. Answer(f, "2", s) /\ UNCHANGED <<chatrooms, clients, chatmodeClients>>
      BY <1>2 DEF Join
    <2>2. House!Answer(f, "2")
      BY <1>1, <2>1, AnswerTells DEF RoomsInv, TypeInv, Statuses
    <2>3. QED
      BY <1>1, <2>1, <2>2, PlacesKept DEF House!Reply
  <1>3. CASE r \in DOMAIN chatrooms
    <2>1. /\ Answer(f, "0", s) /\ chatrooms' = Put(chatrooms, r, Joined(r, f))
          /\ clients' = Put(clients, f, r) /\ chatmodeClients' = chatmodeClients \cup {f}
      BY <1>3 DEF Join, Welcome
    <2>2. House!Answer(f, "0")
      BY <1>1, <2>1, AnswerTells DEF RoomsInv, TypeInv, Statuses
    <2>3. UNCHANGED DOMAIN chatrooms
      BY <1>3, <2>1 DEF Put
    <2>4. \A g \in chatmodeClients : g \in DOMAIN clients
      BY DEF RoomsInv, TablesInv, TablesAgree
    <2>5. Place' = [t \in DOMAIN Place \cup {f} |-> IF t = f THEN r ELSE Place[t]]
      BY <2>1, <2>4 DEF Place, Put
    <2>6. House!Enter(f, r)
      BY <1>1, <1>3, <2>2, <2>3, <2>5 DEF House!Enter
    <2>7. QED
      BY <1>3, <2>6
  <1>4. QED
    BY <1>2, <1>3

LEMMA DeleteCloses ==
    ASSUME RoomsInv, NEW f \in Fds, NEW k, Delete(f, k)
    PROVE  (\E r \in DOMAIN chatrooms : House!Close(f, r)) \/ House!Reply(f)
  <1> DEFINE s == Taken(f, k)
             r == RoomIn(s)
  <1>1. /\ House!Outside(f) /\ UNCHANGED Guest /\ s \in Seq(Messages)
        /\ f \notin chatmodeClients
    BY OutsideRooms, GuestsKept, TakenTyped DEF Delete, Takes, RoomsInv, TypeInv
  <1>2. CASE r \notin DOMAIN chatrooms
    <2>1. Answer(f, "2", s) /\ UNCHANGED <<chatrooms, clients, chatmodeClients>>
      BY <1>2 DEF Delete, tables
    <2>2. House!Answer(f, "2")
      BY <1>1, <2>1, AnswerTells DEF RoomsInv, TypeInv, Statuses
    <2>3. QED
      BY <1>1, <2>1, <2>2, PlacesKept DEF House!Reply
  <1>3. CASE r \in DOMAIN chatrooms
    <2> DEFINE M == House!Members(r)
               out == [g \in Warned(r) \cup {f} |-> IF g = f THEN Reply("0", s) ELSE Warning]
               told == [t \in M \cup {f} |-> IF t = f THEN "0" ELSE "warning"]
    <2>1. /\ chatmodeClients' = chatmodeClients \ ToSet(chatrooms[r])
          /\ Send(out)
          /\ chatrooms' = Drop(chatrooms, r) /\ clients' = Drop(clients, f)
      BY <1>3 DEF Delete
    <2>2. M = ToSet(chatrooms[r]) /\ M \subseteq chatmodeClients /\ Warned(r) = M
      BY <1>3, RoomMembers DEF RoomsInv, Warned
    <2>3. (DOMAIN chatrooms)' = DOMAIN chatrooms \ {r}
      BY <2>1 DEF Drop
    <2>4. \A g \in chatmodeClients : g \in DOMAIN clients /\ g # f
      BY <1>1 DEF RoomsInv, TablesInv, TablesAgree
    <2>5. /\ Reply("0", s) \in Outgoing /\ Heard(Reply("0", s)) = "0"
          /\ Warning \in Outgoing /\ Heard(Warning) = "warning"
      BY <1>1 DEF Outgoing, Reply, Statuses, Heard, Warning
    <2> HIDE DEF M
    <2>6. Place' = [t \in DOMAIN Place \ M |-> Place[t]]
      BY <2>1, <2>2, <2>4 DEF Place, Drop
    <2>7. /\ DOMAIN told = DOMAIN out
          /\ \A g \in DOMAIN out : out[g] \in Outgoing /\ told[g] = Heard(out[g])
      BY <2>2, <2>5
    <2> HIDE DEF out, told
    <2>8. House!Tell(told)
      BY <2>1, <2>7, SendTells DEF RoomsInv, TypeInv
    <2>9. House!Close(f, r)
      BY <1>1, <1>3, <2>3, <2>6, <2>8 DEF House!Close, told, M
    <2>10. QED
      BY <1>3, <2>9
  <1>4. QED
    BY <1>2, <1>3

LEMMA OthersReply ==
    ASSUME RoomsInv, NEW f \in Fds, NEW k, List(f, k) \/ Invalid(f, k)
    PROVE  House!Reply(f)
  <1> DEFINE s == Taken(f, k)
  <1>1. /\ House!Outside(f) /\ UNCHANGED Guest /\ s \in Seq(Messages)
        /\ UNCHANGED <<chatrooms, clients, chatmodeClients>>
    BY OutsideRooms, GuestsKept, TakenTyped DEF List, Invalid, tables, Takes, RoomsInv, TypeInv
  <1>2. Answer(f, "L", s) \/ Answer(f, "3", s)
    BY DEF List, Invalid, InvalidStatus
  <1>3. House!Answer(f, "L") \/ House!Answer(f, "3")
    BY <1>1, <1>2, AnswerTells DEF RoomsInv, TypeInv, Statuses
  <1>4. QED
    BY <1>1, <1>3, PlacesKept DEF House!Reply

LEMMA ChatSays ==
    ASSUME RoomsInv, NEW f \in Fds, NEW k, Chat(f, k)
    PROVE  House!Say(f)
  <1> DEFINE r == clients[f]
             out == [g \in Others(f) |-> Forwarded]
             told == [t \in House!Members(r) \ {f} |-> "line"]
  <1>1. f \in chatmodeClients /\ r \in DOMAIN chatrooms /\ f \in DOMAIN clients
    BY DEF Chat, RoomsInv, TablesInv, TablesAgree
  <1>2. /\ Send(out)
        /\ UNCHANGED <<chatrooms, clients, chatmodeClients, current_sockets, hungup>>
    BY <1>1 DEF Chat, tables
  <1>3. House!Members(r) \ {f} = Others(f)
    BY <1>1, RoomMembers DEF RoomsInv, Others
  <1>4. Forwarded \in Outgoing /\ Heard(Forwarded) = "line"
    BY DEF Outgoing, Forwarded, Heard
  <1>5. /\ DOMAIN told = DOMAIN out
        /\ \A g \in DOMAIN out : out[g] \in Outgoing /\ told[g] = Heard(out[g])
    BY <1>3, <1>4
  <1>6. f \in DOMAIN Place /\ Place[f] = r
    BY <1>1 DEF Place
  <1> HIDE DEF out, told, r
  <1>7. House!Tell(told)
    BY <1>2, <1>5, SendTells DEF RoomsInv, TypeInv
  <1>8. QED
    BY <1>2, <1>6, <1>7, PlacesKept, GuestsKept DEF House!Say, told

\* What is heard of all streams, one by one.
LEMMA InboxValue ==
    /\ Inbox = [p \in Procs |-> HeardOf(toClient[p])]
    /\ Inbox' = [p \in Procs |-> HeardOf(toClient'[p])]
    /\ HeardOf(<<>>) = <<>>
    /\ UNCHANGED toClient => UNCHANGED Inbox
  BY DEF Inbox, HeardOf

HouseVars == <<DOMAIN chatrooms, Place, Guest, Inbox>>

LEMMA AcceptArrives ==
    ASSUME RoomsInv, NEW p \in Procs, NEW f \in Fds, Accept(p, f)
    PROVE  House!Arrive(f, p) \/ UNCHANGED HouseVars
  <1>1. /\ p \in backlog /\ f \in Fds \ Open /\ current_sockets' = Put(current_sockets, f, p)
        /\ UNCHANGED <<chatrooms, clients, chatmodeClients, toClient, hungup>>
    BY DEF Accept, tables
  <1>2. UNCHANGED <<DOMAIN chatrooms, Place, Inbox>>
    BY <1>1, PlacesKept, InboxValue
  <1>3. ~Held(p)
    BY <1>1 DEF RoomsInv, ConnectedOnce
  <1>4. Open' = Open \cup {f} /\ \A g \in Open' : current_sockets'[g] = IF g = f THEN p ELSE current_sockets[g]
    BY <1>1 DEF Open, Put
  <1>5. CASE p \in hungup
    <2>1. Guest' = Guest
      BY <1>1, <1>4, <1>5 DEF Guest
    <2>2. QED
      BY <1>2, <2>1 DEF HouseVars
  <1>6. CASE p \notin hungup
    <2>1. DOMAIN Guest = {g \in Open : current_sockets[g] \notin hungup}
      BY DEF Guest
    <2>2. Guest' = [t \in DOMAIN Guest \cup {f} |-> IF t = f THEN p ELSE Guest[t]]
      BY <1>1, <1>4, <1>6 DEF Guest
    <2>3. f \in Fds \ DOMAIN Guest /\ \A t \in DOMAIN Guest : Guest[t] # p
      BY <1>1, <1>3 DEF Guest, Held
    <2>4. Inbox[p] = <<>>
      BY <1>3, InboxValue DEF RoomsInv, Unheard
    <2>5. QED
      BY <1>2, <2>2, <2>3, <2>4 DEF House!Arrive
  <1>7. QED
    BY <1>5, <1>6

LEMMA QuitDeparts ==
    ASSUME RoomsInv, NEW p \in Procs, Quit(p)
    PROVE  (\E f \in Fds : House!Depart(f)) \/ UNCHANGED HouseVars
  <1>1. /\ p \notin hungup /\ hungup' = hungup \cup {p}
        /\ toClient' = [toClient EXCEPT ![p] = <<>>]
        /\ UNCHANGED <<chatrooms, clients, chatmodeClients, current_sockets>>
    BY DEF Quit, Running, tables, sockets
  <1>2. UNCHANGED <<DOMAIN chatrooms, Place>>
    BY <1>1, PlacesKept
  <1>3. toClient \in [Procs -> Seq(Outgoing)]
    BY DEF RoomsInv, TypeInv, StreamsTyped
  <1>4. Inbox' = [Inbox EXCEPT ![p] = <<>>]
    BY <1>1, <1>3, InboxValue
  <1>5. CASE Held(p)
    <2>1. PICK f \in Open : current_sockets[f] = p
      BY <1>5 DEF Held
    <2>2. f \in Fds /\ f \in DOMAIN Guest /\ Guest[f] = p
      BY <1>1, <2>1 DEF Guest, RoomsInv, TypeInv, StreamsTyped, Open
    <2>3. \A g \in Open : current_sockets[g] = p <=> g = f
      BY <2>1 DEF RoomsInv, ConnectedOnce
    <2>4. Guest' = [t \in DOMAIN Guest \ {f} |-> Guest[t]]
      BY <1>1, <2>3 DEF Guest, Open
    <2>5. QED
      BY <1>2, <1>4, <2>2, <2>4 DEF House!Depart
  <1>6. CASE ~Held(p)
    <2>1. toClient[p] = <<>>
      BY <1>6 DEF RoomsInv, Unheard
    <2>2. toClient' = toClient
      BY <1>1, <1>3, <2>1
    <2>3. Guest' = Guest
      BY <1>1, <1>6 DEF Guest, Held, Open
    <2>4. QED
      BY <1>2, <2>2, <2>3, InboxValue DEF HouseVars
  <1>7. QED
    BY <1>5, <1>6

LEMMA ReceiveReads ==
    ASSUME RoomsInv, NEW p \in Procs, NEW k, RecvReply(p, k) \/ receiveMessage(p, k)
    PROVE  House!Read(p)
  <1>1. /\ k \in 1..Len(toClient[p])
        /\ toClient' = [toClient EXCEPT ![p] = SubSeq(@, k + 1, Len(@))]
        /\ UNCHANGED <<chatrooms, clients, chatmodeClients, current_sockets, hungup>>
    BY DEF RecvReply, receiveMessage, Receives, tables, sockets
  <1>2. toClient \in [Procs -> Seq(Outgoing)]
    BY DEF RoomsInv, TypeInv, StreamsTyped
  <1>3. UNCHANGED <<DOMAIN chatrooms, Place, Guest>>
    BY <1>1, PlacesKept, GuestsKept
  <1>4. /\ HeardOf(SubSeq(toClient[p], k + 1, Len(toClient[p])))
              = SubSeq(HeardOf(toClient[p]), k + 1, Len(HeardOf(toClient[p])))
        /\ Len(HeardOf(toClient[p])) = Len(toClient[p])
    BY <1>1, <1>2, HeardRest
  <1>5. /\ k \in 1..Len(Inbox[p])
        /\ Inbox' = [Inbox EXCEPT ![p] = SubSeq(Inbox[p], k + 1, Len(Inbox[p]))]
    BY <1>1, <1>2, <1>4, InboxValue
  <1>6. QED
    BY <1>3, <1>5 DEF House!Read

LEMMA RoomsStep ==
    ASSUME RoomsInv, [Next]_vars
    PROVE  House!Next \/ UNCHANGED HouseVars
  <1>1. CASE UNCHANGED vars
    BY <1>1, PlacesKept, GuestsKept, InboxValue DEF vars, serverVars, tables, sockets, HouseVars
  <1>2. CASE \E p \in Procs, f \in Fds : ServerStep(Accept(p, f))
    BY <1>2, AcceptArrives DEF ServerStep, House!Next
  <1>3. ASSUME NEW f \in Fds, Serve(f) PROVE House!Next \/ UNCHANGED HouseVars
    <2>1. CASE Close(f)
      <3>1. /\ f \in Open /\ current_sockets[f] \in hungup /\ current_sockets' = Drop(current_sockets, f)
            /\ UNCHANGED <<chatrooms, clients, chatmodeClients, toClient, hungup>>
        BY <2>1 DEF Close, tables
      <3>2. Guest' = Guest
        BY <3>1 DEF Guest, Open, Drop
      <3>3. QED
        BY <3>1, <3>2, PlacesKept, InboxValue DEF HouseVars
    <2>2. ASSUME NEW k, Create(f, k) PROVE House!Next
      BY <1>3, <2>2, CreateOpens DEF House!Next
    <2>3. ASSUME NEW k, Join(f, k) PROVE House!Next
      BY <1>3, <2>3, JoinEnters DEF House!Next
    <2>4. ASSUME NEW k, Delete(f, k) PROVE House!Next
      BY <1>3, <2>4, DeleteCloses DEF House!Next
    <2>5. ASSUME NEW k, List(f, k) \/ Invalid(f, k) PROVE House!Next
      BY <1>3, <2>5, OthersReply DEF House!Next
    <2>6. ASSUME NEW k, Chat(f, k) PROVE House!Next
      BY <1>3, <2>6, ChatSays DEF House!Next
    <2>7. QED
      BY <1>3, <2>1, <2>2, <2>3, <2>4, <2>5, <2>6 DEF Serve
  <1>4. ASSUME NEW p \in Procs,
               connect_to(p) \/ (\E m \in Commands : SendCommand(p, m)) \/ SenderChecks(p)
                 \/ sendMessage(p) \/ SetStop(p) \/ EndChat(p)
        PROVE  UNCHANGED HouseVars
    <2>1. UNCHANGED <<chatrooms, clients, chatmodeClients, current_sockets, toClient, hungup>>
      BY <1>4 DEF connect_to, SendCommand, SenderChecks, sendMessage, SetStop, EndChat,
                  serverVars, tables, sockets
    <2>2. QED
      BY <2>1, PlacesKept, GuestsKept, InboxValue DEF HouseVars
  <1>5. ASSUME NEW p \in Procs, NEW k, RecvReply(p, k) \/ receiveMessage(p, k) PROVE House!Next
    BY <1>5, ReceiveReads DEF House!Next
  <1>6. ASSUME NEW p \in Procs, Quit(p) PROVE House!Next \/ UNCHANGED HouseVars
    BY <1>6, QuitDeparts DEF House!Next
  <1>7. QED
    BY <1>1, <1>2, <1>3, <1>4, <1>5, <1>6 DEF Next, ServerStep

\* Messages go to open descriptors only, and what is on its way to a client goes
\* with its process.
LEMMA UnheardPreserved ==
    ASSUME RoomsInv, [Next]_vars
    PROVE  Unheard'
  <1>1. CASE UNCHANGED vars
    BY <1>1 DEF vars, serverVars, sockets, RoomsInv, Unheard, Held, Open
  <1>2. ASSUME NEW p \in Procs, NEW f \in Fds, Accept(p, f) PROVE Unheard'
    BY <1>2 DEF Accept, Put, RoomsInv, Unheard, Held, Open
  <1>3. ASSUME NEW f \in Fds, Close(f) PROVE Unheard'
    <2>1. /\ current_sockets[f] \in hungup /\ current_sockets' = Drop(current_sockets, f)
          /\ UNCHANGED toClient
      BY <1>3 DEF Close
    <2>2. \A p \in Procs : Held(p) => Held(p)' \/ p \in hungup
      BY <2>1 DEF Held, Open, Drop
    <2>3. QED
      BY <2>1, <2>2 DEF RoomsInv, Unheard, ConnectedOnce
  <1>4. ASSUME NEW out, Send(out), UNCHANGED current_sockets PROVE Unheard'
    <2>1. \A p \in Procs : ~Held(p) => toClient'[p] = toClient[p]
      BY <1>4, SendReaches DEF Held, RoomsInv, TypeInv
    <2>2. QED
      BY <1>4, <2>1 DEF RoomsInv, Unheard, Held, Open
  <1>5. ASSUME NEW f \in Fds, Serve(f) PROVE Unheard'
    <2>1. ASSUME NEW k, Create(f, k) \/ Join(f, k) \/ Delete(f, k) \/ List(f, k) \/ Invalid(f, k)
          PROVE  (\E out : Send(out)) /\ UNCHANGED current_sockets
      BY <2>1 DEF Create, Join, Delete, List, Invalid, Welcome, Answer
    <2>2. ASSUME NEW k, Chat(f, k) PROVE (\E out : Send(out)) /\ UNCHANGED current_sockets
      BY <2>2 DEF Chat, RoomsInv, TablesInv, TablesAgree
    <2>3. QED
      BY <1>3, <1>4, <1>5, <2>1, <2>2 DEF Serve
  <1>6. ASSUME NEW p \in Procs,
               \/ connect_to(p)
               \/ \E m \in Commands : SendCommand(p, m)
               \/ \E k \in 1..Len(toClient[p]) : RecvReply(p, k) \/ receiveMessage(p, k)
               \/ SenderChecks(p) \/ sendMessage(p) \/ SetStop(p) \/ EndChat(p)
               \/ Quit(p)
        PROVE  Unheard'
    <2>1. toClient \in [Procs -> Seq(Outgoing)]
      BY DEF RoomsInv, TypeInv, StreamsTyped
    <2>2. UNCHANGED current_sockets
      BY <1>6 DEF connect_to, SendCommand, RecvReply, receiveMessage, SenderChecks, sendMessage,
                  SetStop, EndChat, Quit, serverVars, sockets
    <2>3. CASE UNCHANGED toClient
      BY <2>2, <2>3 DEF RoomsInv, Unheard, Held, Open
    <2>4. CASE Quit(p)
      BY <2>1, <2>2, <2>4 DEF Quit, RoomsInv, Unheard, Held, Open
    <2>5. CASE \E k \in 1..Len(toClient[p]) : RecvReply(p, k) \/ receiveMessage(p, k)
      <3>1. toClient[p] # <<>> /\ \A q \in Procs \ {p} : toClient'[q] = toClient[q]
        BY <2>1, <2>5 DEF RecvReply, receiveMessage, Receives
      <3>2. QED
        BY <2>2, <3>1 DEF RoomsInv, Unheard, Held, Open
    <2>6. QED
      BY <1>6, <2>3, <2>4, <2>5 DEF connect_to, SendCommand, SenderChecks, sendMessage, SetStop,
                                    EndChat, serverVars
  <1>7. QED
    BY <1>1, <1>2, <1>5, <1>6 DEF Next, ServerStep

LEMMA UnheardInvariant == Spec => []Unheard
  <1>1. Init => Unheard
    BY DEF Init, ServerInit, Unheard
  <1>2. PhaseInv => ConnectedOnce
    BY DEF PhaseInv
  <1>3. TypeInv /\ TablesInv /\ ConnectedOnce /\ Unheard /\ [Next]_vars => Unheard'
    BY UnheardPreserved DEF RoomsInv
  <1>4. QED
    BY <1>1, <1>2, <1>3, TypesInvariant, TablesInvariant, PhasesInvariant, PTL DEF Spec

\* The chat server implements Rooms, for any number of clients, rooms and reused
\* descriptors: what crsd.cpp keeps in four tables is one place for each
\* descriptor, a line is sent to the others in that place and to nobody else, and
\* a deleted room lets everybody out and tells them.
THEOREM ImplementsRooms == Spec => RoomsSpec
  <1>1. Init => House!Init
    <2> SUFFICES ASSUME Init PROVE House!Init
      OBVIOUS
    <2>1. /\ DOMAIN chatrooms = {} /\ chatmodeClients = {} /\ Open = {}
          /\ toClient = [p \in Procs |-> <<>>]
      BY DEF Init, ServerInit, Open
    <2>2. Place = <<>> /\ Guest = <<>>
      BY <2>1 DEF Place, Guest
    <2>3. Inbox = [p \in Procs |-> <<>>]
      BY <2>1, InboxValue
    <2>4. QED
      BY <2>1, <2>2, <2>3 DEF House!Init
  <1>2. PhaseInv => ConnectedOnce
    BY DEF PhaseInv
  <1>3. TypeInv /\ TablesInv /\ ConnectedOnce /\ Unheard /\ [Next]_vars
           => [House!Next]_(House!roomsVars)
    BY RoomsStep DEF RoomsInv, HouseVars, House!roomsVars
  <1>4. QED
    BY <1>1, <1>2, <1>3, TypesInvariant, TablesInvariant, PhasesInvariant, UnheardInvariant, PTL
       DEF Spec, RoomsSpec, House!Spec
=============================================================================
