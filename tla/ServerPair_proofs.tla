------------------------- MODULE ServerPair_proofs -------------------------
(***************************************************************************)
(* The safety properties of ServerPair, for any users, any number of       *)
(* client calls and any number of restarts.                                *)
(***************************************************************************)
EXTENDS ServerPair, TLAPS

\* What is in a log was asked for by a client or written by the synchronizer.
LinesKnown ==
    \A r \in Replicas : \A k \in DOMAIN log[r] : log[r][k] \in Requests \cup SyncLines

\* A handler runs for a request, on a server that is up.
Asked ==
    \A r \in Replicas : \A q \in Calls :
        /\ task[r][q] # "none" => request[q] \in Requests
        /\ task[r][q] \in Active => up[r]

LEMMA RequestLines ==
    /\ Requests \subseteq Lines
    /\ SyncLines \subseteq Lines
    /\ \A l \in Requests : l.kind \in {"newuser", "follow"} /\ l.a \in Local
                        /\ (l.kind = "newuser" => l = Line("newuser", l.a, l.a))
    /\ \A l \in SyncLines : l.kind \in {"SYNC::newuser", "SYNC::follow"}
                         /\ l.a \in Remote
    /\ NoRequest.kind = "none"
  BY DEF Requests, SyncLines, Lines, Line, Names, NewUserKinds, FollowKinds,
         NoRequest

\* Appending to a log keeps what is there and adds one line at the end.
LEMMA AppendLine ==
    ASSUME NEW lg \in Seq(Lines), NEW l \in Lines
    PROVE  /\ Append(lg, l) \in Seq(Lines)
           /\ Len(Append(lg, l)) = Len(lg) + 1
           /\ DOMAIN lg = 1..Len(lg)
           /\ DOMAIN Append(lg, l) = 1..(Len(lg) + 1)
           /\ \A k \in DOMAIN lg : Append(lg, l)[k] = lg[k]
           /\ Append(lg, l)[Len(lg) + 1] = l
  OBVIOUS

LEMMA LogLines ==
    ASSUME NEW lg \in Seq(Lines)
    PROVE  /\ UsersIn(lg) \subseteq Names
           /\ EdgesIn(lg) \subseteq Names \X Names
           /\ {lg[k] : k \in DOMAIN lg} \subseteq Lines
<1>1. \A k \in DOMAIN lg : lg[k] \in Lines
  OBVIOUS
<1>2. \A l \in Lines : l.a \in Names /\ l.b \in Names
  BY DEF Lines
<1>. QED  BY <1>1, <1>2 DEF UsersIn, EdgesIn

-----------------------------------------------------------------------------
\* Every step keeps the types.
LEMMA TypeStep == TypeOK /\ Asked /\ [Next]_pairVars => TypeOK'
<1> SUFFICES ASSUME TypeOK, Asked, [Next]_pairVars PROVE TypeOK'
  OBVIOUS
<1> USE ServerPairAssumption DEF TypeOK
<1>a. \A r \in Replicas : \A q \in Calls : \A step \in Progress :
          [task EXCEPT ![r][q] = step] \in [Replicas -> [Calls -> Progress]]
  OBVIOUS
<1>b. \A l \in Lines : l.a \in Names /\ l.b \in Names
  BY DEF Lines
<1>c. \A q \in Calls : request[q].kind \in {"newuser", "follow"} =>
          request[q] \in Requests /\ request[q] \in Lines
  BY RequestLines
<1>d. \A r \in Replicas : \A k \in DOMAIN log[r] : log[r][k] \in Lines
  OBVIOUS
<1>e. \A r \in Replicas : \A l \in Lines :
          [log EXCEPT ![r] = Append(@, l)] \in [Replicas -> Seq(Lines)]
  BY AppendLine
<1>1. ASSUME NEW q \in Calls, NEW r \in Replicas, NEW l \in Requests, Call(q, r, l)
      PROVE  TypeOK'
  BY <1>1, <1>a DEF Call, SetTask, memory, Progress
<1>2. ASSUME NEW q \in Calls, NEW r \in Replicas, FollowFind(r, q) PROVE TypeOK'
  BY <1>2, <1>a DEF FollowFind, Finds, SetTask, AfterFind, memory, Progress
<1>3. ASSUME NEW q \in Calls, NEW r \in Replicas, LoginFind(r, q) PROVE TypeOK'
  BY <1>3, <1>a DEF LoginFind, SetTask, AfterFind, memory, Progress
<1>4. ASSUME NEW q \in Calls, Forward(q) PROVE TypeOK'
  <2>1. request[q] \in Requests
    BY <1>4 DEF Forward, Asked, Replicas
  <2>2. missed' \subseteq Requests
    BY <1>4, <2>1 DEF Forward
  <2>3. task' \in [Replicas -> [Calls -> Progress]]
    <3>1. CASE linked /\ up["slave"]
      <4> DEFINE t == [task EXCEPT !["master"][q] = "waiting"]
      <4>1. t \in [Replicas -> [Calls -> Progress]]
        BY <1>a DEF Progress, Replicas
      <4>2. task' = [t EXCEPT !["slave"][q] = "begin"]
        BY <1>4, <3>1 DEF Forward
      <4>. QED  BY <4>1, <4>2 DEF Progress
    <3>2. CASE ~(linked /\ up["slave"])
      BY <1>4, <1>a, <3>2 DEF Forward, SetTask, Progress, Replicas
    <3>. QED  BY <3>1, <3>2
  <2>. QED  BY <1>4, <2>2, <2>3 DEF Forward, memory
<1>5. ASSUME NEW q \in Calls, ForwardReturns(q) PROVE TypeOK'
  <2>1. request[q] \in Requests
    BY <1>5 DEF ForwardReturns, Asked, Replicas
  <2>2. missed' \subseteq Requests
    BY <1>5, <2>1 DEF ForwardReturns
  <2>3. task' \in [Replicas -> [Calls -> Progress]]
    BY <1>5 DEF ForwardReturns, SetTask, Progress
  <2>. QED  BY <1>5, <2>2, <2>3 DEF ForwardReturns, memory
<1>6. ASSUME NEW q \in Calls, NEW r \in Replicas, LoginApply(r, q) PROVE TypeOK'
  <2>1. request[q] \in Lines /\ request[q].a \in Names
    BY <1>6, <1>b, <1>c DEF LoginApply, Entrant
  <2>2. online' \in [Replicas -> SUBSET Names]
    BY <1>6, <2>1 DEF LoginApply, Entrant
  <2>3. /\ users' \in [Replicas -> SUBSET Names]
        /\ log' \in [Replicas -> Seq(Lines)]
        /\ seen' \in [Replicas -> SUBSET Lines]
    <3>1. CASE q \in found[r]
      BY <1>6, <3>1 DEF LoginApply, Entrant
    <3>2. CASE q \notin found[r]
      <4>1. /\ log' = [log EXCEPT ![r] = Append(@, request[q])]
            /\ seen' = [seen EXCEPT ![r] = @ \cup {request[q]}]
            /\ users' = [users EXCEPT ![r] = @ \cup {request[q].a}]
        BY <1>6, <3>2 DEF LoginApply, Entrant
      <4>. QED  BY <4>1, <2>1, <1>e
    <3>. QED  BY <3>1, <3>2
  <2>. QED  BY <1>6, <1>a, <2>2, <2>3 DEF LoginApply, Entrant, SetTask, Progress
<1>7. ASSUME NEW q \in Calls, NEW r \in Replicas, FollowApply(r, q) PROVE TypeOK'
  <2>1. request[q] \in Lines /\ request[q].a \in Names /\ request[q].b \in Names
    BY <1>7, <1>b, <1>c DEF FollowApply
  <2>2. edges' \in [Replicas -> SUBSET (Names \X Names)]
    BY <1>7, <2>1 DEF FollowApply
  <2>3. log' \in [Replicas -> Seq(Lines)] /\ seen' \in [Replicas -> SUBSET Lines]
    BY <1>7, <1>e, <2>1 DEF FollowApply
  <2>. QED  BY <1>7, <1>a, <2>2, <2>3 DEF FollowApply, SetTask, Progress
<1>8. ASSUME NEW l \in SyncLines, SyncWritesSlave(l) PROVE TypeOK'
  BY <1>8, <1>e, RequestLines DEF SyncWritesSlave, memory, Replicas
<1>9. ASSUME NEW l \in SyncLines, SyncWritesMaster(l) PROVE TypeOK'
  BY <1>9, <1>e, RequestLines DEF SyncWritesMaster, memory, Replicas
<1>10. ASSUME NEW r \in Replicas, NEW k \in DOMAIN log[r], CheckNewUser(r, k)
       PROVE  TypeOK'
  BY <1>10, <1>b, <1>d DEF CheckNewUser, Synced
<1>11. ASSUME NEW r \in Replicas, NEW k \in DOMAIN log[r], CheckNewFollow(r, k)
       PROVE  TypeOK'
  BY <1>11, <1>b, <1>d DEF CheckNewFollow
<1>12. ASSUME NEW r \in Replicas, Kill(r) PROVE TypeOK'
  BY <1>12 DEF Kill, Progress
<1>13. ASSUME NEW r \in Replicas, Restart(r) PROVE TypeOK'
  <2>1. /\ UsersIn(log[r]) \subseteq Names
        /\ EdgesIn(log[r]) \subseteq Names \X Names
        /\ {log[r][k] : k \in DOMAIN log[r]} \subseteq Lines
    BY LogLines
  <2>. QED  BY <1>13, <2>1 DEF Restart, Restored
<1>14. CASE UNCHANGED pairVars
  BY <1>14 DEF pairVars
<1>. QED
  BY <1>1, <1>2, <1>3, <1>4, <1>5, <1>6, <1>7, <1>8, <1>9, <1>10, <1>11,
     <1>12, <1>13, <1>14 DEF Next, Handler, CheckNew

\* Calls are not reused, and a kill takes the handlers with it.
LEMMA AskedStep == TypeOK /\ Asked /\ [Next]_pairVars => Asked'
<1> SUFFICES ASSUME TypeOK, Asked, [Next]_pairVars,
                    NEW s \in Replicas, NEW p \in Calls
             PROVE  /\ task'[s][p] # "none" => request'[p] \in Requests
                    /\ task'[s][p] \in Active => up'[s]
  BY DEF Asked
<1> DEFINE Goal == /\ task'[s][p] # "none" => request'[p] \in Requests
                   /\ task'[s][p] \in Active => up'[s]
<1> USE ServerPairAssumption DEF TypeOK, Asked, Active
<1>1. ASSUME NEW q \in Calls, NEW r \in Replicas, NEW l \in Requests, Call(q, r, l)
      PROVE  Goal
  BY <1>1 DEF Call, SetTask
<1>2. ASSUME NEW q \in Calls, NEW r \in Replicas, FollowFind(r, q) PROVE Goal
  BY <1>2 DEF FollowFind, Finds, SetTask, AfterFind
<1>3. ASSUME NEW q \in Calls, NEW r \in Replicas, LoginFind(r, q) PROVE Goal
  BY <1>3 DEF LoginFind, SetTask, AfterFind
<1>4. ASSUME NEW q \in Calls, Forward(q) PROVE Goal
  BY <1>4 DEF Forward, SetTask, Replicas
<1>5. ASSUME NEW q \in Calls, ForwardReturns(q) PROVE Goal
  BY <1>5 DEF ForwardReturns, SetTask, Replicas
<1>6. ASSUME NEW q \in Calls, NEW r \in Replicas, LoginApply(r, q) PROVE Goal
  BY <1>6 DEF LoginApply, Entrant, SetTask
<1>7. ASSUME NEW q \in Calls, NEW r \in Replicas, FollowApply(r, q) PROVE Goal
  BY <1>7 DEF FollowApply, SetTask
<1>8. ASSUME NEW r \in Replicas, Kill(r) PROVE Goal
  <2>1. /\ up' = [up EXCEPT ![r] = FALSE]
        /\ request' = request
        /\ task'[s][p] = IF s = r /\ task[s][p] \in Active THEN "lost"
                         ELSE task[s][p]
    BY <1>8 DEF Kill
  <2>. QED  BY <2>1
<1>9. ASSUME NEW r \in Replicas, Restart(r) PROVE Goal
  BY <1>9 DEF Restart, Restored
<1>10. ASSUME UNCHANGED <<task, request, up>> PROVE Goal
  BY <1>10
<1>. QED
  BY <1>1, <1>2, <1>3, <1>4, <1>5, <1>6, <1>7, <1>8, <1>9, <1>10
     DEF Next, Handler, CheckNew, SyncWritesSlave, SyncWritesMaster,
         CheckNewUser, Synced, CheckNewFollow, pairVars

BaseInv == TypeOK /\ Asked

LEMMA BaseInit == Init => BaseInv
<1> SUFFICES ASSUME Init PROVE BaseInv
  OBVIOUS
<1>1. TypeOK
  <2>1. log \in [Replicas -> Seq(Lines)]
    BY DEF Init
  <2>2. restarts \in [Replicas -> 0..MaxRestarts]
    BY ServerPairAssumption DEF Init
  <2>. QED  BY <2>1, <2>2 DEF Init, TypeOK, Progress
<1>2. Asked
  BY DEF Init, Asked, Active
<1>. QED  BY <1>1, <1>2 DEF BaseInv

LEMMA BaseAlways == Spec => []BaseInv
<1>1. BaseInv /\ [Next]_pairVars => BaseInv'
  BY TypeStep, AskedStep DEF BaseInv
<1>. QED  BY <1>1, BaseInit, PTL DEF Spec

\* Every variable of the two servers keeps its type.
THEOREM TypeCorrect == Spec => []TypeOK
<1>1. BaseInv => TypeOK
  BY DEF BaseInv
<1>. QED  BY <1>1, BaseAlways, PTL

-----------------------------------------------------------------------------
(* The logs                                                                 *)

\* Where a line that a step appends comes from.
NewLine(r, l) ==
    \/ l \in SyncLines
    \/ \E q \in Calls : /\ task[r][q] = "apply"
                        /\ l = request[q]
                        /\ l.kind = "newuser" => q \notin found[r]

LogKept(r) ==
    /\ DOMAIN log[r] \subseteq DOMAIN log'[r]
    /\ \A k \in DOMAIN log[r] : log'[r][k] = log[r][k]
    /\ \A k \in DOMAIN log'[r] :
           k \in DOMAIN log[r] \/ (k = Len(log[r]) + 1 /\ NewLine(r, log'[r][k]))

LEMMA LogAppended ==
    ASSUME TypeOK, NEW r \in Replicas, NEW l \in Lines, NewLine(r, l),
           log' = [log EXCEPT ![r] = Append(@, l)]
    PROVE  \A s \in Replicas : LogKept(s)
<1> SUFFICES ASSUME NEW s \in Replicas PROVE LogKept(s)
  OBVIOUS
<1>1. log[r] \in Seq(Lines)
  BY DEF TypeOK
<1>2. CASE s = r
  <2>1. log'[s] = Append(log[s], l)
    BY <1>2 DEF TypeOK
  <2>. QED  BY <1>1, <1>2, <2>1, AppendLine DEF LogKept
<1>3. CASE s # r
  <2>1. log'[s] = log[s]
    BY <1>3 DEF TypeOK
  <2>. QED  BY <2>1 DEF LogKept
<1>. QED  BY <1>2, <1>3

\* A log only grows at its end, by one line of a handler or the synchronizer.
LEMMA LogGrows ==
    ASSUME BaseInv, [Next]_pairVars
    PROVE  \A r \in Replicas : LogKept(r)
<1> DEFINE Kept == \A r \in Replicas : LogKept(r)
<1> USE DEF BaseInv
<1>a. \A q \in Calls : request[q].kind \in {"newuser", "follow"} => request[q] \in Lines
  BY RequestLines DEF TypeOK
<1>1. ASSUME NEW q \in Calls, NEW r \in Replicas, LoginApply(r, q) PROVE Kept
  <2>1. CASE q \in found[r]
    BY <1>1, <2>1 DEF LoginApply, Entrant, LogKept
  <2>2. CASE q \notin found[r]
    <3>1. NewLine(r, request[q]) /\ request[q] \in Lines
      BY <1>1, <1>a, <2>2 DEF LoginApply, Entrant, NewLine
    <3>2. log' = [log EXCEPT ![r] = Append(@, request[q])]
      BY <1>1, <2>2 DEF LoginApply, Entrant
    <3>. QED  BY <3>1, <3>2, LogAppended
  <2>. QED  BY <2>1, <2>2
<1>2. ASSUME NEW q \in Calls, NEW r \in Replicas, FollowApply(r, q) PROVE Kept
  <2>1. NewLine(r, request[q]) /\ request[q] \in Lines
    BY <1>2, <1>a DEF FollowApply, NewLine
  <2>2. log' = [log EXCEPT ![r] = Append(@, request[q])]
    BY <1>2 DEF FollowApply
  <2>. QED  BY <2>1, <2>2, LogAppended
<1>3. ASSUME NEW l \in SyncLines, SyncWritesSlave(l) PROVE Kept
  <2>1. NewLine("slave", l) /\ l \in Lines /\ "slave" \in Replicas
    BY <1>3, RequestLines DEF SyncWritesSlave, NewLine, Replicas
  <2>2. log' = [log EXCEPT !["slave"] = Append(@, l)]
    BY <1>3 DEF SyncWritesSlave
  <2>. QED  BY <2>1, <2>2, LogAppended
<1>4. ASSUME NEW l \in SyncLines, SyncWritesMaster(l) PROVE Kept
  <2>1. NewLine("master", l) /\ l \in Lines /\ "master" \in Replicas
    BY <1>4, RequestLines DEF SyncWritesMaster, NewLine, Replicas
  <2>2. log' = [log EXCEPT !["master"] = Append(@, l)]
    BY <1>4 DEF SyncWritesMaster
  <2>. QED  BY <2>1, <2>2, LogAppended
<1>5. ASSUME UNCHANGED log PROVE Kept
  BY <1>5 DEF LogKept
<1>. QED
  BY <1>1, <1>2, <1>3, <1>4, <1>5
     DEF Next, Handler, CheckNew, Call, FollowFind, Finds, LoginFind, Forward,
         ForwardReturns, CheckNewUser, Synced, CheckNewFollow, Kill, Restart, Restored, pairVars

HasUser(lg, x) == \E k \in DOMAIN lg : lg[k].kind \in NewUserKinds /\ lg[k].a = x

LEMMA LogFacts ==
    ASSUME BaseInv, [Next]_pairVars, NEW r \in Replicas
    PROVE  /\ \A l : InLog(r, l) => InLog(r, l)'
           /\ \A x : HasUser(log[r], x) => HasUser(log'[r], x)
<1>1. LogKept(r)
  BY LogGrows
<1>. QED  BY <1>1 DEF LogKept, InLog, HasUser

\* A call keeps its request.
LEMMA RequestKept ==
    ASSUME TypeOK, [Next]_pairVars, NEW q \in Calls, request[q] \in Requests
    PROVE  request'[q] = request[q]
<1>1. request[q] # NoRequest
  BY RequestLines
<1>2. ASSUME NEW p \in Calls, NEW r \in Replicas, NEW l \in Requests, Call(p, r, l)
      PROVE  request'[q] = request[q]
  BY <1>1, <1>2 DEF Call, TypeOK
<1>3. ASSUME UNCHANGED request PROVE request'[q] = request[q]
  BY <1>3
<1>. QED
  BY <1>2, <1>3
     DEF Next, Handler, CheckNew, FollowFind, Finds, LoginFind, Forward, ForwardReturns,
         LoginApply, Entrant, FollowApply, SyncWritesSlave, SyncWritesMaster,
         CheckNewUser, Synced, CheckNewFollow, Kill, Restart, Restored, pairVars

LEMMA LinesStep == BaseInv /\ LinesKnown /\ [Next]_pairVars => LinesKnown'
<1> SUFFICES ASSUME BaseInv, LinesKnown, [Next]_pairVars,
                    NEW r \in Replicas, NEW k \in DOMAIN log'[r]
             PROVE  log'[r][k] \in Requests \cup SyncLines
  BY DEF LinesKnown
<1>1. LogKept(r)
  BY LogGrows
<1>2. CASE k \in DOMAIN log[r]
  BY <1>1, <1>2 DEF LinesKnown, LogKept
<1>3. CASE NewLine(r, log'[r][k])
  BY <1>3 DEF NewLine, BaseInv, TypeOK, Asked
<1>. QED  BY <1>1, <1>2, <1>3 DEF LogKept

-----------------------------------------------------------------------------
(* What can be replayed                                                     *)

\* client_db holds only users the log names ...
UsersLogged == \A r \in Replicas : \A x \in users[r] : HasUser(log[r], x)

\* ... so a Follow that was not refused found two of them, and both are in the
\* log of the server it runs at for as long as it runs.
Passed == {"forward", "waiting", "apply"}

KnownUsers ==
    \A r \in Replicas : \A q \in Calls :
        task[r][q] \in Passed /\ request[q].kind = "follow" =>
            HasUser(log[r], request[q].a) /\ HasUser(log[r], request[q].b)

\* The line a step appends is in the log after it.
LEMMA Appended ==
    ASSUME TypeOK, NEW r \in Replicas, NEW l \in Lines,
           log' = [log EXCEPT ![r] = Append(@, l)]
    PROVE  /\ InLog(r, l)'
           /\ l.kind \in NewUserKinds => HasUser(log'[r], l.a)
<1>1. log[r] \in Seq(Lines)
  BY DEF TypeOK
<1>2. log'[r] = Append(log[r], l)
  BY DEF TypeOK
<1>3. Len(log[r]) + 1 \in DOMAIN log'[r] /\ log'[r][Len(log[r]) + 1] = l
  BY <1>1, <1>2, AppendLine
<1>. QED  BY <1>3 DEF InLog, HasUser

LEMMA UsersStep == BaseInv /\ UsersLogged /\ [Next]_pairVars => UsersLogged'
<1> SUFFICES ASSUME BaseInv, UsersLogged, [Next]_pairVars,
                    NEW s \in Replicas, NEW x \in users'[s]
             PROVE  HasUser(log'[s], x)
  BY DEF UsersLogged
<1> USE DEF BaseInv
<1>a. x \in users[s] => HasUser(log'[s], x)
  BY LogFacts DEF UsersLogged
<1>1. ASSUME NEW q \in Calls, NEW r \in Replicas, LoginApply(r, q) PROVE HasUser(log'[s], x)
  <2>1. CASE q \in found[r]
    BY <1>1, <1>a, <2>1 DEF LoginApply, Entrant
  <2>2. CASE q \notin found[r]
    <3>1. request[q] \in Lines /\ request[q].kind \in NewUserKinds
      BY <1>1, RequestLines DEF LoginApply, Entrant, TypeOK, NewUserKinds
    <3>2. /\ log' = [log EXCEPT ![r] = Append(@, request[q])]
          /\ users' = [users EXCEPT ![r] = @ \cup {request[q].a}]
      BY <1>1, <2>2 DEF LoginApply, Entrant
    <3>3. HasUser(log'[r], request[q].a)
      BY <3>1, <3>2, Appended
    <3>4. x \in users[s] \/ (s = r /\ x = request[q].a)
      BY <3>2 DEF TypeOK
    <3>. QED  BY <1>a, <3>3, <3>4
  <2>. QED  BY <2>1, <2>2
<1>2. ASSUME NEW r \in Replicas, NEW k \in DOMAIN log[r], CheckNewUser(r, k)
      PROVE  HasUser(log'[s], x)
  <2>1. /\ users' = [users EXCEPT ![r] = @ \cup {log[r][k].a}]
        /\ log' = log
        /\ log[r][k].kind = "SYNC::newuser"
    BY <1>2 DEF CheckNewUser, Synced
  <2>2. x \in users[s] \/ (s = r /\ x = log[r][k].a)
    BY <2>1 DEF TypeOK
  <2>. QED  BY <1>a, <2>1, <2>2 DEF HasUser, NewUserKinds
<1>3. ASSUME NEW r \in Replicas, Kill(r) PROVE HasUser(log'[s], x)
  BY <1>3, <1>a DEF Kill, TypeOK
<1>4. ASSUME NEW r \in Replicas, Restart(r) PROVE HasUser(log'[s], x)
  <2>1. /\ users' = [users EXCEPT ![r] = UsersIn(log[r])]
        /\ log' = log
    BY <1>4 DEF Restart, Restored
  <2>2. x \in users[s] \/ (s = r /\ x \in UsersIn(log[r]))
    BY <2>1 DEF TypeOK
  <2>. QED  BY <1>a, <2>1, <2>2 DEF HasUser, UsersIn
<1>5. ASSUME UNCHANGED users PROVE HasUser(log'[s], x)
  BY <1>a, <1>5
<1>. QED
  BY <1>1, <1>2, <1>3, <1>4, <1>5
     DEF Next, Handler, CheckNew, Call, FollowFind, Finds, LoginFind, Forward,
         ForwardReturns, FollowApply, SyncWritesSlave, SyncWritesMaster,
         CheckNewFollow, pairVars, memory

LEMMA KnownStep ==
    BaseInv /\ UsersLogged /\ KnownUsers /\ [Next]_pairVars => KnownUsers'
<1> SUFFICES ASSUME BaseInv, UsersLogged, KnownUsers, [Next]_pairVars,
                    NEW s \in Replicas, NEW p \in Calls,
                    task'[s][p] \in Passed, request'[p].kind = "follow"
             PROVE  HasUser(log'[s], request'[p].a) /\ HasUser(log'[s], request'[p].b)
  BY DEF KnownUsers
<1> DEFINE Goal == HasUser(log'[s], request'[p].a) /\ HasUser(log'[s], request'[p].b)
<1> USE DEF BaseInv
<1>a. ASSUME task[s][p] \in Passed PROVE Goal
  <2>1. request'[p] = request[p]
    BY <1>a, RequestKept DEF Asked, Passed
  <2>. QED  BY <1>a, <2>1, LogFacts DEF KnownUsers
<1>b. ASSUME task'[s][p] = task[s][p] PROVE Goal
  BY <1>a, <1>b
<1>1. ASSUME NEW q \in Calls, NEW r \in Replicas, NEW l \in Requests, Call(q, r, l)
      PROVE  Goal
  <2>1. task' = [task EXCEPT ![r][q] = "begin"]
    BY <1>1 DEF Call, SetTask
  <2>2. task'[s][p] = task[s][p]
    BY <2>1 DEF TypeOK, Passed
  <2>. QED  BY <1>b, <2>2
<1>2. ASSUME NEW q \in Calls, NEW r \in Replicas, FollowFind(r, q) PROVE Goal
  <2>1. CASE s = r /\ p = q
    <3>1. {request[q].a, request[q].b} \subseteq users[r] /\ request' = request
      BY <1>2, <2>1 DEF FollowFind, Finds, SetTask, TypeOK, Passed
    <3>. QED  BY <2>1, <3>1, LogFacts DEF UsersLogged
  <2>2. CASE ~(s = r /\ p = q)
    BY <1>2, <1>b, <2>2 DEF FollowFind, Finds, SetTask, TypeOK
  <2>. QED  BY <2>1, <2>2
<1>3. ASSUME NEW q \in Calls, NEW r \in Replicas, LoginFind(r, q) PROVE Goal
  BY <1>3, <1>b DEF LoginFind, SetTask, TypeOK
<1>4. ASSUME NEW q \in Calls, Forward(q) PROVE Goal
  BY <1>4, <1>a, <1>b DEF Forward, SetTask, TypeOK, Passed, Replicas
<1>5. ASSUME NEW q \in Calls, ForwardReturns(q) PROVE Goal
  BY <1>5, <1>a, <1>b DEF ForwardReturns, SetTask, TypeOK, Passed, Replicas
<1>6. ASSUME NEW q \in Calls, NEW r \in Replicas, LoginApply(r, q) PROVE Goal
  BY <1>6, <1>b DEF LoginApply, Entrant, SetTask, TypeOK, Passed
<1>7. ASSUME NEW q \in Calls, NEW r \in Replicas, FollowApply(r, q) PROVE Goal
  BY <1>7, <1>b DEF FollowApply, SetTask, TypeOK, Passed
<1>8. ASSUME NEW r \in Replicas, Kill(r) PROVE Goal
  <2>1. task'[s][p] = IF s = r /\ task[s][p] \in Active THEN "lost" ELSE task[s][p]
    BY <1>8 DEF Kill, TypeOK
  <2>. QED  BY <1>b, <2>1 DEF Passed
<1>9. ASSUME UNCHANGED task PROVE Goal
  BY <1>9, <1>b
<1>. QED
  BY <1>1, <1>2, <1>3, <1>4, <1>5, <1>6, <1>7, <1>8, <1>9
     DEF Next, Handler, CheckNew, Restart, Restored, SyncWritesSlave, SyncWritesMaster,
         CheckNewUser, Synced, CheckNewFollow, pairVars

LEMMA ReplayStep ==
    BaseInv /\ KnownUsers /\ ReplaySafe /\ [Next]_pairVars => ReplaySafe'
<1> SUFFICES ASSUME BaseInv, KnownUsers, ReplaySafe, [Next]_pairVars,
                    NEW r \in Replicas, NEW k \in DOMAIN log'[r],
                    log'[r][k].kind = "follow"
             PROVE  Replayable(log'[r], k)
  BY DEF ReplaySafe
<1>1. LogKept(r) /\ log[r] \in Seq(Lines)
  BY LogGrows DEF BaseInv, TypeOK
<1>2. DOMAIN log[r] = 1..Len(log[r]) /\ Len(log[r]) \in Nat
  BY <1>1
<1>3. CASE k \in DOMAIN log[r]
  <2>1. Replayable(log[r], k)
    BY <1>1, <1>3 DEF ReplaySafe, LogKept
  <2>2. 1..(k - 1) \subseteq DOMAIN log[r]
    BY <1>2, <1>3
  <2>. QED  BY <1>1, <1>3, <2>1, <2>2 DEF Replayable, Entered, LogKept
<1>4. CASE k = Len(log[r]) + 1 /\ NewLine(r, log'[r][k])
  <2>1. \A x : HasUser(log[r], x) => Entered(log'[r], k, x)
    BY <1>1, <1>2, <1>4 DEF HasUser, Entered, LogKept
  <2>2. HasUser(log[r], log'[r][k].a) /\ HasUser(log[r], log'[r][k].b)
    <3>1. log'[r][k] \notin SyncLines
      BY RequestLines
    <3>2. PICK q \in Calls : task[r][q] = "apply" /\ log'[r][k] = request[q]
      BY <1>4, <3>1 DEF NewLine
    <3>. QED  BY <3>2 DEF KnownUsers, Passed
  <2>. QED  BY <2>1, <2>2 DEF Replayable
<1>. QED  BY <1>1, <1>3, <1>4 DEF LogKept

ReplayInv == BaseInv /\ UsersLogged /\ KnownUsers /\ ReplaySafe

\* No server indexes client_db with -1 while it replays a follow line it logged
\* for its own clients.
THEOREM ReplayIsSafe == Spec => []ReplaySafe
<1>1. Init => ReplayInv
  <2> SUFFICES ASSUME Init PROVE ReplayInv
    OBVIOUS
  <2>1. UsersLogged
    BY DEF Init, UsersLogged
  <2>2. KnownUsers
    BY DEF Init, KnownUsers, Passed
  <2>3. ReplaySafe
    BY DEF Init, ReplaySafe
  <2>. QED  BY BaseInit, <2>1, <2>2, <2>3 DEF ReplayInv
<1>2. ReplayInv /\ [Next]_pairVars => ReplayInv'
  <2>1. BaseInv /\ [Next]_pairVars => BaseInv'
    BY TypeStep, AskedStep DEF BaseInv
  <2>. QED  BY <2>1, UsersStep, KnownStep, ReplayStep DEF ReplayInv
<1>3. ReplayInv => ReplaySafe
  BY DEF ReplayInv
<1>. QED  BY <1>1, <1>2, <1>3, PTL DEF Spec

-----------------------------------------------------------------------------
(* What the slave has of the master's log                                   *)

HasLine(lg, l) == \E k \in DOMAIN lg : lg[k] = l

\* SlaveCoversMaster for one line, with the slave's log and the failed calls
\* as parameters.
CoveredBy(lg, ms, l) ==
    \/ HasLine(lg, l)
    \/ l \in ms
    \/ Line("newuser", l.a, l.a) \in ms
    \/ Line("newuser", l.b, l.b) \in ms
    \/ l.b \in Remote

\* A Login that found its user acts on it only at a server whose log has him.
FoundLogged ==
    \A r \in Replicas : \A q \in found[r] :
        /\ request[q] \in Requests
        /\ request[q].kind = "newuser"
        /\ HasLine(log[r], request[q])

\* A running server holds the local users its log names.
UsersHeld ==
    \A r \in Replicas : up[r] =>
        \A x \in Local : HasLine(log[r], Line("newuser", x, x)) => x \in users[r]

\* When the slave's handler is through, and from then on until the master's is.
Served ==
    \A q \in Calls :
        task["master"][q] = "waiting" /\ task["slave"][q] = "done" =>
            CoveredBy(log["slave"], missed, request[q])

Answered ==
    \A q \in Calls :
        task["master"][q] = "apply" => CoveredBy(log["slave"], missed, request[q])

CoverInv == /\ BaseInv /\ LinesKnown /\ UsersLogged /\ KnownUsers
            /\ FoundLogged /\ UsersHeld /\ Served /\ Answered /\ SlaveCoversMaster

LEMMA LineKept ==
    ASSUME BaseInv, [Next]_pairVars, NEW r \in Replicas, NEW l, HasLine(log[r], l)
    PROVE  HasLine(log'[r], l)
<1>1. LogKept(r)
  BY LogGrows
<1>. QED  BY <1>1 DEF LogKept, HasLine

LEMMA CoveredKept ==
    ASSUME BaseInv, [Next]_pairVars, NEW l, CoveredBy(log["slave"], missed, l)
    PROVE  CoveredBy(log'["slave"], missed', l)
<1>1. "slave" \in Replicas
  BY DEF Replicas
<1>2. missed \subseteq missed'
  BY DEF Next, Handler, CheckNew, Call, FollowFind, Finds, LoginFind, Forward,
         ForwardReturns, LoginApply, Entrant, FollowApply, SyncWritesSlave,
         SyncWritesMaster, CheckNewUser, Synced, CheckNewFollow, Kill, Restart, Restored, pairVars
<1>. QED  BY <1>1, <1>2, LineKept DEF CoveredBy

LEMMA LineAppended ==
    ASSUME TypeOK, NEW r \in Replicas, NEW l \in Lines,
           log' = [log EXCEPT ![r] = Append(@, l)]
    PROVE  /\ HasLine(log'[r], l)
           /\ \A x : HasLine(log'[r], x) => x = l \/ HasLine(log[r], x)
           /\ \A s \in Replicas : s # r => log'[s] = log[s]
<1>1. log[r] \in Seq(Lines)
  BY DEF TypeOK
<1>2. log'[r] = Append(log[r], l)
  BY DEF TypeOK
<1>3. /\ DOMAIN log'[r] = 1..(Len(log[r]) + 1)
      /\ DOMAIN log[r] = 1..Len(log[r])
      /\ \A k \in DOMAIN log[r] : log'[r][k] = log[r][k]
      /\ log'[r][Len(log[r]) + 1] = l
      /\ Len(log[r]) \in Nat
  BY <1>1, <1>2, AppendLine
<1>4. \A k \in DOMAIN log'[r] : k \in DOMAIN log[r] \/ k = Len(log[r]) + 1
  BY <1>3
<1>5. HasLine(log'[r], l)
  BY <1>3 DEF HasLine
<1>6. \A x : HasLine(log'[r], x) => x = l \/ HasLine(log[r], x)
  BY <1>3, <1>4 DEF HasLine
<1>. QED  BY <1>5, <1>6 DEF TypeOK

\* A local user came by way of a client's Login, never from the synchronizer.
LEMMA LocalLine ==
    ASSUME LinesKnown, NEW r \in Replicas, NEW x \in Local, HasUser(log[r], x)
    PROVE  HasLine(log[r], Line("newuser", x, x))
<1>1. PICK k \in DOMAIN log[r] : log[r][k].kind \in NewUserKinds /\ log[r][k].a = x
  BY DEF HasUser
<1>2. x \notin Remote
  BY ServerPairAssumption
<1>3. log[r][k] \in Requests
  BY <1>1, <1>2, RequestLines DEF LinesKnown
<1>4. log[r][k].kind = "newuser"
  BY <1>1, <1>3, RequestLines DEF NewUserKinds
<1>. QED  BY <1>1, <1>3, <1>4, RequestLines DEF HasLine

LEMMA FoundStep ==
    BaseInv /\ LinesKnown /\ UsersLogged /\ FoundLogged /\ [Next]_pairVars
        => FoundLogged'
<1> SUFFICES ASSUME BaseInv, LinesKnown, UsersLogged, FoundLogged, [Next]_pairVars,
                    NEW s \in Replicas, NEW p \in found'[s]
             PROVE  /\ request'[p] \in Requests
                    /\ request'[p].kind = "newuser"
                    /\ HasLine(log'[s], request'[p])
  BY DEF FoundLogged
<1> DEFINE Goal == /\ request'[p] \in Requests
                   /\ request'[p].kind = "newuser"
                   /\ HasLine(log'[s], request'[p])
<1> USE DEF BaseInv
<1>a. ASSUME p \in found[s] PROVE Goal
  <2>1. request'[p] = request[p]
    BY <1>a, RequestKept DEF FoundLogged, TypeOK
  <2>. QED  BY <1>a, <2>1, LineKept DEF FoundLogged
<1>1. ASSUME NEW q \in Calls, NEW r \in Replicas, LoginFind(r, q) PROVE Goal
  <2>1. CASE p \in found[s]
    BY <1>a, <2>1
  <2>2. CASE p \notin found[s]
    <3>1. s = r /\ p = q /\ request[q].a \in users[r]
      BY <1>1, <2>2 DEF LoginFind, TypeOK
    <3>2. /\ task[r][q] = "begin" /\ request[q].kind = "newuser"
          /\ request' = request /\ log' = log
      BY <1>1 DEF LoginFind
    <3>3. request[q] \in Requests
      BY <3>2 DEF Asked
    <3>4. request[q].a \in Local /\ request[q] = Line("newuser", request[q].a, request[q].a)
      BY <3>2, <3>3, RequestLines
    <3>5. HasUser(log[r], request[q].a)
      BY <3>1 DEF UsersLogged
    <3>6. HasLine(log[r], request[q])
      BY <3>4, <3>5, LocalLine
    <3>. QED  BY <3>1, <3>2, <3>3, <3>6
  <2>. QED  BY <2>1, <2>2
<1>2. ASSUME NEW r \in Replicas, Kill(r) PROVE Goal
  BY <1>2, <1>a DEF Kill, TypeOK
<1>3. ASSUME UNCHANGED found PROVE Goal
  BY <1>3, <1>a
<1>. QED
  BY <1>1, <1>2, <1>3
     DEF Next, Handler, CheckNew, Call, FollowFind, Finds, Forward, ForwardReturns,
         LoginApply, Entrant, FollowApply, SyncWritesSlave, SyncWritesMaster,
         CheckNewUser, Synced, CheckNewFollow, Restart, Restored, pairVars

LEMMA HeldStep == BaseInv /\ UsersHeld /\ [Next]_pairVars => UsersHeld'
<1> SUFFICES ASSUME BaseInv, UsersHeld, [Next]_pairVars,
                    NEW s \in Replicas, up'[s],
                    NEW x \in Local, HasLine(log'[s], Line("newuser", x, x))
             PROVE  x \in users'[s]
  BY DEF UsersHeld
<1> USE DEF BaseInv
<1>a. up[s] /\ HasLine(log[s], Line("newuser", x, x)) => x \in users[s]
  BY DEF UsersHeld
<1>1. ASSUME NEW q \in Calls, NEW r \in Replicas, LoginApply(r, q) PROVE x \in users'[s]
  <2>1. CASE q \in found[r]
    BY <1>1, <1>a, <2>1 DEF LoginApply, Entrant
  <2>2. CASE q \notin found[r]
    <3>1. request[q] \in Lines
      BY <1>1, RequestLines DEF LoginApply, Entrant, TypeOK
    <3>2. /\ log' = [log EXCEPT ![r] = Append(@, request[q])]
          /\ users' = [users EXCEPT ![r] = @ \cup {request[q].a}]
          /\ up' = up
      BY <1>1, <2>2 DEF LoginApply, Entrant
    <3>3. CASE s = r
      <4>1. \/ Line("newuser", x, x) = request[q]
            \/ HasLine(log[s], Line("newuser", x, x))
        BY <3>1, <3>2, <3>3, LineAppended
      <4>. QED  BY <1>a, <3>2, <3>3, <4>1 DEF Line, TypeOK
    <3>4. CASE s # r
      BY <1>a, <3>1, <3>2, <3>4, LineAppended DEF TypeOK
    <3>. QED  BY <3>3, <3>4
  <2>. QED  BY <2>1, <2>2
<1>2. ASSUME NEW r \in Replicas, NEW l \in Lines,
             l.kind # "newuser",
             log' = [log EXCEPT ![r] = Append(@, l)], UNCHANGED <<up, users>>
      PROVE  x \in users'[s]
  <2>1. Line("newuser", x, x) # l
    BY <1>2 DEF Line
  <2>2. HasLine(log[s], Line("newuser", x, x))
    BY <1>2, <2>1, LineAppended
  <2>. QED  BY <1>2, <1>a, <2>2
<1>3. ASSUME NEW q \in Calls, NEW r \in Replicas, FollowApply(r, q) PROVE x \in users'[s]
  <2>1. request[q] \in Lines /\ request[q].kind # "newuser"
    BY <1>3, RequestLines DEF FollowApply, TypeOK
  <2>. QED  BY <1>2, <1>3, <2>1 DEF FollowApply
<1>4. ASSUME NEW l \in SyncLines, SyncWritesSlave(l) \/ SyncWritesMaster(l)
      PROVE  x \in users'[s]
  <2>1. l \in Lines /\ l.kind # "newuser"
    BY RequestLines
  <2>. QED  BY <1>2, <1>4, <2>1 DEF SyncWritesSlave, SyncWritesMaster, memory, Replicas
<1>5. ASSUME NEW r \in Replicas, NEW k \in DOMAIN log[r], CheckNewUser(r, k)
      PROVE  x \in users'[s]
  BY <1>5, <1>a DEF CheckNewUser, Synced, TypeOK
<1>6. ASSUME NEW r \in Replicas, Kill(r) PROVE x \in users'[s]
  BY <1>6, <1>a DEF Kill, TypeOK
<1>7. ASSUME NEW r \in Replicas, Restart(r) PROVE x \in users'[s]
  <2>1. CASE s = r
    <3>1. users'[s] = UsersIn(log[s]) /\ log' = log
      BY <1>7, <2>1 DEF Restart, Restored, TypeOK
    <3>. QED  BY <3>1 DEF HasLine, UsersIn, Line, NewUserKinds
  <2>2. CASE s # r
    BY <1>7, <1>a, <2>2 DEF Restart, Restored, TypeOK
  <2>. QED  BY <2>1, <2>2
<1>8. ASSUME UNCHANGED <<log, users, up>> PROVE x \in users'[s]
  BY <1>8, <1>a
<1>. QED
  BY <1>1, <1>3, <1>4, <1>5, <1>6, <1>7, <1>8
     DEF Next, Handler, CheckNew, Call, FollowFind, Finds, LoginFind, Forward,
         ForwardReturns, CheckNewFollow, pairVars, memory

\* A follow the slave refuses names a user whose Login never reached it: the
\* master has both users, and what the master logged the slave covers.
LEMMA RefusedCovered ==
    ASSUME CoverInv, NEW q \in Calls, request[q] \in Requests,
           request[q].kind = "follow", task["master"][q] = "waiting", up["slave"],
           ~({request[q].a, request[q].b} \subseteq users["slave"])
    PROVE  CoveredBy(log["slave"], missed, request[q])
<1> DEFINE a == request[q].a
           b == request[q].b
<1> USE DEF CoverInv
<1>1. "master" \in Replicas /\ "slave" \in Replicas
  BY DEF Replicas
<1>2. HasUser(log["master"], a) /\ HasUser(log["master"], b)
  BY <1>1 DEF KnownUsers, Passed
<1>3. a \in Local /\ (b \in Local \/ b \in Remote)
  BY DEF Requests, Line, Names
<1>4. ASSUME NEW x \in Local, HasUser(log["master"], x), x \notin users["slave"]
      PROVE  Line("newuser", x, x) \in missed
  <2>1. HasLine(log["master"], Line("newuser", x, x))
    BY <1>1, <1>4, LocalLine
  <2>2. ~HasLine(log["slave"], Line("newuser", x, x))
    BY <1>1, <1>4 DEF UsersHeld
  <2>3. x \notin Remote
    BY ServerPairAssumption
  <2>. QED  BY <2>1, <2>2, <2>3 DEF SlaveCoversMaster, HasLine, InLog, Line
<1>. QED  BY <1>2, <1>3, <1>4 DEF CoveredBy

LEMMA ServedStep == CoverInv /\ [Next]_pairVars => Served'
<1> SUFFICES ASSUME CoverInv, [Next]_pairVars, NEW p \in Calls,
                    task'["master"][p] = "waiting", task'["slave"][p] = "done"
             PROVE  CoveredBy(log'["slave"], missed', request'[p])
  BY DEF Served
<1> DEFINE Goal == CoveredBy(log'["slave"], missed', request'[p])
<1> USE DEF CoverInv, BaseInv
<1>0. "master" \in Replicas /\ "slave" \in Replicas /\ "master" # "slave"
  BY DEF Replicas
<1>a. ASSUME task["master"][p] = "waiting", task["slave"][p] = "done" PROVE Goal
  <2>1. request'[p] = request[p]
    BY <1>a, <1>0, RequestKept DEF Asked
  <2>. QED  BY <1>a, <2>1, CoveredKept DEF Served
<1>1. ASSUME NEW q \in Calls, NEW r \in Replicas, NEW l \in Requests, Call(q, r, l)
      PROVE  Goal
  BY <1>1, <1>a, <1>0 DEF Call, SetTask, TypeOK
<1>2. ASSUME NEW q \in Calls, NEW r \in Replicas, FollowFind(r, q) PROVE Goal
  <2>1. task' = [task EXCEPT ![r][q] = IF {request[q].a, request[q].b} \subseteq users[r]
                                       THEN AfterFind(r) ELSE "done"]
    BY <1>2 DEF FollowFind, Finds, SetTask
  <2>2. CASE r = "slave" /\ q = p
    <3>1. ~({request[q].a, request[q].b} \subseteq users["slave"])
      BY <1>0, <2>1, <2>2 DEF AfterFind, TypeOK
    <3>2. task["master"][p] = "waiting"
      BY <1>0, <2>1, <2>2 DEF TypeOK
    <3>3. /\ request[q] \in Requests /\ request[q].kind = "follow" /\ up["slave"]
          /\ request' = request
      BY <1>0, <1>2, <2>2 DEF FollowFind, Finds, Asked, Active
    <3>4. CoveredBy(log["slave"], missed, request[p])
      BY <2>2, <3>1, <3>2, <3>3, RefusedCovered
    <3>. QED  BY <3>3, <3>4, CoveredKept
  <2>3. CASE ~(r = "slave" /\ q = p)
    BY <1>0, <1>a, <2>1, <2>3 DEF AfterFind, TypeOK
  <2>. QED  BY <2>2, <2>3
<1>3. ASSUME NEW q \in Calls, NEW r \in Replicas, LoginFind(r, q) PROVE Goal
  BY <1>3, <1>a, <1>0 DEF LoginFind, SetTask, AfterFind, TypeOK
<1>4. ASSUME NEW q \in Calls, Forward(q) PROVE Goal
  <2>1. CASE linked /\ up["slave"]
    <3>1. task' = [task EXCEPT !["master"][q] = "waiting", !["slave"][q] = "begin"]
      BY <1>4, <2>1 DEF Forward
    <3>2. q # p
      BY <1>0, <3>1 DEF TypeOK
    <3>3. task'["master"][p] = task["master"][p] /\ task'["slave"][p] = task["slave"][p]
      BY <1>0, <3>1, <3>2 DEF TypeOK
    <3>. QED  BY <1>a, <3>3
  <2>2. CASE ~(linked /\ up["slave"])
    BY <1>0, <1>4, <1>a, <2>2 DEF Forward, SetTask, TypeOK
  <2>. QED  BY <2>1, <2>2
<1>5. ASSUME NEW q \in Calls, ForwardReturns(q) PROVE Goal
  BY <1>5, <1>a, <1>0 DEF ForwardReturns, SetTask, TypeOK
<1>6. ASSUME NEW q \in Calls, NEW r \in Replicas, LoginApply(r, q) PROVE Goal
  <2>1. CASE r = "slave" /\ q = p
    <3>1. request' = request
      BY <1>6 DEF LoginApply, Entrant
    <3>2. CASE q \in found[r]
      <4>1. HasLine(log["slave"], request[p])
        BY <2>1, <3>2, <1>0 DEF FoundLogged
      <4>. QED  BY <1>0, <3>1, <4>1, LineKept DEF CoveredBy
    <3>3. CASE q \notin found[r]
      <4>1. log' = [log EXCEPT !["slave"] = Append(@, request[p])]
        BY <1>6, <2>1, <3>3 DEF LoginApply, Entrant
      <4>2. request[p] \in Lines
        BY <1>6, <2>1, RequestLines DEF LoginApply, Entrant, TypeOK
      <4>. QED  BY <1>0, <3>1, <4>1, <4>2, LineAppended DEF CoveredBy
    <3>. QED  BY <3>2, <3>3
  <2>2. CASE ~(r = "slave" /\ q = p)
    BY <1>0, <1>6, <1>a, <2>2 DEF LoginApply, Entrant, SetTask, TypeOK
  <2>. QED  BY <2>1, <2>2
<1>7. ASSUME NEW q \in Calls, NEW r \in Replicas, FollowApply(r, q) PROVE Goal
  <2>1. CASE r = "slave" /\ q = p
    <3>1. request' = request /\ log' = [log EXCEPT !["slave"] = Append(@, request[p])]
      BY <1>7, <2>1 DEF FollowApply
    <3>2. request[p] \in Lines
      BY <1>7, <2>1, RequestLines DEF FollowApply, TypeOK
    <3>. QED  BY <1>0, <3>1, <3>2, LineAppended DEF CoveredBy
  <2>2. CASE ~(r = "slave" /\ q = p)
    BY <1>0, <1>7, <1>a, <2>2 DEF FollowApply, SetTask, TypeOK
  <2>. QED  BY <2>1, <2>2
<1>8. ASSUME NEW r \in Replicas, Kill(r) PROVE Goal
  <2>1. \A s \in Replicas : task'[s][p] =
            IF s = r /\ task[s][p] \in Active THEN "lost" ELSE task[s][p]
    BY <1>8 DEF Kill, TypeOK
  <2>. QED  BY <1>0, <1>a, <2>1
<1>9. ASSUME UNCHANGED task PROVE Goal
  BY <1>9, <1>a
<1>. QED
  BY <1>1, <1>2, <1>3, <1>4, <1>5, <1>6, <1>7, <1>8, <1>9
     DEF Next, Handler, CheckNew, Restart, Restored, SyncWritesSlave, SyncWritesMaster,
         CheckNewUser, Synced, CheckNewFollow, pairVars

LEMMA AnsweredStep == CoverInv /\ [Next]_pairVars => Answered'
<1> SUFFICES ASSUME CoverInv, [Next]_pairVars, NEW p \in Calls,
                    task'["master"][p] = "apply"
             PROVE  CoveredBy(log'["slave"], missed', request'[p])
  BY DEF Answered
<1> DEFINE Goal == CoveredBy(log'["slave"], missed', request'[p])
<1> USE DEF CoverInv, BaseInv
<1>0. "master" \in Replicas /\ "slave" \in Replicas /\ "master" # "slave"
  BY DEF Replicas
<1>a. ASSUME task["master"][p] = "apply" PROVE Goal
  <2>1. request'[p] = request[p]
    BY <1>a, <1>0, RequestKept DEF Asked
  <2>. QED  BY <1>a, <2>1, CoveredKept DEF Answered
<1>1. ASSUME NEW q \in Calls, NEW r \in Replicas, NEW l \in Requests, Call(q, r, l)
      PROVE  Goal
  BY <1>1, <1>a, <1>0 DEF Call, SetTask, TypeOK
<1>2. ASSUME NEW q \in Calls, NEW r \in Replicas, FollowFind(r, q) PROVE Goal
  BY <1>2, <1>a, <1>0 DEF FollowFind, Finds, SetTask, AfterFind, TypeOK
<1>3. ASSUME NEW q \in Calls, NEW r \in Replicas, LoginFind(r, q) PROVE Goal
  BY <1>3, <1>a, <1>0 DEF LoginFind, SetTask, AfterFind, TypeOK
<1>4. ASSUME NEW q \in Calls, Forward(q) PROVE Goal
  <2>1. CASE q = p
    <3>1. missed' = missed \cup {request[p]} /\ request' = request
      BY <1>0, <1>4, <2>1 DEF Forward, TypeOK
    <3>. QED  BY <3>1 DEF CoveredBy
  <2>2. CASE q # p
    BY <1>0, <1>4, <1>a, <2>2 DEF Forward, SetTask, TypeOK
  <2>. QED  BY <2>1, <2>2
<1>5. ASSUME NEW q \in Calls, ForwardReturns(q) PROVE Goal
  <2>1. CASE q = p
    <3>1. /\ task["master"][p] = "waiting" /\ request' = request
          /\ task["slave"][p] \in {"done", "lost"}
          /\ task["slave"][p] = "lost" => request[p] \in missed'
      BY <1>5, <2>1 DEF ForwardReturns
    <3>2. CASE task["slave"][p] = "done"
      BY <3>1, <3>2, CoveredKept DEF Served
    <3>3. CASE task["slave"][p] = "lost"
      BY <3>1, <3>3 DEF CoveredBy
    <3>. QED  BY <3>1, <3>2, <3>3
  <2>2. CASE q # p
    BY <1>0, <1>5, <1>a, <2>2 DEF ForwardReturns, SetTask, TypeOK
  <2>. QED  BY <2>1, <2>2
<1>6. ASSUME NEW q \in Calls, NEW r \in Replicas, LoginApply(r, q) \/ FollowApply(r, q)
      PROVE  Goal
  <2>1. task' = [task EXCEPT ![r][q] = "done"]
    BY <1>6 DEF LoginApply, Entrant, FollowApply, SetTask
  <2>2. task["master"][p] = "apply"
    BY <1>0, <2>1 DEF TypeOK
  <2>. QED  BY <1>a, <2>2
<1>7. ASSUME NEW r \in Replicas, Kill(r) PROVE Goal
  <2>1. task'["master"][p] = IF "master" = r /\ task["master"][p] \in Active
                             THEN "lost" ELSE task["master"][p]
    BY <1>0, <1>7 DEF Kill, TypeOK
  <2>. QED  BY <1>a, <2>1
<1>8. ASSUME UNCHANGED task PROVE Goal
  BY <1>8, <1>a
<1>. QED
  BY <1>1, <1>2, <1>3, <1>4, <1>5, <1>6, <1>7, <1>8
     DEF Next, Handler, CheckNew, Restart, Restored, SyncWritesSlave, SyncWritesMaster,
         CheckNewUser, Synced, CheckNewFollow, pairVars

LEMMA CoverStep == CoverInv /\ [Next]_pairVars => SlaveCoversMaster'
<1> SUFFICES ASSUME CoverInv, [Next]_pairVars, NEW k \in DOMAIN log'["master"],
                    log'["master"][k].kind \in {"newuser", "follow"}
             PROVE  CoveredBy(log'["slave"], missed', log'["master"][k])
  BY DEF SlaveCoversMaster, CoveredBy, HasLine, InLog
<1> USE DEF CoverInv, BaseInv
<1>1. "master" \in Replicas /\ LogKept("master")
  BY LogGrows DEF Replicas
<1>2. CASE k \in DOMAIN log["master"]
  <2>1. log'["master"][k] = log["master"][k]
    BY <1>1, <1>2 DEF LogKept
  <2>2. CoveredBy(log["slave"], missed, log["master"][k])
    BY <1>2, <2>1 DEF SlaveCoversMaster, CoveredBy, HasLine, InLog
  <2>. QED  BY <2>1, <2>2, CoveredKept
<1>3. CASE NewLine("master", log'["master"][k])
  <2>1. log'["master"][k] \notin SyncLines
    BY RequestLines
  <2>2. PICK q \in Calls : task["master"][q] = "apply" /\ log'["master"][k] = request[q]
    BY <1>3, <2>1 DEF NewLine
  <2>3. CoveredBy(log["slave"], missed, log'["master"][k])
    BY <2>2 DEF Answered
  <2>. QED  BY <2>3, CoveredKept
<1>. QED  BY <1>1, <1>2, <1>3 DEF LogKept

\* What the master logged for a client the slave has too, unless a forwarding
\* call failed, for any number of clients, calls, kills and restarts.
THEOREM SlaveCovers == Spec => []SlaveCoversMaster
<1>1. Init => CoverInv
  <2> SUFFICES ASSUME Init PROVE CoverInv
    OBVIOUS
  <2> USE DEF Init
  <2>1. LinesKnown /\ UsersLogged /\ FoundLogged /\ SlaveCoversMaster
    BY DEF LinesKnown, UsersLogged, FoundLogged, SlaveCoversMaster, Replicas
  <2>2. KnownUsers /\ Served /\ Answered
    BY DEF KnownUsers, Passed, Served, Answered, Replicas
  <2>3. UsersHeld
    BY DEF UsersHeld, HasLine
  <2>. QED  BY BaseInit, <2>1, <2>2, <2>3 DEF CoverInv
<1>2. CoverInv /\ [Next]_pairVars => CoverInv'
  <2> SUFFICES ASSUME CoverInv, [Next]_pairVars PROVE CoverInv'
    OBVIOUS
  <2>1. BaseInv'
    BY TypeStep, AskedStep DEF CoverInv, BaseInv
  <2>2. LinesKnown' /\ UsersLogged' /\ KnownUsers'
    BY LinesStep, UsersStep, KnownStep DEF CoverInv
  <2>3. FoundLogged' /\ UsersHeld'
    BY FoundStep, HeldStep DEF CoverInv
  <2>. QED  BY <2>1, <2>2, <2>3, ServedStep, AnsweredStep, CoverStep DEF CoverInv
<1>3. CoverInv => SlaveCoversMaster
  BY DEF CoverInv
<1>. QED  BY <1>1, <1>2, <1>3, PTL DEF Spec
-----------------------------------------------------------------------------
(* Memory and log                                                           *)

\* What the memory of a server does in a step: it is lost, it is read back from
\* the log, it takes in one line, or it stays as it is.
Lost(r) == ~up'[r]

ReadsBack(r) ==
    /\ log'[r] = log[r]
    /\ users'[r] = UsersIn(log[r])
    /\ edges'[r] = EdgesIn(log[r])
    /\ seen'[r] = {log[r][k] : k \in DOMAIN log[r]}

Enters(r, l) ==
    /\ up[r]
    /\ seen'[r] = seen[r] \cup {l}
    /\ users'[r] = users[r] \cup (IF l.kind \in NewUserKinds THEN {l.a} ELSE {})
    /\ \A x, y : x # y =>
           (<<x, y>> \in edges'[r] <=>
               \/ <<x, y>> \in edges[r]
               \/ l.kind \in FollowKinds /\ x = l.a /\ y = l.b)

\* A handler enters the line it writes.
EntersOwn(r) ==
    \E l \in Lines : log'[r] = Append(log[r], l) /\ Enters(r, l)

\* check_new enters a line whose names it knows, or only notes it.
EntersSynced(r) ==
    \E k \in DOMAIN log[r] :
        /\ Unseen(r, k)
        /\ log'[r] = log[r]
        /\ log[r][k].kind = "SYNC::follow" => Known(r, log[r][k])
        /\ Enters(r, log[r][k])

Notes(r) ==
    \E k \in DOMAIN log[r] :
        /\ up[r]
        /\ Unseen(r, k)
        /\ log'[r] = log[r]
        /\ log[r][k].kind = "SYNC::follow" /\ ~Known(r, log[r][k])
        /\ users'[r] = users[r]
        /\ seen'[r] = seen[r] \cup {log[r][k]}

Keeps(r) ==
    /\ up[r]
    /\ users'[r] = users[r] /\ edges'[r] = edges[r] /\ seen'[r] = seen[r]
    /\ log'[r] = log[r] \/ \E l \in SyncLines : log'[r] = Append(log[r], l)

LEMMA MemoryMoves ==
    ASSUME BaseInv, [Next]_pairVars, NEW r \in Replicas
    PROVE  Lost(r) \/ ReadsBack(r) \/ EntersOwn(r) \/ EntersSynced(r) \/ Notes(r) \/ Keeps(r)
<1> DEFINE Goal == Lost(r) \/ ReadsBack(r) \/ EntersOwn(r) \/ EntersSynced(r) \/ Notes(r) \/ Keeps(r)
<1> USE DEF BaseInv, TypeOK
<1>0. ASSUME UNCHANGED <<users, edges, seen>>, log'[r] = log[r], up'[r] = up[r] PROVE Goal
  BY <1>0 DEF Lost, Keeps
<1>1. ASSUME NEW q \in Calls, NEW s \in Replicas, LoginApply(s, q) PROVE Goal
  <2>1. CASE q \in found[s]
    BY <1>0, <1>1, <2>1 DEF LoginApply
  <2>2. CASE q \notin found[s] /\ s = r
    <3>1. request[q] \in Lines /\ request[q].kind = "newuser"
      BY <1>1, RequestLines DEF LoginApply
    <3>2. up[r]
      BY <1>1, <2>2 DEF LoginApply, Asked, Active
    <3>3. /\ log'[r] = Append(log[r], request[q])
          /\ seen'[r] = seen[r] \cup {request[q]}
          /\ users'[r] = users[r] \cup {request[q].a}
          /\ edges'[r] = edges[r]
      BY <1>1, <2>2 DEF LoginApply, Entrant
    <3>4. Enters(r, request[q])
      BY <3>1, <3>2, <3>3 DEF Enters, NewUserKinds, FollowKinds
    <3>. QED  BY <3>1, <3>3, <3>4 DEF EntersOwn
  <2>3. CASE q \notin found[s] /\ s # r
    BY <1>1, <2>3 DEF LoginApply, Lost, Keeps
  <2>. QED  BY <2>1, <2>2, <2>3
<1>2. ASSUME NEW q \in Calls, NEW s \in Replicas, FollowApply(s, q) PROVE Goal
  <2>1. CASE s = r
    <3>1. request[q] \in Lines /\ request[q].kind = "follow"
      BY <1>2, RequestLines DEF FollowApply
    <3>2. up[r]
      BY <1>2, <2>1 DEF FollowApply, Asked, Active
    <3>3. /\ log'[r] = Append(log[r], request[q])
          /\ seen'[r] = seen[r] \cup {request[q]}
          /\ users'[r] = users[r]
          /\ edges'[r] = IF request[q].a = request[q].b THEN edges[r]
                         ELSE edges[r] \cup {<<request[q].a, request[q].b>>}
      BY <1>2, <2>1 DEF FollowApply
    <3>4. Enters(r, request[q])
      BY <3>1, <3>2, <3>3 DEF Enters, NewUserKinds, FollowKinds
    <3>. QED  BY <3>1, <3>3, <3>4 DEF EntersOwn
  <2>2. CASE s # r
    BY <1>2, <2>2 DEF FollowApply, Lost, Keeps
  <2>. QED  BY <2>1, <2>2
<1>3. ASSUME NEW s \in Replicas, NEW k \in DOMAIN log[s], CheckNewUser(s, k) PROVE Goal
  <2>1. CASE s = r
    <3>1. /\ up[r] /\ Unseen(r, k) /\ log[r][k].kind = "SYNC::newuser"
          /\ log'[r] = log[r]
          /\ seen'[r] = seen[r] \cup {log[r][k]}
          /\ users'[r] = users[r] \cup {log[r][k].a}
          /\ edges'[r] = edges[r]
      BY <1>3, <2>1 DEF CheckNewUser, Synced
    <3>2. Enters(r, log[r][k])
      BY <3>1 DEF Enters, NewUserKinds, FollowKinds
    <3>. QED  BY <2>1, <3>1, <3>2 DEF EntersSynced
  <2>2. CASE s # r
    BY <1>3, <2>2 DEF CheckNewUser, Lost, Keeps
  <2>. QED  BY <2>1, <2>2
<1>4. ASSUME NEW s \in Replicas, NEW k \in DOMAIN log[s], CheckNewFollow(s, k) PROVE Goal
  <2>1. CASE s = r
    <3>1. /\ up[r] /\ Unseen(r, k) /\ log[r][k].kind = "SYNC::follow"
          /\ log'[r] = log[r]
          /\ seen'[r] = seen[r] \cup {log[r][k]}
          /\ users'[r] = users[r]
          /\ edges'[r] = IF Known(r, log[r][k])
                         THEN edges[r] \cup {<<log[r][k].a, log[r][k].b>>} ELSE edges[r]
      BY <1>4, <2>1 DEF CheckNewFollow
    <3>2. CASE Known(r, log[r][k])
      <4>1. Enters(r, log[r][k])
        BY <3>1, <3>2 DEF Enters, NewUserKinds, FollowKinds
      <4>. QED  BY <2>1, <3>1, <3>2, <4>1 DEF EntersSynced
    <3>3. CASE ~Known(r, log[r][k])
      BY <2>1, <3>1, <3>3 DEF Notes
    <3>. QED  BY <3>2, <3>3
  <2>2. CASE s # r
    BY <1>4, <2>2 DEF CheckNewFollow, Lost, Keeps
  <2>. QED  BY <2>1, <2>2
<1>5. ASSUME NEW s \in Replicas, Kill(s) PROVE Goal
  BY <1>5 DEF Kill, Lost, Keeps
<1>6. ASSUME NEW s \in Replicas, Restart(s) PROVE Goal
  BY <1>6 DEF Restart, Restored, ReadsBack, Lost, Keeps
<1>7. ASSUME NEW l \in SyncLines, SyncWritesSlave(l) \/ SyncWritesMaster(l) PROVE Goal
  BY <1>7 DEF SyncWritesSlave, SyncWritesMaster, memory, Lost, Keeps
<1>. QED
  BY <1>0, <1>1, <1>2, <1>3, <1>4, <1>5, <1>6, <1>7
     DEF Next, Handler, CheckNew, Call, FollowFind, LoginFind, Forward, ForwardReturns,
         pairVars, memory

\* A running server has in output_lines only what its log says, and all that its
\* own handlers wrote.
SeenInLog ==
    \A r \in Replicas : up[r] => \A l \in seen[r] : InLog(r, l)

OwnSeen ==
    \A r \in Replicas : up[r] =>
        \A k \in DOMAIN log[r] :
            log[r][k].kind \in {"newuser", "follow"} => log[r][k] \in seen[r]

\* Its users and its follow pairs are those of the lines in output_lines.
UsersSeen ==
    \A r \in Replicas : up[r] =>
        \A x : x \in users[r] <=> \E l \in seen[r] : l.kind \in NewUserKinds /\ l.a = x

AllReplayable(lg) == \A k \in DOMAIN lg : Replayable(lg, k)

EdgesSeen ==
    \A r \in Replicas : up[r] /\ AllReplayable(log[r]) =>
        \A x, y : x # y =>
            (<<x, y>> \in edges[r] <=>
                \E l \in seen[r] : l.kind \in FollowKinds /\ l.a = x /\ l.b = y)

MemoryInv == BaseInv /\ SeenInLog /\ OwnSeen /\ UsersSeen /\ EdgesSeen

LEMMA SeenStep == BaseInv /\ SeenInLog /\ [Next]_pairVars => SeenInLog'
<1> SUFFICES ASSUME BaseInv, SeenInLog, [Next]_pairVars, NEW r \in Replicas, up'[r],
                    NEW l \in seen'[r]
             PROVE  InLog(r, l)'
  BY DEF SeenInLog
<1>1. InLog(r, l) => InLog(r, l)'
  BY LogFacts
<1>2. up[r] /\ l \in seen[r] => InLog(r, l)
  BY DEF SeenInLog
<1>3. CASE ReadsBack(r)
  BY <1>3 DEF ReadsBack, InLog
<1>4. CASE EntersOwn(r)
  <2>1. PICK e \in Lines : log'[r] = Append(log[r], e) /\ Enters(r, e)
    BY <1>4 DEF EntersOwn
  <2>2. log[r] \in Seq(Lines)
    BY DEF BaseInv, TypeOK
  <2>3. InLog(r, e)'
    BY <2>1, <2>2, AppendLine DEF InLog
  <2>. QED  BY <1>1, <1>2, <2>1, <2>3 DEF Enters
<1>5. CASE EntersSynced(r)
  BY <1>1, <1>2, <1>5 DEF EntersSynced, Enters, InLog
<1>6. CASE Notes(r)
  BY <1>1, <1>2, <1>6 DEF Notes, InLog
<1>7. CASE Keeps(r)
  BY <1>1, <1>2, <1>7 DEF Keeps
<1>. QED  BY <1>3, <1>4, <1>5, <1>6, <1>7, MemoryMoves DEF Lost

LEMMA OwnStep == BaseInv /\ OwnSeen /\ [Next]_pairVars => OwnSeen'
<1> SUFFICES ASSUME BaseInv, OwnSeen, [Next]_pairVars, NEW r \in Replicas, up'[r],
                    NEW k \in DOMAIN log'[r], log'[r][k].kind \in {"newuser", "follow"}
             PROVE  log'[r][k] \in seen'[r]
  BY DEF OwnSeen
<1>1. log[r] \in Seq(Lines)
  BY DEF BaseInv, TypeOK
<1>2. up[r] /\ k \in DOMAIN log[r] /\ log'[r][k] = log[r][k] => log'[r][k] \in seen[r]
  BY DEF OwnSeen
<1>3. CASE ReadsBack(r)
  BY <1>3 DEF ReadsBack
<1>4. CASE EntersOwn(r)
  <2>1. PICK e \in Lines : log'[r] = Append(log[r], e) /\ Enters(r, e)
    BY <1>4 DEF EntersOwn
  <2>2. log'[r][k] = e \/ (k \in DOMAIN log[r] /\ log'[r][k] = log[r][k])
    BY <1>1, <2>1, AppendLine
  <2>. QED  BY <1>2, <2>1, <2>2 DEF Enters
<1>5. CASE EntersSynced(r)
  BY <1>2, <1>5 DEF EntersSynced, Enters
<1>6. CASE Notes(r)
  BY <1>2, <1>6 DEF Notes
<1>7. CASE Keeps(r)
  <2>1. CASE log'[r] = log[r]
    BY <1>2, <1>7, <2>1 DEF Keeps
  <2>2. ASSUME NEW l \in SyncLines, log'[r] = Append(log[r], l) PROVE log'[r][k] \in seen'[r]
    <3>1. l \in Lines /\ l.kind \notin {"newuser", "follow"}
      BY RequestLines
    <3>2. k \in DOMAIN log[r] /\ log'[r][k] = log[r][k]
      BY <1>1, <2>2, <3>1, AppendLine
    <3>. QED  BY <1>2, <1>7, <3>2 DEF Keeps
  <2>. QED  BY <1>7, <2>1, <2>2 DEF Keeps
<1>. QED  BY <1>3, <1>4, <1>5, <1>6, <1>7, MemoryMoves DEF Lost

LEMMA UsersSeenStep == BaseInv /\ UsersSeen /\ [Next]_pairVars => UsersSeen'
<1> SUFFICES ASSUME BaseInv, UsersSeen, [Next]_pairVars, NEW r \in Replicas, up'[r]
             PROVE  \A x : x \in users'[r] <=>
                        \E l \in seen'[r] : l.kind \in NewUserKinds /\ l.a = x
  BY DEF UsersSeen
<1> DEFINE Goal == \A x : x \in users'[r] <=>
                       \E l \in seen'[r] : l.kind \in NewUserKinds /\ l.a = x
<1>1. up[r] => \A x : x \in users[r] <=>
                   \E l \in seen[r] : l.kind \in NewUserKinds /\ l.a = x
  BY DEF UsersSeen
<1>2. ASSUME NEW e, Enters(r, e) PROVE Goal
  <2>1. /\ up[r] /\ seen'[r] = seen[r] \cup {e}
        /\ users'[r] = users[r] \cup (IF e.kind \in NewUserKinds THEN {e.a} ELSE {})
    BY <1>2 DEF Enters
  <2>. QED  BY <1>1, <2>1
<1>3. CASE ReadsBack(r)
  BY <1>3 DEF ReadsBack, UsersIn
<1>4. CASE EntersOwn(r)
  BY <1>2, <1>4 DEF EntersOwn
<1>5. CASE EntersSynced(r)
  BY <1>2, <1>5 DEF EntersSynced
<1>6. CASE Notes(r)
  <2>1. PICK k \in DOMAIN log[r] :
            /\ up[r] /\ log[r][k].kind = "SYNC::follow"
            /\ users'[r] = users[r] /\ seen'[r] = seen[r] \cup {log[r][k]}
    BY <1>6 DEF Notes
  <2>. QED  BY <1>1, <2>1 DEF NewUserKinds
<1>7. CASE Keeps(r)
  BY <1>1, <1>7 DEF Keeps
<1>. QED  BY <1>3, <1>4, <1>5, <1>6, <1>7, MemoryMoves DEF Lost

\* A log that can be replayed could be replayed before its last line came.
LEMMA ReplayableBefore ==
    ASSUME BaseInv, [Next]_pairVars, NEW r \in Replicas, AllReplayable(log'[r])
    PROVE  AllReplayable(log[r])
<1> SUFFICES ASSUME NEW k \in DOMAIN log[r] PROVE Replayable(log[r], k)
  BY DEF AllReplayable
<1>1. LogKept(r) /\ log[r] \in Seq(Lines)
  BY LogGrows DEF BaseInv, TypeOK
<1>2. 1..(k - 1) \subseteq DOMAIN log[r]
  BY <1>1
<1>3. Replayable(log'[r], k)
  BY <1>1 DEF AllReplayable, LogKept
<1>. QED  BY <1>1, <1>2, <1>3 DEF Replayable, Entered, LogKept

LEMMA EdgesStep == BaseInv /\ UsersSeen /\ EdgesSeen /\ [Next]_pairVars => EdgesSeen'
<1> SUFFICES ASSUME BaseInv, UsersSeen, EdgesSeen, [Next]_pairVars, NEW r \in Replicas,
                    up'[r], AllReplayable(log'[r]), NEW x, NEW y, x # y
             PROVE  <<x, y>> \in edges'[r] <=>
                        \E l \in seen'[r] : l.kind \in FollowKinds /\ l.a = x /\ l.b = y
  BY DEF EdgesSeen
<1> DEFINE Goal == <<x, y>> \in edges'[r] <=>
                       \E l \in seen'[r] : l.kind \in FollowKinds /\ l.a = x /\ l.b = y
<1>1. AllReplayable(log[r])
  BY ReplayableBefore
<1>2. up[r] => (<<x, y>> \in edges[r] <=>
                    \E l \in seen[r] : l.kind \in FollowKinds /\ l.a = x /\ l.b = y)
  BY <1>1 DEF EdgesSeen
<1>3. ASSUME NEW e, Enters(r, e) PROVE Goal
  <2>1. /\ up[r] /\ seen'[r] = seen[r] \cup {e}
        /\ <<x, y>> \in edges'[r] <=>
               \/ <<x, y>> \in edges[r]
               \/ e.kind \in FollowKinds /\ x = e.a /\ y = e.b
    BY <1>3 DEF Enters
  <2>. QED  BY <1>2, <2>1
<1>4. CASE ReadsBack(r)
  BY <1>1, <1>4 DEF ReadsBack, EdgesIn, AllReplayable
<1>5. CASE EntersOwn(r)
  BY <1>3, <1>5 DEF EntersOwn
<1>6. CASE EntersSynced(r)
  BY <1>3, <1>6 DEF EntersSynced
<1>7. ~Notes(r)
  <2> SUFFICES ASSUME NEW k \in DOMAIN log[r], up[r], Unseen(r, k),
                      log[r][k].kind = "SYNC::follow"
               PROVE  Known(r, log[r][k])
    BY DEF Notes
  <2>1. Entered(log[r], k, log[r][k].a) /\ Entered(log[r], k, log[r][k].b)
    BY <1>1 DEF AllReplayable, Replayable, FollowKinds
  <2>2. \A z : Entered(log[r], k, z) => z \in users[r]
    BY DEF Entered, Unseen, UsersSeen
  <2>. QED  BY <2>1, <2>2 DEF Known
<1>8. CASE Keeps(r)
  BY <1>2, <1>8 DEF Keeps
<1>. QED  BY <1>4, <1>5, <1>6, <1>7, <1>8, MemoryMoves DEF Lost

LEMMA MemoryAgrees == MemoryInv => RestartAgrees
<1> SUFFICES ASSUME MemoryInv, NEW r \in Replicas, up[r], AllReplayable(log[r])
             PROVE  /\ seen[r] \subseteq {log[r][k] : k \in DOMAIN log[r]}
                    /\ \A k \in DOMAIN log[r] :
                           log[r][k].kind \in {"newuser", "follow"} => log[r][k] \in seen[r]
                    /\ \A v \in Names :
                           /\ List(r, v).all_users =
                                  {l.a : l \in {x \in seen[r] : x.kind \in NewUserKinds}}
                           /\ List(r, v).followers \ {v} =
                                  {l.a : l \in {x \in seen[r] : x.kind \in FollowKinds /\ x.b = v}}
                                      \ {v}
  BY DEF RestartAgrees, AllReplayable
<1> USE DEF MemoryInv
<1>1. seen[r] \subseteq {log[r][k] : k \in DOMAIN log[r]}
  BY DEF SeenInLog, InLog
<1>2. \A k \in DOMAIN log[r] :
          log[r][k].kind \in {"newuser", "follow"} => log[r][k] \in seen[r]
  BY DEF OwnSeen
<1>3. ASSUME NEW v \in Names
      PROVE  /\ List(r, v).all_users = {l.a : l \in {x \in seen[r] : x.kind \in NewUserKinds}}
             /\ List(r, v).followers \ {v} =
                    {l.a : l \in {x \in seen[r] : x.kind \in FollowKinds /\ x.b = v}} \ {v}
  <2>1. /\ List(r, v).all_users = users[r]
        /\ List(r, v).followers = {u \in Names : <<u, v>> \in edges[r]}
    BY DEF List
  <2>2. users[r] = {l.a : l \in {x \in seen[r] : x.kind \in NewUserKinds}}
    BY DEF UsersSeen
  <2>3. \A l \in seen[r] : l.a \in Names
    BY DEF BaseInv, TypeOK, Lines
  <2>4. \A u \in Names : u # v =>
            (<<u, v>> \in edges[r] <=>
                \E l \in seen[r] : l.kind \in FollowKinds /\ l.a = u /\ l.b = v)
    BY DEF EdgesSeen
  <2>5. {u \in Names : <<u, v>> \in edges[r]} \ {v} =
            {l.a : l \in {x \in seen[r] : x.kind \in FollowKinds /\ x.b = v}} \ {v}
    BY <2>3, <2>4
  <2>. QED  BY <2>1, <2>2, <2>5
<1>. QED  BY <1>1, <1>2, <1>3

\* What List tells at a running server is what its log says, whatever was killed
\* and restarted before, as long as the log can be replayed at all.
THEOREM RestartsAgree == Spec => []RestartAgrees
<1>1. Init => MemoryInv
  <2> SUFFICES ASSUME Init PROVE MemoryInv
    OBVIOUS
  <2>1. SeenInLog /\ OwnSeen /\ UsersSeen /\ EdgesSeen
    BY DEF Init, SeenInLog, OwnSeen, UsersSeen, EdgesSeen
  <2>. QED  BY BaseInit, <2>1 DEF MemoryInv
<1>2. MemoryInv /\ [Next]_pairVars => MemoryInv'
  <2>1. BaseInv /\ [Next]_pairVars => BaseInv'
    BY TypeStep, AskedStep DEF BaseInv
  <2>. QED  BY <2>1, SeenStep, OwnStep, UsersSeenStep, EdgesStep DEF MemoryInv
<1>. QED  BY <1>1, <1>2, MemoryAgrees, PTL DEF Spec
=============================================================================
