--------------------------- MODULE SyncNet_proofs ---------------------------
(***************************************************************************)
(* The safety properties of SyncNet, for any number of clusters, users,    *)
(* follows, authors and starts.                                            *)
(***************************************************************************)
EXTENDS SyncNet, FiniteSetTheorems, TLAPS

\* What synchronizer s tells of is of its own cluster and in its files.
Own(s, l) ==
    \/ l \in Posts /\ HomeOf[l.a] = s
    \/ l \in Lines /\ l.kind \in LocalKinds /\ InLog(s, "master", l)

\* A local line of either log is about a user of the cluster and in the
\* master's log, where the reader starts.
LocalLines ==
    \A s \in Clusters, r \in Replicas : \A l \in Lines :
        InLog(s, r, l) /\ l.kind \in LocalKinds => HomeOf[l.a] = s /\ InLog(s, "master", l)

LocalPosts == \A s \in Clusters : \A p \in posts[s] : HomeOf[p.a] = s

ReaderTells == \A s \in Clusters : at[s] \in {"call", "waiting"} => Own(s, work[s])

\* A synchronizer never calls itself.
CallsPeers == \A s \in Clusters : todo[s] \subseteq Peers(s)

\* The same for a handler; one that writes knows the followee in its cluster.
HandlersTell ==
    \A h \in handlers :
        /\ Own(h.from, h.line)
        /\ h.from # h.to
        /\ h.step # "slave" =>
               /\ h.line.kind # "post"
               /\ h.line.kind = "follow" => HomeOf[h.line.b] = h.to

\* A synchronizer remembers its own users, and follows that they asked for.
Remembers ==
    \A s \in Clusters :
        /\ \A u \in db[s] : HomeOf[u] = s
        /\ \A e \in following[s] : HomeOf[e[1]] = s /\ InLog(s, "master", Line("follow", e[1], e[2]))

\* A synchronizer that is down was killed, which leaves it a start.
StartLeft == \A s \in Clusters : ~alive[s] => starts[s] < MaxStarts[s]

LEMMA LineFacts ==
    /\ Requests \subseteq Lines
    /\ \A l \in Requests : l.kind \in LocalKinds
    /\ \A l \in Lines : l.a \in Users /\ l.b \in Users /\ l.kind # "post" /\ l.kind # "none"
                     /\ Echo(l) \in Lines /\ Echo(l).a = l.a /\ Echo(l).b = l.b
                     /\ Echo(l).kind \notin LocalKinds
    /\ \A p \in Posts : p.kind = "post" /\ p.a \in Users /\ p.b \in Users
    /\ NoLine.kind = "none"
  BY SyncNetAssumption DEF Requests, Lines, Line, Posts, LocalKinds, Echo, NoLine

LEMMA AppendLine ==
    ASSUME NEW lg \in Seq(Lines), NEW l \in Lines
    PROVE  /\ Append(lg, l) \in Seq(Lines)
           /\ ToSet(Append(lg, l)) = ToSet(lg) \cup {l}
           /\ DOMAIN Append(lg, l) = 1..(Len(lg) + 1)
           /\ DOMAIN lg = 1..Len(lg)
           /\ \A k \in DOMAIN lg : Append(lg, l)[k] = lg[k]
           /\ Append(lg, l)[Len(lg) + 1] = l
<1>1. /\ Append(lg, l) \in Seq(Lines)
      /\ DOMAIN Append(lg, l) = 1..(Len(lg) + 1)
      /\ DOMAIN lg = 1..Len(lg)
      /\ Len(lg) \in Nat
      /\ \A k \in DOMAIN lg : Append(lg, l)[k] = lg[k]
      /\ Append(lg, l)[Len(lg) + 1] = l
  OBVIOUS
<1>2. ToSet(Append(lg, l)) \subseteq ToSet(lg) \cup {l}
  BY <1>1 DEF ToSet
<1>3. ToSet(lg) \cup {l} \subseteq ToSet(Append(lg, l))
  BY <1>1 DEF ToSet
<1>. QED  BY <1>1, <1>2, <1>3

-----------------------------------------------------------------------------
LEMMA HandlerSteps ==
    ASSUME NEW h \in Handlers, NEW step \in {"slave", "master", "load", "store"}, NEW n \in Nat,
           handlers \subseteq Handlers, Steps(h, step, n)
    PROVE  handlers' \subseteq Handlers
<1>1. [h EXCEPT !.step = step, !.register = n] \in Handlers
  BY DEF Handlers
<1>. QED  BY <1>1 DEF Steps

LEMMA TypeStep == TypeOK /\ StartLeft /\ ReaderTells /\ HandlersTell /\ [Next]_vars => TypeOK'
<1> SUFFICES ASSUME TypeOK, StartLeft, ReaderTells, HandlersTell, [Next]_vars PROVE TypeOK'
  OBVIOUS
<1> USE DEF TypeOK, files, process, memory, reader, history
<1>a. \A s \in Clusters, r \in Replicas, l \in Lines :
          [log EXCEPT ![s][r] = Append(@, l)] \in [Clusters -> [Replicas -> Seq(Lines)]]
  BY AppendLine
<1>b. \A h \in handlers : h \in Handlers
  OBVIOUS
<1>1. ASSUME NEW s \in Clusters, NEW l \in Requests, ServersLog(s, l) PROVE TypeOK'
  <2>1. l \in Lines
    BY LineFacts
  <2>2. [r \in Replicas |-> Append(log[s][r], l)] \in [Replicas -> Seq(Lines)]
    BY <2>1, AppendLine
  <2>. QED  BY <1>1, <2>2 DEF ServersLog
<1>2. ASSUME NEW s \in Clusters, NEW p \in Posts, ServersPost(s, p) PROVE TypeOK'
  BY <1>2 DEF ServersPost
<1>3. ASSUME NEW s \in Clusters, connectSyncs(s) PROVE TypeOK'
  BY <1>3 DEF connectSyncs
<1>4. ASSUME NEW s \in Clusters, SwitchToSlave(s) PROVE TypeOK'
  BY <1>4 DEF SwitchToSlave, Replicas
<1>5. ASSUME NEW s \in Clusters, Kill(s) PROVE TypeOK'
  <2>1. failed' \subseteq Clusters \X Users
    BY <1>5, LineFacts DEF Kill, Handlers
  <2>2. /\ alive' \in [Clusters -> BOOLEAN] /\ connected' \in [Clusters -> BOOLEAN]
        /\ type' \in [Clusters -> Replicas] /\ file' \in [Clusters -> Replicas]
        /\ at' \in [Clusters -> Places]
        /\ second' \in [Clusters -> Nat] /\ cur' \in [Clusters -> Nat]
        /\ counted' \in [Clusters -> Nat]
    BY <1>5 DEF Kill, Replicas, Places
  <2>3. /\ db' \in [Clusters -> SUBSET Users]
        /\ following' \in [Clusters -> SUBSET (Users \X Users)]
        /\ work' \in [Clusters -> Lines \cup Posts \cup {NoLine}]
        /\ todo' \in [Clusters -> SUBSET Clusters]
        /\ sent' \in [Clusters -> SUBSET Posts]
        /\ told' \in [Clusters -> SUBSET Lines]
        /\ handlers' \subseteq Handlers
    BY <1>5 DEF Kill
  <2>. QED  BY <1>5, <2>1, <2>2, <2>3 DEF Kill
<1>6. ASSUME NEW s \in Clusters, Start(s) PROVE TypeOK'
  <2>1. starts[s] + 1 <= MaxStarts[s]
    <3>1. starts[s] \in Nat /\ MaxStarts[s] \in Nat /\ starts[s] < MaxStarts[s]
      BY <1>6, SyncNetAssumption DEF Start, StartLeft
    <3>. QED  BY <3>1
  <2>2. \A t \in Clusters : starts'[t] <= MaxStarts[t]
    BY <1>6, <2>1 DEF Start
  <2>. QED  BY <1>6, <2>2 DEF Start
<1>7. ASSUME NEW s \in Clusters, Wake(s) PROVE TypeOK'
  BY <1>7 DEF Wake, Go, NextPlace, Places
<1>8. ASSUME NEW s \in Clusters, ReadLine(s) PROVE TypeOK'
  <2>1. log[s][file[s]] \in Seq(Lines) /\ cur[s] \in Nat
    OBVIOUS
  <2>2. log[s][file[s]][cur[s] + 1] \in Lines
    BY <1>8, <2>1 DEF ReadLine
  <2>3. /\ told' \in [Clusters -> SUBSET Lines]
        /\ cur' \in [Clusters -> Nat] /\ second' \in [Clusters -> Nat]
    BY <1>8, <2>2 DEF ReadLine, Counts
  <2>4. /\ at' \in [Clusters -> Places]
        /\ work' \in [Clusters -> Lines \cup Posts \cup {NoLine}]
        /\ todo' \in [Clusters -> SUBSET Clusters]
    <3> DEFINE l == log[s][file[s]][cur[s] + 1]
    <3>1. CASE Forwarded(l)
      <4>1. Tell(s, l)
        BY <1>8, <3>1 DEF ReadLine
      <4>. QED  BY <2>2, <4>1 DEF Tell, Go, Places, Peers
    <3>2. CASE ~Forwarded(l)
      <4>1. UNCHANGED <<at, work, todo>>
        BY <1>8, <3>2 DEF ReadLine
      <4>. QED  BY <4>1
    <3>. QED  BY <3>1, <3>2
  <2>. QED  BY <1>8, <2>3, <2>4 DEF ReadLine
<1>9. ASSUME NEW s \in Clusters, EndOfFile(s) PROVE TypeOK'
  BY <1>9 DEF EndOfFile, Go, NextPlace, Places
<1>10. ASSUME NEW s \in Clusters, NEW p \in Posts, ReadPost(s, p) PROVE TypeOK'
  BY <1>10 DEF ReadPost, Tell, Go, Places, Peers
<1>11. ASSUME NEW s \in Clusters, NEW t \in Clusters, CallPeer(s, t) PROVE TypeOK'
  <2>1. work[s] \in Lines \cup Posts /\ work[s].a \in Users
    BY <1>11, LineFacts DEF CallPeer, ReaderAt, ReaderTells, Own
  <2>2. [from |-> s, run |-> starts[s], to |-> t, line |-> work[s],
         step |-> "slave", register |-> 0] \in Handlers
    BY <2>1 DEF Handlers
  <2>3. handlers' \subseteq Handlers /\ failed' \subseteq Clusters \X Users
    BY <1>11, <2>1, <2>2 DEF CallPeer
  <2>. QED  BY <1>11, <2>3 DEF CallPeer, Go, Places
<1>12. ASSUME NEW s \in Clusters, CallReturns(s) PROVE TypeOK'
  BY <1>12 DEF CallReturns, Go, Places
<1>13. ASSUME NEW s \in Clusters, Remember(s) PROVE TypeOK'
  <2>1. work[s] \in Lines \cup Posts /\ work[s].a \in Users /\ work[s].b \in Users
    BY <1>13, LineFacts DEF Remember, ReaderAt, ReaderTells, Own
  <2>2. /\ db' \in [Clusters -> SUBSET Users]
        /\ following' \in [Clusters -> SUBSET (Users \X Users)]
    BY <1>13, <2>1 DEF Remember
  <2>3. /\ at' \in [Clusters -> Places]
        /\ work' \in [Clusters -> Lines \cup Posts \cup {NoLine}]
    BY <1>13 DEF Remember, Go, NextPlace, Places
  <2>. QED  BY <1>13, <2>2, <2>3 DEF Remember
<1>14. ASSUME NEW h \in handlers, WriteSlave(h) PROVE TypeOK'
  <2>1. Echo(h.line) \in Lines /\ h.to \in Clusters
    BY <1>14, <1>b, LineFacts DEF WriteSlave, Handlers
  <2>2. CASE Accepts(h)
    <3>1. Write(h.to, "slave", Echo(h.line)) /\ Steps(h, "master", 0)
      BY <1>14, <2>2 DEF WriteSlave
    <3>2. log' \in [Clusters -> [Replicas -> Seq(Lines)]]
      BY <2>1, <1>a, <3>1 DEF Write, Replicas
    <3>3. handlers' \subseteq Handlers
      BY <3>1, <1>b, HandlerSteps
    <3>. QED  BY <1>14, <3>2, <3>3 DEF WriteSlave
  <2>3. CASE ~Accepts(h)
    BY <1>14, <2>3 DEF WriteSlave, Ends
  <2>. QED  BY <2>2, <2>3
<1>15. ASSUME NEW h \in handlers, WriteMaster(h) PROVE TypeOK'
  <2>1. Echo(h.line) \in Lines /\ h.to \in Clusters
    BY <1>15, <1>b, LineFacts DEF WriteMaster, Handlers, HandlersTell
  <2>2. log' \in [Clusters -> [Replicas -> Seq(Lines)]]
    BY <1>15, <2>1, <1>a DEF WriteMaster, Write, Replicas
  <2>3. handlers' \subseteq Handlers
    BY <1>15, <1>b, HandlerSteps DEF WriteMaster
  <2>. QED  BY <1>15, <2>2, <2>3 DEF WriteMaster
<1>16. ASSUME NEW h \in handlers, LoadCount(h) PROVE TypeOK'
  <2>1. second[h.to] \in Nat
    BY <1>b DEF Handlers
  <2>2. handlers' \subseteq Handlers
    BY <1>16, <1>b, <2>1, HandlerSteps DEF LoadCount
  <2>. QED  BY <1>16, <2>2 DEF LoadCount
<1>17. ASSUME NEW h \in handlers, StoreCount(h) PROVE TypeOK'
  <2>1. h.register \in Nat /\ h.to \in Clusters
    BY <1>b DEF Handlers
  <2>2. second' \in [Clusters -> Nat]
    BY <1>17, <2>1 DEF StoreCount
  <2>3. counted' \in [Clusters -> Nat]
    BY <1>17, <2>1 DEF StoreCount
  <2>. QED  BY <1>17, <2>2, <2>3 DEF StoreCount, Ends
<1>18. ASSUME NEW h \in handlers, new_post(h) PROVE TypeOK'
  <2>1. h.to \in Clusters /\ h.line \in Posts
    BY <1>18, <1>b, LineFacts DEF new_post, Handlers
  <2>2. Followers(h.to, h.line.a) \X {h.line} \subseteq Users \X Posts
    BY <2>1 DEF Followers
  <2>. QED  BY <1>18, <2>1, <2>2 DEF new_post, Ends
<1>19. CASE UNCHANGED vars
  BY <1>19 DEF vars
<1>. QED
  BY <1>1, <1>2, <1>3, <1>4, <1>5, <1>6, <1>7, <1>8, <1>9, <1>10, <1>11, <1>12, <1>13,
     <1>14, <1>15, <1>16, <1>17, <1>18, <1>19
     DEF Next, ReadStep, Handle

LEMMA StartLeftStep == TypeOK /\ StartLeft /\ [Next]_vars => StartLeft'
<1> SUFFICES ASSUME TypeOK, StartLeft, [Next]_vars, NEW s \in Clusters, ~alive'[s]
             PROVE  starts'[s] < MaxStarts[s]
  BY DEF StartLeft
<1> USE DEF TypeOK, StartLeft
<1>1. ASSUME NEW t \in Clusters, Kill(t) PROVE starts'[s] < MaxStarts[s]
  BY <1>1 DEF Kill
<1>2. ASSUME NEW t \in Clusters, Start(t) PROVE starts'[s] < MaxStarts[s]
  BY <1>2 DEF Start
<1>3. CASE UNCHANGED <<alive, starts>>
  BY <1>3
<1>. QED
  BY <1>1, <1>2, <1>3
     DEF Next, ServersLog, ServersPost, connectSyncs, SwitchToSlave, ReadStep, Wake,
         ReadLine, EndOfFile, ReadPost, CallPeer, CallReturns, Remember, Handle,
         WriteSlave, WriteMaster, LoadCount, StoreCount, new_post, vars, process

-----------------------------------------------------------------------------
\* A log that changes gets one line, of the servers of the cluster, who log it
\* in both, or of a handler.
NewLine(s, r, l) ==
    /\ l \in Lines
    /\ log'[s][r] = Append(log[s][r], l)
    /\ \/ /\ l \in Requests /\ HomeOf[l.a] = s
          /\ l.kind = "follow" => Knows(s, l.a)
          /\ \A q \in Replicas : log'[s][q] = Append(log[s][q], l)
       \/ \E h \in handlers :
              /\ h.to = s /\ l = Echo(h.line) /\ h.line \in Lines
              /\ h.line.kind = "follow" => HomeOf[h.line.b] = s

LEMMA LogGrows ==
    ASSUME TypeOK, HandlersTell, Remembers, [Next]_vars, NEW s \in Clusters, NEW r \in Replicas
    PROVE  log'[s][r] = log[s][r] \/ \E l \in Lines : NewLine(s, r, l)
<1> DEFINE Goal == log'[s][r] = log[s][r] \/ \E l \in Lines : NewLine(s, r, l)
<1> USE DEF TypeOK
<1>1. ASSUME NEW t \in Clusters, NEW l \in Requests, ServersLog(t, l) PROVE Goal
  <2>1. l \in Lines /\ HomeOf[l.a] = t
    BY <1>1, LineFacts DEF ServersLog
  <2>2. CASE t = s
    <3>1. \A q \in Replicas : log'[s][q] = Append(log[s][q], l)
      BY <1>1, <2>2 DEF ServersLog
    <3>2. NewLine(s, r, l)
      BY <1>1, <2>1, <2>2, <3>1 DEF NewLine, ServersLog
    <3>. QED  BY <2>1, <3>2
  <2>3. CASE t # s
    BY <1>1, <2>3 DEF ServersLog
  <2>. QED  BY <2>2, <2>3
<1>2. ASSUME NEW h \in handlers, NEW q \in Replicas, Write(h.to, q, Echo(h.line)),
             h.line \in Lines, h.line.kind = "follow" => HomeOf[h.line.b] = h.to
      PROVE  Goal
  <2>1. h.to \in Clusters /\ Echo(h.line) \in Lines
    BY <1>2, LineFacts DEF Handlers
  <2>2. CASE h.to = s /\ q = r
    <3>1. log'[s][r] = Append(log[s][r], Echo(h.line))
      BY <1>2, <2>1, <2>2 DEF Write
    <3>2. NewLine(s, r, Echo(h.line))
      BY <1>2, <2>1, <2>2, <3>1 DEF NewLine
    <3>. QED  BY <2>1, <3>2
  <2>3. CASE ~(h.to = s /\ q = r)
    BY <1>2, <2>1, <2>3 DEF Write
  <2>. QED  BY <2>2, <2>3
<1>3. ASSUME NEW h \in handlers, WriteSlave(h) PROVE Goal
  <2>1. h.line \in Lines
    BY <1>3, LineFacts DEF WriteSlave, Handlers
  <2>2. CASE Accepts(h)
    <3>1. h.line.kind = "follow" => HomeOf[h.line.b] = h.to
      BY <2>2 DEF Accepts, Remembers, Handlers
    <3>. QED  BY <1>2, <1>3, <2>1, <2>2, <3>1 DEF WriteSlave, Replicas
  <2>3. CASE ~Accepts(h)
    BY <1>3, <2>3 DEF WriteSlave
  <2>. QED  BY <2>2, <2>3
<1>4. ASSUME NEW h \in handlers, WriteMaster(h) PROVE Goal
  <2>1. h.line \in Lines /\ (h.line.kind = "follow" => HomeOf[h.line.b] = h.to)
    BY <1>4, LineFacts DEF WriteMaster, HandlersTell, Handlers
  <2>. QED  BY <1>2, <1>4, <2>1 DEF WriteMaster, Replicas
<1>5. CASE UNCHANGED log
  BY <1>5
<1>. QED
  BY <1>1, <1>3, <1>4, <1>5
     DEF Next, ServersPost, connectSyncs, SwitchToSlave, Kill, Start, ReadStep, Wake,
         ReadLine, EndOfFile, ReadPost, CallPeer, CallReturns, Remember, Handle,
         LoadCount, StoreCount, new_post, vars, files

LEMMA LogKeeps ==
    ASSUME TypeOK, HandlersTell, Remembers, [Next]_vars
    PROVE  \A s \in Clusters, r \in Replicas : \A l : InLog(s, r, l) => InLog(s, r, l)'
<1> SUFFICES ASSUME NEW s \in Clusters, NEW r \in Replicas
             PROVE  ToSet(log[s][r]) \subseteq ToSet(log'[s][r])
  BY DEF InLog
<1>1. ASSUME NEW l \in Lines, NewLine(s, r, l)
      PROVE  ToSet(log[s][r]) \subseteq ToSet(log'[s][r])
  <2>1. log[s][r] \in Seq(Lines) /\ log'[s][r] = Append(log[s][r], l)
    BY <1>1 DEF TypeOK, NewLine
  <2>. QED  BY <2>1, AppendLine
<1>. QED  BY <1>1, LogGrows

LEMMA LocalLinesStep ==
    TypeOK /\ HandlersTell /\ Remembers /\ LocalLines /\ [Next]_vars => LocalLines'
<1> SUFFICES ASSUME TypeOK, HandlersTell, Remembers, LocalLines, [Next]_vars,
                    NEW s \in Clusters, NEW r \in Replicas, NEW l \in Lines,
                    InLog(s, r, l)', l.kind \in LocalKinds
             PROVE  HomeOf[l.a] = s /\ InLog(s, "master", l)'
  BY DEF LocalLines
<1>0. "master" \in Replicas
  BY DEF Replicas
<1>1. InLog(s, r, l) => HomeOf[l.a] = s /\ InLog(s, "master", l)'
  BY LogKeeps, <1>0 DEF LocalLines
<1>2. ASSUME NEW n \in Lines, NewLine(s, r, n), ~InLog(s, r, l)
      PROVE  HomeOf[l.a] = s /\ InLog(s, "master", l)'
  <2>1. l = n
    <3>1. ToSet(log'[s][r]) = ToSet(log[s][r]) \cup {n}
      BY <1>2, AppendLine DEF NewLine, TypeOK
    <3>. QED  BY <1>2, <3>1 DEF InLog
  <2>2. HomeOf[l.a] = s /\ log'[s]["master"] = Append(log[s]["master"], l)
    BY <1>0, <1>2, <2>1, LineFacts DEF NewLine
  <2>3. l \in ToSet(log'[s]["master"])
    BY <2>2, <1>0, AppendLine DEF TypeOK
  <2>. QED  BY <2>2, <2>3 DEF InLog
<1>. QED  BY <1>1, <1>2, LogGrows DEF InLog

-----------------------------------------------------------------------------
\* The strengthening that is inductive.
Strong ==
    /\ TypeOK /\ StartLeft
    /\ LocalLines /\ LocalPosts
    /\ ReaderTells /\ CallsPeers /\ HandlersTell /\ Remembers

LEMMA OwnKeeps ==
    ASSUME Strong, [Next]_vars
    PROVE  \A s \in Clusters : \A l : Own(s, l) => Own(s, l)'
  BY LogKeeps DEF Strong, Own, Replicas

LEMMA OwnHome == ASSUME Strong, NEW s \in Clusters, NEW l, Own(s, l) PROVE HomeOf[l.a] = s
  BY DEF Strong, Own, LocalLines, Replicas

LEMMA LocalPostsStep == TypeOK /\ LocalPosts /\ [Next]_vars => LocalPosts'
<1> SUFFICES ASSUME TypeOK, LocalPosts, [Next]_vars, NEW s \in Clusters, NEW p \in posts'[s]
             PROVE  HomeOf[p.a] = s
  BY DEF LocalPosts
<1> USE DEF LocalPosts
<1>1. ASSUME NEW t \in Clusters, NEW q \in Posts, ServersPost(t, q) PROVE HomeOf[p.a] = s
  BY <1>1 DEF ServersPost, TypeOK
<1>2. CASE UNCHANGED posts
  BY <1>2
<1>. QED
  BY <1>1, <1>2
     DEF Next, ServersLog, connectSyncs, SwitchToSlave, Kill, Start, ReadStep, Wake,
         ReadLine, EndOfFile, ReadPost, CallPeer, CallReturns, Remember, Handle,
         WriteSlave, WriteMaster, LoadCount, StoreCount, new_post, vars, files

LEMMA ReaderTellsStep == Strong /\ [Next]_vars => ReaderTells'
<1> SUFFICES ASSUME Strong, [Next]_vars, NEW s \in Clusters, at'[s] \in {"call", "waiting"}
             PROVE  Own(s, work[s])'
  BY DEF ReaderTells
<1> USE DEF Strong, TypeOK
<1>k. \A l : Own(s, l) => Own(s, l)'
  BY OwnKeeps
<1>0. ASSUME at[s] \in {"call", "waiting"}, work'[s] = work[s] PROVE Own(s, work[s])'
  <2>1. Own(s, work[s])
    BY <1>0 DEF ReaderTells
  <2>2. ToSet(log[s]["master"]) \subseteq ToSet(log'[s]["master"])
    BY LogKeeps DEF InLog, Replicas
  <2>3. work[s] \in ToSet(log[s]["master"]) => work'[s] \in ToSet(log'[s]["master"])
    BY <1>0, <2>2
  <2>. QED  BY <1>0, <2>1, <2>3 DEF Own, InLog
<1>1. ASSUME NEW t \in Clusters, Kill(t) PROVE Own(s, work[s])'
  <2>1. t # s
    BY <1>1 DEF Kill
  <2>. QED  BY <1>0, <1>1, <2>1 DEF Kill
<1>2. ASSUME NEW t \in Clusters, Wake(t) PROVE Own(s, work[s])'
  <2>1. t # s
    BY <1>2 DEF Wake, Go, NextPlace
  <2>. QED  BY <1>0, <1>2, <2>1 DEF Wake, Go
<1>3. ASSUME NEW t \in Clusters, ReadLine(t) PROVE Own(s, work[s])'
  <2> DEFINE l == log[t][file[t]][cur[t] + 1]
  <2>1. CASE Forwarded(l)
    <3>1. Tell(t, l) /\ log' = log
      BY <1>3, <2>1 DEF ReadLine, files
    <3>2. CASE t = s
      <4>1. work'[s] = l
        BY <3>1, <3>2 DEF Tell
      <4>2. l \in Lines /\ l \in ToSet(log[s][file[s]])
        <5>1. log[s][file[s]] \in Seq(Lines) /\ cur[s] \in Nat /\ cur[s] < Len(log[s][file[s]])
          BY <1>3, <3>2 DEF ReadLine
        <5>2. cur[s] + 1 \in DOMAIN log[s][file[s]]
          BY <5>1
        <5>. QED  BY <3>2, <5>1, <5>2 DEF ToSet
      <4>3. Own(s, l)
        BY <2>1, <4>2 DEF Own, Forwarded, LocalLines, InLog
      <4>. QED  BY <3>1, <4>1, <4>3 DEF Own, InLog
    <3>3. CASE t # s
      BY <1>0, <3>1, <3>3 DEF Tell, Go
    <3>. QED  BY <3>2, <3>3
  <2>2. CASE ~Forwarded(l)
    BY <1>0, <1>3, <2>2 DEF ReadLine
  <2>. QED  BY <2>1, <2>2
<1>4. ASSUME NEW t \in Clusters, EndOfFile(t) PROVE Own(s, work[s])'
  <2>1. t # s
    BY <1>4 DEF EndOfFile, Go, NextPlace
  <2>. QED  BY <1>0, <1>4, <2>1 DEF EndOfFile, Go
<1>5. ASSUME NEW t \in Clusters, NEW p \in Posts, ReadPost(t, p) PROVE Own(s, work[s])'
  <2>1. CASE t = s
    <3>1. work'[s] = p /\ HomeOf[p.a] = s
      BY <1>5, <2>1 DEF ReadPost, Tell, LocalPosts
    <3>. QED  BY <3>1 DEF Own
  <2>2. CASE t # s
    BY <1>0, <1>5, <2>2 DEF ReadPost, Tell, Go
  <2>. QED  BY <2>1, <2>2
<1>6. ASSUME NEW t \in Clusters, NEW u \in Clusters, CallPeer(t, u) PROVE Own(s, work[s])'
  <2>1. at[s] \in {"call", "waiting"} /\ work' = work
    BY <1>6 DEF CallPeer, ReaderAt, Go
  <2>. QED  BY <1>0, <2>1
<1>7. ASSUME NEW t \in Clusters, CallReturns(t) PROVE Own(s, work[s])'
  <2>1. at[s] \in {"call", "waiting"} /\ work' = work
    BY <1>7 DEF CallReturns, ReaderAt, Go
  <2>. QED  BY <1>0, <2>1
<1>8. ASSUME NEW t \in Clusters, Remember(t) PROVE Own(s, work[s])'
  <2>1. t # s
    BY <1>8 DEF Remember, Go, NextPlace
  <2>. QED  BY <1>0, <1>8, <2>1 DEF Remember, Go
<1>9. CASE UNCHANGED <<at, work>>
  BY <1>0, <1>9
<1>. QED
  BY <1>1, <1>2, <1>3, <1>4, <1>5, <1>6, <1>7, <1>8, <1>9
     DEF Next, ServersLog, ServersPost, connectSyncs, SwitchToSlave, Start, ReadStep,
         Handle, WriteSlave, WriteMaster, LoadCount, StoreCount, new_post, vars, reader

LEMMA CallsPeersStep == TypeOK /\ CallsPeers /\ [Next]_vars => CallsPeers'
<1> SUFFICES ASSUME TypeOK, CallsPeers, [Next]_vars, NEW s \in Clusters
             PROVE  todo'[s] \subseteq Peers(s)
  BY DEF CallsPeers, Peers
<1> USE DEF TypeOK
<1>0. todo[s] \subseteq Peers(s)
  BY DEF CallsPeers
<1>1. ASSUME NEW t \in Clusters, Kill(t) PROVE todo'[s] \subseteq Peers(s)
  BY <1>0, <1>1 DEF Kill
<1>2. ASSUME NEW t \in Clusters, NEW l, Tell(t, l) PROVE todo'[s] \subseteq Peers(s)
  BY <1>0, <1>2 DEF Tell
<1>3. ASSUME NEW t \in Clusters, NEW u \in Clusters, CallPeer(t, u)
      PROVE  todo'[s] \subseteq Peers(s)
  BY <1>0, <1>3 DEF CallPeer
<1>4. CASE UNCHANGED todo
  BY <1>0, <1>4
<1>. QED
  BY <1>1, <1>2, <1>3, <1>4
     DEF Next, ServersLog, ServersPost, connectSyncs, SwitchToSlave, Start, ReadStep, Wake,
         ReadLine, EndOfFile, ReadPost, CallReturns, Remember, Handle, WriteSlave,
         WriteMaster, LoadCount, StoreCount, new_post, vars, reader

LEMMA HandlersTellStep == Strong /\ [Next]_vars => HandlersTell'
<1> SUFFICES ASSUME Strong, [Next]_vars, NEW h \in handlers'
             PROVE  /\ Own(h.from, h.line)'
                    /\ h.from # h.to
                    /\ h.step # "slave" =>
                           /\ h.line.kind # "post"
                           /\ h.line.kind = "follow" => HomeOf[h.line.b] = h.to
  BY DEF HandlersTell, Own, InLog
<1> DEFINE Goal == /\ Own(h.from, h.line)'
                   /\ h.from # h.to
                   /\ h.step # "slave" =>
                          /\ h.line.kind # "post"
                          /\ h.line.kind = "follow" => HomeOf[h.line.b] = h.to
<1>h. \A g \in handlers : g.from \in Clusters /\ g.to \in Clusters
  BY DEF Strong, TypeOK, Handlers
<1>k. \A g \in handlers : Own(g.from, g.line)'
  BY <1>h, OwnKeeps DEF Strong, HandlersTell
<1>0. h \in handlers => Goal
  BY <1>k DEF Strong, HandlersTell
<1>1. ASSUME NEW t \in Clusters, NEW u \in Clusters, CallPeer(t, u) PROVE Goal
  <2>1. CASE h = [from |-> t, run |-> starts[t], to |-> u, line |-> work[t],
                  step |-> "slave", register |-> 0]
    <3>1. Own(t, work[t])
      BY <1>1 DEF CallPeer, ReaderAt, Strong, ReaderTells
    <3>2. Own(t, work[t])'
      BY <1>1, <3>1 DEF CallPeer, files, Own, InLog
    <3>3. t # u /\ work' = work
      <4>1. todo[t] \subseteq Peers(t)
        BY DEF Strong, CallsPeers
      <4>. QED  BY <1>1, <4>1 DEF CallPeer, Peers
    <3>. QED  BY <2>1, <3>2, <3>3 DEF Own, InLog
  <2>2. CASE h \in handlers
    BY <1>0, <2>2
  <2>. QED  BY <1>1, <2>1, <2>2 DEF CallPeer
<1>2. ASSUME NEW g \in handlers, NEW step, NEW n, Steps(g, step, n),
             /\ g.line.kind # "post"
             /\ g.line.kind = "follow" => HomeOf[g.line.b] = g.to
      PROVE  Goal
  <2>1. CASE h = [g EXCEPT !.step = step, !.register = n]
    <3>1. g \in Handlers
      BY DEF Strong, TypeOK
    <3>2. h.from = g.from /\ h.to = g.to /\ h.line = g.line
      BY <2>1, <3>1 DEF Handlers
    <3>. QED  BY <1>2, <1>k, <3>2 DEF Strong, HandlersTell
  <2>. QED  BY <1>0, <1>2, <2>1 DEF Steps
<1>3. ASSUME NEW g \in handlers, WriteSlave(g) PROVE Goal
  <2>1. CASE Accepts(g)
    <3>1. g.line.kind = "follow" => HomeOf[g.line.b] = g.to
      BY <2>1, <1>h DEF Accepts, Strong, Remembers
    <3>. QED  BY <1>2, <1>3, <2>1, <3>1 DEF WriteSlave
  <2>2. CASE ~Accepts(g)
    BY <1>0, <1>3, <2>2 DEF WriteSlave, Ends
  <2>. QED  BY <2>1, <2>2
<1>4. ASSUME NEW g \in handlers, WriteMaster(g) PROVE Goal
  BY <1>2, <1>4 DEF WriteMaster, Strong, HandlersTell
<1>5. ASSUME NEW g \in handlers, LoadCount(g) PROVE Goal
  BY <1>2, <1>5 DEF LoadCount, Strong, HandlersTell
<1>6. ASSUME NEW g \in handlers, StoreCount(g) \/ new_post(g) PROVE Goal
  BY <1>0, <1>6 DEF StoreCount, new_post, Ends
<1>7. ASSUME NEW t \in Clusters, Kill(t) PROVE Goal
  BY <1>0, <1>7 DEF Kill
<1>8. CASE UNCHANGED handlers
  BY <1>0, <1>8
<1>. QED
  BY <1>1, <1>3, <1>4, <1>5, <1>6, <1>7, <1>8
     DEF Next, ServersLog, ServersPost, connectSyncs, SwitchToSlave, Start, ReadStep, Wake,
         ReadLine, EndOfFile, ReadPost, CallReturns, Remember, Handle, vars

LEMMA RemembersStep == Strong /\ [Next]_vars => Remembers'
<1> SUFFICES ASSUME Strong, [Next]_vars, NEW s \in Clusters
             PROVE  /\ \A u \in db'[s] : HomeOf[u] = s
                    /\ \A e \in following'[s] :
                           HomeOf[e[1]] = s /\ InLog(s, "master", Line("follow", e[1], e[2]))'
  BY DEF Remembers
<1> DEFINE Goal == /\ \A u \in db'[s] : HomeOf[u] = s
                   /\ \A e \in following'[s] :
                          HomeOf[e[1]] = s /\ InLog(s, "master", Line("follow", e[1], e[2]))'
<1> USE DEF Strong, TypeOK
<1>k. \A l : InLog(s, "master", l) => InLog(s, "master", l)'
  BY LogKeeps DEF Replicas
<1>0. db'[s] \subseteq db[s] /\ following'[s] \subseteq following[s] => Goal
  BY <1>k DEF Remembers
<1>1. ASSUME NEW t \in Clusters, Remember(t) PROVE Goal
  <2> DEFINE l == work[t]
  <2>1. Own(t, l) /\ HomeOf[l.a] = t
    BY <1>1, OwnHome DEF Remember, ReaderAt, ReaderTells
  <2>2. CASE t = s
    <3>1. \A u \in db'[s] : u \in db[s] \/ u = l.a
      BY <1>1, <2>2 DEF Remember
    <3>2. ASSUME NEW e \in following'[s], e \notin following[s]
          PROVE  HomeOf[e[1]] = s /\ InLog(s, "master", Line("follow", e[1], e[2]))'
      <4>1. e = <<l.a, l.b>> /\ l.kind = "follow"
        BY <1>1, <2>2, <3>2 DEF Remember
      <4>2. l \in Lines /\ InLog(s, "master", l)
        BY <2>1, <2>2, <4>1, LineFacts DEF Own
      <4>3. l = Line("follow", l.a, l.b)
        BY <4>1, <4>2 DEF Line, Lines
      <4>4. l \in ToSet(log'[s]["master"])
        BY <1>1, <4>2 DEF Remember, files, InLog
      <4>. QED  BY <2>1, <2>2, <4>1, <4>3, <4>4 DEF InLog
    <3>. QED  BY <2>1, <2>2, <3>1, <3>2, <1>k DEF Remembers
  <2>3. CASE t # s
    BY <1>0, <1>1, <2>3 DEF Remember
  <2>. QED  BY <2>2, <2>3
<1>2. ASSUME NEW t \in Clusters, Kill(t) PROVE Goal
  BY <1>0, <1>2 DEF Kill
<1>3. CASE UNCHANGED <<db, following>>
  BY <1>0, <1>3
<1>. QED
  BY <1>1, <1>2, <1>3
     DEF Next, ServersLog, ServersPost, connectSyncs, SwitchToSlave, Start, ReadStep, Wake,
         ReadLine, EndOfFile, ReadPost, CallPeer, CallReturns, Handle,
         WriteSlave, WriteMaster, LoadCount, StoreCount, new_post, vars, memory

-----------------------------------------------------------------------------
LEMMA InitStrong == Init => Strong
<1> SUFFICES ASSUME Init PROVE Strong
  OBVIOUS
<1>1. \A s \in Clusters, r \in Replicas : log[s][r] = <<>>
  BY DEF Init
<1>2. TypeOK
  <2>1. /\ log \in [Clusters -> [Replicas -> Seq(Lines)]]
        /\ posts \in [Clusters -> SUBSET Posts]
        /\ timeline \in [Clusters -> SUBSET (Users \X Posts)]
    BY DEF Init
  <2>2. /\ alive \in [Clusters -> BOOLEAN] /\ connected \in [Clusters -> BOOLEAN]
        /\ awake \in [Clusters -> BOOLEAN]
        /\ type \in [Clusters -> Replicas] /\ file \in [Clusters -> Replicas]
        /\ at \in [Clusters -> Places]
    BY DEF Init, Replicas, Places
  <2>3. starts \in [Clusters -> Nat] /\ \A s \in Clusters : starts[s] <= MaxStarts[s]
    <3>1. \A s \in Clusters : starts[s] = 1 /\ MaxStarts[s] \in Nat \ {0}
      BY SyncNetAssumption DEF Init
    <3>2. \A s \in Clusters : 1 <= MaxStarts[s]
      BY <3>1
    <3>. QED  BY <3>1, <3>2 DEF Init
  <2>4. /\ second \in [Clusters -> Nat] /\ cur \in [Clusters -> Nat]
        /\ counted \in [Clusters -> Nat]
        /\ db \in [Clusters -> SUBSET Users]
        /\ following \in [Clusters -> SUBSET (Users \X Users)]
        /\ work \in [Clusters -> Lines \cup Posts \cup {NoLine}]
        /\ todo \in [Clusters -> SUBSET Clusters]
        /\ sent \in [Clusters -> SUBSET Posts]
        /\ told \in [Clusters -> SUBSET Lines]
        /\ handlers \subseteq Handlers
        /\ failed \subseteq Clusters \X Users
        /\ lossy \in [Clusters -> BOOLEAN] /\ raced \in [Clusters -> BOOLEAN]
    BY DEF Init
  <2>. QED  BY <2>1, <2>2, <2>3, <2>4 DEF TypeOK
<1>3. StartLeft /\ LocalPosts /\ ReaderTells /\ CallsPeers /\ HandlersTell /\ Remembers
  BY DEF Init, StartLeft, LocalPosts, ReaderTells, CallsPeers, HandlersTell, Remembers
<1>4. LocalLines
  BY <1>1 DEF LocalLines, InLog, ToSet
<1>. QED  BY <1>2, <1>3, <1>4 DEF Strong

LEMMA StrongStep == Strong /\ [Next]_vars => Strong'
  BY TypeStep, StartLeftStep, LocalLinesStep, LocalPostsStep, ReaderTellsStep,
     CallsPeersStep, HandlersTellStep, RemembersStep DEF Strong

\* Every variable of the synchronizers keeps its type, whatever is killed.
THEOREM TypeCorrect == Spec => []TypeOK
<1>. QED  BY InitStrong, StrongStep, PTL DEF Spec, Strong

-----------------------------------------------------------------------------
\* What EchoesJustified says of one line.
Justified(s, l) ==
    l.kind \notin LocalKinds =>
        /\ HomeOf[l.a] # s
        /\ \E q \in Replicas : \E o \in ToSet(log[HomeOf[l.a]][q]) :
               o.kind \in LocalKinds /\ Echo(o) = l
        /\ l.kind = "SYNC::follow" => HomeOf[l.b] = s

LEMMA JustifiedKeeps ==
    ASSUME Strong, [Next]_vars, NEW s \in Clusters, NEW l \in Lines, Justified(s, l)
    PROVE  Justified(s, l)'
<1>1. HomeOf[l.a] \in Clusters
  BY SyncNetAssumption, LineFacts
<1>2. \A q \in Replicas : ToSet(log[HomeOf[l.a]][q]) \subseteq ToSet(log'[HomeOf[l.a]][q])
  BY <1>1, LogKeeps DEF Strong, InLog
<1>. QED  BY <1>2 DEF Justified

LEMMA NewJustified ==
    ASSUME Strong, NEW s \in Clusters, NEW r \in Replicas, NEW l \in Lines, NewLine(s, r, l)
    PROVE  Justified(s, l)
<1>1. CASE l \in Requests
  BY <1>1, LineFacts DEF Justified
<1>2. ASSUME NEW h \in handlers, h.to = s, l = Echo(h.line), h.line \in Lines,
             h.line.kind = "follow" => HomeOf[h.line.b] = s
      PROVE  Justified(s, l)
  <2>1. h.from \in Clusters /\ Own(h.from, h.line) /\ h.from # s
    BY <1>2 DEF Strong, TypeOK, Handlers, HandlersTell
  <2>2. /\ h.line.kind \in LocalKinds
        /\ h.line \in ToSet(log[h.from]["master"])
        /\ HomeOf[h.line.a] = h.from
    BY <1>2, <2>1, LineFacts, OwnHome DEF Own, InLog
  <2>3. l.a = h.line.a /\ l.b = h.line.b
    BY <1>2, LineFacts
  <2>4. l.kind = "SYNC::follow" => h.line.kind = "follow"
    BY <1>2, <2>2 DEF Echo, Lines, LocalKinds
  <2>. QED  BY <1>2, <2>1, <2>2, <2>3, <2>4 DEF Justified, Replicas
<1>. QED  BY <1>1, <1>2 DEF NewLine

LEMMA EchoesStep == Strong /\ EchoesJustified /\ [Next]_vars => EchoesJustified'
<1> SUFFICES ASSUME Strong, EchoesJustified, [Next]_vars PROVE EchoesJustified'
  OBVIOUS
<1>1. SUFFICES ASSUME NEW s \in Clusters, NEW r \in Replicas, NEW k \in DOMAIN log'[s][r],
                      NEW x, x = log'[s][r][k]
               PROVE  Justified(s, x)'
  BY DEF EchoesJustified, Justified
<1>2. log[s][r] \in Seq(Lines)
  BY DEF Strong, TypeOK
<1>3. \A j \in DOMAIN log[s][r] : log[s][r][j] \in Lines /\ Justified(s, log[s][r][j])
  BY <1>2 DEF EchoesJustified, Justified
<1>4. CASE log'[s][r] = log[s][r]
  <2>1. x \in Lines /\ Justified(s, x)
    BY <1>1, <1>3, <1>4
  <2>. QED  BY <2>1, JustifiedKeeps
<1>5. ASSUME NEW l \in Lines, NewLine(s, r, l) PROVE Justified(s, x)'
  <2>1. Justified(s, l)
    BY <1>5, NewJustified
  <2>2. k \in DOMAIN log[s][r] \/ k = Len(log[s][r]) + 1
    BY <1>2, <1>5, AppendLine DEF NewLine
  <2>3. (k \in DOMAIN log[s][r] /\ x = log[s][r][k]) \/ x = l
    BY <1>1, <1>2, <1>5, <2>2, AppendLine DEF NewLine
  <2>4. x \in Lines /\ Justified(s, x)
    BY <1>3, <2>1, <2>3
  <2>. QED  BY <2>4, JustifiedKeeps
<1>. QED  BY <1>4, <1>5, LogGrows DEF Strong

\* Lines of peers are never invented, never passed on, and follows end at users
\* of the cluster, whatever is killed, lost or counted twice.
THEOREM EchoesAreJustified == Spec => []EchoesJustified
<1> DEFINE Inv == Strong /\ EchoesJustified
<1>1. Init => Inv
  <2>1. Init => EchoesJustified
    BY DEF Init, EchoesJustified
  <2>. QED  BY <2>1, InitStrong
<1>2. Inv /\ [Next]_vars => Inv'
  BY StrongStep, EchoesStep
<1>. QED  BY <1>1, <1>2, PTL DEF Spec

-----------------------------------------------------------------------------
\* new_post writes only timelines of users who asked to follow the author, and
\* no post of its own cluster, whatever the synchronizer forgot or heard twice.
THEOREM PostsGoToFollowers == Spec => []PostsToFollowers
<1> DEFINE Inv == Strong /\ PostsToFollowers
<1>1. Init => Inv
  <2>1. Init => PostsToFollowers
    BY DEF Init, PostsToFollowers
  <2>. QED  BY <2>1, InitStrong
<1>2. Inv /\ [Next]_vars => Inv'
  <2> SUFFICES ASSUME Strong, PostsToFollowers, [Next]_vars PROVE PostsToFollowers'
    BY StrongStep
  <2>1. SUFFICES ASSUME NEW s \in Clusters, NEW e \in timeline'[s]
                 PROVE  /\ HomeOf[e[1]] = s /\ HomeOf[e[2].a] # s
                        /\ InLog(s, "master", Line("follow", e[1], e[2].a))'
    BY DEF PostsToFollowers
  <2>2. \A l : InLog(s, "master", l) => InLog(s, "master", l)'
    BY LogKeeps DEF Strong, Replicas
  <2>3. e \in timeline[s] => /\ HomeOf[e[1]] = s /\ HomeOf[e[2].a] # s
                             /\ InLog(s, "master", Line("follow", e[1], e[2].a))'
    BY <2>2 DEF PostsToFollowers
  <2>4. ASSUME NEW h \in handlers, new_post(h), e \notin timeline[s]
        PROVE  /\ HomeOf[e[1]] = s /\ HomeOf[e[2].a] # s
               /\ InLog(s, "master", Line("follow", e[1], e[2].a))'
    <3>1. h \in Handlers
      BY DEF Strong, TypeOK
    <3>2. h.to = s /\ e \in Followers(s, h.line.a) \X {h.line}
      BY <2>4, <3>1 DEF new_post, Strong, TypeOK, Handlers
    <3>3. e[2] = h.line /\ <<e[1], h.line.a>> \in following[s]
      BY <3>2 DEF Followers
    <3>4. HomeOf[e[1]] = s /\ InLog(s, "master", Line("follow", e[1], h.line.a))
      BY <3>3 DEF Strong, Remembers
    <3>5. HomeOf[h.line.a] = h.from /\ h.from # s
      BY <3>1, <3>2, OwnHome DEF Strong, HandlersTell, Handlers
    <3>. QED  BY <3>3, <3>4, <3>5, <2>2
  <2>5. CASE timeline' = timeline
    BY <2>3, <2>5
  <2>. QED
    BY <2>3, <2>4, <2>5
       DEF Next, ServersLog, ServersPost, connectSyncs, SwitchToSlave, Kill, Start, ReadStep,
           Wake, ReadLine, EndOfFile, ReadPost, CallPeer, CallReturns, Remember, Handle,
           WriteSlave, WriteMaster, LoadCount, StoreCount, vars, files
<1>. QED  BY <1>1, <1>2, PTL DEF Spec

-----------------------------------------------------------------------------
(* Lost lines                                                               *)

\* The positions up to m of a log that hold no line told.
Skipped(lg, lines, m) == {k \in 1..m : ~(k \in DOMAIN lg /\ lg[k] \in lines)}

\* A log that keeps what it had.
Extends(new, old) == DOMAIN old \subseteq DOMAIN new /\ \A k \in DOMAIN old : new[k] = old[k]

LEMMA SkippedFinite ==
    ASSUME NEW lg, NEW lines, NEW m \in Nat
    PROVE  IsFiniteSet(Skipped(lg, lines, m)) /\ Cardinality(Skipped(lg, lines, m)) \in Nat
<1>1. IsFiniteSet(1..m)
  BY FS_Interval
<1>2. Skipped(lg, lines, m) \subseteq 1..m
  BY DEF Skipped
<1>. QED  BY <1>1, <1>2, FS_Subset, FS_CardinalityType

\* Positions further on add at most themselves.
LEMMA SkippedOn ==
    ASSUME NEW lg, NEW lines, NEW m \in Nat, NEW n \in Nat, m <= n
    PROVE  Cardinality(Skipped(lg, lines, n)) <= Cardinality(Skipped(lg, lines, m)) + n - m
<1> DEFINE A == Skipped(lg, lines, m)
           B == (m + 1)..n
<1>1. IsFiniteSet(B) /\ Cardinality(B) = n - m
  <2>1. m + 1 \in Int /\ n \in Int
    OBVIOUS
  <2>2. IsFiniteSet(B) /\ Cardinality(B) = IF m + 1 > n THEN 0 ELSE n - (m + 1) + 1
    BY <2>1, FS_Interval
  <2>. QED  BY <2>2
<1>2. IsFiniteSet(A) /\ Cardinality(A) \in Nat
  BY SkippedFinite
<1>3. /\ IsFiniteSet(A \cup B)
      /\ Cardinality(A \cup B) = Cardinality(A) + Cardinality(B) - Cardinality(A \cap B)
  BY <1>1, <1>2, FS_Union
<1>4. Cardinality(A \cap B) \in Nat
  BY <1>2, FS_Intersection, FS_CardinalityType
<1>5. Skipped(lg, lines, n) \subseteq A \cup B
  BY DEF Skipped
<1>6. Cardinality(Skipped(lg, lines, n)) <= Cardinality(A \cup B)
  BY <1>3, <1>5, FS_Subset
<1>7. Cardinality(Skipped(lg, lines, n)) \in Nat
  BY SkippedFinite
<1> HIDE DEF A, B
<1>8. QED  BY <1>1, <1>2, <1>3, <1>4, <1>6, <1>7 DEF A

\* Lines told and lines appended only lessen what is skipped.
LEMMA SkippedLess ==
    ASSUME NEW old, NEW new, NEW was, NEW now, NEW m \in Nat,
           Extends(new, old), was \subseteq now
    PROVE  Cardinality(Skipped(new, now, m)) <= Cardinality(Skipped(old, was, m))
<1>1. Skipped(new, now, m) \subseteq Skipped(old, was, m)
  BY DEF Skipped, Extends
<1>. QED  BY <1>1, SkippedFinite, FS_Subset

LEMMA LogExtends ==
    ASSUME Strong, [Next]_vars, NEW s \in Clusters, NEW r \in Replicas
    PROVE  Extends(log'[s][r], log[s][r])
<1>1. CASE log'[s][r] = log[s][r]
  BY <1>1 DEF Extends
<1>2. ASSUME NEW l \in Lines, NewLine(s, r, l) PROVE Extends(log'[s][r], log[s][r])
  <2>1. log[s][r] \in Seq(Lines) /\ log'[s][r] = Append(log[s][r], l)
    BY <1>2 DEF Strong, TypeOK, NewLine
  <2>. QED  BY <2>1, AppendLine DEF Extends
<1>. QED  BY <1>1, <1>2, LogGrows DEF Strong

\* Handlers that have loaded the count and not yet stored it.
Storing(s) == {h \in handlers : h.to = s /\ h.step = "store"}

\* A cluster that is not told to switch is read from the master's log.
OnMaster == \A s \in Clusters \ MaySwitch : type[s] = "master" /\ file[s] = "master"

\* How far the count can be ahead of what was told.
CountBound(s) ==
    LET gap == Cardinality(Skipped(log[s]["master"], told[s], cur[s])) IN
    \/ raced[s]
    \/ /\ \A g, h \in Storing(s) : g = h
       /\ \A h \in Storing(s) : h.register <= second[s]
       /\ gap <= counted[s]
       /\ gap + second[s] - cur[s] <= counted[s]

CountBounded == \A s \in Clusters \ MaySwitch : CountBound(s)

LEMMA OnMasterStep == TypeOK /\ OnMaster /\ [Next]_vars => OnMaster'
<1> SUFFICES ASSUME TypeOK, OnMaster, [Next]_vars, NEW s \in Clusters, s \notin MaySwitch
             PROVE  type'[s] = "master" /\ file'[s] = "master"
  BY DEF OnMaster
<1> USE DEF TypeOK
<1>0. type[s] = "master" /\ file[s] = "master"
  BY DEF OnMaster
<1>1. ASSUME NEW t \in Clusters, SwitchToSlave(t) \/ Kill(t) \/ Wake(t)
      PROVE  type'[s] = "master" /\ file'[s] = "master"
  BY <1>0, <1>1 DEF SwitchToSlave, Kill, Wake, reader, process
<1>2. CASE UNCHANGED <<type, file>>
  BY <1>0, <1>2
<1>. QED
  BY <1>1, <1>2
     DEF Next, ServersLog, ServersPost, connectSyncs, Start, ReadStep, ReadLine, EndOfFile,
         ReadPost, CallPeer, CallReturns, Remember, Handle, WriteSlave, WriteMaster,
         LoadCount, StoreCount, new_post, vars, process, reader

\* A step that leaves the counts alone and starts no store.
LEMMA CountStays ==
    ASSUME Strong, [Next]_vars, NEW s \in Clusters, CountBound(s),
           second'[s] = second[s], cur'[s] = cur[s], counted'[s] = counted[s],
           raced'[s] = raced[s], told[s] \subseteq told'[s], Storing(s)' \subseteq Storing(s)
    PROVE  CountBound(s)'
<1> DEFINE gap == Cardinality(Skipped(log[s]["master"], told[s], cur[s]))
           gapNext == Cardinality(Skipped(log'[s]["master"], told'[s], cur'[s]))
<1>1. second[s] \in Nat /\ cur[s] \in Nat /\ counted[s] \in Nat
  BY DEF Strong, TypeOK
<1>2. gap \in Nat /\ gapNext \in Nat
  BY <1>1, SkippedFinite
<1>3. gapNext <= gap
  BY <1>1, LogExtends, SkippedLess DEF Replicas
<1>4. raced[s] \/ /\ \A g, h \in Storing(s) : g = h
                  /\ \A h \in Storing(s) : h.register <= second[s]
                  /\ gap <= counted[s]
                  /\ gap + second[s] - cur[s] <= counted[s]
  BY DEF CountBound
<1>5. raced'[s] \/ /\ \A g, h \in Storing(s)' : g = h
                   /\ \A h \in Storing(s)' : h.register <= second'[s]
                   /\ gapNext <= counted'[s]
                   /\ gapNext + second'[s] - cur'[s] <= counted'[s]
  <2> HIDE DEF gap, gapNext
  <2>. QED  BY <1>1, <1>2, <1>3, <1>4
<1>. QED  BY <1>5 DEF CountBound

LEMMA CountWakes ==
    ASSUME Strong, OnMaster, NEW s \in Clusters, s \notin MaySwitch, CountBound(s), Wake(s)
    PROVE  CountBound(s)'
<1> DEFINE gap(m) == Cardinality(Skipped(log[s]["master"], told[s], m))
<1>1. second[s] \in Nat /\ cur[s] \in Nat /\ counted[s] \in Nat
  BY DEF Strong, TypeOK
<1>2. gap(cur[s]) \in Nat /\ gap(second[s]) \in Nat
  BY <1>1, SkippedFinite
<1>3. second[s] >= cur[s] => gap(second[s]) <= gap(cur[s]) + second[s] - cur[s]
  BY <1>1, SkippedOn
<1>4. second[s] < cur[s] => gap(second[s]) <= gap(cur[s])
  <2>1. ASSUME second[s] < cur[s]
        PROVE  Skipped(log[s]["master"], told[s], second[s])
                   \subseteq Skipped(log[s]["master"], told[s], cur[s])
    BY <1>1, <2>1 DEF Skipped
  <2>. QED  BY <1>1, <2>1, SkippedFinite, FS_Subset
<1>5. /\ log' = log /\ told' = told /\ raced' = raced /\ counted' = counted
      /\ second' = second /\ handlers' = handlers /\ cur'[s] = second[s]
  BY DEF Wake, files, process, memory, Strong, TypeOK
<1>6. raced[s] \/ /\ \A g, h \in Storing(s) : g = h
                  /\ \A h \in Storing(s) : h.register <= second[s]
                  /\ gap(cur[s]) <= counted[s]
                  /\ gap(cur[s]) + second[s] - cur[s] <= counted[s]
  BY DEF CountBound
<1>7. raced[s] \/ gap(second[s]) <= counted[s]
  <2> HIDE DEF gap
  <2>. QED  BY <1>1, <1>2, <1>3, <1>4, <1>6
<1>8. Storing(s)' = Storing(s)
  BY <1>5 DEF Storing
<1>9. raced'[s] \/ /\ \A g, h \in Storing(s)' : g = h
                   /\ \A h \in Storing(s)' : h.register <= second'[s]
                   /\ gap(second[s]) <= counted'[s]
                   /\ gap(second[s]) + second'[s] - second[s] <= counted'[s]
  <2> HIDE DEF gap
  <2>. QED  BY <1>1, <1>2, <1>5, <1>6, <1>7, <1>8
<1>. QED  BY <1>5, <1>9 DEF CountBound

\* A line read is counted and told.
LEMMA CountReads ==
    ASSUME Strong, OnMaster, NEW s \in Clusters, s \notin MaySwitch, CountBound(s), ReadLine(s)
    PROVE  CountBound(s)'
<1> DEFINE gap == Cardinality(Skipped(log[s]["master"], told[s], cur[s]))
           gapNext == Cardinality(Skipped(log'[s]["master"], told'[s], cur'[s]))
<1>1. /\ second[s] \in Nat /\ cur[s] \in Nat /\ counted[s] \in Nat
      /\ log[s]["master"] \in Seq(Lines) /\ told[s] \subseteq Lines
  BY DEF Strong, TypeOK, Replicas
<1>2. file[s] = "master"
  BY DEF OnMaster
<1>3. /\ log' = log /\ raced' = raced /\ counted' = counted /\ handlers' = handlers
      /\ second'[s] = second[s] + 1 /\ cur'[s] = cur[s] + 1
      /\ told'[s] = told[s] \cup {log[s]["master"][cur[s] + 1]}
      /\ cur[s] < Len(log[s]["master"])
  BY <1>2 DEF ReadLine, Counts, files, process, Strong, TypeOK
<1>4. gapNext <= gap /\ gap \in Nat /\ gapNext \in Nat
  <2>1. Skipped(log'[s]["master"], told'[s], cur'[s])
            \subseteq Skipped(log[s]["master"], told[s], cur[s])
    BY <1>1, <1>3 DEF Skipped
  <2>2. cur'[s] \in Nat
    BY <1>1, <1>3
  <2>. QED  BY <1>1, <2>1, <2>2, SkippedFinite, FS_Subset
<1>5. raced[s] \/ /\ \A g, h \in Storing(s) : g = h
                  /\ \A h \in Storing(s) : h.register <= second[s]
                  /\ gap <= counted[s]
                  /\ gap + second[s] - cur[s] <= counted[s]
  BY DEF CountBound
<1>6. Storing(s)' = Storing(s) /\ \A h \in Storing(s) : h.register \in Nat
  BY <1>3 DEF Storing, Strong, TypeOK, Handlers
<1>7. raced'[s] \/ /\ \A g, h \in Storing(s)' : g = h
                   /\ \A h \in Storing(s)' : h.register <= second'[s]
                   /\ gapNext <= counted'[s]
                   /\ gapNext + second'[s] - cur'[s] <= counted'[s]
  <2> HIDE DEF gap, gapNext
  <2>. QED  BY <1>1, <1>3, <1>4, <1>5, <1>6
<1>. QED  BY <1>7 DEF CountBound

LEMMA CountLoads ==
    ASSUME Strong, NEW h \in handlers, CountBound(h.to), LoadCount(h)
    PROVE  CountBound(h.to)'
<1> DEFINE s == h.to
           gap == Cardinality(Skipped(log[s]["master"], told[s], cur[s]))
           e == [h EXCEPT !.step = "store", !.register = second[s]]
<1>1. h \in Handlers /\ s \in Clusters /\ second[s] \in Nat
  BY DEF Strong, TypeOK, Handlers
<1>2. /\ log' = log /\ told' = told /\ cur' = cur /\ second' = second /\ counted' = counted
      /\ handlers' = (handlers \ {h}) \cup {e}
      /\ raced'[s] = (raced[s] \/ \E g \in handlers \ {h} : g.to = s /\ g.step = "store")
  BY <1>1 DEF LoadCount, Steps, files, memory, reader, Strong, TypeOK
<1>3. e.register = second[s]
  BY <1>1 DEF Handlers
<1>4. ASSUME ~raced'[s]
      PROVE  /\ ~raced[s]
             /\ \A g \in Storing(s)' : g = e
  <2>1. \A g \in handlers \ {h} : ~(g.to = s /\ g.step = "store")
    BY <1>2, <1>4
  <2>. QED  BY <1>2, <1>4, <2>1 DEF Storing
<1>5. ~raced[s] => gap <= counted[s] /\ gap + second[s] - cur[s] <= counted[s]
  BY DEF CountBound
<1>6. raced'[s] \/ /\ \A f, g \in Storing(s)' : f = g
                   /\ \A g \in Storing(s)' : g.register <= second'[s]
                   /\ gap <= counted'[s]
                   /\ gap + second'[s] - cur'[s] <= counted'[s]
  <2> HIDE DEF gap, e
  <2>. QED  BY <1>1, <1>2, <1>3, <1>4, <1>5
<1>. QED  BY <1>2, <1>6 DEF CountBound

LEMMA CountStores ==
    ASSUME Strong, NEW h \in handlers, CountBound(h.to), StoreCount(h)
    PROVE  CountBound(h.to)'
<1> DEFINE s == h.to
           gap == Cardinality(Skipped(log[s]["master"], told[s], cur[s]))
<1>1. /\ h.register \in Nat /\ s \in Clusters
      /\ second[s] \in Nat /\ cur[s] \in Nat /\ counted[s] \in Nat
  BY DEF Strong, TypeOK, Handlers
<1>2. gap \in Nat
  BY <1>1, SkippedFinite
<1>3. /\ log' = log /\ told' = told /\ cur' = cur /\ raced' = raced
      /\ second'[s] = h.register + 1 /\ counted'[s] = counted[s] + 1
      /\ handlers' = handlers \ {h} /\ h \in Storing(s)
  BY <1>1 DEF StoreCount, Ends, Storing, files, reader, Strong, TypeOK
<1>4. raced[s] \/ /\ \A f, g \in Storing(s) : f = g
                  /\ \A g \in Storing(s) : g.register <= second[s]
                  /\ gap <= counted[s]
                  /\ gap + second[s] - cur[s] <= counted[s]
  BY DEF CountBound
<1>5. ~raced[s] => Storing(s)' = {}
  BY <1>3, <1>4 DEF Storing
<1>6. raced'[s] \/ /\ \A f, g \in Storing(s)' : f = g
                   /\ \A g \in Storing(s)' : g.register <= second'[s]
                   /\ gap <= counted'[s]
                   /\ gap + second'[s] - cur'[s] <= counted'[s]
  <2> HIDE DEF gap
  <2>. QED  BY <1>1, <1>2, <1>3, <1>4, <1>5
<1>. QED  BY <1>3, <1>6 DEF CountBound

LEMMA CountKilled ==
    ASSUME Strong, NEW s \in Clusters, Kill(s)
    PROVE  CountBound(s)'
<1>1. /\ second'[s] = 0 /\ cur'[s] = 0 /\ counted'[s] = 0
      /\ \A h \in handlers' : h.to # s
  BY DEF Kill, Strong, TypeOK
<1>2. Storing(s)' = {}
  BY <1>1 DEF Storing
<1>3. Skipped(log'[s]["master"], told'[s], cur'[s]) = {}
  BY <1>1 DEF Skipped
<1>4. Cardinality(Skipped(log'[s]["master"], told'[s], cur'[s])) = 0
  BY <1>3, FS_EmptySet
<1>. QED  BY <1>1, <1>2, <1>4 DEF CountBound

LEMMA CountStep == Strong /\ OnMaster /\ CountBounded /\ [Next]_vars => CountBounded'
<1> SUFFICES ASSUME Strong, OnMaster, CountBounded, [Next]_vars,
                    NEW s \in Clusters, s \notin MaySwitch
             PROVE  CountBound(s)'
  BY DEF CountBounded, CountBound, Storing
<1>0. CountBound(s)
  BY DEF CountBounded
<1>t. /\ second \in [Clusters -> Nat] /\ cur \in [Clusters -> Nat]
      /\ counted \in [Clusters -> Nat] /\ raced \in [Clusters -> BOOLEAN]
      /\ told \in [Clusters -> SUBSET Lines]
      /\ \A h \in handlers : h \in Handlers
  BY DEF Strong, TypeOK
<1>1. ASSUME NEW t \in Clusters, Kill(t) PROVE CountBound(s)'
  <2>1. CASE t = s
    BY <1>1, <2>1, CountKilled
  <2>2. CASE t # s
    <3>1. /\ second'[s] = second[s] /\ cur'[s] = cur[s] /\ counted'[s] = counted[s]
          /\ raced'[s] = raced[s] /\ told'[s] = told[s] /\ handlers' \subseteq handlers
      BY <1>1, <1>t, <2>2 DEF Kill
    <3>. QED  BY <1>0, <3>1, CountStays DEF Storing
  <2>. QED  BY <2>1, <2>2
<1>2. ASSUME NEW t \in Clusters, Wake(t) PROVE CountBound(s)'
  <2>1. CASE t = s
    BY <1>0, <1>2, <2>1, CountWakes
  <2>2. CASE t # s
    <3>1. /\ second' = second /\ cur'[s] = cur[s] /\ counted' = counted
          /\ raced' = raced /\ told' = told /\ handlers' = handlers
      BY <1>2, <1>t, <2>2 DEF Wake, memory
    <3>. QED  BY <1>0, <3>1, CountStays DEF Storing
  <2>. QED  BY <2>1, <2>2
<1>3. ASSUME NEW t \in Clusters, ReadLine(t) PROVE CountBound(s)'
  <2>1. CASE t = s
    BY <1>0, <1>3, <2>1, CountReads
  <2>2. CASE t # s
    <3>1. /\ second'[s] = second[s] /\ cur'[s] = cur[s] /\ counted' = counted
          /\ raced' = raced /\ told'[s] = told[s] /\ handlers' = handlers
      BY <1>3, <1>t, <2>2 DEF ReadLine, Counts
    <3>. QED  BY <1>0, <3>1, CountStays DEF Storing
  <2>. QED  BY <2>1, <2>2
<1>4. ASSUME NEW t \in Clusters, NEW u \in Clusters, CallPeer(t, u) PROVE CountBound(s)'
  <2>1. /\ second' = second /\ cur' = cur /\ counted' = counted
        /\ raced' = raced /\ told' = told
    BY <1>4 DEF CallPeer, memory
  <2>2. \A h \in handlers' : h \in handlers \/ h.step = "slave"
    BY <1>4 DEF CallPeer
  <2>. QED  BY <1>0, <2>1, <2>2, CountStays DEF Storing
<1>5. ASSUME NEW h \in handlers, WriteSlave(h) \/ WriteMaster(h) \/ new_post(h)
      PROVE  CountBound(s)'
  <2>1. /\ second' = second /\ cur' = cur /\ counted' = counted
        /\ raced' = raced /\ told' = told
    BY <1>5 DEF WriteSlave, WriteMaster, new_post, memory, reader, history
  <2>2. \A g \in handlers' : g \in handlers \/ g.step \in {"master", "load"}
    <3>1. \A step : [h EXCEPT !.step = step, !.register = 0].step = step
      BY <1>t DEF Handlers
    <3>2. Ends(h) \/ Steps(h, "master", 0) \/ Steps(h, "load", 0)
      BY <1>5 DEF WriteSlave, WriteMaster, new_post
    <3>. QED  BY <3>1, <3>2 DEF Steps, Ends
  <2>. QED  BY <1>0, <2>1, <2>2, CountStays DEF Storing
<1>6. ASSUME NEW h \in handlers, LoadCount(h) PROVE CountBound(s)'
  <2>1. CASE h.to = s
    BY <1>0, <1>6, <2>1, CountLoads
  <2>2. CASE h.to # s
    <3>1. /\ second' = second /\ cur' = cur /\ counted' = counted
          /\ raced'[s] = raced[s] /\ told' = told
      BY <1>6, <1>t, <2>2 DEF LoadCount, memory, reader
    <3>2. \A g \in handlers' : g \in handlers \/ g.to = h.to
      BY <1>6, <1>t DEF LoadCount, Steps, Handlers
    <3>. QED  BY <1>0, <2>2, <3>1, <3>2, CountStays DEF Storing
  <2>. QED  BY <2>1, <2>2
<1>7. ASSUME NEW h \in handlers, StoreCount(h) PROVE CountBound(s)'
  <2>1. CASE h.to = s
    BY <1>0, <1>7, <2>1, CountStores
  <2>2. CASE h.to # s
    <3>1. /\ second'[s] = second[s] /\ cur' = cur /\ counted'[s] = counted[s]
          /\ raced' = raced /\ told' = told /\ handlers' \subseteq handlers
      BY <1>7, <1>t, <2>2 DEF StoreCount, Ends, reader
    <3>. QED  BY <1>0, <3>1, CountStays DEF Storing
  <2>. QED  BY <2>1, <2>2
<1>8. CASE UNCHANGED <<second, cur, counted, raced, told, handlers>>
  BY <1>0, <1>8, CountStays DEF Storing
<1>. QED
  BY <1>1, <1>2, <1>3, <1>4, <1>5, <1>6, <1>7, <1>8
     DEF Next, ServersLog, ServersPost, connectSyncs, SwitchToSlave, Start, ReadStep,
         EndOfFile, ReadPost, CallReturns, Remember, Handle, vars, memory, reader, history

LEMMA BoundedLoss == Strong /\ OnMaster /\ CountBounded => LossBounded
<1> SUFFICES ASSUME Strong, OnMaster, CountBounded, NEW s \in Clusters, s \notin MaySwitch,
                    ~raced[s]
             PROVE  Cardinality(Lost(s)) <= counted[s]
  BY DEF LossBounded
<1> DEFINE gap(m) == Cardinality(Skipped(log[s]["master"], told[s], m))
<1>1. second[s] \in Nat /\ cur[s] \in Nat /\ counted[s] \in Nat
  BY DEF Strong, TypeOK
<1>2. gap(cur[s]) \in Nat /\ gap(second[s]) \in Nat
  BY <1>1, SkippedFinite
<1>3. gap(cur[s]) <= counted[s] /\ gap(cur[s]) + second[s] - cur[s] <= counted[s]
  BY DEF CountBounded, CountBound
<1>4. Lost(s) \subseteq Skipped(log[s]["master"], told[s], second[s])
  <2>1. type[s] = "master" /\ log[s]["master"] \in Seq(Lines)
    BY DEF OnMaster, Strong, TypeOK, Replicas
  <2>. QED  BY <1>1, <2>1 DEF Lost, Skipped
<1>5. IsFiniteSet(Lost(s)) /\ Cardinality(Lost(s)) <= gap(second[s]) /\ Cardinality(Lost(s)) \in Nat
  BY <1>1, <1>4, SkippedFinite, FS_Subset, FS_CardinalityType
<1>6. gap(second[s]) <= counted[s]
  <2>1. CASE second[s] >= cur[s]
    <3>1. gap(second[s]) <= gap(cur[s]) + second[s] - cur[s]
      BY <1>1, <2>1, SkippedOn
    <3> HIDE DEF gap
    <3>. QED  BY <1>1, <1>2, <1>3, <3>1
  <2>2. CASE second[s] < cur[s]
    <3>1. Skipped(log[s]["master"], told[s], second[s])
              \subseteq Skipped(log[s]["master"], told[s], cur[s])
      BY <1>1, <2>2 DEF Skipped
    <3>2. gap(second[s]) <= gap(cur[s])
      BY <1>1, <3>1, SkippedFinite, FS_Subset
    <3> HIDE DEF gap
    <3>. QED  BY <1>1, <1>2, <1>3, <3>2
  <2>. QED  BY <1>1, <2>1, <2>2
<1> HIDE DEF gap
<1>. QED  BY <1>1, <1>2, <1>5, <1>6

\* A handler's increment costs one line of the own cluster at most, for any number
\* of clusters, users and starts, unless two handlers increment at once.
THEOREM LossIsBounded == Spec => []LossBounded
<1> DEFINE Inv == Strong /\ OnMaster /\ CountBounded
<1>1. Init => Inv
  <2> SUFFICES ASSUME Init PROVE OnMaster /\ CountBounded
    BY InitStrong
  <2>1. OnMaster
    BY DEF Init, OnMaster
  <2>2. ASSUME NEW s \in Clusters PROVE CountBound(s)
    <3>1. second[s] = 0 /\ cur[s] = 0 /\ counted[s] = 0 /\ Storing(s) = {}
      BY DEF Init, Storing
    <3>2. Skipped(log[s]["master"], told[s], cur[s]) = {}
      BY <3>1 DEF Skipped
    <3>3. Cardinality(Skipped(log[s]["master"], told[s], cur[s])) = 0
      BY <3>2, FS_EmptySet
    <3>. QED  BY <3>1, <3>3 DEF CountBound
  <2>. QED  BY <2>1, <2>2 DEF CountBounded
<1>2. Inv /\ [Next]_vars => Inv'
  BY StrongStep, OnMasterStep, CountStep DEF Strong
<1>3. Inv => LossBounded
  BY BoundedLoss
<1>. QED  BY <1>1, <1>2, <1>3, PTL DEF Spec

-----------------------------------------------------------------------------
(* The follower comes before the follow                                     *)

NewUser(u)  == Line("newuser", u, u)
SyncUser(u) == Line("SYNC::newuser", u, u)

\* Cluster t has entered u in both logs, or a call about him failed there.
Done(t, u) == (\A r \in Replicas : InLog(t, r, SyncUser(u))) \/ <<t, u>> \in failed

\* The reader is in its pass over a log.
Passing(s) == at[s] = "log" \/ (at[s] \in {"call", "waiting"} /\ work[s].kind # "post")

\* Local lines stand in both logs, and the follower before his follow.
BothLogs ==
    \A s \in Clusters, q \in Replicas, r \in Replicas : \A l \in Lines :
        l.kind \in LocalKinds /\ InLog(s, q, l) => l \in Requests /\ InLog(s, r, l)

Ordered(lg, k) ==
    lg[k].kind = "follow" => \E j \in 1..(k - 1) : lg[j] = NewUser(lg[k].a)

FollowOrdered ==
    \A s \in Clusters, r \in Replicas : \A k \in DOMAIN log[s][r] : Ordered(log[s][r], k)

\* What a pass has been over it has told, now or before.
ToldUpTo(lg, lines, n) == \A k \in 1..n : Forwarded(lg[k]) => lg[k] \in lines

PassTold ==
    \A s \in Clusters : Passing(s) =>
        /\ cur[s] <= Len(log[s][file[s]])
        /\ ~lossy[s] => ToldUpTo(log[s][file[s]], told[s], cur[s])

\* A call runs for the reader only while it waits; one that is down has told
\* nothing.
OursIdle == \A s \in Clusters : alive[s] /\ at[s] # "waiting" => Ours(s) = {}
RunsOver == \A h \in handlers : h.run <= starts[h.from]
DownSilent == \A s \in Clusters : ~alive[s] => told[s] = {} /\ at[s] = "asleep"

\* A user told to a peer is done with there, or to be called yet, or in a call.
Writing(s, t, l) ==
    \E h \in handlers : /\ h.from = s /\ h.run = starts[s] /\ h.to = t /\ h.line = l
                        /\ h.step \in {"slave", "master"}

Arriving(s, t, u) ==
    \/ Done(t, u)
    \/ at[s] \in {"call", "waiting"} /\ work[s] = NewUser(u) /\ t \in todo[s]
    \/ Writing(s, t, NewUser(u))

ToldArrive ==
    \A s \in Clusters : \A t \in Peers(s) : \A u \in Users :
        NewUser(u) \in told[s] => Arriving(s, t, u)

\* A handler of a user has written the slave's log before the master's.
SlaveFirst ==
    \A h \in handlers :
        h.step = "master" /\ h.line.kind = "newuser" => InLog(h.to, "slave", SyncUser(h.line.a))

\* So who follows is done with before his follow is told.
FollowTold ==
    \A s \in Clusters : at[s] \in {"call", "waiting"} /\ work[s].kind = "follow" =>
        lossy[s] \/ \A t \in Peers(s) : Done(t, work[s].a)

FollowHandled ==
    \A h \in handlers : h.line.kind = "follow" => lossy[h.from] \/ Done(h.to, h.line.a)

EnterInv ==
    /\ Strong /\ EchoesJustified /\ BothLogs /\ FollowOrdered /\ PassTold
    /\ OursIdle /\ RunsOver /\ DownSilent /\ ToldArrive /\ SlaveFirst /\ FollowTold
    /\ FollowHandled

LEMMA Lasting ==
    ASSUME Strong, [Next]_vars
    PROVE  /\ failed \subseteq failed'
           /\ \A t \in Clusters : \A u : Done(t, u) => Done(t, u)'
           /\ \A s \in Clusters : lossy[s] => lossy'[s]
<1>1. failed \subseteq failed'
  BY DEF Next, ServersLog, ServersPost, connectSyncs, SwitchToSlave, Kill, Start, ReadStep,
         Wake, ReadLine, EndOfFile, ReadPost, CallPeer, CallReturns, Remember, Handle,
         WriteSlave, WriteMaster, LoadCount, StoreCount, new_post, vars, history
<1>2. \A t \in Clusters : \A u : Done(t, u) => Done(t, u)'
  <2>1. \A t \in Clusters, r \in Replicas : \A l : InLog(t, r, l) => InLog(t, r, l)'
    BY LogKeeps DEF Strong
  <2>. QED  BY <1>1, <2>1 DEF Done
<1>3. ASSUME NEW s \in Clusters, lossy[s] PROVE lossy'[s]
  <2>1. lossy \in [Clusters -> BOOLEAN]
    BY DEF Strong, TypeOK
  <2>2. ASSUME NEW t \in Clusters, Wake(t) PROVE lossy'[s]
    BY <1>3, <2>1, <2>2 DEF Wake
  <2>3. CASE UNCHANGED lossy
    BY <1>3, <2>3
  <2>. QED
    BY <2>2, <2>3
       DEF Next, ServersLog, ServersPost, connectSyncs, SwitchToSlave, Kill, Start, ReadStep,
           ReadLine, EndOfFile, ReadPost, CallPeer, CallReturns, Remember, Handle,
           WriteSlave, WriteMaster, LoadCount, StoreCount, new_post, vars, history
<1>. QED  BY <1>1, <1>2, <1>3

\* A reader moves by a step of its own, is killed or started, or stays.
Stays(s) ==
    /\ at'[s] = at[s] /\ work'[s] = work[s] /\ todo'[s] = todo[s]
    /\ cur'[s] = cur[s] /\ file'[s] = file[s] /\ told'[s] = told[s]
    /\ alive'[s] = alive[s] /\ starts'[s] = starts[s]

LEMMA ReaderMoves ==
    ASSUME TypeOK, [Next]_vars, NEW s \in Clusters
    PROVE  Stays(s) \/ ReadStep(s) \/ Kill(s) \/ Start(s)
<1> USE DEF TypeOK
<1>1. ASSUME NEW t \in Clusters, t # s, Kill(t) PROVE Stays(s)
  BY <1>1 DEF Kill, Stays
<1>2. ASSUME NEW t \in Clusters, t # s, Start(t) PROVE Stays(s)
  BY <1>2 DEF Start, Stays, reader, history
<1>3. ASSUME NEW t \in Clusters, t # s, ReadStep(t) PROVE Stays(s)
  <2>1. CASE Wake(t)
    BY <1>3, <2>1 DEF Wake, Go, Stays, process
  <2>2. CASE ReadLine(t)
    BY <1>3, <2>2 DEF ReadLine, Tell, Go, Stays, process
  <2>3. CASE EndOfFile(t) \/ CallReturns(t) \/ Remember(t)
    BY <1>3, <2>3 DEF EndOfFile, CallReturns, Remember, Go, Stays, process, history
  <2>4. ASSUME NEW p \in Posts, ReadPost(t, p) PROVE Stays(s)
    BY <1>3, <2>4 DEF ReadPost, Tell, Go, Stays, process, history
  <2>5. ASSUME NEW u \in Clusters, CallPeer(t, u) PROVE Stays(s)
    BY <1>3, <2>5 DEF CallPeer, Go, Stays, process
  <2>. QED  BY <1>3, <2>1, <2>2, <2>3, <2>4, <2>5 DEF ReadStep
<1>4. CASE UNCHANGED <<at, work, todo, cur, file, told, alive, starts>>
  BY <1>4 DEF Stays
<1>. QED
  BY <1>1, <1>2, <1>3, <1>4
     DEF Next, ServersLog, ServersPost, connectSyncs, SwitchToSlave, Handle, WriteSlave,
         WriteMaster, LoadCount, StoreCount, new_post, vars, process, reader, history

\* A handler was there before, one write earlier perhaps, or it was called now.
Continues(g, h) ==
    /\ h.from = g.from /\ h.run = g.run /\ h.to = g.to /\ h.line = g.line
    /\ \/ h = g
       \/ h.step \in {"load", "store"}
       \/ /\ h.step = "master"
          /\ log'[h.to]["slave"] = Append(log[h.to]["slave"], Echo(h.line))

Called(h) ==
    \E s \in Clusters, t \in Clusters :
        /\ CallPeer(s, t) /\ alive[t]
        /\ h.from = s /\ h.run = starts[s] /\ h.to = t /\ h.line = work[s] /\ h.step = "slave"

LEMMA HandlersFrom ==
    ASSUME TypeOK, [Next]_vars, NEW h \in handlers'
    PROVE  Called(h) \/ \E g \in handlers : Continues(g, h)
<1> DEFINE Goal == Called(h) \/ \E g \in handlers : Continues(g, h)
<1>0. h \in handlers => Goal
  BY DEF Continues
<1>h. \A g \in handlers : g \in Handlers
  BY DEF TypeOK
<1>1. ASSUME NEW s \in Clusters, NEW t \in Clusters, CallPeer(s, t) PROVE Goal
  <2>1. CASE h = [from |-> s, run |-> starts[s], to |-> t, line |-> work[s],
                  step |-> "slave", register |-> 0] /\ alive[t]
    <3>1. h.from = s /\ h.run = starts[s] /\ h.to = t /\ h.line = work[s] /\ h.step = "slave"
      BY <2>1
    <3>. QED  BY <1>1, <2>1, <3>1 DEF Called
  <2>2. CASE h \in handlers
    BY <1>0, <2>2
  <2>. QED  BY <1>1, <2>1, <2>2 DEF CallPeer
<1>2. ASSUME NEW g \in handlers, NEW step, NEW n, Steps(g, step, n), h \notin handlers
      PROVE  h.from = g.from /\ h.run = g.run /\ h.to = g.to /\ h.line = g.line /\ h.step = step
  <2>1. h = [g EXCEPT !.step = step, !.register = n]
    BY <1>2 DEF Steps
  <2>. QED  BY <1>h, <2>1 DEF Handlers
<1>3. ASSUME NEW g \in handlers, WriteSlave(g), h \notin handlers PROVE Goal
  <2>1. Accepts(g) /\ Write(g.to, "slave", Echo(g.line)) /\ Steps(g, "master", 0)
    BY <1>3 DEF WriteSlave, Ends
  <2>2. log'[g.to]["slave"] = Append(log[g.to]["slave"], Echo(g.line))
    BY <1>h, <2>1 DEF Write, TypeOK, Handlers, Replicas
  <2>. QED  BY <1>2, <1>3, <2>1, <2>2 DEF Continues
<1>4. ASSUME NEW g \in handlers, WriteMaster(g), h \notin handlers PROVE Goal
  BY <1>2, <1>4 DEF WriteMaster, Continues
<1>5. ASSUME NEW g \in handlers, LoadCount(g), h \notin handlers PROVE Goal
  BY <1>2, <1>5 DEF LoadCount, Continues
<1>6. CASE handlers' \subseteq handlers
  BY <1>0, <1>6
<1>. QED
  BY <1>0, <1>1, <1>3, <1>4, <1>5, <1>6
     DEF Next, ServersLog, ServersPost, connectSyncs, SwitchToSlave, Kill, Start, ReadStep,
         Wake, ReadLine, EndOfFile, ReadPost, CallReturns, Remember, Handle, StoreCount,
         new_post, Ends, vars

LEMMA BothLogsStep == Strong /\ BothLogs /\ [Next]_vars => BothLogs'
<1> SUFFICES ASSUME Strong, BothLogs, [Next]_vars,
                    NEW s \in Clusters, NEW q \in Replicas, NEW r \in Replicas,
                    NEW l \in Lines, l.kind \in LocalKinds, InLog(s, q, l)'
             PROVE  l \in Requests /\ InLog(s, r, l)'
  BY DEF BothLogs
<1>1. CASE InLog(s, q, l)
  <2>1. InLog(s, r, l) => InLog(s, r, l)'
    BY LogKeeps DEF Strong
  <2>. QED  BY <1>1, <2>1 DEF BothLogs
<1>2. ASSUME NEW n \in Lines, NewLine(s, q, n), ~InLog(s, q, l)
      PROVE  l \in Requests /\ InLog(s, r, l)'
  <2>1. l = n
    <3>1. ToSet(log'[s][q]) = ToSet(log[s][q]) \cup {n}
      BY <1>2, AppendLine DEF NewLine, Strong, TypeOK
    <3>. QED  BY <1>2, <3>1 DEF InLog
  <2>2. l \in Requests /\ log'[s][r] = Append(log[s][r], l)
    BY <1>2, <2>1, LineFacts DEF NewLine
  <2>3. l \in ToSet(log'[s][r])
    BY <2>2, AppendLine DEF Strong, TypeOK
  <2>. QED  BY <2>2, <2>3 DEF InLog
<1>. QED  BY <1>1, <1>2, LogGrows DEF Strong, InLog

\* Who follows for his own server is known to it as its own.
LEMMA FollowerLogged ==
    ASSUME Strong, EchoesJustified, BothLogs, NEW s \in Clusters, NEW r \in Replicas,
           NEW u \in Users, HomeOf[u] = s, Knows(s, u)
    PROVE  InLog(s, r, NewUser(u))
<1>1. "master" \in Replicas /\ log[s]["master"] \in Seq(Lines)
  BY DEF Strong, TypeOK, Replicas
<1>2. ~InLog(s, "master", SyncUser(u))
  <2>1. SyncUser(u).kind \notin LocalKinds /\ SyncUser(u).a = u
    BY DEF SyncUser, Line, LocalKinds
  <2>. QED  BY <1>1, <2>1 DEF EchoesJustified, InLog, ToSet
<1>3. InLog(s, "master", NewUser(u))
  BY <1>2 DEF Knows, NewUser, SyncUser
<1>4. NewUser(u) \in Lines /\ NewUser(u).kind \in LocalKinds
  BY DEF NewUser, Line, Lines, LocalKinds
<1>. QED  BY <1>1, <1>3, <1>4 DEF BothLogs

LEMMA FollowOrderedStep ==
    Strong /\ EchoesJustified /\ BothLogs /\ FollowOrdered /\ [Next]_vars => FollowOrdered'
<1> SUFFICES ASSUME Strong, EchoesJustified, BothLogs, FollowOrdered, [Next]_vars,
                    NEW s \in Clusters, NEW r \in Replicas, NEW k \in DOMAIN log'[s][r]
             PROVE  Ordered(log'[s][r], k)
  BY DEF FollowOrdered
<1> SUFFICES ASSUME log'[s][r][k].kind = "follow"
             PROVE  \E j \in 1..(k - 1) : log'[s][r][j] = NewUser(log'[s][r][k].a)
  BY DEF Ordered
<1>1. log[s][r] \in Seq(Lines) /\ Extends(log'[s][r], log[s][r])
  <2>1. log[s][r] \in Seq(Lines)
    BY DEF Strong, TypeOK
  <2>. QED  BY <2>1, LogExtends
<1>2. DOMAIN log[s][r] = 1..Len(log[s][r]) /\ Len(log[s][r]) \in Nat
  BY <1>1
<1>3. CASE k \in DOMAIN log[s][r]
  <2>1. PICK j \in 1..(k - 1) : log[s][r][j] = NewUser(log[s][r][k].a)
    BY <1>1, <1>3 DEF Extends, FollowOrdered, Ordered
  <2>2. j \in DOMAIN log[s][r]
    BY <1>2, <1>3
  <2>. QED  BY <1>1, <1>3, <2>1, <2>2 DEF Extends
<1>4. ASSUME NEW l \in Lines, NewLine(s, r, l), k \notin DOMAIN log[s][r]
      PROVE  \E j \in 1..(k - 1) : log'[s][r][j] = NewUser(log'[s][r][k].a)
  <2>1. k = Len(log[s][r]) + 1 /\ log'[s][r][k] = l
    BY <1>1, <1>2, <1>4, AppendLine DEF NewLine
  <2>2. HomeOf[l.a] = s /\ Knows(s, l.a) /\ l.a \in Users
    <3>1. l.kind \in LocalKinds
      BY <2>1 DEF LocalKinds
    <3>. QED  BY <1>4, <2>1, <3>1, LineFacts DEF NewLine
  <2>3. InLog(s, r, NewUser(l.a))
    BY <2>2, FollowerLogged
  <2>4. PICK j \in DOMAIN log[s][r] : log[s][r][j] = NewUser(l.a)
    BY <1>1, <2>3 DEF InLog, ToSet
  <2>5. j \in 1..(k - 1)
    BY <1>2, <2>1, <2>4
  <2>. QED  BY <1>1, <2>1, <2>4, <2>5 DEF Extends
<1>. QED  BY <1>3, <1>4, LogGrows DEF Strong

LEMMA ToldStays ==
    ASSUME NEW old \in Seq(Lines), NEW new \in Seq(Lines), Extends(new, old),
           NEW was, NEW now, was \subseteq now,
           NEW n \in Nat, n <= Len(old), ToldUpTo(old, was, n)
    PROVE  n <= Len(new) /\ ToldUpTo(new, now, n)
<1>1. \A k \in 1..n : k \in DOMAIN old /\ new[k] = old[k]
  BY DEF Extends
<1>2. n <= Len(new)
  <2>1. 1..Len(old) \subseteq 1..Len(new)
    BY DEF Extends
  <2>. QED  BY <2>1
<1>. QED  BY <1>1, <1>2 DEF ToldUpTo

LEMMA PassToldStep == Strong /\ PassTold /\ [Next]_vars => PassTold'
<1> SUFFICES ASSUME Strong, PassTold, [Next]_vars, NEW s \in Clusters, Passing(s)'
             PROVE  /\ cur'[s] <= Len(log'[s][file'[s]])
                    /\ ~lossy'[s] => ToldUpTo(log'[s][file'[s]], told'[s], cur'[s])
  BY DEF PassTold
<1> DEFINE Goal == /\ cur'[s] <= Len(log'[s][file'[s]])
                   /\ ~lossy'[s] => ToldUpTo(log'[s][file'[s]], told'[s], cur'[s])
<1>t. /\ TypeOK
      /\ \A r \in Replicas : log[s][r] \in Seq(Lines) /\ log'[s][r] \in Seq(Lines)
      /\ file[s] \in Replicas /\ file'[s] \in Replicas
      /\ cur[s] \in Nat /\ second[s] \in Nat
  <2>1. TypeOK /\ TypeOK'
    BY StrongStep DEF Strong
  <2>2. /\ \A r \in Replicas : log[s][r] \in Seq(Lines)
        /\ file[s] \in Replicas /\ cur[s] \in Nat /\ second[s] \in Nat
    BY <2>1 DEF TypeOK
  <2>3. (\A r \in Replicas : log'[s][r] \in Seq(Lines)) /\ file'[s] \in Replicas
    BY <2>1 DEF TypeOK
  <2>. QED  BY <2>1, <2>2, <2>3
<1>0. ASSUME Passing(s), cur'[s] = cur[s], file'[s] = file[s], told'[s] = told[s] PROVE Goal
  <2>1. cur[s] <= Len(log[s][file[s]])
    BY <1>0 DEF PassTold
  <2>2. Extends(log'[s][file[s]], log[s][file[s]])
    BY <1>t, LogExtends
  <2>3. cur[s] <= Len(log'[s][file[s]])
    <3>1. 1..Len(log[s][file[s]]) \subseteq 1..Len(log'[s][file[s]])
      BY <1>t, <2>2 DEF Extends
    <3>. QED  BY <1>t, <2>1, <3>1
  <2>4. ASSUME ~lossy'[s] PROVE ToldUpTo(log'[s][file[s]], told[s], cur[s])
    <3>1. ToldUpTo(log[s][file[s]], told[s], cur[s])
      BY <1>0, <2>4, Lasting DEF PassTold
    <3>. QED  BY <1>t, <2>1, <2>2, <3>1, ToldStays
  <2>. QED  BY <1>0, <2>3, <2>4
<1>1. CASE Stays(s)
  BY <1>0, <1>1 DEF Stays, Passing
<1>2. CASE Wake(s)
  <2>1. /\ log' = log /\ told' = told /\ file'[s] = type[s] /\ cur'[s] = second[s]
        /\ second[s] <= Len(log[s][type[s]])
    BY <1>t, <1>2 DEF Wake, Go, NextPlace, Passing, files, TypeOK
  <2>2. ASSUME ~lossy'[s] PROVE ToldUpTo(log[s][type[s]], told[s], second[s])
    <3>1. Lost(s) = {}
      BY <1>t, <1>2, <2>2 DEF Wake, TypeOK
    <3>2. \A k \in 1..second[s] : k \in DOMAIN log[s][type[s]]
      BY <1>t, <2>1
    <3>. QED  BY <1>t, <3>1, <3>2 DEF Lost, ToldUpTo
  <2>. QED  BY <2>1, <2>2
<1>3. CASE ReadLine(s)
  <2> DEFINE lg == log[s][file[s]]
  <2>1. /\ log' = log /\ file' = file /\ lossy' = lossy /\ cur'[s] = cur[s] + 1
        /\ told'[s] = told[s] \cup {lg[cur[s] + 1]}
        /\ cur[s] < Len(lg) /\ at[s] = "log"
    BY <1>t, <1>3 DEF ReadLine, ReaderAt, files, TypeOK
  <2>2. ASSUME ~lossy[s] PROVE ToldUpTo(lg, told'[s], cur[s] + 1)
    <3>1. ToldUpTo(lg, told[s], cur[s])
      BY <2>1, <2>2 DEF PassTold, Passing
    <3>2. \A k \in 1..(cur[s] + 1) : k \in 1..cur[s] \/ k = cur[s] + 1
      BY <1>t
    <3>. QED  BY <2>1, <3>1, <3>2 DEF ToldUpTo
  <2>3. cur[s] + 1 <= Len(lg)
    BY <1>t, <2>1
  <2>. QED  BY <2>1, <2>2, <2>3
<1>4. CASE EndOfFile(s)
  BY <1>t, <1>4 DEF EndOfFile, Go, NextPlace, Passing, TypeOK
<1>5. ASSUME NEW p \in Posts, ReadPost(s, p) PROVE Goal
  <2>1. at'[s] = "call" /\ work'[s] = p
    BY <1>t, <1>5 DEF ReadPost, Tell, Go, TypeOK
  <2>. QED  BY <2>1, LineFacts DEF Passing
<1>6. ASSUME NEW t \in Clusters, CallPeer(s, t) PROVE Goal
  <2>1. /\ at[s] = "call" /\ at'[s] \in {"call", "waiting"} /\ work' = work
        /\ cur' = cur /\ file' = file /\ told' = told
    BY <1>t, <1>6 DEF CallPeer, ReaderAt, Go, TypeOK
  <2>. QED  BY <1>0, <2>1 DEF Passing
<1>7. CASE CallReturns(s)
  <2>1. /\ at[s] = "waiting" /\ at'[s] = "call" /\ work' = work
        /\ cur' = cur /\ file' = file /\ told' = told
    BY <1>t, <1>7 DEF CallReturns, ReaderAt, Go, TypeOK, history
  <2>. QED  BY <1>0, <2>1 DEF Passing
<1>8. CASE Remember(s)
  <2>1. /\ at[s] = "call" /\ work[s].kind # "post"
        /\ cur' = cur /\ file' = file /\ told' = told
    BY <1>t, <1>8 DEF Remember, ReaderAt, Go, NextPlace, Passing, TypeOK, history
  <2>. QED  BY <1>0, <2>1 DEF Passing
<1>9. CASE Kill(s)
  BY <1>t, <1>9 DEF Kill, Passing, TypeOK
<1>10. CASE Start(s)
  <2>1. /\ at' = at /\ work' = work /\ cur' = cur /\ file' = file /\ told' = told
    BY <1>10 DEF Start, reader, history
  <2>. QED  BY <1>0, <2>1 DEF Passing
<1>. QED
  BY <1>t, <1>1, <1>2, <1>3, <1>4, <1>5, <1>6, <1>7, <1>8, <1>9, <1>10, ReaderMoves DEF ReadStep

LEMMA RunsOverStep == TypeOK /\ RunsOver /\ [Next]_vars => RunsOver'
<1> SUFFICES ASSUME TypeOK, RunsOver, [Next]_vars, NEW h \in handlers'
             PROVE  h.run <= starts'[h.from]
  BY DEF RunsOver
<1>1. \A s \in Clusters : starts[s] \in Nat /\ starts'[s] \in Nat /\ starts[s] <= starts'[s]
  <2>1. \A s \in Clusters : starts[s] \in Nat
    BY DEF TypeOK
  <2>2. ASSUME NEW t \in Clusters, Start(t)
        PROVE  \A s \in Clusters : starts'[s] = starts[s] \/ starts'[s] = starts[s] + 1
    BY <2>2 DEF Start, TypeOK
  <2>3. (\E t \in Clusters : Start(t)) \/ starts' = starts
    BY DEF Next, ServersLog, ServersPost, connectSyncs, SwitchToSlave, Kill, ReadStep, Wake,
           ReadLine, EndOfFile, ReadPost, CallPeer, CallReturns, Remember, Handle,
           WriteSlave, WriteMaster, LoadCount, StoreCount, new_post, vars, process
  <2>. QED  BY <2>1, <2>2, <2>3
<1>2. ASSUME NEW g \in handlers, Continues(g, h) PROVE h.run <= starts'[h.from]
  <2>1. g.from \in Clusters /\ g.run \in Nat /\ g.run <= starts[g.from]
    BY DEF TypeOK, Handlers, RunsOver
  <2>2. h.from = g.from /\ h.run = g.run
    BY <1>2 DEF Continues
  <2>. QED  BY <1>1, <2>1, <2>2
<1>3. CASE Called(h)
  BY <1>1, <1>3 DEF Called
<1>. QED  BY <1>2, <1>3, HandlersFrom

LEMMA OursIdleStep == Strong /\ OursIdle /\ RunsOver /\ [Next]_vars => OursIdle'
<1> SUFFICES ASSUME Strong, OursIdle, RunsOver, [Next]_vars, NEW s \in Clusters,
                    alive'[s], at'[s] # "waiting", NEW h \in handlers',
                    h.from = s, h.run = starts'[s]
             PROVE  FALSE
  BY DEF OursIdle, Ours
<1>t. TypeOK
  BY DEF Strong
<1>1. ASSUME NEW g \in handlers, Continues(g, h) PROVE FALSE
  <2>1. g.from = s /\ g.run = starts'[s] /\ g.run <= starts[s]
    BY <1>1 DEF Continues, RunsOver
  <2>2. starts'[s] = starts[s] => g \in Ours(s)
    BY <2>1 DEF Ours
  <2>3. CASE Stays(s)
    BY <2>2, <2>3 DEF Stays, OursIdle
  <2>4. CASE ReadStep(s)
    <3>1. starts' = starts /\ alive[s]
      BY <2>4 DEF ReadStep, Wake, ReadLine, EndOfFile, ReadPost, CallPeer, CallReturns,
                  Remember, ReaderAt, process
    <3>2. at[s] = "waiting" => CallReturns(s)
      BY <2>4 DEF ReadStep, Wake, ReadLine, EndOfFile, ReadPost, CallPeer, Remember, ReaderAt
    <3>. QED  BY <2>2, <3>1, <3>2 DEF CallReturns, OursIdle
  <2>5. CASE Kill(s)
    BY <1>t, <2>5 DEF Kill, TypeOK
  <2>6. CASE Start(s)
    <3>1. starts'[s] = starts[s] + 1 /\ starts[s] \in Nat
      BY <1>t, <2>6 DEF Start, TypeOK
    <3>. QED  BY <2>1, <3>1
  <2>. QED  BY <1>t, <2>3, <2>4, <2>5, <2>6, ReaderMoves
<1>2. CASE Called(h)
  <2>1. PICK t \in Clusters : CallPeer(s, t) /\ alive[t]
    BY <1>2 DEF Called
  <2>2. at'[s] = "waiting"
    BY <1>t, <2>1 DEF CallPeer, Go, TypeOK
  <2>. QED  BY <2>2
<1>. QED  BY <1>t, <1>1, <1>2, HandlersFrom

LEMMA DownSilentStep == TypeOK /\ DownSilent /\ [Next]_vars => DownSilent'
<1> SUFFICES ASSUME TypeOK, DownSilent, [Next]_vars, NEW s \in Clusters, ~alive'[s]
             PROVE  told'[s] = {} /\ at'[s] = "asleep"
  BY DEF DownSilent
<1>1. CASE Stays(s)
  BY <1>1 DEF Stays, DownSilent
<1>2. ~ReadStep(s)
  BY DEF ReadStep, Wake, ReadLine, EndOfFile, ReadPost, CallPeer, CallReturns, Remember,
         ReaderAt, process
<1>3. CASE Kill(s)
  BY <1>3 DEF Kill, TypeOK
<1>4. ~Start(s)
  BY DEF Start, TypeOK
<1>. QED  BY <1>1, <1>2, <1>3, <1>4, ReaderMoves

LEMMA UserLines ==
    /\ \A u \in Users : /\ NewUser(u) \in Lines /\ NewUser(u).kind = "newuser"
                        /\ NewUser(u).a = u /\ Echo(NewUser(u)) = SyncUser(u)
    /\ \A l \in Requests : l.kind = "newuser" => l = NewUser(l.a)
<1>1. ASSUME NEW u \in Users
      PROVE  /\ NewUser(u) \in Lines /\ NewUser(u).kind = "newuser" /\ NewUser(u).a = u
             /\ Echo(NewUser(u)) = SyncUser(u)
  BY DEF NewUser, SyncUser, Line, Lines, LocalKinds, Echo
<1>2. ASSUME NEW l \in Requests, l.kind = "newuser" PROVE l = NewUser(l.a)
  BY <1>2 DEF Requests, NewUser, Line
<1>. QED  BY <1>1, <1>2

LEMMA SlaveFirstStep == Strong /\ BothLogs /\ SlaveFirst /\ [Next]_vars => SlaveFirst'
<1> SUFFICES ASSUME Strong, BothLogs, SlaveFirst, [Next]_vars, NEW h \in handlers',
                    h.step = "master", h.line.kind = "newuser"
             PROVE  InLog(h.to, "slave", SyncUser(h.line.a))'
  BY DEF SlaveFirst, InLog, SyncUser, Line
<1>1. ~Called(h)
  BY DEF Called
<1>2. PICK g \in handlers : Continues(g, h)
  BY <1>1, HandlersFrom DEF Strong
<1>3. g.to = h.to /\ g.from = h.from /\ g.line = h.line /\ h.to \in Clusters /\ h.from \in Clusters
  BY <1>2 DEF Continues, Strong, TypeOK, Handlers
<1>4. CASE h = g
  <2>1. InLog(h.to, "slave", SyncUser(h.line.a))
    BY <1>4 DEF SlaveFirst
  <2>. QED  BY <1>3, <2>1, LogKeeps DEF Strong, Replicas
<1>5. CASE log'[h.to]["slave"] = Append(log[h.to]["slave"], Echo(h.line))
  <2>1. Own(h.from, h.line)
    BY <1>2, <1>3 DEF Strong, HandlersTell
  <2>2. h.line \in Lines /\ h.line \in Requests
    BY <1>3, <2>1, LineFacts DEF Own, BothLogs, Replicas
  <2>3. Echo(h.line) = SyncUser(h.line.a) /\ Echo(h.line) \in Lines
    BY <2>2, LineFacts, UserLines
  <2>4. log[h.to]["slave"] \in Seq(Lines)
    BY <1>3 DEF Strong, TypeOK, Replicas
  <2>5. SyncUser(h.line.a) \in ToSet(log'[h.to]["slave"])
    BY <1>5, <2>3, <2>4, AppendLine
  <2>. QED  BY <2>5 DEF InLog
<1>. QED  BY <1>2, <1>4, <1>5 DEF Continues

LEMMA FollowHandledStep ==
    Strong /\ FollowTold /\ FollowHandled /\ [Next]_vars => FollowHandled'
<1> SUFFICES ASSUME Strong, FollowTold, FollowHandled, [Next]_vars, NEW h \in handlers',
                    h.line.kind = "follow"
             PROVE  lossy'[h.from] \/ Done(h.to, h.line.a)'
  BY DEF FollowHandled, Done, InLog
<1>1. ASSUME NEW g \in handlers, Continues(g, h)
      PROVE  lossy'[h.from] \/ Done(h.to, h.line.a)'
  <2>1. /\ h.from = g.from /\ h.to = g.to /\ h.line = g.line
        /\ g.from \in Clusters /\ g.to \in Clusters
    BY <1>1 DEF Continues, Strong, TypeOK, Handlers
  <2>2. lossy[g.from] \/ Done(g.to, g.line.a)
    BY <2>1 DEF FollowHandled
  <2>. QED  BY <2>1, <2>2, Lasting
<1>2. CASE Called(h)
  <2>1. PICK s \in Clusters, t \in Clusters :
            /\ CallPeer(s, t)
            /\ h.from = s /\ h.to = t /\ h.line = work[s]
    BY <1>2 DEF Called
  <2>2. at[s] = "call" /\ t \in Peers(s)
    BY <2>1 DEF CallPeer, ReaderAt, Strong, CallsPeers
  <2>3. lossy[s] \/ Done(t, work[s].a)
    BY <2>1, <2>2 DEF FollowTold
  <2>. QED  BY <2>1, <2>3, Lasting
<1>. QED  BY <1>1, <1>2, HandlersFrom DEF Strong

\* A user whom a handler writes is written on, or done with.
LEMMA WritingMoves ==
    ASSUME Strong, SlaveFirst, [Next]_vars, NEW s \in Clusters, starts'[s] = starts[s],
           NEW t \in Clusters, NEW u \in Users, Writing(s, t, NewUser(u))
    PROVE  Writing(s, t, NewUser(u))' \/ Done(t, u)'
<1> DEFINE Goal == Writing(s, t, NewUser(u))' \/ Done(t, u)'
<1>1. PICK h \in handlers : /\ h.from = s /\ h.run = starts[s] /\ h.to = t
                            /\ h.line = NewUser(u) /\ h.step \in {"slave", "master"}
  BY DEF Writing
<1>2. h \in Handlers /\ TypeOK
  BY DEF Strong, TypeOK
<1>n. NewUser(u)' = NewUser(u)
  BY DEF NewUser, Line
<1>3. ASSUME NEW g \in handlers', g.from = s, g.run = starts[s], g.to = t,
             g.line = NewUser(u), g.step \in {"slave", "master"}
      PROVE  Goal
  BY <1>3, <1>n DEF Writing
<1>4. h \in handlers' => Goal
  BY <1>1, <1>3
<1>5. ASSUME NEW c \in Clusters, Kill(c), h \notin handlers' PROVE Goal
  <2>1. h.to = c /\ <<c, h.line.a>> \in failed'
    BY <1>5 DEF Kill
  <2>2. <<t, u>> \in failed'
    BY <1>1, <2>1, UserLines
  <2>. QED  BY <2>2 DEF Done
<1>6. CASE WriteSlave(h)
  <2>1. Accepts(h)
    BY <1>1, UserLines DEF Accepts
  <2>2. [h EXCEPT !.step = "master", !.register = 0] \in handlers'
    BY <1>6, <2>1 DEF WriteSlave, Steps
  <2> DEFINE g == [h EXCEPT !.step = "master", !.register = 0]
  <2>3. g.from = s /\ g.run = starts[s] /\ g.to = t /\ g.line = NewUser(u) /\ g.step = "master"
    BY <1>1, <1>2 DEF Handlers
  <2>. QED  BY <1>3, <2>2, <2>3
<1>7. CASE WriteMaster(h)
  <2>1. log'[t]["master"] = Append(log[t]["master"], SyncUser(u)) /\ SyncUser(u) \in Lines
    BY <1>1, <1>2, <1>7, LineFacts, UserLines DEF WriteMaster, Write, TypeOK, Replicas
  <2>2. log[t]["master"] \in Seq(Lines) /\ log[t]["slave"] \in Seq(Lines)
    BY <1>2 DEF TypeOK, Replicas
  <2>3. SyncUser(u) \in ToSet(log'[t]["master"])
    BY <2>1, <2>2, AppendLine
  <2>4. InLog(t, "slave", SyncUser(u))
    BY <1>1, <1>7, UserLines DEF WriteMaster, SlaveFirst
  <2>5. InLog(t, "slave", SyncUser(u))'
    <3>1. ToSet(log[t]["slave"]) \subseteq ToSet(log'[t]["slave"])
      BY LogKeeps DEF Strong, InLog, Replicas
    <3>. QED  BY <2>4, <3>1 DEF InLog, SyncUser, Line
  <2>6. \A r \in Replicas : SyncUser(u) \in ToSet(log'[t][r])
    BY <2>3, <2>5 DEF Replicas, InLog, SyncUser, Line
  <2>. QED  BY <2>6 DEF Done, InLog, SyncUser, Line
<1>8. ~LoadCount(h) /\ ~StoreCount(h) /\ ~new_post(h)
  BY <1>1, UserLines DEF LoadCount, StoreCount, new_post
<1>9. ASSUME NEW g \in handlers, g # h, Handle(g) PROVE Goal
  BY <1>4, <1>9
     DEF Handle, WriteSlave, WriteMaster, LoadCount, StoreCount, new_post, Steps, Ends
<1>10. CASE handlers \subseteq handlers'
  BY <1>4, <1>10
<1>. QED
  BY <1>4, <1>5, <1>6, <1>7, <1>8, <1>9, <1>10
     DEF Next, ServersLog, ServersPost, connectSyncs, SwitchToSlave, Start, ReadStep, Wake,
         ReadLine, EndOfFile, ReadPost, CallPeer, CallReturns, Remember, Handle, vars

LEMMA ToldArriveStep ==
    Strong /\ DownSilent /\ SlaveFirst /\ ToldArrive /\ [Next]_vars => ToldArrive'
<1> SUFFICES ASSUME Strong, DownSilent, SlaveFirst, ToldArrive, [Next]_vars,
                    NEW s \in Clusters, NEW t \in Peers(s), NEW u \in Users,
                    NewUser(u) \in told'[s]
             PROVE  Arriving(s, t, u)'
  <2>1. NewUser(CHOOSE x \in Users : TRUE)' = NewUser(CHOOSE x \in Users : TRUE)
    BY DEF NewUser, Line
  <2>. QED  BY DEF ToldArrive, Peers, NewUser, Line
<1> USE DEF Peers
<1>t. TypeOK
  BY DEF Strong
<1>n. NewUser(u)' = NewUser(u)
  BY DEF NewUser, Line
<1>1. Done(t, u) => Arriving(s, t, u)'
  BY Lasting DEF Arriving
<1>2. starts'[s] = starts[s] /\ Writing(s, t, NewUser(u)) => Arriving(s, t, u)'
  <2>1. starts'[s] = starts[s] /\ Writing(s, t, NewUser(u)) =>
            Writing(s, t, NewUser(u))' \/ Done(t, u)'
    BY WritingMoves
  <2>. QED  BY <2>1, <1>n DEF Arriving
<1>3. at'[s] \in {"call", "waiting"} /\ work'[s] = NewUser(u) /\ t \in todo'[s]
          => Arriving(s, t, u)'
  BY <1>n DEF Arriving
<1>4. NewUser(u) \in told[s] => Arriving(s, t, u)
  BY DEF ToldArrive
<1>5. CASE Stays(s)
  BY <1>1, <1>2, <1>3, <1>4, <1>5 DEF Stays, Arriving
<1>6. ASSUME starts'[s] = starts[s], told'[s] = told[s],
             ~(at[s] \in {"call", "waiting"} /\ work[s] = NewUser(u) /\ t \in todo[s])
      PROVE  Arriving(s, t, u)'
  BY <1>1, <1>2, <1>4, <1>6 DEF Arriving
<1>7. CASE Wake(s) \/ EndOfFile(s) \/ (\E p \in Posts : ReadPost(s, p))
  <2>1. starts' = starts /\ told' = told /\ at[s] \notin {"call", "waiting"}
    BY <1>7 DEF Wake, EndOfFile, ReadPost, ReaderAt, process, history
  <2>. QED  BY <1>6, <2>1
<1>8. CASE ReadLine(s)
  <2> DEFINE l == log[s][file[s]][cur[s] + 1]
  <2>1. starts' = starts /\ at[s] = "log" /\ told'[s] = told[s] \cup {l}
    BY <1>t, <1>8 DEF ReadLine, ReaderAt, process, TypeOK
  <2>2. CASE NewUser(u) \in told[s]
    BY <1>1, <1>2, <1>4, <2>1, <2>2 DEF Arriving
  <2>3. CASE l = NewUser(u)
    <3>1. Tell(s, l)
      BY <1>8, <2>3, UserLines DEF ReadLine, Forwarded, LocalKinds
    <3>2. work'[s] = l /\ todo'[s] = Peers(s) /\ at'[s] = "call"
      BY <1>t, <3>1 DEF Tell, Go, TypeOK
    <3>. QED  BY <1>3, <2>3, <3>2
  <2>. QED  BY <2>1, <2>2, <2>3
<1>9. ASSUME NEW v \in Clusters, CallPeer(s, v) PROVE Arriving(s, t, u)'
  <2>1. /\ starts' = starts /\ told' = told /\ work' = work
        /\ todo'[s] = todo[s] \ {v} /\ at'[s] \in {"call", "waiting"}
        /\ at[s] = "call"
    BY <1>t, <1>9 DEF CallPeer, ReaderAt, Go, process, TypeOK
  <2>2. CASE work[s] = NewUser(u) /\ t \in todo[s] /\ t # v
    BY <1>3, <2>1, <2>2
  <2>3. CASE work[s] = NewUser(u) /\ t = v
    <3>1. CASE alive[t]
      <4> DEFINE h == [from |-> s, run |-> starts[s], to |-> t, line |-> work[s],
                       step |-> "slave", register |-> 0]
      <4>1. h \in handlers'
        BY <1>9, <2>3, <3>1 DEF CallPeer
      <4>2. /\ h.from = s /\ h.run = starts'[s] /\ h.to = t /\ h.line = NewUser(u)
            /\ h.step \in {"slave", "master"}
        BY <2>1, <2>3
      <4>3. Writing(s, t, NewUser(u))'
        <5> HIDE DEF h
        <5>. QED  BY <1>n, <4>1, <4>2 DEF Writing
      <4>. QED  BY <1>n, <4>3 DEF Arriving
    <3>2. CASE ~alive[t]
      <4>1. <<t, u>> \in failed'
        BY <1>9, <2>3, <3>2, UserLines DEF CallPeer
      <4>. QED  BY <4>1 DEF Done, Arriving
    <3>. QED  BY <3>1, <3>2
  <2>4. CASE ~(work[s] = NewUser(u) /\ t \in todo[s])
    BY <1>6, <2>1, <2>4
  <2>. QED  BY <2>2, <2>3, <2>4
<1>10. CASE CallReturns(s)
  <2>1. /\ starts' = starts /\ told' = told /\ work' = work /\ todo' = todo /\ at'[s] = "call"
    BY <1>t, <1>10 DEF CallReturns, Go, process, history, TypeOK
  <2>. QED  BY <1>3, <1>6, <2>1
<1>11. CASE Remember(s)
  <2>1. starts' = starts /\ told' = told /\ todo[s] = {}
    BY <1>11 DEF Remember, process, history
  <2>. QED  BY <1>6, <2>1
<1>12. ~Kill(s)
  BY <1>t DEF Kill, TypeOK
<1>13. ~Start(s)
  BY DEF Start, history, DownSilent
<1>. QED
  BY <1>t, <1>5, <1>7, <1>8, <1>9, <1>10, <1>11, <1>12, <1>13, ReaderMoves DEF ReadStep

LEMMA FollowToldStep ==
    /\ Strong /\ FollowOrdered /\ PassTold /\ OursIdle /\ ToldArrive /\ FollowTold
    /\ [Next]_vars
    => FollowTold'
<1> SUFFICES ASSUME Strong, FollowOrdered, PassTold, OursIdle, ToldArrive, FollowTold,
                    [Next]_vars, NEW s \in Clusters, at'[s] \in {"call", "waiting"},
                    work'[s].kind = "follow", NEW t \in Peers(s), NEW u, u = work'[s].a
             PROVE  lossy'[s] \/ Done(t, u)'
  BY DEF FollowTold, Peers, Done, InLog, SyncUser, Line
<1> DEFINE Goal == lossy'[s] \/ Done(t, u)'
<1>t. TypeOK /\ t \in Clusters
  BY DEF Strong, Peers
<1>1. ASSUME at[s] \in {"call", "waiting"}, work'[s] = work[s] PROVE Goal
  <2>1. lossy[s] \/ Done(t, u)
    BY <1>1 DEF FollowTold
  <2>. QED  BY <1>t, <2>1, Lasting
<1>2. CASE Stays(s)
  BY <1>1, <1>2 DEF Stays
<1>3. CASE ReadLine(s)
  <2> DEFINE lg == log[s][file[s]]
             l  == lg[cur[s] + 1]
  <2>1. /\ at[s] = "log" /\ alive[s] /\ cur[s] < Len(lg) /\ cur[s] \in Nat
        /\ file[s] \in Replicas /\ lg \in Seq(Lines)
    BY <1>t, <1>3 DEF ReadLine, ReaderAt, TypeOK
  <2>2. work'[s] = l
    <3>1. Forwarded(l)
      BY <1>3, <2>1 DEF ReadLine
    <3>. QED  BY <1>t, <1>3, <3>1 DEF ReadLine, Tell, TypeOK
  <2>3. cur[s] + 1 \in DOMAIN lg
    BY <2>1
  <2>4. PICK j \in 1..cur[s] : lg[j] = NewUser(u)
    <3>1. Ordered(lg, cur[s] + 1)
      BY <2>1, <2>3 DEF FollowOrdered
    <3>2. (cur[s] + 1) - 1 = cur[s]
      BY <2>1
    <3>. QED  BY <2>2, <3>1, <3>2 DEF Ordered
  <2>5. u \in Users
    BY <2>1, <2>2, <2>3, LineFacts
  <2>6. ASSUME ~lossy[s] PROVE Done(t, u)
    <3>1. NewUser(u) \in told[s]
      <4>1. ToldUpTo(lg, told[s], cur[s])
        BY <2>1, <2>6 DEF PassTold, Passing
      <4>2. Forwarded(lg[j])
        BY <2>4, <2>5, UserLines DEF Forwarded, LocalKinds
      <4>. QED  BY <2>4, <4>1, <4>2 DEF ToldUpTo
    <3>2. Arriving(s, t, u)
      BY <2>5, <3>1 DEF ToldArrive
    <3>3. ~Writing(s, t, NewUser(u))
      <4>1. Ours(s) = {}
        BY <2>1 DEF OursIdle
      <4>. QED  BY <4>1 DEF Writing, Ours
    <3>. QED  BY <2>1, <3>2, <3>3 DEF Arriving
  <2>. QED  BY <1>t, <2>6, Lasting
<1>4. CASE Wake(s) \/ EndOfFile(s) \/ Remember(s) \/ Kill(s)
  BY <1>t, <1>4 DEF Wake, EndOfFile, Remember, Kill, Go, NextPlace, TypeOK
<1>5. ASSUME NEW p \in Posts, ReadPost(s, p) PROVE Goal
  <2>1. work'[s] = p
    BY <1>t, <1>5 DEF ReadPost, Tell, TypeOK
  <2>. QED  BY <2>1, LineFacts
<1>6. CASE CallReturns(s) \/ (\E v \in Clusters : CallPeer(s, v)) \/ Start(s)
  BY <1>1, <1>6 DEF CallReturns, CallPeer, ReaderAt, Start, reader
<1>. QED
  BY <1>t, <1>2, <1>3, <1>4, <1>5, <1>6, ReaderMoves DEF ReadStep

\* FollowerEntered for one line, with a log of cluster s as a parameter.
EnteredBefore(s, lg, k) ==
    lg[k].kind = "SYNC::follow" =>
        \/ \E j \in 1..(k - 1) : lg[j] = SyncUser(lg[k].a)
        \/ <<s, lg[k].a>> \in failed
        \/ lossy[HomeOf[lg[k].a]]

LEMMA EnteredStep == EnterInv /\ FollowerEntered /\ [Next]_vars => FollowerEntered'
<1> SUFFICES ASSUME EnterInv, FollowerEntered, [Next]_vars,
                    NEW s \in Clusters, NEW r \in Replicas, NEW k \in DOMAIN log'[s][r],
                    NEW l, l = log'[s][r][k], l.kind = "SYNC::follow"
             PROVE  \/ \E j \in 1..(k - 1) : log'[s][r][j] = SyncUser(l.a)
                    \/ <<s, l.a>> \in failed'
                    \/ lossy'[HomeOf[l.a]]
  BY DEF FollowerEntered, SyncUser, Line
<1> DEFINE Goal == \/ \E j \in 1..(k - 1) : log'[s][r][j] = SyncUser(l.a)
                   \/ <<s, l.a>> \in failed'
                   \/ lossy'[HomeOf[l.a]]
<1>s. Strong
  BY DEF EnterInv
<1>1. log[s][r] \in Seq(Lines)
  BY <1>s DEF Strong, TypeOK
<1>2. Extends(log'[s][r], log[s][r])
  BY <1>s, LogExtends
<1>3. DOMAIN log[s][r] = 1..Len(log[s][r]) /\ Len(log[s][r]) \in Nat
  BY <1>1
<1>4. CASE k \in DOMAIN log[s][r]
  <2>1. log[s][r][k] = l /\ l.a \in Users
    BY <1>1, <1>2, <1>4, LineFacts DEF Extends
  <2>2. \/ \E j \in 1..(k - 1) : log[s][r][j] = SyncUser(l.a)
        \/ <<s, l.a>> \in failed
        \/ lossy[HomeOf[l.a]]
    BY <1>4, <2>1 DEF EnterInv, FollowerEntered, SyncUser
  <2>3. 1..(k - 1) \subseteq DOMAIN log[s][r]
    BY <1>3, <1>4
  <2>4. HomeOf[l.a] \in Clusters
    BY <2>1, SyncNetAssumption
  <2>. QED  BY <1>s, <1>2, <2>2, <2>3, <2>4, Lasting DEF Extends
<1>5. ASSUME NEW n \in Lines, NewLine(s, r, n), k \notin DOMAIN log[s][r] PROVE Goal
  <2>1. k = Len(log[s][r]) + 1 /\ n = l
    BY <1>1, <1>3, <1>5, AppendLine DEF NewLine
  <2>2. PICK h \in handlers : h.to = s /\ l = Echo(h.line) /\ h.line \in Lines
    BY <1>5, <2>1, LineFacts DEF NewLine, LocalKinds
  <2>3. /\ h.from \in Clusters /\ Own(h.from, h.line)
        /\ HomeOf[h.line.a] = h.from /\ l.a = h.line.a
    BY <1>s, <2>2, LineFacts, OwnHome DEF Strong, TypeOK, Handlers, HandlersTell
  <2>4. h.line.kind = "follow"
    BY <2>2, <2>3, LineFacts DEF Own, Echo, Lines, LocalKinds
  <2>5. lossy[h.from] \/ Done(s, l.a)
    BY <2>2, <2>3, <2>4 DEF EnterInv, FollowHandled
  <2>6. CASE lossy[h.from]
    BY <1>s, <2>3, <2>6, Lasting
  <2>7. CASE <<s, l.a>> \in failed
    BY <1>s, <2>7, Lasting
  <2>8. CASE InLog(s, r, SyncUser(l.a))
    <3>1. PICK j \in DOMAIN log[s][r] : log[s][r][j] = SyncUser(l.a)
      BY <1>1, <2>8 DEF InLog, ToSet
    <3>2. j \in 1..(k - 1)
      BY <1>3, <2>1, <3>1
    <3>. QED  BY <1>2, <3>1, <3>2 DEF Extends
  <2>. QED  BY <2>5, <2>6, <2>7, <2>8 DEF Done
<1>. QED  BY <1>s, <1>4, <1>5, LogGrows DEF Strong

LEMMA EnterStep == EnterInv /\ [Next]_vars => EnterInv'
<1> SUFFICES ASSUME EnterInv, [Next]_vars PROVE EnterInv'
  OBVIOUS
<1> USE DEF EnterInv
<1>1. Strong' /\ EchoesJustified'
  BY StrongStep, EchoesStep
<1>2. BothLogs' /\ FollowOrdered' /\ PassTold'
  BY BothLogsStep, FollowOrderedStep, PassToldStep
<1>3. OursIdle' /\ RunsOver' /\ DownSilent'
  <2>1. TypeOK
    BY DEF Strong
  <2>. QED  BY <2>1, OursIdleStep, RunsOverStep, DownSilentStep
<1>4. ToldArrive' /\ SlaveFirst' /\ FollowTold' /\ FollowHandled'
  BY ToldArriveStep, SlaveFirstStep, FollowToldStep, FollowHandledStep
<1>. QED  BY <1>1, <1>2, <1>3, <1>4

LEMMA EnterInit == Init => EnterInv
<1> SUFFICES ASSUME Init PROVE EnterInv
  OBVIOUS
<1>1. \A s \in Clusters, r \in Replicas : log[s][r] = <<>>
  BY DEF Init
<1>2. EchoesJustified /\ FollowOrdered
  BY <1>1 DEF EchoesJustified, FollowOrdered
<1>3. BothLogs
  BY <1>1 DEF BothLogs, InLog, ToSet
<1>4. handlers = {} /\ \A s \in Clusters : at[s] = "asleep" /\ told[s] = {} /\ alive[s]
  BY DEF Init
<1>5. PassTold /\ OursIdle /\ RunsOver /\ DownSilent
  BY <1>4 DEF PassTold, Passing, OursIdle, Ours, RunsOver, DownSilent
<1>6. ToldArrive /\ SlaveFirst /\ FollowTold /\ FollowHandled
  BY <1>4 DEF ToldArrive, SlaveFirst, FollowTold, FollowHandled
<1>. QED  BY <1>2, <1>3, <1>5, <1>6, InitStrong DEF EnterInv

\* A SYNC::follow line comes after the line of its follower, for any number of
\* clusters, users and restarts, unless a call about him failed or his
\* synchronizer passed over a line.
THEOREM FollowersEntered == Spec => []FollowerEntered
<1> DEFINE Inv == EnterInv /\ FollowerEntered
<1>1. Init => Inv
  <2>1. Init => FollowerEntered
    BY DEF Init, FollowerEntered
  <2>. QED  BY <2>1, EnterInit
<1>2. Inv /\ [Next]_vars => Inv'
  BY EnterStep, EnteredStep
<1>. QED  BY <1>1, <1>2, PTL DEF Spec
=============================================================================
