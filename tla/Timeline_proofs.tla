--------------------------- MODULE Timeline_proofs ---------------------------
(***************************************************************************)
(* The safety properties of Timeline, for any users, posts, followers,     *)
(* runs of clients and restarts of the servers.                            *)
(***************************************************************************)
EXTENDS Timeline, TLAPS

\* A run of a client that has not entered timeline mode has opened no stream.
Unopened ==
    \A s \in Streams :
        \/ s[2] > runs[UserOf(s)]
        \/ s = Current(UserOf(s)) /\ mode[UserOf(s)] = "command"
        => at[s] = "none"

\* A writer with a post in hand runs on a server; the post is its user's, and
\* goes to him and to followers.
Busy == {"forward", "write", "flush"}
Entitled(u, p) == u = AuthorOf[p] \/ u \in FollowersOf[AuthorOf[p]]

WriterHolds ==
    \A s \in Streams :
        writer[s] \in Busy =>
            /\ at[s] \in Replicas
            /\ post[s] \in Posts
            /\ AuthorOf[post[s]] = UserOf(s)
            /\ Entitled(toward[s], post[s])
            /\ \A u \in todo[s] : Entitled(u, post[s])

\* What the master is about to write for itself the slave has, or the call failed.
Covered(u, p)      == p \in timeline["slave"][u] \/ <<u, p>> \in missed
PostCovered(u, p)  == p \in posts["slave"] \/ <<u, p>> \in missed

WriterCovered ==
    \A s \in Streams :
        at[s] = "master" /\ writer[s] \in Busy =>
            /\ writer[s] = "write" => Covered(toward[s], post[s])
            /\ writer[s] # "forward" \/ toward[s] # UserOf(s) =>
                   Covered(UserOf(s), post[s]) /\ PostCovered(UserOf(s), post[s])

\* A timeline file has posts of its user and of those he follows.
FilesEntitled ==
    \A r \in Replicas, u \in Local : \A p \in timeline[r][u] : Entitled(u, p)

LEMMA StreamFacts ==
    \A s \in Streams : /\ UserOf(s) \in Local
                       /\ s = <<s[1], s[2]>>
                       /\ s[1] = UserOf(s)
                       /\ s[2] \in Nat
  BY TimelineAssumption DEF Streams, UserOf

LEMMA AuthorFacts ==
    \A p \in Posts : FollowersOf[AuthorOf[p]] \subseteq Local
  BY TimelineAssumption

-----------------------------------------------------------------------------
LEMMA TypeStep == TypeOK /\ WriterHolds /\ [Next]_vars => TypeOK'
<1> SUFFICES ASSUME TypeOK, WriterHolds, [Next]_vars PROVE TypeOK'
  OBVIOUS
<1> USE TimelineAssumption, StreamFacts, AuthorFacts DEF TypeOK
<1>a. \A r \in Replicas, u \in Local, p \in Posts :
          [timeline EXCEPT ![r][u] = @ \cup {p}] \in [Replicas -> [Local -> SUBSET Posts]]
  OBVIOUS
<1>b. \A r \in Replicas, p \in Posts :
          /\ [posts EXCEPT ![r] = @ \cup {p}] \in [Replicas -> SUBSET Posts]
          /\ [post_lines EXCEPT ![r] = @ \cup {p}] \in [Replicas -> SUBSET Posts]
  OBVIOUS
<1>1. ASSUME NEW u \in Local, connectTo(u) PROVE TypeOK'
  BY <1>1 DEF connectTo, getServer, servers, files, thread
<1>2. ASSUME NEW u \in Local, CommandFails(u) PROVE TypeOK'
  BY <1>2 DEF CommandFails, getServer, servers, files, thread
<1>3. ASSUME NEW u \in Local, EnterTimeline(u) PROVE TypeOK'
  BY <1>3 DEF EnterTimeline, servers, files, thread
<1>4. ASSUME NEW u \in Local, Quit(u) PROVE TypeOK'
  BY <1>4 DEF Quit, servers, files, thread
<1>5. ASSUME NEW s \in Streams, NEW p \in Posts, ReadPost(s, p) PROVE TypeOK'
  <2>1. Hearers(UserOf(s)) \subseteq Local
    BY <1>5 DEF ReadPost, Hearers
  <2>. QED  BY <1>5, <2>1 DEF ReadPost, servers, files, client
<1>6. ASSUME NEW s \in Streams, Forward(s) PROVE TypeOK'
  <2>1. post[s] \in Posts /\ toward[s] \in Local /\ "slave" \in Replicas
    BY <1>6 DEF Forward, WriterHolds, Busy, Replicas
  <2>2. /\ timeline' \in [Replicas -> [Local -> SUBSET Posts]]
        /\ posts' \in [Replicas -> SUBSET Posts]
        /\ missed' \subseteq Local \X Posts
    <3>1. CASE UNCHANGED <<timeline, posts, missed>>
      BY <3>1
    <3>2. CASE /\ timeline' = [timeline EXCEPT !["slave"][toward[s]] = @ \cup {post[s]}]
               /\ posts' = [posts EXCEPT !["slave"] = @ \cup {post[s]}]
               /\ UNCHANGED missed
      BY <2>1, <3>2, <1>a, <1>b
    <3>3. CASE missed' = missed \cup {<<toward[s], post[s]>>} /\ UNCHANGED files
      BY <2>1, <3>3 DEF files
    <3>. QED  BY <1>6, <3>1, <3>2, <3>3 DEF Forward, files
  <2>. QED  BY <1>6, <2>2 DEF Forward, servers, client
<1>7. ASSUME NEW s \in Streams, Write(s) PROVE TypeOK'
  <2>1. post[s] \in Posts /\ at[s] \in Replicas /\ toward[s] \in Local
    BY <1>7 DEF Write, WriterHolds, Busy
  <2>2. /\ timeline' \in [Replicas -> [Local -> SUBSET Posts]]
        /\ post_lines' \in [Replicas -> SUBSET Posts]
    <3>1. CASE toward[s] = UserOf(s)
      <4>1. post_lines' = [post_lines EXCEPT ![at[s]] = @ \cup {post[s]}] /\ UNCHANGED timeline
        BY <1>7, <3>1 DEF Write, Writes
      <4>. QED  BY <2>1, <1>b, <4>1
    <3>2. CASE toward[s] # UserOf(s)
      <4>1. /\ timeline' = [timeline EXCEPT ![at[s]][toward[s]] = @ \cup {post[s]}]
            /\ UNCHANGED post_lines
        BY <1>7, <3>2 DEF Write, Writes
      <4>. QED  BY <2>1, <1>a, <4>1
    <3>. QED  BY <3>1, <3>2
  <2>3. CASE todo[s] = {} /\ writer' = [writer EXCEPT ![s] = "flush"]
             /\ UNCHANGED <<toward, todo>>
    BY <1>7, <2>2, <2>3 DEF Write, servers, client
  <2>4. ASSUME NEW v \in todo[s],
               toward' = [toward EXCEPT ![s] = v],
               todo' = [todo EXCEPT ![s] = @ \ {v}],
               writer' = [writer EXCEPT ![s] = "forward"]
        PROVE  TypeOK'
    <3>1. v \in Local
      OBVIOUS
    <3>2. todo' \in [Streams -> SUBSET Local]
      BY <2>4
    <3>. QED  BY <1>7, <2>2, <2>4, <3>1, <3>2 DEF Write, servers, client
  <2>. QED  BY <1>7, <2>3, <2>4 DEF Write
<1>8. ASSUME NEW s \in Streams, Flush(s) PROVE TypeOK'
  <2>1. post[s] \in Posts /\ at[s] \in Replicas
    BY <1>8 DEF Flush, WriterHolds, Busy
  <2>2. /\ timeline' \in [Replicas -> [Local -> SUBSET Posts]]
        /\ posts' \in [Replicas -> SUBSET Posts]
    BY <1>8, <2>1, <1>a, <1>b DEF Flush
  <2>. QED  BY <1>8, <2>2 DEF Flush, servers, client
<1>9. ASSUME NEW s \in Streams, WriterEnds(s) PROVE TypeOK'
  BY <1>9 DEF WriterEnds, servers, files, client
<1>10. ASSUME NEW s \in Streams, NEW p \in Posts, Spot(s, p) PROVE TypeOK'
  BY <1>10 DEF Spot, servers, files, client, thread
<1>11. ASSUME NEW s \in Streams, Display(s) PROVE TypeOK'
  BY <1>11 DEF Display, servers, files, client, thread
<1>12. ASSUME NEW p \in Posts, SyncPosts(p) PROVE TypeOK'
  BY <1>12 DEF SyncPosts, servers, client, thread
<1>13. ASSUME NEW r \in Replicas, Dies(r) PROVE TypeOK'
  BY <1>13 DEF Dies, files, client
<1>14. ASSUME NEW r \in Replicas, Restart(r) PROVE TypeOK'
  BY <1>14 DEF Restart, files, client, thread
<1>15. CASE UNCHANGED vars
  BY <1>15 DEF vars, servers, files, client, thread
<1>. QED
  BY <1>1, <1>2, <1>3, <1>4, <1>5, <1>6, <1>7, <1>8, <1>9, <1>10, <1>11, <1>12,
     <1>13, <1>14, <1>15 DEF Next, Serve, Poll

-----------------------------------------------------------------------------
\* The strengthening that is inductive.
Strong == TypeOK /\ Unopened /\ WriterHolds

LEMMA UnopenedStep == TypeOK /\ Unopened /\ [Next]_vars => Unopened'
<1> SUFFICES ASSUME TypeOK, Unopened, [Next]_vars,
                    NEW s \in Streams,
                    \/ s[2] > runs'[UserOf(s)]
                    \/ s = <<UserOf(s), runs'[UserOf(s)]>> /\ mode'[UserOf(s)] = "command"
             PROVE  at'[s] = "none"
  BY DEF Unopened, Current
<1> USE TimelineAssumption, StreamFacts DEF TypeOK, Unopened, Current
<1>1. ASSUME NEW u \in Local, connectTo(u) PROVE at'[s] = "none"
  <2>1. CASE u = UserOf(s)
    <3>1. runs'[u] = runs[u] + 1 /\ runs[u] \in Nat
      BY <1>1 DEF connectTo
    <3>2. s[2] > runs[u]
      <4>1. s[2] > runs'[u] \/ s = <<u, runs'[u]>>
        BY <2>1
      <4>. QED  BY <3>1, <4>1
    <3>3. at[s] = "none"
      BY <2>1, <3>2
    <3>. QED  BY <1>1, <3>3 DEF connectTo
  <2>2. CASE u # UserOf(s)
    BY <1>1, <2>2 DEF connectTo
  <2>. QED  BY <2>1, <2>2
<1>2. ASSUME NEW u \in Local, CommandFails(u) PROVE at'[s] = "none"
  BY <1>2 DEF CommandFails
<1>3. ASSUME NEW u \in Local, EnterTimeline(u) PROVE at'[s] = "none"
  <2>1. CASE u = UserOf(s)
    <3>1. mode'[u] = "timeline" /\ runs' = runs
      BY <1>3 DEF EnterTimeline, client
    <3>2. s[2] > runs[u] /\ runs[u] \in Nat
      BY <2>1, <3>1
    <3>3. s # <<u, runs[u]>>
      BY <3>2
    <3>. QED  BY <1>3, <2>1, <3>2, <3>3 DEF EnterTimeline
  <2>2. CASE u # UserOf(s)
    <3>1. s # <<u, runs[u]>>
      BY <2>2 DEF UserOf
    <3>. QED  BY <1>3, <2>2, <3>1 DEF EnterTimeline
  <2>. QED  BY <2>1, <2>2
<1>4. ASSUME NEW u \in Local, Quit(u) PROVE at'[s] = "none"
  BY <1>4 DEF Quit
<1>5. CASE \E t \in Streams : (\E p \in Posts : ReadPost(t, p)) \/ Serve(t) \/ Poll(t)
  <2>1. UNCHANGED <<runs, mode, at>>
    BY <1>5 DEF ReadPost, Serve, Forward, Write, Flush, WriterEnds, Poll, Spot, Display,
                client
  <2>. QED  BY <2>1
<1>6. CASE UNCHANGED <<runs, mode, at>>
  BY <1>6
<1>7. ASSUME NEW r \in Replicas, Dies(r) PROVE at'[s] = "none"
  <2>1. at[s] = "none"
    BY <1>7 DEF Dies, client
  <2>. QED  BY <1>7, <2>1 DEF Dies, Replicas
<1>. QED
  BY <1>1, <1>2, <1>3, <1>4, <1>5, <1>6, <1>7 DEF Next, SyncPosts, Restart, vars, client

LEMMA WriterStep == Strong /\ [Next]_vars => WriterHolds'
<1> SUFFICES ASSUME Strong, [Next]_vars, NEW s \in Streams, writer'[s] \in Busy
             PROVE  /\ at'[s] \in Replicas
                    /\ post'[s] \in Posts
                    /\ AuthorOf[post'[s]] = UserOf(s)
                    /\ Entitled(toward'[s], post'[s])
                    /\ \A u \in todo'[s] : Entitled(u, post'[s])
  BY DEF WriterHolds, Entitled
<1> DEFINE Goal == /\ at'[s] \in Replicas
                   /\ post'[s] \in Posts
                   /\ AuthorOf[post'[s]] = UserOf(s)
                   /\ Entitled(toward'[s], post'[s])
                   /\ \A u \in todo'[s] : Entitled(u, post'[s])
<1> USE StreamFacts DEF Strong, TypeOK, WriterHolds, Busy
<1>a. ASSUME writer[s] \in Busy, UNCHANGED <<at, post, toward, todo>> PROVE Goal
  BY <1>a
<1>b. ASSUME UNCHANGED <<at, thread>> PROVE Goal
  BY <1>b DEF thread
<1>1. ASSUME NEW u \in Local, connectTo(u) \/ CommandFails(u) \/ Quit(u) PROVE Goal
  BY <1>1, <1>b DEF connectTo, CommandFails, Quit
<1>2. ASSUME NEW u \in Local, EnterTimeline(u) PROVE Goal
  <2>1. writer[s] \in Busy /\ UNCHANGED <<post, toward, todo>>
    BY <1>2 DEF EnterTimeline, thread
  <2>2. at[s] # "none"
    BY <2>1 DEF Replicas
  <2>3. s # Current(u)
    BY <1>2, <2>2 DEF EnterTimeline, Unopened, Current, UserOf
  <2>4. at'[s] = at[s]
    BY <1>2, <2>3 DEF EnterTimeline
  <2>. QED  BY <2>1, <2>4
<1>3. ASSUME NEW t \in Streams, NEW p \in Posts, ReadPost(t, p) PROVE Goal
  <2>1. CASE t = s
    <3>1. /\ at'[s] \in Replicas /\ post'[s] = p /\ AuthorOf[p] = UserOf(s)
          /\ toward'[s] = UserOf(s) /\ todo'[s] = FollowersOf[UserOf(s)]
      BY <1>3, <2>1 DEF ReadPost, Hearers
    <3>. QED  BY <3>1 DEF Entitled
  <2>2. CASE t # s
    <3>1. /\ UNCHANGED at /\ writer'[s] = writer[s] /\ post'[s] = post[s]
          /\ toward'[s] = toward[s] /\ todo'[s] = todo[s]
      BY <1>3, <2>2 DEF ReadPost
    <3>. QED  BY <3>1
  <2>. QED  BY <2>1, <2>2
<1>4. ASSUME NEW t \in Streams, Forward(t) PROVE Goal
  BY <1>4, <1>a DEF Forward
<1>5. ASSUME NEW t \in Streams, Write(t) PROVE Goal
  <2>1. CASE t = s
    <3>1. writer[s] \in Busy /\ UNCHANGED <<at, post>>
      BY <1>5, <2>1 DEF Write
    <3>2. CASE UNCHANGED <<toward, todo>>
      BY <3>1, <3>2
    <3>3. ASSUME NEW v \in todo[s], toward' = [toward EXCEPT ![s] = v],
                 todo' = [todo EXCEPT ![s] = @ \ {v}]
          PROVE  Goal
      BY <3>1, <3>3
    <3>. QED  BY <1>5, <2>1, <3>2, <3>3 DEF Write
  <2>2. CASE t # s
    <3>1. /\ UNCHANGED <<at, post>> /\ writer'[s] = writer[s]
          /\ toward'[s] = toward[s] /\ todo'[s] = todo[s]
      BY <1>5, <2>2 DEF Write
    <3>. QED  BY <3>1
  <2>. QED  BY <2>1, <2>2
<1>6. ASSUME NEW t \in Streams, Flush(t) \/ WriterEnds(t) PROVE Goal
  BY <1>6, <1>a DEF Flush, WriterEnds
<1>7. ASSUME NEW t \in Streams, Poll(t) PROVE Goal
  BY <1>7, <1>b DEF Poll, Spot, Display
<1>8. ASSUME NEW r \in Replicas, Dies(r) PROVE Goal
  BY <1>8 DEF Dies
<1>9. ASSUME NEW r \in Replicas, Restart(r) PROVE Goal
  BY <1>9, <1>b DEF Restart
<1>10. ASSUME NEW p \in Posts, SyncPosts(p) PROVE Goal
  BY <1>10, <1>b DEF SyncPosts
<1>11. CASE UNCHANGED vars
  BY <1>11, <1>b DEF vars
<1>. QED
  BY <1>1, <1>2, <1>3, <1>4, <1>5, <1>6, <1>7, <1>8, <1>9, <1>10, <1>11 DEF Next, Serve

-----------------------------------------------------------------------------
LEMMA InitStrong == Init => Strong /\ WriterCovered /\ FilesEntitled
<1> SUFFICES ASSUME Init PROVE Strong /\ WriterCovered /\ FilesEntitled
  OBVIOUS
<1>1. TypeOK
  <2>1. /\ up \in [Replicas -> BOOLEAN]
        /\ post_lines \in [Replicas -> SUBSET Posts]
        /\ timeline \in [Replicas -> [Local -> SUBSET Posts]]
        /\ posts \in [Replicas -> SUBSET Posts]
        /\ stub_ \in [Local -> Replicas]
        /\ mode \in [Local -> {"none", "command", "timeline"}]
    BY DEF Init, Replicas
  <2>2. /\ toward \in [Streams -> Local]
        /\ todo \in [Streams -> SUBSET Local]
        /\ spotted \in [Streams -> SUBSET Posts]
        /\ shown \in [Streams -> SUBSET Posts]
    BY StreamFacts DEF Init
  <2>3. /\ at \in [Streams -> Replicas \cup {"none", "lost"}]
        /\ writer \in [Streams -> {"read", "forward", "write", "flush", "ended"}]
        /\ post \in [Streams -> Posts \cup {NoPost}]
    BY DEF Init
  <2>4. /\ restarts \in [Replicas -> Nat] /\ \A r \in Replicas : restarts[r] <= MaxRestarts[r]
        /\ runs \in [Local -> Nat] /\ \A u \in Local : runs[u] <= MaxRuns[u]
    BY TimelineAssumption DEF Init
  <2>5. linked \in BOOLEAN /\ failover \in BOOLEAN /\ typed \subseteq Posts
        /\ missed \subseteq Local \X Posts
    BY DEF Init
  <2>. QED  BY <2>1, <2>2, <2>3, <2>4, <2>5 DEF TypeOK
<1>2. Unopened /\ WriterHolds /\ WriterCovered
  BY StreamFacts DEF Init, Unopened, WriterHolds, WriterCovered, Busy
<1>3. FilesEntitled
  BY DEF Init, FilesEntitled
<1>. QED  BY <1>1, <1>2, <1>3 DEF Strong

\* Every variable of posts and streams keeps its type, and a writer thread with
\* a post in hand still has its server.
THEOREM TypeCorrect == Spec => []TypeOK
<1>1. Init => Strong
  BY InitStrong
<1>2. Strong /\ [Next]_vars => Strong'
  BY TypeStep, UnopenedStep, WriterStep DEF Strong
<1>. QED  BY <1>1, <1>2, PTL DEF Spec, Strong

-----------------------------------------------------------------------------
\* What the slave has, and the calls that failed, only grow.
LEMMA CoverGrows ==
    TypeOK /\ WriterHolds /\ [Next]_vars =>
        \A u \in Local, p \in Posts :
            /\ Covered(u, p) => Covered(u, p)'
            /\ PostCovered(u, p) => PostCovered(u, p)'
<1> SUFFICES ASSUME TypeOK, WriterHolds, [Next]_vars, NEW u \in Local, NEW p \in Posts
             PROVE  /\ timeline["slave"][u] \subseteq timeline'["slave"][u]
                    /\ posts["slave"] \subseteq posts'["slave"]
                    /\ missed \subseteq missed'
  BY DEF Covered, PostCovered
<1> USE DEF TypeOK
<1>a. CASE UNCHANGED <<timeline, posts, missed>>
  BY <1>a
<1>1. ASSUME NEW t \in Streams, Forward(t)
      PROVE  /\ timeline["slave"][u] \subseteq timeline'["slave"][u]
             /\ posts["slave"] \subseteq posts'["slave"]
             /\ missed \subseteq missed'
  <2>1. CASE /\ timeline' = [timeline EXCEPT !["slave"][toward[t]] = @ \cup {post[t]}]
             /\ posts' = [posts EXCEPT !["slave"] = @ \cup {post[t]}]
             /\ UNCHANGED missed
    BY <2>1 DEF Replicas
  <2>2. CASE UNCHANGED files /\ missed \subseteq missed'
    BY <2>2 DEF files
  <2>. QED  BY <1>1, <2>1, <2>2 DEF Forward, files
<1>2. ASSUME NEW t \in Streams, Write(t)
      PROVE  /\ timeline["slave"][u] \subseteq timeline'["slave"][u]
             /\ posts["slave"] \subseteq posts'["slave"]
             /\ missed \subseteq missed'
  <2>1. UNCHANGED <<posts, missed>>
    BY <1>2 DEF Write
  <2>2. CASE timeline' = [timeline EXCEPT ![at[t]][toward[t]] = @ \cup {post[t]}]
    BY <2>1, <2>2 DEF Replicas
  <2>. QED  BY <1>2, <2>1, <2>2 DEF Write, Writes
<1>3. ASSUME NEW t \in Streams, Flush(t)
      PROVE  /\ timeline["slave"][u] \subseteq timeline'["slave"][u]
             /\ posts["slave"] \subseteq posts'["slave"]
             /\ missed \subseteq missed'
  BY <1>3 DEF Flush, Replicas
<1>4. ASSUME NEW q \in Posts, SyncPosts(q)
      PROVE  /\ timeline["slave"][u] \subseteq timeline'["slave"][u]
             /\ posts["slave"] \subseteq posts'["slave"]
             /\ missed \subseteq missed'
  BY <1>4 DEF SyncPosts, Replicas
<1>. QED
  BY <1>a, <1>1, <1>2, <1>3, <1>4
     DEF Next, connectTo, CommandFails, EnterTimeline, Quit, ReadPost, Serve, WriterEnds,
         Poll, Spot, Display, Dies, Restart, vars, files

LEMMA WriterCoveredStep ==
    Strong /\ Strong' /\ WriterCovered /\ [Next]_vars => WriterCovered'
<1> SUFFICES ASSUME Strong, Strong', WriterCovered, [Next]_vars,
                    NEW s \in Streams, at'[s] = "master", writer'[s] \in Busy
             PROVE  /\ writer'[s] = "write" => Covered(toward[s], post[s])'
                    /\ writer'[s] # "forward" \/ toward'[s] # UserOf(s) =>
                           Covered(UserOf(s), post[s])' /\ PostCovered(UserOf(s), post[s])'
  BY DEF WriterCovered, Covered, PostCovered
<1> DEFINE Goal == /\ writer'[s] = "write" => Covered(toward[s], post[s])'
                   /\ writer'[s] # "forward" \/ toward'[s] # UserOf(s) =>
                          Covered(UserOf(s), post[s])' /\ PostCovered(UserOf(s), post[s])'
<1> USE StreamFacts
<1>g. \A u \in Local, p \in Posts :
         /\ Covered(u, p) => Covered(u, p)'
         /\ PostCovered(u, p) => PostCovered(u, p)'
  BY CoverGrows DEF Strong
<1>t. toward[s] \in Local /\ UserOf(s) \in Local /\ post'[s] \in Posts
  BY DEF Strong, TypeOK, WriterHolds
<1>u. ASSUME at[s] = "master", writer[s] \in Busy, post'[s] = post[s],
             writer'[s] = writer[s], toward'[s] = toward[s]
      PROVE  Goal
  <2>1. /\ writer[s] = "write" => Covered(toward[s], post[s])
        /\ writer[s] # "forward" \/ toward[s] # UserOf(s) =>
               Covered(UserOf(s), post[s]) /\ PostCovered(UserOf(s), post[s])
    BY <1>u DEF WriterCovered
  <2>. QED  BY <1>u, <1>g, <1>t, <2>1 DEF Covered, PostCovered
<1>1. ASSUME NEW u \in Local, EnterTimeline(u) PROVE Goal
  <2>1. writer[s] \in Busy /\ UNCHANGED <<writer, post, toward>>
    BY <1>1 DEF EnterTimeline, thread
  <2>2. s # Current(u)
    BY <1>1, <2>1 DEF EnterTimeline, Strong, Unopened, WriterHolds, Replicas, Current, UserOf
  <2>3. at'[s] = at[s]
    BY <1>1, <2>2 DEF EnterTimeline, Strong, TypeOK
  <2>. QED  BY <1>u, <2>1, <2>3
<1>2. ASSUME NEW t \in Streams, NEW p \in Posts, ReadPost(t, p) PROVE Goal
  <2>1. CASE t = s
    BY <1>2, <2>1 DEF ReadPost, Strong, TypeOK
  <2>2. CASE t # s
    BY <1>2, <2>2, <1>u DEF ReadPost, Strong, TypeOK
  <2>. QED  BY <2>1, <2>2
<1>3. ASSUME NEW t \in Streams, Forward(t) PROVE Goal
  <2>0. UNCHANGED <<at, post, toward>>
    BY <1>3 DEF Forward
  <2>1. CASE t = s
    <3>1. writer[s] = "forward" /\ writer'[s] = "write" /\ at[s] = "master"
      BY <1>3, <2>0, <2>1 DEF Forward, Strong, TypeOK
    <3>2. Covered(toward[s], post[s])' /\ PostCovered(toward[s], post[s])'
      <4>1. CASE linked /\ up["slave"]
        <5>1. /\ timeline' = [timeline EXCEPT !["slave"][toward[s]] = @ \cup {post[s]}]
              /\ posts' = [posts EXCEPT !["slave"] = @ \cup {post[s]}]
          BY <1>3, <2>1, <3>1, <4>1 DEF Forward, Forwards
        <5>2. post[s] \in timeline'["slave"][toward[s]] /\ post[s] \in posts'["slave"]
          BY <5>1, <1>t DEF Strong, TypeOK, Replicas
        <5>. QED  BY <2>0, <5>2 DEF Covered, PostCovered
      <4>2. CASE ~(linked /\ up["slave"])
        <5>1. <<toward[s], post[s]>> \in missed'
          BY <1>3, <2>1, <3>1, <4>2 DEF Forward, Forwards
        <5>. QED  BY <2>0, <5>1 DEF Covered, PostCovered
      <4>. QED  BY <4>1, <4>2
    <3>3. CASE toward[s] = UserOf(s)
      BY <2>0, <3>1, <3>2, <3>3 DEF Covered, PostCovered
    <3>4. CASE toward[s] # UserOf(s)
      <4>1. Covered(UserOf(s), post[s]) /\ PostCovered(UserOf(s), post[s])
        BY <3>1, <3>4 DEF WriterCovered, Busy
      <4>. QED  BY <2>0, <3>1, <3>2, <4>1, <1>g, <1>t DEF Covered, PostCovered
    <3>. QED  BY <3>3, <3>4
  <2>2. CASE t # s
    <3>1. writer'[s] = writer[s]
      BY <1>3, <2>2 DEF Forward, Strong, TypeOK
    <3>. QED  BY <1>u, <2>0, <3>1
  <2>. QED  BY <2>1, <2>2
<1>4. ASSUME NEW t \in Streams, Write(t) PROVE Goal
  <2>0. UNCHANGED <<at, post>> /\ writer[t] = "write"
    BY <1>4 DEF Write
  <2>1. CASE t = s
    <3>1. /\ Covered(UserOf(s), post[s]) /\ PostCovered(UserOf(s), post[s])
          /\ writer'[s] # "write"
      BY <1>4, <2>0, <2>1 DEF Write, WriterCovered, Busy, Strong, TypeOK
    <3>. QED  BY <2>0, <3>1, <1>g, <1>t DEF Covered, PostCovered
  <2>2. CASE t # s
    <3>1. writer'[s] = writer[s] /\ toward'[s] = toward[s]
      BY <1>4, <2>2 DEF Write, Strong, TypeOK
    <3>. QED  BY <1>u, <2>0, <3>1
  <2>. QED  BY <2>1, <2>2
<1>5. ASSUME NEW t \in Streams, Flush(t) \/ WriterEnds(t) PROVE Goal
  <2>1. /\ UNCHANGED <<at, post, toward>>
        /\ writer'[s] = writer[s]
    BY <1>5 DEF Flush, WriterEnds, Busy, Strong, TypeOK
  <2>. QED  BY <1>u, <2>1
<1>6. ASSUME NEW r \in Replicas, Dies(r) PROVE Goal
  <2>1. /\ at[s] = "master" /\ writer'[s] = writer[s]
        /\ UNCHANGED <<post, toward>>
    BY <1>6 DEF Dies, Strong, TypeOK, Replicas
  <2>. QED  BY <1>u, <2>1
<1>7. CASE UNCHANGED <<at, thread>>
  BY <1>u, <1>7 DEF thread
<1>. QED
  BY <1>1, <1>2, <1>3, <1>4, <1>5, <1>6, <1>7
     DEF Next, connectTo, CommandFails, Quit, Serve, Poll, Spot, Display, SyncPosts,
         Restart, vars, thread


LEMMA SlaveCoversStep ==
    Strong /\ Strong' /\ WriterCovered /\ SlaveCovers /\ [Next]_vars => SlaveCovers'
<1> SUFFICES ASSUME Strong, Strong', WriterCovered, SlaveCovers, [Next]_vars,
                    NEW p \in LocalPosts
             PROVE  /\ \A u \in Local : p \in timeline'["master"][u] => Covered(u, p)'
                    /\ p \in posts'["master"] => PostCovered(AuthorOf[p], p)'
  BY DEF SlaveCovers, Covered, PostCovered
<1>p. p \in Posts /\ AuthorOf[p] \in Local
  BY DEF LocalPosts
<1>g. \A u \in Local : /\ Covered(u, p) => Covered(u, p)'
                       /\ PostCovered(u, p) => PostCovered(u, p)'
  BY CoverGrows, <1>p DEF Strong
<1>c. /\ \A u \in Local : p \in timeline["master"][u] => Covered(u, p)
      /\ p \in posts["master"] => PostCovered(AuthorOf[p], p)
  BY DEF SlaveCovers, Covered, PostCovered
<1> DEFINE Goal == /\ \A u \in Local : p \in timeline'["master"][u] => Covered(u, p)'
                   /\ p \in posts'["master"] => PostCovered(AuthorOf[p], p)'
<1>u. ASSUME UNCHANGED <<timeline, posts>> PROVE Goal
  BY <1>u, <1>p, <1>g, <1>c
<1>1. ASSUME NEW s \in Streams, Forward(s) PROVE Goal
  <2>1. /\ timeline'["master"] = timeline["master"]
        /\ posts'["master"] = posts["master"]
    BY <1>1 DEF Forward, files, Strong, TypeOK, Replicas
  <2>. QED  BY <2>1, <1>p, <1>g, <1>c
<1>2. ASSUME NEW s \in Streams, Write(s) PROVE Goal
  <2>1. posts' = posts /\ missed' = missed
    BY <1>2 DEF Write
  <2>2. CASE UNCHANGED timeline
    BY <1>u, <2>1, <2>2
  <2>3. CASE timeline' = [timeline EXCEPT ![at[s]][toward[s]] = @ \cup {post[s]}]
    <3>1. CASE at[s] = "master"
      <4>1. Covered(toward[s], post[s])
        BY <1>2, <3>1 DEF WriterCovered, Write, Busy
      <4>2. \A u \in Local : p \in timeline'["master"][u] =>
               p \in timeline["master"][u] \/ (u = toward[s] /\ p = post[s])
        BY <2>3, <3>1 DEF Strong, TypeOK, Replicas
      <4>. QED  BY <2>1, <4>1, <4>2, <1>p, <1>g, <1>c
    <3>2. CASE at[s] # "master"
      <4>1. timeline'["master"] = timeline["master"]
        BY <2>3, <3>2 DEF Strong, TypeOK, Replicas
      <4>. QED  BY <2>1, <4>1, <1>p, <1>g, <1>c
    <3>. QED  BY <3>1, <3>2
  <2>. QED  BY <1>2, <2>2, <2>3 DEF Write, Writes
<1>3. ASSUME NEW s \in Streams, Flush(s) PROVE Goal
  <2>1. CASE at[s] = "master"
    <3>1. /\ Covered(UserOf(s), post[s]) /\ PostCovered(UserOf(s), post[s])
          /\ AuthorOf[post[s]] = UserOf(s)
      BY <1>3, <2>1 DEF WriterCovered, WriterHolds, Strong, Flush, Busy
    <3>2. \A u \in Local : p \in timeline'["master"][u] =>
             p \in timeline["master"][u] \/ (u = UserOf(s) /\ p = post[s])
      BY <1>3, <2>1 DEF Flush, Strong, TypeOK, Replicas
    <3>3. p \in posts'["master"] => p \in posts["master"] \/ p = post[s]
      BY <1>3, <2>1 DEF Flush, Strong, TypeOK, Replicas
    <3>. QED  BY <3>1, <3>2, <3>3, <1>p, <1>g, <1>c
  <2>2. CASE at[s] # "master"
    <3>1. timeline'["master"] = timeline["master"] /\ posts'["master"] = posts["master"]
      BY <1>3, <2>2 DEF Flush, Strong, TypeOK, Replicas
    <3>. QED  BY <3>1, <1>p, <1>g, <1>c
  <2>. QED  BY <2>1, <2>2
<1>4. ASSUME NEW q \in Posts, SyncPosts(q) PROVE Goal
  <2>1. p # q /\ posts' = posts
    BY <1>4 DEF SyncPosts, LocalPosts
  <2>2. \A u \in Local : p \in timeline'["master"][u] => p \in timeline["master"][u]
    BY <1>4, <2>1 DEF SyncPosts, Replicas
  <2>. QED  BY <2>1, <2>2, <1>p, <1>g, <1>c
<1>. QED
  BY <1>u, <1>1, <1>2, <1>3, <1>4
     DEF Next, connectTo, CommandFails, EnterTimeline, Quit, ReadPost, Serve, WriterEnds,
         Poll, Spot, Display, Dies, Restart, vars, files

\* A failover loses no post: the slave has every line, in every file, that the
\* master wrote for its clients, unless a Slave_Timeline call failed.
THEOREM SlaveHasPosts == Spec => []SlaveCovers
<1> DEFINE Inv == Strong /\ WriterCovered /\ SlaveCovers
<1>1. Init => Inv
  BY InitStrong DEF Init, SlaveCovers, Replicas
<1>2. Inv /\ [Next]_vars => Inv'
  <2>1. Strong /\ [Next]_vars => Strong'
    BY TypeStep, UnopenedStep, WriterStep DEF Strong
  <2>. QED  BY <2>1, WriterCoveredStep, SlaveCoversStep
<1>. QED  BY <1>1, <1>2, PTL DEF Spec

-----------------------------------------------------------------------------
LEMMA FilesStep == Strong /\ FilesEntitled /\ [Next]_vars => FilesEntitled'
<1> SUFFICES ASSUME Strong, FilesEntitled, [Next]_vars,
                    NEW r \in Replicas, NEW u \in Local, NEW p \in timeline'[r][u]
             PROVE  Entitled(u, p)
  BY DEF FilesEntitled, Entitled
<1>0. p \in timeline[r][u] => Entitled(u, p)
  BY DEF FilesEntitled
<1>1. ASSUME NEW s \in Streams, NEW q \in Replicas, NEW v \in Local,
             timeline' = [timeline EXCEPT ![q][v] = @ \cup {post[s]}],
             Entitled(v, post[s])
      PROVE  Entitled(u, p)
  <2>1. p \in timeline[r][u] \/ (u = v /\ p = post[s])
    BY <1>1 DEF Strong, TypeOK
  <2>. QED  BY <1>0, <1>1, <2>1
<1>2. ASSUME NEW s \in Streams, Forward(s) PROVE Entitled(u, p)
  <2>1. CASE UNCHANGED timeline
    BY <1>0, <2>1
  <2>2. CASE timeline' = [timeline EXCEPT !["slave"][toward[s]] = @ \cup {post[s]}]
    <3>1. "slave" \in Replicas /\ toward[s] \in Local /\ Entitled(toward[s], post[s])
      BY <1>2 DEF Forward, Strong, TypeOK, WriterHolds, Busy, Replicas
    <3>. QED  BY <1>1, <2>2, <3>1
  <2>. QED  BY <1>2, <2>1, <2>2 DEF Forward, files
<1>3. ASSUME NEW s \in Streams, Write(s) PROVE Entitled(u, p)
  <2>1. CASE UNCHANGED timeline
    BY <1>0, <2>1
  <2>2. CASE timeline' = [timeline EXCEPT ![at[s]][toward[s]] = @ \cup {post[s]}]
    <3>1. at[s] \in Replicas /\ toward[s] \in Local /\ Entitled(toward[s], post[s])
      BY <1>3 DEF Write, Strong, TypeOK, WriterHolds, Busy
    <3>. QED  BY <1>1, <2>2, <3>1
  <2>. QED  BY <1>3, <2>1, <2>2 DEF Write, Writes
<1>4. ASSUME NEW s \in Streams, Flush(s) PROVE Entitled(u, p)
  <2>1. at[s] \in Replicas /\ UserOf(s) \in Local /\ Entitled(UserOf(s), post[s])
    BY <1>4, StreamFacts DEF Flush, Strong, WriterHolds, Busy, Entitled
  <2>2. timeline' = [timeline EXCEPT ![at[s]][UserOf(s)] = @ \cup {post[s]}]
    BY <1>4 DEF Flush
  <2>. QED  BY <1>1, <2>1, <2>2
<1>5. ASSUME NEW q \in Posts, SyncPosts(q) PROVE Entitled(u, p)
  <2>1. p \in timeline[r][u] \/ (p = q /\ Receives(u, q))
    BY <1>5 DEF SyncPosts
  <2>. QED  BY <1>0, <2>1 DEF Receives, Entitled
<1>6. CASE UNCHANGED timeline
  BY <1>0, <1>6
<1>. QED
  BY <1>2, <1>3, <1>4, <1>5, <1>6
     DEF Next, connectTo, CommandFails, EnterTimeline, Quit, ReadPost, Serve, WriterEnds,
         Poll, Spot, Display, Dies, Restart, vars, files

LEMMA ShownStep ==
    Strong /\ FilesEntitled /\ ShownToFollowers /\ [Next]_vars => ShownToFollowers'
<1> SUFFICES ASSUME Strong, FilesEntitled, ShownToFollowers, [Next]_vars,
                    NEW s \in Streams, NEW p \in shown'[s] \cup spotted'[s]
             PROVE  Entitled(UserOf(s), p)
  BY DEF ShownToFollowers, Entitled
<1>0. p \in shown[s] \cup spotted[s] => Entitled(UserOf(s), p)
  BY DEF ShownToFollowers, Entitled
<1>1. ASSUME NEW t \in Streams, NEW q \in Posts, Spot(t, q) PROVE Entitled(UserOf(s), p)
  <2>1. Entitled(UserOf(t), q)
    BY <1>1, StreamFacts DEF Spot, Unread, FilesEntitled
  <2>2. p \in shown[s] \cup spotted[s] \/ (s = t /\ p = q)
    BY <1>1 DEF Spot, Strong, TypeOK
  <2>. QED  BY <1>0, <2>1, <2>2
<1>2. ASSUME NEW t \in Streams, Display(t) PROVE Entitled(UserOf(s), p)
  <2>1. p \in shown[s] \cup spotted[s]
    BY <1>2 DEF Display, Strong, TypeOK
  <2>. QED  BY <1>0, <2>1
<1>3. ASSUME NEW r \in Replicas, Dies(r) PROVE Entitled(UserOf(s), p)
  <2>1. p \in shown[s] \cup spotted[s]
    BY <1>3 DEF Dies
  <2>. QED  BY <1>0, <2>1
<1>4. CASE UNCHANGED <<shown, spotted>>
  BY <1>0, <1>4
<1>. QED
  BY <1>1, <1>2, <1>3, <1>4
     DEF Next, connectTo, CommandFails, EnterTimeline, Quit, ReadPost, Serve, Forward,
         Write, Flush, WriterEnds, Poll, SyncPosts, Restart, vars

\* A client is only ever sent lines of its own user or of those he follows, on
\* either server, whatever other streams and earlier runs of the client do.
THEOREM OnlyFollowersAreShown == Spec => []ShownToFollowers
<1> DEFINE Inv == Strong /\ FilesEntitled /\ ShownToFollowers
<1>1. Init => Inv
  BY InitStrong DEF Init, ShownToFollowers
<1>2. Inv /\ [Next]_vars => Inv'
  <2>1. Strong /\ [Next]_vars => Strong'
    BY TypeStep, UnopenedStep, WriterStep DEF Strong
  <2>. QED  BY <2>1, FilesStep, ShownStep
<1>. QED  BY <1>1, <1>2, PTL DEF Spec
=============================================================================
