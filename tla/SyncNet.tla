------------------------------- MODULE SyncNet -------------------------------
(***************************************************************************)
(* The synchronizers of all clusters at work, src/MP3/synchronizer.cc: the *)
(* reader thread, which tails the log and the posts of its own cluster and *)
(* calls its peers, and the handlers new_user, new_follow and new_post,    *)
(* which write what the peers tell into the files of their cluster.        *)
(*                                                                         *)
(* The place the reader has reached is a count, files[0].second, that the  *)
(* handlers increment too.  Covered: handlers between any two steps of the *)
(* reader and of each other, updates of the count that are lost, a count   *)
(* carried over to the slave's log, synchronizers killed and started again *)
(* between any two steps, and calls to a peer that is down.                *)
(*                                                                         *)
(* How a synchronizer gets connected or is told to switch is ControlPlane; *)
(* what servers do with the lines is ServerPair.                           *)
(***************************************************************************)
EXTENDS Integers, FiniteSets, SequencesExt

CONSTANTS
    Clusters,
    Users,
    HomeOf,       \* user -> the cluster he logs in to
    Follows,      \* pairs <<u, v>>: u asks once to follow v
    Authors,      \* users who post; one post each
    MaxStarts,    \* cluster -> bound on the starts of its synchronizer
    MaySwitch     \* clusters whose synchronizer may be told to use the slave

ASSUME SyncNetAssumption ==
    /\ IsFiniteSet(Clusters)
    /\ HomeOf \in [Users -> Clusters]
    /\ Follows \subseteq Users \X Users
    /\ Authors \subseteq Users
    /\ MaxStarts \in [Clusters -> Nat \ {0}]
    /\ MaySwitch \subseteq Clusters

Replicas == {"master", "slave"}
Peers(s) == Clusters \ {s}

\* Lines of the logs; a "post" is a line of the posts files and timelines.
Line(k, x, y) == [kind |-> k, a |-> x, b |-> y]
LocalKinds == {"newuser", "follow"}
Lines  == [kind : LocalKinds \cup {"SYNC::newuser", "SYNC::follow"}, a : Users, b : Users]
Posts  == {Line("post", u, u) : u \in Authors}
Requests == {Line("newuser", u, u) : u \in Users}
               \cup {Line("follow", e[1], e[2]) : e \in Follows}
NoLine == Line("none", "none", "none")

VARIABLES
    log,        \* cluster -> server -> its log
    posts,      \* cluster -> the posts file of either server
    timeline,   \* cluster -> <<user, post>> that new_post wrote to timelines
    alive, connected, starts,
    type,       \* cluster -> whose files the reader reads
    awake,      \* cluster -> the reader finds the log newer than files[0].first
    second,     \* cluster -> files[0].second
    db,         \* cluster -> names in the synchronizer's client_db
    following,  \* cluster -> <<user, followee>> in its client_following lists
    at,         \* cluster -> where the reader is
    file,       \* cluster -> the log it has open
    cur,        \* cluster -> lines of it consumed in this pass
    work,       \* cluster -> the line it tells its peers of, or NoLine
    todo,       \* cluster -> the peers to call yet
    sent,       \* cluster -> the reader's set of posts
    handlers,   \* handlers running at peers
    told,       \* history: cluster -> lines the reader read since its start
    counted,    \* history: cluster -> increments by handlers since its start
    raced,      \* history: cluster -> two handlers were incrementing at once
    failed,     \* history: <<peer, user>>: a call about the user failed there
    lossy       \* history: cluster -> the reader has passed over a local line

files   == <<log, posts, timeline>>
process == <<alive, connected, starts, type, awake>>
memory  == <<second, db, following>>
reader  == <<at, file, cur, work, todo, sent>>
history == <<told, counted, raced, failed, lossy>>
vars    == <<files, process, memory, reader, handlers, history>>

Places == {"asleep", "log", "call", "waiting", "posts"}
Handlers == [from : Clusters, run : Nat, to : Clusters, line : Lines \cup Posts,
             step : {"slave", "master", "load", "store"}, register : Nat]

TypeOK ==
    /\ log \in [Clusters -> [Replicas -> Seq(Lines)]]
    /\ posts \in [Clusters -> SUBSET Posts]
    /\ timeline \in [Clusters -> SUBSET (Users \X Posts)]
    /\ alive \in [Clusters -> BOOLEAN] /\ connected \in [Clusters -> BOOLEAN]
    /\ starts \in [Clusters -> Nat] /\ \A s \in Clusters : starts[s] <= MaxStarts[s]
    /\ type \in [Clusters -> Replicas] /\ file \in [Clusters -> Replicas]
    /\ awake \in [Clusters -> BOOLEAN]
    /\ second \in [Clusters -> Nat] /\ cur \in [Clusters -> Nat]
    /\ db \in [Clusters -> SUBSET Users]
    /\ following \in [Clusters -> SUBSET (Users \X Users)]
    /\ at \in [Clusters -> Places]
    /\ work \in [Clusters -> Lines \cup Posts \cup {NoLine}]
    /\ todo \in [Clusters -> SUBSET Clusters]
    /\ sent \in [Clusters -> SUBSET Posts]
    /\ handlers \subseteq Handlers
    /\ told \in [Clusters -> SUBSET Lines] /\ counted \in [Clusters -> Nat]
    /\ raced \in [Clusters -> BOOLEAN]
    /\ failed \subseteq Clusters \X Users /\ lossy \in [Clusters -> BOOLEAN]

Init ==
    /\ log = [s \in Clusters |-> [r \in Replicas |-> <<>>]]
    /\ posts = [s \in Clusters |-> {}]
    /\ timeline = [s \in Clusters |-> {}]
    /\ alive = [s \in Clusters |-> TRUE]
    /\ connected = alive
    /\ starts = [s \in Clusters |-> 1]
    /\ type = [s \in Clusters |-> "master"]
    /\ awake \in [Clusters -> BOOLEAN]
    /\ second = [s \in Clusters |-> 0]
    /\ db = [s \in Clusters |-> {}]
    /\ following = [s \in Clusters |-> {}]
    /\ at = [s \in Clusters |-> "asleep"]
    /\ file = type
    /\ cur = [s \in Clusters |-> 0]
    /\ work = [s \in Clusters |-> NoLine]
    /\ todo = [s \in Clusters |-> {}]
    /\ sent = [s \in Clusters |-> {}]
    /\ handlers = {}
    /\ told = [s \in Clusters |-> {}]
    /\ counted = [s \in Clusters |-> 0]
    /\ raced = [s \in Clusters |-> FALSE]
    /\ failed = {}
    /\ lossy = [s \in Clusters |-> FALSE]

InLog(s, r, l) == l \in ToSet(log[s][r])
Knows(s, u) == \E k \in {"newuser", "SYNC::newuser"} : InLog(s, "master", Line(k, u, u))

Write(s, r, l) == log' = [log EXCEPT ![s][r] = Append(@, l)]

-----------------------------------------------------------------------------
(* The servers of a cluster, as far as their files go: the master forwards  *)
(* before it writes, so its slave's files get the line too                  *)

\* A user is logged once, and a follow when master and slave know both; that it
\* may be logged again is left out.
ServersLog(s, l) ==
    /\ HomeOf[l.a] = s
    /\ ~InLog(s, "master", l)
    /\ l.kind = "follow" => Knows(s, l.a) /\ Knows(s, l.b)
    /\ log' = [log EXCEPT ![s] = [r \in Replicas |-> Append(@[r], l)]]
    /\ UNCHANGED <<posts, timeline, process, memory, reader, handlers, history>>

ServersPost(s, p) ==
    /\ HomeOf[p.a] = s
    /\ Knows(s, p.a)
    /\ p \notin posts[s]
    /\ posts' = [posts EXCEPT ![s] = @ \cup {p}]
    /\ UNCHANGED <<log, timeline, process, memory, reader, handlers, history>>

-----------------------------------------------------------------------------
(* The process: connected, told to switch, killed, started                  *)

connectSyncs(s) ==
    /\ \A t \in Clusters : alive[t]
    /\ ~connected[s]
    /\ connected' = [connected EXCEPT ![s] = TRUE]
    /\ UNCHANGED <<files, alive, starts, type, awake, memory, reader, handlers, history>>

SwitchToSlave(s) ==
    /\ alive[s]
    /\ s \in MaySwitch
    /\ type[s] = "master"
    /\ type' = [type EXCEPT ![s] = "slave"]
    /\ UNCHANGED <<files, alive, connected, starts, awake, memory, reader, handlers, history>>

\* Its handlers go with the process; calls it made go on at its peers.
Kill(s) ==
    /\ alive[s]
    /\ starts[s] < MaxStarts[s]
    /\ alive' = [alive EXCEPT ![s] = FALSE]
    /\ connected' = [connected EXCEPT ![s] = FALSE]
    /\ type' = [type EXCEPT ![s] = "master"]
    /\ second' = [second EXCEPT ![s] = 0]
    /\ db' = [db EXCEPT ![s] = {}]
    /\ following' = [following EXCEPT ![s] = {}]
    /\ at' = [at EXCEPT ![s] = "asleep"]
    /\ file' = [file EXCEPT ![s] = "master"]
    /\ cur' = [cur EXCEPT ![s] = 0]
    /\ work' = [work EXCEPT ![s] = NoLine]
    /\ todo' = [todo EXCEPT ![s] = {}]
    /\ sent' = [sent EXCEPT ![s] = {}]
    /\ handlers' = {h \in handlers : h.to # s}
    /\ told' = [told EXCEPT ![s] = {}]
    /\ counted' = [counted EXCEPT ![s] = 0]
    /\ raced' = [raced EXCEPT ![s] = FALSE]
    /\ failed' = failed \cup {<<s, h.line.a>> : h \in {g \in handlers : g.to = s}}
    /\ UNCHANGED <<files, starts, awake, lossy>>

\* main() means to read the log back, but routing_table is empty: the name it
\* opens is no file.  So client_db starts empty and the count at 0, and
\* files[0].first is what the stack held: the reader finds every log newer than
\* it, or none.
Start(s) ==
    /\ ~alive[s]
    /\ alive' = [alive EXCEPT ![s] = TRUE]
    /\ starts' = [starts EXCEPT ![s] = @ + 1]
    /\ \E b \in BOOLEAN : awake' = [awake EXCEPT ![s] = b]
    /\ UNCHANGED <<files, connected, type, memory, reader, handlers, history>>

-----------------------------------------------------------------------------
(* The reader thread                                                        *)

BugForwardedAll(l) == l # NoLine

Forwarded(l) == l.kind \in LocalKinds

ReaderAt(s, place) == alive[s] /\ connected[s] /\ at[s] = place
Go(s, place) == at' = [at EXCEPT ![s] = place]

\* The local lines that the count has passed and the reader has not told.
Lost(s) == {k \in DOMAIN log[s][type[s]] :
                /\ k <= second[s]
                /\ Forwarded(log[s][type[s]][k])
                /\ log[s][type[s]][k] \notin told[s]}

\* After the log come the posts it has not told, if any, and five seconds' sleep.
NextPlace(s) == IF posts[s] \subseteq sent[s] THEN "asleep" ELSE "posts"

\* It opens the log of its type and skips files[0].second lines; when there are
\* not so many the stream has failed and nothing is read.
Wake(s) ==
    /\ ReaderAt(s, "asleep")
    /\ file' = [file EXCEPT ![s] = type[s]]
    /\ cur' = [cur EXCEPT ![s] = second[s]]
    /\ Go(s, IF awake[s] /\ second[s] <= Len(log[s][type[s]]) THEN "log" ELSE NextPlace(s))
    /\ lossy' = [lossy EXCEPT ![s] = @ \/ Lost(s) # {}]
    /\ UNCHANGED <<files, process, memory, work, todo, sent, handlers, told, counted, raced,
                   failed>>

\* A new line is counted; a local one is told to the peers.  The increment is
\* one step here: to lose it, or a handler's, it is enough that the handler
\* loads before it and stores after it.
BugCountsTwice(s) == second' = [second EXCEPT ![s] = @ + 2]

Counts(s) == second' = [second EXCEPT ![s] = @ + 1]

Tell(s, l) ==
    /\ work' = [work EXCEPT ![s] = l]
    /\ todo' = [todo EXCEPT ![s] = Peers(s)]
    /\ Go(s, "call")

ReadLine(s) ==
    /\ ReaderAt(s, "log")
    /\ cur[s] < Len(log[s][file[s]])
    /\ cur' = [cur EXCEPT ![s] = @ + 1]
    /\ Counts(s)
    /\ LET l == log[s][file[s]][cur[s] + 1]
       IN  /\ told' = [told EXCEPT ![s] = @ \cup {l}]
           /\ IF Forwarded(l) THEN Tell(s, l) ELSE UNCHANGED <<at, work, todo>>
    /\ UNCHANGED <<files, process, db, following, file, sent, handlers, counted, raced, failed,
                   lossy>>

EndOfFile(s) ==
    /\ \/ ReaderAt(s, "log") /\ cur[s] >= Len(log[s][file[s]])
       \/ ReaderAt(s, "posts") /\ NextPlace(s) = "asleep"
    /\ Go(s, NextPlace(s))
    /\ UNCHANGED <<files, process, memory, file, cur, work, todo, sent, handlers, history>>

\* A post is told once, in whatever file it is found.
ReadPost(s, p) ==
    /\ ReaderAt(s, "posts")
    /\ p \in posts[s] \ sent[s]
    /\ sent' = [sent EXCEPT ![s] = @ \cup {p}]
    /\ Tell(s, p)
    /\ UNCHANGED <<files, process, memory, file, cur, handlers, history>>

\* new_user, new_follow or new_post of one peer, then of the other; whether a
\* call fails is not looked at.
Ours(s) == {h \in handlers : h.from = s /\ h.run = starts[s]}

CallPeer(s, t) ==
    /\ ReaderAt(s, "call")
    /\ t \in todo[s]
    /\ todo' = [todo EXCEPT ![s] = @ \ {t}]
    /\ IF alive[t]
       THEN /\ handlers' = handlers \cup
                   {[from |-> s, run |-> starts[s], to |-> t, line |-> work[s],
                     step |-> "slave", register |-> 0]}
            /\ Go(s, "waiting")
            /\ UNCHANGED failed
       ELSE /\ failed' = failed \cup {<<t, work[s].a>>}
            /\ UNCHANGED <<handlers, at>>
    /\ UNCHANGED <<files, process, memory, file, cur, work, sent, told, counted, raced, lossy>>

CallReturns(s) ==
    /\ ReaderAt(s, "waiting")
    /\ Ours(s) = {}
    /\ Go(s, "call")
    /\ UNCHANGED <<files, process, memory, file, cur, work, todo, sent, handlers, history>>

\* Only now does the reader enter the line in client_db.
Remember(s) ==
    /\ ReaderAt(s, "call")
    /\ todo[s] = {}
    /\ LET l == work[s] IN
       /\ db' = IF l.kind = "newuser" THEN [db EXCEPT ![s] = @ \cup {l.a}] ELSE db
       /\ following' = IF l.kind = "follow" /\ l.a \in db[s]
                       THEN [following EXCEPT ![s] = @ \cup {<<l.a, l.b>>}] ELSE following
       /\ Go(s, IF l.kind = "post" THEN NextPlace(s) ELSE "log")
    /\ work' = [work EXCEPT ![s] = NoLine]
    /\ UNCHANGED <<files, process, second, file, cur, todo, sent, handlers, history>>

-----------------------------------------------------------------------------
(* The handlers                                                             *)

BugEchoFollow(l) == [l EXCEPT !.kind = "SYNC::follow"]
BugEchoSync(l) == [l EXCEPT !.kind = "SYNC"]

Echo(l) == [l EXCEPT !.kind = IF @ \in {"newuser", "SYNC::newuser"} THEN "SYNC::newuser" ELSE "SYNC::follow"]
Ends(h) == handlers' = handlers \ {h}
Steps(h, step, r) ==
    handlers' = (handlers \ {h}) \cup {[h EXCEPT !.step = step, !.register = r]}

BugAcceptsKnown(h) == h.line.b \in db[h.to]

\* new_follow returns at once when it does not know the followee.
Accepts(h) == h.line.kind = "follow" => h.line.b \in db[h.to]

\* The slave's log first, then the master's, then the count.
WriteSlave(h) ==
    /\ h.step = "slave" /\ h.line.kind # "post"
    /\ IF Accepts(h)
       THEN Write(h.to, "slave", Echo(h.line)) /\ Steps(h, "master", 0)
       ELSE Ends(h) /\ UNCHANGED log
    /\ UNCHANGED <<posts, timeline, process, memory, reader, history>>

WriteMaster(h) ==
    /\ h.step = "master"
    /\ Write(h.to, "master", Echo(h.line))
    /\ Steps(h, "load", 0)
    /\ UNCHANGED <<posts, timeline, process, memory, reader, history>>

LoadCount(h) ==
    /\ h.step = "load"
    /\ Steps(h, "store", second[h.to])
    /\ raced' = [raced EXCEPT ![h.to] =
                     @ \/ \E g \in handlers \ {h} : g.to = h.to /\ g.step = "store"]
    /\ UNCHANGED <<files, process, memory, reader, told, counted, failed, lossy>>

StoreCount(h) ==
    /\ h.step = "store"
    /\ second' = [second EXCEPT ![h.to] = h.register + 1]
    /\ counted' = [counted EXCEPT ![h.to] = @ + 1]
    /\ Ends(h)
    /\ UNCHANGED <<files, process, db, following, reader, told, raced, failed, lossy>>

BugFollowersAll(t, v) == db[t]
BugFollowersReversed(t, v) == {u \in Users : <<v, u>> \in following[t]}

Followers(t, v) == {u \in Users : <<u, v>> \in following[t]}

\* new_post writes the timelines of the local followers, both servers' copies.
new_post(h) ==
    /\ h.line.kind = "post"
    /\ timeline' = [timeline EXCEPT ![h.to] = @ \cup
            Followers(h.to, h.line.a) \X {h.line}]
    /\ Ends(h)
    /\ UNCHANGED <<log, posts, process, memory, reader, history>>

-----------------------------------------------------------------------------
ReadStep(s) == \/ Wake(s) \/ ReadLine(s) \/ EndOfFile(s)
               \/ \E p \in Posts : ReadPost(s, p)
               \/ \E t \in Clusters : CallPeer(s, t)
               \/ CallReturns(s) \/ Remember(s)
Handle(h) == \/ WriteSlave(h) \/ WriteMaster(h) \/ LoadCount(h) \/ StoreCount(h)
             \/ new_post(h)

Next ==
    \/ \E s \in Clusters :
           \/ \E l \in Requests : ServersLog(s, l)
           \/ \E p \in Posts : ServersPost(s, p)
           \/ connectSyncs(s) \/ SwitchToSlave(s) \/ Kill(s) \/ Start(s)
           \/ ReadStep(s)
    \/ \E h \in handlers : Handle(h)

Spec == Init /\ [][Next]_vars

\* The reader sleeps five seconds at a time, handlers run to their end.
Fairness ==
    /\ \A s \in Clusters : WF_vars(ReadStep(s))
    /\ \A t \in Clusters : WF_vars(\E h \in handlers : h.to = t /\ Handle(h))

FairSpec == Spec /\ Fairness

-----------------------------------------------------------------------------
(* Properties                                                               *)

\* What stands in a log for a peer's line a server of that peer has logged: no
\* synchronizer invents lines or passes on what another told it, so they never
\* go round in a circle; and who is followed is a user of this cluster.
EchoesJustified ==
    \A s \in Clusters, r \in Replicas : \A k \in DOMAIN log[s][r] :
        LET l == log[s][r][k] IN
        l.kind \notin LocalKinds =>
            /\ HomeOf[l.a] # s
            /\ \E q \in Replicas : \E o \in ToSet(log[HomeOf[l.a]][q]) :
                   o.kind \in LocalKinds /\ Echo(o) = l
            /\ l.kind = "SYNC::follow" => HomeOf[l.b] = s

\* Every SYNC line makes the reader lose one local line at most, whatever the
\* order in which handlers write, the reader reads and both count (of clusters
\* that do not switch logs).  Unless two handlers increment at once: the first
\* store may set the count far back, the reader goes over lines it has told, and
\* the second store then moves it as far ahead as it came.
LossBounded ==
    \A s \in Clusters \ MaySwitch : raced[s] \/ Cardinality(Lost(s)) <= counted[s]

\* A server that replays its log finds the follower of a SYNC::follow line
\* entered before it, or indexes client_db with -1 (server.cc:524): he is,
\* unless a call about him failed or his synchronizer passed over a line.
FollowerEntered ==
    \A s \in Clusters, r \in Replicas : \A k \in DOMAIN log[s][r] :
        LET l == log[s][r][k] IN
        l.kind = "SYNC::follow" =>
            \/ \E j \in 1..(k - 1) : log[s][r][j] = Line("SYNC::newuser", l.a, l.a)
            \/ <<s, l.a>> \in failed
            \/ lossy[HomeOf[l.a]]

\* A user whose line is ahead of the reader gets to every peer that stays up, if
\* his synchronizer runs and no peer tells it anything in the meantime.
Steady(s) == alive[s] /\ connected[s] /\ type[s] = "master"
Ahead(s, k) == k > IF at[s] = "asleep" THEN second[s] ELSE cur[s]

UserArrives ==
    \A u \in Users : \A t \in Peers(HomeOf[u]) :
        LET s == HomeOf[u] IN
        /\ \E k \in DOMAIN log[s]["master"] :
               Ahead(s, k) /\ log[s]["master"][k] = Line("newuser", u, u)
        /\ [](Steady(s) /\ awake[s] /\ alive[t] /\ \A h \in handlers : h.to # s)
        ~> InLog(t, "master", Line("SYNC::newuser", u, u))

\* new_post writes a peer's post only for a user who asked to follow its author,
\* and never a post of this cluster, whose server writes it.
PostsToFollowers ==
    \A s \in Clusters : \A e \in timeline[s] :
        /\ HomeOf[e[1]] = s /\ HomeOf[e[2].a] # s
        /\ InLog(s, "master", Line("follow", e[1], e[2].a))

\* A post not told yet gets to a follower whose synchronizer knows of the
\* follow and stays up.
PostArrives ==
    \A p \in Posts, u \in Users :
        LET s == HomeOf[p.a]
            t == HomeOf[u]
        IN  /\ s # t /\ p \in posts[s] \ sent[s]
            /\ [](Steady(s) /\ alive[t] /\ <<u, p.a>> \in following[t])
            ~> <<u, p>> \in timeline[t]
=============================================================================
