-------------------------------- MODULE Tsd --------------------------------
(***************************************************************************)
(* The single-server SNS, src/MP2/tsd.cc: the handlers Login, Follow,      *)
(* UnFollow, List and Timeline, the file users.txt and its replay in       *)
(* RunServer, the users' timeline files; with the clients of               *)
(* src/MP2/tsc.cc that call them and read those files.                     *)
(*                                                                         *)
(* gRPC runs the handlers of several clients at once and mu_ is never      *)
(* locked, so a handler is one step per map or file it touches.  Covered:  *)
(* their interleavings, a server killed between any two of those steps and *)
(* started again, clients that leave.                                      *)
(*                                                                         *)
(* The vectors following[u] and followers[v] are modelled by how often a   *)
(* name is in them, a timeline file by the posts in it.  UnFollow erases at*)
(* begin() - 1 when the name is not there: undefined behaviour that leaves *)
(* the server "wrecked".  A wrecked process may do anything; all the model *)
(* says of it is that it can be killed.  A race inside one container is not*)
(* modelled.  Timeline also writes to its stream, from users_feed and, once*)
(* per user, from his file; tsc.cc never reads it and nothing else reads   *)
(* users_feed and inTimeline, so they are left out.                        *)
(***************************************************************************)
EXTENDS Integers, Sequences, FiniteSets

CONSTANTS
    Users,        \* user names
    Clients,      \* client processes
    OwnerOf,      \* client -> the user it runs for
    MaxCalls,     \* bound on the calls and posts clients make
    MaxPosts,     \* bound on the posts of a user
    MaxRestarts   \* bound on the restarts of the server

ASSUME TsdAssumption ==
    /\ OwnerOf \in [Clients -> Users]
    /\ MaxCalls \in Nat
    /\ MaxPosts \in Nat
    /\ MaxRestarts \in Nat

VARIABLES
    server,      \* "up", "down" or "wrecked"
    usernames,   \* the set of the same name
    active_users,
    following,   \* user -> user -> times the second is in following[first]
    followers,   \* user -> user -> times the second is in followers[first]
    users_txt,   \* the file; survives a kill
    restarts,
    calls,       \* calls made so far
    conn,        \* client -> "out", "in" once Login answered SUCCESS, or "timeline"
    task,        \* client -> progress of the handler of its call
    arg,         \* client -> the argument of that call
    shown,       \* client -> whom its last LIST showed as followed
    file,        \* user -> posts in his timeline file; survives a kill
    typed,       \* user -> posts that the server read from him
    post,        \* client -> the post its Timeline handler is busy with
    todo,        \* client -> users whose file is to get that post
    lines,       \* client -> the set of the same name: posts it has read
    owed,        \* history: client -> user -> follows acknowledged and not
                 \* taken back since
    careless     \* history: somebody unfollowed without an owed follow

memory == <<usernames, active_users, following, followers>>
user   == <<owed, careless>>
posts  == <<file, typed, post, todo, lines>>
vars   == <<server, memory, users_txt, restarts, calls, conn, task, arg, shown, user, posts>>

Steps == {"idle"} \cup {"check", "enter", "record", "activate"}
           \cup {"check follow", "write follow", "add following", "add follower"}
           \cup {"check unfollow", "write unfollow", "drop following", "drop follower"}
           \cup {"read", "write own", "write followers"}
LoginSteps == {"check", "enter", "record", "activate"}

Line(k, u, v) == [kind |-> k, a |-> u, b |-> v]
Lines == [kind : {"newuser", "follow", "unfollow"}, a : Users, b : Users]
Counts == [Users -> [Users -> Nat]]
Posts == Users \X (1..MaxPosts)
NoCounts == [u \in Users |-> [v \in Users |-> 0]]

TypeOK ==
    /\ server \in {"up", "down", "wrecked"}
    /\ usernames \subseteq Users
    /\ active_users \subseteq Users
    /\ following \in Counts
    /\ followers \in Counts
    /\ users_txt \in Seq(Lines)
    /\ restarts \in 0..MaxRestarts
    /\ calls \in 0..MaxCalls
    /\ conn \in [Clients -> {"out", "in", "timeline"}]
    /\ task \in [Clients -> Steps]
    /\ arg \in [Clients -> Users]
    /\ shown \in [Clients -> SUBSET Users]
    /\ owed \in [Clients -> [Users -> Nat]]
    /\ careless \in BOOLEAN
    /\ file \in [Users -> SUBSET Posts]
    /\ typed \in [Users -> 0..MaxPosts]
    /\ post \in [Clients -> Users \X (0..MaxPosts)]
    /\ todo \in [Clients -> SUBSET Users]
    /\ lines \in [Clients -> SUBSET Posts]

Init ==
    /\ server = "up"
    /\ usernames = {}
    /\ active_users = {}
    /\ following = NoCounts
    /\ followers = NoCounts
    /\ users_txt = <<>>
    /\ restarts = 0
    /\ calls = 0
    /\ conn = [c \in Clients |-> "out"]
    /\ task = [c \in Clients |-> "idle"]
    /\ arg = OwnerOf
    /\ shown = [c \in Clients |-> {}]
    /\ owed = [c \in Clients |-> [v \in Users |-> 0]]
    /\ careless = FALSE
    /\ file = [u \in Users |-> {}]
    /\ typed = [u \in Users |-> 0]
    /\ post = [c \in Clients |-> <<OwnerOf[c], 0>>]
    /\ todo = [c \in Clients |-> {}]
    /\ lines = [c \in Clients |-> {}]

\* A handler of client c moves from one step to another.
At(c, here) == server = "up" /\ task[c] = here
Goto(c, there) == task' = [task EXCEPT ![c] = there]

-----------------------------------------------------------------------------
(* Clients                                                                  *)

\* connectTo; a client whose Login is refused or fails exits.
connectTo(c) ==
    /\ server = "up"
    /\ conn[c] = "out" /\ task[c] = "idle"
    /\ calls < MaxCalls
    /\ calls' = calls + 1
    /\ Goto(c, "check")
    /\ lines' = [lines EXCEPT ![c] = {}]
    /\ UNCHANGED <<server, memory, users_txt, restarts, conn, arg, shown, user, file,
                   typed, post, todo>>

\* processCommand with FOLLOW or UNFOLLOW.
Command(c, v) ==
    /\ server = "up"
    /\ conn[c] = "in" /\ task[c] = "idle"
    /\ calls < MaxCalls
    /\ calls' = calls + 1
    /\ arg' = [arg EXCEPT ![c] = v]
    /\ Goto(c, "check follow") \/ Goto(c, "check unfollow")
    /\ UNCHANGED <<server, memory, users_txt, restarts, conn, shown, user, posts>>

\* TIMELINE needs no answer of the server; a stream that it does not take stays
\* dead, and the client stays in this mode.
EnterTimeline(c) ==
    /\ conn[c] = "in" /\ task[c] = "idle"
    /\ conn' = [conn EXCEPT ![c] = "timeline"]
    /\ Goto(c, IF server = "up" THEN "read" ELSE "idle")
    /\ UNCHANGED <<server, memory, users_txt, restarts, calls, arg, shown, user, posts>>

\* Mutant: the file is read as long as nothing was found in it.
BugUnread(c) == IF lines[c] = {} THEN file[OwnerOf[c]] ELSE {}

Unread(c) == file[OwnerOf[c]] \ lines[c]

\* The reader thread goes through the user's file, which it opens as the server
\* does, and shows what it has not seen yet.
Poll(c) ==
    /\ conn[c] = "timeline"
    /\ Unread(c) # {}
    /\ lines' = [lines EXCEPT ![c] = @ \cup Unread(c)]
    /\ UNCHANGED <<server, memory, users_txt, restarts, calls, conn, task, arg, shown,
                   user, file, typed, post, todo>>

\* Ctrl-C.
Quit(c) ==
    /\ conn[c] # "out"
    /\ conn[c] = "in" => task[c] = "idle"
    /\ conn' = [conn EXCEPT ![c] = "out"]
    /\ UNCHANGED <<server, memory, users_txt, restarts, calls, task, arg, shown, user, posts>>

-----------------------------------------------------------------------------
(* Login                                                                    *)

LoginCheck(c) ==
    /\ At(c, "check")
    /\ Goto(c, IF OwnerOf[c] \in active_users THEN "idle" ELSE "enter")
    /\ UNCHANGED <<server, memory, users_txt, restarts, calls, conn, arg, shown, user, posts>>

LoginEnter(c) ==
    /\ At(c, "enter")
    /\ usernames' = usernames \cup {OwnerOf[c]}
    /\ Goto(c, IF OwnerOf[c] \in usernames THEN "activate" ELSE "record")
    /\ UNCHANGED <<server, active_users, following, followers, users_txt,
                   restarts, calls, conn, arg, shown, user, posts>>

LoginRecord(c) ==
    /\ At(c, "record")
    /\ users_txt' = Append(users_txt, Line("newuser", OwnerOf[c], OwnerOf[c]))
    /\ Goto(c, "activate")
    /\ UNCHANGED <<server, memory, restarts, calls, conn, arg, shown, user, posts>>

\* Mutant: the name of the client, not of its user.
BugActivated(c) == active_users \cup {c}

Activated(c) == active_users \cup {OwnerOf[c]}

LoginActivate(c) ==
    /\ At(c, "activate")
    /\ active_users' = Activated(c)
    /\ conn' = [conn EXCEPT ![c] = "in"]
    /\ Goto(c, "idle")
    /\ UNCHANGED <<server, usernames, following, followers, users_txt, restarts,
                   calls, arg, shown, user, posts>>

-----------------------------------------------------------------------------
(* Follow: checks, writes the file, then adds to both maps                  *)

Refused(c) == arg[c] \notin usernames \/ arg[c] = OwnerOf[c]

FollowCheck(c) ==
    /\ At(c, "check follow")
    /\ Goto(c, IF Refused(c) THEN "idle" ELSE "write follow")
    /\ UNCHANGED <<server, memory, users_txt, restarts, calls, conn, arg, shown, user, posts>>

\* Mutant: nothing is written.
BugAfterFollow(c) == users_txt

AfterFollow(c) == Append(users_txt, Line("follow", OwnerOf[c], arg[c]))

FollowWrite(c) ==
    /\ At(c, "write follow")
    /\ users_txt' = AfterFollow(c)
    /\ Goto(c, "add following")
    /\ UNCHANGED <<server, memory, restarts, calls, conn, arg, shown, user, posts>>

FollowAddFollowing(c) ==
    /\ At(c, "add following")
    /\ following' = [following EXCEPT ![OwnerOf[c]][arg[c]] = @ + 1]
    /\ Goto(c, "add follower")
    /\ UNCHANGED <<server, usernames, active_users, followers, users_txt, restarts,
                   calls, conn, arg, shown, user, posts>>

FollowAddFollower(c) ==
    /\ At(c, "add follower")
    /\ followers' = [followers EXCEPT ![arg[c]][OwnerOf[c]] = @ + 1]
    /\ Goto(c, "idle")
    /\ owed' = [owed EXCEPT ![c][arg[c]] = @ + 1]
    /\ UNCHANGED <<server, usernames, active_users, following, users_txt, restarts,
                   calls, conn, arg, shown, careless, posts>>

-----------------------------------------------------------------------------
(* UnFollow: the same checks and order; it does not ask whether the caller  *)
(* follows the other                                                        *)

UnFollowCheck(c) ==
    /\ At(c, "check unfollow")
    /\ Goto(c, IF Refused(c) THEN "idle" ELSE "write unfollow")
    /\ UNCHANGED <<server, memory, users_txt, restarts, calls, conn, arg, shown, user, posts>>

UnFollowWrite(c) ==
    /\ At(c, "write unfollow")
    /\ users_txt' = Append(users_txt, Line("unfollow", OwnerOf[c], arg[c]))
    /\ Goto(c, "drop following")
    /\ IF owed[c][arg[c]] = 0
       THEN careless' = TRUE /\ UNCHANGED owed
       ELSE /\ owed' = [owed EXCEPT ![c][arg[c]] = @ - 1]
            /\ UNCHANGED careless
    /\ UNCHANGED <<server, memory, restarts, calls, conn, arg, shown, posts>>

UnFollowDropFollowing(c) ==
    /\ At(c, "drop following")
    /\ IF following[OwnerOf[c]][arg[c]] > 0
       THEN /\ following' = [following EXCEPT ![OwnerOf[c]][arg[c]] = @ - 1]
            /\ Goto(c, "drop follower")
            /\ UNCHANGED server
       ELSE /\ server' = "wrecked"
            /\ UNCHANGED <<following, task>>
    /\ UNCHANGED <<usernames, active_users, followers, users_txt, restarts, calls,
                   conn, arg, shown, user, posts>>

\* Mutant: the other map is left alone.
BugWithoutFollower(c) == followers

WithoutFollower(c) == [followers EXCEPT ![arg[c]][OwnerOf[c]] = @ - 1]

UnFollowDropFollower(c) ==
    /\ At(c, "drop follower")
    /\ IF followers[arg[c]][OwnerOf[c]] > 0
       THEN /\ followers' = WithoutFollower(c)
            /\ Goto(c, "idle")
            /\ UNCHANGED server
       ELSE /\ server' = "wrecked"
            /\ UNCHANGED <<followers, task>>
    /\ UNCHANGED <<usernames, active_users, following, users_txt, restarts, calls,
                   conn, arg, shown, user, posts>>

\* Mutant: the other map.
BugFollowed(u) == {v \in Users : followers[u][v] > 0}

Followed(u) == {v \in Users : following[u][v] > 0}

\* That List also returns usernames is left out.
List(c) ==
    /\ server = "up" /\ conn[c] = "in" /\ task[c] = "idle"
    /\ shown' = [shown EXCEPT ![c] = Followed(OwnerOf[c])]
    /\ UNCHANGED <<server, memory, users_txt, restarts, calls, conn, task, arg, user, posts>>

-----------------------------------------------------------------------------
(* Timeline: reads posts while the client is there; the author's own file   *)
(* gets a post first, then those of his followers, one by one               *)

ReadPost(c) ==
    /\ At(c, "read") /\ conn[c] = "timeline"
    /\ calls < MaxCalls /\ typed[OwnerOf[c]] < MaxPosts
    /\ calls' = calls + 1
    /\ typed' = [typed EXCEPT ![OwnerOf[c]] = @ + 1]
    /\ post' = [post EXCEPT ![c] = <<OwnerOf[c], typed[OwnerOf[c]] + 1>>]
    /\ Goto(c, "write own")
    /\ UNCHANGED <<server, memory, users_txt, restarts, conn, arg, shown, user, file,
                   todo, lines>>

\* Mutant: the users whom the author follows.
BugRecipients(u) == Followed(u)

Recipients(u) == {v \in Users : followers[u][v] > 0}

WriteOwn(c) ==
    /\ At(c, "write own")
    /\ file' = [file EXCEPT ![OwnerOf[c]] = @ \cup {post[c]}]
    /\ todo' = [todo EXCEPT ![c] = Recipients(OwnerOf[c])]
    /\ Goto(c, "write followers")
    /\ UNCHANGED <<server, memory, users_txt, restarts, calls, conn, arg, shown, user,
                   typed, post, lines>>

WriteFollower(c, v) ==
    /\ At(c, "write followers") /\ v \in todo[c]
    /\ file' = [file EXCEPT ![v] = @ \cup {post[c]}]
    /\ todo' = [todo EXCEPT ![c] = @ \ {v}]
    /\ UNCHANGED <<server, memory, users_txt, restarts, calls, conn, task, arg, shown,
                   user, typed, post, lines>>

\* All files have the post: it waits for the next one, or finds the client gone.
NextRead(c) ==
    /\ \/ At(c, "write followers") /\ todo[c] = {} /\ Goto(c, "read")
       \/ At(c, "read") /\ conn[c] # "timeline" /\ Goto(c, "idle")
    /\ UNCHANGED <<server, memory, users_txt, restarts, calls, conn, arg, shown, user, posts>>

-----------------------------------------------------------------------------
(* The server dies and comes back                                           *)

\* A call in progress fails; a client that was logging in exits.
Kill ==
    /\ server # "down"
    /\ server' = "down"
    /\ usernames' = {}
    /\ active_users' = {}
    /\ following' = NoCounts
    /\ followers' = NoCounts
    /\ task' = [c \in Clients |-> "idle"]
    /\ todo' = [c \in Clients |-> {}]
    /\ UNCHANGED <<users_txt, restarts, calls, conn, arg, shown, user, file, typed, post,
                   lines>>

\* The replay in RunServer, by what it adds up to: the names, and follows less
\* unfollows.  An unfollow line that finds nothing to erase wrecks it.
Occurs(l, k) == Cardinality({j \in 1..k : users_txt[j] = l})
Net(u, v, k) == Occurs(Line("follow", u, v), k) - Occurs(Line("unfollow", u, v), k)

Replayable ==
    \A k \in DOMAIN users_txt :
        users_txt[k].kind = "unfollow" =>
            Net(users_txt[k].a, users_txt[k].b, k - 1) > 0

Entered  == {users_txt[k].a : k \in {j \in DOMAIN users_txt : users_txt[j].kind = "newuser"}}
Recorded ==
    [u \in Users |-> [v \in Users |->
        LET n == Net(u, v, Len(users_txt)) IN IF n > 0 THEN n ELSE 0]]

\* Mutant: followed and follower swapped.
BugRecordedFollowers == Recorded

RecordedFollowers == [v \in Users |-> [u \in Users |-> Recorded[u][v]]]

RunServer ==
    /\ server = "down"
    /\ restarts < MaxRestarts
    /\ restarts' = restarts + 1
    /\ IF Replayable
       THEN /\ server' = "up"
            /\ usernames' = Entered
            /\ following' = Recorded
            /\ followers' = RecordedFollowers
       ELSE /\ server' = "wrecked"
            /\ UNCHANGED <<usernames, following, followers>>
    /\ UNCHANGED <<active_users, users_txt, calls, conn, task, arg, shown, user, posts>>

-----------------------------------------------------------------------------
Distribute(c) == WriteOwn(c) \/ (\E v \in Users : WriteFollower(c, v)) \/ NextRead(c)

Next ==
    \/ \E c \in Clients :
           \/ connectTo(c)
           \/ \E v \in Users : Command(c, v)
           \/ EnterTimeline(c) \/ Poll(c) \/ Quit(c)
           \/ LoginCheck(c) \/ LoginEnter(c) \/ LoginRecord(c) \/ LoginActivate(c)
           \/ FollowCheck(c) \/ FollowWrite(c)
           \/ FollowAddFollowing(c) \/ FollowAddFollower(c)
           \/ UnFollowCheck(c) \/ UnFollowWrite(c)
           \/ UnFollowDropFollowing(c) \/ UnFollowDropFollower(c)
           \/ List(c)
           \/ ReadPost(c) \/ Distribute(c)
    \/ Kill
    \/ RunServer

Spec == Init /\ [][Next]_vars

\* The handler threads and the client's reader thread run.
FairSpec == Spec /\ \A c \in Clients : WF_vars(Distribute(c)) /\ WF_vars(Poll(c))

-----------------------------------------------------------------------------
(* Properties.  All but the last are meant for clients of different users:  *)
(* two for one user interleave their writes and their updates differently.  *)

\* The two maps mirror each other, but for the one update a handler is about
\* to make.
Mirror ==
    \A u, v \in Users :
        \/ server # "up"
        \/ following[u][v] = followers[v][u]
        \/ \E c \in Clients : /\ OwnerOf[c] = u /\ arg[c] = v
                              /\ task[c] \in {"add follower", "drop follower"}

\* A server that runs holds what a restart would make it hold, wherever no
\* handler is between its line and its updates.
ReplayAgrees ==
    server = "up" =>
        \A u, v \in Users :
            \/ /\ following[u][v] = Recorded[u][v]
               /\ followers[v][u] = Recorded[u][v]
            \/ \E c \in Clients :
                   /\ OwnerOf[c] = u /\ arg[c] = v
                   /\ task[c] \in {"add following", "add follower",
                                   "drop following", "drop follower"}

\* Who unfollows only users he was told he follows never breaks the server,
\* neither now nor, through the line he leaves, at a later restart: follows
\* whose answer a kill swallowed and repeated follows included.
CarefulUsersSafe == ~careless => Replayable /\ server # "wrecked"

\* A file holds only posts of its user, or of someone he has followed by then
\* as users.txt says, and never before the author's own file: kills, restarts
\* and follows that race the distribution included.
FilesJustified ==
    \A u \in Users : \A p \in file[u] :
        /\ p \in file[p[1]]
        /\ u # p[1] => Occurs(Line("follow", u, p[1]), Len(users_txt)) > 0

\* "making it available on his/her follower's streams" (tsd.cc:191), in effect:
\* a post that the server has read is shown by the client of any user who
\* follows the author from then on and stays in timeline mode, if the server is
\* not killed; the author's client may leave.
PostsArrive ==
    \A c \in Clients : \A d \in Clients \ {c}, n \in 1..MaxPosts :
        /\ task[c] = "write own" /\ post[c] = <<OwnerOf[c], n>>
        /\ [](/\ server = "up" /\ conn[d] = "timeline"
              /\ followers[OwnerOf[c]][OwnerOf[d]] > 0)
        ~> <<OwnerOf[c], n>> \in lines[d]

\* The server implements the graph of follows: what clients see in LIST is
\* explained by follows and unfollows that take effect one at a time, when
\* their line is in the file, and that no kill takes back.
Graph == INSTANCE SocialGraph WITH edges <- Recorded
GraphSpec == Graph!Spec

\* "verify if the username is available or already taken" (tsd.cc:159): no two
\* clients are logged in under one name, the server never having been killed.
UniqueLogin ==
    restarts = 0 =>
        \A c, d \in Clients :
            conn[c] = "in" /\ conn[d] = "in" /\ OwnerOf[c] = OwnerOf[d] => c = d
=============================================================================
