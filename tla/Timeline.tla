------------------------------ MODULE Timeline ------------------------------
(***************************************************************************)
(* Posts in one cluster of the distributed SNS: the Timeline handler of    *)
(* src/MP3/server.cc with its two threads, Slave_Timeline, the files they  *)
(* write, and the clients of src/MP3/client.cc, in command mode and in     *)
(* timeline mode, which no client leaves but by Ctrl-C.                    *)
(*                                                                         *)
(* Covered: streams of several clients on either server, posts in any      *)
(* order, lines that the synchronizer writes (new_post of SyncNet), streams*)
(* whose client is gone, both servers killed and restarted between any two *)
(* steps.  The first Read of the handler takes the client's "Set Stream"   *)
(* message, so the branch of the writer that waits for it is never taken   *)
(* and Client::stream stays 0: neither is in the model.                    *)
(*                                                                         *)
(* A file or set of lines is modelled as a set of posts: no two posts make *)
(* the same line, and how often a file has a line is left out.  Who follows*)
(* whom is fixed; ServerPair is about that.                                *)
(***************************************************************************)
EXTENDS Naturals, FiniteSets

CONSTANTS
    Local,        \* users of this cluster
    Posts,        \* the posts ever made
    AuthorOf,     \* post -> its author, local or not
    FollowersOf,  \* author -> the local users who follow him
    MaxRuns,      \* user -> bound on the runs of his client
    MaxRestarts   \* server -> bound on its restarts

Replicas == {"master", "slave"}

ASSUME TimelineAssumption ==
    /\ IsFiniteSet(Local)
    /\ FollowersOf \in [{AuthorOf[p] : p \in Posts} -> SUBSET Local]
    /\ MaxRuns \in [Local -> Nat]
    /\ MaxRestarts \in [Replicas -> Nat]

\* One run of a user's client opens one stream at most.
Streams == UNION {{u} \X (1..MaxRuns[u]) : u \in Local}
UserOf(s) == s[1]
LocalPosts == {p \in Posts : AuthorOf[p] \in Local}

VARIABLES
    up, restarts, linked, failover,   \* as in ServerPair
    post_lines,   \* server -> the set of the same name
    timeline,     \* server -> user -> lines of his timeline file
    posts,        \* server -> lines of its posts file
    runs,         \* user -> runs of his client so far
    stub_,        \* user -> the server his client calls
    mode,         \* user -> "none", "command" or "timeline"
    at,           \* stream -> the server it was opened on, "none" or "lost"
    writer,       \* stream -> where its writer thread is
    post,         \* stream -> the post the writer handles
    toward,       \* stream -> the user whose timeline comes next
    todo,         \* stream -> the followers to come
    spotted,      \* stream -> the line its reader is about to send, at most one
    shown,        \* stream -> posts the client displayed
    typed,        \* posts made so far
    missed        \* history: <<user, post>> whose Slave_Timeline call failed

servers == <<up, restarts, linked, failover>>
files   == <<timeline, posts>>
client  == <<runs, stub_, mode>>
thread  == <<writer, post, toward, todo>>
vars    == <<servers, post_lines, files, client, at, thread, spotted, shown, typed, missed>>

NoPost == "none"

TypeOK ==
    /\ up \in [Replicas -> BOOLEAN] /\ linked \in BOOLEAN /\ failover \in BOOLEAN
    /\ restarts \in [Replicas -> Nat]
    /\ \A r \in Replicas : restarts[r] <= MaxRestarts[r]
    /\ post_lines \in [Replicas -> SUBSET Posts]
    /\ timeline \in [Replicas -> [Local -> SUBSET Posts]]
    /\ posts \in [Replicas -> SUBSET Posts]
    /\ runs \in [Local -> Nat]
    /\ \A u \in Local : runs[u] <= MaxRuns[u]
    /\ stub_ \in [Local -> Replicas]
    /\ mode \in [Local -> {"none", "command", "timeline"}]
    /\ at \in [Streams -> Replicas \cup {"none", "lost"}]
    /\ writer \in [Streams -> {"read", "forward", "write", "flush", "ended"}]
    /\ post \in [Streams -> Posts \cup {NoPost}]
    /\ toward \in [Streams -> Local]
    /\ todo \in [Streams -> SUBSET Local]
    /\ spotted \in [Streams -> SUBSET Posts]
    /\ shown \in [Streams -> SUBSET Posts]
    /\ typed \subseteq Posts
    /\ missed \subseteq Local \X Posts

Init ==
    /\ up = [r \in Replicas |-> TRUE]
    /\ restarts = [r \in Replicas |-> 0]
    /\ linked = TRUE
    /\ failover = FALSE
    /\ post_lines = [r \in Replicas |-> {}]
    /\ timeline = [r \in Replicas |-> [u \in Local |-> {}]]
    /\ posts = [r \in Replicas |-> {}]
    /\ runs = [u \in Local |-> 0]
    /\ stub_ = [u \in Local |-> "master"]
    /\ mode = [u \in Local |-> "none"]
    /\ at = [s \in Streams |-> "none"]
    /\ writer = [s \in Streams |-> "read"]
    /\ post = [s \in Streams |-> NoPost]
    /\ toward = [s \in Streams |-> UserOf(s)]
    /\ todo = [s \in Streams |-> {}]
    /\ spotted = [s \in Streams |-> {}]
    /\ shown = [s \in Streams |-> {}]
    /\ typed = {}
    /\ missed = {}

-----------------------------------------------------------------------------
(* The client                                                               *)

Current(u) == <<u, runs[u]>>

\* Mutant: with no server left the coordinator's answer is empty.
BugGetServer(u) == stub_' = [stub_ EXCEPT ![u] = IF failover THEN "none" ELSE "master"]

\* The coordinator names the master, or the slave once the master has died; the
\* client keeps the answer even when nobody serves there.
getServer(u) ==
    \E r \in Replicas :
        /\ r = "slave" => failover
        /\ stub_' = [stub_ EXCEPT ![u] = r]

\* run_client: connectTo, whose outcome is not looked at.
connectTo(u) ==
    /\ mode[u] = "none"
    /\ runs[u] < MaxRuns[u]
    /\ runs' = [runs EXCEPT ![u] = @ + 1]
    /\ mode' = [mode EXCEPT ![u] = "command"]
    /\ getServer(u)
    /\ UNCHANGED <<servers, post_lines, files, at, thread, spotted, shown, typed, missed>>

\* A LIST or FOLLOW that fails: the client connects again.
CommandFails(u) ==
    /\ mode[u] = "command"
    /\ ~up[stub_[u]]
    /\ getServer(u)
    /\ UNCHANGED <<servers, post_lines, files, runs, mode, at, thread, spotted, shown,
                   typed, missed>>

\* TIMELINE succeeds by itself; whether there is a server shows in the stream.
EnterTimeline(u) ==
    /\ mode[u] = "command"
    /\ mode' = [mode EXCEPT ![u] = "timeline"]
    /\ at' = [at EXCEPT ![Current(u)] = IF up[stub_[u]] THEN stub_[u] ELSE "lost"]
    /\ UNCHANGED <<servers, post_lines, files, runs, stub_, thread, spotted, shown, typed,
                   missed>>

\* Ctrl-C.
Quit(u) ==
    /\ mode[u] # "none"
    /\ mode' = [mode EXCEPT ![u] = "none"]
    /\ UNCHANGED <<servers, post_lines, files, runs, stub_, at, thread, spotted, shown,
                   typed, missed>>

\* The client is there to write to the stream and to read from it.
Attached(s) == mode[UserOf(s)] = "timeline" /\ s = Current(UserOf(s))

-----------------------------------------------------------------------------
(* The writer thread of a stream                                            *)

\* Mutant: only the followers who are in timeline mode.
BugHearers(u) == {v \in FollowersOf[u] : mode[v] = "timeline"}

Hearers(u) == FollowersOf[u]

\* It reads a post, and will deal with the author's own timeline first.
ReadPost(s, p) ==
    /\ at[s] \in Replicas /\ Attached(s)
    /\ writer[s] = "read"
    /\ p \notin typed /\ AuthorOf[p] = UserOf(s)
    /\ typed' = typed \cup {p}
    /\ post' = [post EXCEPT ![s] = p]
    /\ toward' = [toward EXCEPT ![s] = UserOf(s)]
    /\ todo' = [todo EXCEPT ![s] = Hearers(UserOf(s))]
    /\ writer' = [writer EXCEPT ![s] = "forward"]
    /\ UNCHANGED <<servers, post_lines, files, client, at, spotted, shown, missed>>

\* Mutant: the followers' timelines are not forwarded.
BugForwards(s) == at[s] = "master" /\ toward[s] = UserOf(s)

Forwards(s) == at[s] = "master"

\* The master calls Slave_Timeline, which writes the user's timeline and, each
\* time, the posts file of the slave.
Forward(s) ==
    /\ writer[s] = "forward"
    /\ IF Forwards(s)
       THEN IF linked /\ up["slave"]
            THEN /\ timeline' = [timeline EXCEPT !["slave"][toward[s]] = @ \cup {post[s]}]
                 /\ posts' = [posts EXCEPT !["slave"] = @ \cup {post[s]}]
                 /\ UNCHANGED missed
            ELSE missed' = missed \cup {<<toward[s], post[s]>>} /\ UNCHANGED files
       ELSE UNCHANGED <<files, missed>>
    /\ writer' = [writer EXCEPT ![s] = "write"]
    /\ UNCHANGED <<servers, post_lines, client, at, post, toward, todo, spotted,
                   shown, typed>>

\* A follower's file is written at once.  The author's own line stays in the
\* buffers of two streams and goes into post_lines.
Writes(s) ==
    IF toward[s] = UserOf(s)
    THEN /\ post_lines' = [post_lines EXCEPT ![at[s]] = @ \cup {post[s]}]
         /\ UNCHANGED timeline
    ELSE /\ timeline' = [timeline EXCEPT ![at[s]][toward[s]] = @ \cup {post[s]}]
         /\ UNCHANGED post_lines

Write(s) ==
    /\ writer[s] = "write"
    /\ Writes(s)
    /\ \/ /\ todo[s] = {}
          /\ writer' = [writer EXCEPT ![s] = "flush"]
          /\ UNCHANGED <<toward, todo>>
       \/ \E v \in todo[s] :
              /\ toward' = [toward EXCEPT ![s] = v]
              /\ todo' = [todo EXCEPT ![s] = @ \ {v}]
              /\ writer' = [writer EXCEPT ![s] = "forward"]
    /\ UNCHANGED <<servers, posts, client, at, post, spotted, shown, typed, missed>>

\* The end of the loop body: both buffers reach their files.
Flush(s) ==
    /\ writer[s] = "flush"
    /\ posts' = [posts EXCEPT ![at[s]] = @ \cup {post[s]}]
    /\ timeline' = [timeline EXCEPT ![at[s]][UserOf(s)] = @ \cup {post[s]}]
    /\ writer' = [writer EXCEPT ![s] = "read"]
    /\ UNCHANGED <<servers, post_lines, client, at, post, toward, todo, spotted,
                   shown, typed, missed>>

\* Read fails when the client is gone.  If it never brought a post the thread
\* writes through a pointer it has not set: nothing is seen of that, or the
\* server dies (Dies below).
WriterEnds(s) ==
    /\ at[s] \in Replicas /\ ~Attached(s)
    /\ writer[s] = "read"
    /\ writer' = [writer EXCEPT ![s] = "ended"]
    /\ UNCHANGED <<servers, post_lines, files, client, at, post, toward, todo,
                   spotted, shown, typed, missed>>

-----------------------------------------------------------------------------
(* The reader thread of a stream: it polls the user's timeline file for     *)
(* lines that no stream of this server has dealt with, for ever, also when  *)
(* its client is gone                                                       *)

\* Mutant: it polls the posts file, which has the lines of this cluster only.
BugUnread(s) == posts[at[s]] \ post_lines[at[s]]

Unread(s) == timeline[at[s]][UserOf(s)] \ post_lines[at[s]]

Spot(s, p) ==
    /\ at[s] \in Replicas
    /\ spotted[s] = {}
    /\ p \in Unread(s)
    /\ spotted' = [spotted EXCEPT ![s] = {p}]
    /\ UNCHANGED <<servers, post_lines, files, client, at, thread, shown, typed, missed>>

Display(s) ==
    /\ spotted[s] # {}
    /\ post_lines' = [post_lines EXCEPT ![at[s]] = @ \cup spotted[s]]
    /\ shown' = IF Attached(s) THEN [shown EXCEPT ![s] = @ \cup spotted[s]] ELSE shown
    /\ spotted' = [spotted EXCEPT ![s] = {}]
    /\ UNCHANGED <<servers, files, client, at, thread, typed, missed>>

-----------------------------------------------------------------------------
(* The synchronizer, kill and restart                                       *)

\* Mutant: every user's timeline gets the line.
BugReceives(u, p) == u \in Local

Receives(u, p) == u \in FollowersOf[AuthorOf[p]]

\* new_post of synchronizer.cc: the timelines of all local followers, at both
\* servers, whether they run or not.
SyncPosts(p) ==
    /\ p \notin typed /\ AuthorOf[p] \notin Local
    /\ typed' = typed \cup {p}
    /\ timeline' = [r \in Replicas |-> [u \in Local |->
            timeline[r][u] \cup (IF Receives(u, p) THEN {p} ELSE {})]]
    /\ UNCHANGED <<servers, post_lines, posts, client, at, thread, spotted, shown, missed>>

\* All streams of the server go, with what their writers had in hand.
Dies(r) ==
    /\ up[r]
    /\ up' = [up EXCEPT ![r] = FALSE]
    /\ linked' = (linked /\ r # "master")
    /\ failover' = (failover \/ r = "master")
    /\ post_lines' = [post_lines EXCEPT ![r] = {}]
    /\ at' = [s \in Streams |-> IF at[s] = r THEN "lost" ELSE at[s]]
    /\ writer' = [s \in Streams |-> IF at[s] = r THEN "ended" ELSE writer[s]]
    /\ spotted' = [s \in Streams |-> IF at[s] = r THEN {} ELSE spotted[s]]
    /\ UNCHANGED <<restarts, files, client, post, toward, todo, shown, typed, missed>>

Restart(r) ==
    /\ ~up[r]
    /\ restarts[r] < MaxRestarts[r]
    /\ up' = [up EXCEPT ![r] = TRUE]
    /\ restarts' = [restarts EXCEPT ![r] = @ + 1]
    /\ UNCHANGED <<linked, failover, post_lines, files, client, at, thread, spotted, shown,
                   typed, missed>>

-----------------------------------------------------------------------------
Serve(s) == Forward(s) \/ Write(s) \/ Flush(s) \/ WriterEnds(s)
Poll(s)  == (\E p \in Posts : Spot(s, p)) \/ Display(s)

Next ==
    \/ \E u \in Local : connectTo(u) \/ CommandFails(u) \/ EnterTimeline(u) \/ Quit(u)
    \/ \E s \in Streams : (\E p \in Posts : ReadPost(s, p)) \/ Serve(s) \/ Poll(s)
    \/ \E p \in Posts : SyncPosts(p)
    \/ \E r \in Replicas : Dies(r) \/ Restart(r)

Spec == Init /\ [][Next]_vars

\* The threads of a server that stays up run; nobody has to type, quit, kill or
\* start anything.
FairSpec == Spec /\ \A s \in Streams : WF_vars(Serve(s)) /\ WF_vars(Poll(s))

-----------------------------------------------------------------------------
(* Properties                                                               *)

\* A failover loses no post: what the master wrote for its clients the slave
\* has written too, in the same timelines and for the synchronizer, unless a
\* Slave_Timeline call failed; the master forwards a line before it writes it.
SlaveCovers ==
    \A p \in LocalPosts :
        /\ \A u \in Local :
               p \in timeline["master"][u] =>
                   p \in timeline["slave"][u] \/ <<u, p>> \in missed
        /\ p \in posts["master"] =>
               p \in posts["slave"] \/ <<AuthorOf[p], p>> \in missed

\* What a client displays is its user's own or of someone he follows, on either
\* server, after any restart: streams share one set of lines, not their files.
ShownToFollowers ==
    \A s \in Streams : \A p \in shown[s] \cup spotted[s] :
        UserOf(s) = AuthorOf[p] \/ UserOf(s) \in FollowersOf[AuthorOf[p]]

\* What a stream's server has, nothing once it has lost its server.
Serves(s)   == at[s] \in Replicas
File(s, u)  == IF Serves(s) THEN timeline[at[s]][u] ELSE {}
Known(s)    == IF Serves(s) THEN post_lines[at[s]] ELSE {}
Recorded(s) == IF Serves(s) THEN posts[at[s]] ELSE {}

\* A line gets to the client that polls for it when no other stream of the
\* server, of a client that is gone included, has a file with that line: all
\* streams together show a line once.
LineDisplayed ==
    \A s \in Streams, p \in Posts :
        /\ p \in File(s, UserOf(s)) \ Known(s)
        /\ [](/\ Serves(s) /\ Attached(s)
              /\ \A t \in Streams \ {s} : at[t] = at[s] => p \notin File(t, UserOf(t)))
        ~> p \in shown[s]

\* A post that a stream's writer has taken gets into the posts file, for the
\* synchronizer, and into the timelines of all followers, though the client
\* quits, if the server stays up.
Took(s, p) == Serves(s) /\ writer[s] = "forward" /\ post[s] = p

PostRecorded ==
    \A s \in Streams : \A p \in LocalPosts :
        Took(s, p) /\ []Serves(s)
        ~> /\ p \in Recorded(s)
           /\ \A u \in FollowersOf[AuthorOf[p]] : p \in File(s, u)

\* "Send the message to each follower's stream" (server.cc:298): a follower
\* whose client keeps a stream open on the server gets the post.
FollowersSee ==
    \A s, t \in Streams : \A p \in LocalPosts :
        /\ Took(s, p) /\ UserOf(t) \in FollowersOf[AuthorOf[p]] /\ at[t] = at[s]
        /\ [](Serves(s) /\ Serves(t) /\ Attached(t))
        ~> p \in shown[t]
=============================================================================
