----------------------------- MODULE ServerPair -----------------------------
(***************************************************************************)
(* The master and the slave server of one cluster, src/MP3/server.cc: the  *)
(* Login and Follow handlers, the forwarding of both from the master to    *)
(* the slave, the log file each server appends to, the replay of that log  *)
(* at startup and the check_new thread that tails it.                      *)
(*                                                                         *)
(* Covered: handlers of several clients interleaved, at each server and    *)
(* across the pair; a handler that decides on what it read before its own  *)
(* forwarding call and acts after it; both servers killed and restarted    *)
(* between any two steps; clients that moved to the slave while a restarted*)
(* master still serves others; lines appended to both logs by the          *)
(* synchronizer, one file after the other.                                 *)
(*                                                                         *)
(* client_db is modelled as the set of its usernames and the set of the    *)
(* follow pairs its pointers describe; how often a name or a pair occurs,  *)
(* and pointers left dangling when the vector grows, are not.              *)
(***************************************************************************)
EXTENDS Integers, Sequences

CONSTANTS
    Local,       \* names of the users of this cluster
    Remote,      \* names of users of other clusters
    MaxCalls,    \* bound on the RPCs clients send
    MaxRestarts  \* bound on the restarts of each server

ASSUME ServerPairAssumption ==
    /\ Local \cap Remote = {}
    /\ MaxCalls \in Nat
    /\ MaxRestarts \in Nat

Names    == Local \cup Remote
Replicas == {"master", "slave"}
Calls    == 1..MaxCalls

\* A line of a log file; "newuser" lines carry one name, twice.
NewUserKinds == {"newuser", "SYNC::newuser"}
FollowKinds  == {"follow", "SYNC::follow"}
Lines == [kind : NewUserKinds \cup FollowKinds, a : Names, b : Names]
Line(k, x, y) == [kind |-> k, a |-> x, b |-> y]

\* What clients ask: Login of a local user, Follow by one.
Requests ==
    {Line("newuser", u, u) : u \in Local}
        \cup {Line("follow", u, v) : u \in Local, v \in Names}

\* What the synchronizer appends for its peers.
SyncLines ==
    {Line("SYNC::newuser", u, u) : u \in Remote}
        \cup {Line("SYNC::follow", u, v) : u \in Remote, v \in Local}

VARIABLES
    up,         \* server -> it runs
    users,      \* server -> usernames in client_db
    edges,      \* server -> pairs <<follower, followee>> in client_db
    online,     \* server -> users with the flag "connected"
    seen,       \* server -> the set output_lines
    log,        \* server -> its log file; survives a kill
    linked,     \* the master's slave_stub_ leads to the slave
    failover,   \* the master died once: the coordinator sends clients away
    restarts,   \* server -> how often it was restarted
    request,    \* call -> the request it carries
    task,       \* server -> call -> progress of the handler
    found,      \* server -> calls whose user Login's find_user found
    half,       \* lines the synchronizer wrote to the slave's log only
    missed      \* history: requests whose forwarding call failed

memory  == <<users, edges, online, seen>>
pairVars == <<up, users, edges, online, seen, log, linked, failover, restarts,
              request, task, found, half, missed>>

Progress == {"none", "begin", "forward", "waiting", "apply", "done", "lost"}
Active   == {"begin", "forward", "waiting", "apply"}
NoRequest == Line("none", "none", "none")

TypeOK ==
    /\ up \in [Replicas -> BOOLEAN]
    /\ users \in [Replicas -> SUBSET Names]
    /\ edges \in [Replicas -> SUBSET (Names \X Names)]
    /\ online \in [Replicas -> SUBSET Names]
    /\ seen \in [Replicas -> SUBSET Lines]
    /\ log \in [Replicas -> Seq(Lines)]
    /\ linked \in BOOLEAN
    /\ failover \in BOOLEAN
    /\ restarts \in [Replicas -> 0..MaxRestarts]
    /\ request \in [Calls -> Requests \cup {NoRequest}]
    /\ task \in [Replicas -> [Calls -> Progress]]
    /\ found \in [Replicas -> SUBSET Calls]
    /\ half \subseteq SyncLines
    /\ missed \subseteq Requests

\* Both serve; whether the master was told of its slave is the coordinator's
\* business (LoginMasterReply of Coordinator).
Init ==
    /\ up = [r \in Replicas |-> TRUE]
    /\ users = [r \in Replicas |-> {}]
    /\ edges = [r \in Replicas |-> {}]
    /\ online = [r \in Replicas |-> {}]
    /\ seen = [r \in Replicas |-> {}]
    /\ log = [r \in Replicas |-> <<>>]
    /\ linked \in BOOLEAN
    /\ failover = FALSE
    /\ restarts = [r \in Replicas |-> 0]
    /\ request = [q \in Calls |-> NoRequest]
    /\ task = [r \in Replicas |-> [q \in Calls |-> "none"]]
    /\ found = [r \in Replicas |-> {}]
    /\ half = {}
    /\ missed = {}

SetTask(r, q, step) == task' = [task EXCEPT ![r][q] = step]

InLog(r, l) == \E k \in DOMAIN log[r] : log[r][k] = l

-----------------------------------------------------------------------------
(* A handler                                                                *)

\* A client calls the master, or the slave once the master has died.
Call(q, r, l) ==
    /\ request[q] = NoRequest
    /\ \A p \in Calls : p < q => request[p] # NoRequest
    /\ up[r]
    /\ r = "slave" => failover
    /\ request' = [request EXCEPT ![q] = l]
    /\ SetTask(r, q, "begin")
    /\ UNCHANGED <<up, memory, log, linked, failover, restarts, found, half,
                   missed>>

\* Mutant: nothing is forwarded.
BugAfterFind(r) == "apply"

AfterFind(r) == IF r = "master" THEN "forward" ELSE "apply"

\* Mutant: only the follower is looked up.
BugFinds(r, q) == request[q].a \in users[r]

Finds(r, q) == {request[q].a, request[q].b} \subseteq users[r]

\* Follow looks both users up and refuses at once when one is unknown ...
FollowFind(r, q) ==
    /\ task[r][q] = "begin"
    /\ request[q].kind = "follow"
    /\ SetTask(r, q, IF Finds(r, q) THEN AfterFind(r) ELSE "done")
    /\ UNCHANGED <<up, memory, log, linked, failover, restarts, request, found,
                   half, missed>>

\* ... Login keeps the answer for after the forwarding call.
LoginFind(r, q) ==
    /\ task[r][q] = "begin"
    /\ request[q].kind = "newuser"
    /\ found' = IF request[q].a \in users[r]
                THEN [found EXCEPT ![r] = @ \cup {q}] ELSE found
    /\ SetTask(r, q, AfterFind(r))
    /\ UNCHANGED <<up, memory, log, linked, failover, restarts, request, half,
                   missed>>

\* The master calls the same handler of the slave and waits.  It does not
\* look at the outcome: a call that fails is a write the slave misses.
Forward(q) ==
    /\ task["master"][q] = "forward"
    /\ IF linked /\ up["slave"]
       THEN /\ task' = [task EXCEPT !["master"][q] = "waiting",
                                    !["slave"][q] = "begin"]
            /\ UNCHANGED missed
       ELSE /\ SetTask("master", q, "apply")
            /\ missed' = missed \cup {request[q]}
    /\ UNCHANGED <<up, memory, log, linked, failover, restarts, request, found,
                   half>>

ForwardReturns(q) ==
    /\ task["master"][q] = "waiting"
    /\ task["slave"][q] \in {"done", "lost"}
    /\ SetTask("master", q, "apply")
    /\ missed' = IF task["slave"][q] = "lost"
                 THEN missed \cup {request[q]} ELSE missed
    /\ UNCHANGED <<up, memory, log, linked, failover, restarts, request, found,
                   half>>

\* Mutant: the line instead of the name.
BugEntrant(q) == request[q]

Entrant(q) == request[q].a

\* Login writes the line and adds the user, or marks a known one connected.
LoginApply(r, q) ==
    /\ task[r][q] = "apply"
    /\ request[q].kind = "newuser"
    /\ online' = [online EXCEPT ![r] = @ \cup {request[q].a}]
    /\ IF q \in found[r]
       THEN UNCHANGED <<users, seen, log>>
       ELSE /\ log' = [log EXCEPT ![r] = Append(@, request[q])]
            /\ seen' = [seen EXCEPT ![r] = @ \cup {request[q]}]
            /\ users' = [users EXCEPT ![r] = @ \cup {Entrant(q)}]
    /\ SetTask(r, q, "done")
    /\ UNCHANGED <<up, edges, linked, failover, restarts, request, found, half,
                   missed>>

\* Follow writes the line in any case, then links the two users unless they
\* are one; that the pair may exist already only changes the reply.
FollowApply(r, q) ==
    /\ task[r][q] = "apply"
    /\ request[q].kind = "follow"
    /\ log' = [log EXCEPT ![r] = Append(@, request[q])]
    /\ seen' = [seen EXCEPT ![r] = @ \cup {request[q]}]
    /\ edges' = IF request[q].a = request[q].b THEN edges
                ELSE [edges EXCEPT ![r] =
                          @ \cup {<<request[q].a, request[q].b>>}]
    /\ SetTask(r, q, "done")
    /\ UNCHANGED <<up, users, online, linked, failover, restarts, request,
                   found, half, missed>>

\* What List tells a user; it changes nothing.
List(r, u) ==
    [all_users |-> users[r], followers |-> {v \in Names : <<v, u>> \in edges[r]}]

-----------------------------------------------------------------------------
(* The synchronizer's lines and check_new                                   *)

\* new_user and new_follow of synchronizer.cc write the slave's log first, and
\* new_follow only when it read of the followee in one of the two logs.  The
\* follower may be unknown here: the new_user call for him may have failed.
\* A line written once more finds itself in output_lines and is not modelled.
SyncWritesSlave(l) ==
    /\ ~InLog("slave", l)
    /\ l.kind = "SYNC::follow" =>
           \E r \in Replicas : InLog(r, Line("newuser", l.b, l.b))
    /\ log' = [log EXCEPT !["slave"] = Append(@, l)]
    /\ half' = half \cup {l}
    /\ UNCHANGED <<up, memory, linked, failover, restarts, request, task,
                   found, missed>>

SyncWritesMaster(l) ==
    /\ l \in half
    /\ log' = [log EXCEPT !["master"] = Append(@, l)]
    /\ half' = half \ {l}
    /\ UNCHANGED <<up, memory, linked, failover, restarts, request, task,
                   found, missed>>

\* The positions check_new has yet to look at; it goes through the file in
\* order and handles the first line it does not find in output_lines.
Unseen(r, k) ==
    /\ k \in DOMAIN log[r]
    /\ log[r][k] \notin seen[r]
    /\ \A j \in 1..(k - 1) : log[r][j] \in seen[r]

Known(r, l) == {l.a, l.b} \subseteq users[r]

\* Mutant: the line is noted and its user is not.
BugSynced(l) == {}

Synced(l) == {l.a}

CheckNewUser(r, k) ==
    /\ up[r]
    /\ Unseen(r, k)
    /\ log[r][k].kind = "SYNC::newuser"
    /\ seen' = [seen EXCEPT ![r] = @ \cup {log[r][k]}]
    /\ users' = [users EXCEPT ![r] = @ \cup Synced(log[r][k])]
    /\ UNCHANGED <<up, edges, online, log, linked, failover, restarts, request,
                   task, found, half, missed>>

\* With an unknown name the code takes client_db[-1]: it writes to memory that
\* is not a Client.  That kills the process (see Kill) or goes unnoticed.
CheckNewFollow(r, k) ==
    /\ up[r]
    /\ Unseen(r, k)
    /\ log[r][k].kind = "SYNC::follow"
    /\ seen' = [seen EXCEPT ![r] = @ \cup {log[r][k]}]
    /\ edges' = IF Known(r, log[r][k])
                THEN [edges EXCEPT ![r] = @ \cup {<<log[r][k].a, log[r][k].b>>}]
                ELSE edges
    /\ UNCHANGED <<up, users, online, log, linked, failover, restarts, request,
                   task, found, half, missed>>

-----------------------------------------------------------------------------
(* kill -9 and restart                                                      *)

Kill(r) ==
    /\ up[r]
    /\ up' = [up EXCEPT ![r] = FALSE]
    /\ users' = [users EXCEPT ![r] = {}]
    /\ edges' = [edges EXCEPT ![r] = {}]
    /\ online' = [online EXCEPT ![r] = {}]
    /\ seen' = [seen EXCEPT ![r] = {}]
    /\ task' = [task EXCEPT ![r] = [q \in Calls |->
                    IF task[r][q] \in Active THEN "lost" ELSE task[r][q]]]
    /\ found' = [found EXCEPT ![r] = {}]
    /\ linked' = (linked /\ r # "master")
    /\ failover' = (failover \/ r = "master")
    /\ UNCHANGED <<log, restarts, request, half, missed>>

\* The line at k can be replayed: every name it uses was entered before.
Entered(lg, k, x) == \E j \in 1..(k - 1) : lg[j].kind \in NewUserKinds /\ lg[j].a = x
Replayable(lg, k) ==
    lg[k].kind \in FollowKinds => Entered(lg, k, lg[k].a) /\ Entered(lg, k, lg[k].b)

UsersIn(lg) == {lg[k].a : k \in {j \in DOMAIN lg : lg[j].kind \in NewUserKinds}}
EdgesIn(lg) ==
    {<<lg[k].a, lg[k].b>> :
        k \in {j \in DOMAIN lg : lg[j].kind \in FollowKinds /\ Replayable(lg, j)}}

\* Mutant: only users of this cluster.
BugRestored(r) == UsersIn(log[r]) \cap Local

Restored(r) == UsersIn(log[r])

\* main() replays the log, line by line, before the server serves; replayed
\* users are not connected.  A line that is not replayable is client_db[-1]
\* again.  The coordinator tells a restarted master no slave.
Restart(r) ==
    /\ ~up[r]
    /\ restarts[r] < MaxRestarts
    /\ up' = [up EXCEPT ![r] = TRUE]
    /\ restarts' = [restarts EXCEPT ![r] = @ + 1]
    /\ users' = [users EXCEPT ![r] = Restored(r)]
    /\ edges' = [edges EXCEPT ![r] = EdgesIn(log[r])]
    /\ seen' = [seen EXCEPT ![r] = {log[r][k] : k \in DOMAIN log[r]}]
    /\ UNCHANGED <<online, log, linked, failover, request, task, found, half,
                   missed>>

-----------------------------------------------------------------------------
Handler(r, q) == \/ FollowFind(r, q)
                 \/ LoginFind(r, q)
                 \/ LoginApply(r, q)
                 \/ FollowApply(r, q)

CheckNew(r) == \E k \in DOMAIN log[r] : CheckNewUser(r, k) \/ CheckNewFollow(r, k)

Next ==
    \/ \E q \in Calls : \/ \E r \in Replicas : \/ \E l \in Requests : Call(q, r, l)
                                               \/ Handler(r, q)
                        \/ Forward(q)
                        \/ ForwardReturns(q)
    \/ \E l \in SyncLines : SyncWritesSlave(l) \/ SyncWritesMaster(l)
    \/ \E r \in Replicas : CheckNew(r) \/ Kill(r) \/ Restart(r)

Spec == Init /\ [][Next]_pairVars

\* check_new polls without end, handlers run, a failed RPC returns.  The
\* synchronizer may die between its two writes.
Fairness ==
    /\ \A r \in Replicas : WF_pairVars(CheckNew(r))
    /\ \A q \in Calls : /\ \A r \in Replicas : WF_pairVars(Handler(r, q))
                        /\ WF_pairVars(Forward(q) \/ ForwardReturns(q))

FairSpec == Spec /\ Fairness

-----------------------------------------------------------------------------
(* Properties                                                               *)

\* What a server wrote for clients it can read back: no follow line of its own
\* makes the replay in main() index client_db with -1, though Follow looks the
\* users up long before it writes the line.
ReplaySafe ==
    \A r \in Replicas : \A k \in DOMAIN log[r] :
        log[r][k].kind = "follow" => Replayable(log[r], k)

\* A restart changes nothing that a user sees: what List tells is what the log
\* says, but for the lines check_new has not reached and for a user's follow of
\* himself, which Follow logs before it refuses it.  Logs that cannot be replayed
\* (a remote user the synchronizer was not told of) are excepted.
RestartAgrees ==
    \A r \in Replicas :
        up[r] /\ (\A k \in DOMAIN log[r] : Replayable(log[r], k)) =>
            /\ seen[r] \subseteq {log[r][k] : k \in DOMAIN log[r]}
            /\ \A k \in DOMAIN log[r] :
                   log[r][k].kind \in {"newuser", "follow"} => log[r][k] \in seen[r]
            /\ \A v \in Names :
                   /\ List(r, v).all_users =
                          {l.a : l \in {x \in seen[r] : x.kind \in NewUserKinds}}
                   /\ List(r, v).followers \ {v} =
                          {l.a : l \in {x \in seen[r] : x.kind \in FollowKinds /\ x.b = v}} \ {v}

\* What the master logged for a client the slave has logged too, whatever was
\* killed and restarted in between, unless a forwarding call failed: its own,
\* or the one that should have told the slave of a user it needs.  A follow
\* of a remote user is excepted: the slave may not have heard of him yet.
SlaveCoversMaster ==
    \A k \in DOMAIN log["master"] :
        LET l == log["master"][k] IN
        l.kind \in {"newuser", "follow"} =>
            \/ InLog("slave", l)
            \/ l \in missed
            \/ Line("newuser", l.a, l.a) \in missed
            \/ Line("newuser", l.b, l.b) \in missed
            \/ l.b \in Remote

\* A line the synchronizer wrote for a remote user reaches the memory of a
\* server that stays up.
RemoteUsersArrive ==
    \A r \in Replicas : \A u \in Remote :
        (InLog(r, Line("SYNC::newuser", u, u)) /\ [](up[r]))
            ~> u \in users[r]
=============================================================================
