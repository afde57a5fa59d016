---------------------------- MODULE ControlPlane ----------------------------
(***************************************************************************)
(* The control plane of the distributed SNS: the coordinator, and what     *)
(* masters, slaves, synchronizers and clients do with it.                  *)
(*                                                                         *)
(*   server.cc        connectToCoord, the heartbeat thread, RunServer      *)
(*   synchronizer.cc  connectToCoord, connectSyncs, the heartbeat and      *)
(*                    server_reader threads, check_connection, RunServer   *)
(*   client.cc        connectTo                                            *)
(*                                                                         *)
(* Covered: processes started in any order, killed (kill.sh) between any   *)
(* two steps and started again; heartbeats of a dead process that the      *)
(* coordinator reads late or never; a stream that ends late, after its     *)
(* process is back on a new one; replies that reach a dead process.        *)
(*                                                                         *)
(* Not covered: a crash of the coordinator (nothing in the code connects   *)
(* to it a second time) and unsynchronized access to its tables.           *)
(***************************************************************************)
EXTENDS Coordinator

CONSTANTS
    Clients,       \* ids of the clients
    MaxStarts,     \* bound on the starts of any process
    StartLimit,    \* process -> bound on its own starts
    MaxInFlight    \* bound on the unread heartbeats of a stream

ASSUME ControlPlaneAssumption ==
    /\ Clients \subseteq Nat
    /\ MaxStarts \in Nat
    /\ StartLimit \in [Processes -> 0..MaxStarts]
    /\ MaxInFlight \in Nat \ {0}

VARIABLES
    pc,          \* process -> how far main() has come
    inc,         \* process -> how often it was started
    stream,      \* session -> state of its ServerCommunicate call
    heard,       \* the sessions whose handler has read a heartbeat
    wire,        \* session -> heartbeats written and not read
    stub,        \* cluster -> port behind the master's slave_stub_
    inbox,       \* cluster -> what the coordinator wrote to the synchronizer
    link,        \* cluster -> the synchronizer's run of connectSyncs
    connected,   \* cluster -> the synchronizer's flag "connected"
    mode,        \* cluster -> the synchronizer's "type": whose logs it reads
    clientPort   \* client -> port behind its stub_

procVars == <<pc, inc, stream, heard, wire, stub, inbox, link, connected,
              mode, clientPort>>
vars == <<coordVars, procVars>>

\* A session is the one ServerCommunicate call of one run of a process.
Sessions   == Processes \X (1..MaxStarts)
Current(p) == <<p, inc[p]>>
KindOf(p)    == p[1]
ClusterOf(p) == p[2]

Steps == {"down", "registered", "streaming", "serving"}
Links == [todo : SUBSET Clusters, ok : BOOLEAN, busy : BOOLEAN]
Idle  == [todo |-> {}, ok |-> FALSE, busy |-> FALSE]

TypeOK ==
    /\ CoordTypeOK
    /\ pc \in [Processes -> Steps]
    /\ inc \in [Processes -> 0..MaxStarts]
    /\ stream \in [Sessions -> {"none", "open", "broken", "ended"}]
    /\ heard \subseteq Sessions
    /\ wire \in [Sessions -> 0..MaxInFlight]
    /\ stub \in [Clusters -> Ports]
    /\ inbox \in [Clusters -> SUBSET {"connect", "slave"}]
    /\ link \in [Clusters -> Links]
    /\ connected \in [Clusters -> BOOLEAN]
    /\ mode \in [Clusters -> {"master", "slave"}]
    /\ clientPort \in [Clients -> Ports]

Init ==
    /\ CoordInit
    /\ pc = [p \in Processes |-> "down"]
    /\ inc = [p \in Processes |-> 0]
    /\ stream = [s \in Sessions |-> "none"]
    /\ heard = {}
    /\ wire = [s \in Sessions |-> 0]
    /\ stub = [i \in Clusters |-> NoPort]
    /\ inbox = [i \in Clusters |-> {}]
    /\ link = [i \in Clusters |-> Idle]
    /\ connected = [i \in Clusters |-> FALSE]
    /\ mode = [i \in Clusters |-> "master"]
    /\ clientPort = [c \in Clients |-> NoPort]

Serving(port) == port \in Processes /\ pc[port] = "serving"

-----------------------------------------------------------------------------
(* Every process: log in, open the heartbeat stream, serve, die             *)

\* main() up to the return of connectToCoord.
Login(p) ==
    /\ pc[p] = "down"
    /\ inc[p] < StartLimit[p]
    /\ pc' = [pc EXCEPT ![p] = "registered"]
    /\ inc' = [inc EXCEPT ![p] = @ + 1]
    /\ \/ /\ KindOf(p) = "master"
          /\ LoginMaster(ClusterOf(p))
          /\ stub' = [stub EXCEPT ![ClusterOf(p)] =
                                        LoginMasterReply(ClusterOf(p))]
       \/ KindOf(p) = "slave" /\ LoginSlave(ClusterOf(p)) /\ UNCHANGED stub
       \/ KindOf(p) = "sync" /\ LoginSync(ClusterOf(p)) /\ UNCHANGED stub
    /\ UNCHANGED <<stream, heard, wire, inbox, link, connected, mode,
                   clientPort>>

\* The replay of the logs ends and main() calls ServerCommunicate.
OpenStream(p) ==
    /\ pc[p] = "registered"
    /\ pc' = [pc EXCEPT ![p] = "streaming"]
    /\ stream' = [stream EXCEPT ![Current(p)] = "open"]
    /\ UNCHANGED <<coordVars, inc, heard, wire, stub, inbox, link, connected,
                   mode, clientPort>>

\* RunServer, called last: only now do RPCs to this process succeed.
RunServer(p) ==
    /\ pc[p] = "streaming"
    /\ pc' = [pc EXCEPT ![p] = "serving"]
    /\ UNCHANGED <<coordVars, inc, stream, heard, wire, stub, inbox, link,
                   connected, mode, clientPort>>

\* One turn of the writer thread.
SendHeartbeat(p) ==
    /\ pc[p] \in {"streaming", "serving"}
    /\ wire[Current(p)] < MaxInFlight
    /\ wire' = [wire EXCEPT ![Current(p)] = @ + 1]
    /\ UNCHANGED <<coordVars, pc, inc, stream, heard, stub, inbox, link,
                   connected, mode, clientPort>>

\* kill -9.  The volatile state goes, the coordinator finds out in EndStream.
Crash(p) ==
    /\ pc[p] # "down"
    /\ pc' = [pc EXCEPT ![p] = "down"]
    /\ stream' = IF stream[Current(p)] = "open"
                 THEN [stream EXCEPT ![Current(p)] = "broken"] ELSE stream
    /\ LET i == ClusterOf(p) IN
       /\ stub' = IF KindOf(p) = "master" THEN [stub EXCEPT ![i] = NoPort]
                  ELSE stub
       /\ IF KindOf(p) = "sync"
          THEN /\ inbox' = [inbox EXCEPT ![i] = {}]
               /\ link' = [link EXCEPT ![i] = Idle]
               /\ connected' = [connected EXCEPT ![i] = FALSE]
               /\ mode' = [mode EXCEPT ![i] = "master"]
          ELSE UNCHANGED <<inbox, link, connected, mode>>
    /\ UNCHANGED <<coordVars, inc, heard, wire, clientPort>>

-----------------------------------------------------------------------------
(* The coordinator's handler of one stream                                  *)

\* A stream whose process died may still hold a heartbeat; what the handler
\* writes back to it is lost.
ReadHeartbeat(s) ==
    /\ stream[s] \in {"open", "broken"}
    /\ wire[s] > 0
    /\ wire' = [wire EXCEPT ![s] = @ - 1]
    /\ heard' = heard \cup {s}
    /\ LET i == ClusterOf(s[1]) IN
       \/ KindOf(s[1]) = "master" /\ HeartbeatMaster(i) /\ UNCHANGED inbox
       \/ KindOf(s[1]) = "slave" /\ HeartbeatSlave(i) /\ UNCHANGED inbox
       \/ /\ KindOf(s[1]) = "sync"
          /\ HeartbeatSync(i)
          /\ inbox' = IF stream[s] = "open"
                      THEN [inbox EXCEPT ![i] = @ \cup HeartbeatSyncReplies(i)]
                      ELSE inbox
    /\ UNCHANGED <<pc, inc, stream, stub, link, connected, mode, clientPort>>

\* Read returns false, whatever is still on the wire is dropped.
EndStream(s) ==
    /\ stream[s] = "broken"
    /\ stream' = [stream EXCEPT ![s] = "ended"]
    /\ wire' = [wire EXCEPT ![s] = 0]
    /\ IF s \in heard
       THEN EndHeardStream(KindOf(s[1]), ClusterOf(s[1]))
       ELSE EndUnheardStream
    /\ UNCHANGED <<pc, inc, heard, stub, inbox, link, connected, mode,
                   clientPort>>

-----------------------------------------------------------------------------
(* A synchronizer's server_reader thread.  connectSyncs runs inside it, so  *)
(* nothing else is read until it returns.                                   *)

\* connectSyncs asks the coordinator for its peers ...
ConnectBegin(i) ==
    /\ "connect" \in inbox[i]
    /\ ~link[i].busy
    /\ inbox' = [inbox EXCEPT ![i] = @ \ {"connect"}]
    /\ link' = [link EXCEPT ![i] =
                    [todo |-> SyncsReply(i), ok |-> TRUE, busy |-> TRUE]]
    /\ UNCHANGED <<coordVars, pc, inc, stream, heard, wire, stub, connected,
                   mode, clientPort>>

\* ... calls check_connection of each, in the order of the map ...
CheckConnection(i, j) ==
    /\ link[i].busy
    /\ j \in link[i].todo
    /\ link' = [link EXCEPT ![i] =
                    [todo |-> @.todo \ {j},
                     ok   |-> @.ok /\ Serving(<<"sync", j>>),
                     busy |-> TRUE]]
    /\ UNCHANGED <<coordVars, pc, inc, stream, heard, wire, stub, inbox,
                   connected, mode, clientPort>>

\* ... and is connected when both answered.  It does not try again.
ConnectEnd(i) ==
    /\ link[i].busy
    /\ link[i].todo = {}
    /\ connected' = [connected EXCEPT ![i] = @ \/ link[i].ok]
    /\ link' = [link EXCEPT ![i] = Idle]
    /\ UNCHANGED <<coordVars, pc, inc, stream, heard, wire, stub, inbox, mode,
                   clientPort>>

\* server_id -1: from now on read the slave's logs.  No message undoes it.
SwitchToSlave(i) ==
    /\ "slave" \in inbox[i]
    /\ ~link[i].busy
    /\ inbox' = [inbox EXCEPT ![i] = @ \ {"slave"}]
    /\ mode' = [mode EXCEPT ![i] = "slave"]
    /\ UNCHANGED <<coordVars, pc, inc, stream, heard, wire, stub, link,
                   connected, clientPort>>

-----------------------------------------------------------------------------
(* A client asks the coordinator for a server when it starts and whenever a *)
(* List or Follow call fails.  It keeps the port even if nobody serves it.  *)

connectTo(c) ==
    /\ ~Serving(clientPort[c])
    /\ clientPort' = [clientPort EXCEPT ![c] = getServer(c)]
    /\ LoginClient(c)
    /\ UNCHANGED <<pc, inc, stream, heard, wire, stub, inbox, link, connected,
                   mode>>

-----------------------------------------------------------------------------
Next ==
    \/ \E p \in Processes : \/ Login(p)
                            \/ OpenStream(p)
                            \/ RunServer(p)
                            \/ SendHeartbeat(p)
                            \/ Crash(p)
    \/ \E s \in Sessions : ReadHeartbeat(s) \/ EndStream(s)
    \/ \E i \in Clusters : \/ ConnectBegin(i)
                           \/ \E j \in Clusters : CheckConnection(i, j)
                           \/ ConnectEnd(i)
                           \/ SwitchToSlave(i)
    \/ \E c \in Clients : connectTo(c)

Spec == Init /\ [][Next]_vars

\* The threads of a live process run, gRPC delivers what is written to a
\* live stream and notices a broken one, and a user whose client lost its
\* server goes on typing commands.  Nobody has to start or kill a process.
Fairness ==
    /\ \A p \in Processes : /\ WF_vars(OpenStream(p))
                            /\ WF_vars(RunServer(p))
                            /\ WF_vars(SendHeartbeat(p))
    /\ \A s \in Sessions : /\ WF_vars(ReadHeartbeat(s) /\ stream[s] = "open")
                           /\ WF_vars(EndStream(s))
    /\ \A i \in Clusters : /\ WF_vars(ConnectBegin(i))
                           /\ \A j \in Clusters : WF_vars(CheckConnection(i, j))
                           /\ WF_vars(ConnectEnd(i))
                           /\ WF_vars(SwitchToSlave(i))
    /\ \A c \in Clients : WF_vars(connectTo(c))

FairSpec == Spec /\ Fairness

-----------------------------------------------------------------------------
(* Properties                                                               *)

Alive(p) == pc[p] \in {"streaming", "serving"}
HeardSessions(p) == {s \in heard : s[1] = p}

\* The slave a master forwards its writes to is the slave the coordinator
\* sends the clients to when that master dies (slave_stub_ in server.cc,
\* slaves in coordinator.cc): a failover loses no forwarded write.
ReplicaAgreement ==
    \A i \in Clusters : stub[i] # NoPort => slaves[i].port = stub[i]

\* Once every stream on which a master was heard has ended, the coordinator
\* holds that master INACTIVE, whatever logins, lookups, late heartbeats and
\* restarts came between (the end of ServerCommunicate).
FailoverDetected ==
    \A i \in Clusters :
        /\ HeardSessions(<<"master", i>>) # {}
        /\ \A s \in HeardSessions(<<"master", i>>) : stream[s] = "ended"
        => masters[i].status = "INACTIVE"

\* A synchronizer reads the slave's logs, or is told to, only when its master
\* never logged in or has lost a stream (the -1 heartbeat).
SwitchJustified ==
    \A i \in Clusters :
        mode[i] = "slave" \/ "slave" \in inbox[i]
        => \/ masters[i].port = NoPort
           \/ \E s \in HeardSessions(<<"master", i>>) : stream[s] = "ended"

\* A synchronizer that is connected, connecting or told to connect knows of a
\* peer in every other cluster, so both ports that Syncs returns are real.
ConnectAfterAllRegistered ==
    \A i \in Clusters :
        connected[i] \/ link[i].busy \/ "connect" \in inbox[i]
        => syncs = Clusters

\* A master that stays up is ACTIVE for good from some time on: the stream of
\* an earlier run ends once, and the next heartbeat repairs what that did.
LiveMasterActive ==
    \A i \in Clusters :
        <>[]Alive(<<"master", i>>) => <>[](masters[i].status = "ACTIVE")

\* When a master that was heard is down for good and its slave, entered in
\* the table, serves for good, the clients of the cluster end at the slave.
ClientsFailOver ==
    \A c \in Clients :
        LET m == <<"master", Home(c)>>
            r == <<"slave", Home(c)>>
        IN  <>[](/\ pc[m] = "down"
                 /\ HeardSessions(m) # {}
                 /\ pc[r] = "serving"
                 /\ slaves[Home(c)].port = r)
            => <>[](clientPort[c] = r)

\* If no synchronizer ever restarts and every connectSyncs runs while all of
\* them serve, all are connected: the one-shot "done" flags and the single
\* attempt are enough exactly then.
SyncsConnect ==
    LET up == \A i \in Clusters : pc[<<"sync", i>>] = "serving"
    IN  /\ [](\A i \in Clusters : inc[<<"sync", i>>] <= 1)
        /\ []((\E i \in Clusters : link[i].busy) => up)
        /\ <>[]up
        => <>(\A i \in Clusters : connected[i])

\* "if you are the master send the request to the slave" (server.cc:246):
\* while a master and its slave serve, neither of them ever restarted, the
\* master's stub leads to the slave.
MasterForwards ==
    \A i \in Clusters :
        LET m == <<"master", i>>
            r == <<"slave", i>>
        IN  /\ pc[m] = "serving" /\ inc[m] = 1
            /\ pc[r] = "serving" /\ inc[r] = 1
            => stub[i] = r
=============================================================================
