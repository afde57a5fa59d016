----------------------------- MODULE Coordinator -----------------------------
(***************************************************************************)
(* The coordinator of the distributed SNS, src/MP3/coordinator.cc: the     *)
(* three in-memory tables it keeps about the processes of every cluster    *)
(* and the four things its RPC handlers do to them.  Each operator below   *)
(* is one handler, or one turn of the read loop of ServerCommunicate, as a *)
(* step on the coordinator's own variables; ControlPlane composes them     *)
(* with the processes that call them.                                      *)
(*                                                                         *)
(* A handler is one atomic step.  gRPC runs the handlers on several        *)
(* threads and the code locks nothing, so two of them that touch the same  *)
(* unordered_map at once are a data race; that race is not modelled, see   *)
(* the README.                                                             *)
(***************************************************************************)
EXTENDS Integers, FiniteSets

CONSTANT NumClusters   \* the code has 3: syncs.size() == 3, client_id % 3

ASSUME NumClustersAssumption == NumClusters \in Nat \ {0}

VARIABLES
    masters,   \* cluster -> entry of the map "masters"
    slaves,    \* cluster -> entry of the map "slaves"
    syncs,     \* the clusters whose synchronizer has an entry in "syncs"
    done       \* cluster -> the synchronizer was told to connect

coordVars == <<masters, slaves, syncs, done>>

Clusters  == 1..NumClusters
Kinds     == {"master", "slave", "sync"}
Processes == Kinds \X Clusters

\* start.sh gives every process a port of its own, so the process stands for
\* its port.  NoPort is the empty string of a default-constructed entry.
NoPort == <<"none", 0>>
Ports  == Processes \cup {NoPort}

\* An entry with status "ABSENT" is a key the map does not hold.
Statuses == {"ABSENT", "INACTIVE", "ACTIVE"}
Entries  == [port : Ports, status : Statuses]
Absent   == [port |-> NoPort, status |-> "ABSENT"]

\* What m[k] yields: operator[] of unordered_map inserts ("", INACTIVE).
AtKey(entry) == IF entry.status = "ABSENT"
                THEN [port |-> NoPort, status |-> "INACTIVE"]
                ELSE entry

\* The table after m[i].second = s.
SetStatus(table, i, s) ==
    [table EXCEPT ![i] = [port |-> AtKey(table[i]).port, status |-> s]]

\* The table after m[i] was evaluated.
Touch(table, i) == [table EXCEPT ![i] = AtKey(table[i])]

CoordTypeOK ==
    /\ masters \in [Clusters -> Entries]
    /\ slaves \in [Clusters -> Entries]
    /\ syncs \subseteq Clusters
    /\ done \in [Clusters -> BOOLEAN]

CoordInit ==
    /\ masters = [i \in Clusters |-> Absent]
    /\ slaves = [i \in Clusters |-> Absent]
    /\ syncs = {}
    /\ done = [i \in Clusters |-> FALSE]

-----------------------------------------------------------------------------
(* Login                                                                    *)

\* A master is entered once; the first one is told its slave's port, and
\* asking for that port leaves an empty slave entry when there was none.
LoginMaster(i) ==
    /\ IF masters[i].status = "ABSENT"
       THEN /\ masters' = [masters EXCEPT ![i] = [port |-> <<"master", i>>,
                                                  status |-> "ACTIVE"]]
            /\ slaves' = Touch(slaves, i)
       ELSE UNCHANGED <<masters, slaves>>
    /\ UNCHANGED <<syncs, done>>

LoginMasterReply(i) ==
    IF masters[i].status = "ABSENT" THEN AtKey(slaves[i]).port ELSE NoPort

\* A slave is entered once, whoever made the entry.
LoginSlave(i) ==
    /\ slaves' = IF slaves[i].status = "ABSENT"
                 THEN [slaves EXCEPT ![i] = [port |-> <<"slave", i>>,
                                             status |-> "ACTIVE"]]
                 ELSE slaves
    /\ UNCHANGED <<masters, syncs, done>>

BugLoginSyncFromZero(i) ==
    /\ syncs' = syncs \cup {i - 1}
    /\ done' = [done EXCEPT ![i] = FALSE]
    /\ UNCHANGED <<masters, slaves>>

LoginSync(i) ==
    /\ syncs' = syncs \cup {i}
    /\ done' = [done EXCEPT ![i] = FALSE]
    /\ UNCHANGED <<masters, slaves>>

\* A client is sent to the master of its cluster, or to the slave when the
\* master is not ACTIVE.  The slave's own status is not looked at.
Home(c) == (c % NumClusters) + 1

BugGetServerOnlyMaster(c) == AtKey(masters[Home(c)]).port

getServer(c) ==
    IF AtKey(masters[Home(c)]).status = "ACTIVE"
    THEN masters[Home(c)].port
    ELSE AtKey(slaves[Home(c)]).port

LoginClient(c) ==
    /\ masters' = Touch(masters, Home(c))
    /\ slaves' = IF AtKey(masters[Home(c)]).status = "ACTIVE"
                 THEN slaves ELSE Touch(slaves, Home(c))
    /\ UNCHANGED <<syncs, done>>

-----------------------------------------------------------------------------
(* ServerCommunicate: one heartbeat read, and the end of the stream         *)

BugHeartbeatMasterIgnored(i) ==
    masters' = Touch(masters, i) /\ UNCHANGED <<slaves, syncs, done>>

HeartbeatMaster(i) ==
    /\ masters' = IF AtKey(masters[i]).status = "INACTIVE"
                  THEN SetStatus(masters, i, "ACTIVE") ELSE masters
    /\ UNCHANGED <<slaves, syncs, done>>

HeartbeatSlave(i) ==
    /\ slaves' = IF AtKey(slaves[i]).status = "INACTIVE"
                 THEN SetStatus(slaves, i, "ACTIVE") ELSE slaves
    /\ UNCHANGED <<masters, syncs, done>>

\* server_id 1 tells a synchronizer to connect to its peers, once every
\* cluster has a synchronizer; -1 tells it that its master is gone.
BugAnnounceEarly(i) == ~done[i]

AnnounceConnect(i) == syncs = Clusters /\ ~done[i]

BugAnnounceSwitchOnSlave(i) == AtKey(slaves[i]).status = "INACTIVE"

AnnounceSwitch(i) == AtKey(masters[i]).status = "INACTIVE"

BugHeartbeatSyncAlwaysDone(i) ==
    /\ done' = [done EXCEPT ![i] = TRUE]
    /\ masters' = Touch(masters, i)
    /\ UNCHANGED <<slaves, syncs>>

HeartbeatSync(i) ==
    /\ done' = IF AnnounceConnect(i) THEN [done EXCEPT ![i] = TRUE] ELSE done
    /\ masters' = Touch(masters, i)
    /\ UNCHANGED <<slaves, syncs>>

HeartbeatSyncReplies(i) ==
    (IF AnnounceConnect(i) THEN {"connect"} ELSE {})
        \cup (IF AnnounceSwitch(i) THEN {"slave"} ELSE {})

\* Mutants: the entry is erased; the entry is left alone.
BugEndedErases(table, i) == [table EXCEPT ![i] = Absent]
BugEndedKeeps(table, i) == table

Ended(table, i) == SetStatus(table, i, "INACTIVE")

\* After the loop: only a master's stream marks a master, every other kind
\* of stream, a synchronizer's included, marks the slave entry of server_id.
EndHeardStream(kind, i) ==
    /\ IF kind = "master"
       THEN /\ masters' = Ended(masters, i)
            /\ UNCHANGED slaves
       ELSE /\ slaves' = Ended(slaves, i)
            /\ UNCHANGED masters
    /\ UNCHANGED <<syncs, done>>

\* A stream that ends before its first heartbeat leaves server_id
\* uninitialized: the value may or may not be the key of a cluster.
EndUnheardStream ==
    /\ \/ UNCHANGED slaves
       \/ \E i \in Clusters : slaves' = SetStatus(slaves, i, "INACTIVE")
    /\ UNCHANGED <<masters, syncs, done>>

\* Syncs: the synchronizers other than the caller.
SyncsReply(i) == syncs \ {i}
=============================================================================
