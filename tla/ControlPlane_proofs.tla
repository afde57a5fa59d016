------------------------ MODULE ControlPlane_proofs ------------------------
(***************************************************************************)
(* The safety properties of ControlPlane, for any number of clusters,      *)
(* clients, restarts and heartbeats in flight.                             *)
(*                                                                         *)
(* None of the four is inductive.  What they rest on:                      *)
(*   SessionsFresh    a stream that has ended is never opened again, as    *)
(*                    every run of a process has a session of its own;     *)
(*   StubEntered      the slave entry a master was told of exists, so no   *)
(*                    login overwrites its port;                           *)
(*   InactiveJustified an INACTIVE entry is a placeholder or a lost master.*)
(***************************************************************************)
EXTENDS ControlPlane, TLAPS

SessionsFresh ==
    /\ \A p \in Processes : pc[p] # "down" => inc[p] >= 1
    /\ \A p \in Processes : \A n \in 1..MaxStarts :
            n > inc[p] => stream[<<p, n>>] = "none"
    /\ \A p \in Processes :
            pc[p] = "registered" => stream[<<p, inc[p]>>] = "none"

StubEntered ==
    \A i \in Clusters : stub[i] # NoPort =>
        /\ slaves[i].status # "ABSENT"
        /\ slaves[i].port = stub[i]

Lost(i) == \E s \in heard : s[1] = <<"master", i>> /\ stream[s] = "ended"

Placeholder(i) == masters[i].status # "ABSENT" /\ masters[i].port = NoPort

InactiveJustified ==
    \A i \in Clusters :
        masters[i].status = "INACTIVE" => Placeholder(i) \/ Lost(i)

SwitchedJustified ==
    \A i \in Clusters :
        mode[i] = "slave" \/ "slave" \in inbox[i] => Placeholder(i) \/ Lost(i)

-----------------------------------------------------------------------------
(* The coordinator's tables                                                 *)

\* Whatever operator[] and a status assignment do, the tables keep their type.
LEMMA TableType ==
    ASSUME NEW table \in [Clusters -> Entries], NEW i \in Clusters,
           NEW s \in Statuses
    PROVE  /\ AtKey(table[i]) \in Entries
           /\ SetStatus(table, i, s) \in [Clusters -> Entries]
           /\ Touch(table, i) \in [Clusters -> Entries]
  BY DEF AtKey, SetStatus, Touch, Entries, Statuses, Ports

\* operator[] changes no entry that exists, and a port it creates is NoPort.
LEMMA TouchEntry ==
    ASSUME NEW table \in [Clusters -> Entries], NEW i \in Clusters,
           NEW j \in Clusters
    PROVE  /\ table[j].status # "ABSENT" => Touch(table, i)[j] = table[j]
           /\ Touch(table, i)[j].status # "ABSENT"
                \/ Touch(table, i)[j] = table[j]
           /\ Touch(table, i)[i].status # "ABSENT"
           /\ Touch(table, i)[j].status = "INACTIVE" =>
                table[j].status = "INACTIVE" \/ Touch(table, i)[j].port = NoPort
  BY DEF Touch, AtKey, Entries, Statuses

\* Setting a status touches one entry and keeps the port of an existing one.
LEMMA SetEntry ==
    ASSUME NEW table \in [Clusters -> Entries], NEW i \in Clusters,
           NEW j \in Clusters, NEW s \in Statuses
    PROVE  /\ j # i => SetStatus(table, i, s)[j] = table[j]
           /\ SetStatus(table, i, s)[i].status = s
           /\ table[i].status # "ABSENT" =>
                SetStatus(table, i, s)[i].port = table[i].port
  BY DEF SetStatus, AtKey, Entries, Statuses

-----------------------------------------------------------------------------
\* Every step of every process and of the coordinator keeps the types.
LEMMA TypeStep ==
    TypeOK /\ SessionsFresh /\ [Next]_vars => TypeOK'
<1> SUFFICES ASSUME TypeOK, SessionsFresh, [Next]_vars
             PROVE  TypeOK'
  OBVIOUS
<1> USE NumClustersAssumption, ControlPlaneAssumption DEF TypeOK, CoordTypeOK
<1>a. \A p \in Processes : KindOf(p) \in Kinds /\ ClusterOf(p) \in Clusters
  BY DEF Processes, KindOf, ClusterOf
<1>b. \A s \in Sessions : s[1] \in Processes /\ s[2] \in 1..MaxStarts
  BY DEF Sessions
<1>c. \A i \in Clusters : AtKey(slaves[i]).port \in Ports
                       /\ AtKey(masters[i]).port \in Ports
  BY DEF AtKey, Entries, Ports
<1>1. ASSUME NEW p \in Processes, Login(p) PROVE TypeOK'
  <2>1. ClusterOf(p) \in Clusters
    BY <1>a
  <2>2. <<"master", ClusterOf(p)>> \in Ports /\ <<"slave", ClusterOf(p)>> \in Ports
    BY <2>1 DEF Ports, Processes, Kinds
  <2>3. CoordTypeOK' /\ stub' \in [Clusters -> Ports]
    <3>1. CASE LoginMaster(ClusterOf(p)) /\ stub' = [stub EXCEPT
                   ![ClusterOf(p)] = LoginMasterReply(ClusterOf(p))]
      <4>1. LoginMasterReply(ClusterOf(p)) \in Ports
        BY <1>c, <2>1 DEF LoginMasterReply, Ports
      <4>2. Touch(slaves, ClusterOf(p)) \in [Clusters -> Entries]
        BY <2>1, TableType DEF Statuses
      <4>3. [port |-> <<"master", ClusterOf(p)>>, status |-> "ACTIVE"] \in Entries
        BY <2>2 DEF Entries, Statuses
      <4>4. masters' \in [Clusters -> Entries] /\ slaves' \in [Clusters -> Entries]
        BY <3>1, <4>2, <4>3 DEF LoginMaster
      <4>5. stub' \in [Clusters -> Ports]
        BY <3>1, <4>1
      <4>. QED  BY <3>1, <4>4, <4>5 DEF LoginMaster
    <3>2. CASE LoginSlave(ClusterOf(p)) /\ UNCHANGED stub
      BY <3>2, <2>1, <2>2 DEF LoginSlave, Entries, Statuses
    <3>3. CASE LoginSync(ClusterOf(p)) /\ UNCHANGED stub
      BY <3>3, <2>1 DEF LoginSync
    <3>. QED  BY <1>1, <3>1, <3>2, <3>3 DEF Login
  <2>4. inc' \in [Processes -> 0..MaxStarts]
    BY <1>1 DEF Login
  <2>5. pc' \in [Processes -> Steps]
    BY <1>1 DEF Login, Steps
  <2>. QED  BY <1>1, <2>3, <2>4, <2>5 DEF Login
<1>2. ASSUME NEW p \in Processes, OpenStream(p) PROVE TypeOK'
  <2>1. pc' \in [Processes -> Steps]
    BY <1>2 DEF OpenStream, Steps
  <2>2. stream' \in [Sessions -> {"none", "open", "broken", "ended"}]
    BY <1>2 DEF OpenStream
  <2>. QED  BY <1>2, <2>1, <2>2 DEF OpenStream, coordVars
<1>3. ASSUME NEW p \in Processes, RunServer(p) PROVE TypeOK'
  BY <1>3 DEF RunServer, Steps, coordVars
<1>4. ASSUME NEW p \in Processes, SendHeartbeat(p) PROVE TypeOK'
  <2>1. Current(p) \in Sessions
    BY <1>4 DEF SendHeartbeat, SessionsFresh, Current, Sessions
  <2>2. wire' \in [Sessions -> 0..MaxInFlight]
    BY <1>4, <2>1 DEF SendHeartbeat
  <2>. QED  BY <1>4, <2>2 DEF SendHeartbeat, coordVars
<1>5. ASSUME NEW p \in Processes, Crash(p) PROVE TypeOK'
  <2>1. pc' \in [Processes -> Steps]
    BY <1>5 DEF Crash, Steps
  <2>2. stream' \in [Sessions -> {"none", "open", "broken", "ended"}]
    BY <1>5 DEF Crash
  <2>3. stub' \in [Clusters -> Ports]
    BY <1>5, <1>a DEF Crash, Ports
  <2>4. /\ inbox' \in [Clusters -> SUBSET {"connect", "slave"}]
        /\ link' \in [Clusters -> Links]
        /\ connected' \in [Clusters -> BOOLEAN]
        /\ mode' \in [Clusters -> {"master", "slave"}]
    <3>1. Idle \in Links
      BY DEF Idle, Links
    <3>2. CASE KindOf(p) = "sync"
      <4>1. /\ inbox' = [inbox EXCEPT ![ClusterOf(p)] = {}]
            /\ link' = [link EXCEPT ![ClusterOf(p)] = Idle]
            /\ connected' = [connected EXCEPT ![ClusterOf(p)] = FALSE]
            /\ mode' = [mode EXCEPT ![ClusterOf(p)] = "master"]
        BY <1>5, <3>2 DEF Crash
      <4>2. inbox' \in [Clusters -> SUBSET {"connect", "slave"}]
        BY <4>1
      <4>3. link' \in [Clusters -> Links]
        BY <4>1, <3>1
      <4>. QED  BY <4>1, <4>2, <4>3
    <3>3. CASE KindOf(p) # "sync"
      BY <1>5, <3>3 DEF Crash
    <3>. QED  BY <3>2, <3>3
  <2>. QED  BY <1>5, <2>1, <2>2, <2>3, <2>4 DEF Crash, coordVars
<1>6. ASSUME NEW s \in Sessions, ReadHeartbeat(s) PROVE TypeOK'
  <2> DEFINE i == ClusterOf(s[1])
  <2>1. i \in Clusters
    BY <1>a, <1>b
  <2>2. wire' \in [Sessions -> 0..MaxInFlight] /\ heard' \subseteq Sessions
    BY <1>6 DEF ReadHeartbeat
  <2>3. CASE HeartbeatMaster(i) /\ UNCHANGED inbox
    <3>1. CoordTypeOK'
      BY <2>1, <2>3, TableType DEF HeartbeatMaster, Statuses
    <3>. QED  BY <1>6, <2>2, <2>3, <3>1 DEF ReadHeartbeat
  <2>4. CASE HeartbeatSlave(i) /\ UNCHANGED inbox
    <3>1. CoordTypeOK'
      BY <2>1, <2>4, TableType DEF HeartbeatSlave, Statuses
    <3>. QED  BY <1>6, <2>2, <2>4, <3>1 DEF ReadHeartbeat
  <2>5. CASE /\ HeartbeatSync(i)
             /\ inbox' = IF stream[s] = "open"
                         THEN [inbox EXCEPT ![i] = @ \cup HeartbeatSyncReplies(i)]
                         ELSE inbox
    <3>1. CoordTypeOK'
      <4>1. Touch(masters, i) \in [Clusters -> Entries]
        BY <2>1, TableType DEF Statuses
      <4>. QED  BY <2>1, <2>5, <4>1 DEF HeartbeatSync
    <3>2. inbox' \in [Clusters -> SUBSET {"connect", "slave"}]
      BY <2>1, <2>5 DEF HeartbeatSyncReplies
    <3>. QED  BY <1>6, <2>2, <3>1, <3>2 DEF ReadHeartbeat
  <2>. QED  BY <1>6, <2>3, <2>4, <2>5 DEF ReadHeartbeat
<1>7. ASSUME NEW s \in Sessions, EndStream(s) PROVE TypeOK'
  <2>1. ClusterOf(s[1]) \in Clusters
    BY <1>a, <1>b
  <2>2. CoordTypeOK'
    <3>0. \A i \in Clusters :
              /\ SetStatus(masters, i, "INACTIVE") \in [Clusters -> Entries]
              /\ SetStatus(slaves, i, "INACTIVE") \in [Clusters -> Entries]
      BY TableType DEF Statuses
    <3>1. CASE s \in heard
      BY <1>7, <2>1, <3>0, <3>1 DEF EndStream, EndHeardStream, Ended
    <3>2. CASE s \notin heard
      BY <1>7, <3>0, <3>2 DEF EndStream, EndUnheardStream
    <3>. QED  BY <3>1, <3>2
  <2>3. wire' \in [Sessions -> 0..MaxInFlight]
    BY <1>7 DEF EndStream
  <2>4. stream' \in [Sessions -> {"none", "open", "broken", "ended"}]
    BY <1>7 DEF EndStream
  <2>. QED  BY <1>7, <2>2, <2>3, <2>4 DEF EndStream
<1>8. ASSUME NEW i \in Clusters, ConnectBegin(i) PROVE TypeOK'
  <2>1. [todo |-> SyncsReply(i), ok |-> TRUE, busy |-> TRUE] \in Links
    BY DEF Links, SyncsReply
  <2>2. inbox' \in [Clusters -> SUBSET {"connect", "slave"}]
        /\ link' \in [Clusters -> Links]
    BY <1>8, <2>1 DEF ConnectBegin
  <2>. QED  BY <1>8, <2>2 DEF ConnectBegin, coordVars
<1>9. ASSUME NEW i \in Clusters, NEW j \in Clusters, CheckConnection(i, j)
      PROVE TypeOK'
  <2>1. [todo |-> link[i].todo \ {j}, ok |-> link[i].ok /\ Serving(<<"sync", j>>),
         busy |-> TRUE] \in Links
    BY DEF Links, Serving
  <2>2. link' \in [Clusters -> Links]
    BY <1>9, <2>1 DEF CheckConnection
  <2>. QED  BY <1>9, <2>2 DEF CheckConnection, coordVars
<1>10. ASSUME NEW i \in Clusters, ConnectEnd(i) PROVE TypeOK'
  <2>1. link' \in [Clusters -> Links]
    BY <1>10 DEF ConnectEnd, Links, Idle
  <2>2. connected' \in [Clusters -> BOOLEAN]
    BY <1>10 DEF ConnectEnd, Links
  <2>. QED  BY <1>10, <2>1, <2>2 DEF ConnectEnd, coordVars
<1>11. ASSUME NEW i \in Clusters, SwitchToSlave(i) PROVE TypeOK'
  BY <1>11 DEF SwitchToSlave, coordVars
<1>12. ASSUME NEW c \in Clients, connectTo(c) PROVE TypeOK'
  <2>1. Home(c) \in Clusters
    BY DEF Home, Clusters
  <2>2. getServer(c) \in Ports
    BY <1>c, <2>1 DEF getServer, Entries
  <2>3. CoordTypeOK'
    <3>1. /\ Touch(masters, Home(c)) \in [Clusters -> Entries]
          /\ Touch(slaves, Home(c)) \in [Clusters -> Entries]
      BY <2>1, TableType DEF Statuses
    <3>. QED  BY <1>12, <3>1 DEF connectTo, LoginClient
  <2>. QED  BY <1>12, <2>2, <2>3 DEF connectTo
<1>13. CASE UNCHANGED vars
  BY <1>13 DEF vars, coordVars, procVars
<1>. QED
  BY <1>1, <1>2, <1>3, <1>4, <1>5, <1>6, <1>7, <1>8, <1>9, <1>10, <1>11,
     <1>12, <1>13 DEF Next
-----------------------------------------------------------------------------
\* A run of a process opens the stream of its own session and of no other.
LEMMA FreshStep ==
    TypeOK /\ SessionsFresh /\ [Next]_vars => SessionsFresh'
<1> SUFFICES ASSUME TypeOK, SessionsFresh, [Next]_vars
             PROVE  SessionsFresh'
  OBVIOUS
<1> USE NumClustersAssumption, ControlPlaneAssumption DEF TypeOK
<1>1. ASSUME NEW p \in Processes, Login(p) PROVE SessionsFresh'
  BY <1>1 DEF Login, SessionsFresh, Sessions
<1>2. ASSUME NEW p \in Processes, OpenStream(p) PROVE SessionsFresh'
  BY <1>2 DEF OpenStream, SessionsFresh, Sessions, Current
<1>3. ASSUME NEW p \in Processes, RunServer(p) PROVE SessionsFresh'
  BY <1>3 DEF RunServer, SessionsFresh
<1>4. ASSUME NEW p \in Processes, SendHeartbeat(p) PROVE SessionsFresh'
  BY <1>4 DEF SendHeartbeat, SessionsFresh
<1>5. ASSUME NEW p \in Processes, Crash(p) PROVE SessionsFresh'
  <2>1. /\ pc' = [pc EXCEPT ![p] = "down"]
        /\ inc' = inc
        /\ stream' = IF stream[<<p, inc[p]>>] = "open"
                     THEN [stream EXCEPT ![<<p, inc[p]>>] = "broken"] ELSE stream
    BY <1>5 DEF Crash, Current
  <2>. QED  BY <2>1 DEF SessionsFresh, Sessions
<1>6. ASSUME NEW s \in Sessions, ReadHeartbeat(s) PROVE SessionsFresh'
  BY <1>6 DEF ReadHeartbeat, SessionsFresh
<1>7. ASSUME NEW s \in Sessions, EndStream(s) PROVE SessionsFresh'
  <2>1. /\ pc' = pc /\ inc' = inc
        /\ stream[s] = "broken"
        /\ stream' = [stream EXCEPT ![s] = "ended"]
    BY <1>7 DEF EndStream
  <2>. QED  BY <2>1 DEF SessionsFresh, Sessions
<1>8. ASSUME NEW i \in Clusters, ConnectBegin(i) PROVE SessionsFresh'
  BY <1>8 DEF ConnectBegin, SessionsFresh
<1>9. ASSUME NEW i \in Clusters, NEW j \in Clusters, CheckConnection(i, j)
      PROVE SessionsFresh'
  BY <1>9 DEF CheckConnection, SessionsFresh
<1>10. ASSUME NEW i \in Clusters, ConnectEnd(i) PROVE SessionsFresh'
  BY <1>10 DEF ConnectEnd, SessionsFresh
<1>11. ASSUME NEW i \in Clusters, SwitchToSlave(i) PROVE SessionsFresh'
  BY <1>11 DEF SwitchToSlave, SessionsFresh
<1>12. ASSUME NEW c \in Clients, connectTo(c) PROVE SessionsFresh'
  BY <1>12 DEF connectTo, SessionsFresh
<1>13. CASE UNCHANGED vars
  BY <1>13 DEF vars, procVars, SessionsFresh
<1>. QED
  BY <1>1, <1>2, <1>3, <1>4, <1>5, <1>6, <1>7, <1>8, <1>9, <1>10, <1>11,
     <1>12, <1>13 DEF Next

\* A stream that has ended stays ended, and a session heard stays heard.
LEMMA EndedForever ==
    TypeOK /\ SessionsFresh /\ [Next]_vars =>
        /\ \A s \in Sessions : stream[s] = "ended" => stream'[s] = "ended"
        /\ heard \subseteq heard'
<1> DEFINE Kept == /\ \A s \in Sessions : stream[s] = "ended" => stream'[s] = "ended"
                   /\ heard \subseteq heard'
<1> SUFFICES ASSUME TypeOK, SessionsFresh, [Next]_vars
             PROVE  Kept
  OBVIOUS
<1> USE NumClustersAssumption, ControlPlaneAssumption DEF TypeOK
<1>1. ASSUME NEW p \in Processes, OpenStream(p) PROVE Kept
  BY <1>1 DEF OpenStream, SessionsFresh, Current
<1>2. ASSUME NEW p \in Processes, Crash(p) PROVE Kept
  BY <1>2 DEF Crash
<1>3. ASSUME NEW s \in Sessions, ReadHeartbeat(s) PROVE Kept
  BY <1>3 DEF ReadHeartbeat
<1>4. ASSUME NEW s \in Sessions, EndStream(s) PROVE Kept
  BY <1>4 DEF EndStream
<1>5. ASSUME UNCHANGED <<stream, heard>> PROVE Kept
  BY <1>5
<1>. QED
  BY <1>1, <1>2, <1>3, <1>4, <1>5
     DEF Next, Login, RunServer, SendHeartbeat, ConnectBegin, CheckConnection,
         ConnectEnd, SwitchToSlave, connectTo, vars, procVars

\* What a step may do to the entry of a master, to the sessions it was heard
\* on and to what its synchronizer was told.
EntryStep(i) ==
    LET m == <<"master", i>> IN
    \* an entry stays, with its port
    /\ masters[i].status # "ABSENT" =>
           masters'[i].status # "ABSENT" /\ masters'[i].port = masters[i].port
    \* it turns INACTIVE as a placeholder or when a heard stream ends
    /\ masters'[i].status = "INACTIVE" =>
           \/ masters[i].status = "INACTIVE"
           \/ masters'[i].port = NoPort
           \/ \E s \in heard' : s[1] = m /\ stream'[s] = "ended"
    \* an INACTIVE one turns ACTIVE only when a live stream is heard
    /\ masters[i].status = "INACTIVE" =>
           \/ masters'[i].status = "INACTIVE"
           \/ \E s \in heard' : s[1] = m /\ stream'[s] # "ended"
    \* a newly heard stream has not ended, one that ends turns it INACTIVE
    /\ \A s \in heard' : s[1] = m /\ stream'[s] = "ended" =>
           \/ s \in heard /\ stream[s] = "ended"
           \/ masters'[i].status = "INACTIVE"
    \* the synchronizer is sent to the slave's logs by an INACTIVE entry
    /\ mode'[i] = "slave" \/ "slave" \in inbox'[i] =>
           \/ mode[i] = "slave" \/ "slave" \in inbox[i]
           \/ masters'[i].status = "INACTIVE"

LEMMA EntryStepHolds ==
    ASSUME TypeOK, SessionsFresh, [Next]_vars, NEW k \in Clusters
    PROVE  EntryStep(k)
<1> USE NumClustersAssumption, ControlPlaneAssumption DEF TypeOK, CoordTypeOK
<1>a. /\ masters[k] \in Entries
      /\ masters[k].status \in Statuses
  BY DEF Entries
<1>b. \A s \in Sessions : ClusterOf(s[1]) \in Clusters
                        /\ s[1] = <<KindOf(s[1]), ClusterOf(s[1])>>
  BY DEF Sessions, Processes, ClusterOf, KindOf
<1>c. \A p \in Processes : ClusterOf(p) \in Clusters
  BY DEF Processes, ClusterOf
<1>d. stream \in [Sessions -> {"none", "open", "broken", "ended"}]
      /\ heard \subseteq Sessions
  OBVIOUS
<1>e. \A i \in Clusters : \A st \in {"INACTIVE", "ACTIVE"} :
          /\ k # i => SetStatus(masters, i, st)[k] = masters[k]
          /\ k = i => SetStatus(masters, i, st)[k].status = st
          /\ k = i /\ masters[k].status # "ABSENT" =>
                 SetStatus(masters, i, st)[k].port = masters[k].port
  <2> SUFFICES ASSUME NEW i \in Clusters, NEW st \in {"INACTIVE", "ACTIVE"}
               PROVE  /\ k # i => SetStatus(masters, i, st)[k] = masters[k]
                      /\ k = i => SetStatus(masters, i, st)[k].status = st
                      /\ k = i /\ masters[k].status # "ABSENT" =>
                             SetStatus(masters, i, st)[k].port = masters[k].port
    OBVIOUS
  <2>1. masters \in [Clusters -> Entries] /\ st \in Statuses
    BY DEF Statuses
  <2>. QED  BY <2>1, SetEntry
<1>0. ASSUME UNCHANGED <<masters, stream, heard, mode, inbox>> PROVE EntryStep(k)
  BY <1>0 DEF EntryStep
<1>1. ASSUME NEW p \in Processes, Login(p) PROVE EntryStep(k)
  <2>1. UNCHANGED <<stream, heard, mode, inbox>>
    BY <1>1 DEF Login
  <2>2. \/ masters'[k] = masters[k]
        \/ masters[k].status = "ABSENT" /\ masters'[k].status = "ACTIVE"
    BY <1>1, <1>c DEF Login, LoginMaster, LoginSlave, LoginSync
  <2>. QED  BY <2>1, <2>2 DEF EntryStep
<1>2. ASSUME NEW p \in Processes, OpenStream(p) PROVE EntryStep(k)
  <2>1. /\ UNCHANGED <<masters, heard, mode, inbox>>
        /\ stream' = [stream EXCEPT ![Current(p)] = "open"]
    BY <1>2 DEF OpenStream, coordVars
  <2>2. \A s \in heard : stream'[s] = "ended" => stream[s] = "ended"
    BY <2>1, <1>d
  <2>. QED  BY <2>1, <2>2 DEF EntryStep
<1>5. ASSUME NEW p \in Processes, Crash(p) PROVE EntryStep(k)
  <2>1. /\ UNCHANGED <<masters, heard>>
        /\ stream' = IF stream[Current(p)] = "open"
                     THEN [stream EXCEPT ![Current(p)] = "broken"] ELSE stream
    BY <1>5 DEF Crash, coordVars
  <2>2. \A s \in heard : stream'[s] = "ended" => stream[s] = "ended"
    BY <2>1, <1>d
  <2>3. mode'[k] = "slave" \/ "slave" \in inbox'[k] =>
            mode[k] = "slave" \/ "slave" \in inbox[k]
    BY <1>5, <1>c DEF Crash
  <2>. QED  BY <2>1, <2>2, <2>3 DEF EntryStep
<1>6. ASSUME NEW s \in Sessions, ReadHeartbeat(s) PROVE EntryStep(k)
  <2> DEFINE i == ClusterOf(s[1])
  <2>1. /\ UNCHANGED <<stream, mode>>
        /\ heard' = heard \cup {s}
        /\ stream[s] \in {"open", "broken"}
    BY <1>6 DEF ReadHeartbeat
  <2>2. CASE KindOf(s[1]) = "master" /\ HeartbeatMaster(i) /\ UNCHANGED inbox
    <3>1. CASE i = k
      <4>1. s[1] = <<"master", k>>
        BY <2>2, <3>1, <1>b
      <4>2. /\ masters[k].status # "ABSENT" => masters'[k].port = masters[k].port
            /\ masters'[k].status = "ACTIVE"
        <5>1. CASE AtKey(masters[k]).status = "INACTIVE"
          <6>1. masters' = SetStatus(masters, k, "ACTIVE")
            BY <2>2, <3>1, <5>1 DEF HeartbeatMaster
          <6>. QED  BY <6>1, <1>e
        <5>2. CASE AtKey(masters[k]).status # "INACTIVE"
          BY <2>2, <3>1, <5>2, <1>a DEF HeartbeatMaster, AtKey, Statuses
        <5>. QED  BY <5>1, <5>2
      <4>3. s \in heard' /\ stream'[s] # "ended"
        BY <2>1
      <4>. QED  BY <2>1, <2>2, <4>1, <4>2, <4>3 DEF EntryStep
    <3>2. CASE i # k
      <4>1. masters'[k] = masters[k]
        BY <2>2, <3>2, <1>b, <1>e DEF HeartbeatMaster
      <4>. QED  BY <2>1, <2>2, <4>1 DEF EntryStep
    <3>. QED  BY <3>1, <3>2
  <2>3. CASE HeartbeatSlave(i) /\ UNCHANGED inbox
    BY <2>1, <2>3 DEF HeartbeatSlave, EntryStep
  <2>4. CASE /\ HeartbeatSync(i)
             /\ inbox' = IF stream[s] = "open"
                         THEN [inbox EXCEPT ![i] = @ \cup HeartbeatSyncReplies(i)]
                         ELSE inbox
    <3>1. masters' = Touch(masters, i) /\ i \in Clusters
      BY <2>4, <1>b DEF HeartbeatSync
    <3>2. /\ masters[k].status # "ABSENT" => masters'[k] = masters[k]
          /\ masters'[k].status = "INACTIVE" =>
                masters[k].status = "INACTIVE" \/ masters'[k].port = NoPort
      BY <3>1, TouchEntry
    <3>3. "slave" \in inbox'[k] /\ "slave" \notin inbox[k] =>
              masters'[k].status = "INACTIVE"
      BY <2>4, <3>1, <1>a
         DEF HeartbeatSyncReplies, AnnounceSwitch, Touch
    <3>. QED  BY <2>1, <3>2, <3>3 DEF EntryStep
  <2>. QED  BY <1>6, <2>2, <2>3, <2>4 DEF ReadHeartbeat
<1>7. ASSUME NEW s \in Sessions, EndStream(s) PROVE EntryStep(k)
  <2> DEFINE i == ClusterOf(s[1])
  <2>1. /\ UNCHANGED <<heard, mode, inbox>>
        /\ stream' = [stream EXCEPT ![s] = "ended"]
    BY <1>7 DEF EndStream
  <2>2. CASE s \in heard /\ s[1] = <<"master", k>>
    <3>1. masters' = SetStatus(masters, k, "INACTIVE")
      BY <1>7, <2>2 DEF EndStream, EndHeardStream, Ended, KindOf, ClusterOf
    <3>2. /\ masters'[k].status = "INACTIVE"
          /\ masters[k].status # "ABSENT" => masters'[k].port = masters[k].port
      BY <3>1, <1>e
    <3>3. s \in heard' /\ stream'[s] = "ended"
      BY <2>1, <2>2, <1>d
    <3>. QED  BY <2>1, <2>2, <3>2, <3>3 DEF EntryStep
  <2>3. CASE ~(s \in heard /\ s[1] = <<"master", k>>)
    <3>1. masters'[k] = masters[k]
      <4>1. CASE s \in heard /\ KindOf(s[1]) = "master"
        <5>1. i # k /\ i \in Clusters
          BY <2>3, <4>1, <1>b
        <5>2. masters' = SetStatus(masters, i, "INACTIVE")
          BY <1>7, <4>1 DEF EndStream, EndHeardStream, Ended
        <5>. QED  BY <5>1, <5>2, <1>e
      <4>2. CASE s \in heard /\ KindOf(s[1]) # "master"
        BY <1>7, <4>2 DEF EndStream, EndHeardStream, Ended
      <4>3. CASE s \notin heard
        BY <1>7, <4>3 DEF EndStream, EndUnheardStream
      <4>. QED  BY <4>1, <4>2, <4>3
    <3>2. \A r \in heard : r[1] = <<"master", k>> =>
              (stream'[r] = "ended" <=> stream[r] = "ended")
      BY <2>1, <2>3, <1>d
    <3>. QED  BY <2>1, <3>1, <3>2 DEF EntryStep
  <2>. QED  BY <2>2, <2>3
<1>8. ASSUME NEW i \in Clusters, ConnectBegin(i) PROVE EntryStep(k)
  <2>1. /\ UNCHANGED <<masters, stream, heard, mode>>
        /\ inbox' = [inbox EXCEPT ![i] = @ \ {"connect"}]
    BY <1>8 DEF ConnectBegin, coordVars
  <2>2. "slave" \in inbox'[k] => "slave" \in inbox[k]
    BY <2>1
  <2>. QED  BY <2>1, <2>2 DEF EntryStep
<1>11. ASSUME NEW i \in Clusters, SwitchToSlave(i) PROVE EntryStep(k)
  <2>1. /\ UNCHANGED <<masters, stream, heard>>
        /\ "slave" \in inbox[i]
        /\ inbox' = [inbox EXCEPT ![i] = @ \ {"slave"}]
        /\ mode' = [mode EXCEPT ![i] = "slave"]
    BY <1>11 DEF SwitchToSlave, coordVars
  <2>2. mode'[k] = "slave" \/ "slave" \in inbox'[k] =>
            mode[k] = "slave" \/ "slave" \in inbox[k]
    BY <2>1
  <2>. QED  BY <2>1, <2>2 DEF EntryStep
<1>12. ASSUME NEW c \in Clients, connectTo(c) PROVE EntryStep(k)
  <2>1. Home(c) \in Clusters
    BY DEF Home, Clusters
  <2>2. UNCHANGED <<stream, heard, mode, inbox>>
    BY <1>12 DEF connectTo
  <2>3. masters' = Touch(masters, Home(c))
    BY <1>12 DEF connectTo, LoginClient
  <2>4. /\ masters[k].status # "ABSENT" => masters'[k] = masters[k]
        /\ masters'[k].status = "INACTIVE" =>
              masters[k].status = "INACTIVE" \/ masters'[k].port = NoPort
    BY <2>1, <2>3, TouchEntry
  <2>. QED  BY <2>2, <2>4 DEF EntryStep
<1>. QED
  BY <1>0, <1>1, <1>2, <1>5, <1>6, <1>7, <1>8, <1>11, <1>12
     DEF Next, RunServer, SendHeartbeat, CheckConnection, ConnectEnd, vars,
         procVars, coordVars

-----------------------------------------------------------------------------
(* Type correctness                                                         *)

BaseInv == TypeOK /\ SessionsFresh

LEMMA BaseInit == Init => BaseInv
<1> SUFFICES ASSUME Init PROVE BaseInv
  OBVIOUS
<1> USE NumClustersAssumption, ControlPlaneAssumption DEF Init, CoordInit
<1>1. CoordTypeOK
  BY DEF CoordTypeOK, Entries, Absent, Ports, Statuses
<1>2. TypeOK
  BY <1>1 DEF TypeOK, Ports, Links, Idle, Steps
<1>3. SessionsFresh
  BY DEF SessionsFresh, Sessions
<1>. QED  BY <1>2, <1>3 DEF BaseInv

LEMMA BaseStep == BaseInv /\ [Next]_vars => BaseInv'
  BY TypeStep, FreshStep DEF BaseInv

LEMMA BaseAlways == Spec => []BaseInv
  BY BaseInit, BaseStep, PTL DEF Spec

\* Every variable of the coordinator and of the processes keeps its type.
THEOREM TypeCorrect == Spec => []TypeOK
<1>1. BaseInv => TypeOK
  BY DEF BaseInv
<1>. QED  BY <1>1, BaseAlways, PTL

-----------------------------------------------------------------------------
(* A lost master is noticed                                                 *)

LEMMA FailoverStep ==
    BaseInv /\ FailoverDetected /\ [Next]_vars => FailoverDetected'
<1> SUFFICES ASSUME BaseInv, FailoverDetected, [Next]_vars,
                    NEW i \in Clusters,
                    (HeardSessions(<<"master", i>>) # {})',
                    (\A s \in HeardSessions(<<"master", i>>) :
                        stream[s] = "ended")'
             PROVE  masters'[i].status = "INACTIVE"
  BY DEF FailoverDetected
<1>1. EntryStep(i)
  BY EntryStepHolds DEF BaseInv
<1>2. \A s \in heard' : s[1] = <<"master", i>> => stream'[s] = "ended"
  BY DEF HeardSessions
<1>3. PICK r \in heard' : r[1] = <<"master", i>>
  BY DEF HeardSessions
<1>4. CASE \A s \in heard' : s[1] = <<"master", i>> =>
               s \in heard /\ stream[s] = "ended"
  <2>1. heard \subseteq heard'
    BY EndedForever DEF BaseInv
  <2>2. masters[i].status = "INACTIVE"
    BY <1>3, <1>4, <2>1 DEF FailoverDetected, HeardSessions
  <2>. QED  BY <1>1, <1>2, <2>2 DEF EntryStep
<1>5. CASE ~(\A s \in heard' : s[1] = <<"master", i>> =>
                 s \in heard /\ stream[s] = "ended")
  BY <1>1, <1>2, <1>5 DEF EntryStep
<1>. QED  BY <1>4, <1>5

\* Once all streams on which a master was heard have ended, the coordinator
\* holds it INACTIVE, so getServer returns the slave from then on.
THEOREM FailoverIsDetected == Spec => []FailoverDetected
<1>1. Init => FailoverDetected
  BY DEF Init, FailoverDetected, HeardSessions
<1>. QED  BY <1>1, FailoverStep, BaseAlways, PTL DEF Spec

-----------------------------------------------------------------------------
(* A synchronizer is not switched without reason                            *)

SwitchInv == InactiveJustified /\ SwitchedJustified

LEMMA SwitchStep == BaseInv /\ SwitchInv /\ [Next]_vars => SwitchInv'
<1> SUFFICES ASSUME BaseInv, SwitchInv, [Next]_vars
             PROVE  SwitchInv'
  OBVIOUS
<1>1. \A i \in Clusters : EntryStep(i)
  BY EntryStepHolds DEF BaseInv
<1>2. ASSUME NEW i \in Clusters, Lost(i) PROVE Lost(i)'
  <2>1. heard \subseteq Sessions
    BY DEF BaseInv, TypeOK
  <2>. QED  BY <1>2, <2>1, EndedForever DEF Lost, BaseInv
<1>3. ASSUME NEW i \in Clusters, Placeholder(i) PROVE Placeholder(i)'
  BY <1>1, <1>3 DEF Placeholder, EntryStep
<1>4. ASSUME NEW i \in Clusters, masters'[i].status = "INACTIVE"
      PROVE  (Placeholder(i) \/ Lost(i))'
  <2>1. \/ masters[i].status = "INACTIVE"
        \/ masters'[i].port = NoPort
        \/ Lost(i)'
    BY <1>1, <1>4 DEF EntryStep, Lost
  <2>. QED
    BY <1>2, <1>3, <1>4, <2>1 DEF SwitchInv, InactiveJustified, Placeholder
<1>5. ASSUME NEW i \in Clusters, mode'[i] = "slave" \/ "slave" \in inbox'[i]
      PROVE  (Placeholder(i) \/ Lost(i))'
  <2>1. \/ mode[i] = "slave" \/ "slave" \in inbox[i]
        \/ masters'[i].status = "INACTIVE"
    BY <1>1, <1>5 DEF EntryStep
  <2>. QED  BY <1>2, <1>3, <1>4, <2>1 DEF SwitchInv, SwitchedJustified
<1>. QED
  BY <1>4, <1>5 DEF SwitchInv, InactiveJustified, SwitchedJustified

\* A synchronizer turns to the slave's logs only when its master was lost or
\* was never entered in the table.
THEOREM SwitchIsJustified == Spec => []SwitchJustified
<1>1. Init => SwitchInv
  BY DEF Init, CoordInit, Absent, SwitchInv, InactiveJustified, SwitchedJustified
<1>2. SwitchInv => SwitchJustified
  BY DEF SwitchInv, SwitchedJustified, SwitchJustified, Placeholder, Lost,
         HeardSessions
<1>. QED  BY <1>1, <1>2, SwitchStep, BaseAlways, PTL DEF Spec

-----------------------------------------------------------------------------
(* Master and coordinator agree on the slave                                *)

LEMMA StubStep == BaseInv /\ StubEntered /\ [Next]_vars => StubEntered'
<1> SUFFICES ASSUME BaseInv, StubEntered, [Next]_vars, NEW k \in Clusters,
                    stub'[k] # NoPort
             PROVE  slaves'[k].status # "ABSENT" /\ slaves'[k].port = stub'[k]
  BY DEF StubEntered
<1> DEFINE Goal == slaves'[k].status # "ABSENT" /\ slaves'[k].port = stub'[k]
<1> USE NumClustersAssumption, ControlPlaneAssumption
        DEF BaseInv, TypeOK, CoordTypeOK
<1>a. \A p \in Processes : ClusterOf(p) \in Clusters
  BY DEF Processes, ClusterOf
<1>b. \A s \in Sessions : ClusterOf(s[1]) \in Clusters
  BY DEF Sessions, Processes, ClusterOf
\* A slave entry that exists keeps its port in every handler.
<1>0. ASSUME stub'[k] = stub[k],
             slaves[k].status # "ABSENT" =>
                 slaves'[k].status # "ABSENT" /\ slaves'[k].port = slaves[k].port
      PROVE  Goal
  BY <1>0 DEF StubEntered
<1>c. \A i \in Clusters : slaves[k].status # "ABSENT" =>
          /\ SetStatus(slaves, i, "INACTIVE")[k].status # "ABSENT"
          /\ SetStatus(slaves, i, "INACTIVE")[k].port = slaves[k].port
          /\ SetStatus(slaves, i, "ACTIVE")[k].status # "ABSENT"
          /\ SetStatus(slaves, i, "ACTIVE")[k].port = slaves[k].port
          /\ Touch(slaves, i)[k] = slaves[k]
  <2> SUFFICES ASSUME NEW i \in Clusters, slaves[k].status # "ABSENT"
               PROVE  /\ SetStatus(slaves, i, "INACTIVE")[k].status # "ABSENT"
                      /\ SetStatus(slaves, i, "INACTIVE")[k].port = slaves[k].port
                      /\ SetStatus(slaves, i, "ACTIVE")[k].status # "ABSENT"
                      /\ SetStatus(slaves, i, "ACTIVE")[k].port = slaves[k].port
                      /\ Touch(slaves, i)[k] = slaves[k]
    OBVIOUS
  <2>1. Touch(slaves, i)[k] = slaves[k]
    BY TouchEntry
  <2>2. CASE i = k
    BY <2>1, <2>2, SetEntry DEF Statuses
  <2>3. CASE i # k
    BY <2>1, <2>3, SetEntry DEF Statuses
  <2>. QED  BY <2>2, <2>3
<1>1. ASSUME NEW p \in Processes, Login(p) PROVE Goal
  <2>1. CASE LoginMaster(ClusterOf(p)) /\ stub' = [stub EXCEPT
                 ![ClusterOf(p)] = LoginMasterReply(ClusterOf(p))]
    <3>1. CASE ClusterOf(p) = k
      <4>1. stub'[k] = LoginMasterReply(k)
        BY <2>1, <3>1
      <4>2. masters[k].status = "ABSENT" /\ stub'[k] = AtKey(slaves[k]).port
        BY <4>1 DEF LoginMasterReply
      <4>3. slaves' = Touch(slaves, k)
        BY <2>1, <3>1, <4>2 DEF LoginMaster
      <4>4. slaves'[k] = AtKey(slaves[k])
        BY <4>3 DEF Touch
      <4>. QED  BY <4>2, <4>4 DEF AtKey, Entries
    <3>2. CASE ClusterOf(p) # k
      BY <1>a, <1>c, <1>0, <2>1, <3>2 DEF LoginMaster
    <3>. QED  BY <3>1, <3>2
  <2>2. CASE LoginSlave(ClusterOf(p)) /\ UNCHANGED stub
    <3>1. slaves[k].status # "ABSENT" => slaves'[k] = slaves[k]
      BY <1>a, <2>2 DEF LoginSlave
    <3>. QED  BY <1>0, <2>2, <3>1
  <2>3. CASE LoginSync(ClusterOf(p)) /\ UNCHANGED stub
    BY <1>0, <2>3 DEF LoginSync
  <2>. QED  BY <1>1, <2>1, <2>2, <2>3 DEF Login
<1>2. ASSUME NEW p \in Processes, Crash(p) PROVE Goal
  <2>1. slaves' = slaves /\ (stub' = stub \/ stub' = [stub EXCEPT ![ClusterOf(p)] = NoPort])
    BY <1>2 DEF Crash, coordVars
  <2>2. stub'[k] = stub[k]
    BY <1>a, <2>1
  <2>. QED  BY <1>0, <2>1, <2>2
<1>3. ASSUME NEW s \in Sessions, ReadHeartbeat(s) PROVE Goal
  <2>1. stub' = stub
    BY <1>3 DEF ReadHeartbeat
  <2>2. \/ slaves' = slaves
        \/ slaves' = SetStatus(slaves, ClusterOf(s[1]), "ACTIVE")
    BY <1>3 DEF ReadHeartbeat, HeartbeatMaster, HeartbeatSlave, HeartbeatSync
  <2>. QED  BY <1>0, <1>b, <1>c, <2>1, <2>2
<1>4. ASSUME NEW s \in Sessions, EndStream(s) PROVE Goal
  <2>1. stub' = stub
    BY <1>4 DEF EndStream
  <2>2. \/ slaves' = slaves
        \/ \E i \in Clusters : slaves' = SetStatus(slaves, i, "INACTIVE")
    BY <1>4, <1>b DEF EndStream, EndHeardStream, Ended, EndUnheardStream
  <2>. QED  BY <1>0, <1>c, <2>1, <2>2
<1>5. ASSUME NEW c \in Clients, connectTo(c) PROVE Goal
  <2>1. Home(c) \in Clusters
    BY DEF Home, Clusters
  <2>2. stub' = stub /\ (slaves' = slaves \/ slaves' = Touch(slaves, Home(c)))
    BY <1>5 DEF connectTo, LoginClient
  <2>. QED  BY <1>0, <1>c, <2>1, <2>2
<1>6. ASSUME UNCHANGED <<slaves, stub>> PROVE Goal
  BY <1>0, <1>6
<1>. QED
  BY <1>1, <1>2, <1>3, <1>4, <1>5, <1>6
     DEF Next, OpenStream, RunServer, SendHeartbeat, ConnectBegin,
         CheckConnection, ConnectEnd, SwitchToSlave, vars, procVars, coordVars

\* The slave a master forwards to is the slave its clients fail over to.
THEOREM ReplicasAgree == Spec => []ReplicaAgreement
<1>1. Init => StubEntered
  BY DEF Init, StubEntered
<1>2. StubEntered => ReplicaAgreement
  BY DEF StubEntered, ReplicaAgreement
<1>. QED  BY <1>1, <1>2, StubStep, BaseAlways, PTL DEF Spec

-----------------------------------------------------------------------------
(* Synchronizers connect when all are known                                 *)

LEMMA ConnectStep ==
    BaseInv /\ ConnectAfterAllRegistered /\ [Next]_vars
        => ConnectAfterAllRegistered'
<1> SUFFICES ASSUME BaseInv, ConnectAfterAllRegistered, [Next]_vars,
                    NEW k \in Clusters,
                    connected'[k] \/ link'[k].busy \/ "connect" \in inbox'[k]
             PROVE  syncs' = Clusters
  BY DEF ConnectAfterAllRegistered
<1> DEFINE Told == connected[k] \/ link[k].busy \/ "connect" \in inbox[k]
<1> USE NumClustersAssumption, ControlPlaneAssumption
        DEF BaseInv, TypeOK, CoordTypeOK
<1>a. Told => syncs = Clusters
  BY DEF ConnectAfterAllRegistered
<1>b. \A p \in Processes : ClusterOf(p) \in Clusters
  BY DEF Processes, ClusterOf
<1>c. \A s \in Sessions : ClusterOf(s[1]) \in Clusters
  BY DEF Sessions, Processes, ClusterOf
<1>1. ASSUME NEW p \in Processes, Login(p) PROVE syncs' = Clusters
  <2>1. Told
    BY <1>1 DEF Login
  <2>2. syncs' = syncs \/ syncs' = syncs \cup {ClusterOf(p)}
    BY <1>1 DEF Login, LoginMaster, LoginSlave, LoginSync
  <2>3. syncs = Clusters /\ ClusterOf(p) \in Clusters
    BY <1>a, <1>b, <2>1
  <2>. QED  BY ONLY <2>2, <2>3
<1>2. ASSUME NEW p \in Processes, Crash(p) PROVE syncs' = Clusters
  <2>1. Told
    <3>1. CASE KindOf(p) = "sync"
      <4>1. /\ inbox' = [inbox EXCEPT ![ClusterOf(p)] = {}]
            /\ link' = [link EXCEPT ![ClusterOf(p)] = Idle]
            /\ connected' = [connected EXCEPT ![ClusterOf(p)] = FALSE]
        BY <1>2, <3>1 DEF Crash
      <4>. QED  BY <4>1, <1>b DEF Idle
    <3>2. CASE KindOf(p) # "sync"
      BY <1>2, <3>2 DEF Crash
    <3>. QED  BY <3>1, <3>2
  <2>. QED  BY <1>2, <1>a, <2>1 DEF Crash, coordVars
<1>3. ASSUME NEW s \in Sessions, ReadHeartbeat(s) PROVE syncs' = Clusters
  <2>1. syncs' = syncs /\ UNCHANGED <<link, connected>>
    BY <1>3 DEF ReadHeartbeat, HeartbeatMaster, HeartbeatSlave, HeartbeatSync
  <2>2. Told \/ AnnounceConnect(ClusterOf(s[1]))
    <3>1. \/ inbox' = inbox
          \/ inbox' = [inbox EXCEPT ![ClusterOf(s[1])] =
                           @ \cup HeartbeatSyncReplies(ClusterOf(s[1]))]
      BY <1>3 DEF ReadHeartbeat
    <3>. QED  BY <1>c, <2>1, <3>1 DEF HeartbeatSyncReplies
  <2>. QED  BY <1>a, <2>1, <2>2 DEF AnnounceConnect
<1>4. ASSUME NEW s \in Sessions, EndStream(s) PROVE syncs' = Clusters
  <2>1. syncs' = syncs /\ UNCHANGED <<link, connected, inbox>>
    BY <1>4 DEF EndStream, EndHeardStream, Ended, EndUnheardStream
  <2>. QED  BY <1>a, <2>1
<1>5. ASSUME NEW i \in Clusters, ConnectBegin(i) PROVE syncs' = Clusters
  <2>1. Told
    BY <1>5 DEF ConnectBegin
  <2>. QED  BY <1>5, <1>a, <2>1 DEF ConnectBegin, coordVars
<1>6. ASSUME NEW i \in Clusters, NEW j \in Clusters, CheckConnection(i, j)
      PROVE syncs' = Clusters
  <2>1. Told
    BY <1>6 DEF CheckConnection
  <2>. QED  BY <1>6, <1>a, <2>1 DEF CheckConnection, coordVars
<1>7. ASSUME NEW i \in Clusters, ConnectEnd(i) PROVE syncs' = Clusters
  <2>1. Told
    BY <1>7 DEF ConnectEnd, Idle
  <2>. QED  BY <1>7, <1>a, <2>1 DEF ConnectEnd, coordVars
<1>8. ASSUME NEW i \in Clusters, SwitchToSlave(i) PROVE syncs' = Clusters
  <2>1. Told
    BY <1>8 DEF SwitchToSlave
  <2>. QED  BY <1>8, <1>a, <2>1 DEF SwitchToSlave, coordVars
<1>9. ASSUME NEW c \in Clients, connectTo(c) PROVE syncs' = Clusters
  BY <1>9, <1>a DEF connectTo, LoginClient
<1>10. ASSUME UNCHANGED <<syncs, connected, link, inbox>>
       PROVE  syncs' = Clusters
  BY <1>10, <1>a
<1>. QED
  BY <1>1, <1>2, <1>3, <1>4, <1>5, <1>6, <1>7, <1>8, <1>9, <1>10
     DEF Next, OpenStream, RunServer, SendHeartbeat, vars, procVars, coordVars

\* Nobody connects to peers before every cluster has a synchronizer.
THEOREM ConnectsInTime == Spec => []ConnectAfterAllRegistered
<1>1. Init => ConnectAfterAllRegistered
  BY DEF Init, ConnectAfterAllRegistered, Idle
<1>. QED  BY <1>1, ConnectStep, BaseAlways, PTL DEF Spec
=============================================================================
