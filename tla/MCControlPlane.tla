--------------------------- MODULE MCControlPlane ---------------------------
(* Small instances of ControlPlane for TLC.                                 *)
EXTENDS ControlPlane

MCClients == {0}    \* Home(0) = 1
MCNoClients == {}

\* One cluster, master and slave started up to two times.
MCPairLimit ==
    [p \in Processes |-> IF KindOf(p) = "sync" THEN 0 ELSE 2]

\* start.sh: every process once.
MCOnce == [p \in Processes |-> IF p = <<"sync", 1>> THEN 0 ELSE 1]

\* Two clusters, with their synchronizers and one master.
MCSyncLimit ==
    [p \in Processes |-> IF p \in {<<"sync", 1>>, <<"sync", 2>>, <<"master", 1>>}
                         THEN 1 ELSE 0]
=============================================================================
