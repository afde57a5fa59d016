----------------------------- MODULE MCSyncNet -----------------------------
(* Instances of SyncNet for TLC: two clusters, ann at home in the first,    *)
(* rex, who follows her, in the second.                                     *)
EXTENDS SyncNet

CONSTANTS ann, rex

MCUsers  == {ann, rex}
MCHomeOf == [u \in MCUsers |-> IF u = ann THEN 1 ELSE 2]
MCRexAnn == {<<rex, ann>>}
MCAnn    == {ann}
MCNobody == {}
MCFirst  == {1}
MCOnce   == [s \in Clusters |-> 1]
MCTwice  == [s \in Clusters |-> IF s = 1 THEN 2 ELSE 1]
=============================================================================
