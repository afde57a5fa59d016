---------------------------- MODULE MCServerPair ----------------------------
(* An instance of ServerPair for TLC: a local user and a remote one.        *)
EXTENDS ServerPair

CONSTANTS ann, rex

MCLocal  == {ann}
MCRemote == {rex}
=============================================================================
