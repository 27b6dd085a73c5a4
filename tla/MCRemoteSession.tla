-------------------------- MODULE MCRemoteSession --------------------------
(* A worker that hosts two nodes, each of at most two stateful commands. *)
EXTENDS RemoteSession

CONSTANTS a, b
MCNodes == {a, b}
=============================================================================
