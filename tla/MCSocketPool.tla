---------------------------- MODULE MCSocketPool ----------------------------
(* Instances of SocketPool for TLC. *)
EXTENDS SocketPool, TLC

MCBacklogs == {-1, 0, 2}
=============================================================================
