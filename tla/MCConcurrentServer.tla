-------------------------- MODULE MCConcurrentServer --------------------------
(* Instances of ConcurrentServer for TLC.                                   *)
EXTENDS ConcurrentServer
CONSTANTS c1, c2

TwoClients == {c1, c2}
=============================================================================
