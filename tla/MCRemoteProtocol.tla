-------------------------- MODULE MCRemoteProtocol --------------------------
(* Instances of RemoteProtocol for TLC.                                     *)
EXTENDS RemoteProtocol
CONSTANTS top, s1, c1

OneClientObj == {c1}
TopOnly == {top}
TopAndOne == {top, s1}
=============================================================================
