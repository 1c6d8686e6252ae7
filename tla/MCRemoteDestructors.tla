------------------------ MODULE MCRemoteDestructors ------------------------
(* Instances of RemoteDestructors for TLC.                                  *)
EXTENDS RemoteDestructors
CONSTANTS top, s1, c1

OneClientObj == {c1}
TopOnly == {top}
TopAndOne == {top, s1}
=============================================================================
