------------------------------ MODULE MCCcLoader ------------------------------
(* Instances of CcLoader for TLC.                                           *)
EXTENDS CcLoader
CONSTANTS t1, t2, u1, p, q

TwoAndOne == {t1, t2, u1}
TwoProcesses == {p, q}
Of == [t \in TwoAndOne |-> IF t = u1 THEN q ELSE p]
=============================================================================
