-------------------------- MODULE MCUnifiedEngine --------------------------
(* Instances of UnifiedEngine for TLC.                                      *)
EXTENDS UnifiedEngine
CONSTANTS t1, t2, cpp

OneThread == {t1}
TwoThreads == {t1, t2}
NoOthers == {}
OnlyCpp == {cpp}
Calls(main_, others) == [t \in AllThreads |-> IF t = Main THEN main_ ELSE others]
FiveAndTwo == Calls(5, 2)
FourAndOne == Calls(4, 1)
=============================================================================
