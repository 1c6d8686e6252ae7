----------------------------- MODULE MCMailStore -----------------------------
(* Instances of MailStore for TLC.                                          *)
EXTENDS MailStore
CONSTANTS t1, t2, t3

ThreeThreads == {t1, t2, t3}
OneOrTwo == {1, 2}
=============================================================================
