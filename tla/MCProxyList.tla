----------------------------- MODULE MCProxyList -----------------------------
(* Instances of ProxyList for TLC.                                          *)
EXTENDS ProxyList
CONSTANTS p1, p2, p3

ThreeProxies == {p1, p2, p3}
=============================================================================
