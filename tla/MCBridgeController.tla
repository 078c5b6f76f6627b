---- MODULE MCBridgeController ----
(* BridgeController for TLC: three threads, one more than the two that can  *)
(* be in bridge_run at once need.                                           *)
EXTENDS BridgeController

CONSTANTS t1, t2, t3

MCThreads == {t1, t2, t3}
====
