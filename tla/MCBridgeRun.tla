---- MODULE MCBridgeRun ----
(* BridgeRun for TLC: two port resets are enough to tell one from many.     *)
EXTENDS BridgeRun

MCMaxResets == 2
====
