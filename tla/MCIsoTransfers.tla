---- MODULE MCIsoTransfers ----
(* Two transfers in each direction: one can be pending while the other is  *)
(* being resubmitted.                                                      *)
EXTENDS IsoTransfers

MCGoneResults == {"nodevice", "error"}
====
