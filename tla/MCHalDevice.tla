---- MODULE MCHalDevice ----
(* HalDevice for TLC: two clients, two listeners of the volume, a pause of    *)
(* more than two periods.                                                     *)
EXTENDS HalDevice

MCListeners == {"scalar", "decibel"}
====
