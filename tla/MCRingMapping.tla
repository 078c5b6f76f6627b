---- MODULE MCRingMapping ----
(* RingMapping for TLC: with and without a ring to begin with, two clients,  *)
(* and crashes enough for one of each process while the other recovers.      *)
EXTENDS RingMapping

MCRingExists == {FALSE, TRUE}
MCNoRing     == {FALSE}
MCMaxClients == 2
MCMaxCrashes == 3
====
