---- MODULE MCRingChannel ----
(* RingChannel on a ring of a few slots: a run of one frame more than the  *)
(* stream bound laps the ring at least twice.                              *)
EXTENDS RingChannel

MCWriteSizes == {1, 2}
MCReadSizes  == {1, 2}
====
