---- MODULE MCRingBacklog ----
(* RingBacklog with the ring's own sizes, I/O cycles of 512 frames and     *)
(* stalls of 85 ms, of 427 ms and of more than the whole ring.             *)
EXTENDS RingBacklog

MCStallFrames == {4096, 20480, 40960}
====
