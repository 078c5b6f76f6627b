---- MODULE MCPlayback ----
(* Playback on a ring of a few slots, with the one transfer size of the    *)
(* bridge and two sizes of the plug-in's I/O cycle.                        *)
EXTENDS Playback

MCWriteSizes == {1, 3}
MCXferSizes  == {2}
====
