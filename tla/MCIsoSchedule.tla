---- MODULE MCIsoSchedule ----
(* The schedule for TLC, with the constants of the source scaled down to 3   *)
(* transfers of 2 frames and a lead of 8, and holds, failures and refusals   *)
(* in any order; with its own constants, 6 transfers of 8 frames and a lead  *)
(* of 64, where nothing fails.                                               *)
EXTENDS IsoSchedule
====
