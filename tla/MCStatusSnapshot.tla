---- MODULE MCStatusSnapshot ----
(* StatusSnapshot for TLC: two positions other than the two values that      *)
(* ring_reset_status seeds.                                                *)
EXTENDS StatusSnapshot

MCPositions   == {40, 96}
MCSubcommands == {"chat", "volume"}
====
