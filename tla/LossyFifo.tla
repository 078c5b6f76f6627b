---- MODULE LossyFifo ----
(***************************************************************************)
(* What one direction of the shared ring promises its listener: frames are *)
(* numbered in the order they were produced; while it listens, the         *)
(* listener hears runs of them in that order and none of them again; some  *)
(* are dropped, and none is heard before it has been published.            *)
(***************************************************************************)
EXTENDS Naturals

VARIABLES published,  \* number of frames the producer has made available
          consumed,   \* every frame below this one was heard or dropped
          listening,  \* there is a listener
          hearing     \* the frames of the run it is hearing

vars == <<published, consumed, listening, hearing>>

Init == published = 0 /\ consumed = 0 /\ listening = FALSE /\ hearing = {}

Publish ==
  /\ published' \in Nat
  /\ published' > published
  /\ UNCHANGED <<consumed, listening, hearing>>

Hear ==
  /\ listening
  /\ \E p \in consumed..(published - 1) : hearing' = hearing \cup {p}
  /\ UNCHANGED <<published, consumed, listening>>

\* The run ends; everything heard, and perhaps more, is used up.
EndRun ==
  /\ listening
  /\ consumed' \in consumed..published
  /\ \A p \in hearing : p < consumed'
  /\ hearing' = {}
  /\ UNCHANGED <<published, listening>>

\* A listener arrives, and may find frames dropped.
Arrive ==
  /\ ~listening
  /\ listening' = TRUE
  /\ consumed' \in consumed..published
  /\ UNCHANGED <<published, hearing>>

Leave ==
  /\ listening
  /\ listening' = FALSE
  /\ hearing' = {}
  /\ UNCHANGED <<published, consumed>>

Next == Publish \/ Hear \/ EndRun \/ Arrive \/ Leave

Spec == Init /\ [][Next]_vars
====
