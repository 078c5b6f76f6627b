---- MODULE RingWindow ----
(***************************************************************************)
(* The arithmetic of shared/ring.h: which slot a frame lives in, and which *)
(* frames one read takes.  w and rd are the two counters as the read       *)
(* loaded them, frames is what it was asked for.                           *)
(***************************************************************************)
EXTENDS Integers

CONSTANTS Capacity,       \* RING_FRAMES
          TargetBacklog,  \* RING_TARGET_BACKLOG
          TrimFrames      \* RING_TRIM_FRAMES

ASSUME WindowAssumption ==
  /\ Capacity \in Nat \ {0}
  /\ TargetBacklog \in Nat
  /\ TrimFrames \in Nat

Slots     == 0..(Capacity - 1)
Slot(pos) == pos % Capacity

\* Everything beyond this read is excess: no backlog is tolerated.
TrimToEmpty(avail, frames) ==
  IF avail <= frames THEN 0
  ELSE IF avail - frames > TrimFrames THEN TrimFrames ELSE avail - frames

\* ring_trim: frames to drop from the front of a backlog that outlasts this
\* read by more than the target.
Trim(avail, frames) ==
  IF avail <= frames + TargetBacklog THEN 0
  ELSE LET excess == avail - frames - TargetBacklog
       IN  IF excess > TrimFrames THEN TrimFrames ELSE excess

Avail(w, rd) == IF w > rd THEN w - rd ELSE 0

Lapped(w, rd) == Avail(w, rd) > Capacity

\* Where the copy starts: past what the writer has overwritten, or past what
\* ring_trim drops.
WindowStart(w, rd, frames) ==
  IF Lapped(w, rd) THEN w - frames ELSE rd + Trim(Avail(w, rd), frames)

\* The copy takes the frames asked for whatever is available.
WindowEndUnbounded(w, rd, frames) == WindowStart(w, rd, frames) + frames

\* Where the copy ends; what is missing of the frames asked for is silence.
WindowEnd(w, rd, frames) ==
  LET left == IF Lapped(w, rd) THEN frames
              ELSE Avail(w, rd) - Trim(Avail(w, rd), frames)
  IN  WindowStart(w, rd, frames) + (IF left > frames THEN frames ELSE left)
====
