---- MODULE RingBacklog ----
(***************************************************************************)
(* The queued-but-unplayed backlog of the playback ring while I/O runs:    *)
(* the HAL writes one I/O cycle at a time, the bridge fills one USB        *)
(* transfer at a time, both at 48 kHz but not in step.  A stall is a time  *)
(* in which the bridge does not read (a restart, a USB reconnect) while    *)
(* the HAL goes on writing.  Only the distance of the two counters counts, *)
(* so the reader's is taken as 0.                                          *)
(***************************************************************************)
EXTENDS RingWindow

CONSTANTS CycleFrames,  \* frames of one coreaudiod I/O cycle
          XferFrames,   \* OUT_XFER_FRAMES
          Jitter,       \* frames either side may run ahead of the other
          StallFrames,  \* frames the HAL may write during one stall
          MaxStalls     \* bound on the number of stalls

ASSUME BacklogAssumption ==
  /\ CycleFrames \in Nat \ {0}
  /\ XferFrames \in 1..Capacity
  /\ Jitter \in Nat
  /\ StallFrames \subseteq Nat
  /\ MaxStalls \in Nat

VARIABLES backlog,  \* out_write_frames - out_read_frames
          lead,     \* frames written minus frames asked for, stalls aside
          stalls,   \* stalls that may still happen
          last      \* history: the step just taken

backlogVars == <<backlog, lead, stalls, last>>

Steps == {"start", "write", "read", "drop", "stall"}

BacklogTypeOK ==
  /\ backlog \in Nat
  /\ lead \in -Jitter..Jitter
  /\ stalls \in 0..MaxStalls
  /\ last \in Steps

BacklogInit == backlog = 0 /\ lead = 0 /\ stalls = MaxStalls /\ last = "start"

\* ring_out_write of one I/O cycle.
Write ==
  /\ lead + CycleFrames <= Jitter
  /\ lead' = lead + CycleFrames
  /\ backlog' = backlog + CycleFrames
  /\ last' = "write"
  /\ UNCHANGED stalls

\* The read stops trimming as soon as the excess is less than a whole trim.
ReadCoarse ==
  /\ lead - XferFrames >= -Jitter
  /\ lead' = lead - XferFrames
  /\ LET excess == backlog - XferFrames - TargetBacklog
         trim == IF excess >= 2 * TrimFrames THEN TrimFrames ELSE 0
     IN  /\ backlog' = IF backlog > XferFrames + trim
                       THEN backlog - XferFrames - trim ELSE 0
         /\ last' = IF trim > 0 THEN "drop" ELSE "read"
  /\ UNCHANGED stalls

\* ring_out_read of one transfer; "drop" if it skipped frames.
Read ==
  /\ lead - XferFrames >= -Jitter
  /\ lead' = lead - XferFrames
  /\ backlog' = backlog - WindowEnd(backlog, 0, XferFrames)
  /\ last' = IF WindowStart(backlog, 0, XferFrames) > 0 THEN "drop" ELSE "read"
  /\ UNCHANGED stalls

Stall ==
  /\ stalls > 0
  /\ stalls' = stalls - 1
  /\ \E n \in StallFrames : backlog' = backlog + n
  /\ last' = "stall"
  /\ UNCHANGED lead

BacklogNext == Write \/ Read \/ Stall

\* While I/O runs both clocks tick: cycles and transfers go on for ever.
BacklogSpec == BacklogInit /\ [][BacklogNext]_backlogVars /\ WF_backlogVars(Write) /\ WF_backlogVars(Read)

----------------------------------------------------------------------------
(* Properties.                                                             *)

\* Normal operation never reaches the ceiling: without a stall no read drops a
\* frame (ring.h, RING_TARGET_BACKLOG).
NormalOperationLossless == last = "drop" => stalls < MaxStalls

\* However far the writer ran ahead, the trims walk the backlog down until
\* what a transfer leaves queued is within RING_TARGET_BACKLOG, for good.
LatencySettles ==
  <>[](last \in {"read", "drop"} => backlog <= TargetBacklog)
====
