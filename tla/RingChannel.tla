---- MODULE RingChannel ----
(***************************************************************************)
(* One direction of the shared-memory audio ring (shared/ring.h).          *)
(*                                                                         *)
(* The writer stores frames into slots and then publishes its counter; the *)
(* reader loads the writer's counter, its own, chooses a window of frames, *)
(* copies the slots and stores its counter.  Neither ever waits for the    *)
(* other.  One end belongs to the HAL plug-in inside coreaudiod and the    *)
(* other to the bridge; StartIO (plug-in) also overwrites the reader's     *)
(* counter.  HalReads tells the two directions apart: FALSE is playback    *)
(* (the plug-in writes, the bridge reads), TRUE is capture.                *)
(*                                                                         *)
(* Frames are identified by their absolute position in the stream.  The    *)
(* slots are plain memory, so the stores of one write, and the loads of    *)
(* one read, take effect one frame at a time and in any order; only the    *)
(* counters are atomic.                                                    *)
(***************************************************************************)
EXTENDS RingWindow

CONSTANTS WriteSizes,     \* frames one write may carry
          ReadSizes,      \* frames one read may ask for
          HalReads,       \* TRUE: capture, FALSE: playback
          MaxFrames       \* bound on the stream's length

ASSUME ChannelAssumption ==
  /\ WriteSizes \subseteq 1..Capacity
  /\ ReadSizes \subseteq 1..Capacity
  /\ HalReads \in BOOLEAN
  /\ MaxFrames \in Nat

VARIABLES
  halIO,        \* the plug-in's I/O is running (its end of the ring is in use)
  resetTo,      \* the value StartIO has loaded and not stored yet, or None
  writeFrames,  \* out_write_frames / in_write_frames
  readFrames,   \* out_read_frames / in_read_frames
  slot,         \* the frame each slot of out_data / in_data holds
  wEnd,         \* w + frames of the write in progress (writeFrames if none)
  wPending,     \* its frames that are not in their slot yet
  rPc,          \* what the read in progress does next
  rAsk,         \* the frames it was asked for
  rW,           \* the writer's counter as it loaded it
  rFrom, rTo,   \* it copies the frames rFrom .. rTo - 1
  rPending,     \* those it has not copied yet
  got,          \* what it copied: <<position asked for, frame found>>
  frontier,     \* history: one past the last frame ever stored in a slot
  floor         \* history: the writer's counter at the last StartIO

writerVars == <<writeFrames, slot, wEnd, wPending, frontier>>
readVars   == <<rPc, rAsk, rW, rFrom, rTo, rPending, got>>
ioVars     == <<halIO, resetTo, floor>>
vars       == <<writerVars, readFrames, readVars, ioVars>>

None  == -1   \* no value loaded
Noise == -1   \* a slot that holds no whole published or pending frame

TypeOK ==
  /\ halIO \in BOOLEAN
  /\ resetTo \in Nat \cup {None}
  /\ writeFrames \in Nat
  /\ readFrames \in Nat
  /\ slot \in [Slots -> Nat \cup {Noise}]
  /\ wEnd \in Nat
  /\ wPending \subseteq Nat
  /\ rPc \in {"idle", "window", "copy"}
  /\ rAsk \in ReadSizes \cup {0}
  /\ rW \in Nat
  /\ rFrom \in Nat
  /\ rTo \in Nat
  /\ rPending \subseteq Nat
  /\ got \subseteq (Nat \X (Nat \cup {Noise}))
  /\ frontier \in Nat
  /\ floor \in Nat

----------------------------------------------------------------------------
(* The writer: ring_out_write, ring_in_write.                              *)

WriterIdle == wEnd = writeFrames
ReaderIdle == rPc = "idle"

WriterMayRun == HalReads \/ halIO
ReaderMayRun == HalReads => halIO

WriteBegin ==
  /\ WriterIdle
  /\ WriterMayRun
  /\ \E n \in WriteSizes :
       /\ writeFrames + n <= MaxFrames
       /\ wEnd' = writeFrames + n
       /\ wPending' = writeFrames..(writeFrames + n - 1)
       /\ frontier' = IF writeFrames + n > frontier
                      THEN writeFrames + n ELSE frontier
  /\ UNCHANGED <<writeFrames, slot, readFrames, readVars, ioVars>>

WriteFrame ==
  \E f \in wPending :
    /\ slot' = [slot EXCEPT ![Slot(f)] = f]
    /\ wPending' = wPending \ {f}
    /\ UNCHANGED <<writeFrames, wEnd, frontier, readFrames, readVars, ioVars>>

\* The counter is stored before the frames are.
WritePublishEarly ==
  /\ ~WriterIdle
  /\ writeFrames' = wEnd
  /\ UNCHANGED <<slot, wEnd, wPending, frontier, readFrames, readVars, ioVars>>

WritePublish ==
  /\ ~WriterIdle
  /\ wPending = {}
  /\ writeFrames' = wEnd
  /\ UNCHANGED <<slot, wEnd, wPending, frontier, readFrames, readVars, ioVars>>

----------------------------------------------------------------------------
(* The reader: ring_out_read, ring_in_read.                                *)

ReadBegin ==
  /\ ReaderIdle
  /\ ReaderMayRun
  /\ rPc' = "window"
  /\ rAsk' \in ReadSizes
  /\ rW' = writeFrames
  /\ UNCHANGED <<rFrom, rTo, rPending, got, writerVars, readFrames, ioVars>>

ReadWindow ==
  /\ rPc = "window"
  /\ rPc' = "copy"
  /\ rFrom' = WindowStart(rW, readFrames, rAsk)
  /\ rTo' = WindowEnd(rW, readFrames, rAsk)
  /\ rPending' = rFrom'..(rTo' - 1)
  /\ UNCHANGED <<rAsk, rW, got, writerVars, readFrames, ioVars>>

\* What loading a slot may return: a store to it that is under way can be seen
\* in part.
Seen(s) == {slot[s]} \cup {x \in {Noise} : \E f \in wPending : Slot(f) = s}

ReadFrame ==
  /\ rPc = "copy"
  /\ \E p \in rPending :
       /\ \E x \in Seen(Slot(p)) : got' = got \cup {<<p, x>>}
       /\ rPending' = rPending \ {p}
  /\ UNCHANGED <<rPc, rAsk, rW, rFrom, rTo, writerVars, readFrames, ioVars>>

ReadDone ==
  /\ rPc' = "idle"
  /\ rAsk' = 0
  /\ rW' = 0
  /\ rFrom' = 0
  /\ rTo' = 0
  /\ rPending' = {}
  /\ got' = {}

\* The reader does not count the frames it copied.
ReadPublishUncounted ==
  /\ rPc = "copy"
  /\ rPending = {}
  /\ readFrames' = rFrom
  /\ ReadDone
  /\ UNCHANGED <<writerVars, ioVars>>

ReadPublish ==
  /\ rPc = "copy"
  /\ rPending = {}
  /\ readFrames' = rTo
  /\ ReadDone
  /\ UNCHANGED <<writerVars, ioVars>>

----------------------------------------------------------------------------
(* StartIO / StopIO of the plug-in, and the death of either process.       *)

HalEndIdle == IF HalReads THEN ReaderIdle ELSE WriterIdle

StartIOLoad ==
  /\ ~halIO
  /\ resetTo = None
  /\ resetTo' = writeFrames
  /\ UNCHANGED <<halIO, floor, writerVars, readFrames, readVars>>

\* I/O starts without moving the reader's counter.
StartIOKeeping ==
  /\ resetTo # None
  /\ floor' = resetTo
  /\ resetTo' = None
  /\ halIO' = TRUE
  /\ UNCHANGED <<readFrames, writerVars, readVars>>

StartIOStore ==
  /\ resetTo # None
  /\ readFrames' = resetTo
  /\ floor' = resetTo
  /\ resetTo' = None
  /\ halIO' = TRUE
  /\ UNCHANGED <<writerVars, readVars>>

StopIO ==
  /\ halIO
  /\ HalEndIdle
  /\ halIO' = FALSE
  /\ UNCHANGED <<resetTo, floor, writerVars, readFrames, readVars>>

\* A write its process did not live to publish: what it stored beyond the
\* counter belongs to no frame any more.
AbandonWrite ==
  /\ wEnd' = writeFrames
  /\ wPending' = {}
  /\ slot' = [s \in Slots |->
                IF slot[s] >= writeFrames THEN Noise ELSE slot[s]]
  /\ UNCHANGED <<writeFrames, frontier>>

\* The bridge dies and is started again: ring_map keeps a valid ring's
\* counters and data, only the operation in progress is lost.
BridgeRestart ==
  /\ IF HalReads
     THEN ~WriterIdle /\ AbandonWrite /\ UNCHANGED readVars
     ELSE ~ReaderIdle /\ ReadDone /\ UNCHANGED writerVars
  /\ UNCHANGED <<readFrames, ioVars>>

\* coreaudiod dies, with its I/O cycle or inside StartIO.
CoreaudiodRestart ==
  /\ halIO \/ resetTo # None
  /\ halIO' = FALSE
  /\ resetTo' = None
  /\ IF HalReads
     THEN ReadDone /\ UNCHANGED writerVars
     ELSE AbandonWrite /\ UNCHANGED readVars
  /\ UNCHANGED <<floor, readFrames>>

----------------------------------------------------------------------------

Init ==
  /\ halIO = FALSE
  /\ resetTo = None
  /\ writeFrames = 0
  /\ readFrames = 0
  /\ slot = [s \in Slots |-> Noise]
  /\ wEnd = 0
  /\ wPending = {}
  /\ rPc = "idle"
  /\ rAsk = 0
  /\ rW = 0
  /\ rFrom = 0
  /\ rTo = 0
  /\ rPending = {}
  /\ got = {}
  /\ frontier = 0
  /\ floor = 0

Writer == WriteBegin \/ WriteFrame \/ WritePublish
Reader == ReadBegin \/ ReadWindow \/ ReadFrame \/ ReadPublish
PlugIn == StartIOLoad \/ StartIOStore \/ StopIO
Crash  == BridgeRestart \/ CoreaudiodRestart

Next == Writer \/ Reader \/ PlugIn \/ Crash

Spec == Init /\ [][Next]_vars

----------------------------------------------------------------------------
(* Properties.                                                             *)

\* The reader's counter never overtakes the writer's, whatever StartIO, the
\* two ends and a restart of either do to the counters of a persistent ring.
\* Overtaking it would silence the listener until the writer caught up.
ReadNotAhead == readFrames <= writeFrames

\* ring_*_read hands out, for every position of its window, the frame that was
\* published there; the one exception is a writer that has meanwhile gone a
\* whole ring further, and even then the listener gets a newer frame or a
\* torn one, never an older frame.
IntactUnlessLapped ==
  \A g \in got :
    \/ g[2] = g[1]
    \/ /\ g[1] + Capacity < frontier
       /\ g[2] = Noise \/ g[2] > g[1]

\* Capture: an I/O session hears only frames captured after its StartIO, not
\* what the microphone picked up for an earlier client (XboxHeadset.c StartIO
\* discards the capture backlog).
FreshCapture ==
  (HalReads /\ rPc = "copy" /\ rTo > rFrom) => rFrom >= floor

\* Capture keeps the promise of LossyFifo to the plug-in's I/O sessions: in
\* order, no frame twice, none before it is published, whatever is trimmed or
\* lapped, and across restarts of either process.
Heard == {g[1] : g \in got}
Fifo  == INSTANCE LossyFifo WITH published <- writeFrames,
                                 consumed  <- readFrames,
                                 listening <- halIO,
                                 hearing   <- Heard
CaptureIsLossyFifo == Fifo!Spec

----------------------------------------------------------------------------
(* Why they hold: an inductive invariant, by parts.                        *)

CountersInv == readFrames <= writeFrames /\ resetTo <= writeFrames

WriteInv ==
  /\ writeFrames <= wEnd
  /\ wEnd <= writeFrames + Capacity
  /\ wEnd <= frontier
  /\ \A f \in wPending : writeFrames <= f /\ f < wEnd

\* What the slots hold of the published frames, and of the write in progress.
SlotInv ==
  /\ \A p \in 0..(writeFrames - 1) :
       /\ frontier <= p + Capacity => slot[Slot(p)] = p
       /\ slot[Slot(p)] = Noise \/ slot[Slot(p)] >= p
  /\ \A p \in writeFrames..(wEnd - 1) : p \notin wPending => slot[Slot(p)] = p

ReadInv ==
  /\ rPc = "window" => rW <= writeFrames /\ rAsk \in ReadSizes
  /\ rPc = "copy" => rFrom <= rTo /\ rTo <= writeFrames
  /\ \A p \in rPending : rPc = "copy" /\ rFrom <= p /\ p < rTo

\* Capture only: the plug-in's I/O cycle and its StartIO exclude each other, so
\* nothing moves the reader's counter under a read.
CaptureInv ==
  HalReads =>
    /\ halIO => resetTo = None
    /\ ~ReaderIdle => halIO
    /\ resetTo # None => readFrames <= resetTo
    /\ floor <= readFrames
    /\ rPc = "copy" => readFrames <= rFrom

\* What was copied belongs to the read's window.
GotInv == \A g \in got : rPc = "copy" /\ rFrom <= g[1] /\ g[1] < rTo

IInv ==
  /\ TypeOK /\ CountersInv /\ WriteInv /\ SlotInv /\ ReadInv
  /\ GotInv /\ IntactUnlessLapped /\ CaptureInv
====
