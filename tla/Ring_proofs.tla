---- MODULE Ring_proofs ----
(***************************************************************************)
(* Proofs about the ring, for any capacity and any sizes of the reads and  *)
(* writes: a channel in either direction (RingChannel) and its refinement  *)
(* of LossyFifo, fill_out_xfer on top of it (Playback), and the latency    *)
(* that the target backlog bounds (RingBacklog).                           *)
(***************************************************************************)
EXTENDS Playback, RingBacklog, TLAPS

----------------------------------------------------------------------------
(* Slots: two frames less than a ring apart never share one.               *)

\* A quotient and a remainder rebuild the number.
LEMMA DivMod ==
  ASSUME NEW c \in Nat \ {0}, NEW a \in Nat
  PROVE  /\ a \div c \in Int
         /\ a = c * (a \div c) + (a % c)
  BY SMTT(20)

\* No multiple of c lies strictly between 0 and c.
LEMMA Multiples ==
  ASSUME NEW c \in Nat \ {0}, NEW k \in Int
  PROVE  (k <= 0 => c * k <= 0) /\ (k >= 1 => c * k >= c)
  BY SMTT(20)

\* Slot (the & (RING_FRAMES - 1) of ring.h) stays inside the ring.
LEMMA SlotRange ==
  ASSUME NEW p \in Nat
  PROVE  Slot(p) \in Slots
  BY ChannelAssumption, WindowAssumption, SMTT(20) DEF Slot, Slots

\* Distinct frames less than a ring apart are kept in distinct slots.
LEMMA SlotsDistinct ==
  ASSUME NEW a \in Nat, NEW b \in Nat, a < b, b < a + Capacity
  PROVE  Slot(a) # Slot(b)
<1> DEFINE q == (b \div Capacity) - (a \div Capacity)
<1>1. /\ a = Capacity * (a \div Capacity) + (a % Capacity)
      /\ b = Capacity * (b \div Capacity) + (b % Capacity)
      /\ q \in Int
  BY DivMod, ChannelAssumption, WindowAssumption
<1>2. SUFFICES ASSUME a % Capacity = b % Capacity PROVE FALSE
  BY DEF Slot
<1>3. b - a = Capacity * q
  BY <1>1, <1>2, ChannelAssumption, WindowAssumption, DivMod, SMTT(20)
<1>4. q \in Int
  BY <1>1
<1> HIDE DEF q
<1>5. (q <= 0 => Capacity * q <= 0) /\ (q >= 1 => Capacity * q >= Capacity)
  BY <1>4, Multiples, ChannelAssumption, WindowAssumption
<1>6. QED
  BY <1>3, <1>4, <1>5, ChannelAssumption, WindowAssumption

\* The members of an interval lie within its bounds.
LEMMA Interval ==
  ASSUME NEW a \in Nat, NEW b \in Nat, NEW S, S = a..(b - 1)
  PROVE  \A p \in S : a <= p /\ p < b
  OBVIOUS

----------------------------------------------------------------------------
(* The window of a read.                                                   *)

\* ring_trim drops only frames that are there, and leaves the read its fill
\* plus the target backlog whenever it drops any.
LEMMA TrimBounds ==
  ASSUME NEW avail \in Nat, NEW n \in Nat
  PROVE  /\ Trim(avail, n) \in Nat
         /\ Trim(avail, n) <= avail
         /\ Trim(avail, n) > 0 => avail - Trim(avail, n) >= n + TargetBacklog
  BY ChannelAssumption, WindowAssumption DEF Trim

\* A read never starts below its counter nor ends beyond what is published.
LEMMA WindowBounds ==
  ASSUME NEW w \in Nat, NEW rd \in Nat, NEW n \in ReadSizes
  PROVE  /\ WindowStart(w, rd, n) \in Nat
         /\ WindowEnd(w, rd, n) \in Nat
         /\ rd <= WindowStart(w, rd, n)
         /\ WindowStart(w, rd, n) <= WindowEnd(w, rd, n)
         /\ WindowEnd(w, rd, n) <= w \/ WindowEnd(w, rd, n) <= rd
<1>1. n \in Nat /\ 0 < n /\ n <= Capacity /\ Capacity \in Nat
  BY ChannelAssumption, WindowAssumption
<1>2. Avail(w, rd) \in Nat
  BY DEF Avail
<1>3. /\ Trim(Avail(w, rd), n) \in Nat
      /\ Trim(Avail(w, rd), n) <= Avail(w, rd)
  BY <1>1, <1>2, TrimBounds
<1>4. QED
  BY <1>1, <1>2, <1>3 DEF WindowStart, WindowEnd, Lapped, Avail

----------------------------------------------------------------------------
(* Type correctness.                                                       *)

\* The type invariant needs the window's bounds, so it is proved with ReadInv.
LEMMA InitTypes == Init => TypeOK
<1> SUFFICES ASSUME Init PROVE TypeOK
  OBVIOUS
<1>1. slot \in [Slots -> Nat \cup {Noise}]
  BY DEF Init
<1>2. /\ rPc \in {"idle", "window", "copy"}
      /\ got \subseteq Nat \X (Nat \cup {Noise})
  BY DEF Init
<1>3. QED
  BY <1>1, <1>2 DEF Init, TypeOK, None

\* A write that is lost with its process leaves the counters where they were.
LEMMA Abandoned ==
  ASSUME AbandonWrite, TypeOK
  PROVE  /\ wEnd' = writeFrames
         /\ wPending' = {}
         /\ writeFrames' = writeFrames
         /\ frontier' = frontier
         /\ slot' \in [Slots -> Nat \cup {Noise}]
<1>1. \A s \in Slots : slot[s] \in Nat \cup {Noise}
  BY DEF TypeOK
<1>2. slot' \in [Slots -> Nat \cup {Noise}]
  BY <1>1 DEF AbandonWrite
<1>3. QED
  BY <1>2 DEF AbandonWrite

\* The locals of a read that is over have their types.
LEMMA DoneTypes ==
  ASSUME ReadDone
  PROVE  /\ rPc' \in {"idle", "window", "copy"}
         /\ rAsk' \in ReadSizes \cup {0}
         /\ rW' \in Nat /\ rFrom' \in Nat /\ rTo' \in Nat
         /\ rPending' \subseteq Nat
         /\ got' \subseteq Nat \X (Nat \cup {Noise})
  BY DEF ReadDone

\* Every action keeps the types.
LEMMA NextTypes == TypeOK /\ ReadInv /\ [Next]_vars => TypeOK'
<1> SUFFICES ASSUME TypeOK, ReadInv, [Next]_vars PROVE TypeOK'
  OBVIOUS
<1> USE ChannelAssumption, WindowAssumption DEF TypeOK, None, Noise
<1>1. CASE WriteBegin
  BY <1>1 DEF WriteBegin, readVars, ioVars
<1>2. CASE WriteFrame
  <2>1. PICK f \in wPending : slot' = [slot EXCEPT ![Slot(f)] = f]
    BY <1>2 DEF WriteFrame
  <2>2. f \in Nat /\ wPending' \subseteq Nat
    BY <1>2 DEF WriteFrame
  <2>3. slot' \in [Slots -> Nat \cup {Noise}]
    BY <2>1, <2>2
  <2>4. QED
    BY <1>2, <2>2, <2>3 DEF WriteFrame, readVars, ioVars
<1>3. CASE WritePublish
  BY <1>3 DEF WritePublish, readVars, ioVars
<1>4. CASE ReadBegin
  BY <1>4 DEF ReadBegin, writerVars, ioVars
<1>5. CASE ReadWindow
  <2>1. rAsk \in ReadSizes /\ rPc = "window"
    BY <1>5 DEF ReadWindow, ReadInv
  <2>2. rFrom' \in Nat /\ rTo' \in Nat
    BY <1>5, <2>1, WindowBounds DEF ReadWindow
  <2>3. rPending' \subseteq Nat
    BY <1>5, <2>2 DEF ReadWindow
  <2>4. QED
    BY <1>5, <2>1, <2>2, <2>3 DEF ReadWindow, writerVars, ioVars
<1>6. CASE ReadFrame
  <2>1. PICK p \in rPending : \E x \in Seen(Slot(p)) :
          got' = got \cup {<<p, x>>}
    BY <1>6 DEF ReadFrame
  <2>2. PICK x \in Seen(Slot(p)) : got' = got \cup {<<p, x>>}
    BY <2>1
  <2>3. p \in Nat /\ Slot(p) \in Slots
    BY <2>1, SlotRange
  <2>4. x \in Nat \cup {Noise}
    BY <2>2, <2>3 DEF Seen
  <2>5. got' \subseteq Nat \X (Nat \cup {Noise})
    BY <2>2, <2>3, <2>4
  <2>6. QED
    BY <1>6, <2>5 DEF ReadFrame, writerVars, ioVars
<1>7. CASE ReadPublish
  BY <1>7, DoneTypes DEF ReadPublish, writerVars, ioVars
<1>8. CASE StartIOLoad
  BY <1>8 DEF StartIOLoad, writerVars, readVars
<1>9. CASE StartIOStore
  BY <1>9 DEF StartIOStore, writerVars, readVars
<1>10. CASE StopIO
  BY <1>10 DEF StopIO, writerVars, readVars
<1>11. CASE BridgeRestart
  <2>1. CASE HalReads
    BY <1>11, <2>1, Abandoned DEF BridgeRestart, readVars, ioVars
  <2>2. CASE ~HalReads
    BY <1>11, <2>2, DoneTypes DEF BridgeRestart, writerVars, ioVars
  <2>3. QED
    BY <2>1, <2>2
<1>12. CASE CoreaudiodRestart
  <2>1. CASE HalReads
    BY <1>12, <2>1, DoneTypes DEF CoreaudiodRestart, writerVars
  <2>2. CASE ~HalReads
    BY <1>12, <2>2, Abandoned DEF CoreaudiodRestart, readVars
  <2>3. QED
    BY <2>1, <2>2
<1>13. CASE UNCHANGED vars
  BY <1>13 DEF vars, writerVars, readVars, ioVars
<1>14. QED
  BY <1>1, <1>2, <1>3, <1>4, <1>5, <1>6, <1>7, <1>8, <1>9, <1>10, <1>11, <1>12,
     <1>13 DEF Next, Writer, Reader, PlugIn, Crash

----------------------------------------------------------------------------
(* The counters.                                                           *)

\* Every action keeps the counters in order.
LEMMA NextCounters ==
  TypeOK /\ CountersInv /\ WriteInv /\ ReadInv /\ [Next]_vars => CountersInv'
<1> SUFFICES ASSUME TypeOK, CountersInv, WriteInv, ReadInv, [Next]_vars
             PROVE  CountersInv'
  OBVIOUS
<1> USE DEF CountersInv, TypeOK
<1>1. CASE Writer
  BY <1>1 DEF Writer, WriteBegin, WriteFrame, WritePublish, WriteInv, ioVars,
              None
<1>2. CASE ReadPublish
  BY <1>2 DEF ReadPublish, ReadInv, writerVars, ioVars
<1>3. CASE ReadBegin \/ ReadWindow \/ ReadFrame
  BY <1>3 DEF ReadBegin, ReadWindow, ReadFrame, writerVars, ioVars
<1>4. CASE PlugIn
  BY <1>4 DEF PlugIn, StartIOLoad, StartIOStore, StopIO, writerVars, None
<1>5. CASE Crash
  BY <1>5
    DEF Crash, BridgeRestart, CoreaudiodRestart, AbandonWrite, writerVars,
        ioVars, None
<1>6. CASE UNCHANGED vars
  BY <1>6 DEF vars, writerVars, ioVars
<1>7. QED
  BY <1>1, <1>2, <1>3, <1>4, <1>5, <1>6 DEF Next, Reader

\* Every action keeps the write in progress ahead of the counter and within
\* one ring of it.
LEMMA NextWrite == TypeOK /\ WriteInv /\ [Next]_vars => WriteInv'
<1> SUFFICES ASSUME TypeOK, WriteInv, [Next]_vars PROVE WriteInv'
  OBVIOUS
<1> USE ChannelAssumption, WindowAssumption DEF WriteInv, TypeOK
<1>1. CASE WriteBegin
  BY <1>1 DEF WriteBegin, WriterIdle
<1>2. CASE WriteFrame
  BY <1>2 DEF WriteFrame
<1>3. CASE WritePublish
  BY <1>3 DEF WritePublish
<1>4. CASE Reader
  BY <1>4 DEF Reader, ReadBegin, ReadWindow, ReadFrame, ReadPublish, writerVars
<1>5. CASE PlugIn
  BY <1>5 DEF PlugIn, StartIOLoad, StartIOStore, StopIO, writerVars
<1>6. CASE Crash
  <2>1. CASE AbandonWrite
    BY <2>1, Abandoned
  <2>2. CASE UNCHANGED writerVars
    BY <2>2 DEF writerVars
  <2>3. QED
    BY <1>6, <2>1, <2>2 DEF Crash, BridgeRestart, CoreaudiodRestart
<1>7. CASE UNCHANGED vars
  BY <1>7 DEF vars, writerVars
<1>8. QED
  BY <1>1, <1>2, <1>3, <1>4, <1>5, <1>6, <1>7 DEF Next, Writer

----------------------------------------------------------------------------
(* The slots.                                                              *)

\* Every action keeps the published frames in their slots.
LEMMA NextSlots ==
  TypeOK /\ WriteInv /\ SlotInv /\ [Next]_vars => SlotInv'
<1> SUFFICES ASSUME TypeOK, WriteInv, SlotInv, [Next]_vars PROVE SlotInv'
  OBVIOUS
<1> USE ChannelAssumption, WindowAssumption DEF TypeOK, Noise
<1>0. ASSUME UNCHANGED writerVars PROVE SlotInv'
  BY <1>0 DEF writerVars, SlotInv
<1>1. CASE WriteBegin
  <2>1. writeFrames' = writeFrames /\ slot' = slot /\ frontier <= frontier'
    BY <1>1 DEF WriteBegin
  <2>2. \A p \in writeFrames'..(wEnd' - 1) : p \in wPending'
    BY <1>1 DEF WriteBegin
  <2>3. QED
    BY <1>1, <2>1, <2>2 DEF WriteBegin, SlotInv
<1>2. CASE WriteFrame
  <2>1. PICK f \in wPending : /\ slot' = [slot EXCEPT ![Slot(f)] = f]
                              /\ wPending' = wPending \ {f}
    BY <1>2 DEF WriteFrame
  <2>2. f \in Nat /\ writeFrames <= f /\ f < wEnd /\ f < frontier
    BY <2>1 DEF WriteInv
  <2>3. UNCHANGED <<writeFrames, wEnd, frontier>>
    BY <1>2 DEF WriteFrame
  <2>4. ASSUME NEW p \in Nat
        PROVE  slot'[Slot(p)] = IF Slot(p) = Slot(f) THEN f ELSE slot[Slot(p)]
    BY <2>1, <2>2, SlotRange
  <2>5. ASSUME NEW p \in 0..(writeFrames - 1)
        PROVE  /\ frontier <= p + Capacity => slot'[Slot(p)] = p
               /\ slot'[Slot(p)] = Noise \/ slot'[Slot(p)] >= p
    <3>1. p \in Nat /\ p < f
      BY <2>2
    <3>2. frontier <= p + Capacity => Slot(p) # Slot(f)
      BY <2>2, <3>1, SlotsDistinct
    <3>3. QED
      BY <2>4, <3>1, <3>2 DEF SlotInv
  <2>6. ASSUME NEW p \in writeFrames..(wEnd - 1), p \notin wPending'
        PROVE  slot'[Slot(p)] = p
    <3>1. p \in Nat
      OBVIOUS
    <3>2. CASE p = f
      BY <2>4, <3>1, <3>2
    <3>3. CASE p # f
      <4>1. p \notin wPending
        BY <2>1, <2>6, <3>3
      <4>2. Slot(p) # Slot(f)
        BY <2>2, <3>1, <3>3, SlotsDistinct DEF WriteInv
      <4>3. QED
        BY <2>4, <3>1, <4>1, <4>2 DEF SlotInv
    <3>4. QED
      BY <3>2, <3>3
  <2>7. QED
    BY <2>3, <2>5, <2>6 DEF SlotInv
<1>3. CASE WritePublish
  BY <1>3 DEF WritePublish, SlotInv, WriteInv
<1>4. CASE Reader
  BY <1>0, <1>4 DEF Reader, ReadBegin, ReadWindow, ReadFrame, ReadPublish
<1>5. CASE PlugIn
  BY <1>0, <1>5 DEF PlugIn, StartIOLoad, StartIOStore, StopIO
<1>6. ASSUME AbandonWrite PROVE SlotInv'
  <2>1. ASSUME NEW p \in 0..(writeFrames - 1)
        PROVE  slot'[Slot(p)] = slot[Slot(p)] \/ slot'[Slot(p)] = Noise
    BY <1>6, SlotRange DEF AbandonWrite
  <2>2. ASSUME NEW p \in 0..(writeFrames - 1), slot[Slot(p)] = p
        PROVE  slot'[Slot(p)] = p
    BY <1>6, <2>2, SlotRange DEF AbandonWrite
  <2>3. QED
    BY <1>6, <2>1, <2>2 DEF AbandonWrite, SlotInv
<1>7. CASE Crash
  BY <1>0, <1>6, <1>7 DEF Crash, BridgeRestart, CoreaudiodRestart
<1>8. CASE UNCHANGED vars
  BY <1>0, <1>8 DEF vars
<1>9. QED
  BY <1>1, <1>2, <1>3, <1>4, <1>5, <1>7, <1>8 DEF Next, Writer

----------------------------------------------------------------------------
(* The reader.                                                             *)

\* Every action keeps a read between its counter and what is published.
LEMMA NextRead ==
  TypeOK /\ CountersInv /\ WriteInv /\ ReadInv /\ [Next]_vars => ReadInv'
<1> SUFFICES ASSUME TypeOK, CountersInv, WriteInv, ReadInv, [Next]_vars
             PROVE  ReadInv'
  OBVIOUS
<1> USE DEF TypeOK
<1>0. ASSUME UNCHANGED readVars, writeFrames <= writeFrames',
             writeFrames' \in Nat
      PROVE  ReadInv'
  BY <1>0 DEF readVars, ReadInv
<1>1. CASE Writer
  BY <1>0, <1>1 DEF Writer, WriteBegin, WriteFrame, WritePublish, WriteInv
<1>2. CASE ReadBegin
  BY <1>2 DEF ReadBegin, ReadInv, ReaderIdle, writerVars
<1>3. CASE ReadWindow
  <2>1. rAsk \in ReadSizes /\ rW <= writeFrames /\ rPc' = "copy"
    BY <1>3 DEF ReadWindow, ReadInv
  <2>2. /\ rFrom' \in Nat /\ rTo' \in Nat
        /\ rFrom' <= rTo'
        /\ rTo' <= writeFrames
    <3>1. rFrom' = WindowStart(rW, readFrames, rAsk)
      BY <1>3 DEF ReadWindow
    <3>2. rTo' = WindowEnd(rW, readFrames, rAsk)
      BY <1>3 DEF ReadWindow
    <3>3. rW \in Nat /\ readFrames \in Nat /\ writeFrames \in Nat
      OBVIOUS
    <3>4. /\ rFrom' \in Nat /\ rTo' \in Nat
          /\ rFrom' <= rTo'
          /\ rTo' <= rW \/ rTo' <= readFrames
      BY <2>1, <3>1, <3>2, <3>3, WindowBounds
    <3>5. QED
      BY <2>1, <3>3, <3>4 DEF CountersInv
  <2>3. rPending' = rFrom'..(rTo' - 1) /\ writeFrames' = writeFrames
    BY <1>3 DEF ReadWindow, writerVars
  <2>4. QED
    <3>1. \A p \in rPending' : rFrom' <= p /\ p < rTo'
      BY <2>2, <2>3, Interval
    <3>2. rTo' <= writeFrames'
      BY <2>2, <2>3
    <3>3. QED
      BY <2>1, <2>2, <3>1, <3>2 DEF ReadInv
<1>4. CASE ReadFrame
  BY <1>4 DEF ReadFrame, ReadInv, writerVars
<1>5. CASE ReadPublish
  BY <1>5 DEF ReadPublish, ReadDone, ReadInv, writerVars
<1>6. CASE PlugIn
  BY <1>0, <1>6 DEF PlugIn, StartIOLoad, StartIOStore, StopIO, writerVars
<1>7. CASE Crash
  <2>1. writeFrames' = writeFrames
    BY <1>7
      DEF Crash, BridgeRestart, CoreaudiodRestart, AbandonWrite, writerVars
  <2>2. CASE ReadDone
    BY <2>2 DEF ReadDone, ReadInv
  <2>3. QED
    BY <1>0, <1>7, <2>1, <2>2 DEF Crash, BridgeRestart, CoreaudiodRestart
<1>8. CASE UNCHANGED vars
  BY <1>0, <1>8 DEF vars, writerVars
<1>9. QED
  BY <1>1, <1>2, <1>3, <1>4, <1>5, <1>6, <1>7, <1>8 DEF Next, Reader

\* Only a read's own window is copied.
LEMMA NextGot == TypeOK /\ ReadInv /\ GotInv /\ [Next]_vars => GotInv'
<1> SUFFICES ASSUME TypeOK, ReadInv, GotInv, [Next]_vars PROVE GotInv'
  OBVIOUS
<1> USE DEF GotInv
<1>0. ASSUME UNCHANGED readVars \/ got' = {} PROVE GotInv'
  BY <1>0 DEF readVars
<1>1. CASE Writer \/ PlugIn
  BY <1>0, <1>1 DEF Writer, WriteBegin, WriteFrame, WritePublish, PlugIn,
                    StartIOLoad, StartIOStore, StopIO
<1>2. CASE ReadBegin \/ ReadWindow
  BY <1>2 DEF ReadBegin, ReadWindow, ReaderIdle
<1>3. CASE ReadFrame
  BY <1>3 DEF ReadFrame, ReadInv
<1>4. CASE ReadPublish \/ Crash
  BY <1>0, <1>4 DEF ReadPublish, Crash, BridgeRestart, CoreaudiodRestart,
                    ReadDone
<1>5. CASE UNCHANGED vars
  BY <1>0, <1>5 DEF vars
<1>6. QED
  BY <1>1, <1>2, <1>3, <1>4, <1>5 DEF Next, Reader

\* What a read copies: the frame asked for, or a newer one once lapped.
LEMMA NextIntact ==
  TypeOK /\ WriteInv /\ SlotInv /\ ReadInv /\ IntactUnlessLapped /\ [Next]_vars
    => IntactUnlessLapped'
<1> SUFFICES ASSUME TypeOK, WriteInv, SlotInv, ReadInv, IntactUnlessLapped,
                    [Next]_vars
             PROVE  IntactUnlessLapped'
  OBVIOUS
<1> USE ChannelAssumption, WindowAssumption DEF TypeOK, Noise
<1>0. ASSUME got' \subseteq got, frontier <= frontier', frontier' \in Nat
      PROVE  IntactUnlessLapped'
  BY <1>0 DEF IntactUnlessLapped
<1>1. CASE Writer
  BY <1>0, <1>1 DEF Writer, WriteBegin, WriteFrame, WritePublish, readVars
<1>2. CASE ReadBegin \/ ReadWindow \/ ReadPublish
  BY <1>0, <1>2 DEF ReadBegin, ReadWindow, ReadPublish, ReadDone, writerVars
<1>3. CASE ReadFrame
  <2>1. PICK p \in rPending : \E x \in Seen(Slot(p)) :
          got' = got \cup {<<p, x>>}
    BY <1>3 DEF ReadFrame
  <2>2. PICK x \in Seen(Slot(p)) : got' = got \cup {<<p, x>>}
    BY <2>1
  <2>3. p \in 0..(writeFrames - 1) /\ p \in Nat
    BY <1>3, <2>1 DEF ReadInv
  <2>4. x = p \/ (p + Capacity < frontier /\ (x = Noise \/ x > p))
    <3>1. CASE x = slot[Slot(p)]
      <4>1. Slot(p) \in Slots
        BY <2>3, SlotRange
      <4>2. slot[Slot(p)] \in Nat \cup {Noise}
        BY <4>1
      <4>3. /\ frontier <= p + Capacity => slot[Slot(p)] = p
            /\ slot[Slot(p)] = Noise \/ slot[Slot(p)] >= p
        BY <2>3 DEF SlotInv
      <4>4. QED
        BY <3>1, <2>3, <4>2, <4>3
    <3>2. CASE x = Noise /\ \E f \in wPending : Slot(f) = Slot(p)
      <4>1. PICK f \in wPending : Slot(f) = Slot(p)
        BY <3>2
      <4>2. f \in Nat /\ p < f /\ f < frontier
        BY <2>3 DEF WriteInv
      <4>3. p + Capacity <= f
        BY <2>3, <4>1, <4>2, SlotsDistinct
      <4>4. QED
        BY <2>3, <3>2, <4>2, <4>3
    <3>3. QED
      BY <2>2, <3>1, <3>2 DEF Seen
  <2>5. frontier' = frontier
    BY <1>3 DEF ReadFrame, writerVars
  <2>6. QED
    BY <2>2, <2>4, <2>5 DEF IntactUnlessLapped
<1>4. CASE PlugIn
  BY <1>0, <1>4 DEF PlugIn, StartIOLoad, StartIOStore, StopIO, writerVars,
                    readVars
<1>5. CASE Crash
  BY <1>0, <1>5 DEF Crash, BridgeRestart, CoreaudiodRestart, AbandonWrite,
                    ReadDone, writerVars, readVars
<1>6. CASE UNCHANGED vars
  BY <1>0, <1>6 DEF vars, writerVars, readVars
<1>7. QED
  BY <1>1, <1>2, <1>3, <1>4, <1>5, <1>6 DEF Next, Reader

----------------------------------------------------------------------------
(* Capture: nothing but a read, or a StartIO while no read runs, moves the *)
(* reader's counter, and always forward.                                   *)

\* Nothing moves the reader's counter of a capture channel under a read.
LEMMA NextCapture ==
  IInv /\ [Next]_vars => CaptureInv'
<1> SUFFICES ASSUME IInv, [Next]_vars, HalReads PROVE CaptureInv'
  BY DEF CaptureInv
<1>0. TypeOK /\ CaptureInv /\ CountersInv /\ ReadInv
  BY DEF IInv
<1> USE DEF CaptureInv, TypeOK, ReaderIdle, None
<1>1. CASE Writer
  BY <1>0, <1>1 DEF Writer, WriteBegin, WriteFrame, WritePublish, readVars,
                    ioVars
<1>2. CASE ReadBegin
  BY <1>0, <1>2 DEF ReadBegin, ReaderMayRun, ioVars
<1>3. CASE ReadWindow
  <2>1. rAsk \in ReadSizes /\ rW \in Nat /\ readFrames \in Nat
    BY <1>0, <1>3 DEF ReadWindow, ReadInv
  <2>2. rFrom' = WindowStart(rW, readFrames, rAsk)
    BY <1>3 DEF ReadWindow
  <2>3. readFrames <= rFrom'
    BY <2>1, <2>2, WindowBounds
  <2>4. QED
    BY <1>0, <1>3, <2>3 DEF ReadWindow, ioVars
<1>4. CASE ReadFrame
  BY <1>0, <1>4 DEF ReadFrame, ioVars
<1>5. CASE ReadPublish
  BY <1>0, <1>5 DEF ReadPublish, ReadDone, ReadInv, ioVars
<1>6. CASE PlugIn
  BY <1>0, <1>6 DEF PlugIn, StartIOLoad, StartIOStore, StopIO, HalEndIdle,
                    CountersInv, readVars
<1>7. CASE Crash
  BY <1>0, <1>7
    DEF Crash, BridgeRestart, CoreaudiodRestart, ReadDone, readVars, ioVars
<1>8. CASE UNCHANGED vars
  BY <1>0, <1>8 DEF vars, readVars, ioVars
<1>9. QED
  BY <1>1, <1>2, <1>3, <1>4, <1>5, <1>6, <1>7, <1>8 DEF Next, Reader

\* Every step of a capture channel is a step of LossyFifo or leaves its
\* variables alone.
LEMMA FifoStep ==
  ASSUME HalReads, IInv, [Next]_vars
  PROVE  [Fifo!Next]_(Fifo!vars)
<1>0. /\ TypeOK /\ CaptureInv /\ CountersInv /\ ReadInv /\ WriteInv /\ GotInv
      /\ TypeOK'
  BY NextTypes DEF IInv
<1>1. writeFrames' \in Nat /\ readFrames' \in Nat
  BY <1>0 DEF TypeOK
<1>2. ReaderIdle => Heard = {}
  BY <1>0 DEF GotInv, ReaderIdle, Heard
<1>3. got' = {} => Heard' = {}
  BY DEF Heard
<1>4. UNCHANGED got => UNCHANGED Heard
  BY DEF Heard
<1>5. CASE WritePublish
  <2>1. writeFrames' > writeFrames /\ UNCHANGED <<readFrames, halIO, Heard>>
    BY <1>0, <1>4, <1>5
      DEF WritePublish, WriterIdle, WriteInv, TypeOK, readVars, ioVars
  <2>2. QED
    BY <1>1, <2>1 DEF Fifo!Next, Fifo!Publish
<1>6. CASE ReadFrame
  <2>1. PICK p \in rPending : \E x \in Seen(Slot(p)) :
          got' = got \cup {<<p, x>>}
    BY <1>6 DEF ReadFrame
  <2>2. Heard' = Heard \cup {p}
    <3>1. PICK x \in Seen(Slot(p)) : got' = got \cup {<<p, x>>}
      BY <2>1
    <3>2. <<p, x>>[1] = p
      OBVIOUS
    <3>3. QED
      BY <3>1, <3>2 DEF Heard
  <2>3. p \in readFrames..(writeFrames - 1)
    BY <1>0, <2>1 DEF ReadInv, CaptureInv, TypeOK
  <2>4. halIO
    BY <1>0, <1>6 DEF ReadFrame, CaptureInv, ReaderIdle
  <2>5. UNCHANGED <<writeFrames, readFrames, halIO>>
    BY <1>6 DEF ReadFrame, writerVars, ioVars
  <2>6. QED
    BY <2>2, <2>3, <2>4, <2>5 DEF Fifo!Next, Fifo!Hear
<1>7. CASE ReadPublish
  <2>1. readFrames' \in readFrames..writeFrames
    BY <1>0, <1>7 DEF ReadPublish, ReadInv, CaptureInv, TypeOK
  <2>2. \A p \in Heard : p < readFrames'
    BY <1>0, <1>7 DEF ReadPublish, GotInv, Heard
  <2>3. halIO
    BY <1>0, <1>7 DEF ReadPublish, CaptureInv, ReaderIdle
  <2>4. Heard' = {} /\ UNCHANGED <<writeFrames, halIO>>
    BY <1>3, <1>7 DEF ReadPublish, ReadDone, writerVars, ioVars
  <2>5. QED
    BY <2>1, <2>2, <2>3, <2>4 DEF Fifo!Next, Fifo!EndRun
<1>8. CASE StartIOStore
  <2>1. readFrames' \in readFrames..writeFrames /\ ~halIO /\ halIO'
    BY <1>0, <1>8 DEF StartIOStore, CaptureInv, CountersInv, TypeOK, None
  <2>2. UNCHANGED <<writeFrames, Heard>>
    BY <1>4, <1>8 DEF StartIOStore, writerVars, readVars
  <2>3. QED
    BY <2>1, <2>2 DEF Fifo!Next, Fifo!Arrive, TypeOK
<1>9. CASE StopIO
  <2>1. ReaderIdle /\ halIO /\ halIO' = FALSE
    BY <1>9 DEF StopIO, HalEndIdle
  <2>2. UNCHANGED <<writeFrames, readFrames, Heard>>
    BY <1>4, <1>9 DEF StopIO, writerVars, readVars
  <2>3. QED
    BY <1>2, <2>1, <2>2 DEF Fifo!Next, Fifo!Leave
<1>10. CASE CoreaudiodRestart
  <2>1. halIO' = FALSE /\ UNCHANGED <<writeFrames, readFrames>> /\ Heard' = {}
    BY <1>3, <1>10 DEF CoreaudiodRestart, ReadDone, writerVars
  <2>2. CASE halIO
    BY <2>1, <2>2 DEF Fifo!Next, Fifo!Leave
  <2>3. CASE ~halIO
    BY <1>0, <1>2, <2>1, <2>3 DEF CaptureInv, Fifo!vars, TypeOK
  <2>4. QED
    BY <2>2, <2>3
<1>11. CASE UNCHANGED <<writeFrames, readFrames, halIO, got>>
  BY <1>4, <1>11 DEF Fifo!vars
<1>12. CASE WriteBegin \/ WriteFrame \/ ReadBegin \/ ReadWindow
  BY <1>11, <1>12
    DEF WriteBegin, WriteFrame, ReadBegin, ReadWindow, writerVars, readVars,
        ioVars
<1>13. CASE StartIOLoad \/ BridgeRestart
  BY <1>11, <1>13 DEF StartIOLoad, BridgeRestart, AbandonWrite, writerVars,
                      readVars, ioVars
<1>14. CASE UNCHANGED vars
  BY <1>11, <1>14 DEF vars, writerVars, readVars, ioVars
<1>15. QED
  BY <1>5, <1>6, <1>7, <1>8, <1>9, <1>10, <1>12, <1>13, <1>14
     DEF Next, Writer, Reader, PlugIn, Crash

----------------------------------------------------------------------------
(* The theorems.                                                           *)

\* The inductive invariant holds initially.
LEMMA InitInv == Init => IInv
<1> SUFFICES ASSUME Init PROVE IInv
  OBVIOUS
<1>1. TypeOK
  BY InitTypes
<1>2. /\ CountersInv /\ WriteInv /\ SlotInv /\ ReadInv
      /\ GotInv /\ IntactUnlessLapped /\ CaptureInv
  BY ChannelAssumption, WindowAssumption
    DEF Init, CountersInv, WriteInv, SlotInv, ReadInv, GotInv,
        IntactUnlessLapped, CaptureInv, ReaderIdle, None
<1>3. QED
  BY <1>1, <1>2 DEF IInv

\* The inductive invariant is kept by every step.
LEMMA NextInv == IInv /\ [Next]_vars => IInv'
  BY NextTypes, NextCounters, NextWrite, NextSlots, NextRead, NextGot,
     NextIntact, NextCapture DEF IInv

\* The inductive invariant holds in every reachable state.
THEOREM Invariance == Spec => []IInv
<1>1. QED
  BY InitInv, NextInv, PTL DEF Spec

\* The ring's variables keep their types.
THEOREM TypeCorrect == Spec => []TypeOK
<1>1. IInv => TypeOK
  BY DEF IInv
<1>2. QED
  BY <1>1, Invariance, PTL

\* The reader's counter never overtakes the writer's.
THEOREM NeverAhead == Spec => []ReadNotAhead
<1>1. IInv => ReadNotAhead
  BY DEF IInv, CountersInv, ReadNotAhead
<1>2. QED
  BY <1>1, Invariance, PTL

\* A listener gets the frame published at each position, or, once the writer
\* has lapped it, a newer or a torn one.
THEOREM Intact == Spec => []IntactUnlessLapped
<1>1. IInv => IntactUnlessLapped
  BY DEF IInv
<1>2. QED
  BY <1>1, Invariance, PTL

\* No capture session hears what was recorded before its StartIO.
THEOREM Fresh == Spec => []FreshCapture
<1>1. IInv => FreshCapture
  BY DEF IInv, TypeOK, CaptureInv, FreshCapture
<1>2. QED
  BY <1>1, Invariance, PTL

\* A capture channel keeps the promise of LossyFifo.
THEOREM CaptureRefinement == ASSUME HalReads PROVE Spec => CaptureIsLossyFifo
<1>1. Init => Fifo!Init
  BY DEF Init, Fifo!Init, Heard
<1>2. IInv /\ [Next]_vars => [Fifo!Next]_(Fifo!vars)
  BY FifoStep
<1>3. QED
  BY <1>1, <1>2, Invariance, PTL DEF Spec, Fifo!Spec, CaptureIsLossyFifo

----------------------------------------------------------------------------
(* Playback: fill_out_xfer conceals every break it makes.                  *)

\* A step of playback is one of the channel, or leaves the channel alone.
LEMMA ChannelStep == [FillNext]_pvars => [Next]_vars
<1> SUFFICES ASSUME [FillNext]_pvars PROVE Next \/ UNCHANGED vars
  OBVIOUS
<1>1. CASE FillBegin BY <1>1 DEF FillBegin
<1>2. CASE FillRead BY <1>2 DEF FillRead, Next, Reader
<1>3. CASE FillReadDone BY <1>3 DEF FillReadDone, Next, Reader
<1>4. CASE FillConceal BY <1>4 DEF FillConceal, ConcealWith
<1>5. CASE FillAccount BY <1>5 DEF FillAccount
<1>6. CASE PlugInStart BY <1>6 DEF PlugInStart, Next, PlugIn
<1>7. CASE PlugInStop BY <1>7 DEF PlugInStop, Next, PlugIn
<1>8. CASE PlugInWrite BY <1>8 DEF PlugInWrite, Next
<1>9. CASE CoreaudiodDies BY <1>9 DEF CoreaudiodDies, Next, Crash
<1>10. CASE BridgeDies BY <1>10 DEF BridgeDies, Next, Crash
<1>11. CASE UNCHANGED pvars BY <1>11 DEF pvars
<1> QED BY <1>1, <1>2, <1>3, <1>4, <1>5, <1>6, <1>7, <1>8, <1>9, <1>10, <1>11
        DEF FillNext, Fill

\* What the channel's steps do to the reader's counter: only the end of a read
\* and StartIO move it.
LEMMA CounterMoves ==
  ASSUME [FillNext]_pvars, readFrames' # readFrames
  PROVE  FillReadDone \/ (PlugInStart /\ StartIOStore)
<1>1. ~FillBegin BY DEF FillBegin, vars
<1>2. ~FillRead BY DEF FillRead, ReadBegin, ReadWindow, ReadFrame
<1>3. ~FillConceal BY DEF FillConceal, ConcealWith, vars
<1>4. ~FillAccount BY DEF FillAccount, vars
<1>5. ~StartIOLoad BY DEF StartIOLoad
<1>6. ~PlugInStop BY DEF PlugInStop, StopIO
<1>7. ~PlugInWrite
  BY DEF PlugInWrite, Writer, WriteBegin, WriteFrame, WritePublish
<1>8. ~CoreaudiodDies BY DEF CoreaudiodDies, CoreaudiodRestart
<1>9. ~BridgeDies BY DEF BridgeDies, BridgeRestart, vars
<1>10. ~UNCHANGED pvars BY DEF pvars, vars
<1> QED BY <1>1, <1>2, <1>3, <1>4, <1>5, <1>6, <1>7, <1>8, <1>9, <1>10
        DEF FillNext, Fill, PlugInStart

----------------------------------------------------------------------------
(* The invariant.                                                          *)

\* The last transfer ended in audio, and the next continues it from `at`.
Continued(at) == ~prevShort /\ heardTo # None => heardTo = at

\* As long as StartIO has not moved it, the reader's counter is where the last
\* transfer left it: at the end of what was heard, or in front of a fade.
JoinInv ==
  /\ fPc \in {"idle", "account"} /\ ~moved => Continued(readFrames)
  /\ fPc = "read" /\ ~moved => readFrames = before /\ Continued(before)
  /\ fPc = "conceal" /\ ~moved => readFrames = fFrom + fGot
  /\ fPc = "conceal" /\ ~movedBefore => Continued(before)

PlaybackInv == IInv /\ FillTypeOK /\ JoinInv

LEMMA PlaybackInit == FillInit => PlaybackInv
<1> SUFFICES ASSUME FillInit PROVE PlaybackInv
  OBVIOUS
<1>1. IInv BY InitInv DEF FillInit
<1>2. {prevShort, ioRunning, moved, movedBefore, ioRan, miscounted}
        \subseteq BOOLEAN
  BY DEF FillInit
<1>3. JoinInv BY DEF FillInit, JoinInv, Continued
<1> QED BY <1>1, <1>2, <1>3 DEF PlaybackInv, FillTypeOK, FillInit, IInv

\* What a read hands to fill_out_xfer.
LEMMA ReadResult ==
  ASSUME IInv, FillReadDone
  PROVE  /\ fFrom' \in Nat /\ fGot' \in Nat
         /\ fFrom' + fGot' = readFrames'
<1>1. rPc = "copy" /\ readFrames' = rTo /\ fFrom' = rFrom /\ fGot' = rTo - rFrom
  BY DEF FillReadDone, ReadPublish
<1>2. rFrom \in Nat /\ rTo \in Nat /\ rFrom <= rTo
  BY <1>1 DEF IInv, TypeOK, ReadInv
<1> QED BY <1>1, <1>2

LEMMA FillTypes ==
  ASSUME PlaybackInv, [FillNext]_pvars, TypeOK'
  PROVE  FillTypeOK'
<1> USE DEF PlaybackInv, FillTypeOK, None, fillVars, histVars
<1>0. TypeOK /\ readFrames \in Nat /\ halIO \in BOOLEAN BY DEF TypeOK
<1>1. CASE FillBegin BY <1>0, <1>1 DEF FillBegin
<1>2. CASE FillRead BY <1>2 DEF FillRead
<1>3. CASE FillReadDone BY <1>3, ReadResult DEF FillReadDone
<1>4. CASE FillConceal
  <2>1. prevShort' \in BOOLEAN BY <1>4 DEF FillConceal, ConcealWith
  <2>2. join' \in {"none", "smooth", "faded", "click"}
    BY <1>4 DEF FillConceal, ConcealWith, JoinOf
  <2>3. heardTo' \in Nat \cup {None}
    BY <1>4 DEF FillConceal, ConcealWith
  <2> QED BY <1>4, <2>1, <2>2, <2>3 DEF FillConceal, ConcealWith
<1>5. CASE FillAccount
  <2>1. miscounted' \in BOOLEAN BY <1>5 DEF FillAccount
  <2> QED BY <1>5, <2>1 DEF FillAccount
<1>6. CASE PlugInStart BY <1>6 DEF PlugInStart
<1>7. CASE PlugInStop BY <1>7 DEF PlugInStop
<1>8. CASE PlugInWrite BY <1>8 DEF PlugInWrite
<1>9. CASE CoreaudiodDies BY <1>9 DEF CoreaudiodDies
<1>10. CASE BridgeDies BY <1>10 DEF BridgeDies
<1>11. CASE UNCHANGED pvars BY <1>11 DEF pvars
<1> QED BY <1>1, <1>2, <1>3, <1>4, <1>5, <1>6, <1>7, <1>8, <1>9, <1>10, <1>11
        DEF FillNext, Fill

LEMMA Joins ==
  ASSUME PlaybackInv, [FillNext]_pvars, ReadSizes # {}
  PROVE  JoinInv'
<1> USE DEF JoinInv, Continued
<1>0. ~FillReadDone /\ ~(PlugInStart /\ StartIOStore) => readFrames' = readFrames
  BY CounterMoves
<1>1. CASE FillBegin
  <2>1. ~FillReadDone /\ ~PlugInStart
    BY <1>1 DEF FillBegin, FillReadDone, PlugInStart, StartIOLoad, StartIOStore,
                fillVars
  <2> QED BY <1>0, <1>1, <2>1 DEF FillBegin, PlaybackInv, histVars
<1>2. CASE FillRead
  <2>1. readFrames' = readFrames
    BY <1>2 DEF FillRead, ReadBegin, ReadWindow, ReadFrame
  <2> QED BY <1>2, <2>1 DEF FillRead, PlaybackInv, fillVars, histVars
<1>3. CASE FillReadDone
  <2>1. fFrom' + fGot' = readFrames' BY <1>3, ReadResult DEF PlaybackInv
  <2>2. /\ fPc = "read" /\ fPc' = "conceal" /\ before' = before
        /\ movedBefore' = moved /\ prevShort' = prevShort /\ heardTo' = heardTo
    BY <1>3 DEF FillReadDone
  <2> QED BY <2>1, <2>2 DEF PlaybackInv
<1>4. CASE FillConceal
  <2>1. /\ fPc = "conceal" /\ fPc' = "account" /\ readFrames' = readFrames
        /\ moved' = moved /\ prevShort' = (fGot < FillFrames)
        /\ heardTo' = IF fGot = 0 THEN heardTo ELSE fFrom + fGot
    BY <1>4 DEF FillConceal, ConcealWith, vars, histVars
  <2>2. FillFrames \in ReadSizes BY DEF FillFrames
  <2>3. FillFrames \in 1..Capacity BY <2>2, ChannelAssumption
  <2>4. FillFrames > 0 BY <2>3, WindowAssumption
  <2>5. fGot = 0 => fGot < FillFrames BY <2>4
  <2>6. fGot = 0 => prevShort' BY <2>1, <2>5
  <2>7. fGot # 0 => heardTo' = fFrom + fGot BY <2>1
  <2>8. ~moved => readFrames = fFrom + fGot BY <2>1 DEF PlaybackInv
  <2> QED BY <2>1, <2>6, <2>7, <2>8
<1>5. CASE FillAccount
  <2>1. readFrames' = readFrames BY <1>5 DEF FillAccount, vars
  <2> QED BY <1>5, <2>1 DEF FillAccount, PlaybackInv, histVars
<1>6. CASE PlugInStart
  <2>1. CASE StartIOStore
    <3>1. moved' /\ UNCHANGED <<fillVars, movedBefore>>
      BY <1>6, <2>1 DEF PlugInStart, StartIOLoad, StartIOStore, None
    <3> QED BY <3>1 DEF PlaybackInv, fillVars
  <2>2. CASE ~StartIOStore
    <3>1. readFrames' = readFrames /\ UNCHANGED <<fillVars, histVars>>
      BY <1>6, <2>2 DEF PlugInStart, StartIOLoad
    <3> QED BY <3>1 DEF PlaybackInv, fillVars, histVars
  <2> QED BY <2>1, <2>2
<1>7. CASE PlugInStop
  <2>1. readFrames' = readFrames BY <1>7 DEF PlugInStop, StopIO
  <2> QED BY <1>7, <2>1 DEF PlugInStop, PlaybackInv, fillVars, histVars
<1>8. CASE PlugInWrite
  <2>1. readFrames' = readFrames
    BY <1>8 DEF PlugInWrite, Writer, WriteBegin, WriteFrame, WritePublish
  <2> QED BY <1>8, <2>1 DEF PlugInWrite, PlaybackInv, fillVars, histVars
<1>9. CASE CoreaudiodDies
  <2>1. readFrames' = readFrames
    BY <1>9 DEF CoreaudiodDies, CoreaudiodRestart
  <2> QED BY <1>9, <2>1 DEF CoreaudiodDies, PlaybackInv, fillVars, histVars
<1>10. CASE BridgeDies
  BY <1>10 DEF BridgeDies
<1>11. CASE UNCHANGED pvars
  BY <1>11 DEF pvars, vars, PlaybackInv, fillVars, histVars
<1> QED BY <1>1, <1>2, <1>3, <1>4, <1>5, <1>6, <1>7, <1>8, <1>9, <1>10, <1>11
        DEF FillNext, Fill

LEMMA PlaybackStep ==
  ASSUME ReadSizes # {}
  PROVE  PlaybackInv /\ [FillNext]_pvars => PlaybackInv'
<1> SUFFICES ASSUME PlaybackInv, [FillNext]_pvars PROVE PlaybackInv'
  OBVIOUS
<1>1. IInv' BY ChannelStep, NextInv DEF PlaybackInv
<1>2. TypeOK' BY <1>1 DEF IInv
<1> QED BY <1>1, <1>2, FillTypes, Joins DEF PlaybackInv

----------------------------------------------------------------------------
(* The theorems: a transfer has a size.                                    *)

\* The state of fill_out_xfer and of the channel under it keep their types.
THEOREM PlaybackTypes ==
  ASSUME ReadSizes # {} PROVE FillSpec => []FillTypeOK
<1>1. PlaybackInv => FillTypeOK BY DEF PlaybackInv
<1> QED BY <1>1, PlaybackInit, PlaybackStep, PTL DEF FillSpec

\* With fill_out_xfer as its reader and any interleaving with StartIO, the
\* counter of the playback channel does not overtake the writer's.
THEOREM PlaybackNotAhead ==
  ASSUME ReadSizes # {} PROVE FillSpec => []ReadNotAhead
<1>1. PlaybackInv => ReadNotAhead
  BY DEF PlaybackInv, IInv, CountersInv, ReadNotAhead
<1> QED BY <1>1, PlaybackInit, PlaybackStep, PTL DEF FillSpec

\* Trims, laps and silences are always faded: a transfer that joins the last one
\* with a step does so because StartIO moved the counter.
THEOREM Concealed ==
  ASSUME ReadSizes # {} PROVE FillSpec => JoinsConcealed
<1>1. ASSUME PlaybackInv, [FillNext]_pvars
      PROVE  [(fPc = "conceal" /\ fPc' = "account" /\ join' = "click")
                => moved \/ movedBefore]_pvars
  <2> SUFFICES ASSUME fPc = "conceal", fPc' = "account", join' = "click",
                      ~moved, ~movedBefore
               PROVE  FALSE
    OBVIOUS
  <2>1. FillConceal
    <3>1. fPc' # fPc /\ fPc' = "account" /\ fPc = "conceal" OBVIOUS
    <3> QED BY <1>1, <3>1
            DEF FillNext, Fill, FillBegin, FillRead, FillReadDone, FillAccount,
                PlugInStart, PlugInStop, PlugInWrite, CoreaudiodDies,
                BridgeDies, pvars, fillVars
  <2>2. join' = JoinOf(fGot > 0 /\ (Skipped \/ prevShort))
    BY <2>1 DEF FillConceal, ConcealWith
  <2>3. fGot # 0 /\ ~Continues /\ ~(fGot > 0 /\ (Skipped \/ prevShort))
    BY <2>2 DEF JoinOf
  <2>4. fGot \in Nat /\ fFrom \in Nat /\ before \in Nat
    BY <1>1 DEF PlaybackInv, FillTypeOK
  <2>5. ~Skipped /\ ~prevShort BY <2>3, <2>4
  <2>6. readFrames = before + fGot /\ readFrames = fFrom + fGot
    BY <1>1, <2>5 DEF Skipped, PlaybackInv, JoinInv
  <2>7. before = fFrom BY <2>4, <2>6
  <2>8. heardTo # None => heardTo = fFrom
    BY <1>1, <2>5, <2>7 DEF PlaybackInv, JoinInv, Continued
  <2> QED BY <2>3, <2>5, <2>8 DEF Continues
<1> QED BY <1>1, PlaybackInit, PlaybackStep, PTL DEF FillSpec, JoinsConcealed

----------------------------------------------------------------------------
(* Latency: how much jitter the target backlog absorbs.                    *)

\* What one read takes: at least nothing, at most what is queued, and what is
\* asked for or everything unless it drops; a drop needs a backlog beyond the
\* target, or beyond the ring.
LEMMA ReadTakes ==
  ASSUME NEW b \in Nat
  PROVE  /\ WindowEnd(b, 0, XferFrames) \in 0..b
         /\ WindowStart(b, 0, XferFrames) \in Nat
         /\ b <= XferFrames + TargetBacklog /\ b <= Capacity
              => /\ WindowStart(b, 0, XferFrames) = 0
                 /\ \/ WindowEnd(b, 0, XferFrames) = XferFrames
                    \/ WindowEnd(b, 0, XferFrames) = b
<1>1. /\ XferFrames \in Nat /\ 0 < XferFrames /\ XferFrames <= Capacity
      /\ Capacity \in Nat /\ TargetBacklog \in Nat /\ TrimFrames \in Nat
  BY BacklogAssumption, WindowAssumption
<1>2. Avail(b, 0) = b
  BY DEF Avail
<1>3. QED
  BY <1>1, <1>2 DEF WindowStart, WindowEnd, Lapped, Trim

\* A step from a typed state ends in one.
LEMMA StepTypes == BacklogTypeOK /\ [BacklogNext]_backlogVars => BacklogTypeOK'
<1> SUFFICES ASSUME BacklogTypeOK, [BacklogNext]_backlogVars PROVE BacklogTypeOK'
  OBVIOUS
<1>0. /\ backlog \in Nat /\ lead \in Int /\ Jitter \in Nat
      /\ -Jitter <= lead /\ lead <= Jitter
      /\ MaxStalls \in Nat /\ stalls \in Nat /\ stalls <= MaxStalls
      /\ CycleFrames \in Nat /\ XferFrames \in Nat
  BY BacklogAssumption DEF BacklogTypeOK
<1>1. CASE Write
  BY <1>0, <1>1 DEF Write, BacklogTypeOK, Steps
<1>2. CASE Read
  <2>1. WindowEnd(backlog, 0, XferFrames) \in 0..backlog
    BY <1>0, ReadTakes
  <2>2. backlog' \in Nat
    BY <1>0, <1>2, <2>1 DEF Read
  <2>3. lead' \in -Jitter..Jitter /\ stalls' = stalls /\ last' \in Steps
    BY <1>0, <1>2 DEF Read, Steps
  <2>4. QED
    BY <2>2, <2>3 DEF BacklogTypeOK
<1>3. CASE Stall
  <2>1. PICK n \in StallFrames : backlog' = backlog + n
    BY <1>3 DEF Stall
  <2>2. n \in Nat
    BY BacklogAssumption
  <2>3. QED
    BY <1>0, <1>3, <2>1, <2>2 DEF Stall, BacklogTypeOK, Steps
<1>4. CASE UNCHANGED backlogVars
  BY <1>4 DEF backlogVars, BacklogTypeOK
<1>5. QED
  BY <1>1, <1>2, <1>3, <1>4 DEF BacklogNext

\* The variables of the backlog keep their types.
THEOREM BacklogTypes == BacklogSpec => []BacklogTypeOK
<1>1. BacklogInit => BacklogTypeOK
  BY BacklogAssumption DEF BacklogInit, BacklogTypeOK, Steps
<1>2. QED
  BY <1>1, StepTypes, PTL DEF BacklogSpec

----------------------------------------------------------------------------
(* Lossless operation.                                                     *)

\* Until the first stall nothing is dropped, and what is queued is at most the
\* lead of the writer and what shortages have added to it, which the reader's
\* own lead bounds.
LosslessInv ==
  /\ BacklogTypeOK
  /\ stalls = MaxStalls => backlog <= lead + Jitter /\ last # "drop"

\* The jitter of both sides together fits what one read may find queued.
JitterAbsorbed ==
  /\ 2 * Jitter <= XferFrames + TargetBacklog
  /\ 2 * Jitter <= Capacity

\* No step before the first stall drops a frame.
LEMMA StepLossless ==
  ASSUME JitterAbsorbed, LosslessInv, [BacklogNext]_backlogVars
  PROVE  LosslessInv'
<1>0. /\ backlog \in Nat /\ lead \in Int /\ Jitter \in Nat
      /\ -Jitter <= lead /\ lead <= Jitter
      /\ MaxStalls \in Nat /\ stalls \in Nat /\ stalls <= MaxStalls
      /\ CycleFrames \in Nat /\ XferFrames \in Nat
  BY BacklogAssumption DEF LosslessInv, BacklogTypeOK
<1>1. BacklogTypeOK'
  BY StepTypes DEF LosslessInv
<1>2. SUFFICES ASSUME stalls' = MaxStalls
               PROVE  backlog' <= lead' + Jitter /\ last' # "drop"
  BY <1>1 DEF LosslessInv
<1>3. CASE Write
  BY <1>0, <1>2, <1>3 DEF Write, LosslessInv
<1>4. CASE Read
  <2>1. backlog <= lead + Jitter
    BY <1>2, <1>4 DEF Read, LosslessInv
  <2>2. backlog <= XferFrames + TargetBacklog /\ backlog <= Capacity
    BY <1>0, <2>1, BacklogAssumption, WindowAssumption DEF JitterAbsorbed
  <2>3. /\ WindowStart(backlog, 0, XferFrames) = 0
        /\ \/ WindowEnd(backlog, 0, XferFrames) = XferFrames
           \/ WindowEnd(backlog, 0, XferFrames) = backlog
    BY <1>0, <2>2, ReadTakes
  <2>4. last' # "drop"
    BY <1>4, <2>3 DEF Read
  <2>5. backlog' <= lead' + Jitter
    BY <1>0, <1>4, <2>1, <2>3 DEF Read
  <2>6. QED
    BY <2>4, <2>5
<1>5. CASE Stall
  BY <1>0, <1>2, <1>5 DEF Stall
<1>6. CASE UNCHANGED backlogVars
  BY <1>2, <1>6 DEF backlogVars, LosslessInv
<1>7. QED
  BY <1>3, <1>4, <1>5, <1>6 DEF BacklogNext

\* Whatever the sizes: as long as twice the jitter of either side is within a
\* transfer and the target backlog, and within the ring, a bridge that keeps
\* pace never drops a frame (the claim of ring.h for RING_TARGET_BACKLOG).
THEOREM Lossless ==
  ASSUME JitterAbsorbed
  PROVE  BacklogSpec => []NormalOperationLossless
<1>1. BacklogInit => LosslessInv
  BY BacklogAssumption DEF BacklogInit, LosslessInv, BacklogTypeOK, Steps
<1>2. LosslessInv /\ [BacklogNext]_backlogVars => LosslessInv'
  BY StepLossless
<1>3. LosslessInv => NormalOperationLossless
  BY BacklogAssumption DEF LosslessInv, NormalOperationLossless, BacklogTypeOK
<1>4. QED
  BY <1>1, <1>2, <1>3, PTL DEF BacklogSpec
====
