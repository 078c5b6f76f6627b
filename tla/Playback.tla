---- MODULE Playback ----
(***************************************************************************)
(* The playback direction end to end: the ring channel with the plug-in as *)
(* its writer, and fill_out_xfer (src/bridge.c) as its reader.  Around     *)
(* every ring_out_read the bridge works out whether the audio it is about  *)
(* to send continues what it sent last, fades the join if not, and counts  *)
(* the transfer as an underrun if it came up short.  The plug-in's process *)
(* may start, stop and die at any point in between.                        *)
(***************************************************************************)
EXTENDS RingChannel

VARIABLES
  fPc,         \* the transfer being filled: next step of fill_out_xfer
  before,      \* the reader's counter before the read
  fFrom, fGot, \* what the read returned: its first frame, and how many
  prevShort,   \* prev_short: the previous transfer ended in silence
  ioRunning,   \* the ring's out_io_running
  heardTo,     \* history: the frame that would continue the last transfer
  moved,       \* history: StartIO moved the counter since the last read ended
  movedBefore, \* history: ... between the two reads before that
  ioRan,       \* history: the plug-in's I/O ran at some time since the
               \* transfer began
  join,        \* history: how the last transfer joined the one before
  miscounted   \* history: an underrun was counted while no I/O was running

fillVars == <<fPc, before, fFrom, fGot, prevShort, heardTo, join, miscounted>>
histVars == <<moved, movedBefore>>
pvars    == <<vars, fillVars, ioRunning, histVars, ioRan>>

FillTypeOK ==
  /\ TypeOK
  /\ fPc \in {"idle", "read", "conceal", "account"}
  /\ before \in Nat /\ fFrom \in Nat /\ fGot \in Nat
  /\ heardTo \in Nat \cup {None}
  /\ {prevShort, ioRunning, moved, movedBefore, ioRan, miscounted}
       \subseteq BOOLEAN
  /\ join \in {"none", "smooth", "faded", "click"}

FillFrames == CHOOSE n \in ReadSizes : TRUE   \* OUT_XFER_FRAMES

FillBegin ==
  /\ fPc = "idle"
  /\ fPc' = "read"
  /\ before' = readFrames
  /\ ioRan' = halIO
  /\ UNCHANGED <<vars, fFrom, fGot, prevShort, ioRunning, heardTo, histVars,
                 join, miscounted>>

FillRead ==
  /\ fPc = "read"
  /\ ReadBegin \/ ReadWindow \/ ReadFrame
  /\ UNCHANGED <<fillVars, ioRunning, histVars, ioRan>>

FillReadDone ==
  /\ fPc = "read"
  /\ ReadPublish
  /\ fPc' = "conceal"
  /\ fFrom' = rFrom
  /\ fGot' = rTo - rFrom
  /\ movedBefore' = moved
  /\ moved' = FALSE
  /\ UNCHANGED <<before, prevShort, ioRunning, heardTo, ioRan, join,
                 miscounted>>

Skipped == readFrames # before + fGot

Continues == ~prevShort /\ heardTo \in {None, fFrom}

JoinOf(faded) ==
  IF fGot = 0 THEN "none"
  ELSE IF Continues THEN "smooth"
  ELSE IF faded THEN "faded" ELSE "click"

ConcealWith(faded) ==
  /\ fPc = "conceal"
  /\ fPc' = "account"
  /\ join' = JoinOf(faded)
  /\ prevShort' = (fGot < FillFrames)
  /\ heardTo' = IF fGot = 0 THEN heardTo ELSE fFrom + fGot
  /\ UNCHANGED <<vars, before, fFrom, fGot, ioRunning, histVars, ioRan,
                 miscounted>>

\* Only a jump of the counter is faded, not the end of a silence.
FillConcealJumpsOnly == ConcealWith(fGot > 0 /\ Skipped)

\* The two declick decisions of fill_out_xfer; the counter is read again.
FillConceal == ConcealWith(fGot > 0 /\ (Skipped \/ prevShort))

\* The underrun count, and the transfer is ready.
FillAccount ==
  /\ fPc = "account"
  /\ fPc' = "idle"
  /\ miscounted' = (miscounted \/ (fGot < FillFrames /\ ioRunning /\ ~ioRan))
  /\ before' = 0 /\ fFrom' = 0 /\ fGot' = 0
  /\ UNCHANGED <<vars, prevShort, ioRunning, heardTo, histVars, ioRan, join>>

----------------------------------------------------------------------------
(* The plug-in's side, with the flag the bridge reads.                     *)

PlugInStart ==
  \/ /\ StartIOLoad
     /\ UNCHANGED <<fillVars, ioRunning, histVars, ioRan>>
  \/ /\ StartIOStore
     /\ ioRunning' = TRUE
     /\ moved' = TRUE
     /\ ioRan' = TRUE
     /\ UNCHANGED <<fillVars, movedBefore>>

PlugInStop ==
  /\ StopIO
  /\ ioRunning' = FALSE
  /\ UNCHANGED <<fillVars, histVars, ioRan>>

PlugInWrite == Writer /\ UNCHANGED <<fillVars, ioRunning, histVars, ioRan>>

\* Nobody clears the flag of a coreaudiod that died with its I/O running.
CoreaudiodDies ==
  CoreaudiodRestart /\ UNCHANGED <<fillVars, ioRunning, histVars, ioRan>>

\* A new bridge process has sent nothing yet.
BridgeDies ==
  /\ BridgeRestart \/ (ReaderIdle /\ UNCHANGED vars)
  /\ fPc' = "idle"
  /\ before' = 0 /\ fFrom' = 0 /\ fGot' = 0
  /\ prevShort' = FALSE
  /\ heardTo' = None
  /\ join' = "none"
  /\ moved' = FALSE /\ movedBefore' = FALSE
  /\ UNCHANGED <<ioRunning, ioRan, miscounted>>

FillInit ==
  /\ Init
  /\ fPc = "idle"
  /\ before = 0 /\ fFrom = 0 /\ fGot = 0
  /\ prevShort = FALSE
  /\ ioRunning = FALSE
  /\ heardTo = None
  /\ moved = FALSE /\ movedBefore = FALSE
  /\ ioRan = FALSE /\ miscounted = FALSE
  /\ join = "none"

Fill == FillBegin \/ FillRead \/ FillReadDone \/ FillConceal \/ FillAccount

FillNext ==
  \/ Fill
  \/ PlugInStart \/ PlugInStop \/ PlugInWrite
  \/ CoreaudiodDies \/ BridgeDies

FillSpec == FillInit /\ [][FillNext]_pvars

----------------------------------------------------------------------------
(* Properties.                                                             *)

\* Wherever the stream the headset hears jumps (a trim, a lapped ring, the end
\* of a silence), fill_out_xfer fades the join, unless StartIO moved the
\* counter since the previous transfer was read.
JoinsConcealed ==
  [][(fPc = "conceal" /\ fPc' = "account" /\ join' = "click")
      => moved \/ movedBefore]_pvars

\* fill_out_xfer's own claim: every hard step is faded, because "this is the
\* sole reader, so the pointer moves only by what this call did".
NoClick == join # "click"

\* fill_out_xfer's own claim: "only a short read while the HAL is actually
\* running IO is starvation", so an idle device counts no underruns.
UnderrunsAreStarvation == ~miscounted
====
