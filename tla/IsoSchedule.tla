---- MODULE IsoSchedule ----
(***************************************************************************)
(* The bus frames of one direction's isochronous transfers (the submission *)
(* and completion callbacks of src/bridge.c): which frames of 1 ms a       *)
(* queued transfer claims while the bridge thread, on which the callbacks  *)
(* run, is held off, while transfers fail and while submissions are        *)
(* refused, in any order and as often as it may be.                        *)
(*                                                                         *)
(* Frames are counted from the one the bus is in, which is frame 0; a      *)
(* transfer whose last frame is past has completed, and its callback runs  *)
(* when the thread next polls.  What transfers carry, stopping and         *)
(* unplugging are left to IsoTransfers.                                    *)
(***************************************************************************)
EXTENDS Integers, SequencesExt

CONSTANTS
  NumXfers,   \* NUM_XFERS
  AudioPkts,  \* AUDIO_PKTS, frames per transfer
  LeadFrames, \* ISO_LEAD_FRAMES
  AbortPoll,  \* the 0.02 s for which the thread polls after AbortPipe
  DrainFrames,\* the 0.3 s for which run_session polls after streaming
  Tolerated,  \* wait for a callback that counts as a disturbance
  MaxHold,    \* bound: the longest a completion waits for its callback
  MaxFailed,  \* bound: transfers that fail or whose frame is refused
  MaxLost     \* bound: transfers whose second submission is refused too

ASSUME ScheduleAssumption ==
  /\ {NumXfers, AudioPkts, LeadFrames} \subseteq Nat \ {0}
  /\ {AbortPoll, DrainFrames, Tolerated, MaxHold, MaxFailed, MaxLost} \subseteq Nat

VARIABLES
  dir,      \* "out" or "in"; never changes
  starts,   \* first frame of each transfer whose callback has not run, in the
            \* order of their submission
  next,     \* next_out_frame or next_in_frame, 0 once it is no future frame
  begun,    \* history: a frame has carried a transfer
  failed,   \* history: transfers that failed or whose frame was refused
  lost,     \* history: transfers that were refused twice
  late,     \* history: a callback has waited Tolerated frames
  since,    \* history: how many of starts were submitted since the schedule
            \* was last rebased for another reason than being past
  gap       \* history: consecutive frames without a transfer, once begun

history == <<begun, failed, lost, late, since, gap>>
vars    == <<dir, starts, next, history>>

\* Frame 0 belongs to a transfer.
Covered(s) == \E i \in DOMAIN s : s[i] <= 0 /\ 0 < s[i] + AudioPkts

\* How long a transfer has been complete; negative while it is not.
Waited(start) == -(start + AudioPkts)

----------------------------------------------------------------------------
\* The first loop over the transfers leaves one out.
QueuedButOne(first) ==
  [i \in 1..(NumXfers - 1) |-> first + (i - 1) * AudioPkts]

Queued(first) == [i \in 1..NumXfers |-> first + (i - 1) * AudioPkts]

\* Playback begins behind the frames of the capture transfers.
StartPlayback ==
  LET first == LeadFrames + NumXfers * AudioPkts
  IN  /\ dir = "out"
      /\ starts = Queued(first)
      /\ next = first + NumXfers * AudioPkts
      /\ since = NumXfers

\* Capture is queued twice: the aborted completions, which AbortPipe makes at
\* once, each rebase next_in_frame and submit their transfer; then the loop
\* submits every transfer from one frame on; at last next_in_frame is set to a
\* frame that lies among those already claimed.
StartCapture ==
  /\ dir = "in"
  /\ \E aborted \in 0..NumXfers, poll \in 0..AbortPoll, ago \in 0..AudioPkts :
       starts = [i \in 1..aborted |-> LeadFrames - poll - ago]
                  \o Queued(LeadFrames - ago)
  /\ next = LeadFrames
  /\ since = 0

Init ==
  /\ StartPlayback \/ StartCapture
  /\ begun = FALSE
  /\ failed = 0
  /\ lost = 0
  /\ late = FALSE
  /\ gap = 0

\* The bus goes on to its next frame; callbacks that are due wait.
Frame ==
  /\ \A i \in DOMAIN starts : Waited(starts[i]) < MaxHold
  /\ starts' = [i \in DOMAIN starts |-> starts[i] - 1]
  /\ next' = IF next > 0 THEN next - 1 ELSE 0
  /\ begun' = (begun \/ Covered(starts'))
  /\ late' = (late \/ \E i \in DOMAIN starts : Waited(starts'[i]) >= Tolerated)
  /\ gap' = IF begun' /\ ~Covered(starts') THEN gap + 1 ELSE 0
  /\ UNCHANGED <<dir, failed, lost, since>>

\* Transfer i is due: it completed, and no other completed before it.
Due(i) ==
  /\ Waited(starts[i]) >= 0
  /\ \A j \in DOMAIN starts :
       starts[i] < starts[j] \/ (starts[i] = starts[j] /\ i <= j)

\* A transfer that missed its frame is given up.
SubmitOnce(i, frame) ==
  IF frame > 0
  THEN starts' = Append(RemoveAt(starts, i), frame) /\ next' = frame + AudioPkts
  ELSE starts' = RemoveAt(starts, i) /\ next' = frame

\* The submission that succeeds at the second try does not move the schedule on.
SubmitInPlace(i, frame) ==
  LET f == IF frame > 0 THEN frame ELSE LeadFrames
  IN  /\ starts' = Append(RemoveAt(starts, i), f)
      /\ next' = IF frame > 0 THEN f + AudioPkts ELSE f

\* The lead is kept to whatever was queued before.
SubmitBehind(i, frame) ==
  LET f == frame + LeadFrames
  IN  starts' = Append(RemoveAt(starts, i), f) /\ next' = f + AudioPkts

\* The callback of transfer i submits it again; a frame that is not in the
\* future is refused and the schedule rebased.
Submit(i, frame) ==
  LET f == IF frame > 0 THEN frame ELSE LeadFrames
  IN  starts' = Append(RemoveAt(starts, i), f) /\ next' = f + AudioPkts

\* Of the queued transfers, those submitted since the last rebase are the last.
Sequenced(i) == i > Len(starts) - since

Succeeded ==
  /\ \E i \in DOMAIN starts :
       /\ Due(i)
       /\ Submit(i, next)
       /\ since' = IF Sequenced(i) THEN since ELSE since + 1
  /\ UNCHANGED <<dir, begun, failed, lost, late, gap>>

\* A transfer that failed, or whose frame is refused though it lies in the
\* future, rebases the schedule, wherever its end lies.
Failed ==
  /\ failed < MaxFailed
  /\ \E i \in DOMAIN starts : Due(i) /\ Submit(i, LeadFrames)
  /\ since' = 1
  /\ failed' = failed + 1
  /\ UNCHANGED <<dir, begun, lost, late, gap>>

\* A transfer that is refused at the rebased frame as well is gone.
Lost ==
  /\ lost < MaxLost
  /\ \E i \in DOMAIN starts : Due(i) /\ starts' = RemoveAt(starts, i)
  /\ next' = LeadFrames
  /\ since' = 0
  /\ lost' = lost + 1
  /\ UNCHANGED <<dir, begun, failed, late, gap>>

Next == Frame \/ Succeeded \/ Failed \/ Lost

Spec == Init /\ [][Next]_vars

----------------------------------------------------------------------------
(* Properties.                                                             *)

TypeOK ==
  /\ dir \in {"out", "in"}
  /\ starts \in Seq(Int)
  /\ {next, gap, failed, lost} \subseteq Nat
  /\ {begun, late} \subseteq BOOLEAN
  /\ since \in 0..Len(starts)

\* The transfers submitted since the last failure or refusal claim frames of
\* their own, in the order in which their samples were taken, also when the
\* thread was held off until the schedule lay in the past: once failures stop,
\* a queue of callbacks later no bus frame is claimed twice.
OneTransferPerFrame ==
  \A i, j \in DOMAIN starts :
    (i < j /\ Sequenced(i)) => starts[i] + AudioPkts <= starts[j]

\* "How long the bridge thread can be held off before the dongle runs dry":
\* while no callback has waited Tolerated frames and no transfer has failed or
\* been refused, every bus frame carries playback once the first one has.
NeverDry ==
  (dir = "out" /\ begun /\ ~late /\ failed = 0 /\ lost = 0) => Covered(starts)

\* Silence ends: however often transfers failed, in whatever order, the bus
\* carries audio again within the lead and one hold of the thread, as long as
\* one transfer is left that was not refused twice.
GapBounded == lost < NumXfers => gap <= LeadFrames + MaxHold

\* Whenever streaming ends, and whatever failed before, the polling that follows
\* outlasts every transfer still queued, those of the doubled capture queue
\* included, and a hold of the thread: a completion comes before its buffer is
\* freed.
DrainOutlastsQueue ==
  \A i \in DOMAIN starts : starts[i] + AudioPkts + MaxHold <= DrainFrames
====
