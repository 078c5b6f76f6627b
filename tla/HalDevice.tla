---- MODULE HalDevice ----
(***************************************************************************)
(* The virtual device at work (src/plugin/XboxHeadset.c): its clock, which *)
(* the HAL asks for while clients come and go, and its two controls, which *)
(* some threads set while others read them and the IO thread applies them  *)
(* without the lock.  The ring is left to RingMapping and RingChannel.     *)
(***************************************************************************)
EXTENDS HalObjects

CONSTANTS
  MaxVolume, \* steps of gVolumeScalar from silence to full volume
  Listeners, \* who shows a control, named for the value they watch
  Period,    \* kZeroTimeStampPeriod
  Often,     \* the longest the HAL leaves the clock alone, pauses apart
  MaxPause,  \* bound: the longest pause
  MaxPauses, \* bound on the pauses
  MaxClients,\* bound on the clients that do IO
  MaxCalls   \* bound on the calls per control that set it at once

ASSUME HalAssumption ==
  /\ {MaxVolume, Period, Often, MaxClients, MaxCalls} \subseteq Nat \ {0}
  /\ {MaxPause, MaxPauses} \subseteq Nat
  /\ Often <= Period
  /\ Listeners \subseteq Values

VARIABLES
  gVolumeScalar, gMuted, gIOCount,
  lag,    \* age of the zero time stamp returned last
  since,  \* how long ago the HAL asked for it, or the clock was started
  pauses, \* history: how often the HAL paused
  calls,  \* calls[o]: calls that have set o and not reported the change
  told,   \* listeners told of a change that have not read it
  shown,  \* what each listener shows
  block,  \* volume the IO thread has read for a block, with gMuted then; or <<>>
  gain    \* gain of the last block

controls == <<gVolumeScalar, gMuted, calls, told, shown>>
clock    == <<lag, since, pauses>>
applied  == <<block, gain>>
vars     == <<controls, clock, gIOCount, applied>>

----------------------------------------------------------------------------
(* The taper: silence to full volume is a linear range of decibels.        *)

Clamp(v) == IF v < 0 THEN 0 ELSE IF v > MaxVolume THEN MaxVolume ELSE v

ScalarToDB(v) == Clamp(v) - MaxVolume
DBToScalar(d) == Clamp(d + MaxVolume)

\* Silence is a true zero.
VolumeGain(v, m) == IF m \/ v = 0 THEN 0 ELSE v

\* What GetControlProperty returns.
ControlValue(p, v, m) ==
  CASE p = "scalar" -> v [] p = "decibel" -> ScalarToDB(v) [] p = "boolean" -> m

\* The values a caller may pass, out of range ones included.
Inputs(p) ==
  CASE p = "scalar"  -> -1..(MaxVolume + 1)
    [] p = "decibel" -> (-MaxVolume - 1)..1
    [] p = "boolean" -> BOOLEAN

Init ==
  /\ gVolumeScalar = MaxVolume
  /\ gMuted = FALSE
  /\ gIOCount = 0
  /\ lag = 0 /\ since = 0 /\ pauses = 0
  /\ calls = [o \in Controls |-> 0]
  /\ told = {}
  /\ shown = [l \in Listeners |-> ControlValue(l, MaxVolume, FALSE)]
  /\ block = << >>
  /\ gain = MaxVolume

----------------------------------------------------------------------------
(* The clock.                                                              *)

\* Every client that starts IO restarts the clock.
StartIOAnew ==
  /\ gIOCount < MaxClients
  /\ gIOCount' = gIOCount + 1
  /\ lag' = 0 /\ since' = 0
  /\ UNCHANGED <<controls, pauses, applied>>

\* The first client starts the clock.
StartIO ==
  /\ gIOCount < MaxClients
  /\ gIOCount' = gIOCount + 1
  /\ IF gIOCount = 0 THEN lag' = 0 /\ since' = 0 ELSE UNCHANGED <<lag, since>>
  /\ UNCHANGED <<controls, pauses, applied>>

\* The HAL stops a client between two blocks.
StopIO ==
  /\ gIOCount > 0
  /\ block = << >>
  /\ gIOCount' = gIOCount - 1
  /\ UNCHANGED <<controls, clock, applied>>

\* Time passes, with a pause once the HAL has left the clock alone too long.
Tick ==
  /\ gIOCount > 0
  /\ since < Often \/ (since < MaxPause /\ (since > Often \/ pauses < MaxPauses))
  /\ lag' = lag + 1
  /\ since' = since + 1
  /\ pauses' = IF since = Often THEN pauses + 1 ELSE pauses
  /\ UNCHANGED <<controls, gIOCount, applied>>

\* The next period is only looked at if it has long begun.
ZeroTimeStampLate ==
  /\ gIOCount > 0
  /\ lag' = IF lag > Period THEN lag - Period ELSE lag
  /\ since' = 0
  /\ UNCHANGED <<controls, pauses, gIOCount, applied>>

\* One period at most is caught up with by a call.
GetZeroTimeStamp ==
  /\ gIOCount > 0
  /\ lag' = IF lag >= Period THEN lag - Period ELSE lag
  /\ since' = 0
  /\ UNCHANGED <<controls, pauses, gIOCount, applied>>

----------------------------------------------------------------------------
(* The controls.                                                           *)

\* SetPropertyData under the lock.
SetValue(p, v) ==
  /\ calls[Target(p)] < MaxCalls
  /\ IF p = "boolean"
     THEN gMuted' = v /\ UNCHANGED gVolumeScalar
     ELSE /\ gVolumeScalar' = IF p = "scalar" THEN Clamp(v) ELSE DBToScalar(v)
          /\ UNCHANGED gMuted
  /\ calls' = [calls EXCEPT ![Target(p)] = @ + 1]
  /\ UNCHANGED <<told, shown, clock, gIOCount, applied>>

\* SetPropertyData after the lock: PropertiesChanged.
Report(o) ==
  /\ calls[o] > 0
  /\ calls' = [calls EXCEPT ![o] = @ - 1]
  /\ told' = told \cup (Changed(o) \cap Listeners)
  /\ UNCHANGED <<gVolumeScalar, gMuted, shown, clock, gIOCount, applied>>

\* GetPropertyData, for a listener.
ListenerReads(l) ==
  /\ l \in told
  /\ told' = told \ {l}
  /\ shown' = [shown EXCEPT ![l] = ControlValue(l, gVolumeScalar, gMuted)]
  /\ UNCHANGED <<gVolumeScalar, gMuted, calls, clock, gIOCount, applied>>

\* DoIOOperation for a block: VolumeGain reads the volume, and then the mute.
BeginBlock ==
  /\ gIOCount > 0
  /\ block = << >>
  /\ block' = <<gVolumeScalar, gMuted>>
  /\ UNCHANGED <<controls, clock, gIOCount, gain>>

ApplyGain ==
  /\ block # << >>
  /\ gain' = VolumeGain(block[1], gMuted)
  /\ block' = << >>
  /\ UNCHANGED <<controls, clock, gIOCount>>

----------------------------------------------------------------------------
SetPropertyData == \E p \in Values : \E v \in Inputs(p) : SetValue(p, v)

Next ==
  \/ StartIO \/ StopIO \/ Tick \/ GetZeroTimeStamp
  \/ SetPropertyData
  \/ \E o \in Controls : Report(o)
  \/ \E l \in Listeners : ListenerReads(l)
  \/ BeginBlock \/ ApplyGain

\* Time passes, the HAL asks for the clock and runs its IO cycles while a client
\* does IO, a call of SetPropertyData ends, and a listener reads what changed.
Spec ==
  /\ Init /\ [][Next]_vars
  /\ WF_vars(Tick) /\ WF_vars(GetZeroTimeStamp)
  /\ WF_vars(BeginBlock) /\ WF_vars(ApplyGain)
  /\ \A o \in Controls : WF_vars(Report(o))
  /\ \A l \in Listeners : WF_vars(ListenerReads(l))

----------------------------------------------------------------------------
(* Properties.                                                             *)

TypeOK ==
  /\ gVolumeScalar \in 0..MaxVolume /\ gain \in 0..MaxVolume
  /\ gMuted \in BOOLEAN
  /\ gIOCount \in 0..MaxClients
  /\ {lag, since, pauses} \subseteq Nat
  /\ calls \in [Controls -> 0..MaxCalls]
  /\ told \subseteq Listeners
  /\ block \in {<< >>} \cup ((0..MaxVolume) \X BOOLEAN)

\* The zero time stamp the HAL gets is never in the future, and it is the latest
\* one while the HAL asks once a period at least.
ClockInTime ==
  /\ lag >= since
  /\ pauses = 0 => lag - since < Period

\* Clients share one time line: while any of them does IO, a time stamp follows
\* the one before it by a period, whoever starts or stops meanwhile.
TimeLineKept ==
  [][(gIOCount > 0 /\ gIOCount' > 0 /\ lag' < lag) => lag - lag' = Period]_vars

\* After a pause of several periods the clock catches up, though each call makes
\* good one period only.
ClockCatchesUp ==
  <>[](gIOCount > 0) => <>[](lag - since < Period)

\* Whatever threads set the controls, and in whatever order they report it, in
\* the end every listener shows what was set last and blocks are scaled by it.
ControlsTakeEffect ==
  \A v \in 0..MaxVolume, m \in BOOLEAN :
    <>[](gVolumeScalar = v /\ gMuted = m /\ gIOCount > 0)
      => <>[](/\ gain = VolumeGain(v, m)
              /\ \A l \in Listeners : shown[l] = ControlValue(l, v, m))

\* "A torn read would at worst apply one stale block's gain": a block is scaled
\* by the gain of before or of after the change it overlaps.
GainWasSet ==
  [][block # << >> /\ block' = << >> =>
       gain' \in {VolumeGain(block[1], block[2]), VolumeGain(gVolumeScalar, gMuted)}]_vars
====
