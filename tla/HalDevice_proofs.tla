---- MODULE HalDevice_proofs ----
(***************************************************************************)
(* What holds of the virtual device for every period, pause and number of  *)
(* clients, and of the objects it publishes.                               *)
(***************************************************************************)
EXTENDS HalDevice, TLAPS

\* The device's objects form one tree, whichever way the HAL walks it: from an
\* object to its owner, or down the owned objects, all of which it finds in one
\* scope or the other.  Streams, which do not answer for the objects they own,
\* own none, and are not listed with the controls.
THEOREM ObjectTree ==
  /\ \A o \in Objects \ Streams, x \in Objects :
       x \in Owned(o, "Global") <=> Owner(x) = o
  /\ \A x \in Objects : Owner(x) \notin Streams
  /\ Owned("Device", "Global") = Owned("Device", "Input") \cup Owned("Device", "Output")
  /\ Owned("Device", "Input") \cap Owned("Device", "Output") = {}
  /\ StreamList("Global") \cap ControlList = {}
<1>1. ASSUME NEW o \in Objects \ Streams, NEW x \in Objects
      PROVE  x \in Owned(o, "Global") <=> Owner(x) = o
  <2>1. CASE o = "PlugIn"
    BY <2>1 DEF Objects, Streams, Controls, Owned, Owner
  <2>2. CASE o = "Device"
    BY <2>2 DEF Objects, Streams, Controls, Owned, Owner, StreamList, ControlList
  <2>3. CASE o \notin {"PlugIn", "Device"}
    BY <2>3 DEF Objects, Streams, Controls, Owned, Owner
  <2> QED BY <2>1, <2>2, <2>3
<1>2. /\ Owned("Device", "Global") = Owned("Device", "Input") \cup Owned("Device", "Output")
      /\ Owned("Device", "Input") \cap Owned("Device", "Output") = {}
      /\ StreamList("Global") \cap ControlList = {}
  BY DEF Owned, StreamList, ControlList
<1>3. \A x \in Objects : Owner(x) \notin Streams
  BY DEF Owner, Streams
<1> QED BY <1>1, <1>2, <1>3

\* The HAL is told that it may set a value of a control exactly if a call that
\* sets it is accepted, and a call reports the value it set, and values that
\* can be read: "the HAL refuses to call SetPropertyData unless we say so".
THEOREM SettableIsAccepted ==
  \A o \in Objects, p \in Values :
    /\ Settable(o, p) <=> o = Target(p)
    /\ p \in Changed(Target(p))
    /\ o \in Controls => Changed(o) \subseteq Readable(o)
<1> SUFFICES ASSUME NEW o \in Objects, NEW p \in Values
             PROVE  /\ Settable(o, p) <=> o = Target(p)
                    /\ p \in Changed(Target(p))
                    /\ o \in Controls => Changed(o) \subseteq Readable(o)
  OBVIOUS
<1>1. Settable(o, p) <=> o = Target(p)
  BY DEF Objects, Streams, Controls, Values, Settable, Readable, Target
<1>2. p \in Changed(Target(p))
  BY DEF Values, Changed, Target
<1>3. o \in Controls => Changed(o) \subseteq Readable(o)
  BY DEF Controls, Changed, Readable
<1> QED BY <1>1, <1>2, <1>3

----------------------------------------------------------------------------
(* The clock.                                                              *)

ClockInv ==
  /\ lag \in Nat /\ since \in Nat /\ pauses \in Nat
  /\ since <= lag
  /\ pauses = 0 => lag - since < Period /\ since <= Often

LEMMA ClockStep == ClockInv /\ [Next]_vars => ClockInv'
<1> SUFFICES ASSUME ClockInv, [Next]_vars PROVE ClockInv'
  OBVIOUS
<1> USE DEF ClockInv
<1>0. Period \in Nat \ {0} /\ Often \in Nat \ {0} /\ Often <= Period
  BY HalAssumption
<1>1. CASE StartIO
  BY <1>0, <1>1 DEF StartIO, clock
<1>2. CASE Tick
  BY <1>0, <1>2 DEF Tick
<1>3. CASE GetZeroTimeStamp
  BY <1>0, <1>3 DEF GetZeroTimeStamp
<1>4. CASE UNCHANGED clock
  BY <1>4 DEF clock
<1>5. ASSUME Next \/ UNCHANGED vars, ~StartIO, ~Tick, ~GetZeroTimeStamp
      PROVE  UNCHANGED clock
  BY <1>5 DEF Next, StopIO, SetPropertyData, SetValue, Report, ListenerReads,
              BeginBlock, ApplyGain, vars
<1> QED BY <1>1, <1>2, <1>3, <1>4, <1>5

LEMMA ClockInit == Init => ClockInv
BY HalAssumption DEF Init, ClockInv

\* The zero time stamp is never in the future, and it is the latest one unless
\* the HAL has left the clock alone for longer than a period.
THEOREM ClockInTimeTheorem == Spec => []ClockInTime
<1>1. ClockInv => ClockInTime
  BY DEF ClockInv, ClockInTime
<1> QED BY <1>1, ClockInit, ClockStep, PTL DEF Spec

\* No client moves the time line of another.
THEOREM TimeLineTheorem == Spec => TimeLineKept
<1>1. ClockInv /\ [Next]_vars =>
        [(gIOCount > 0 /\ gIOCount' > 0 /\ lag' < lag) => lag - lag' = Period]_vars
  <2> SUFFICES ASSUME ClockInv, [Next]_vars, gIOCount > 0, lag' < lag
               PROVE  lag - lag' = Period
    OBVIOUS
  <2>0. lag \in Nat /\ Period \in Nat
    BY HalAssumption DEF ClockInv
  <2>1. CASE StartIO
    BY <2>0, <2>1 DEF StartIO
  <2>2. CASE Tick
    BY <2>0, <2>2 DEF Tick
  <2>3. CASE GetZeroTimeStamp
    BY <2>0, <2>3 DEF GetZeroTimeStamp
  <2>4. CASE UNCHANGED clock
    BY <2>0, <2>4 DEF clock
  <2>5. ASSUME Next \/ UNCHANGED vars, ~StartIO, ~Tick, ~GetZeroTimeStamp
        PROVE  UNCHANGED clock
    BY <2>5 DEF Next, StopIO, SetPropertyData, SetValue, Report, ListenerReads,
                BeginBlock, ApplyGain, vars
  <2> QED BY <2>1, <2>2, <2>3, <2>4, <2>5
<1> QED BY <1>1, ClockInit, ClockStep, PTL DEF Spec, TimeLineKept

----------------------------------------------------------------------------
(* The controls.                                                           *)

\* Whatever a caller passes, the volume stored is one of the scale.
LEMMA StoredVolume ==
  ASSUME NEW p \in Values, NEW v \in Inputs(p), p # "boolean"
  PROVE  (IF p = "scalar" THEN Clamp(v) ELSE DBToScalar(v)) \in 0..MaxVolume
<1>1. MaxVolume \in Nat
  BY HalAssumption
<1>2. v \in Int
  BY <1>1 DEF Values, Inputs
<1> QED BY <1>1, <1>2 DEF Clamp, DBToScalar

LEMMA TypeStep == TypeOK /\ [Next]_vars => TypeOK'
<1> SUFFICES ASSUME TypeOK, [Next]_vars PROVE TypeOK'
  OBVIOUS
<1>0. MaxVolume \in Nat /\ Period \in Nat /\ MaxClients \in Nat /\ MaxCalls \in Nat
  BY HalAssumption
<1>1. CASE StartIO
  BY <1>0, <1>1 DEF TypeOK, StartIO, controls, applied
<1>2. CASE StopIO
  BY <1>0, <1>2 DEF TypeOK, StopIO, controls, clock, applied
<1>3. CASE Tick
  BY <1>0, <1>3 DEF TypeOK, Tick, controls, applied
<1>4. CASE GetZeroTimeStamp
  BY <1>0, <1>4 DEF TypeOK, GetZeroTimeStamp, controls, applied
<1>5. CASE SetPropertyData
  <2>0. PICK p \in Values : \E v \in Inputs(p) : SetValue(p, v)
    BY <1>5 DEF SetPropertyData
  <2>1. PICK v \in Inputs(p) : SetValue(p, v)
    BY <2>0
  <2>2. gMuted' \in BOOLEAN
    <3>1. CASE p = "boolean"
      BY <2>1, <3>1 DEF SetValue, Inputs
    <3>2. CASE p # "boolean"
      BY <2>1, <3>2 DEF SetValue, TypeOK
    <3> QED BY <3>1, <3>2
  <2>3. gVolumeScalar' \in 0..MaxVolume
    <3>1. CASE p = "boolean"
      BY <2>1, <3>1 DEF SetValue, TypeOK
    <3>2. CASE p # "boolean"
      BY <2>1, <3>2, StoredVolume DEF SetValue
    <3> QED BY <3>1, <3>2
  <2>4. calls' \in [Controls -> 0..MaxCalls]
    BY <1>0, <2>1 DEF SetValue, TypeOK, Target, Controls
  <2> QED BY <2>1, <2>2, <2>3, <2>4 DEF SetValue, TypeOK, clock, applied
<1>6. ASSUME NEW o \in Controls, Report(o) PROVE TypeOK'
  BY <1>0, <1>6 DEF TypeOK, Report, clock, applied
<1>7. ASSUME NEW l \in Listeners, ListenerReads(l) PROVE TypeOK'
  BY <1>7 DEF TypeOK, ListenerReads, clock, applied
<1>8. CASE BeginBlock
  BY <1>8 DEF TypeOK, BeginBlock, controls, clock
<1>9. CASE ApplyGain
  <2>1. block[1] \in 0..MaxVolume
    BY <1>9 DEF TypeOK, ApplyGain
  <2> QED BY <1>0, <1>9, <2>1 DEF TypeOK, ApplyGain, VolumeGain, controls, clock
<1>10. CASE UNCHANGED vars
  BY <1>10 DEF TypeOK, vars, controls, clock, applied
<1> QED BY <1>1, <1>2, <1>3, <1>4, <1>5, <1>6, <1>7, <1>8, <1>9, <1>10 DEF Next

\* The variables of the device keep their types; a volume out of range, and a
\* decibel value out of the taper's range, never get into them.
THEOREM HalTypes == Spec => []TypeOK
<1>1. ASSUME Init PROVE TypeOK
  <2>0. MaxVolume \in Nat /\ MaxClients \in Nat /\ MaxCalls \in Nat
    BY HalAssumption
  <2>1. gMuted \in BOOLEAN
    BY <1>1 DEF Init
  <2>2. gVolumeScalar \in 0..MaxVolume /\ gain \in 0..MaxVolume /\ gIOCount \in 0..MaxClients
    BY <1>1, <2>0 DEF Init
  <2>3. calls \in [Controls -> 0..MaxCalls]
    BY <1>1, <2>0 DEF Init
  <2>4. lag = 0 /\ since = 0 /\ pauses = 0 /\ told = {} /\ block = << >>
    BY <1>1 DEF Init
  <2> QED BY <2>1, <2>2, <2>3, <2>4 DEF TypeOK
<1> QED BY <1>1, TypeStep, PTL DEF Spec
====
