---- MODULE BridgeRun_proofs ----
(***************************************************************************)
(* What BridgeRun keeps for every bound on the resets counted: its types,  *)
(* the one reset between two sessions, the honesty of device_online after  *)
(* a retry, and the delays that only grow for a headset that is asleep.    *)
(***************************************************************************)
EXTENDS BridgeRun, TLAPS

\* The table of delays: five of them, in increasing order.
LEMMA Delays ==
  /\ Len(BackoffSecs) = 5
  /\ DOMAIN BackoffSecs = 1..5
  /\ \A i \in 1..5 : BackoffSecs[i] \in {2, 4, 8, 15, 30}
  /\ \A i, j \in 1..5 : i <= j => BackoffSecs[i] <= BackoffSecs[j]
  BY DEF BackoffSecs

----------------------------------------------------------------------------
\* A fresh process, and one whose session streamed, has no reset on its
\* account; with every open successful a reset is due only then.
ResetInv ==
  /\ phase \in {"launched", "entered", "streaming", "lost"} => resets = 0
  /\ opened => resets <= 1
  /\ opened /\ reenumerate => resets = 0

\* A process has no result before its loop, and from its first result on the
\* delay is the one its counter of attempts stands for.
DelayInv ==
  /\ phase \in {"launched", "entered"} => lastResult = 0
  /\ lastResult # 0 => attempt \in 1..5 /\ wait = BackoffSecs[attempt]

RunInv == TypeOK /\ ResetInv /\ DelayInv /\ OnlineHonestAfterRetry

\* The part of the state that a step of the reconnect loop may change when
\* run_session returns rc.
LEMMA RetryStep ==
  ASSUME RunInv, NEW rc \in 1..2, Retry(rc), opened' \in BOOLEAN,
         rc = 2 /\ opened' => resets = 0,
         opened' => opened
  PROVE  RunInv' /\ (lastResult = 1 /\ rc = 1 => wait' >= wait)
<1> DEFINE a == IF rc = 2 THEN 0 ELSE attempt
<1>1. a \in 0..5 BY Delays DEF RunInv, TypeOK
<1>2. /\ wait' = BackoffSecs[IF a < 5 THEN a + 1 ELSE 5]
      /\ attempt' = (IF a < 5 THEN a + 1 ELSE a)
      /\ reenumerate' = (reenumerate \/ rc = 2)
  BY Delays DEF Retry, NextWait
<1>3. attempt' \in 1..5 /\ wait' = BackoffSecs[attempt']
  BY <1>1, <1>2
<1>4. phase' = "backoff" /\ deviceOnline' = FALSE /\ lastResult' = rc
      /\ stop' = stop /\ device' = device /\ attached' = attached
      /\ handle' = handle
      /\ asked' = asked /\ resets' = resets
  BY DEF Retry, headset
<1>5. TypeOK'
  <2>1. wait' \in {2, 4, 8, 15, 30} BY <1>3, Delays
  <2>2. wait' \in {BackoffSecs[i] : i \in DOMAIN BackoffSecs}
    BY <1>3, Delays
  <2>3. {stop, reenumerate, deviceOnline, attached, handle, asked, opened}'
        \subseteq BOOLEAN
    <3>1. reenumerate' \in BOOLEAN BY <1>2
    <3>2. /\ stop' \in BOOLEAN /\ deviceOnline' \in BOOLEAN
          /\ attached' \in BOOLEAN /\ handle' \in BOOLEAN
          /\ asked' \in BOOLEAN
      BY <1>4 DEF RunInv, TypeOK
    <3> QED BY <3>1, <3>2
  <2>4. phase' \in Phases BY <1>4 DEF Phases
  <2>5. attempt' \in 0..Len(BackoffSecs) BY <1>3, Delays
  <2>6. /\ device' \in {"off", "asleep", "on"}
        /\ resets' \in 0..MaxResets
        /\ lastResult' \in 0..2
    BY <1>4 DEF RunInv, TypeOK
  <2> QED BY <2>2, <2>3, <2>4, <2>5, <2>6 DEF TypeOK
<1>6. ResetInv' BY <1>2, <1>4 DEF RunInv, ResetInv
<1>7. DelayInv' BY <1>3, <1>4 DEF DelayInv
<1>8. OnlineHonestAfterRetry' BY <1>4 DEF OnlineHonestAfterRetry
<1>9. ASSUME lastResult = 1, rc = 1 PROVE wait' >= wait
  <2>1. attempt \in 1..5 /\ wait = BackoffSecs[attempt]
    BY <1>9 DEF RunInv, DelayInv
  <2>2. attempt <= attempt' BY <1>9, <1>1, <1>2, <2>1
  <2>3. BackoffSecs[attempt] <= BackoffSecs[attempt']
    BY <2>1, <2>2, <1>3, Delays
  <2>4. BackoffSecs[attempt] \in Nat /\ BackoffSecs[attempt'] \in Nat
    BY <2>1, <1>3, Delays
  <2> QED BY <2>1, <2>3, <2>4, <1>3
<1> QED BY <1>5, <1>6, <1>7, <1>8, <1>9 DEF RunInv

LEMMA RunInit == Init => RunInv
<1> SUFFICES ASSUME Init PROVE RunInv
  OBVIOUS
<1>1. {stop, reenumerate, deviceOnline, attached, handle, asked, opened}
       \subseteq BOOLEAN
  BY DEF Init
<1>2. resets \in 0..MaxResets BY BridgeRunAssumption DEF Init
<1>3. /\ phase \in Phases /\ attempt \in 0..Len(BackoffSecs) /\ wait = 0
      /\ device \in {"off", "asleep", "on"} /\ lastResult \in 0..2
  BY Delays DEF Init, Phases, Gone
<1>4. ResetInv /\ DelayInv /\ OnlineHonestAfterRetry
  BY DEF Init, ResetInv, DelayInv, OnlineHonestAfterRetry
<1> QED BY <1>1, <1>2, <1>3, <1>4 DEF RunInv, TypeOK

\* Every other step leaves the counters to Launch, MapRing, BeginSession and
\* Stream.
LEMMA OtherStep ==
  ASSUME RunInv,
         \/ Launch \/ EnterBridgeRun \/ MapRing \/ MapRingFails
         \/ BeginSession \/ Open \/ Authenticate \/ Stream \/ Disconnected
         \/ Exit \/ BackoffOver \/ RequestStop \/ Kill \/ Headset
         \/ Reattach \/ UNCHANGED vars
  PROVE  RunInv' /\ (lastResult' = 1 => wait' = wait)
<1> USE Delays, BridgeRunAssumption
    DEF RunInv, TypeOK, ResetInv, DelayInv, OnlineHonestAfterRetry, Phases,
        Gone, thread, history, headset
<1>1. CASE Launch
  <2>1. {stop, reenumerate, deviceOnline, attached, handle, asked, opened}'
        \subseteq BOOLEAN
    BY <1>1 DEF Launch
  <2>2. resets' = 0 /\ wait' = 0 /\ attempt' = 0 /\ lastResult' = 0
        /\ phase' = "launched" /\ device' = device
    BY <1>1 DEF Launch
  <2> QED BY <2>1, <2>2
<1>2. CASE EnterBridgeRun BY <1>2 DEF EnterBridgeRun
<1>3. CASE MapRing BY <1>3 DEF MapRing
<1>4. CASE MapRingFails BY <1>4 DEF MapRingFails
<1>5. CASE BeginSession
  <2>1. /\ phase' = "open" /\ ~reenumerate' /\ reenumerate' \in BOOLEAN
        /\ stop' = stop /\ attempt' = attempt /\ wait' = wait
        /\ deviceOnline' = deviceOnline /\ device' = device /\ handle' = handle
        /\ asked' = asked /\ lastResult' = lastResult /\ opened' = opened
        /\ phase = "loop"
    BY <1>5 DEF BeginSession
  <2>2. CASE ResetPort
    <3>0. resets \in 0..MaxResets /\ MaxResets \in Nat OBVIOUS
    <3>1. resets' \in 0..MaxResets BY ONLY <2>2, <3>0 DEF ResetPort
    <3>3. attached' \in BOOLEAN BY <2>2 DEF ResetPort
    <3>2. opened => resets' <= 1 BY <2>2 DEF ResetPort
    <3> QED BY <2>1, <3>1, <3>2, <3>3
  <2>3. CASE NoReset BY <2>1, <2>3 DEF NoReset
  <2> QED BY <1>5, <2>2, <2>3 DEF BeginSession
<1>6. CASE Open BY <1>6 DEF Open
<1>7. CASE Authenticate BY <1>7 DEF Authenticate
<1>8. CASE Stream BY <1>8 DEF Stream
<1>9. CASE Disconnected BY <1>9 DEF Disconnected
<1>10. CASE Exit BY <1>10 DEF Exit
<1>11. CASE BackoffOver BY <1>11 DEF BackoffOver
<1>12. CASE RequestStop BY <1>12 DEF RequestStop
<1>13. CASE Kill BY <1>13 DEF Kill
<1>14. CASE Headset BY <1>14 DEF Headset
<1>15. CASE Reattach BY <1>15 DEF Reattach
<1>16. CASE UNCHANGED vars BY <1>16 DEF vars
<1> QED BY <1>1, <1>2, <1>3, <1>4, <1>5, <1>6, <1>7, <1>8, <1>9, <1>10,
           <1>11, <1>12, <1>13, <1>14, <1>15, <1>16

LEMMA RunNext ==
  ASSUME RunInv, [Next]_vars
  PROVE  /\ RunInv'
         /\ lastResult = 1 /\ lastResult' = 1 /\ phase' = "backoff"
              => wait' >= wait
<1>0. wait \in Nat BY Delays DEF RunInv, TypeOK
<1>1. CASE OpenFails
  <2>1. Retry(2) /\ ~opened' /\ opened' \in BOOLEAN
    BY <1>1 DEF OpenFails
  <2>2. lastResult' = 2 BY <2>1 DEF Retry
  <2> QED BY <2>1, <2>2, RetryStep
<1>2. CASE OpenAudioFails
  <2>1. Retry(2) /\ ~opened' /\ opened' \in BOOLEAN
    BY <1>2 DEF OpenAudioFails
  <2>2. lastResult' = 2 BY <2>1 DEF Retry
  <2> QED BY <2>1, <2>2, RetryStep
<1>3. CASE HandshakeFails
  <2>1. Retry(1) /\ opened' = opened BY <1>3 DEF HandshakeFails
  <2>2. opened \in BOOLEAN BY DEF RunInv, TypeOK
  <2> QED BY <2>1, <2>2, RetryStep
<1>4. CASE LostReturns
  <2>1. Retry(2) /\ opened' = opened /\ phase = "lost"
    BY <1>4 DEF LostReturns
  <2>2. opened \in BOOLEAN /\ resets = 0
    BY <2>1 DEF RunInv, TypeOK, ResetInv
  <2>3. lastResult' = 2 BY <2>1 DEF Retry
  <2> QED BY <2>1, <2>2, <2>3, RetryStep
<1>5. CASE \/ Launch \/ EnterBridgeRun \/ MapRing \/ MapRingFails
           \/ BeginSession \/ Open \/ Authenticate \/ Stream \/ Disconnected
           \/ Exit \/ BackoffOver \/ RequestStop \/ Kill \/ Headset
           \/ Reattach \/ UNCHANGED vars
  BY <1>0, <1>5, OtherStep
<1> QED BY <1>1, <1>2, <1>3, <1>4, <1>5 DEF Next, Bridge

LEMMA RunInvariance == Spec => []RunInv
<1>1. Init => RunInv BY RunInit
<1>2. RunInv /\ [Next]_vars => RunInv' BY RunNext
<1> QED BY <1>1, <1>2, PTL DEF Spec

\* Every variable of the process keeps its type: the counter of attempts never
\* runs past the table of delays it indexes.
THEOREM RunTypes == Spec => []TypeOK
<1>1. RunInv => TypeOK BY DEF RunInv
<1> QED BY <1>1, RunInvariance, PTL

\* While every attempt can open the dongle its port is reset at most once
\* between two sessions that stream, after any number of failed handshakes.
THEOREM OneReset == Spec => []AsleepNotReset
<1>1. RunInv => AsleepNotReset BY DEF RunInv, ResetInv, AsleepNotReset
<1> QED BY <1>1, RunInvariance, PTL

\* From its first retry on a bridge that does not stream does not say it does,
\* whatever the processes before it left in the ring.
THEOREM OnlineHonest == Spec => []OnlineHonestAfterRetry
<1>1. RunInv => OnlineHonestAfterRetry BY DEF RunInv
<1> QED BY <1>1, RunInvariance, PTL

\* The delay between two failed handshakes is never shorter than the one
\* before it.
THEOREM SlowerRetries == Spec => AsleepRetriedSlower
<1>1. RunInv /\ [Next]_vars =>
        [(lastResult = 1 /\ lastResult' = 1 /\ phase' = "backoff")
           => wait' >= wait]_vars
  BY RunNext
<1> QED BY <1>1, RunInvariance, PTL DEF Spec, AsleepRetriedSlower
====
