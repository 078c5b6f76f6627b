---- MODULE IsoTransfers_proofs ----
(***************************************************************************)
(* A session's transfers for every number of them: the counts keep their   *)
(* types, every transfer is accounted for while audio streams, no playback *)
(* transfer is submitted twice, and the session is one of BridgeRun's.     *)
(***************************************************************************)
EXTENDS IsoTransfers, Integers, TLAPS

Flags == {streaming, restarting, disconnected, authenticated, stop, gone}

\* How often a transfer is completed, over all results, in the counts c.
Reported(c, t) == c[t]["ok"] + c[t]["error"] + c[t]["aborted"] + c[t]["nodevice"]

LEMMA Directed ==
  /\ Captures \subseteq Transfers /\ Playbacks \subseteq Transfers
  /\ \A t \in Transfers : t \in Captures <=> t[1] = "in"
  /\ \A t \in Transfers : t \in Playbacks <=> t[1] = "out"
  /\ \A t \in Transfers : t[1] \in {"in", "out"}
  BY DEF Captures, Playbacks, Transfers, Directions

\* What a submission does: each transfer handed over is pending once more, or
\* refused twice.
LEMMA SubmitEffect ==
  ASSUME TypeOK, NEW T \in SUBSET Transfers, Submit(T)
  PROVE  /\ pending' \in [Transfers -> Nat] /\ refused' \in [Transfers -> Nat]
         /\ \A t \in Transfers : pending'[t] + refused'[t] =
              pending[t] + refused[t] + IF t \in T THEN 1 ELSE 0
<1>1. PICK missed \in Refusals(T) : \E again \in Refusals(missed) :
        /\ pending' = Counted(pending, T \ again)
        /\ refused' = Counted(refused, again)
  BY DEF Submit, Accepted
<1>2. PICK again \in SUBSET T :
        /\ pending' = Counted(pending, T \ again)
        /\ refused' = Counted(refused, again)
  BY <1>1 DEF Refusals
<1>3. \A t \in Transfers : pending[t] \in Nat /\ refused[t] \in Nat
  BY DEF TypeOK
<1>4. pending' \in [Transfers -> Nat] /\ refused' \in [Transfers -> Nat]
  BY <1>2, <1>3 DEF Counted
<1>5. ASSUME NEW t \in Transfers
      PROVE  pending'[t] + refused'[t] =
               pending[t] + refused[t] + IF t \in T THEN 1 ELSE 0
  <2>1. /\ pending'[t] = pending[t] + IF t \in T \ again THEN 1 ELSE 0
        /\ refused'[t] = refused[t] + IF t \in again THEN 1 ELSE 0
    BY <1>2 DEF Counted
  <2> QED BY <1>2, <1>3, <2>1
<1> QED BY <1>4, <1>5

----------------------------------------------------------------------------
(* Types, and what each step does to the account of a transfer.            *)

\* How often a transfer is outstanding or was refused twice.
Account(t) == pending[t] + Reported(completed, t) + refused[t]

LEMMA AccountType ==
  ASSUME TypeOK, NEW t \in Transfers
  PROVE  /\ pending[t] \in Nat /\ refused[t] \in Nat
         /\ \A r \in Results : completed[t][r] \in Nat
         /\ Reported(completed, t) \in Nat
         /\ Account(t) = Outstanding(t) + refused[t]
         /\ Account(t) \in Nat /\ Outstanding(t) \in Nat
<1>1. pending[t] \in Nat /\ refused[t] \in Nat BY DEF TypeOK
<1>2. \A r \in Results : completed[t][r] \in Nat BY DEF TypeOK
<1>3. /\ completed[t]["ok"] \in Nat /\ completed[t]["error"] \in Nat
      /\ completed[t]["aborted"] \in Nat /\ completed[t]["nodevice"] \in Nat
  BY <1>2 DEF Results
<1> QED BY <1>1, <1>2, <1>3 DEF Reported, Account, Outstanding

QueuesOK ==
  /\ pending \in [Transfers -> Nat]
  /\ completed \in [Transfers -> [Results -> Nat]]
  /\ refused \in [Transfers -> Nat]

\* A delivery takes a completion away and submits its transfer, or does not.
LEMMA DeliverEffect ==
  ASSUME TypeOK, NEW t \in Transfers, NEW r \in Results, DeliverOf(t, r)
  PROVE  /\ QueuesOK'
         /\ \A s \in Transfers : Account(s)' = Account(s) +
              IF s = t /\ ~Resubmit(t[1], r) THEN -1 ELSE 0
<1>1. completed[t][r] \in Nat /\ completed \in [Transfers -> [Results -> Nat]]
  BY DEF TypeOK
<1>2. completed[t][r] - 1 \in Nat BY <1>1 DEF DeliverOf
<1>3. completed' = [completed EXCEPT ![t][r] = @ - 1] BY DEF DeliverOf
<1>4. /\ completed' \in [Transfers -> [Results -> Nat]]
      /\ \A s \in Transfers : Reported(completed', s) =
           IF s = t THEN Reported(completed, s) + (-1) ELSE Reported(completed, s)
  <2>1. completed' \in [Transfers -> [Results -> Nat]] BY <1>1, <1>2, <1>3
  <2>2. ASSUME NEW s \in Transfers
        PROVE  \A q \in Results : /\ completed[s][q] \in Nat
                 /\ completed'[s][q] = IF s = t /\ q = r
                       THEN completed[s][q] + (-1) ELSE completed[s][q]
    BY <1>1, <1>3
  <2>3. ASSUME NEW s \in Transfers
        PROVE  Reported(completed', s) =
                 IF s = t THEN Reported(completed, s) + (-1)
                 ELSE Reported(completed, s)
    <3>1. r \in {"ok", "error", "aborted", "nodevice"} BY DEF Results
    <3> QED BY <2>2, <3>1 DEF Reported, Results
  <2> QED BY <2>1, <2>3
<1>5. /\ pending' \in [Transfers -> Nat] /\ refused' \in [Transfers -> Nat]
      /\ \A s \in Transfers : pending'[s] + refused'[s] = pending[s] + refused[s]
            + IF s = t /\ Resubmit(t[1], r) THEN 1 ELSE 0
  <2>1. CASE Resubmit(t[1], r)
    <3>1. Submit({t}) BY <2>1 DEF DeliverOf
    <3>2. {t} \in SUBSET Transfers OBVIOUS
    <3>3. \A s \in Transfers : s \in {t} <=> s = t OBVIOUS
    <3> QED BY <2>1, <3>1, <3>2, <3>3, SubmitEffect
  <2>2. CASE ~Resubmit(t[1], r)
    <3>1. pending' = pending /\ refused' = refused BY <2>2 DEF DeliverOf
    <3>2. \A s \in Transfers : pending[s] \in Nat /\ refused[s] \in Nat
      BY DEF TypeOK
    <3> QED BY <2>2, <3>1, <3>2 DEF TypeOK
  <2> QED BY <2>1, <2>2
<1>6. ASSUME NEW s \in Transfers
      PROVE  Account(s)' = Account(s) + IF s = t /\ ~Resubmit(t[1], r) THEN -1 ELSE 0
  <2>1. /\ pending[s] \in Nat /\ refused[s] \in Nat
        /\ Reported(completed, s) \in Nat
    BY AccountType
  <2>2. pending'[s] \in Nat /\ refused'[s] \in Nat BY <1>5
  <2>3. Account(s)' = pending'[s] + Reported(completed', s) + refused'[s]
    BY DEF Account, Reported
  <2>4. pending'[s] + refused'[s] = pending[s] + refused[s]
          + IF s = t /\ Resubmit(t[1], r) THEN 1 ELSE 0
    BY <1>5
  <2>5. Reported(completed', s) =
          IF s = t THEN Reported(completed, s) + (-1) ELSE Reported(completed, s)
    BY <1>4
  <2> QED BY <2>1, <2>2, <2>3, <2>4, <2>5 DEF Account
<1> QED BY <1>4, <1>5, <1>6 DEF QueuesOK

\* A completion moves a transfer from the pending ones to the completed ones.
LEMMA CompleteEffect ==
  ASSUME TypeOK, NEW t \in Transfers, Complete(t)
  PROVE  /\ QueuesOK'
         /\ \A s \in Transfers : Account(s)' = Account(s)
         /\ \E r \in Outcomes \cap Results :
              completed' = [completed EXCEPT ![t][r] = @ + 1]
<1>1. PICK r \in Outcomes : completed' = [completed EXCEPT ![t][r] = @ + 1]
  BY DEF Complete
<1>2. r \in Results BY IsoAssumption DEF Outcomes, Results
<1>3. completed[t][r] \in Nat /\ completed \in [Transfers -> [Results -> Nat]]
  BY <1>2 DEF TypeOK
<1>4. completed[t][r] + 1 \in Nat BY <1>3
<1>6. /\ completed' \in [Transfers -> [Results -> Nat]]
      /\ \A s \in Transfers : Reported(completed', s) =
           IF s = t THEN Reported(completed, s) + 1 ELSE Reported(completed, s)
  <2>1. completed' \in [Transfers -> [Results -> Nat]] BY <1>1, <1>2, <1>3, <1>4
  <2>2. ASSUME NEW s \in Transfers
        PROVE  \A q \in Results : /\ completed[s][q] \in Nat
                 /\ completed'[s][q] = IF s = t /\ q = r
                       THEN completed[s][q] + 1 ELSE completed[s][q]
    BY <1>1, <1>2, <1>3
  <2>3. ASSUME NEW s \in Transfers
        PROVE  Reported(completed', s) =
                 IF s = t THEN Reported(completed, s) + 1
                 ELSE Reported(completed, s)
    <3>1. r \in {"ok", "error", "aborted", "nodevice"} BY <1>2 DEF Results
    <3> QED BY <2>2, <3>1 DEF Reported, Results
  <2> QED BY <2>1, <2>3
<1>7. pending[t] - 1 \in Nat BY DEF TypeOK, Complete
<1>8. pending' = [pending EXCEPT ![t] = @ - 1] /\ refused' = refused
  BY DEF Complete
<1>9. QueuesOK' BY <1>6, <1>7, <1>8 DEF QueuesOK, TypeOK
<1>10. ASSUME NEW s \in Transfers PROVE Account(s)' = Account(s)
  <2>1. /\ pending[s] \in Nat /\ refused[s] \in Nat
        /\ Reported(completed, s) \in Nat
    BY AccountType
  <2>2. pending'[s] = IF s = t THEN pending[s] - 1 ELSE pending[s]
    BY <1>8 DEF TypeOK
  <2>3. Account(s)' = pending'[s] + Reported(completed', s) + refused[s]
    BY <1>8 DEF Account, Reported
  <2>4. Reported(completed', s) =
          IF s = t THEN Reported(completed, s) + 1 ELSE Reported(completed, s)
    BY <1>6
  <2> QED BY <2>1, <2>2, <2>3, <2>4 DEF Account
<1> QED BY <1>1, <1>2, <1>9, <1>10

\* An abort completes every pending read.
LEMMA AbortEffect ==
  ASSUME TypeOK, AbortCapture
  PROVE  /\ QueuesOK'
         /\ \A s \in Transfers : Account(s)' = Account(s)
         /\ \A s \in Transfers : completed'[s]["nodevice"] = completed[s]["nodevice"]
<1>1. ASSUME NEW s \in Transfers, NEW r \in Results
      PROVE  completed'[s][r] = completed[s][r] +
               IF s \in Captures /\ r = "aborted" THEN pending[s] ELSE 0
  BY DEF AbortCapture
<1>2. \A s \in Transfers : /\ pending[s] \in Nat /\ refused[s] \in Nat
                           /\ \A r \in Results : completed[s][r] \in Nat
  BY DEF TypeOK
<1>3. pending' = [t \in Transfers |-> IF t \in Captures THEN 0 ELSE pending[t]]
      /\ refused' = refused
  BY DEF AbortCapture
<1>4. QueuesOK'
  <2>1. completed' \in [Transfers -> [Results -> Nat]]
    <3>1. completed' = [t \in Transfers |-> [r \in Results |->
                     completed[t][r] + IF t \in Captures /\ r = "aborted"
                                       THEN pending[t] ELSE 0]]
      BY DEF AbortCapture
    <3>2. ASSUME NEW t \in Transfers, NEW r \in Results
          PROVE  completed[t][r] + (IF t \in Captures /\ r = "aborted"
                                    THEN pending[t] ELSE 0) \in Nat
      <4>1. completed[t][r] \in Nat /\ pending[t] \in Nat BY DEF TypeOK
      <4> QED BY <4>1
    <3> QED BY <3>1, <3>2
  <2> QED BY <1>2, <1>3, <2>1 DEF QueuesOK, TypeOK
<1>5. {"ok", "error", "aborted", "nodevice"} = Results BY DEF Results
<1>6. ASSUME NEW s \in Transfers PROVE Account(s)' = Account(s)
  <2>1. /\ completed'[s]["ok"] = completed[s]["ok"]
        /\ completed'[s]["error"] = completed[s]["error"]
        /\ completed'[s]["nodevice"] = completed[s]["nodevice"]
        /\ completed'[s]["aborted"] = completed[s]["aborted"]
             + IF s \in Captures THEN pending[s] ELSE 0
    BY <1>1, <1>2, <1>5
  <2>2. pending'[s] = IF s \in Captures THEN 0 ELSE pending[s] BY <1>3
  <2> QED BY <1>2, <1>3, <1>5, <2>1, <2>2 DEF Account, Reported
<1>7. \A s \in Transfers : completed'[s]["nodevice"] = completed[s]["nodevice"]
  BY <1>1, <1>2, <1>5
<1> QED BY <1>4, <1>6, <1>7

LEMMA TypesInit == Init => TypeOK
<1> SUFFICES ASSUME Init PROVE TypeOK
  OBVIOUS
<1>1. Flags \subseteq BOOLEAN BY DEF Init, Flags
<1> QED BY <1>1 DEF Init, TypeOK, Phases, Flags

\* The flags and the rest of the state that is not a count.
FlagsOK == phase \in Phases /\ Flags \subseteq BOOLEAN /\ result \in 0..2

LEMMA FlagsStep ==
  ASSUME TypeOK, [Next]_vars
  PROVE  FlagsOK'
<1> USE DEF FlagsOK, Flags, TypeOK, Phases
<1>1. CASE ArmCapture BY <1>1 DEF ArmCapture
<1>2. CASE AuthFailed BY <1>2 DEF AuthFailed
<1>3. CASE AbortCapture BY <1>3 DEF AbortCapture
<1>4. CASE StartStreaming BY <1>4 DEF StartStreaming
<1>5. CASE StopStreaming BY <1>5 DEF StopStreaming
<1>6. CASE EndSession BY <1>6 DEF EndSession
<1>7. CASE Deliver
  <2>1. disconnected' \in BOOLEAN BY <1>7 DEF Deliver, DeliverOf
  <2> QED BY <1>7, <2>1 DEF Deliver, DeliverOf
<1>8. CASE Usb BY <1>8 DEF Usb, Complete
<1>9. CASE Authenticate BY <1>9 DEF Authenticate
<1>10. CASE Unplug BY <1>10 DEF Unplug
<1>11. CASE RequestStop BY <1>11 DEF RequestStop
<1>12. CASE Over \/ UNCHANGED vars BY <1>12 DEF Over, vars
<1> QED BY <1>1, <1>2, <1>3, <1>4, <1>5, <1>6, <1>7, <1>8, <1>9, <1>10,
           <1>11, <1>12 DEF Next, Session

LEMMA QueuesStep ==
  ASSUME TypeOK, [Next]_vars
  PROVE  QueuesOK'
<1>0. QueuesOK BY DEF TypeOK, QueuesOK
<1>1. CASE ArmCapture
  <2>1. Submit(Captures) /\ completed' = completed BY <1>1 DEF ArmCapture
  <2> QED BY <1>0, <2>1, SubmitEffect, Directed DEF QueuesOK
<1>2. CASE AbortCapture BY <1>2, AbortEffect
<1>3. CASE StartStreaming
  <2>1. Submit(Transfers) /\ completed' = completed BY <1>3 DEF StartStreaming
  <2>2. Transfers \in SUBSET Transfers OBVIOUS
  <2> QED BY <1>0, <2>1, <2>2, SubmitEffect DEF QueuesOK
<1>4. CASE Deliver BY <1>4, DeliverEffect DEF Deliver
<1>5. CASE Usb BY <1>5, CompleteEffect DEF Usb
<1>6. CASE UNCHANGED queues BY <1>0, <1>6 DEF queues, QueuesOK
<1> QED BY <1>1, <1>2, <1>3, <1>4, <1>5, <1>6
        DEF Next, Session, AuthFailed, StopStreaming, EndSession, Authenticate,
            Unplug, RequestStop, Over, vars

LEMMA TypesStep == TypeOK /\ [Next]_vars => TypeOK'
  BY FlagsStep, QueuesStep DEF FlagsOK, Flags, QueuesOK, TypeOK

\* The counts of submissions, completions and refusals never run below zero,
\* and the flags keep their types.
THEOREM TransferTypes == Spec => []TypeOK
  BY TypesInit, TypesStep, PTL DEF Spec

----------------------------------------------------------------------------
(* The session is one of BridgeRun's.                                      *)

\* A completion says that the device is gone only if it is; audio follows
\* authentication; there is a result at the end only, and the one of a lost
\* device is for a device that is lost.
SessionInv ==
  /\ disconnected => gone
  /\ \A t \in Transfers : completed[t]["nodevice"] > 0 => gone
  /\ phase \in {"abort", "stream", "drain"} => authenticated
  /\ phase = "setup" => ~authenticated
  /\ phase # "over" => result = 0
  /\ phase = "drain" => stop \/ disconnected
  /\ phase = "over" /\ result = 0 => stop

LEMMA SessionInit == Init => SessionInv
<1> SUFFICES ASSUME Init PROVE SessionInv
  OBVIOUS
<1>1. \A t \in Transfers : completed[t]["nodevice"] = 0
  BY DEF Init, Results
<1> QED BY <1>1 DEF Init, SessionInv

LEMMA SessionStep ==
  ASSUME TypeOK, SessionInv, [Next]_vars
  PROVE  SessionInv'
<1> USE DEF SessionInv
<1>1. CASE ArmCapture BY <1>1 DEF ArmCapture
<1>2. CASE AuthFailed BY <1>2 DEF AuthFailed, queues
<1>3. CASE AbortCapture
  <2>1. \A t \in Transfers : completed'[t]["nodevice"] = completed[t]["nodevice"]
    BY <1>3, AbortEffect
  <2> QED BY <1>3, <2>1 DEF AbortCapture
<1>4. CASE StartStreaming BY <1>4 DEF StartStreaming
<1>5. CASE StopStreaming BY <1>5 DEF StopStreaming, queues
<1>6. CASE EndSession BY <1>6 DEF EndSession, queues
<1>7. CASE Deliver
  <2>1. PICK t \in Transfers, r \in Results : DeliverOf(t, r)
    BY <1>7 DEF Deliver
  <2>2. /\ completed[t][r] > 0
        /\ completed' = [completed EXCEPT ![t][r] = @ - 1]
        /\ disconnected' = (disconnected \/ r = "nodevice")
        /\ UNCHANGED <<phase, authenticated, stop, gone, result>>
    BY <2>1 DEF DeliverOf
  <2>3. ASSUME NEW s \in Transfers, completed'[s]["nodevice"] > 0
        PROVE  completed[s]["nodevice"] > 0
    <3>1. completed[s]["nodevice"] \in Nat BY DEF TypeOK, Results
    <3>2. completed'[s]["nodevice"] =
            IF s = t /\ r = "nodevice" THEN completed[s]["nodevice"] - 1
            ELSE completed[s]["nodevice"]
      BY <2>2 DEF TypeOK, Results
    <3> QED BY <2>3, <3>1, <3>2
  <2>4. disconnected' => gone BY <2>2
  <2> QED BY <2>2, <2>3, <2>4
<1>8. CASE Usb
  <2>1. PICK t \in Transfers : Complete(t) BY <1>8 DEF Usb
  <2>2. PICK r \in Outcomes \cap Results :
          completed' = [completed EXCEPT ![t][r] = @ + 1]
    BY <2>1, CompleteEffect
  <2>3. r = "nodevice" => gone BY DEF Outcomes
  <2>4. ASSUME NEW s \in Transfers, completed'[s]["nodevice"] > 0
        PROVE  gone
    <3>1. CASE s = t /\ r = "nodevice" BY <2>3, <3>1
    <3>2. CASE ~(s = t /\ r = "nodevice")
      <4>1. completed'[s]["nodevice"] = completed[s]["nodevice"]
        BY <2>2, <3>2 DEF TypeOK, Results
      <4> QED BY <2>4, <4>1
    <3> QED BY <3>1, <3>2
  <2>5. UNCHANGED <<phase, gone, authenticated, stop, result, disconnected>>
    BY <2>1 DEF Complete
  <2> QED BY <2>4, <2>5
<1>9. CASE Authenticate BY <1>9 DEF Authenticate, queues
<1>10. CASE Unplug BY <1>10 DEF Unplug, queues
<1>11. CASE RequestStop BY <1>11 DEF RequestStop, queues
<1>12. CASE Over \/ UNCHANGED vars BY <1>12 DEF Over, vars, queues
<1> QED BY <1>1, <1>2, <1>3, <1>4, <1>5, <1>6, <1>7, <1>8, <1>9, <1>10,
           <1>11, <1>12 DEF Next, Session

\* The values BridgeRun's variables have before and after a step, by cases of
\* the phase.
LEMMA RunPhases ==
  ASSUME TypeOK
  PROVE  /\ phase = "over" /\ result = 0 => RunPhase = "exited"
         /\ phase = "over" /\ result = 1 => RunPhase = "backoff"
         /\ phase = "over" /\ result = 2 => RunPhase = "lost"
         /\ phase \in {"stream", "drain"} => RunPhase = "streaming"
         /\ phase = "abort" => RunPhase = "authenticated"
         /\ phase = "auth" /\ authenticated => RunPhase = "authenticated"
         /\ phase = "auth" /\ ~authenticated => RunPhase = "handshake"
         /\ phase = "setup" => RunPhase = "handshake"
  BY DEF RunPhase

\* A step that leaves those values alone is one BridgeRun does not see.
LEMMA Unseen ==
  ASSUME RunPhase' = RunPhase, Failed' <=> Failed, UNCHANGED <<stop, gone>>
  PROVE  UNCHANGED Run!vars
<1>1. OnlineInRun' = OnlineInRun BY DEF OnlineInRun
<1>2. Failed' = Failed BY DEF Failed
<1>3. UNCHANGED Run!thread BY <1>2 DEF Run!thread
<1>4. UNCHANGED Run!headset BY DEF Run!headset
<1>5. UNCHANGED Run!history BY <1>2 DEF Run!history
<1> QED BY <1>1, <1>3, <1>4, <1>5 DEF Run!vars

LEMMA SessionStepOfRun ==
  ASSUME TypeOK, TypeOK', SessionInv, [Next]_vars
  PROVE  [Run!Next]_(Run!vars)
<1> USE RunPhases, TypesStep
<1>0. phase \in Phases /\ result \in 0..2 BY DEF TypeOK
<1>1. CASE ArmCapture
  BY <1>1, Unseen DEF ArmCapture, SessionInv, Failed, RunPhase
<1>2. CASE AuthFailed
  <2>1. RunPhase = "handshake" BY <1>2 DEF AuthFailed
  <2>2. RunPhase' = "backoff" /\ Failed' /\ ~Failed
    BY <1>2 DEF AuthFailed, RunPhase, Failed
  <2>3. Run!NextWait(1) BY <2>2 DEF Run!NextWait, Run!BackoffSecs
  <2>4. Run!Retry(1)
    BY <1>2, <2>2, <2>3 DEF Run!Retry, OnlineInRun, AuthFailed, Run!headset
  <2> QED BY <2>1, <2>4 DEF Run!HandshakeFails, Run!Next, Run!Bridge
<1>3. CASE AbortCapture
  BY <1>3, Unseen DEF AbortCapture, Failed, RunPhase
<1>4. CASE StartStreaming
  <2>1. RunPhase = "authenticated" /\ RunPhase' = "streaming"
        /\ ~Failed /\ ~Failed' /\ UNCHANGED <<stop, gone>>
    BY <1>4 DEF StartStreaming, RunPhase, Failed
  <2>2. Run!Stream
    BY <2>1 DEF Run!Stream, OnlineInRun, Run!thread, Run!headset
  <2> QED BY <2>2 DEF Run!Next, Run!Bridge
<1>5. CASE StopStreaming
  BY <1>5, Unseen DEF StopStreaming, Failed, RunPhase
<1>6. CASE EndSession
  <2>1. RunPhase = "streaming" /\ ~Failed /\ UNCHANGED <<stop, gone>>
    BY <1>6 DEF EndSession, Failed
  <2>2. CASE disconnected /\ ~stop
    <3>1. RunPhase' = "lost" /\ ~Failed' /\ gone
      BY <1>6, <2>2 DEF EndSession, RunPhase, Failed, SessionInv
    <3>2. Run!Disconnected
      BY <2>1, <2>2, <3>1
      DEF Run!Disconnected, OnlineInRun, Run!thread, Run!headset, Run!history
    <3> QED BY <3>2 DEF Run!Next, Run!Bridge
  <2>3. CASE ~(disconnected /\ ~stop)
    <3>1. RunPhase' = "exited" /\ ~Failed' /\ stop
      BY <1>6, <2>3 DEF EndSession, RunPhase, Failed, SessionInv
    <3>2. OnlineInRun' = FALSE BY <3>1 DEF OnlineInRun
    <3>3. UNCHANGED <<stop, Run!thread, Run!headset, Run!history>>
      BY <2>1, <3>1 DEF Run!thread, Run!headset, Run!history
    <3>4. Run!Exit BY <2>1, <3>1, <3>2, <3>3 DEF Run!Exit
    <3> QED BY <3>4 DEF Run!Next, Run!Bridge
  <2> QED BY <2>2, <2>3
<1>7. CASE Deliver
  BY <1>7, Unseen DEF Deliver, DeliverOf, Failed, RunPhase
<1>8. CASE Usb
  BY <1>8, Unseen DEF Usb, Complete, Failed, RunPhase
<1>9. CASE Authenticate
  <2>1. CASE authenticated
    BY <1>9, <2>1, Unseen DEF Authenticate, Failed, RunPhase
  <2>2. CASE ~authenticated
    <3>1. RunPhase = "handshake" /\ RunPhase' = "authenticated"
          /\ ~Failed /\ ~Failed' /\ ~gone /\ UNCHANGED <<stop, gone>>
      BY <1>9, <2>2 DEF Authenticate, RunPhase, Failed
    <3>2. Run!Authenticate
      BY <3>1
      DEF Run!Authenticate, OnlineInRun, Run!thread, Run!headset, Run!history
    <3> QED BY <3>2 DEF Run!Next, Run!Bridge
  <2> QED BY <2>1, <2>2
<1>10. CASE Unplug
  <2>1. RunPhase' = RunPhase /\ Failed' = Failed /\ ~gone /\ gone' = TRUE
        /\ stop' = stop
    BY <1>10 DEF Unplug, RunPhase, Failed
  <2>2. Run!Headset
    BY <2>1 DEF Run!Headset, OnlineInRun, Run!thread, Run!history
  <2> QED BY <2>2 DEF Run!Next
<1>11. CASE RequestStop
  <2>1. RunPhase' = RunPhase /\ Failed' = Failed /\ ~stop /\ stop' = TRUE
        /\ gone' = gone
    BY <1>11 DEF RequestStop, RunPhase, Failed
  <2>2. RunPhase \notin {"absent", "exited"}
    BY <1>0, <2>1 DEF SessionInv, RunPhase
  <2>3. Run!RequestStop
    BY <2>1, <2>2
    DEF Run!RequestStop, Run!Gone, OnlineInRun, Run!thread, Run!headset
  <2> QED BY <2>3 DEF Run!Next
<1>12. CASE Over \/ UNCHANGED vars
  BY <1>12, Unseen DEF Over, vars, Failed, RunPhase
<1> QED BY <1>1, <1>2, <1>3, <1>4, <1>5, <1>6, <1>7, <1>8, <1>9, <1>10,
           <1>11, <1>12 DEF Next, Session

\* What run_session does with its transfers is one session of bridge_run as
\* BridgeRun has it, for every number of transfers.
THEOREM SessionRefinement == Spec => SessionOfRun
<1>1. Init => TypeOK /\ SessionInv BY TypesInit, SessionInit
<1>2. TypeOK /\ SessionInv /\ [Next]_vars => TypeOK' /\ SessionInv'
  BY TypesStep, SessionStep
<1>3. TypeOK /\ TypeOK' /\ SessionInv /\ [Next]_vars => [Run!Next]_(Run!vars)
  BY SessionStepOfRun
<1> QED BY <1>1, <1>2, <1>3, PTL DEF Spec, SessionOfRun

----------------------------------------------------------------------------
(* The account of every transfer.                                          *)

Fed == ~stop /\ ~disconnected

\* The flags that let a callback submit again follow the phase; while nothing
\* has asked for an end each transfer's account is what was handed over; and at
\* any time a playback transfer was handed over once at most.
AccountInv ==
  /\ phase \in {"auth", "abort", "stream"} => streaming
  /\ restarting => phase = "abort"
  /\ phase \in {"setup", "auth", "abort", "stream"} /\ Fed =>
       \A t \in Transfers : Account(t) = HandedOver(t[1])
  /\ \A t \in Playbacks :
       Account(t) <= IF phase \in {"setup", "auth", "abort"} THEN 0 ELSE 1

LEMMA AccountInit == Init => AccountInv
<1> SUFFICES ASSUME Init PROVE AccountInv
  OBVIOUS
<1>1. ASSUME NEW t \in Transfers PROVE Account(t) = 0
  BY DEF Init, Account, Reported, Results
<1> QED BY <1>1, Directed DEF Init, AccountInv, HandedOver

\* A step that leaves the counts alone leaves the accounts alone.
LEMMA SameAccount ==
  ASSUME UNCHANGED queues, NEW t
  PROVE  Account(t)' = Account(t)
  BY DEF queues, Account, Reported

\* Handing the transfers of T over raises their accounts.
LEMMA SubmitAccount ==
  ASSUME TypeOK, NEW T \in SUBSET Transfers, Submit(T), completed' = completed,
         NEW t \in Transfers
  PROVE  Account(t)' = Account(t) + IF t \in T THEN 1 ELSE 0
<1>1. pending'[t] + refused'[t] = pending[t] + refused[t] + IF t \in T THEN 1 ELSE 0
  BY SubmitEffect
<1>2. pending'[t] \in Nat /\ refused'[t] \in Nat BY SubmitEffect
<1>3. Account(t)' = pending'[t] + Reported(completed, t) + refused'[t]
  BY DEF Account, Reported
<1>4. pending[t] \in Nat /\ refused[t] \in Nat /\ Reported(completed, t) \in Nat
  BY AccountType
<1> QED BY <1>1, <1>2, <1>3, <1>4 DEF Account

LEMMA AccountStep ==
  ASSUME TypeOK, AccountInv, [Next]_vars
  PROVE  AccountInv'
<1>0. \A t \in Transfers : Account(t) \in Nat BY AccountType
<1>1. CASE ArmCapture
  <2>1. /\ phase = "setup" /\ phase' = "auth" /\ streaming' = TRUE
        /\ UNCHANGED <<completed, restarting, stop, disconnected>>
        /\ Submit(Captures)
    BY <1>1 DEF ArmCapture
  <2>2. \A t \in Transfers :
          Account(t)' = Account(t) + IF t \in Captures THEN 1 ELSE 0
    BY <2>1, SubmitAccount, Directed
  <2>3. \A t \in Playbacks : t \in Transfers /\ t \notin Captures
    BY Directed
  <2>4. Fed' => \A t \in Transfers : Account(t)' = HandedOver(t[1])'
    BY <2>1, <2>2, Directed DEF AccountInv, Fed, HandedOver
  <2>5. \A t \in Playbacks : Account(t)' <= 0
    BY <1>0, <2>1, <2>2, <2>3 DEF AccountInv
  <2> QED BY <2>1, <2>4, <2>5 DEF AccountInv
<1>2. CASE AuthFailed
  BY <1>2, SameAccount, <1>0, Directed DEF AuthFailed, AccountInv
<1>3. CASE AbortCapture
  <2>1. /\ phase = "auth" /\ phase' = "abort"
        /\ UNCHANGED <<streaming, stop, disconnected>>
    BY <1>3 DEF AbortCapture
  <2>2. \A t \in Transfers : Account(t)' = Account(t) BY <1>3, AbortEffect
  <2>3. Fed' => \A t \in Transfers : Account(t)' = HandedOver(t[1])'
    BY <2>1, <2>2, Directed DEF AccountInv, Fed, HandedOver
  <2>4. \A t \in Playbacks : Account(t)' <= 0
    BY <2>1, <2>2, Directed DEF AccountInv
  <2> QED BY <2>1, <2>3, <2>4 DEF AccountInv
<1>4. CASE StartStreaming
  <2>1. /\ phase = "abort" /\ phase' = "stream" /\ streaming' = TRUE
        /\ restarting' = FALSE
        /\ UNCHANGED <<completed, stop, disconnected>>
        /\ Submit(Transfers)
    BY <1>4 DEF StartStreaming
  <2>2. \A t \in Transfers : Account(t)' = Account(t) + 1
    <3>1. Transfers \in SUBSET Transfers OBVIOUS
    <3> QED BY <2>1, <3>1, SubmitAccount
  <2>3. Fed' => \A t \in Transfers : Account(t)' = HandedOver(t[1])'
    BY <2>1, <2>2, Directed DEF AccountInv, Fed, HandedOver
  <2>4. \A t \in Playbacks : Account(t)' <= 1
    BY <1>0, <2>1, <2>2, Directed DEF AccountInv
  <2> QED BY <2>1, <2>3, <2>4 DEF AccountInv
<1>5. CASE StopStreaming
  BY <1>5, SameAccount, Directed DEF StopStreaming, AccountInv
<1>6. CASE EndSession
  BY <1>6, SameAccount, Directed DEF EndSession, AccountInv
<1>7. CASE Deliver
  <2>1. PICK t \in Transfers, r \in Results : DeliverOf(t, r)
    BY <1>7 DEF Deliver
  <2>2. /\ completed[t][r] > 0 /\ Polling
        /\ disconnected' = (disconnected \/ r = "nodevice")
        /\ UNCHANGED <<phase, streaming, restarting, stop>>
    BY <2>1 DEF DeliverOf
  <2>3. \A s \in Transfers : Account(s)' = Account(s) +
          IF s = t /\ ~Resubmit(t[1], r) THEN -1 ELSE 0
    BY <2>1, DeliverEffect
  <2>4. ASSUME Fed', phase \in {"setup", "auth", "abort", "stream"},
               NEW s \in Transfers
        PROVE  Account(s)' = HandedOver(s[1])'
    <3>1. Fed /\ r # "nodevice" /\ streaming
      BY <2>2, <2>4 DEF Fed, AccountInv, Polling
    <3>2. ~(t[1] = "out" /\ restarting)
      <4> SUFFICES ASSUME t[1] = "out", restarting PROVE FALSE
        OBVIOUS
      <4>1. phase = "abort" /\ t \in Playbacks BY Directed DEF AccountInv
      <4>2. Account(t) <= 0 BY <4>1 DEF AccountInv
      <4>3. Account(t) >= 1
        <5>1. /\ pending[t] \in Nat /\ refused[t] \in Nat
              /\ completed[t]["ok"] \in Nat /\ completed[t]["error"] \in Nat
              /\ completed[t]["aborted"] \in Nat
              /\ completed[t]["nodevice"] \in Nat
          BY AccountType DEF Results
        <5>2. r \in {"ok", "error", "aborted", "nodevice"} BY DEF Results
        <5> QED BY <2>2, <5>1, <5>2 DEF Account, Reported
      <4> QED BY <1>0, <4>2, <4>3
    <3>3. Resubmit(t[1], r) BY <3>1, <3>2 DEF Resubmit, Fed
    <3>4. Account(s)' = Account(s) BY <1>0, <2>3, <3>3
    <3>5. HandedOver(s[1])' = HandedOver(s[1]) BY <2>2 DEF HandedOver
    <3> QED BY <2>4, <3>1, <3>4, <3>5 DEF AccountInv
  <2>5. \A s \in Playbacks :
          Account(s)' <= IF phase \in {"setup", "auth", "abort"} THEN 0 ELSE 1
    <3> SUFFICES ASSUME NEW s \in Playbacks
                 PROVE  Account(s)' <=
                          IF phase \in {"setup", "auth", "abort"} THEN 0 ELSE 1
      OBVIOUS
    <3>1. s \in Transfers /\ Account(s) \in Nat BY <1>0, Directed
    <3>2. Account(s)' <= Account(s) BY <2>3, <3>1
    <3>3. Account(s) <= IF phase \in {"setup", "auth", "abort"} THEN 0 ELSE 1
      BY DEF AccountInv
    <3>4. Account(s)' = Account(s) \/ Account(s)' = Account(s) - 1
      BY <2>3, <3>1
    <3> QED BY <3>1, <3>3, <3>4
  <2> QED BY <2>2, <2>4, <2>5 DEF AccountInv
<1>8. CASE Usb
  <2>1. PICK t \in Transfers : Complete(t) BY <1>8 DEF Usb
  <2>2. \A s \in Transfers : Account(s)' = Account(s) BY <2>1, CompleteEffect
  <2>3. UNCHANGED <<phase, streaming, restarting, disconnected, stop>>
    BY <2>1 DEF Complete
  <2> QED BY <2>2, <2>3, Directed DEF AccountInv, Fed, HandedOver
<1>9. CASE Authenticate
  BY <1>9, SameAccount, Directed DEF Authenticate, AccountInv, Fed, HandedOver
<1>10. CASE Unplug
  BY <1>10, SameAccount, Directed DEF Unplug, AccountInv, Fed, HandedOver
<1>11. CASE RequestStop
  BY <1>11, SameAccount, Directed DEF RequestStop, AccountInv, Fed, HandedOver
<1>12. CASE Over \/ UNCHANGED vars
  BY <1>12, SameAccount, Directed DEF Over, vars, AccountInv, Fed, HandedOver
<1> QED BY <1>1, <1>2, <1>3, <1>4, <1>5, <1>6, <1>7, <1>8, <1>9, <1>10,
           <1>11, <1>12 DEF Next, Session

LEMMA AccountInvariance == Spec => [](TypeOK /\ AccountInv)
<1>1. Init => TypeOK /\ AccountInv BY TypesInit, AccountInit
<1>2. TypeOK /\ AccountInv /\ [Next]_vars => (TypeOK /\ AccountInv)'
  BY TypesStep, AccountStep
<1> QED BY <1>1, <1>2, PTL DEF Spec

\* A playback transfer object is never submitted while it is pending, for
\* every number of transfers, whatever is refused and in whatever order
\* transfers complete.
THEOREM SubmittedOnce == Spec => []OutSubmittedOnce
<1>1. ASSUME TypeOK, AccountInv PROVE OutSubmittedOnce
  <2> SUFFICES ASSUME NEW t \in Playbacks PROVE Outstanding(t) <= 1
    BY DEF OutSubmittedOnce
  <2>1. Account(t) <= 1 BY <1>1, AccountType, Directed DEF AccountInv
  <2>2. /\ Account(t) = Outstanding(t) + refused[t]
        /\ refused[t] \in Nat /\ Outstanding(t) \in Nat
    BY <1>1, AccountType, Directed
  <2> QED BY <2>1, <2>2
<1> QED BY <1>1, AccountInvariance, PTL

\* Until the session is asked to stop or told that the device is gone, every
\* transfer is outstanding as often as it was handed over, less once for each
\* time both tries to submit it were refused, for every number of transfers.
THEOREM NoneLost == Spec => []QueuesStayFull
<1>1. ASSUME TypeOK, AccountInv PROVE QueuesStayFull
  BY <1>1, AccountType DEF QueuesStayFull, AccountInv, Fed
<1> QED BY <1>1, AccountInvariance, PTL
====
