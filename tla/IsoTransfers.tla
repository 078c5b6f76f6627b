---- MODULE IsoTransfers ----
(***************************************************************************)
(* The isochronous transfers of one bridge session (run_session of         *)
(* src/bridge.c): NumXfers capture transfers and NumXfers playback         *)
(* transfers, each resubmitted by its own completion callback.             *)
(*                                                                         *)
(* The bridge is one thread.  Callbacks run only while it polls its run    *)
(* loop, so a session is a sequence of phases; within a phase completions  *)
(* are delivered one by one, and what happens between two polls is one     *)
(* step.  The USB stack completes transfers at any time and keeps the      *)
(* completions until the loop is polled.  The order in which it does so is *)
(* left open here (IsoSchedule follows the frames): what is counted is how *)
(* often a transfer is submitted, completed, or refused.                   *)
(***************************************************************************)
EXTENDS Naturals

CONSTANTS NumXfers,     \* NUM_XFERS
          GoneResults   \* what a transfer to an unplugged device may return

ASSUME IsoAssumption ==
  /\ NumXfers \in Nat \ {0}
  /\ GoneResults \subseteq {"nodevice", "error"}
  /\ GoneResults # {}

VARIABLES
  phase,       \* where run_session is; it polls the run loop in all but the
               \* first and the last
  pending,     \* how often each transfer is submitted and not completed
  completed,   \* how often it is completed with each result and its callback
               \* has not run yet
  refused,     \* history: how often a submission of it was refused twice
  streaming, restarting, disconnected,  \* streaming, restarting_capture,
                                        \* dev_disconnected
  authenticated, \* auth.authenticated
  stop,        \* bridge_stop was called
  gone,        \* the device is unplugged
  result       \* what run_session returned

queues == <<pending, completed, refused>>
vars   == <<phase, queues, streaming, restarting, disconnected, authenticated,
            stop, gone, result>>

Xfers      == 1..NumXfers
Directions == {"in", "out"}
Transfers  == Directions \X Xfers     \* in_xfers and out_xfers
Results    == {"ok", "error", "aborted", "nodevice"}
Phases     == {"setup", "auth", "abort", "stream", "drain", "over"}

Captures  == {"in"} \X Xfers
Playbacks == {"out"} \X Xfers

TypeOK ==
  /\ phase \in Phases
  /\ pending \in [Transfers -> Nat]
  /\ completed \in [Transfers -> [Results -> Nat]]
  /\ refused \in [Transfers -> Nat]
  /\ {streaming, restarting, disconnected, authenticated, stop, gone}
       \subseteq BOOLEAN
  /\ result \in 0..2

Init ==
  /\ phase = "setup"
  /\ pending = [t \in Transfers |-> 0]
  /\ completed = [t \in Transfers |-> [r \in Results |-> 0]]
  /\ refused = [t \in Transfers |-> 0]
  /\ streaming = FALSE
  /\ restarting = FALSE
  /\ disconnected = FALSE
  /\ authenticated = FALSE
  /\ stop = FALSE
  /\ gone = FALSE
  /\ result = 0

----------------------------------------------------------------------------
(* submit_in_xfer and submit_out_xfer.                                     *)

\* f with the count of every transfer of T raised by one.
Counted(f, T) == [t \in Transfers |-> f[t] + IF t \in T THEN 1 ELSE 0]

\* The submissions among T the USB stack may refuse: any, and all of them when
\* the device is unplugged.
Refusals(T) == IF gone THEN {T} ELSE SUBSET T

\* A transfer refused at the first try is given up.
AcceptedWithoutRetry(T, missed, again) == T \ missed

\* Of T, those in missed are refused at the first try, for a frame that has
\* passed or whatever else, rebased and tried again; those in again are refused
\* at the second try too, and dropped.
Accepted(T, missed, again) == T \ again

Submit(T) ==
  \E missed \in Refusals(T) : \E again \in Refusals(missed) :
    /\ pending' = Counted(pending, Accepted(T, missed, again))
    /\ refused' = Counted(refused, again)

----------------------------------------------------------------------------
(* in_xfer_done and out_xfer_done.                                         *)

Polling == phase \in {"auth", "abort", "stream", "drain"}

\* Whether the callback submits the transfer again.
Resubmit(d, r) ==
  /\ r # "nodevice"
  /\ ~(d = "out" /\ r = "aborted" /\ restarting)
  /\ ~stop
  /\ streaming
  /\ ~disconnected

DeliverOf(t, r) ==
  /\ Polling
  /\ completed[t][r] > 0
  /\ completed' = [completed EXCEPT ![t][r] = @ - 1]
  /\ disconnected' = (disconnected \/ r = "nodevice")
  /\ IF Resubmit(t[1], r) THEN Submit({t}) ELSE UNCHANGED <<pending, refused>>
  /\ UNCHANGED <<phase, streaming, restarting, authenticated, stop, gone,
                 result>>

Deliver == \E t \in Transfers, r \in Results : DeliverOf(t, r)

----------------------------------------------------------------------------
(* The body of run_session from the first submission on.                   *)

\* Playback is armed together with capture.
ArmBoth ==
  /\ phase = "setup"
  /\ phase' = "auth"
  /\ streaming' = TRUE
  /\ Submit(Transfers)
  /\ UNCHANGED <<completed, restarting, disconnected, authenticated, stop,
                 gone, result>>

\* Capture is armed early: the firmware answers only while IN is pending.
ArmCapture ==
  /\ phase = "setup"
  /\ phase' = "auth"
  /\ streaming' = TRUE
  /\ Submit(Captures)
  /\ UNCHANGED <<completed, restarting, disconnected, authenticated, stop,
                 gone, result>>

\* Authentication completes while the run loop is polled.
Authenticate ==
  /\ phase = "auth"
  /\ ~gone
  /\ authenticated' = TRUE
  /\ UNCHANGED <<phase, queues, streaming, restarting, disconnected,
                 stop, gone, result>>

\* Authentication timed out or was interrupted: everything is closed at once.
AuthFailed ==
  /\ phase = "auth"
  /\ ~authenticated
  /\ phase' = "over"
  /\ result' = 1
  /\ UNCHANGED <<queues, streaming, restarting, disconnected,
                 authenticated, stop, gone>>

\* AbortPipe completes every pending read with kIOReturnAborted.
AbortCapture ==
  /\ phase = "auth"
  /\ authenticated
  /\ phase' = "abort"
  /\ restarting' = TRUE
  /\ completed' = [t \in Transfers |-> [r \in Results |->
                     completed[t][r] + IF t \in Captures /\ r = "aborted"
                                       THEN pending[t] ELSE 0]]
  /\ pending' = [t \in Transfers |-> IF t \in Captures THEN 0 ELSE pending[t]]
  /\ UNCHANGED <<refused, streaming, disconnected, authenticated, stop, gone, result>>

StartStreaming ==
  /\ phase = "abort"
  /\ phase' = "stream"
  /\ restarting' = FALSE
  /\ streaming' = TRUE
  /\ Submit(Transfers)
  /\ UNCHANGED <<completed, disconnected, authenticated, stop, gone, result>>

\* The streaming loop looks for a disconnect alone.
StopStreamingOnDisconnect ==
  /\ phase = "stream"
  /\ disconnected
  /\ phase' = "drain"
  /\ streaming' = FALSE
  /\ UNCHANGED <<queues, restarting, disconnected, authenticated,
                 stop, gone, result>>

StopStreaming ==
  /\ phase = "stream"
  /\ stop \/ disconnected
  /\ phase' = "drain"
  /\ streaming' = FALSE
  /\ UNCHANGED <<queues, restarting, disconnected, authenticated,
                 stop, gone, result>>

\* The 0.3 s of polling before the buffers are freed outlast the transfers
\* still queued (DrainOutlastsQueue of IsoSchedule).
Drained ==
  /\ \A t \in Transfers : pending[t] = 0
  /\ \A t \in Transfers, r \in Results : completed[t][r] = 0

\* A disconnect is reported to bridge_run even if a stop is what was asked.
EndSessionAsDisconnected ==
  /\ phase = "drain"
  /\ Drained
  /\ phase' = "over"
  /\ result' = IF disconnected THEN 2 ELSE 0
  /\ UNCHANGED <<queues, streaming, restarting, disconnected,
                 authenticated, stop, gone>>

EndSession ==
  /\ phase = "drain"
  /\ Drained
  /\ phase' = "over"
  /\ result' = IF disconnected /\ ~stop THEN 2 ELSE 0
  /\ UNCHANGED <<queues, streaming, restarting, disconnected,
                 authenticated, stop, gone>>

----------------------------------------------------------------------------
(* The USB stack, the user and the device.                                 *)

Outcomes == IF gone THEN GoneResults ELSE {"ok", "error"}

Complete(t) ==
  /\ phase # "over"
  /\ pending[t] > 0
  /\ pending' = [pending EXCEPT ![t] = @ - 1]
  /\ \E r \in Outcomes : completed' = [completed EXCEPT ![t][r] = @ + 1]
  /\ UNCHANGED <<phase, refused, streaming, restarting, disconnected,
                 authenticated, stop, gone, result>>

Unplug ==
  /\ ~gone
  /\ gone' = TRUE
  /\ UNCHANGED <<phase, queues, streaming, restarting, disconnected,
                 authenticated, stop, result>>

RequestStop ==
  /\ ~stop
  /\ stop' = TRUE
  /\ UNCHANGED <<phase, queues, streaming, restarting, disconnected,
                 authenticated, gone, result>>

Over == phase = "over" /\ UNCHANGED vars

Session ==
  ArmCapture \/ AuthFailed \/ AbortCapture \/ StartStreaming \/ StopStreaming
    \/ EndSession

Usb == \E t \in Transfers : Complete(t)

Next ==
  \/ Session \/ Deliver
  \/ Usb \/ Authenticate \/ Unplug \/ RequestStop
  \/ Over

\* The bridge thread runs, and the USB stack completes what it accepted.
Fairness == WF_vars(Session) /\ WF_vars(Deliver) /\ WF_vars(Usb)

Spec == Init /\ [][Next]_vars /\ Fairness

----------------------------------------------------------------------------
(* The session as BridgeRun has it.                                        *)

\* The first attempt of a bridge that has just reset the port and opened the
\* device, up to what its result makes of bridge_run.
RunPhase ==
  CASE phase = "over" /\ result = 0         -> "exited"
    [] phase = "over" /\ result = 1         -> "backoff"
    [] phase = "over" /\ result = 2         -> "lost"
    [] phase \in {"stream", "drain"}        -> "streaming"
    [] phase = "abort" \/ (phase = "auth" /\ authenticated) -> "authenticated"
    [] OTHER                                -> "handshake"

Failed == phase = "over" /\ result = 1

\* device_online: set when audio streams, cleared when bridge_run sees the
\* result.
OnlineInRun == RunPhase \in {"streaming", "lost"}

Run == INSTANCE BridgeRun
  WITH MaxResets    <- 2,
       phase        <- RunPhase,
       stop         <- stop,
       attempt      <- IF Failed THEN 1 ELSE 0,
       reenumerate  <- FALSE,
       wait         <- IF Failed THEN 2 ELSE 0,
       deviceOnline <- OnlineInRun,
       device       <- IF gone THEN "off" ELSE "on",
       attached     <- TRUE,
       handle       <- ~gone,
       asked        <- stop,
       resets       <- IF RunPhase \in {"streaming", "lost", "exited"}
                       THEN 0 ELSE 1,
       lastResult   <- IF Failed THEN 1 ELSE 0,
       opened       <- TRUE

----------------------------------------------------------------------------
(* Properties.                                                             *)

\* How often transfer t is submitted and its callback has not run yet.
Outstanding(t) ==
  pending[t] + completed[t]["ok"] + completed[t]["error"]
    + completed[t]["aborted"] + completed[t]["nodevice"]

\* How often run_session itself has handed over each transfer of direction d:
\* capture is armed before authentication and once more when audio starts.
HandedOver(d) ==
  CASE phase = "setup"  -> 0
    [] phase = "stream" -> IF d = "in" THEN 2 ELSE 1
    [] OTHER            -> IF d = "in" THEN 1 ELSE 0

\* "Rebase this transfer instead of losing the xfer permanently": until the
\* session is asked to stop or told that the device is gone, every transfer is
\* outstanding as often as it was handed over, less once for each time both
\* tries to submit it were refused.  Nothing else loses a transfer: not a frame
\* that was missed, not a failed completion, not the restart of capture.
QueuesStayFull ==
  (phase \in {"auth", "abort", "stream"} /\ ~stop /\ ~disconnected) =>
    \A t \in Transfers : Outstanding(t) + refused[t] = HandedOver(t[1])

\* A playback transfer object is never submitted while it is still pending.
OutSubmittedOnce == \A t \in Playbacks : Outstanding(t) <= 1

\* run_session's own claim for capture: "do not submit the same xfer objects a
\* second time while they are pending".
InSubmittedOnce == \A t \in Captures : pending[t] <= 1

\* Once asked to stop, or told by a completion that the device is gone, the
\* session stops feeding the pipes, runs dry and ends.
SessionEnds == (stop \/ disconnected) ~> (phase = "over")

\* What run_session does with its transfers is, seen from bridge_run, one
\* session of BridgeRun: it streams only after authentication, says the device
\* is lost only if it is and nobody asked for an end, and fails only before
\* audio.
SessionOfRun == [][Run!Next]_(Run!vars)

\* "Auto-reconnects on USB disconnect (device pull, headset power-off, etc)":
\* the session of an unplugged device ends.
UnplugEndsSession == gone ~> (phase = "over")
====
