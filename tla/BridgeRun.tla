---- MODULE BridgeRun ----
(***************************************************************************)
(* The bridge process from launch to exit (main.c, bridge_run and the      *)
(* outline of run_session in src/bridge.c): connecting, streaming,         *)
(* reconnecting with a backoff, stopping, and what it publishes about the  *)
(* headset in the ring, which outlives the process.                        *)
(***************************************************************************)
EXTENDS Naturals, Sequences

CONSTANTS MaxResets  \* bound on the port resets counted

ASSUME BridgeRunAssumption == MaxResets \in Nat \ {0, 1}

VARIABLES
  phase,       \* where the process is; "exited" if bridge_run returned 0,
               \* "absent" if there is no process for another reason
  stop,        \* the stop flag
  attempt,     \* attempt of bridge_run
  reenumerate, \* reenumerate_next
  wait,        \* seconds of the current or last backoff, 0 before the first
  deviceOnline,\* device_online of the ring
  device,      \* "off": nothing to open, "asleep": no handshake, "on"
  attached,    \* whether the dongle is on the bus after its last port reset
  handle,      \* whether the device this session opened is still there
  asked,       \* history: the user asked this process to stop
  resets,      \* history: port resets since audio last streamed
  lastResult,  \* history: what run_session last returned, 0 if nothing
  opened       \* history: no open has failed since audio last streamed

thread  == <<attempt, reenumerate, wait>>
history == <<asked, resets, lastResult, opened>>
headset == <<device, attached, handle>>
vars    == <<phase, stop, thread, deviceOnline, headset, history>>

Gone   == {"absent", "exited"}
Phases == Gone \cup {"launched", "entered", "loop", "open", "handshake",
           "authenticated", "streaming", "lost", "backoff"}

BackoffSecs == <<2, 4, 8, 15, 30>>

TypeOK ==
  /\ phase \in Phases
  /\ {stop, reenumerate, deviceOnline, attached, handle, asked, opened}
       \subseteq BOOLEAN
  /\ attempt \in 0..Len(BackoffSecs)
  /\ wait \in {0} \cup {BackoffSecs[i] : i \in DOMAIN BackoffSecs}
  /\ device \in {"off", "asleep", "on"}
  /\ resets \in 0..MaxResets
  /\ lastResult \in 0..2

Init ==
  /\ phase = "absent"
  /\ stop = FALSE
  /\ attempt = 0
  /\ reenumerate = TRUE
  /\ wait = 0
  /\ deviceOnline = FALSE
  /\ device \in {"off", "asleep", "on"}
  /\ attached = TRUE
  /\ handle = FALSE
  /\ asked = FALSE
  /\ resets = 0
  /\ lastResult = 0
  /\ opened = TRUE

----------------------------------------------------------------------------
(* Launch, and the start of bridge_run.                                    *)

\* main installs its signal handlers; nothing of an earlier process is left
\* but the ring.
Launch ==
  /\ phase \in Gone
  /\ phase' = "launched"
  /\ stop' = FALSE
  /\ attempt' = 0
  /\ reenumerate' = TRUE
  /\ wait' = 0
  /\ asked' = FALSE
  /\ resets' = 0
  /\ lastResult' = 0
  /\ opened' = TRUE
  /\ UNCHANGED <<deviceOnline, headset>>

EnterBridgeRun ==
  /\ phase = "launched"
  /\ phase' = "entered"
  /\ stop' = FALSE
  /\ UNCHANGED <<thread, deviceOnline, headset, history>>

\* ring_reset_status clears the headset's status but not device_online.
MapRing ==
  /\ phase = "entered"
  /\ phase' = "loop"
  /\ attempt' = 0
  /\ reenumerate' = TRUE
  /\ UNCHANGED <<stop, wait, deviceOnline, headset, history>>

MapRingFails ==
  /\ phase = "entered"
  /\ phase' = "absent"
  /\ UNCHANGED <<stop, thread, deviceOnline, headset, history>>

----------------------------------------------------------------------------
(* One session.                                                            *)

\* There is a device to open.
Present == device # "off" /\ attached

\* A port reset is due: the dongle leaves the bus and comes back by itself.
ResetPort ==
  /\ reenumerate
  /\ Present
  /\ attached' = FALSE
  /\ resets' = IF resets < MaxResets THEN resets + 1 ELSE resets

\* No reset is due, or there is nothing to reset, or the reset is refused.
NoReset == UNCHANGED <<attached, resets>>

\* The retry loop does not look at the stop flag.
BeginSessionUnchecked ==
  /\ phase = "loop"
  /\ phase' = "open"
  /\ reenumerate' = FALSE
  /\ ResetPort \/ NoReset
  /\ UNCHANGED <<stop, attempt, wait, deviceOnline, device, handle, asked,
                 lastResult, opened>>

\* run_session begins, with a port reset if one is due.
BeginSession ==
  /\ phase = "loop"
  /\ ~stop
  /\ phase' = "open"
  /\ reenumerate' = FALSE
  /\ ResetPort \/ NoReset
  /\ UNCHANGED <<stop, attempt, wait, deviceOnline, device, handle, asked,
                 lastResult, opened>>

Open ==
  /\ phase = "open"
  /\ Present
  /\ handle' = TRUE
  /\ phase' = "handshake"
  /\ UNCHANGED <<stop, thread, deviceOnline, device, attached, history>>

\* An awake headset completes the authentication.
Authenticate ==
  /\ phase = "handshake"
  /\ handle
  /\ device = "on"
  /\ phase' = "authenticated"
  /\ UNCHANGED <<stop, thread, deviceOnline, headset, history>>

\* Audio streams, from a headset that may have left since, and device_online
\* is set.
Stream ==
  /\ phase = "authenticated"
  /\ phase' = "streaming"
  /\ deviceOnline' = TRUE
  /\ resets' = 0
  /\ opened' = TRUE
  /\ UNCHANGED <<stop, thread, headset, asked, lastResult>>

\* A completion said the device is gone: the session closes and sleeps 2 s.
\* Nothing says that one ever does: submissions that are refused end nothing
\* (UnplugEndsSession of IsoTransfers).
Disconnected ==
  /\ phase = "streaming"
  /\ ~handle
  /\ ~stop
  /\ phase' = "lost"
  /\ UNCHANGED <<stop, thread, deviceOnline, headset, history>>

\* The table of delays is used round and round.
NextWaitWrapping(rc) ==
  LET a == IF rc = 2 \/ attempt = Len(BackoffSecs) THEN 0 ELSE attempt
  IN  /\ wait' = BackoffSecs[a + 1]
      /\ attempt' = a + 1
      /\ reenumerate' = (reenumerate \/ rc = 2)

\* Every retry asks for a port reset.
NextWaitResetting(rc) ==
  LET a == IF rc = 2 THEN 0 ELSE attempt
  IN  /\ wait' = BackoffSecs[IF a < Len(BackoffSecs) THEN a + 1
                             ELSE Len(BackoffSecs)]
      /\ attempt' = IF a < Len(BackoffSecs) THEN a + 1 ELSE a
      /\ reenumerate' = TRUE

\* A result of 2 starts the backoff over and asks for another port reset.
NextWait(rc) ==
  LET a == IF rc = 2 THEN 0 ELSE attempt
  IN  /\ wait' = BackoffSecs[IF a < Len(BackoffSecs) THEN a + 1
                             ELSE Len(BackoffSecs)]
      /\ attempt' = IF a < Len(BackoffSecs) THEN a + 1 ELSE a
      /\ reenumerate' = (reenumerate \/ rc = 2)

\* device_online is left as it is until the next session.
RetryStillOnline(rc) ==
  /\ phase' = "backoff"
  /\ lastResult' = rc
  /\ NextWait(rc)
  /\ UNCHANGED <<stop, deviceOnline, headset, asked, resets>>

\* run_session returns rc # 0 to bridge_run.
Retry(rc) ==
  /\ phase' = "backoff"
  /\ deviceOnline' = FALSE
  /\ lastResult' = rc
  /\ NextWait(rc)
  /\ UNCHANGED <<stop, headset, asked, resets>>

\* There is no device, another driver has it, or the reader cannot start.
OpenFails ==
  /\ phase = "open"
  /\ opened' = FALSE
  /\ Retry(2)

\* The audio interface cannot be opened, on a device that is there or not.
OpenAudioFails ==
  /\ phase = "handshake"
  /\ opened' = FALSE
  /\ Retry(2)

\* A failed handshake ends the bridge.
HandshakeFailsForGood ==
  /\ phase = "handshake"
  /\ phase' = "exited"
  /\ deviceOnline' = FALSE
  /\ lastResult' = 1
  /\ UNCHANGED <<stop, thread, headset, asked, resets, opened>>

\* Six seconds without authentication, for whatever reason: a headset that is
\* asleep or gone, a stop request, messages that were lost.
HandshakeFails ==
  /\ phase = "handshake"
  /\ UNCHANGED opened
  /\ Retry(1)

LostReturns ==
  /\ phase = "lost"
  /\ UNCHANGED opened
  /\ Retry(2)

\* bridge_run leaves its loop; device_online has been cleared.
Exit ==
  /\ phase \in {"loop", "streaming"}
  /\ stop
  /\ phase' = "exited"
  /\ deviceOnline' = IF phase = "streaming" THEN FALSE ELSE deviceOnline
  /\ UNCHANGED <<stop, thread, headset, history>>

BackoffOver ==
  /\ phase = "backoff"
  /\ phase' = "loop"
  /\ UNCHANGED <<stop, thread, deviceOnline, headset, history>>

----------------------------------------------------------------------------
(* The user and the headset.                                               *)

\* SIGINT, SIGTERM or the menu: bridge_stop.
RequestStop ==
  /\ phase \notin Gone
  /\ ~asked
  /\ stop' = TRUE
  /\ asked' = TRUE
  /\ UNCHANGED <<phase, thread, deviceOnline, headset, resets, lastResult,
                 opened>>

\* SIGKILL or a crash: no handler runs, the ring stays as it is.
Kill ==
  /\ phase \notin Gone
  /\ phase' = "absent"
  /\ UNCHANGED <<stop, thread, deviceOnline, headset, history>>

Headset ==
  /\ device' \in {"off", "asleep", "on"} \ {device}
  /\ handle' = (handle /\ device' # "off")
  /\ UNCHANGED <<phase, stop, thread, deviceOnline, attached, history>>

\* The dongle has re-enumerated.
Reattach ==
  /\ ~attached
  /\ attached' = TRUE
  /\ UNCHANGED <<phase, stop, thread, deviceOnline, device, handle, history>>

\* It did so within the two seconds that run_session gives it.
ReattachInTime == phase = "open" /\ Reattach

Bridge ==
  \/ EnterBridgeRun \/ MapRing \/ MapRingFails
  \/ BeginSession \/ Open \/ Authenticate \/ Stream
  \/ OpenFails \/ OpenAudioFails \/ HandshakeFails \/ LostReturns
  \/ Exit \/ BackoffOver

Next ==
  Launch \/ Bridge \/ Disconnected \/ RequestStop \/ Kill \/ Headset
    \/ Reattach

\* The bridge's thread is scheduled, and every wait of it is bounded but the
\* one for the end of a streaming session.  A reset, an open or a handshake may
\* fail for no fault of the headset, but not always: tried again and again, the
\* dongle is back within two seconds, can be opened, and an awake headset
\* answers (AuthHandshake).
Spec ==
  /\ Init /\ [][Next]_vars
  /\ WF_vars(Bridge)
  /\ SF_vars(ReattachInTime) /\ SF_vars(Open) /\ SF_vars(Authenticate)

----------------------------------------------------------------------------
(* Properties.                                                             *)

\* Once bridge_run is under way a stop request ends it, whatever it is doing.
StopEndsBridge ==
  (stop /\ phase # "launched") ~> (phase \in Gone)

\* A session streams to a device that is gone, and nothing has told it.
Unnoticed == phase = "streaming" /\ ~handle

\* Powering the headset on is enough to get audio: a running bridge never
\* gives up, however many resets, opens and handshakes have failed, as long as
\* no session goes on for ever without noticing that its device is gone.
HeadsetOnStreams ==
  (/\ <>[](/\ device = "on" /\ ~asked
           /\ phase \notin {"absent", "launched", "entered"})
   /\ []<>~Unnoticed)
    => <>[](phase = "streaming" /\ handle)

\* A headset that stays asleep is retried ever more slowly: the delay between
\* two failed handshakes is never shorter than the one before it.
AsleepRetriedSlower ==
  [][(lastResult = 1 /\ lastResult' = 1 /\ phase' = "backoff")
        => wait' >= wait]_vars

\* While every attempt can open the dongle, its port is reset once at most
\* between two sessions that stream, whatever the number of failed handshakes.
AsleepNotReset == opened => resets <= 1

\* From its first retry on, a bridge that is not streaming does not say it is,
\* even if the bridge before it was killed while it streamed.
OnlineHonestAfterRetry ==
  (lastResult # 0 /\ phase \in {"loop", "open", "handshake", "authenticated",
                                "backoff"})
    => ~deviceOnline

\* "The delay grows to a half minute and stays there": so it does for a bridge
\* left running in front of a headset that is not there.
BackoffGrows ==
  <>[](/\ device = "off" /\ ~asked
       /\ phase \notin Gone \cup {"launched", "streaming"})
    => <>[](wait = 30)

\* bridge_stop asks bridge_run to return, from a signal handler too.
AskedBridgeStops == asked ~> (phase \in Gone)
====
