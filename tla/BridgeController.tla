---- MODULE BridgeController ----
(***************************************************************************)
(* The menu bar app (src/menubar/BridgeController.swift): its main thread, *)
(* which polls, starts and stops, the threads it runs bridge_run on, and a *)
(* standalone gip-bridge somebody may run beside it.                       *)
(***************************************************************************)
EXTENDS FiniteSets, Naturals

CONSTANTS Threads  \* bridge threads of one app; it may not need them all

ASSUME ControllerAssumption == Threads # {} /\ IsFiniteSet(Threads)

VARIABLES
  app,       \* "absent", "open" or "quitting" (applicationWillTerminate)
  state,     \* state of the controller
  automatic, \* startsAutomatically
  pc,        \* where each bridge thread is
  running,   \* running of bridge.c
  stop,      \* stop of bridge.c
  external   \* whether a standalone gip-bridge runs

core == <<running, stop>>
appVars == <<app, state, automatic, pc, core, external>>

States == {"stopped", "running", "runningExternally", "failed"}
PCs    == {"idle", "spawned", "mapping", "session", "stopped", "failed"}

\* Besides the types: bridge_is_running is never left true by a bridge that
\* ended, on its error path either.
ControllerTypeOK ==
  /\ app \in {"absent", "open", "quitting"}
  /\ state \in States
  /\ pc \in [Threads -> PCs]
  /\ {automatic, running, stop, external} \subseteq BOOLEAN
  /\ running => \E t \in Threads : pc[t] \in {"mapping", "session"}

ControllerInit ==
  /\ app = "absent"
  /\ state = "stopped"
  /\ automatic \in BOOLEAN
  /\ pc = [t \in Threads |-> "idle"]
  /\ running = FALSE /\ stop = FALSE
  /\ external \in BOOLEAN

----------------------------------------------------------------------------
(* The main thread: one method at a time.                                  *)

\* The state is only ever raised to running.
RefreshedUpward(s) ==
  IF running THEN "running" ELSE IF external THEN "runningExternally" ELSE s

\* What refresh makes of a state: an error stays until the user tries again.
Refreshed(s) ==
  IF running THEN "running"
  ELSE IF external THEN "runningExternally"
  ELSE IF s = "failed" THEN s
  ELSE "stopped"

\* start(), in a controller whose state is s.
Start(s) ==
  \/ /\ external
     /\ state' = "runningExternally"
     /\ UNCHANGED pc
  \/ /\ ~external
     /\ state' = "running"
     /\ \E t \in Threads : pc[t] = "idle" /\ pc' = [pc EXCEPT ![t] = "spawned"]

OpenApp ==
  /\ app = "absent"
  /\ app' = "open"
  /\ IF automatic /\ Refreshed("stopped") = "stopped"
     THEN Start("stopped")
     ELSE state' = Refreshed("stopped") /\ UNCHANGED pc
  /\ UNCHANGED <<automatic, core, external>>

Poll ==
  /\ app = "open"
  /\ state' = Refreshed(state)
  /\ UNCHANGED <<app, automatic, pc, core, external>>

PressStart ==
  /\ app = "open"
  /\ state \in {"stopped", "failed"}
  /\ Start(state)
  /\ UNCHANGED <<app, automatic, core, external>>

\* The button reads Stop Bridge before a standalone bridge as well, and then
\* does nothing.
PressStop ==
  /\ app = "open"
  /\ state = "running"
  /\ IF running
     THEN stop' = TRUE /\ UNCHANGED state
     ELSE state' = "stopped" /\ UNCHANGED stop
  /\ UNCHANGED <<app, automatic, pc, running, external>>

\* Every bridge ends well.
ResultIgnored(t) == "stopped"

\* What bridgeThreadFinished makes of the result.
Result(t) == IF pc[t] = "stopped" THEN "stopped" ELSE "failed"

\* The task a bridge thread left for the main thread.
BridgeThreadFinished(t) ==
  /\ app = "open"
  /\ pc[t] \in {"stopped", "failed"}
  /\ state' = Refreshed(Result(t))
  /\ pc' = [pc EXCEPT ![t] = "idle"]
  /\ UNCHANGED <<app, automatic, core, external>>

SetAutomatic ==
  /\ app = "open"
  /\ automatic' = ~automatic
  /\ UNCHANGED <<app, state, pc, core, external>>

\* stopIfOwned blocks the main thread.
Quit ==
  /\ app = "open"
  /\ app' = "quitting"
  /\ stop' = (stop \/ running)
  /\ UNCHANGED <<state, automatic, pc, running, external>>

\* The bridge has stopped, or two seconds are over: the process ends.
Exit ==
  /\ app = "quitting"
  /\ app' = "absent"
  /\ state' = "stopped"
  /\ pc' = [t \in Threads |-> "idle"]
  /\ running' = FALSE /\ stop' = FALSE
  /\ UNCHANGED <<automatic, external>>

----------------------------------------------------------------------------
(* The bridge threads, and the standalone bridge.                          *)

\* bridge_run begins.
Enter(t) ==
  /\ pc[t] = "spawned"
  /\ pc' = [pc EXCEPT ![t] = "mapping"]
  /\ stop' = FALSE
  /\ running' = TRUE
  /\ UNCHANGED <<app, state, automatic, external>>

Mapped(t) ==
  /\ pc[t] = "mapping"
  /\ pc' = [pc EXCEPT ![t] = "session"]
  /\ UNCHANGED <<app, state, automatic, core, external>>

\* The error path leaves running set.
MapFailsRunning(t) ==
  /\ pc[t] = "mapping"
  /\ pc' = [pc EXCEPT ![t] = "failed"]
  /\ UNCHANGED <<app, state, automatic, core, external>>

MapFails(t) ==
  /\ pc[t] = "mapping"
  /\ pc' = [pc EXCEPT ![t] = "failed"]
  /\ running' = FALSE
  /\ UNCHANGED <<app, state, automatic, stop, external>>

Return(t) ==
  /\ pc[t] = "session"
  /\ stop
  /\ pc' = [pc EXCEPT ![t] = "stopped"]
  /\ running' = FALSE
  /\ UNCHANGED <<app, state, automatic, stop, external>>

External ==
  /\ external' = ~external
  /\ UNCHANGED <<app, state, automatic, pc, core>>

BridgeThread(t) == Enter(t) \/ Mapped(t) \/ MapFails(t) \/ Return(t)

ControllerNext ==
  \/ OpenApp \/ Poll \/ PressStart \/ PressStop \/ SetAutomatic \/ Quit \/ Exit
  \/ External
  \/ \E t \in Threads : BridgeThread(t) \/ BridgeThreadFinished(t)

\* The timer fires every second, threads and queued tasks run.  Nobody has to
\* press anything.
ControllerSpec ==
  /\ ControllerInit
  /\ [][ControllerNext]_appVars
  /\ WF_appVars(Poll)
  /\ WF_appVars(Exit)
  /\ \A t \in Threads : /\ WF_appVars(BridgeThread(t))
                        /\ WF_appVars(BridgeThreadFinished(t))

----------------------------------------------------------------------------
(* Properties.                                                             *)

\* What the panel shows ends up being what the bridge does, however starts,
\* stops, polls and the end of bridge threads interleave.
StateFollowsBridge ==
  /\ <>[](app = "open" /\ running) => <>[](state = "running")
  /\ <>[](app = "open" /\ ~running /\ ~external)
       => []<>(state \in {"stopped", "failed"})

\* A bridge that cannot map the ring is reported: no poll hides the failure
\* before its thread has told the controller of it.
FailureShown ==
  \A t \in Threads :
    (pc[t] = "failed")
      ~> (state = "failed" \/ running \/ external \/ app # "open")

\* "There is exactly one bridge per process": at most one thread is in
\* bridge_run.
OneBridge ==
  Cardinality({t \in Threads : pc[t] \in {"mapping", "session"}}) <= 1
====
