---- MODULE RingMapping ----
(***************************************************************************)
(* Creation, sharing and survival of the ring: ring_map and ring_init      *)
(* (src/shared/ring.h) as the bridge runs them when it starts, as the      *)
(* plug-in runs them inside coreaudiod from EnsureRing                     *)
(* (src/plugin/XboxHeadset.c), and as a reader of the status runs them     *)
(* (src/menubar/ringshim.c, src/src/status.c).  Each may stop between any  *)
(* two system calls, and between any two steps of ring_init.               *)
(***************************************************************************)
EXTENDS Naturals

CONSTANTS
  RingExists,  \* whether a valid ring is there to begin with: the cases
  UmaskDenies, \* whether the bridge's umask denies coreaudiod
  MaxClients,  \* bound on the clients doing IO at once
  MaxCrashes   \* bound on the crashes

ASSUME MappingAssumption ==
  /\ RingExists \subseteq BOOLEAN
  /\ UmaskDenies \in BOOLEAN
  /\ MaxClients \in Nat \ {0}
  /\ MaxCrashes \in Nat

VARIABLES
  object,   \* the shared memory object: does it exist, may coreaudiod open
            \* it, has it its size, its magic, the IO flags, the host volume
  bridge,   \* where the bridge is in ring_map
  fresh,    \* fresh of the bridge's ring_map
  op,       \* what the plug-in does under gMutex
  step,     \* where it is in ring_map
  gRing,    \* whether the plug-in has the ring mapped
  gIOCount, \* clients doing IO
  gVolume,  \* gVolumeScalar: "full" or "zero"
  reader,   \* where a reader of the status is in ring_map
  crashes,
  served    \* whether the first of those clients got a valid ring (history)

plugin == <<op, step, gRing, gIOCount, gVolume>>
vars   == <<object, bridge, fresh, plugin, reader, crashes, served>>

Volumes == {"full", "zero"}
Ops     == {"none", "Initialize", "StartIO", "SetPropertyData"}

\* The steps of ring_init: the memset, the magic, the fields with a default.
Steps == {"clear", "magic", "fields"}

TypeOK ==
  /\ object \in [exists : BOOLEAN, open : BOOLEAN, sized : BOOLEAN,
                 magic : BOOLEAN, io : BOOLEAN, volume : Volumes]
  /\ bridge \in {"absent", "chmod", "truncate", "existing", "map", "up"}
                  \union Steps
  /\ fresh \in BOOLEAN
  /\ op \in Ops
  /\ step \in {"idle", "open", "map", "mapped"} \union Steps
  /\ gRing \in BOOLEAN
  /\ gIOCount \in 0..MaxClients
  /\ gVolume \in Volumes
  /\ reader \in {"away", "map"} \union Steps
  /\ crashes \in 0..MaxCrashes
  /\ served \in BOOLEAN
  /\ object.magic => object.sized
  /\ (op = "none") <=> (step = "idle")

Init ==
  /\ \E there \in RingExists :
       object = [exists |-> there, open |-> there, sized |-> there,
                 magic |-> there, io |-> FALSE, volume |-> "full"]
  /\ bridge = "absent"
  /\ fresh = FALSE
  /\ op = "Initialize"
  /\ step = "open"
  /\ gRing = FALSE
  /\ gIOCount = 0
  /\ gVolume = "full"
  /\ reader = "away"
  /\ crashes = 0
  /\ served = FALSE

\* ring_init, at a step of it, and where it goes on, to end at done.
Initialise(at) ==
  object' = CASE at = "clear"  -> [object EXCEPT !.magic = FALSE, !.io = FALSE,
                                                 !.volume = "zero"]
              [] at = "magic"  -> [object EXCEPT !.magic = TRUE]
              [] at = "fields" -> [object EXCEPT !.volume = "full"]

After(at, done) ==
  CASE at = "clear" -> "magic" [] at = "magic" -> "fields" [] OTHER -> done

\* Who has begun, or is bound, to initialise the ring.
Initialising ==
  \/ bridge \in Steps
  \/ bridge = "map" /\ fresh
  \/ step \in Steps
  \/ reader \in Steps

Valid == object.magic /\ ~Initialising

----------------------------------------------------------------------------
(* The bridge: ring_map(true).                                             *)

\* O_CREAT | O_EXCL, or open what exists.
Create ==
  /\ bridge = "absent"
  /\ IF object.exists
     THEN bridge' = "existing" /\ UNCHANGED object
     ELSE /\ bridge' = "chmod"
          /\ object' = [exists |-> TRUE, open |-> ~UmaskDenies,
                        sized |-> FALSE, magic |-> FALSE,
                        io |-> FALSE, volume |-> "zero"]
  /\ fresh' = ~object.exists
  /\ UNCHANGED <<plugin, reader, crashes, served>>

Chmod ==
  /\ bridge = "chmod"
  /\ bridge' = "truncate"
  /\ object' = [object EXCEPT !.open = TRUE]
  /\ UNCHANGED <<fresh, plugin, reader, crashes, served>>

Truncate ==
  /\ bridge = "truncate"
  /\ bridge' = "map"
  /\ object' = [object EXCEPT !.sized = TRUE]
  /\ UNCHANGED <<fresh, plugin, reader, crashes, served>>

\* An object too small is taken for somebody else's.
ExistingOrGiveUp ==
  /\ bridge = "existing"
  /\ bridge' = IF object.sized THEN "map" ELSE "absent"
  /\ UNCHANGED <<object, fresh, plugin, reader, crashes, served>>

\* Whoever finds the ring takes it for a new one.
ExistingAfresh ==
  /\ bridge = "existing"
  /\ bridge' = "map"
  /\ fresh' = TRUE
  /\ object' = [object EXCEPT !.sized = TRUE]
  /\ UNCHANGED <<plugin, reader, crashes, served>>

\* An existing object is resized only if a bridge died before it could do so.
Existing ==
  /\ bridge = "existing"
  /\ bridge' = "map"
  /\ fresh' = ~object.sized
  /\ object' = [object EXCEPT !.sized = TRUE]
  /\ UNCHANGED <<plugin, reader, crashes, served>>

\* ftruncate fails, and bridge_run ends.
TruncateFails ==
  /\ bridge = "truncate" \/ (bridge = "existing" /\ ~object.sized)
  /\ bridge' = "absent"
  /\ UNCHANGED <<object, fresh, plugin, reader, crashes, served>>

\* The magic is not looked at.
MapAfresh ==
  /\ bridge = "map"
  /\ bridge' = "clear"
  /\ UNCHANGED <<object, fresh, plugin, reader, crashes, served>>

\* mmap, and the magic: a ring that is not fresh and has it keeps what is in it.
Map ==
  /\ bridge = "map"
  /\ bridge' = IF fresh \/ ~object.magic THEN "clear" ELSE "up"
  /\ UNCHANGED <<object, fresh, plugin, reader, crashes, served>>

MapInit ==
  /\ bridge \in Steps
  /\ Initialise(bridge)
  /\ bridge' = After(bridge, "up")
  /\ UNCHANGED <<fresh, plugin, reader, crashes, served>>

BridgeEnds ==
  /\ bridge # "absent"
  /\ crashes < MaxCrashes
  /\ bridge' = "absent"
  /\ crashes' = crashes + 1
  /\ UNCHANGED <<object, fresh, plugin, reader, served>>

----------------------------------------------------------------------------
(* The plug-in.                                                            *)

\* A property is set, or a client starts IO, for which EnsureRing maps the ring
\* if it is not mapped and this is the first client.
Begin(o) ==
  /\ op = "none"
  /\ op' = o
  /\ step' = IF gRing THEN "mapped" ELSE "open"
  /\ UNCHANGED <<object, bridge, fresh, gRing, gIOCount, gVolume, reader,
                 crashes, served>>

BeginStartIO == gIOCount = 0 /\ Begin("StartIO")

MoreIO ==
  /\ op = "none"
  /\ gIOCount \in 1..(MaxClients - 1)
  /\ gIOCount' = gIOCount + 1
  /\ UNCHANGED <<object, bridge, fresh, op, step, gRing, gVolume, reader,
                 crashes, served>>

\* What the call does once EnsureRing is through: r says whether the ring is
\* mapped.
Finish(r) ==
  /\ op' = "none"
  /\ step' = "idle"
  /\ gRing' = r
  /\ gVolume' \in IF op = "SetPropertyData" THEN Volumes ELSE {gVolume}
  /\ gIOCount' = IF op = "StartIO" THEN gIOCount + 1 ELSE gIOCount
  /\ object' = IF ~r \/ op = "Initialize" THEN object
               ELSE IF op = "StartIO"
                    THEN [object EXCEPT !.volume = gVolume, !.io = TRUE]
                    ELSE [object EXCEPT !.volume = gVolume']
  /\ served' = IF op = "StartIO" THEN r /\ Valid ELSE served
  /\ UNCHANGED <<bridge, fresh, reader, crashes>>

\* The size of the object is not looked at.
OpenAnySize ==
  /\ step = "open"
  /\ IF object.exists /\ object.open
     THEN step' = "map"
          /\ UNCHANGED <<object, bridge, fresh, op, gRing, gIOCount, gVolume,
                         reader, crashes, served>>
     ELSE Finish(FALSE)

\* ring_map(false): shm_open and fstat, or no ring this time.
Open ==
  /\ step = "open"
  /\ IF object.exists /\ object.open /\ object.sized
     THEN step' = "map"
          /\ UNCHANGED <<object, bridge, fresh, op, gRing, gIOCount, gVolume,
                         reader, crashes, served>>
     ELSE Finish(FALSE)

\* mmap, and the magic.
Mmap ==
  /\ step = "map"
  /\ step' = IF object.magic THEN "mapped" ELSE "clear"
  /\ UNCHANGED <<object, bridge, fresh, op, gRing, gIOCount, gVolume, reader,
                 crashes, served>>

MmapInit ==
  /\ step \in Steps
  /\ Initialise(step)
  /\ step' = After(step, "mapped")
  /\ UNCHANGED <<bridge, fresh, op, gRing, gIOCount, gVolume, reader, crashes,
                 served>>

\* EnsureRing has the ring.
Mapped == step = "mapped" /\ Finish(TRUE)

StopIO ==
  /\ op = "none"
  /\ gIOCount > 0
  /\ gIOCount' = gIOCount - 1
  /\ object' = IF gIOCount = 1 /\ gRing THEN [object EXCEPT !.io = FALSE]
               ELSE object
  /\ UNCHANGED <<bridge, fresh, op, step, gRing, gVolume, reader, crashes,
                 served>>

\* coreaudiod dies and is started again.
PluginRestarts ==
  /\ crashes < MaxCrashes
  /\ crashes' = crashes + 1
  /\ op' = "Initialize"
  /\ step' = "open"
  /\ gRing' = FALSE
  /\ gIOCount' = 0
  /\ gVolume' = "full"
  /\ served' = FALSE
  /\ UNCHANGED <<object, bridge, fresh, reader>>

----------------------------------------------------------------------------
(* A reader of the status, run by the owner of the object: ring_map(false).  *)
(* What it reads once it has the ring changes nothing.                       *)

ReaderOpens ==
  /\ reader = "away"
  /\ object.exists /\ object.sized
  /\ reader' = "map"
  /\ UNCHANGED <<object, bridge, fresh, plugin, crashes, served>>

ReaderMaps ==
  /\ reader = "map"
  /\ reader' = IF object.magic THEN "away" ELSE "clear"
  /\ UNCHANGED <<object, bridge, fresh, plugin, crashes, served>>

ReaderInit ==
  /\ reader \in Steps
  /\ Initialise(reader)
  /\ reader' = After(reader, "away")
  /\ UNCHANGED <<bridge, fresh, plugin, crashes, served>>

ReaderDies ==
  /\ reader # "away"
  /\ crashes < MaxCrashes
  /\ reader' = "away"
  /\ crashes' = crashes + 1
  /\ UNCHANGED <<object, bridge, fresh, plugin, served>>

----------------------------------------------------------------------------
Bridge  == Create \/ Chmod \/ Truncate \/ Existing \/ TruncateFails \/ Map
           \/ MapInit
Mapping == Open \/ Mmap \/ MmapInit \/ Mapped
Reader  == ReaderOpens \/ ReaderMaps \/ ReaderInit

Next ==
  \/ Bridge \/ BridgeEnds
  \/ Begin("SetPropertyData") \/ BeginStartIO \/ MoreIO \/ Mapping \/ StopIO
  \/ PluginRestarts
  \/ Reader \/ ReaderDies

\* The bridge is started until it is up (at login, or by hand), and ftruncate
\* does not fail for ever; a call of the plug-in ends.
Spec ==
  /\ Init /\ [][Next]_vars
  /\ WF_vars(Bridge) /\ SF_vars(Truncate) /\ SF_vars(Existing)
  /\ WF_vars(Mapping)

----------------------------------------------------------------------------
(* Properties.                                                             *)

\* A process that has mapped the ring has mapped all of it, whatever the bridge
\* was doing when it did.
MappedIsSized ==
  \/ object.sized
  \/ /\ ~gRing /\ step \in {"idle", "open"}
     /\ bridge \in {"absent", "chmod", "truncate", "existing"}
     /\ reader = "away"

\* "A bridge restart must preserve the counters and data of a valid ring": a
\* ring that is valid while nobody is initialising it is never initialised
\* again, and from then on only the plug-in changes its flag and its volume.
PeerUndisturbed ==
  [][Valid => Valid' /\ (UNCHANGED plugin => UNCHANGED object)]_vars

\* A bridge "does not disturb a live HAL peer", in the middle of ring_init
\* either.
PeerNeverDisturbed ==
  [][(gRing /\ gIOCount > 0 /\ bridge' # bridge) => UNCHANGED object]_vars

\* While clients do IO, of which the first got a valid ring, the ring says so
\* and shows the volume the plug-in applies: StartIO publishes both "up front",
\* and no restart of the bridge or of a reader loses them.
PublishedWhileIO ==
  (served /\ gIOCount > 0) => object.io /\ object.volume = gVolume

\* The object that a bridge killed between shm_open and fchmod leaves behind.
Denied == object.exists /\ ~object.open /\ bridge # "chmod"

\* If no such object is left behind, a later start of the bridge completes
\* what a crash or a failed ftruncate left of the ring, and a plug-in that keeps
\* starting IO gets it.
PluginGetsRing == []~Denied => ([]<>(op = "StartIO") => <>[]gRing)

\* The same whatever is left behind.
PluginAlwaysGetsRing == []<>(op = "StartIO") => <>[]gRing

\* "Only a short read while the HAL is actually running IO is starvation": the
\* flag the bridge goes by is up from when clients' frames go into the ring.
IoFlagFollowsIO ==
  [][(~gRing /\ gRing' /\ gIOCount' > 0) => object'.io]_vars

----------------------------------------------------------------------------
(* Why they hold: an inductive invariant, by parts.                        *)

\* The object is created before anything is done with it, and has no size yet
\* when the bridge that created it is about to give it one.
CreationInv ==
  /\ object.sized => object.exists
  /\ bridge # "absent" => object.exists
  /\ bridge \in {"chmod", "truncate"} => ~object.sized

\* A ring that served its clients stays valid, and mapped.
ServedInv == served => Valid /\ gRing /\ PublishedWhileIO

\* The ring is opened at start-up and for the first client.
FirstClientInv == op \in {"Initialize", "StartIO"} => gIOCount = 0

\* Only a plug-in that has no ring runs ring_map.
EnsureInv == step \in {"open", "map"} \union Steps => ~gRing

IInv ==
  /\ TypeOK /\ MappedIsSized
  /\ CreationInv /\ ServedInv /\ FirstClientInv /\ EnsureInv
====
