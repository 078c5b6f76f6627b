---- MODULE RingMapping_proofs ----
(***************************************************************************)
(* Proofs about RingMapping for any number of clients and of crashes, with *)
(* and without a ring to begin with, and any umask.                        *)
(***************************************************************************)
EXTENDS RingMapping, TLAPS

\* What the object may be, and where the bridge and a reader may be.
Objects == [exists : BOOLEAN, open : BOOLEAN, sized : BOOLEAN,
            magic : BOOLEAN, io : BOOLEAN, volume : Volumes]
Places  == {"absent", "chmod", "truncate", "existing", "map", "up"} \union Steps
Readers == {"away", "map"} \union Steps

\* ring_init leaves the existence, the access and the size alone.
LEMMA InitialiseFacts ==
  ASSUME object \in Objects, NEW at \in Steps, Initialise(at)
  PROVE  /\ object' \in Objects
         /\ object'.exists = object.exists /\ object'.open = object.open
         /\ object'.sized = object.sized
<1>1. CASE at = "clear"
  <2>1. object' = [object EXCEPT !.magic = FALSE, !.io = FALSE,
                                 !.volume = "zero"]
    BY <1>1 DEF Initialise
  <2> QED BY <2>1 DEF Objects, Volumes
<1>2. CASE at = "magic"
  <2>1. object' = [object EXCEPT !.magic = TRUE]
    BY <1>2 DEF Initialise
  <2> QED BY <2>1 DEF Objects
<1>3. CASE at = "fields"
  <2>1. object' = [object EXCEPT !.volume = "full"]
    BY <1>3 DEF Initialise
  <2> QED BY <2>1 DEF Objects, Volumes
<1> QED BY <1>1, <1>2, <1>3 DEF Steps

\* It goes from step to step, and ends.
LEMMA AfterFacts ==
  ASSUME NEW at \in Steps, NEW done
  PROVE  After(at, done) \in Steps \union {done}
BY DEF After, Steps

----------------------------------------------------------------------------
(* The bridge and the readers.                                             *)

Others == Bridge \/ BridgeEnds \/ Reader \/ ReaderDies

\* None of their steps touches a valid ring, or begins to initialise it.
LEMMA ValidKept ==
  ASSUME TypeOK, CreationInv, Others, Valid
  PROVE  object' = object /\ Valid'
<1>0. /\ object \in Objects /\ object.magic /\ object.sized /\ object.exists
      /\ bridge \notin Steps \union {"chmod", "truncate"}
      /\ ~(bridge = "map" /\ fresh)
      /\ step \notin Steps /\ reader \notin Steps
  BY DEF TypeOK, CreationInv, Valid, Initialising, Objects
<1>1. /\ object' = object /\ step' = step
      /\ bridge' \notin Steps /\ ~(bridge' = "map" /\ fresh')
      /\ reader' \notin Steps
  <2>1. CASE Create \/ Chmod \/ Truncate \/ TruncateFails \/ Map \/ MapInit
    BY <1>0, <2>1
      DEF Create, Chmod, Truncate, TruncateFails, Map, MapInit, plugin, Steps
  <2>2. CASE Existing
    <3>1. object' = [object EXCEPT !.sized = TRUE]
      BY <2>2 DEF Existing
    <3>2. object' = object
      BY <1>0, <3>1 DEF Objects
    <3> QED BY <1>0, <2>2, <3>2 DEF Existing, plugin, Steps
  <2>3. CASE BridgeEnds \/ ReaderDies
    BY <1>0, <2>3 DEF BridgeEnds, ReaderDies, plugin, Steps
  <2>4. CASE Reader
    BY <1>0, <2>4
      DEF Reader, ReaderOpens, ReaderMaps, ReaderInit, plugin, Steps
  <2> QED BY <2>1, <2>2, <2>3, <2>4 DEF Others, Bridge
<1> QED BY <1>0, <1>1 DEF Valid, Initialising

\* They leave the plug-in alone, and the object in one of its states.
LEMMA OthersTypes ==
  ASSUME TypeOK, MappedIsSized, CreationInv, Others
  PROVE  /\ UNCHANGED <<plugin, served>>
         /\ object' \in Objects /\ bridge' \in Places /\ fresh' \in BOOLEAN
         /\ reader' \in Readers /\ crashes' \in 0..MaxCrashes
         /\ object'.magic => object'.sized
         /\ object.sized => object'.sized
<1> USE MappingAssumption DEF Places, Readers
<1>0. /\ object \in Objects /\ bridge \in Places /\ fresh \in BOOLEAN
      /\ reader \in Readers /\ crashes \in 0..MaxCrashes
      /\ object.magic => object.sized
      /\ bridge \in Steps \/ reader \in Steps => object.sized
  BY DEF TypeOK, MappedIsSized, Objects, Steps
<1>1. CASE Create
  <2>1. CASE object.exists
    BY <1>0, <1>1, <2>1 DEF Create
  <2>2. CASE ~object.exists
    <3>1. object' = [exists |-> TRUE, open |-> ~UmaskDenies,
                     sized |-> FALSE, magic |-> FALSE,
                     io |-> FALSE, volume |-> "zero"]
      BY <1>1, <2>2 DEF Create
    <3>2. object' \in Objects /\ ~object'.magic /\ ~object.sized
      BY <2>2, <3>1 DEF Objects, Volumes, CreationInv
    <3> QED BY <1>0, <1>1, <2>2, <3>2 DEF Create
  <2> QED BY <2>1, <2>2
<1>2. CASE Chmod
  <2>1. object' = [object EXCEPT !.open = TRUE]
    BY <1>2 DEF Chmod
  <2>2. /\ object' \in Objects /\ object'.sized = object.sized
        /\ object'.magic = object.magic
    BY <1>0, <2>1 DEF Objects
  <2> QED BY <1>0, <1>2, <2>2 DEF Chmod
<1>3. CASE Truncate \/ Existing
  <2>1. object' = [object EXCEPT !.sized = TRUE]
    BY <1>3 DEF Truncate, Existing
  <2>2. object' \in Objects /\ object'.sized
    BY <1>0, <2>1 DEF Objects
  <2>3. object.sized \in BOOLEAN
    BY <1>0 DEF Objects
  <2> QED BY <1>0, <1>3, <2>2, <2>3 DEF Truncate, Existing
<1>4. CASE TruncateFails \/ Map
  BY <1>0, <1>4 DEF TruncateFails, Map, Steps
<1>5. CASE MapInit
  <2>1. object' \in Objects /\ object'.sized
    BY <1>0, <1>5, InitialiseFacts DEF MapInit
  <2>2. bridge' \in Places
    BY <1>5, AfterFacts DEF MapInit
  <2> QED BY <1>0, <1>5, <2>1, <2>2 DEF MapInit
<1>6. CASE BridgeEnds \/ ReaderDies
  BY <1>0, <1>6 DEF BridgeEnds, ReaderDies
<1>7. CASE ReaderOpens \/ ReaderMaps
  BY <1>0, <1>7 DEF ReaderOpens, ReaderMaps, Steps
<1>8. CASE ReaderInit
  <2>1. object' \in Objects /\ object'.sized
    BY <1>0, <1>8, InitialiseFacts DEF ReaderInit
  <2>2. reader' \in Readers
    BY <1>8, AfterFacts DEF ReaderInit
  <2> QED BY <1>0, <1>8, <2>1, <2>2 DEF ReaderInit
<1> QED
  BY <1>1, <1>2, <1>3, <1>4, <1>5, <1>6, <1>7, <1>8
    DEF Others, Bridge, Reader

\* The object is created, and given its size, before they map it.
LEMMA OthersSizes ==
  ASSUME TypeOK, MappedIsSized, CreationInv, Others
  PROVE  MappedIsSized' /\ CreationInv'
<1>0. /\ object \in Objects
      /\ object.sized => object.exists
      /\ bridge # "absent" => object.exists
      /\ bridge \in {"chmod", "truncate"} => ~object.sized
      /\ \/ object.sized
         \/ /\ ~gRing /\ step \in {"idle", "open"}
            /\ bridge \in {"absent", "chmod", "truncate", "existing"}
            /\ reader = "away"
  BY DEF TypeOK, MappedIsSized, CreationInv, Objects
<1>1. CASE Create
  <2>1. CASE object.exists
    BY <1>0, <1>1, <2>1 DEF Create, MappedIsSized, CreationInv, plugin
  <2>2. CASE ~object.exists
    <3>1. /\ object'.exists /\ ~object'.sized /\ bridge' = "chmod"
          /\ UNCHANGED <<plugin, reader>>
      BY <1>1, <2>2 DEF Create
    <3> QED BY <1>0, <2>2, <3>1 DEF MappedIsSized, CreationInv, plugin
  <2> QED BY <2>1, <2>2
<1>2. CASE Chmod
  <2>1. object' = [object EXCEPT !.open = TRUE]
    BY <1>2 DEF Chmod
  <2>2. object'.sized = object.sized /\ object'.exists = object.exists
    BY <1>0, <2>1 DEF Objects
  <2> QED BY <1>0, <1>2, <2>2 DEF Chmod, MappedIsSized, CreationInv, plugin
<1>3. CASE Truncate \/ Existing
  <2>1. object' = [object EXCEPT !.sized = TRUE]
    BY <1>3 DEF Truncate, Existing
  <2>2. object'.sized /\ object'.exists = object.exists
    BY <1>0, <2>1 DEF Objects
  <2> QED BY <1>0, <1>3, <2>2
          DEF Truncate, Existing, MappedIsSized, CreationInv
<1>4. CASE TruncateFails \/ Map \/ BridgeEnds
  BY <1>0, <1>4
    DEF TruncateFails, Map, BridgeEnds, MappedIsSized, CreationInv, plugin
<1>5. CASE MapInit
  <2>1. object.sized /\ bridge # "absent"
    BY <1>0, <1>5 DEF MapInit, Steps
  <2>2. object'.sized /\ object'.exists
    BY <1>0, <1>5, <2>1, InitialiseFacts DEF MapInit
  <2>3. bridge' \in Steps \union {"up"}
    BY <1>5, AfterFacts DEF MapInit
  <2> QED BY <2>2, <2>3 DEF MappedIsSized, CreationInv, Steps
<1>6. CASE ReaderOpens \/ ReaderMaps \/ ReaderDies
  BY <1>0, <1>6
    DEF ReaderOpens, ReaderMaps, ReaderDies, MappedIsSized, CreationInv, plugin
<1>7. CASE ReaderInit
  <2>1. object.sized
    BY <1>0, <1>7 DEF ReaderInit, Steps
  <2>2. object'.sized /\ object'.exists
    BY <1>0, <1>7, <2>1, InitialiseFacts DEF ReaderInit
  <2> QED BY <1>0, <1>7, <2>1, <2>2 DEF ReaderInit, MappedIsSized, CreationInv
<1> QED
  BY <1>1, <1>2, <1>3, <1>4, <1>5, <1>6, <1>7 DEF Others, Bridge, Reader

\* The steps of the bridge and of the readers keep the invariant.
LEMMA OthersInv == IInv /\ Others => IInv'
<1> SUFFICES ASSUME IInv, Others PROVE IInv'
  OBVIOUS
<1>0. /\ TypeOK /\ MappedIsSized /\ CreationInv
      /\ ServedInv /\ FirstClientInv /\ EnsureInv
  BY DEF IInv
<1>1. /\ UNCHANGED <<plugin, served>>
      /\ object' \in Objects /\ bridge' \in Places /\ fresh' \in BOOLEAN
      /\ reader' \in Readers /\ crashes' \in 0..MaxCrashes
      /\ object'.magic => object'.sized
  BY <1>0, OthersTypes
<1>2. TypeOK'
  BY <1>0, <1>1 DEF TypeOK, plugin, Objects, Places, Readers
<1>3. MappedIsSized' /\ CreationInv'
  BY <1>0, OthersSizes
<1>4. ServedInv'
  <2> SUFFICES ASSUME served' PROVE Valid' /\ gRing' /\ PublishedWhileIO'
    BY DEF ServedInv
  <2>1. served /\ Valid /\ gRing /\ PublishedWhileIO
    BY <1>0, <1>1 DEF ServedInv
  <2>2. object' = object /\ Valid'
    BY <1>0, <2>1, ValidKept
  <2> QED BY <1>1, <2>1, <2>2 DEF PublishedWhileIO, plugin
<1>5. FirstClientInv' /\ EnsureInv'
  BY <1>0, <1>1 DEF FirstClientInv, EnsureInv, plugin
<1> QED BY <1>2, <1>3, <1>4, <1>5 DEF IInv

----------------------------------------------------------------------------
(* The plug-in.                                                            *)

\* A call of the plug-in ends with the ring as ring_map left it, but for the
\* flag and the volume it publishes.
LEMMA FinishFacts ==
  ASSUME NEW r \in BOOLEAN, TypeOK, FirstClientInv, op # "none", Finish(r)
  PROVE  /\ object' \in Objects
         /\ gIOCount' \in 0..MaxClients /\ gVolume' \in Volumes
         /\ gRing' = r /\ step' = "idle" /\ op' = "none"
         /\ UNCHANGED <<bridge, fresh, reader, crashes>>
         /\ object'.exists = object.exists /\ object'.open = object.open
         /\ object'.sized = object.sized /\ object'.magic = object.magic
<1>0. /\ MaxClients \in Nat \ {0} /\ gIOCount \in 0..MaxClients
      /\ gVolume \in Volumes /\ object \in Objects
  BY MappingAssumption DEF TypeOK, Objects
<1>1. gVolume' \in Volumes
  BY <1>0 DEF Finish
<1>2. gIOCount' \in 0..MaxClients
  BY <1>0 DEF Finish, FirstClientInv
<1>3. \/ object' = object
      \/ object' = [object EXCEPT !.volume = gVolume, !.io = TRUE]
      \/ object' = [object EXCEPT !.volume = gVolume']
  BY DEF Finish
<1>4. /\ object' \in Objects
      /\ object'.exists = object.exists /\ object'.open = object.open
      /\ object'.sized = object.sized /\ object'.magic = object.magic
  BY <1>0, <1>1, <1>3 DEF Objects
<1>5. QED
  BY <1>1, <1>2, <1>4 DEF Finish

\* A call that gets the ring publishes what StartIO has to, and keeps what is
\* published already.
LEMMA FinishPublishes ==
  ASSUME TypeOK, FirstClientInv, op # "none", Finish(TRUE), PublishedWhileIO,
         served'
  PROVE  PublishedWhileIO'
<1>0. gIOCount \in Nat /\ gVolume \in Volumes /\ object \in Objects
  BY MappingAssumption DEF TypeOK, Objects
<1>1. gVolume' \in Volumes
  BY <1>0 DEF Finish
<1>2. CASE op = "Initialize"
  BY <1>0, <1>2 DEF Finish, FirstClientInv, PublishedWhileIO
<1>3. CASE op = "StartIO"
  BY <1>0, <1>1, <1>3 DEF Finish, Objects, PublishedWhileIO
<1>4. CASE op = "SetPropertyData"
  <2>1. object' = [object EXCEPT !.volume = gVolume']
    BY <1>4 DEF Finish
  <2>2. object'.io = object.io /\ object'.volume = gVolume'
    BY <1>0, <1>1, <2>1 DEF Objects
  <2> QED BY <1>0, <1>4, <2>2 DEF Finish, PublishedWhileIO
<1>5. QED
  BY <1>2, <1>3, <1>4 DEF TypeOK, Ops

\* A call of the plug-in that ends, with or without the ring.
LEMMA FinishInv ==
  ASSUME IInv, NEW r \in BOOLEAN, op # "none", Finish(r), step \notin Steps,
         IF r THEN object.sized ELSE ~gRing
  PROVE  IInv'
<1>0. /\ TypeOK /\ MappedIsSized /\ CreationInv
      /\ ServedInv /\ FirstClientInv /\ EnsureInv
  BY DEF IInv
<1>1. /\ object' \in Objects
      /\ gIOCount' \in 0..MaxClients /\ gVolume' \in Volumes
      /\ gRing' = r /\ step' = "idle" /\ op' = "none"
      /\ UNCHANGED <<bridge, fresh, reader, crashes>>
      /\ object'.exists = object.exists /\ object'.open = object.open
      /\ object'.sized = object.sized /\ object'.magic = object.magic
  BY <1>0, FinishFacts
<1>2. Valid' = Valid
  BY <1>1 DEF Valid, Initialising, Steps
<1>3. served' \in BOOLEAN
  BY <1>0 DEF Finish, TypeOK, Valid, Initialising
<1>4. TypeOK'
  BY <1>0, <1>1, <1>3 DEF TypeOK, Objects, Ops
<1>5. MappedIsSized' /\ CreationInv' /\ FirstClientInv' /\ EnsureInv'
  BY <1>0, <1>1 DEF MappedIsSized, CreationInv, FirstClientInv, EnsureInv, Steps
<1>6. ServedInv'
  <2> SUFFICES ASSUME served' PROVE Valid' /\ gRing' /\ PublishedWhileIO'
    BY DEF ServedInv
  <2>1. r /\ Valid
    BY <1>0 DEF Finish, ServedInv
  <2>2. PublishedWhileIO
    BY <1>0 DEF ServedInv, PublishedWhileIO
  <2>3. Finish(TRUE)
    BY <2>1
  <2> QED BY <1>0, <1>1, <1>2, <2>1, <2>2, <2>3, FinishPublishes
<1> QED BY <1>4, <1>5, <1>6 DEF IInv

\* The calls of the plug-in, and its restart.
Plugin ==
  \/ Begin("SetPropertyData") \/ BeginStartIO \/ MoreIO \/ Mapping \/ StopIO
  \/ PluginRestarts

\* They keep the invariant.
LEMMA PluginInv ==
  ASSUME IInv, Plugin
  PROVE  IInv'
<1> USE MappingAssumption
<1>0. /\ TypeOK /\ MappedIsSized /\ CreationInv
      /\ ServedInv /\ FirstClientInv /\ EnsureInv
  BY DEF IInv
<1>1. object \in Objects /\ gRing \in BOOLEAN /\ gIOCount \in 0..MaxClients
  BY <1>0 DEF TypeOK, Objects
<1>2. CASE Begin("SetPropertyData") \/ BeginStartIO
  <2>1. /\ UNCHANGED <<object, bridge, fresh, gRing, gIOCount, gVolume, reader,
                       crashes, served>>
        /\ step = "idle" /\ step' = IF gRing THEN "mapped" ELSE "open"
        /\ op' \in {"SetPropertyData", "StartIO"}
        /\ op' = "StartIO" => gIOCount = 0
    BY <1>0, <1>2 DEF Begin, BeginStartIO, TypeOK
  <2>2. /\ TypeOK' /\ MappedIsSized' /\ CreationInv' /\ FirstClientInv'
        /\ EnsureInv'
    BY <1>0, <2>1 DEF TypeOK, Ops, MappedIsSized, CreationInv, FirstClientInv,
                      EnsureInv, Steps
  <2>3. ServedInv'
    BY <1>0, <2>1
      DEF ServedInv, Valid, Initialising, Steps, PublishedWhileIO
  <2> QED BY <2>2, <2>3 DEF IInv
<1>3. CASE MoreIO
  <2>1. /\ UNCHANGED <<object, bridge, fresh, op, step, gRing, gVolume, reader,
                       crashes, served>>
        /\ op = "none" /\ gIOCount > 0 /\ gIOCount' \in 0..MaxClients
    BY <1>1, <1>3 DEF MoreIO
  <2>2. /\ TypeOK' /\ MappedIsSized' /\ CreationInv' /\ FirstClientInv'
        /\ EnsureInv'
    BY <1>0, <2>1 DEF TypeOK, MappedIsSized, CreationInv, FirstClientInv,
                      EnsureInv
  <2>3. ServedInv'
    BY <1>0, <2>1 DEF ServedInv, Valid, Initialising, PublishedWhileIO
  <2> QED BY <2>2, <2>3 DEF IInv
<1>4. CASE Open
  <2>1. CASE object.exists /\ object.open /\ object.sized
    <3>1. /\ UNCHANGED <<object, bridge, fresh, op, gRing, gIOCount, gVolume,
                         reader, crashes, served>>
          /\ step = "open" /\ step' = "map"
      BY <1>4, <2>1 DEF Open
    <3>2. /\ TypeOK' /\ MappedIsSized' /\ CreationInv' /\ FirstClientInv'
          /\ EnsureInv'
      BY <1>0, <2>1, <3>1
        DEF TypeOK, MappedIsSized, CreationInv, FirstClientInv, EnsureInv
    <3>3. ServedInv'
      BY <1>0, <3>1 DEF ServedInv, Valid, Initialising, Steps, PublishedWhileIO
    <3> QED BY <3>2, <3>3 DEF IInv
  <2>2. CASE ~(object.exists /\ object.open /\ object.sized)
    <3>1. Finish(FALSE) /\ op # "none" /\ step \notin Steps /\ ~gRing
      BY <1>0, <1>4, <2>2 DEF Open, TypeOK, EnsureInv, Steps
    <3> QED BY <3>1, FinishInv
  <2>3. QED
    BY <2>1, <2>2
<1>5. CASE Mmap
  <2>1. /\ UNCHANGED <<object, bridge, fresh, op, gRing, gIOCount, gVolume,
                       reader, crashes, served>>
        /\ step = "map" /\ step' = IF object.magic THEN "mapped" ELSE "clear"
    BY <1>5 DEF Mmap
  <2>2. object.sized /\ ~gRing /\ ~served
    BY <1>0, <2>1 DEF MappedIsSized, EnsureInv, ServedInv
  <2>3. /\ TypeOK' /\ MappedIsSized' /\ CreationInv' /\ FirstClientInv'
        /\ EnsureInv' /\ ServedInv'
    BY <1>0, <2>1, <2>2
      DEF TypeOK, MappedIsSized, CreationInv, FirstClientInv, EnsureInv,
          ServedInv, Steps
  <2> QED BY <2>3 DEF IInv
<1>6. CASE MmapInit
  <2>1. /\ UNCHANGED <<bridge, fresh, op, gRing, gIOCount, gVolume, reader,
                       crashes, served>>
        /\ step \in Steps /\ Initialise(step) /\ step' = After(step, "mapped")
    BY <1>6 DEF MmapInit
  <2>2. object.sized /\ ~gRing /\ ~served /\ op # "none"
    BY <1>0, <2>1 DEF TypeOK, MappedIsSized, EnsureInv, ServedInv, Steps
  <2>3. /\ object' \in Objects /\ object'.sized
        /\ object'.exists = object.exists
    BY <1>1, <2>1, <2>2, InitialiseFacts
  <2>4. step' \in Steps \union {"mapped"}
    BY <2>1, AfterFacts
  <2>5. TypeOK'
    BY <1>0, <2>1, <2>2, <2>3, <2>4 DEF TypeOK, Objects, Steps
  <2>6. MappedIsSized' /\ CreationInv'
    BY <1>0, <2>1, <2>2, <2>3 DEF MappedIsSized, CreationInv
  <2>7. FirstClientInv' /\ EnsureInv' /\ ServedInv'
    BY <1>0, <2>1, <2>2 DEF FirstClientInv, EnsureInv, ServedInv
  <2> QED BY <2>5, <2>6, <2>7 DEF IInv
<1>7. CASE Mapped
  <2>1. Finish(TRUE) /\ op # "none" /\ step \notin Steps /\ object.sized
    BY <1>0, <1>7 DEF Mapped, TypeOK, MappedIsSized, Steps
  <2> QED BY <2>1, FinishInv
<1>8. CASE StopIO
  <2>1. /\ object' \in Objects /\ object'.exists = object.exists
        /\ object'.open = object.open /\ object'.sized = object.sized
        /\ object'.magic = object.magic
        /\ gIOCount # 1 => object' = object
    BY <1>1, <1>8 DEF StopIO, Objects
  <2>2. gIOCount' \in 0..MaxClients /\ gIOCount' = gIOCount - 1 /\ gIOCount > 0
    BY <1>1, <1>8 DEF StopIO
  <2>3. /\ UNCHANGED <<bridge, fresh, op, step, gRing, gVolume, reader,
                       crashes, served>>
        /\ op = "none"
    BY <1>8 DEF StopIO
  <2>4. TypeOK'
    BY <1>0, <2>1, <2>2, <2>3 DEF TypeOK, Objects
  <2>5. MappedIsSized' /\ CreationInv' /\ FirstClientInv' /\ EnsureInv'
    BY <1>0, <2>1, <2>3
      DEF MappedIsSized, CreationInv, FirstClientInv, EnsureInv
  <2>6. ServedInv'
    BY <1>0, <1>1, <2>1, <2>2, <2>3
      DEF ServedInv, Valid, Initialising, PublishedWhileIO
  <2> QED BY <2>4, <2>5, <2>6 DEF IInv
<1>9. CASE PluginRestarts
  <2>1. /\ crashes' \in 0..MaxCrashes /\ gIOCount' = 0
        /\ gIOCount' \in 0..MaxClients
        /\ gVolume' \in Volumes /\ gRing' = FALSE /\ op' = "Initialize"
        /\ step' = "open" /\ served' = FALSE
        /\ UNCHANGED <<object, bridge, fresh, reader>>
    BY <1>0, <1>9 DEF PluginRestarts, TypeOK, Volumes
  <2>2. TypeOK'
    BY <1>0, <2>1 DEF TypeOK, Ops
  <2>3. /\ MappedIsSized' /\ CreationInv' /\ FirstClientInv' /\ EnsureInv'
        /\ ServedInv'
    BY <1>0, <2>1 DEF MappedIsSized, CreationInv, FirstClientInv, EnsureInv,
                      ServedInv
  <2> QED BY <2>2, <2>3 DEF IInv
<1> QED
  BY <1>2, <1>3, <1>4, <1>5, <1>6, <1>7, <1>8, <1>9 DEF Plugin, Mapping

\* None of its calls begins to initialise a valid ring, or takes its magic.
LEMMA PluginValid ==
  ASSUME IInv, Plugin, Valid
  PROVE  Valid' /\ (UNCHANGED plugin => UNCHANGED object)
<1>0. /\ TypeOK /\ MappedIsSized /\ FirstClientInv /\ EnsureInv
      /\ object \in Objects /\ object.magic /\ ~Initialising
      /\ step \notin Steps
  BY DEF IInv, TypeOK, Objects, Valid, Initialising
<1>1. SUFFICES /\ UNCHANGED <<bridge, fresh, reader>> /\ step' \notin Steps
               /\ object'.magic
               /\ UNCHANGED plugin => UNCHANGED object
  BY <1>0 DEF Valid, Initialising
<1>2. ASSUME NEW r \in BOOLEAN, Finish(r), op # "none"
      PROVE  /\ UNCHANGED <<bridge, fresh, reader>> /\ step' \notin Steps
             /\ object'.magic
             /\ UNCHANGED plugin => UNCHANGED object
  BY <1>0, <1>2, FinishFacts DEF plugin, Steps
<1>3. CASE \/ Begin("SetPropertyData") \/ BeginStartIO \/ MoreIO
           \/ PluginRestarts
  BY <1>0, <1>3 DEF Begin, BeginStartIO, MoreIO, PluginRestarts, plugin, Steps
<1>4. CASE StopIO
  <2>1. object'.magic = object.magic
    BY <1>0, <1>4 DEF StopIO, Objects
  <2>2. gIOCount' # gIOCount
    BY <1>0, <1>4, MappingAssumption DEF StopIO, TypeOK
  <2> QED BY <1>0, <1>4, <2>1, <2>2 DEF StopIO, plugin, Steps
<1>5. CASE Open
  <2>1. CASE object.exists /\ object.open /\ object.sized
    BY <1>0, <1>5, <2>1 DEF Open, plugin, Steps
  <2>2. CASE ~(object.exists /\ object.open /\ object.sized)
    <3>1. Finish(FALSE) /\ op # "none"
      BY <1>0, <1>5, <2>2 DEF Open, TypeOK
    <3> QED BY <1>2, <3>1
  <2> QED BY <2>1, <2>2
<1>6. CASE Mmap
  BY <1>0, <1>6 DEF Mmap, plugin, Steps
<1>7. CASE MmapInit
  BY <1>0, <1>7 DEF MmapInit
<1>8. CASE Mapped
  <2>1. Finish(TRUE) /\ op # "none"
    BY <1>0, <1>8 DEF Mapped, TypeOK
  <2> QED BY <1>2, <2>1
<1> QED
  BY <1>3, <1>4, <1>5, <1>6, <1>7, <1>8 DEF Plugin, Mapping

----------------------------------------------------------------------------
(* The theorems.                                                           *)

\* The invariant holds with and without a ring to begin with.
LEMMA InitInv == Init => IInv
<1> SUFFICES ASSUME Init PROVE IInv
  OBVIOUS
<1>1. PICK there \in RingExists :
        object = [exists |-> there, open |-> there, sized |-> there,
                  magic |-> there, io |-> FALSE, volume |-> "full"]
  BY DEF Init
<1>2. there \in BOOLEAN
  BY MappingAssumption
<1>3. /\ object \in Objects /\ object.exists = there
      /\ object.sized = there /\ object.magic = there
  BY <1>1, <1>2 DEF Objects, Volumes
<1>4. /\ bridge = "absent" /\ fresh = FALSE /\ op = "Initialize"
      /\ step = "open" /\ gRing = FALSE /\ gIOCount = 0
      /\ gVolume = "full" /\ crashes = 0 /\ reader = "away" /\ served = FALSE
  BY DEF Init
<1>5. gIOCount \in 0..MaxClients /\ crashes \in 0..MaxCrashes
  BY <1>4, MappingAssumption
<1>6. TypeOK
  BY <1>3, <1>4, <1>5 DEF TypeOK, Objects, Ops, Volumes
<1>7. /\ MappedIsSized /\ CreationInv /\ ServedInv /\ FirstClientInv
      /\ EnsureInv
  BY <1>3, <1>4
    DEF MappedIsSized, CreationInv, ServedInv, FirstClientInv, EnsureInv
<1> QED BY <1>6, <1>7 DEF IInv

\* A step is one of the plug-in, or of the others.
LEMMA StepCases == Next <=> Others \/ Plugin
BY DEF Next, Others, Plugin

\* Every step keeps the invariant.
LEMMA NextInv == IInv /\ [Next]_vars => IInv'
<1> SUFFICES ASSUME IInv, [Next]_vars PROVE IInv'
  OBVIOUS
<1>1. CASE UNCHANGED vars
  BY <1>1 DEF vars, plugin, IInv, TypeOK, MappedIsSized, CreationInv,
              ServedInv, Valid, Initialising, PublishedWhileIO,
              FirstClientInv, EnsureInv
<1>2. QED
  BY <1>1, OthersInv, PluginInv, StepCases

\* The inductive invariant holds in every reachable state.
THEOREM MappingInvariance == Spec => []IInv
<1>1. QED
  BY InitInv, NextInv, PTL DEF Spec

\* The variables of the mapping keep their types, and the magic is never
\* written into an object that has not its size.
THEOREM MappingTypes == Spec => []TypeOK
<1>1. IInv => TypeOK
  BY DEF IInv
<1>2. QED
  BY <1>1, MappingInvariance, PTL

\* However creation is interrupted, nobody maps a part of the ring.
THEOREM NobodyMapsPart == Spec => []MappedIsSized
<1>1. IInv => MappedIsSized
  BY DEF IInv
<1>2. QED
  BY <1>1, MappingInvariance, PTL

\* While clients do IO on a ring that was valid when the first of them started,
\* the ring says so and shows the volume the plug-in applies, through any
\* restarts.
THEOREM Published == Spec => []PublishedWhileIO
<1>1. IInv => PublishedWhileIO
  BY DEF IInv, ServedInv, PublishedWhileIO
<1>2. QED
  BY <1>1, MappingInvariance, PTL

\* A ring that is valid while nobody initialises it is never initialised again,
\* by any restart, and only the plug-in changes it.
THEOREM Undisturbed == Spec => PeerUndisturbed
<1>1. ASSUME IInv, [Next]_vars
      PROVE  [Valid => Valid' /\ (UNCHANGED plugin => UNCHANGED object)]_vars
  <2> SUFFICES ASSUME Valid, Next
               PROVE  Valid' /\ (UNCHANGED plugin => UNCHANGED object)
    BY <1>1
  <2>1. CASE Others
    BY <1>1, <2>1, ValidKept DEF IInv
  <2>2. CASE Plugin
    BY <1>1, <2>2, PluginValid
  <2> QED BY <2>1, <2>2, StepCases
<1>2. QED
  BY <1>1, MappingInvariance, PTL DEF Spec, PeerUndisturbed
====
