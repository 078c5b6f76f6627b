---- MODULE StatusSnapshot ----
(***************************************************************************)
(* What the headset reports of its dials and its microphone switch: the    *)
(* bridge stores the fields of a volume packet into the ring one by one    *)
(* (on_rx of src/bridge.c), clears them when it starts (ring_reset_status),*)
(* and the menu bar app or gip-status loads them one by one                *)
(* (ring_status_read, HeadsetStatus.read).  Nothing makes either group of  *)
(* accesses one step; vol_seen is what the reader goes by.                 *)
(***************************************************************************)
EXTENDS Naturals, Sequences

CONSTANTS
  Positions,   \* what a dial may report, of 0..100
  Subcommands, \* "chat" (GIP_AUD_CTRL_VOLUME_CHAT), "volume"
  MaxPackets,  \* bound on the volume packets
  MaxStarts    \* bound on the starts of a bridge

ASSUME StatusAssumption ==
  /\ Positions \subseteq 0..100
  /\ Subcommands \subseteq {"chat", "volume"}
  /\ MaxPackets \in Nat
  /\ MaxStarts \in Nat \ {0}

VARIABLES
  ring,      \* mic_muted, vol_out, vol_gain_out and vol_seen of the ring
  alive,     \* a bridge runs
  stores,    \* the stores it has still to do: <<field, value>>
  loads,     \* the fields the reader has still to load
  read,      \* what it has loaded
  shown,     \* what the last complete reading shows
  packets, starts,
  reported,  \* history: the positions this bridge's packets carried, by dial
  last,      \* history: what the headset reported last
  seenFirst, \* history: vol_seen was set when the reading began
  clearing,  \* history: this bridge is not through with ring_reset_status
  cleared    \* history: a bridge was clearing since the reading began

ringVars   == <<ring, alive, stores>>
readerVars == <<loads, read, shown, seenFirst>>
history    == <<packets, starts, reported, last>>
clears     == <<clearing, cleared>>
vars       == <<ringVars, readerVars, history, clears>>

Fields == {"muted", "out", "gain", "seen"}

Unseen == [muted |-> 0, out |-> 100, gain |-> 0, seen |-> 0]

\* HeadsetStatus.read: the dials are absent unless vol_seen is set.
NoDials   == <<>>
Panel(r)  == [muted |-> r.muted,
              dials |-> IF r.seen = 1 THEN <<r.gain, r.out>> ELSE NoDials]

NothingReported == [gain |-> {}, out |-> {}]

TypeOK ==
  /\ ring.muted \in 0..1 /\ ring.seen \in 0..1
  /\ ring.gain \in 0..100 /\ ring.out \in 0..100
  /\ {alive, seenFirst, clearing, cleared} \subseteq BOOLEAN
  /\ Len(stores) <= 4 /\ Len(loads) <= 4
  /\ packets \in 0..MaxPackets /\ starts \in 0..MaxStarts

Init ==
  /\ ring = Unseen
  /\ alive = FALSE
  /\ stores = <<>>
  /\ loads = <<>>
  /\ read = Unseen
  /\ shown = Panel(Unseen)
  /\ packets = 0 /\ starts = 0
  /\ reported = NothingReported
  /\ last = Panel(Unseen)
  /\ seenFirst = FALSE
  /\ clearing = FALSE
  /\ cleared = FALSE

----------------------------------------------------------------------------
(* The bridge.                                                             *)

\* vol_seen is not cleared.
ResetStoresSeen == <<<<"muted", 0>>, <<"out", 100>>, <<"gain", 0>>>>

\* ring_reset_status.
ResetStores == <<<<"muted", 0>>, <<"out", 100>>, <<"seen", 0>>, <<"gain", 0>>>>

\* The chat dial's field is put into vol_seen as well.
PacketStoresMixed(sub, muted, gain, out) ==
  <<<<"muted", muted>>>>
    \o (IF sub = "chat" THEN <<<<"gain", gain>>>> ELSE <<>>)
    \o <<<<"out", out>>, <<"seen", out>>>>

\* The fields of the chat variant are taken for those of the other.
PacketStoresNoGain(sub, muted, gain, out) ==
  <<<<"muted", muted>>, <<"out", out>>, <<"seen", 1>>>>

\* on_rx: the plain variant of the packet has no gain_out.
PacketStores(sub, muted, gain, out) ==
  <<<<"muted", muted>>>>
    \o (IF sub = "chat" THEN <<<<"gain", gain>>>> ELSE <<>>)
    \o <<<<"out", out>>, <<"seen", 1>>>>

BridgeStarts ==
  /\ ~alive
  /\ starts < MaxStarts
  /\ starts' = starts + 1
  /\ alive' = TRUE
  /\ stores' = ResetStores
  /\ reported' = NothingReported
  /\ last' = Panel(Unseen)
  /\ clearing' = TRUE
  /\ cleared' = TRUE
  /\ UNCHANGED <<ring, readerVars, packets>>

\* A bridge ends between any two of its stores.
BridgeEnds ==
  /\ alive
  /\ alive' = FALSE
  /\ stores' = <<>>
  /\ UNCHANGED <<ring, readerVars, history, clears>>

Packet ==
  /\ alive
  /\ stores = <<>>
  /\ packets < MaxPackets
  /\ packets' = packets + 1
  /\ \E sub \in Subcommands, muted \in 0..1, gain, out \in Positions :
       /\ stores' = PacketStores(sub, muted, gain, out)
       /\ LET gains == IF sub = "chat" THEN {gain} ELSE {}
              dial  == IF sub = "chat" THEN gain
                       ELSE IF last.dials = NoDials THEN Unseen.gain
                       ELSE last.dials[1]
          IN  /\ reported' = [gain |-> reported.gain \cup gains,
                              out  |-> reported.out \cup {out}]
              /\ last' = [muted |-> muted, dials |-> <<dial, out>>]
  /\ UNCHANGED <<ring, alive, readerVars, starts, clears>>

Store ==
  /\ stores # <<>>
  /\ ring' = [ring EXCEPT ![Head(stores)[1]] = Head(stores)[2]]
  /\ stores' = Tail(stores)
  /\ clearing' = (clearing /\ Len(stores) > 1)
  /\ UNCHANGED <<alive, readerVars, history, cleared>>

----------------------------------------------------------------------------
(* The reader, once a second.                                              *)

\* ring_status_read, and gip-status: vol_seen is the last of them.
LoadOrder == <<"muted", "out", "gain", "seen">>

BeginRead ==
  /\ loads = <<>>
  /\ loads' = LoadOrder
  /\ seenFirst' = (ring.seen = 1)
  /\ cleared' = clearing
  /\ UNCHANGED <<read, shown, ringVars, history, clearing>>

Load ==
  /\ loads # <<>>
  /\ read' = [read EXCEPT ![Head(loads)] = ring[Head(loads)]]
  /\ loads' = Tail(loads)
  /\ shown' = IF Len(loads) = 1 THEN Panel(read') ELSE shown
  /\ UNCHANGED <<seenFirst, ringVars, history, clears>>

Bridge == BridgeStarts \/ BridgeEnds \/ Packet \/ Store
Reader == BeginRead \/ Load

Next == Bridge \/ Reader

\* A bridge that runs finishes its stores; the reader polls.
Spec == Init /\ [][Next]_vars /\ WF_vars(Store) /\ WF_vars(Reader)

----------------------------------------------------------------------------
(* Properties.                                                             *)

\* A reading ends, and it shows the dials.
ReadingDials == Len(loads) = 1 /\ loads' = <<>> /\ shown'.dials # NoDials

\* A reading for which vol_seen was set when it began, and during which no
\* bridge was starting, shows what packets of this bridge carried, never what
\* ring_reset_status seeded nor what an earlier headset had reported (the main
\* dial is 0 as long as no packet carried it).
DialsOfThisBridge ==
  [][(ReadingDials /\ seenFirst /\ ~cleared)
       => /\ shown'.dials[1] \in reported.gain \cup {Unseen.gain}
          /\ shown'.dials[2] \in reported.out]_vars

\* Between packets, and once ring_reset_status is done, the ring of a living
\* bridge shows what its headset reported last: the fields that the plain
\* variant of a packet leaves alone hold what an earlier one of this bridge
\* said of them.
RingShowsLast == alive /\ stores = <<>> => Panel(ring) = last

\* Whatever readings were torn on the way, the panel ends up showing what the
\* headset reported last.
ShowsLastReport == <>[]alive => <>[](shown = last)

\* The dials "are nil until a volume packet arrives", and "meaningless until
\* the headset has actually sent a volume packet": a position that is shown was
\* reported.
ShownWasReported ==
  [][(ReadingDials /\ ~cleared) => shown'.dials[2] \in reported.out]_vars
====
