---- MODULE MenuBar_proofs ----
(***************************************************************************)
(* Proofs about what the menu bar shows: of the headset (StatusSnapshot),  *)
(* for any positions of the dials and any number of packets and starts,    *)
(* and of the bridge (BridgeController), for any number of its threads.    *)
(***************************************************************************)
EXTENDS StatusSnapshot, BridgeController, SequenceTheorems, TLAPS

----------------------------------------------------------------------------
(* The stores and loads of a status.                                       *)

Stored(field, value) == <<field, value>>

\* Joining the stores of a packet.
LEMMA OneAndTwo ==
  ASSUME NEW a, NEW b, NEW c
  PROVE  <<a>> \o <<>> \o <<b, c>> = <<a, b, c>>
<1> DEFINE s == <<a>> \o <<>> \o <<b, c>>
           t == <<a, b, c>>
           S == {a, b, c}
<1>1. s \in Seq(S) /\ t \in Seq(S)
  OBVIOUS
<1>2. /\ Len(s) = 3 /\ s[1] = a /\ s[2] = b /\ s[3] = c
      /\ Len(t) = 3 /\ t[1] = a /\ t[2] = b /\ t[3] = c
  OBVIOUS
<1> HIDE DEF s, t, S
<1>3. \A i \in 1..Len(s) : s[i] = t[i]
  BY <1>2
<1> QED BY <1>1, <1>2, <1>3, SeqEqual DEF s, t

LEMMA OneOneAndTwo ==
  ASSUME NEW a, NEW b, NEW c, NEW d
  PROVE  <<a>> \o <<b>> \o <<c, d>> = <<a, b, c, d>>
<1> DEFINE s == <<a>> \o <<b>> \o <<c, d>>
           t == <<a, b, c, d>>
           S == {a, b, c, d}
<1>1. s \in Seq(S) /\ t \in Seq(S)
  OBVIOUS
<1>2. /\ Len(s) = 4 /\ s[1] = a /\ s[2] = b /\ s[3] = c /\ s[4] = d
      /\ Len(t) = 4 /\ t[1] = a /\ t[2] = b /\ t[3] = c /\ t[4] = d
  OBVIOUS
<1> HIDE DEF s, t, S
<1>3. \A i \in 1..Len(s) : s[i] = t[i]
  BY <1>2
<1> QED BY <1>1, <1>2, <1>3, SeqEqual DEF s, t

LEMMA UpToFour == ASSUME NEW n \in 0..4 PROVE n <= 4
OBVIOUS

\* The first of up to four, and the ones after it.
LEMMA Four ==
  ASSUME NEW a, NEW b, NEW c, NEW d
  PROVE  /\ Head(<<a, b, c, d>>) = a /\ Tail(<<a, b, c, d>>) = <<b, c, d>>
         /\ Len(<<a, b, c, d>>) = 4
OBVIOUS

LEMMA Three ==
  ASSUME NEW a, NEW b, NEW c
  PROVE  /\ Head(<<a, b, c>>) = a /\ Tail(<<a, b, c>>) = <<b, c>>
         /\ Len(<<a, b, c>>) = 3
OBVIOUS

LEMMA Two ==
  ASSUME NEW a, NEW b
  PROVE  /\ Head(<<a, b>>) = a /\ Tail(<<a, b>>) = <<b>>
         /\ Len(<<a, b>>) = 2
OBVIOUS

LEMMA One ==
  ASSUME NEW a
  PROVE  /\ Head(<<a>>) = a /\ Tail(<<a>>) = <<>>
         /\ Len(<<a>>) = 1
OBVIOUS

\* The parts of a store.
LEMMA StoredParts ==
  ASSUME NEW field, NEW value
  PROVE  Stored(field, value)[1] = field /\ Stored(field, value)[2] = value
BY DEF Stored

LEMMA Packets ==
  ASSUME NEW muted, NEW gain, NEW out
  PROVE  /\ PacketStores("chat", muted, gain, out)
              = <<Stored("muted", muted), Stored("gain", gain),
                  Stored("out", out), Stored("seen", 1)>>
         /\ PacketStores("volume", muted, gain, out)
              = <<Stored("muted", muted), Stored("out", out),
                  Stored("seen", 1)>>
<1>1. PacketStores("chat", muted, gain, out)
        = <<Stored("muted", muted)>> \o <<Stored("gain", gain)>>
            \o <<Stored("out", out), Stored("seen", 1)>>
  BY DEF PacketStores, Stored
<1>2. PacketStores("volume", muted, gain, out)
        = <<Stored("muted", muted)>> \o <<>>
            \o <<Stored("out", out), Stored("seen", 1)>>
  BY DEF PacketStores, Stored
<1>3. PacketStores("chat", muted, gain, out)
        = <<Stored("muted", muted), Stored("gain", gain),
            Stored("out", out), Stored("seen", 1)>>
  BY ONLY <1>1, OneOneAndTwo
<1>4. PacketStores("volume", muted, gain, out)
        = <<Stored("muted", muted), Stored("out", out), Stored("seen", 1)>>
  BY ONLY <1>2, OneAndTwo
<1> QED BY <1>3, <1>4

----------------------------------------------------------------------------
(* The stores that are left.                                               *)

\* Of a packet: what its fields say has been reported, and the main dial's
\* position is in the ring before vol_seen is.
PacketLeft ==
  \/ stores = <<>>
  \/ \E m \in 0..1, g \in reported.gain, o \in reported.out :
       stores = <<Stored("muted", m), Stored("gain", g), Stored("out", o),
                  Stored("seen", 1)>>
  \/ \E g \in reported.gain, o \in reported.out :
       stores = <<Stored("gain", g), Stored("out", o), Stored("seen", 1)>>
  \/ \E m \in 0..1, o \in reported.out :
       stores = <<Stored("muted", m), Stored("out", o), Stored("seen", 1)>>
  \/ \E o \in reported.out :
       stores = <<Stored("out", o), Stored("seen", 1)>>
  \/ stores = <<Stored("seen", 1)>> /\ ring.out \in reported.out

\* Of ring_reset_status, unless the bridge has ended before it was through.
ResetLeft ==
  \/ ~alive /\ stores = <<>>
  \/ stores = <<Stored("muted", 0), Stored("out", 100), Stored("seen", 0),
                Stored("gain", 0)>>
  \/ stores = <<Stored("out", 100), Stored("seen", 0), Stored("gain", 0)>>
  \/ stores = <<Stored("seen", 0), Stored("gain", 0)>>
  \/ stores = <<Stored("gain", 0)>> /\ ring.seen = 0

\* What the ring says was reported to this bridge, except for the seeds.
RingReported ==
  /\ ring.gain \in reported.gain \cup {0}
  /\ ring.seen = 1 => ring.out \in reported.out

RingInv == IF clearing THEN ResetLeft ELSE PacketLeft /\ RingReported

\* A reading that began with vol_seen, with no bridge starting since.
Trusted == loads # <<>> /\ seenFirst /\ ~cleared

ReadInv ==
  Trusted =>
    /\ ~clearing /\ ring.seen = 1
    /\ loads \in {<<"gain", "seen">>, <<"seen">>} => read.out \in reported.out
    /\ loads = <<"seen">> => read.gain \in reported.gain \cup {0}

Statuses == [muted : 0..1, out : 0..100, gain : 0..100, seen : 0..1]

StatusShape ==
  /\ ring \in Statuses /\ read \in Statuses
  /\ alive \in BOOLEAN /\ seenFirst \in BOOLEAN
  /\ clearing \in BOOLEAN /\ cleared \in BOOLEAN
  /\ loads \in {<<>>, <<"muted", "out", "gain", "seen">>,
                <<"out", "gain", "seen">>, <<"gain", "seen">>, <<"seen">>}
  /\ reported \in [gain : SUBSET Positions, out : SUBSET Positions]
  /\ packets \in 0..MaxPackets /\ starts \in 0..MaxStarts

StatusInv == StatusShape /\ RingInv /\ ReadInv

LEMMA InitStatus == Init => StatusInv
<1> SUFFICES ASSUME Init PROVE StatusInv
  OBVIOUS
<1>1. Unseen \in Statuses
  BY DEF Unseen, Statuses
<1>2. NothingReported \in [gain : SUBSET Positions, out : SUBSET Positions]
  BY DEF NothingReported
<1>3. 0 \in 0..MaxPackets /\ 0 \in 0..MaxStarts
  BY StatusAssumption
<1>4. StatusShape
  BY <1>1, <1>2, <1>3 DEF Init, StatusShape
<1>5. RingInv
  BY DEF Init, RingInv, PacketLeft, RingReported, Unseen
<1>6. ReadInv
  BY DEF Init, ReadInv, Trusted
<1> QED BY <1>4, <1>5, <1>6 DEF StatusInv

----------------------------------------------------------------------------
(* The steps of the bridge.                                                *)

\* A store changes its field and no other.
LEMMA StoreField ==
  ASSUME ring \in Statuses, NEW f \in Fields, NEW v, Store,
         Head(stores) = Stored(f, v)
  PROVE  /\ stores' = Tail(stores)
         /\ clearing' = (clearing /\ Len(stores) > 1)
         /\ ring'.muted = IF f = "muted" THEN v ELSE ring.muted
         /\ ring'.out = IF f = "out" THEN v ELSE ring.out
         /\ ring'.gain = IF f = "gain" THEN v ELSE ring.gain
         /\ ring'.seen = IF f = "seen" THEN v ELSE ring.seen
         /\ ring' = [muted |-> ring'.muted, out |-> ring'.out,
                     gain |-> ring'.gain, seen |-> ring'.seen]
<1>1. ring' = [ring EXCEPT ![f] = v]
  <2>1. ring' = [ring EXCEPT ![Head(stores)[1]] = Head(stores)[2]]
    BY DEF Store
  <2>2. Head(stores)[1] = f /\ Head(stores)[2] = v
    BY ONLY Head(stores) = Stored(f, v), StoredParts
  <2> QED BY ONLY <2>1, <2>2
<1>2. /\ stores' = Tail(stores)
      /\ clearing' = (clearing /\ Len(stores) > 1)
  BY DEF Store
<1>3. f \in {"muted", "out", "gain", "seen"}
  BY DEF Fields
<1> QED BY ONLY <1>1, <1>2, <1>3, ring \in Statuses DEF Statuses

LEMMA StoreRing ==
  ASSUME StatusInv, Store PROVE RingInv' /\ ring' \in Statuses
<1>1. ring \in Statuses /\ Positions \subseteq 0..100
      /\ reported.gain \subseteq 0..100 /\ reported.out \subseteq 0..100
      /\ clearing \in BOOLEAN
  BY StatusAssumption DEF StatusInv, StatusShape
<1>2. UNCHANGED <<reported, alive>>
  BY DEF Store, history
<1>3. stores # <<>>
  BY DEF Store
<1>4. 100 \in 0..100 /\ \A v \in 0..1 : v \in 0..100
  OBVIOUS
<1> DEFINE Kept(f, v) ==
      /\ stores' = Tail(stores)
      /\ clearing' = (clearing /\ Len(stores) > 1)
      /\ ring'.out = IF f = "out" THEN v ELSE ring.out
      /\ ring'.gain = IF f = "gain" THEN v ELSE ring.gain
      /\ ring'.seen = IF f = "seen" THEN v ELSE ring.seen
      /\ ring' \in Statuses
<1>5. ASSUME NEW f \in Fields, NEW v \in 0..100,
             f \in {"muted", "seen"} => v \in 0..1, Head(stores) = Stored(f, v)
      PROVE  Kept(f, v)
  <2>1. /\ stores' = Tail(stores)
        /\ clearing' = (clearing /\ Len(stores) > 1)
        /\ ring'.muted = IF f = "muted" THEN v ELSE ring.muted
        /\ ring'.out = IF f = "out" THEN v ELSE ring.out
        /\ ring'.gain = IF f = "gain" THEN v ELSE ring.gain
        /\ ring'.seen = IF f = "seen" THEN v ELSE ring.seen
        /\ ring' = [muted |-> ring'.muted, out |-> ring'.out,
                    gain |-> ring'.gain, seen |-> ring'.seen]
    BY ONLY <1>1, <1>5, Store, StoreField
  <2>2. /\ ring'.muted \in 0..1 /\ ring'.seen \in 0..1
        /\ ring'.gain \in 0..100 /\ ring'.out \in 0..100
    BY ONLY <1>1, <1>5, <2>1 DEF Statuses
  <2>3. ring' \in Statuses
    BY ONLY <2>1, <2>2 DEF Statuses
  <2> QED BY ONLY <2>1, <2>3
<1> HIDE DEF Kept
<1>6. "muted" \in Fields /\ "out" \in Fields /\ "gain" \in Fields
      /\ "seen" \in Fields
  BY DEF Fields
<1>7. CASE clearing
  <2>0. ResetLeft
    BY <1>7 DEF StatusInv, RingInv
  <2>1. CASE stores = <<Stored("muted", 0), Stored("out", 100),
                        Stored("seen", 0), Stored("gain", 0)>>
    <3>1. /\ Head(stores) = Stored("muted", 0) /\ Len(stores) > 1
          /\ Tail(stores) = <<Stored("out", 100), Stored("seen", 0),
                              Stored("gain", 0)>>
      BY ONLY <2>1, Four
    <3>2. Kept("muted", 0)
      BY ONLY <1>5, <1>6, <3>1
    <3> QED BY ONLY <1>7, <3>1, <3>2 DEF RingInv, ResetLeft, Kept
  <2>2. CASE stores = <<Stored("out", 100), Stored("seen", 0), Stored("gain", 0)>>
    <3>1. /\ Head(stores) = Stored("out", 100) /\ Len(stores) > 1
          /\ Tail(stores) = <<Stored("seen", 0), Stored("gain", 0)>>
      BY ONLY <2>2, Three
    <3>2. Kept("out", 100)
      BY ONLY <1>4, <1>5, <1>6, <3>1
    <3> QED BY ONLY <1>7, <3>1, <3>2 DEF RingInv, ResetLeft, Kept
  <2>3. CASE stores = <<Stored("seen", 0), Stored("gain", 0)>>
    <3>1. /\ Head(stores) = Stored("seen", 0) /\ Len(stores) > 1
          /\ Tail(stores) = <<Stored("gain", 0)>>
      BY ONLY <2>3, Two
    <3>2. Kept("seen", 0)
      BY ONLY <1>5, <1>6, <3>1
    <3> QED BY ONLY <1>7, <3>1, <3>2 DEF RingInv, ResetLeft, Kept
  <2>4. CASE stores = <<Stored("gain", 0)>> /\ ring.seen = 0
    <3>1. /\ Head(stores) = Stored("gain", 0) /\ Len(stores) = 1
          /\ Tail(stores) = <<>>
      BY ONLY <2>4, One
    <3>2. Kept("gain", 0)
      BY ONLY <1>5, <1>6, <3>1
    <3>3. ~clearing' /\ stores' = <<>>
      <4>1. ~(Len(stores) > 1)
        BY <3>1
      <4> QED BY ONLY <3>1, <3>2, <4>1, Zenon DEF Kept
    <3>4. ring'.gain = 0 /\ ring'.seen = 0 /\ ring' \in Statuses
      BY ONLY <2>4, <3>2 DEF Kept
    <3> QED BY ONLY <3>3, <3>4 DEF RingInv, PacketLeft, RingReported
  <2> QED BY <1>3, <2>0, <2>1, <2>2, <2>3, <2>4 DEF ResetLeft
<1>8. CASE ~clearing
  <2>0. PacketLeft /\ RingReported
    BY <1>8 DEF StatusInv, RingInv
  <2>1. ASSUME NEW m \in 0..1, NEW g \in reported.gain, NEW o \in reported.out,
               stores = <<Stored("muted", m), Stored("gain", g),
                          Stored("out", o), Stored("seen", 1)>>
        PROVE  RingInv' /\ ring' \in Statuses
    <3>1. /\ Head(stores) = Stored("muted", m)
          /\ Tail(stores) = <<Stored("gain", g), Stored("out", o),
                              Stored("seen", 1)>>
      BY ONLY <2>1, Four
    <3>2. Kept("muted", m)
      BY ONLY <1>4, <1>5, <1>6, <3>1, m \in 0..1
    <3>3. PacketLeft' /\ RingReported'
      BY ONLY <1>2, <2>0, <3>1, <3>2, g \in reported.gain, o \in reported.out
         DEF PacketLeft, RingReported, Kept
    <3> QED BY ONLY <1>8, <3>2, <3>3 DEF RingInv, Kept
  <2>2. ASSUME NEW g \in reported.gain, NEW o \in reported.out,
               stores = <<Stored("gain", g), Stored("out", o), Stored("seen", 1)>>
        PROVE  RingInv' /\ ring' \in Statuses
    <3>1. /\ Head(stores) = Stored("gain", g)
          /\ Tail(stores) = <<Stored("out", o), Stored("seen", 1)>>
      BY ONLY <2>2, Three
    <3>2. Kept("gain", g)
      BY ONLY <1>1, <1>5, <1>6, <3>1, g \in reported.gain
    <3>3. PacketLeft' /\ RingReported'
      BY ONLY <1>2, <2>0, <3>1, <3>2, g \in reported.gain, o \in reported.out
         DEF PacketLeft, RingReported, Kept
    <3> QED BY ONLY <1>8, <3>2, <3>3 DEF RingInv, Kept
  <2>3. ASSUME NEW m \in 0..1, NEW o \in reported.out,
               stores = <<Stored("muted", m), Stored("out", o),
                          Stored("seen", 1)>>
        PROVE  RingInv' /\ ring' \in Statuses
    <3>1. /\ Head(stores) = Stored("muted", m)
          /\ Tail(stores) = <<Stored("out", o), Stored("seen", 1)>>
      BY ONLY <2>3, Three
    <3>2. Kept("muted", m)
      BY ONLY <1>4, <1>5, <1>6, <3>1, m \in 0..1
    <3>3. PacketLeft' /\ RingReported'
      BY ONLY <1>2, <2>0, <3>1, <3>2, o \in reported.out
         DEF PacketLeft, RingReported, Kept
    <3> QED BY ONLY <1>8, <3>2, <3>3 DEF RingInv, Kept
  <2>4. ASSUME NEW o \in reported.out,
               stores = <<Stored("out", o), Stored("seen", 1)>>
        PROVE  RingInv' /\ ring' \in Statuses
    <3>1. /\ Head(stores) = Stored("out", o)
          /\ Tail(stores) = <<Stored("seen", 1)>>
      BY ONLY <2>4, Two
    <3>2. Kept("out", o)
      BY ONLY <1>1, <1>5, <1>6, <3>1, o \in reported.out
    <3>3. PacketLeft' /\ RingReported'
      BY ONLY <1>2, <2>0, <3>1, <3>2, o \in reported.out
         DEF PacketLeft, RingReported, Kept
    <3> QED BY ONLY <1>8, <3>2, <3>3 DEF RingInv, Kept
  <2>5. ASSUME stores = <<Stored("seen", 1)>>, ring.out \in reported.out
        PROVE  RingInv' /\ ring' \in Statuses
    <3>1. Head(stores) = Stored("seen", 1) /\ Tail(stores) = <<>>
      BY ONLY <2>5, One
    <3>2. Kept("seen", 1)
      BY ONLY <1>4, <1>5, <1>6, <3>1
    <3>3. PacketLeft' /\ RingReported'
      BY ONLY <1>2, <2>0, <2>5, <3>1, <3>2 DEF PacketLeft, RingReported, Kept
    <3> QED BY ONLY <1>8, <3>2, <3>3 DEF RingInv, Kept
  <2> QED BY ONLY <1>3, <2>0, <2>1, <2>2, <2>3, <2>4, <2>5 DEF PacketLeft
<1> QED BY <1>1, <1>7, <1>8

LEMMA StoreStatus ==
  ASSUME StatusInv, Store PROVE StatusInv'
<1>1. RingInv' /\ ring' \in Statuses
  BY StoreRing
<1>2. /\ UNCHANGED <<alive, loads, read, seenFirst, cleared, reported, packets,
                     starts>>
      /\ clearing' \in BOOLEAN
      /\ clearing' => clearing
  BY DEF Store, history, readerVars, StatusInv, StatusShape
<1>3. StatusShape'
  <2>1. StatusShape
    BY DEF StatusInv
  <2> QED BY ONLY <1>1, <1>2, <2>1 DEF StatusShape
<1>4. ASSUME Trusted' PROVE ring'.seen = 1
  <2>1. ~clearing /\ ring.seen = 1 /\ PacketLeft
    BY <1>2, <1>4 DEF StatusInv, RingInv, ReadInv, Trusted
  <2>2. PICK f, v : /\ f \in Fields
                    /\ Head(stores) = Stored(f, v)
                    /\ (f = "seen" => v = 1)
    BY <2>1, One, Two, Three, Four DEF PacketLeft, Store, Fields
  <2>3. ring'.seen = IF f = "seen" THEN v ELSE ring.seen
    BY <2>2, StoreField DEF StatusInv, StatusShape
  <2> QED BY <2>1, <2>2, <2>3
<1>5. ReadInv'
  BY <1>2, <1>4 DEF StatusInv, ReadInv, Trusted
<1> QED BY <1>1, <1>3, <1>5 DEF StatusInv

\* A bridge starts: whatever the ring says is no longer to be trusted.
LEMMA BridgeStartsStatus ==
  ASSUME StatusInv, BridgeStarts PROVE StatusInv'
<1>1. /\ alive' = TRUE /\ stores' = ResetStores
      /\ clearing' = TRUE /\ cleared' = TRUE
      /\ reported' = NothingReported /\ starts' = starts + 1
      /\ starts < MaxStarts
      /\ UNCHANGED <<ring, loads, read, seenFirst, packets>>
  BY DEF BridgeStarts, readerVars
<1>2. StatusShape'
  <2>1. StatusShape
    BY DEF StatusInv
  <2>2. starts' \in 0..MaxStarts
    BY <1>1, <2>1, StatusAssumption DEF StatusShape
  <2>3. NothingReported \in [gain : SUBSET Positions, out : SUBSET Positions]
    BY DEF NothingReported
  <2> QED BY ONLY <1>1, <2>1, <2>2, <2>3 DEF StatusShape
<1>3. RingInv'
  BY <1>1 DEF RingInv, ResetLeft, ResetStores, Stored
<1>4. ReadInv'
  BY <1>1 DEF ReadInv, Trusted
<1> QED BY <1>2, <1>3, <1>4 DEF StatusInv

\* It ends, perhaps with stores undone.
LEMMA BridgeEndsStatus ==
  ASSUME StatusInv, BridgeEnds PROVE StatusInv'
<1>1. /\ alive' = FALSE /\ stores' = <<>>
      /\ UNCHANGED <<ring, loads, read, seenFirst, packets, starts, reported,
                     clearing, cleared>>
  BY DEF BridgeEnds, readerVars, history, clears
<1>2. StatusShape /\ RingInv /\ ReadInv
  BY DEF StatusInv
<1>3. StatusShape'
  BY ONLY <1>1, <1>2 DEF StatusShape
<1>4. RingInv'
  BY ONLY <1>1, <1>2 DEF RingInv, ResetLeft, PacketLeft, RingReported
<1>5. ReadInv'
  BY ONLY <1>1, <1>2 DEF ReadInv, Trusted
<1> QED BY <1>3, <1>4, <1>5 DEF StatusInv

\* A volume packet is received once ring_reset_status is through.
LEMMA PacketStatus ==
  ASSUME StatusInv, Packet PROVE StatusInv'
<1>1. StatusShape /\ RingInv /\ ReadInv
  BY DEF StatusInv
<1>2. /\ alive /\ stores = <<>>
      /\ packets < MaxPackets /\ packets' = packets + 1
      /\ UNCHANGED <<ring, alive, loads, read, seenFirst, starts, clearing,
                     cleared>>
  BY DEF Packet, readerVars, clears
<1>3. PICK sub \in Subcommands, muted \in 0..1, gain \in Positions,
           out \in Positions :
        /\ stores' = PacketStores(sub, muted, gain, out)
        /\ LET gains == IF sub = "chat" THEN {gain} ELSE {}
           IN  reported' = [gain |-> reported.gain \cup gains,
                            out  |-> reported.out \cup {out}]
  BY DEF Packet
<1>4. /\ reported'.gain = reported.gain \cup (IF sub = "chat" THEN {gain} ELSE {})
      /\ reported'.out = reported.out \cup {out}
      /\ reported' = [gain |-> reported'.gain, out |-> reported'.out]
  BY ONLY <1>3
<1>5. /\ reported.gain \subseteq reported'.gain
      /\ reported.out \subseteq reported'.out
      /\ out \in reported'.out
      /\ sub = "chat" => gain \in reported'.gain
  BY ONLY <1>4
<1>6. StatusShape'
  <2>1. packets' \in 0..MaxPackets
    BY <1>1, <1>2, StatusAssumption DEF StatusShape
  <2>2. /\ reported'.gain \in SUBSET Positions
        /\ reported'.out \in SUBSET Positions
    <3>1. reported.gain \subseteq Positions /\ reported.out \subseteq Positions
      BY <1>1 DEF StatusShape
    <3> QED BY <1>4, <3>1
  <2> QED BY ONLY <1>1, <1>2, <1>4, <2>1, <2>2 DEF StatusShape
<1>7. ~clearing
  <2>1. alive /\ stores = <<>> /\ StatusShape /\ RingInv
    BY ONLY <1>1, <1>2
  <2>2. ASSUME ResetLeft PROVE FALSE
    <3>1. Len(stores) > 0
      BY <2>1, <2>2, Four, Three, Two, One DEF ResetLeft
    <3>2. Len(<<>>) = 0
      OBVIOUS
    <3> QED BY ONLY <2>1, <3>1, <3>2
  <2> QED BY ONLY <2>1, <2>2 DEF RingInv
<1>8. RingInv'
  <2>1. PacketLeft'
    <3>1. CASE sub = "chat"
      <4>1. stores' = <<Stored("muted", muted), Stored("gain", gain),
                        Stored("out", out), Stored("seen", 1)>>
        BY ONLY <1>3, <3>1, Packets
      <4> QED BY ONLY <1>5, <3>1, <4>1, muted \in 0..1 DEF PacketLeft
    <3>2. CASE sub = "volume"
      <4>1. stores' = <<Stored("muted", muted), Stored("out", out),
                        Stored("seen", 1)>>
        BY ONLY <1>3, <3>2, Packets
      <4> QED BY ONLY <1>5, <4>1, muted \in 0..1 DEF PacketLeft
    <3> QED BY <3>1, <3>2, StatusAssumption
  <2>2. RingReported'
    BY ONLY <1>1, <1>2, <1>5, <1>7 DEF RingInv, RingReported
  <2> QED BY ONLY <1>2, <1>7, <2>1, <2>2 DEF RingInv
<1>9. ReadInv'
  BY ONLY <1>1, <1>2, <1>5 DEF ReadInv, Trusted
<1> QED BY <1>6, <1>8, <1>9 DEF StatusInv

----------------------------------------------------------------------------
(* The steps of the reader.                                                *)

LEMMA BeginReadStatus ==
  ASSUME StatusInv, BeginRead PROVE StatusInv'
<1>1. /\ loads' = <<"muted", "out", "gain", "seen">>
      /\ seenFirst' = (ring.seen = 1) /\ cleared' = clearing
      /\ UNCHANGED <<ring, alive, stores, read, packets, starts, reported,
                     clearing>>
  BY DEF BeginRead, LoadOrder, ringVars, history
<1>2. StatusShape /\ RingInv
  BY DEF StatusInv
<1>3. StatusShape'
  BY ONLY <1>1, <1>2 DEF StatusShape
<1>4. RingInv'
  BY ONLY <1>1, <1>2 DEF RingInv, ResetLeft, PacketLeft, RingReported
<1>5. loads' # <<"gain", "seen">> /\ loads' # <<"seen">>
  <2>1. Len(loads') = 4
    BY ONLY <1>1, Four
  <2>2. Len(<<"gain", "seen">>) = 2 /\ Len(<<"seen">>) = 1
    OBVIOUS
  <2> QED BY ONLY <2>1, <2>2
<1>6. ReadInv'
  BY ONLY <1>1, <1>2, <1>5 DEF ReadInv, Trusted, StatusShape
<1> QED BY <1>3, <1>4, <1>6 DEF StatusInv

\* A load: of the field that is next.
LEMMA LoadField ==
  ASSUME StatusInv, Load
  PROVE  /\ read' \in Statuses
         /\ \/ loads = <<"muted", "out", "gain", "seen">>
               /\ loads' = <<"out", "gain", "seen">>
            \/ loads = <<"out", "gain", "seen">> /\ loads' = <<"gain", "seen">>
               /\ read'.out = ring.out
            \/ loads = <<"gain", "seen">> /\ loads' = <<"seen">>
               /\ read'.gain = ring.gain /\ read'.out = read.out
            \/ loads = <<"seen">> /\ loads' = <<>>
               /\ read'.seen = ring.seen
               /\ read'.gain = read.gain /\ read'.out = read.out
<1>1. /\ loads # <<>> /\ loads' = Tail(loads)
      /\ read' = [read EXCEPT ![Head(loads)] = ring[Head(loads)]]
  BY DEF Load
<1>2. ring \in Statuses /\ read \in Statuses
  BY DEF StatusInv, StatusShape
<1>3. CASE loads = <<"muted", "out", "gain", "seen">>
  <2>1. Head(loads) = "muted" /\ Tail(loads) = <<"out", "gain", "seen">>
    BY ONLY <1>3, Four
  <2>2. read' \in Statuses
    BY ONLY <1>1, <1>2, <2>1 DEF Statuses
  <2> QED BY ONLY <1>1, <1>3, <2>1, <2>2
<1>4. CASE loads = <<"out", "gain", "seen">>
  <2>1. Head(loads) = "out" /\ Tail(loads) = <<"gain", "seen">>
    BY ONLY <1>4, Three
  <2>2. read' \in Statuses /\ read'.out = ring.out
    BY ONLY <1>1, <1>2, <2>1 DEF Statuses
  <2> QED BY ONLY <1>1, <1>4, <2>1, <2>2
<1>5. CASE loads = <<"gain", "seen">>
  <2>1. Head(loads) = "gain" /\ Tail(loads) = <<"seen">>
    BY ONLY <1>5, Two
  <2>2. /\ read' \in Statuses /\ read'.gain = ring.gain
        /\ read'.out = read.out
    BY ONLY <1>1, <1>2, <2>1 DEF Statuses
  <2> QED BY ONLY <1>1, <1>5, <2>1, <2>2
<1>6. CASE loads = <<"seen">>
  <2>1. Head(loads) = "seen" /\ Tail(loads) = <<>>
    BY ONLY <1>6, One
  <2>2. /\ read' \in Statuses /\ read'.seen = ring.seen
        /\ read'.gain = read.gain /\ read'.out = read.out
    BY ONLY <1>1, <1>2, <2>1 DEF Statuses
  <2> QED BY ONLY <1>1, <1>6, <2>1, <2>2
<1> QED BY <1>1, <1>3, <1>4, <1>5, <1>6 DEF StatusInv, StatusShape

LEMMA Lengths ==
  /\ <<"gain", "seen">> # <<"seen">> /\ <<>> # <<"seen">>
  /\ <<"gain", "seen">> # <<>>
  /\ <<"muted", "out", "gain", "seen">> # <<"seen">>
  /\ <<"out", "gain", "seen">> # <<"seen">>
  /\ <<"out", "gain", "seen">> # <<"gain", "seen">>
<1>1. /\ Len(<<"muted", "out", "gain", "seen">>) = 4
      /\ Len(<<"out", "gain", "seen">>) = 3 /\ Len(<<"gain", "seen">>) = 2
      /\ Len(<<"seen">>) = 1 /\ Len(<<>>) = 0
  OBVIOUS
<1> QED BY ONLY <1>1

LEMMA LoadStatus ==
  ASSUME StatusInv, Load PROVE StatusInv'
<1>1. UNCHANGED <<ring, alive, stores, seenFirst, packets, starts, reported,
                  clearing, cleared>>
  BY DEF Load, ringVars, history, clears
<1>2. /\ StatusShape /\ RingInv /\ ReadInv /\ read' \in Statuses
      /\ loads # <<>>
      /\ loads' \in {<<>>, <<"out", "gain", "seen">>, <<"gain", "seen">>,
                     <<"seen">>}
  BY LoadField DEF StatusInv, Load
<1>3. StatusShape'
  BY ONLY <1>1, <1>2 DEF StatusShape
<1>4. RingInv'
  BY ONLY <1>1, <1>2 DEF RingInv, ResetLeft, PacketLeft, RingReported
<1>5. ASSUME Trusted' PROVE ReadInv'
  <2>1. /\ ~clearing /\ ring.seen = 1 /\ RingReported
        /\ loads \in {<<"gain", "seen">>, <<"seen">>}
             => read.out \in reported.out
    BY <1>1, <1>2, <1>5 DEF ReadInv, RingInv, Trusted
  <2>2. ASSUME loads' \in {<<"gain", "seen">>, <<"seen">>}
        PROVE  read'.out \in reported.out
    <3>1. \/ read'.out = ring.out
          \/ read'.out = read.out /\ loads = <<"gain", "seen">>
      BY ONLY <2>2, StatusInv, Load, LoadField, Lengths
    <3> QED BY ONLY <2>1, <3>1 DEF RingReported
  <2>3. ASSUME loads' = <<"seen">>
        PROVE  read'.gain \in reported.gain \cup {0}
    <3>1. read'.gain = ring.gain
      BY <2>3, LoadField, Lengths
    <3> QED BY ONLY <2>1, <3>1 DEF RingReported
  <2> QED BY ONLY <1>1, <2>1, <2>2, <2>3 DEF ReadInv
<1>6. ReadInv'
  BY <1>5 DEF ReadInv
<1> QED BY <1>3, <1>4, <1>6 DEF StatusInv

LEMMA NextStatus == StatusInv /\ [Next]_vars => StatusInv'
<1> SUFFICES ASSUME StatusInv, [Next]_vars PROVE StatusInv'
  OBVIOUS
<1>1. ASSUME UNCHANGED vars PROVE StatusInv'
  <2>1. UNCHANGED <<ring, alive, stores, loads, read, seenFirst, packets,
                    starts, reported, clearing, cleared>>
    BY <1>1 DEF vars, ringVars, readerVars, history, clears
  <2> QED BY ONLY <2>1, StatusInv
          DEF StatusInv, StatusShape, RingInv, ReadInv, ResetLeft, PacketLeft,
              RingReported, Trusted
<1> QED BY <1>1, BridgeStartsStatus, BridgeEndsStatus, PacketStatus,
           StoreStatus, BeginReadStatus, LoadStatus
        DEF Next, Bridge, Reader

\* The fields of the ring stay what HeadsetStatus.read expects of them.
THEOREM StatusTypes == Spec => []TypeOK
<1>1. StatusInv => TypeOK
  <2> SUFFICES ASSUME StatusInv PROVE TypeOK
    OBVIOUS
  <2>1. StatusShape /\ RingInv
    BY DEF StatusInv
  <2>2. Len(stores) <= 4
    <3>1. ResetLeft \/ PacketLeft
      BY <2>1 DEF RingInv
    <3>2. Len(<<>>) = 0
      OBVIOUS
    <3>3. Len(stores) \in 0..4
      BY ONLY <3>1, <3>2, Four, Three, Two, One DEF ResetLeft, PacketLeft
    <3> QED BY ONLY <3>3, UpToFour, Zenon
  <2>3. Len(loads) <= 4
    <3>1. Len(<<>>) = 0
      OBVIOUS
    <3>2. Len(loads) \in 0..4
      BY ONLY <2>1, <3>1, Four, Three, Two, One DEF StatusShape
    <3> QED BY ONLY <3>2, UpToFour, Zenon
  <2> QED BY ONLY <2>1, <2>2, <2>3 DEF TypeOK, StatusShape, Statuses
<1> QED BY <1>1, InitStatus, NextStatus, PTL DEF Spec

\* What a reading shows of the dials was reported to this bridge, if vol_seen
\* was set when it began and no bridge was starting.
THEOREM DialsReported == Spec => DialsOfThisBridge
<1>1. ASSUME StatusInv, [Next]_vars
      PROVE  [(ReadingDials /\ seenFirst /\ ~cleared)
                => /\ shown'.dials[1] \in reported.gain \cup {Unseen.gain}
                   /\ shown'.dials[2] \in reported.out]_vars
  <2> SUFFICES ASSUME ReadingDials, seenFirst, ~cleared, vars' # vars
               PROVE  /\ shown'.dials[1] \in reported.gain \cup {Unseen.gain}
                      /\ shown'.dials[2] \in reported.out
    OBVIOUS
  <2>1. Len(loads) = 1 /\ loads' = <<>>
    BY DEF ReadingDials
  <2>2. loads = <<"seen">>
    <3>1. Len(<<>>) = 0
      OBVIOUS
    <3>2. loads \in {<<>>, <<"muted", "out", "gain", "seen">>,
                    <<"out", "gain", "seen">>, <<"gain", "seen">>, <<"seen">>}
      BY <1>1 DEF StatusInv, StatusShape
    <3> QED BY ONLY <2>1, <3>1, <3>2, Four, Three, Two, One
  <2>3. Load
    <3>1. loads' # loads /\ loads # <<>>
      BY ONLY <2>1, <2>2, Lengths
    <3>2. Bridge => loads' = loads
      BY DEF Bridge, BridgeStarts, BridgeEnds, Packet, Store, readerVars
    <3>3. UNCHANGED vars => loads' = loads
      BY DEF vars, readerVars
    <3>4. BeginRead => loads = <<>>
      BY DEF BeginRead
    <3> QED BY ONLY <3>1, <3>2, <3>3, <3>4, <1>1 DEF Next, Reader
  <2>4. /\ ~clearing /\ ring.seen = 1
        /\ read.out \in reported.out /\ read.gain \in reported.gain \cup {0}
    <3>1. ReadInv /\ Trusted
      BY <1>1, <2>2, Lengths DEF StatusInv, Trusted
    <3> QED BY ONLY <2>2, <3>1 DEF ReadInv
  <2>5. /\ read'.seen = 1 /\ read'.gain = read.gain /\ read'.out = read.out
    <3>1. /\ read'.seen = ring.seen
          /\ read'.gain = read.gain /\ read'.out = read.out
      BY ONLY <1>1, <2>2, <2>3, LoadField, Lengths
    <3> QED BY ONLY <2>4, <3>1
  <2>6. shown' = Panel(read')
    BY <2>1, <2>3 DEF Load
  <2>7. shown'.dials = <<read.gain, read.out>>
    BY ONLY <2>5, <2>6 DEF Panel
  <2> QED BY ONLY <2>4, <2>7 DEF Unseen
<1> QED BY <1>1, InitStatus, NextStatus, PTL DEF Spec, DialsOfThisBridge

----------------------------------------------------------------------------
(* What the ring will show once the bridge's stores are done.              *)

StoreOf(f, v) == \E i \in 1..Len(stores) : stores[i] = Stored(f, v)
NoStoreOf(f)  == \A i \in 1..Len(stores) : stores[i][1] # f

\* A field will be v: it is going to be stored, or has been.
Becomes(f, v) == StoreOf(f, v) \/ (NoStoreOf(f) /\ ring[f] = v)

StoredOnce ==
  /\ stores \in Seq(Fields \X Nat)
  /\ \A i, j \in 1..Len(stores) : stores[i][1] = stores[j][1] => i = j

LastInv ==
  /\ StoredOnce
  /\ last = [muted |-> last.muted, dials |-> last.dials]
  /\ alive =>
       /\ last.muted \in Nat /\ Becomes("muted", last.muted)
       /\ \/ /\ last.dials = NoDials
             /\ Becomes("gain", Unseen.gain) /\ Becomes("seen", 0)
          \/ /\ last.dials = <<last.dials[1], last.dials[2]>>
             /\ last.dials[1] \in Nat /\ last.dials[2] \in Nat
             /\ Becomes("gain", last.dials[1]) /\ Becomes("out", last.dials[2])
             /\ Becomes("seen", 1)

\* One store makes no difference to that.
LEMMA StoreBecomes ==
  ASSUME StatusInv, StoredOnce, Store
  PROVE  /\ StoredOnce'
         /\ \A f \in Fields, v \in Nat : Becomes(f, v) => Becomes(f, v)'
<1>1. PICK n \in Nat : n = Len(stores)
  BY DEF StoredOnce
<1>2. /\ stores # <<>> /\ stores' = Tail(stores)
      /\ ring' = [ring EXCEPT ![stores[1][1]] = stores[1][2]]
  <2>1. /\ stores # <<>> /\ stores' = Tail(stores)
        /\ ring' = [ring EXCEPT ![Head(stores)[1]] = Head(stores)[2]]
    BY DEF Store
  <2>2. Head(stores) = stores[1]
    BY <2>1 DEF StoredOnce
  <2> QED BY ONLY <2>1, <2>2
<1>3. /\ n >= 1 /\ Len(stores') = n - 1 /\ stores' \in Seq(Fields \X Nat)
      /\ \A i \in 1..(n - 1) : stores'[i] = stores[i + 1]
  BY <1>1, <1>2 DEF StoredOnce
<1>4. \A i \in 1..(n - 1) : i + 1 \in 1..n /\ i + 1 # 1
  BY <1>1
<1>5. StoredOnce'
  <2> SUFFICES ASSUME NEW i \in 1..(n - 1), NEW j \in 1..(n - 1),
                      stores'[i][1] = stores'[j][1]
               PROVE  i = j
    BY <1>3 DEF StoredOnce
  <2>1. stores[i + 1][1] = stores[j + 1][1]
    BY <1>3
  <2>2. i + 1 = j + 1
    BY <1>1, <1>4, <2>1 DEF StoredOnce
  <2> QED BY <2>2
<1>6. stores[1] \in Fields \X Nat /\ ring \in Statuses
  BY <1>1, <1>3 DEF StoredOnce, StatusInv, StatusShape
<1>7. ASSUME NEW f \in Fields, NEW v \in Nat, Becomes(f, v)
      PROVE  Becomes(f, v)'
  <2>1. CASE stores[1] = Stored(f, v)
    <3>1. stores[1][1] = f /\ stores[1][2] = v
      BY <2>1, StoredParts
    <3>2. ring'[f] = v
      BY <1>2, <1>6, <3>1 DEF Statuses, Fields
    <3>3. ASSUME NEW i \in 1..(n - 1) PROVE stores'[i][1] # f
      <4>1. stores'[i] = stores[i + 1] /\ i + 1 \in 1..n /\ i + 1 # 1
        BY <1>3, <1>4
      <4>2. 1 \in 1..n
        BY <1>3
      <4> QED BY <1>1, <3>1, <4>1, <4>2 DEF StoredOnce
    <3> QED BY <1>3, <3>2, <3>3 DEF Becomes, NoStoreOf
  <2>2. CASE stores[1] # Stored(f, v) /\ StoreOf(f, v)
    <3>1. PICK i \in 1..n : stores[i] = Stored(f, v)
      BY <1>1, <2>2 DEF StoreOf
    <3>2. i # 1
      BY <2>2, <3>1
    <3>3. i - 1 \in 1..(n - 1) /\ (i - 1) + 1 = i
      BY <1>1, <3>2
    <3>4. stores'[i - 1] = Stored(f, v)
      BY <1>3, <3>1, <3>3
    <3> QED BY <1>3, <3>3, <3>4 DEF Becomes, StoreOf
  <2>3. CASE NoStoreOf(f) /\ ring[f] = v
    <3>1. stores[1][1] # f
      BY <1>1, <1>3, <2>3 DEF NoStoreOf
    <3>2. ring'[f] = v
      BY <1>2, <1>6, <2>3, <3>1 DEF Statuses, Fields
    <3>3. \A i \in 1..(n - 1) : stores'[i][1] # f
      BY <1>1, <1>3, <1>4, <2>3 DEF NoStoreOf
    <3> QED BY <1>3, <3>2, <3>3 DEF Becomes, NoStoreOf
  <2> QED BY <1>7, <2>1, <2>2, <2>3 DEF Becomes
<1> QED BY <1>5, <1>7

LEMMA InitLast == Init => LastInv
<1> SUFFICES ASSUME Init PROVE LastInv
  OBVIOUS
<1>1. stores = <<>> /\ ~alive /\ last = Panel(Unseen)
  BY DEF Init
<1>2. <<>> \in Seq(Fields \X Nat) /\ Len(<<>>) = 0
  OBVIOUS
<1> QED BY <1>1, <1>2 DEF LastInv, StoredOnce, Panel

\* What a few stores say of each field.
LEMMA ResetBecomes ==
  ASSUME stores' = ResetStores
  PROVE  /\ StoredOnce'
         /\ StoreOf("muted", 0)' /\ StoreOf("gain", 0)' /\ StoreOf("seen", 0)'
<1>1. stores' = <<Stored("muted", 0), Stored("out", 100), Stored("seen", 0),
                  Stored("gain", 0)>>
  BY DEF ResetStores, Stored
<1>2. Len(stores') = 4 /\ 1 \in 1..4 /\ 3 \in 1..4 /\ 4 \in 1..4
  BY ONLY <1>1, Four
<1>3. /\ stores'[1] = Stored("muted", 0) /\ stores'[2] = Stored("out", 100)
      /\ stores'[3] = Stored("seen", 0) /\ stores'[4] = Stored("gain", 0)
  BY ONLY <1>1
<1>4. stores' \in Seq(Fields \X Nat)
  BY <1>1 DEF Stored, Fields
<1>5. \A i, j \in 1..4 : stores'[i][1] = stores'[j][1] => i = j
  BY <1>3, StoredParts
<1> QED BY <1>2, <1>3, <1>4, <1>5 DEF StoredOnce, StoreOf

LEMMA ChatBecomes ==
  ASSUME NEW m \in Nat, NEW g \in Nat, NEW o \in Nat,
         stores' = <<Stored("muted", m), Stored("gain", g), Stored("out", o),
                     Stored("seen", 1)>>
  PROVE  /\ StoredOnce'
         /\ StoreOf("muted", m)' /\ StoreOf("gain", g)'
         /\ StoreOf("out", o)' /\ StoreOf("seen", 1)'
<1>1. Len(stores') = 4 /\ 1 \in 1..4 /\ 2 \in 1..4 /\ 3 \in 1..4 /\ 4 \in 1..4
  BY Four
<1>2. /\ stores'[1] = Stored("muted", m) /\ stores'[2] = Stored("gain", g)
      /\ stores'[3] = Stored("out", o) /\ stores'[4] = Stored("seen", 1)
  OBVIOUS
<1>3. stores' \in Seq(Fields \X Nat)
  BY DEF Stored, Fields
<1>4. \A i, j \in 1..4 : stores'[i][1] = stores'[j][1] => i = j
  BY <1>2, StoredParts
<1> QED BY <1>1, <1>2, <1>3, <1>4 DEF StoredOnce, StoreOf

LEMMA VolumeBecomes ==
  ASSUME NEW m \in Nat, NEW o \in Nat,
         stores' = <<Stored("muted", m), Stored("out", o), Stored("seen", 1)>>
  PROVE  /\ StoredOnce'
         /\ StoreOf("muted", m)' /\ StoreOf("out", o)' /\ StoreOf("seen", 1)'
         /\ NoStoreOf("gain")'
<1>1. Len(stores') = 3 /\ 1 \in 1..3 /\ 2 \in 1..3 /\ 3 \in 1..3
  BY Three
<1>2. /\ stores'[1] = Stored("muted", m)
      /\ stores'[2] = Stored("out", o) /\ stores'[3] = Stored("seen", 1)
  OBVIOUS
<1>3. stores' \in Seq(Fields \X Nat)
  BY DEF Stored, Fields
<1>4. \A i, j \in 1..3 : stores'[i][1] = stores'[j][1] => i = j
  BY <1>2, StoredParts
<1>5. \A i \in 1..3 : stores'[i][1] # "gain"
  BY <1>2, StoredParts
<1> QED BY <1>1, <1>2, <1>3, <1>4, <1>5 DEF StoredOnce, StoreOf, NoStoreOf

\* A packet finds what the last one said in the ring: the plain variant keeps
\* its gain.
LEMMA PacketLast == ASSUME StatusInv, LastInv, Packet PROVE LastInv'
<1>1. PICK sub \in Subcommands, muted \in 0..1,
           gain \in Positions, out \in Positions :
        /\ stores' = PacketStores(sub, muted, gain, out)
        /\ LET dial == IF sub = "chat" THEN gain
                       ELSE IF last.dials = NoDials THEN Unseen.gain
                       ELSE last.dials[1]
           IN  last' = [muted |-> muted, dials |-> <<dial, out>>]
  BY DEF Packet
<1>2. alive /\ stores = <<>> /\ UNCHANGED <<ring, alive>>
  BY DEF Packet
<1>3. muted \in Nat /\ gain \in Nat /\ out \in Nat
  BY StatusAssumption
<1>4. NoDials # <<gain, out>> /\ Len(<<>>) = 0
  BY DEF NoDials
<1>5. CASE sub = "chat"
  <2>1. stores' = <<Stored("muted", muted), Stored("gain", gain),
                    Stored("out", out), Stored("seen", 1)>>
    BY <1>1, <1>5, Packets
  <2>2. last' = [muted |-> muted, dials |-> <<gain, out>>]
    BY <1>1, <1>5
  <2>3. /\ StoredOnce'
        /\ StoreOf("muted", muted)' /\ StoreOf("gain", gain)'
        /\ StoreOf("out", out)' /\ StoreOf("seen", 1)'
    BY ONLY <1>3, <2>1, ChatBecomes
  <2>4. /\ last'.muted = muted /\ last'.dials = <<gain, out>>
        /\ last'.dials[1] = gain /\ last'.dials[2] = out
    BY ONLY <2>2
  <2>5. last' = [muted |-> last'.muted, dials |-> last'.dials]
    BY ONLY <2>2, <2>4
  <2>6. /\ Becomes("muted", last.muted)' /\ Becomes("gain", last.dials[1])'
        /\ Becomes("out", last.dials[2])' /\ Becomes("seen", 1)'
    BY ONLY <2>3, <2>4 DEF Becomes, StoreOf
  <2>7. /\ last'.dials = <<last'.dials[1], last'.dials[2]>>
        /\ last'.muted \in Nat /\ last'.dials[1] \in Nat
        /\ last'.dials[2] \in Nat
    BY ONLY <1>3, <2>4
  <2> QED BY ONLY <2>3, <2>5, <2>6, <2>7 DEF LastInv
<1>6. CASE sub # "chat"
  <2>1. sub = "volume"
    BY <1>6, StatusAssumption
  <2>2. stores' = <<Stored("muted", muted), Stored("out", out),
                    Stored("seen", 1)>>
    BY <1>1, <2>1, Packets
  <2>3. PICK dial \in Nat :
          /\ dial = IF last.dials = NoDials THEN Unseen.gain
                    ELSE last.dials[1]
          /\ Becomes("gain", dial)
    <3>1. \A i, j : NoDials # <<i, j>>
      BY Zenon DEF NoDials
    <3>2. CASE last.dials = NoDials
      <4>1. Unseen.gain \in Nat
        BY DEF Unseen
      <4>2. Becomes("gain", Unseen.gain)
        BY ONLY <1>2, <3>1, <3>2, LastInv DEF LastInv
      <4> QED BY ONLY <3>2, <4>1, <4>2
    <3>3. CASE last.dials # NoDials
      <4>1. last.dials[1] \in Nat /\ Becomes("gain", last.dials[1])
        BY ONLY <1>2, <3>3, LastInv DEF LastInv
      <4> QED BY ONLY <3>3, <4>1
    <3> QED BY ONLY <3>2, <3>3
  <2>4. last' = [muted |-> muted, dials |-> <<dial, out>>]
    BY <1>1, <1>6, <2>3
  <2>5. ring.gain = dial
    BY <1>2, <1>4, <2>3 DEF Becomes, StoreOf
  <2>6. /\ StoredOnce'
        /\ StoreOf("muted", muted)' /\ StoreOf("out", out)'
        /\ StoreOf("seen", 1)' /\ NoStoreOf("gain")'
    BY ONLY <1>3, <2>2, VolumeBecomes
  <2>7. /\ last'.muted = muted /\ last'.dials = <<dial, out>>
        /\ last'.dials[1] = dial /\ last'.dials[2] = out
    BY ONLY <2>4
  <2>8. Becomes("gain", dial)'
    BY ONLY <1>2, <2>5, <2>6 DEF Becomes
  <2>9. last' = [muted |-> last'.muted, dials |-> last'.dials]
    BY ONLY <2>4, <2>7
  <2>10. /\ Becomes("muted", last.muted)' /\ Becomes("gain", last.dials[1])'
         /\ Becomes("out", last.dials[2])' /\ Becomes("seen", 1)'
    BY ONLY <2>6, <2>7, <2>8 DEF Becomes, StoreOf, NoStoreOf
  <2>11. /\ last'.dials = <<last'.dials[1], last'.dials[2]>>
         /\ last'.muted \in Nat /\ last'.dials[1] \in Nat
         /\ last'.dials[2] \in Nat
    BY ONLY <1>3, <2>3, <2>7
  <2> QED BY ONLY <2>6, <2>9, <2>10, <2>11 DEF LastInv
<1> QED BY <1>5, <1>6

LEMMA NextLast == ASSUME StatusInv, LastInv, [Next]_vars PROVE LastInv'
<1>1. CASE BridgeStarts
  <2>1. stores' = ResetStores /\ last' = Panel(Unseen)
    BY <1>1 DEF BridgeStarts
  <2>2. last' = [muted |-> 0, dials |-> NoDials] /\ Unseen.gain = 0
    BY <2>1 DEF Panel, Unseen
  <2> QED BY ONLY <2>1, <2>2, ResetBecomes DEF LastInv, Becomes
<1>2. CASE BridgeEnds
  <2>1. stores' = <<>> /\ ~alive' /\ last' = last
    BY <1>2 DEF BridgeEnds, history
  <2>2. <<>> \in Seq(Fields \X Nat) /\ Len(<<>>) = 0
    OBVIOUS
  <2> QED BY <2>1, <2>2 DEF LastInv, StoredOnce
<1>3. CASE Packet
  BY <1>3, PacketLast
<1>4. CASE Store
  <2>1. UNCHANGED <<alive, last>>
    BY <1>4 DEF Store, history
  <2>2. /\ StoredOnce'
        /\ \A f \in Fields, v \in Nat : Becomes(f, v) => Becomes(f, v)'
    BY <1>4, StoreBecomes DEF LastInv
  <2>3. /\ "muted" \in Fields /\ "out" \in Fields /\ "gain" \in Fields
        /\ "seen" \in Fields /\ Unseen.gain \in Nat
        /\ 0 \in Nat /\ 1 \in Nat
    BY DEF Fields, Unseen
  <2> HIDE DEF Becomes, StoredOnce
  <2>4. ASSUME alive
        PROVE  /\ last.muted \in Nat /\ Becomes("muted", last.muted)'
               /\ \/ /\ last.dials = NoDials
                     /\ Becomes("gain", Unseen.gain)' /\ Becomes("seen", 0)'
                  \/ /\ last.dials = <<last.dials[1], last.dials[2]>>
                     /\ last.dials[1] \in Nat /\ last.dials[2] \in Nat
                     /\ Becomes("gain", last.dials[1])'
                     /\ Becomes("out", last.dials[2])' /\ Becomes("seen", 1)'
    BY <2>1, <2>2, <2>3, <2>4 DEF LastInv
  <2> QED BY ONLY <2>1, <2>2, <2>4, LastInv DEF LastInv, Becomes
<1>5. CASE Reader \/ UNCHANGED vars
  <2>1. UNCHANGED <<ring, alive, stores, last>>
    BY <1>5 DEF Reader, BeginRead, Load, vars, ringVars, history
  <2> QED BY <2>1 DEF LastInv, StoredOnce, Becomes, StoreOf, NoStoreOf
<1> QED BY <1>1, <1>2, <1>3, <1>4, <1>5 DEF Next, Bridge

\* Between packets the ring of a living bridge shows what the headset reported
\* last, dials that no packet of this bridge carried excepted (on_rx and
\* ring_reset_status): what is left of ShowsLastReport is that readers read.
THEOREM LastStored == Spec => []RingShowsLast
<1>1. LastInv => RingShowsLast
  <2> SUFFICES ASSUME LastInv, alive, stores = <<>> PROVE Panel(ring) = last
    BY DEF RingShowsLast
  <2>1. Len(stores) = 0
    OBVIOUS
  <2>2. \A f, v : Becomes(f, v) => ring[f] = v
    BY <2>1 DEF Becomes, StoreOf
  <2>3. last = [muted |-> ring.muted, dials |-> last.dials]
    BY <2>2 DEF LastInv
  <2>4. CASE last.dials = NoDials /\ ring.seen = 0
    BY ONLY <2>3, <2>4 DEF Panel
  <2>5. CASE last.dials = <<ring.gain, ring.out>> /\ ring.seen = 1
    BY ONLY <2>3, <2>5 DEF Panel
  <2> QED BY ONLY <2>2, <2>4, <2>5, LastInv, alive DEF LastInv
<1> QED BY <1>1, InitStatus, NextStatus, InitLast, NextLast, PTL DEF Spec

----------------------------------------------------------------------------
(* The bridge threads of the app.                                          *)

\* bridge_is_running is true only while some thread is in bridge_run, whatever
\* the order of starts, stops, failures and quitting.
THEOREM ControllerTypes == ControllerSpec => []ControllerTypeOK
<1>1. ControllerInit => ControllerTypeOK
  BY DEF ControllerInit, ControllerTypeOK, States, PCs
<1>2. ASSUME ControllerTypeOK, [ControllerNext]_appVars PROVE ControllerTypeOK'
  <2> DEFINE In(p) == p \in {"mapping", "session"}
  <2>0. /\ app \in {"absent", "open", "quitting"} /\ state \in States
        /\ pc \in [Threads -> PCs]
        /\ automatic \in BOOLEAN /\ running \in BOOLEAN
        /\ stop \in BOOLEAN /\ external \in BOOLEAN
        /\ running => \E t \in Threads : In(pc[t])
    BY <1>2 DEF ControllerTypeOK
  <2>s. ASSUME NEW s \in States PROVE Refreshed(s) \in States
    BY DEF Refreshed, States
  <2>p. ASSUME NEW s \in States, Start(s)
        PROVE  /\ state' \in States /\ pc' \in [Threads -> PCs]
               /\ \A t \in Threads : In(pc[t]) => pc'[t] = pc[t]
    BY <2>0, <2>p DEF Start, States, PCs
  <2>f. "stopped" \in States
    BY DEF States
  <2>1. CASE OpenApp
    <3>1. /\ state' \in States /\ pc' \in [Threads -> PCs]
          /\ \A t \in Threads : In(pc[t]) => pc'[t] = pc[t]
      BY <2>0, <2>1, <2>f, <2>p, <2>s DEF OpenApp
    <3> QED BY <2>0, <2>1, <3>1 DEF OpenApp, ControllerTypeOK, core
  <2>2. CASE Poll
    BY <2>0, <2>2, <2>s DEF Poll, ControllerTypeOK, core
  <2>3. CASE PressStart
    <3>1. /\ state' \in States /\ pc' \in [Threads -> PCs]
          /\ \A t \in Threads : In(pc[t]) => pc'[t] = pc[t]
      BY <2>0, <2>3, <2>p DEF PressStart
    <3> QED BY <2>0, <2>3, <3>1 DEF PressStart, ControllerTypeOK, core
  <2>4. CASE PressStop
    BY <2>0, <2>4, <2>f DEF PressStop, ControllerTypeOK
  <2>5. CASE SetAutomatic
    BY <2>0, <2>5 DEF SetAutomatic, ControllerTypeOK, core
  <2>6. CASE Quit
    BY <2>0, <2>6 DEF Quit, ControllerTypeOK
  <2>7. CASE Exit
    BY <2>0, <2>7, <2>f DEF Exit, ControllerTypeOK, PCs
  <2>8. CASE External
    BY <2>0, <2>8 DEF External, ControllerTypeOK, core
  <2>9. ASSUME NEW t \in Threads, Enter(t) PROVE ControllerTypeOK'
    BY <2>0, <2>9 DEF Enter, ControllerTypeOK, PCs
  <2>10. ASSUME NEW t \in Threads, Mapped(t) PROVE ControllerTypeOK'
    BY <2>0, <2>10 DEF Mapped, ControllerTypeOK, PCs, core
  <2>11. ASSUME NEW t \in Threads, MapFails(t) PROVE ControllerTypeOK'
    BY <2>0, <2>11 DEF MapFails, ControllerTypeOK, PCs
  <2>12. ASSUME NEW t \in Threads, Return(t) PROVE ControllerTypeOK'
    BY <2>0, <2>12 DEF Return, ControllerTypeOK, PCs
  <2>13. ASSUME NEW t \in Threads, BridgeThreadFinished(t)
         PROVE  ControllerTypeOK'
    <3>1. state' \in States
      BY <2>13, <2>s DEF BridgeThreadFinished, Result, States
    <3>2. /\ pc' = [pc EXCEPT ![t] = "idle"] /\ ~In(pc[t])
          /\ UNCHANGED <<app, automatic, running, stop, external>>
      BY <2>13 DEF BridgeThreadFinished, core
    <3>3. pc' \in [Threads -> PCs]
      BY <2>0, <3>2 DEF PCs
    <3>4. running' => \E u \in Threads : In(pc'[u])
      BY <2>0, <3>2
    <3> QED BY <2>0, <3>1, <3>2, <3>3, <3>4 DEF ControllerTypeOK
  <2>14. CASE UNCHANGED appVars
    BY <2>0, <2>14 DEF appVars, core, ControllerTypeOK
  <2> QED BY <1>2, <2>1, <2>2, <2>3, <2>4, <2>5, <2>6, <2>7, <2>8, <2>9,
             <2>10, <2>11, <2>12, <2>13, <2>14
          DEF ControllerNext, BridgeThread
<1> QED BY <1>1, <1>2, PTL DEF ControllerSpec
====
