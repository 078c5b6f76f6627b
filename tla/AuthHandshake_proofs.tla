---- MODULE AuthHandshake_proofs ----
(***************************************************************************)
(* Proofs about AuthHandshake and the header codec it uses, for headset    *)
(* records of any length, any number of attempts and of failing writes.    *)
(***************************************************************************)
EXTENDS AuthHandshake, SequenceTheorems, TLAPS

----------------------------------------------------------------------------
(* What may be on its way, in any order and of any attempt.                *)

Lasting == {"secret", "key2"}
Names   == Records \cup Requests \cup {"clientHello2", "none", "torn"}
Kinds   == {"whole", "start", "chunk", "end", "gipack", "authack", "upgrade"}
Packets == [kind : Kinds, cmd : Names, off : Nat, n : 0..GIP_PKT_MAX,
            ack : BOOLEAN]

HostPackets ==
  {p \in Packets : \/ p.kind = "whole" \/ p = Ack
                   \/ p.kind \in {"start", "chunk", "end"} /\ p.off \in 1..274}

HeadsetPackets ==
  {p \in Packets :
     /\ p.kind # "whole"
     /\ p.kind = "start" => p.off = ClientLen
     /\ p.kind = "chunk" => p.off + p.n <= ClientLen}

\* A record being sent that has anything left of it has begun.
Outs ==
  {o \in [cmd : Names, total : {0, 82, 274}, len : {0, 82, 274},
          off : 0..274, term : BOOLEAN] :
     /\ o.len \in {0, o.total} /\ o.off <= o.total
     /\ o.len # 0 \/ o.term = TRUE => o.total > 0 /\ o.off > 0}

Ins == [cmd : Names, total : {0, ClientLen}, len : 0..ClientLen]

Devs == [in : [cmd : Names, total : Nat, len : Nat], sends : Names,
         stage : {"start", "rest"}, heard : SUBSET Names, torn : BOOLEAN]

ShapeInv ==
  /\ session \in 1..MaxSessions
  /\ phase \in {"opened", "armed", "streaming"}
  /\ lastCmd \in Records \cup Requests \cup {"none"}
  /\ started \in BOOLEAN /\ authenticated \in BOOLEAN /\ reader \in BOOLEAN
  /\ transcript \in Seq(Names)
  /\ out \in Outs
  /\ in \in Ins
  /\ toDevice \in Seq(HostPackets)
  /\ toHost \in Seq(HeadsetPackets)
  /\ dialect \in Dialects
  /\ dev \in Devs
  /\ faults \in 0..MaxFaults

----------------------------------------------------------------------------
(* Lengths, fragments and the packets that carry them.                     *)

\* Only the host's secret and its key take more than one packet.
LEMMA Lengths ==
  ASSUME NEW cmd \in Names
  PROVE  /\ cmd = "secret" => Length(cmd) = 274
         /\ cmd = "key2" => Length(cmd) = 82
         /\ cmd \notin Lasting => Length(cmd) \in 2..GIP_PKT_MAX
BY DEF Names, Records, Requests, Lasting, Length, GIP_PKT_MAX

\* The part of a record that begins at an offset, as a packet.
Piece(cmd, at, len) ==
  LET n == IF len - at > GIP_PKT_MAX THEN GIP_PKT_MAX ELSE len - at
  IN  Packet("chunk", cmd, at, n, at + n = len)

\* Fragments cover a record from their offset to its end, GIP_PKT_MAX bytes
\* apart.
LEMMA FragmentsCover ==
  ASSUME NEW cmd, NEW off \in Nat, NEW len \in Nat, off <= len
  PROVE  \E q \in Nat :
           /\ Len(Fragments(cmd, off, len)) = q
           /\ Fragments(cmd, off, len)
                = [k \in 1..q |-> Piece(cmd, off + (k - 1) * GIP_PKT_MAX, len)]
           /\ \A k \in 1..q : off + (k - 1) * GIP_PKT_MAX < len
           /\ off + q * GIP_PKT_MAX >= len
           /\ q = 0 => off = len
<1> DEFINE q == (len - off + GIP_PKT_MAX - 1) \div GIP_PKT_MAX
           f == Fragments(cmd, off, len)
<1>1. /\ q \in Nat /\ off + q * GIP_PKT_MAX >= len
      /\ \A k \in 1..q : off + (k - 1) * GIP_PKT_MAX < len
      /\ q = 0 => off = len
  BY DEF GIP_PKT_MAX
<1>2. f = [k \in 1..q |-> Piece(cmd, off + (k - 1) * GIP_PKT_MAX, len)]
  BY DEF Fragments, Piece
<1> HIDE DEF q, f
<1>3. Len(f) = q
  BY <1>1, <1>2
<1>4. /\ Len(f) = q
      /\ f = [k \in 1..q |-> Piece(cmd, off + (k - 1) * GIP_PKT_MAX, len)]
      /\ \A k \in 1..q : off + (k - 1) * GIP_PKT_MAX < len
      /\ off + q * GIP_PKT_MAX >= len
      /\ q = 0 => off = len
  BY <1>1, <1>2, <1>3
<1>5. QED BY ONLY <1>1, <1>4 DEF f

\* A piece is a packet of at most GIP_PKT_MAX bytes that ends in the record.
LEMMA PieceShape ==
  ASSUME NEW cmd \in Names, NEW at \in Nat, NEW len \in Nat, at < len
  PROVE  /\ Piece(cmd, at, len) \in Packets
         /\ Piece(cmd, at, len).kind = "chunk"
         /\ Piece(cmd, at, len).off = at
         /\ at + Piece(cmd, at, len).n <= len
         /\ Piece(cmd, at, len).n =
              IF len - at > GIP_PKT_MAX THEN GIP_PKT_MAX ELSE len - at
         /\ Piece(cmd, at, len).ack = (len - at <= GIP_PKT_MAX)
BY DEF Piece, Packet, Packets, Kinds, GIP_PKT_MAX

\* Before another fragment the record has not ended.
LEMMA FragmentsInside ==
  ASSUME NEW cmd, NEW off \in Nat, NEW len \in Nat, off <= len,
         NEW k \in Nat, k < Len(Fragments(cmd, off, len))
  PROVE  off + k * 58 < len
<1>1. PICK q \in Nat :
        /\ Len(Fragments(cmd, off, len)) = q
        /\ \A j \in 1..q : off + (j - 1) * GIP_PKT_MAX < len
  BY FragmentsCover
<1>2. k + 1 \in 1..q
  BY <1>1
<1> QED BY <1>1, <1>2 DEF GIP_PKT_MAX

LEMMA FragmentsCount ==
  ASSUME NEW cmd, NEW off \in Nat, NEW len \in Nat, off <= len
  PROVE  Len(Fragments(cmd, off, len)) \in Nat
BY FragmentsCover

\* What holds of every piece of a record holds of its fragments.
LEMMA FragmentsIn ==
  ASSUME NEW cmd, NEW off \in Nat, NEW len \in Nat, off <= len, NEW S,
         \A at \in Nat : off <= at /\ at < len => Piece(cmd, at, len) \in S
  PROVE  Fragments(cmd, off, len) \in Seq(S)
<1> DEFINE f == Fragments(cmd, off, len)
           at(k) == off + (k - 1) * GIP_PKT_MAX
<1>1. PICK q \in Nat :
        /\ f = [k \in 1..q |-> Piece(cmd, at(k), len)]
        /\ \A k \in 1..q : at(k) < len
  BY FragmentsCover
<1>2. \A k \in 1..q : at(k) \in Nat /\ off <= at(k) /\ at(k) < len
  BY <1>1 DEF GIP_PKT_MAX
<1> HIDE DEF at, f
<1>3. \A k \in 1..q : Piece(cmd, at(k), len) \in S
  BY <1>2
<1>4. f \in Seq(S)
  BY <1>1, <1>3
<1> QED BY <1>4 DEF f

\* The fragments of one of the host's records, and of one of the headset's.
LEMMA FragmentShapes ==
  ASSUME NEW cmd \in Names, NEW off \in Nat, NEW len \in Nat, off <= len
  PROVE  /\ off > 0 /\ len <= 274 =>
              Fragments(cmd, off, len) \in Seq(HostPackets)
         /\ len = ClientLen => Fragments(cmd, off, len) \in Seq(HeadsetPackets)
<1>1. ASSUME off > 0, len <= 274, NEW at \in Nat, off <= at, at < len
      PROVE  Piece(cmd, at, len) \in HostPackets
  <2>1. /\ Piece(cmd, at, len) \in Packets
        /\ Piece(cmd, at, len).kind = "chunk"
        /\ Piece(cmd, at, len).off = at
    BY ONLY <1>1, cmd \in Names, len \in Nat, PieceShape
  <2>2. at \in 1..274
    BY <1>1
  <2> QED BY ONLY <2>1, <2>2 DEF HostPackets
<1>2. ASSUME len = ClientLen, NEW at \in Nat, at < len
      PROVE  Piece(cmd, at, len) \in HeadsetPackets
  BY <1>2, PieceShape DEF HeadsetPackets
<1> QED BY <1>1, <1>2, FragmentsIn

----------------------------------------------------------------------------
(* Sending, whatever is being sent already.                                *)

Sendable == Records \cup Requests

\* What a packet to the headset is made of.
LEMMA FirstPacketShape ==
  ASSUME NEW cmd \in Sendable, NEW o \in Outs
  PROVE  FirstPacket(cmd, o) \in HostPackets
<1>1. cmd \in Names /\ "torn" \in Names BY DEF Sendable, Names
<1>2. CASE cmd \in Lasting
  <2>1. Length(cmd) \in 1..274 /\ Length(cmd) > GIP_PKT_MAX
    BY <1>1, <1>2, Lengths DEF Lasting, GIP_PKT_MAX
  <2> QED BY <1>1, <2>1
          DEF FirstPacket, Packet, HostPackets, Packets, Kinds, GIP_PKT_MAX
<1>3. CASE cmd \notin Lasting
  <2>1. Length(cmd) \in 0..GIP_PKT_MAX /\ ~(Length(cmd) > GIP_PKT_MAX)
    BY <1>1, <1>3, Lengths DEF GIP_PKT_MAX
  <2>2. /\ Packet("whole", "torn", 0, GIP_PKT_MAX, TRUE) \in HostPackets
        /\ Whole(cmd) \in HostPackets
    BY <1>1, <2>1 DEF Whole, Packet, HostPackets, Packets, Kinds, GIP_PKT_MAX
  <2> QED BY <2>1, <2>2 DEF FirstPacket
<1> QED BY <1>2, <1>3

\* What is being sent afterwards.
LEMMA OutAfterShape ==
  ASSUME NEW cmd \in Sendable, NEW o \in Outs
  PROVE  OutAfter(cmd, o) \in Outs
<1>1. cmd \in Names BY DEF Sendable, Names
<1>2. CASE cmd \in Lasting
  <2>1. Length(cmd) \in {82, 274} /\ Length(cmd) > GIP_PKT_MAX
    BY <1>1, <1>2, Lengths DEF Lasting, GIP_PKT_MAX
  <2> QED BY <1>1, <2>1 DEF OutAfter, Outs, GIP_PKT_MAX
<1>3. CASE cmd \notin Lasting
  <2>1. Length(cmd) \in 2..GIP_PKT_MAX /\ ~(Length(cmd) > GIP_PKT_MAX)
    BY <1>1, <1>3, Lengths DEF GIP_PKT_MAX
  <2>2. o.len # 0 => [o EXCEPT !.off = Length(cmd)] \in Outs
    BY <2>1 DEF Outs, GIP_PKT_MAX
  <2> QED BY <2>1, <2>2 DEF OutAfter
<1> QED BY <1>2, <1>3

\* Appending at most one packet to two batches.
LEMMA Written ==
  ASSUME NEW s \in Seq(HostPackets), NEW w \in Seq(HostPackets),
         NEW p \in HostPackets, NEW ok \in BOOLEAN
  PROVE  s \o w \o (IF ok THEN <<p>> ELSE <<>>) \in Seq(HostPackets)
<1>1. (IF ok THEN <<p>> ELSE <<>>) \in Seq(HostPackets)
  OBVIOUS
<1> HIDE DEF HostPackets
<1> QED BY <1>1

LEMMA SendShape ==
  ASSUME ShapeInv, NEW cmd \in Sendable, NEW ok \in BOOLEAN,
         NEW hashed \in Seq(Names), Send(cmd, out, <<>>, ok, hashed)
  PROVE  /\ lastCmd' \in Sendable
         /\ transcript' \in Seq(Names)
         /\ out' \in Outs
         /\ toDevice' \in Seq(HostPackets)
<1>1. out \in Outs /\ toDevice \in Seq(HostPackets) /\ transcript \in Seq(Names)
  BY DEF ShapeInv
<1>2. lastCmd' = cmd /\ out' = OutAfter(cmd, out) /\ transcript' = transcript \o hashed
  BY DEF Send
<1>3. toDevice' = toDevice \o <<>>
                   \o (IF ok THEN <<FirstPacket(cmd, out)>> ELSE <<>>)
  BY DEF Send
<1>4. FirstPacket(cmd, out) \in HostPackets /\ <<>> \in Seq(HostPackets)
  BY <1>1, FirstPacketShape
<1>5. toDevice' \in Seq(HostPackets)
  BY <1>1, <1>3, <1>4, Written
<1>6. out' \in Outs
  BY <1>1, <1>2, OutAfterShape
<1>7. transcript' \in Seq(Names)
  BY <1>1, <1>2
<1> QED BY <1>2, <1>5, <1>6, <1>7

LEMMA CompleteShape ==
  ASSUME ShapeInv, NEW o \in Outs, NEW w \in Seq(HostPackets),
         NEW ok \in BOOLEAN, Complete(o, w, ok)
  PROVE  /\ out' \in Outs
         /\ toDevice' \in Seq(HostPackets)
         /\ authenticated' \in BOOLEAN
<1>1. "complete" \in Sendable BY DEF Sendable, Records
<1>2. toDevice \in Seq(HostPackets) BY DEF ShapeInv
<1>3. toDevice' = toDevice \o w
                   \o (IF ok THEN <<FirstPacket("complete", o)>> ELSE <<>>)
  BY DEF Complete
<1>4. toDevice' \in Seq(HostPackets)
  BY <1>1, <1>2, <1>3, FirstPacketShape, Written
<1>5. out' \in Outs
  BY <1>1, OutAfterShape DEF Complete
<1>6. authenticated' \in BOOLEAN
  BY DEF Complete
<1> QED BY <1>4, <1>5, <1>6

\* An acknowledgement writes fragments or the terminator of the record being
\* sent, if anything.
LEMMA ChunkShape ==
  ASSUME NEW c \in ChunkOutcomes, out \in Outs
  PROVE  c.out \in Outs /\ c.w \in Seq(HostPackets) /\ c.ok \in BOOLEAN
<1> DEFINE ends == Packet("end", out.cmd, out.total, 0, FALSE)
<1>0. out = [cmd |-> out.cmd, total |-> out.total, len |-> out.len,
             off |-> out.off, term |-> out.term]
  BY DEF Outs
<1>1. CASE out.len # 0
  <2>1. PICK cmd \in Names, off \in Nat, len \in Nat :
          /\ cmd = out.cmd /\ off = out.off /\ len = out.len
          /\ out.total = len /\ off <= len /\ off > 0 /\ len \in {82, 274}
    BY <1>1 DEF Outs
  <2> DEFINE frags == Fragments(cmd, off, len)
  <2>0. off <= len BY <2>1
  <2>2. Len(frags) \in Nat
    BY <2>0, FragmentsCount
  <2>3. frags \in Seq(HostPackets)
    BY <2>1, FragmentShapes
  <2>4. PICK k \in 0..Len(frags) :
          c = [out |-> AfterFragments(k), w |-> SubSeq(frags, 1, k),
               ok |-> k = Len(frags)]
    BY <1>1, <2>1 DEF ChunkOutcomes
  <2>5. AfterFragments(k) =
          IF k = Len(frags)
          THEN [out EXCEPT !.off = out.len, !.len = 0, !.term = TRUE]
          ELSE [out EXCEPT !.off = @ + k * GIP_PKT_MAX]
    BY <2>1, <2>2 DEF AfterFragments
  <2> HIDE DEF frags
  <2>6. c.w \in Seq(HostPackets) /\ c.ok \in BOOLEAN
        /\ c.out = AfterFragments(k)
    BY <2>2, <2>3, <2>4
  <2>7. CASE k = Len(frags)
    <3>1. AfterFragments(k) = [cmd |-> cmd, total |-> len, len |-> 0,
                               off |-> len, term |-> TRUE]
      BY <1>0, <2>1, <2>5, <2>7
    <3> QED BY <2>1, <2>6, <3>1 DEF Outs
  <2>8. CASE k # Len(frags)
    <3>1. k \in Nat /\ k < Len(frags)
      BY <2>2, <2>8
    <3>2. off + k * 58 < len
      BY <2>0, <3>1, FragmentsInside DEF frags
    <3> DEFINE at == off + k * 58
    <3>3. off > 0 /\ len <= 274 /\ len > 0 /\ len \in {0, 82, 274}
      BY <2>1
    <3>6. at \in 0..274 /\ at <= len /\ at > 0
      BY <3>1, <3>2, <3>3
    <3>4. AfterFragments(k) = [cmd |-> cmd, total |-> len, len |-> len,
                               off |-> at, term |-> out.term]
      BY <1>0, <2>1, <2>5, <2>8 DEF GIP_PKT_MAX
    <3>5. out.term \in BOOLEAN BY DEF Outs
    <3> HIDE DEF at
    <3> QED BY <2>6, <3>3, <3>4, <3>5, <3>6 DEF Outs
  <2> QED BY <2>7, <2>8
<1>2. CASE out.len = 0 /\ out.term = TRUE
  <2>1. PICK ok \in BOOLEAN :
          c = [out |-> [out EXCEPT !.term = ~ok], ok |-> ok,
               w |-> IF ok THEN <<ends>> ELSE <<>>]
    BY <1>2 DEF ChunkOutcomes
  <2>2. ends \in HostPackets
    BY <1>2 DEF Outs, Packet, HostPackets, Packets, Kinds, GIP_PKT_MAX
  <2>3. \A b \in BOOLEAN : [out EXCEPT !.term = b] \in Outs
    BY <1>2 DEF Outs
  <2>4. [out EXCEPT !.term = ~ok] \in Outs
    BY <2>3
  <2> HIDE DEF ends
  <2> QED BY <2>1, <2>2, <2>4
<1>3. CASE out.len = 0 /\ out.term = FALSE
  <2>1. c = [out |-> out, w |-> <<>>, ok |-> TRUE]
    BY <1>3 DEF ChunkOutcomes
  <2> QED BY <2>1
<1>4. out.term \in BOOLEAN BY DEF Outs
<1> QED BY <1>1, <1>2, <1>3, <1>4

----------------------------------------------------------------------------
(* Every step keeps the shapes.                                            *)

LEMMA HeadAndTail ==
  ASSUME NEW S, NEW s \in Seq(S), s # <<>>
  PROVE  Head(s) \in S /\ Tail(s) \in Seq(S)
OBVIOUS

LEMMA Concatenated ==
  ASSUME NEW S, NEW s \in Seq(S), NEW w \in Seq(S)
  PROVE  s \o w \in Seq(S)
OBVIOUS

LEMMA HashedShape ==
  ASSUME NEW cmd \in Names PROVE Hashed(cmd) \in Seq(Names)
<1>1. <<cmd>> \in Seq(Names) /\ <<>> \in Seq(Names)
  OBVIOUS
<1> QED BY <1>1 DEF Hashed

LEMMA EmptyShapes == NoOut \in Outs /\ NoRecord \in Ins /\ Quiet \in Devs
<1>1. "none" \in Names BY DEF Names
<1>2. NoOut \in Outs
  <2>1. NoOut \in [cmd : Names, total : {0, 82, 274}, len : {0, 82, 274},
                   off : 0..274, term : BOOLEAN]
    BY <1>1 DEF NoOut
  <2>2. NoOut.len = 0 /\ NoOut.total = 0 /\ NoOut.off = 0 /\ NoOut.term = FALSE
    BY DEF NoOut
  <2>3. NoOut.len \in {0, NoOut.total} /\ NoOut.off <= NoOut.total
    BY <2>2
  <2> HIDE DEF NoOut
  <2> QED BY <2>1, <2>2, <2>3 DEF Outs
<1>3. NoRecord \in Ins BY <1>1, HandshakeAssumption DEF NoRecord, Ins
<1>4. Quiet \in Devs BY <1>1 DEF NoRecord, Quiet, Devs
<1> QED BY <1>2, <1>3, <1>4

LEMMA InitShape == Init => ShapeInv
<1> SUFFICES ASSUME Init PROVE ShapeInv
  OBVIOUS
<1>0. session \in 1..MaxSessions /\ faults \in 0..MaxFaults
  BY HandshakeAssumption DEF Init
<1>1. /\ dialect \in Dialects /\ phase \in {"opened", "armed", "streaming"}
      /\ started \in BOOLEAN /\ authenticated \in BOOLEAN /\ reader \in BOOLEAN
      /\ lastCmd \in Records \cup Requests \cup {"none"}
  BY DEF Init
<1>2. transcript \in Seq(Names) /\ toDevice \in Seq(HostPackets)
      /\ toHost \in Seq(HeadsetPackets)
  BY DEF Init
<1>3. out \in Outs /\ in \in Ins /\ dev \in Devs
  BY EmptyShapes DEF Init
<1> QED BY <1>0, <1>1, <1>2, <1>3 DEF ShapeInv

LEMMA ArmShape == ShapeInv /\ Arm => ShapeInv'
<1> SUFFICES ASSUME ShapeInv, Arm PROVE ShapeInv'
  OBVIOUS
<1>1. PICK ok \in BOOLEAN :
        Attempt(ok) /\ Send("hello", out, <<>>, ok, <<"hello">>)
  BY DEF Arm
<1>2. "hello" \in Sendable /\ <<"hello">> \in Seq(Names)
  BY DEF Sendable, Names, Records
<1>3. /\ lastCmd' \in Sendable /\ transcript' \in Seq(Names)
      /\ out' \in Outs /\ toDevice' \in Seq(HostPackets)
  BY <1>1, <1>2, SendShape
<1>4. faults' \in 0..MaxFaults
  BY <1>1, HandshakeAssumption DEF Attempt, ShapeInv
<1> QED BY <1>3, <1>4 DEF Arm, ShapeInv, Sendable, device

LEMMA RetryShape == ShapeInv /\ Retry => ShapeInv'
<1> SUFFICES ASSUME ShapeInv, Retry PROVE ShapeInv'
  OBVIOUS
<1>1. session' \in 1..MaxSessions
  BY HandshakeAssumption DEF Retry, ShapeInv
<1>2. out' \in Outs /\ in' \in Ins
  BY EmptyShapes DEF Retry, ShapeInv
<1>3. /\ toDevice' = toDevice \/ toDevice' = <<>>
      /\ toHost' = toHost \/ toHost' = <<>>
      /\ dev' = dev \/ dev' = Quiet
  BY DEF Retry
<1>4. /\ toDevice' \in Seq(HostPackets) /\ toHost' \in Seq(HeadsetPackets)
      /\ dev' \in Devs
  <2>1. <<>> \in Seq(HostPackets) /\ <<>> \in Seq(HeadsetPackets)
    OBVIOUS
  <2> QED BY <1>3, <2>1, EmptyShapes DEF ShapeInv
<1>5. transcript' \in Seq(Names) /\ reader' \in BOOLEAN
  BY DEF Retry, ReaderStarted
<1>6. /\ phase' \in {"opened", "armed", "streaming"}
      /\ lastCmd' \in Records \cup Requests \cup {"none"}
      /\ started' \in BOOLEAN /\ authenticated' \in BOOLEAN
      /\ dialect' \in Dialects /\ faults' \in 0..MaxFaults
  BY DEF Retry, ShapeInv
<1> QED BY <1>1, <1>2, <1>4, <1>5, <1>6 DEF ShapeInv

LEMMA GipAckShape == ShapeInv /\ RxGipAck => ShapeInv'
<1> SUFFICES ASSUME ShapeInv, RxGipAck PROVE ShapeInv'
  OBVIOUS
<1>1. PICK c \in ChunkOutcomes, ok \in BOOLEAN :
       /\ Attempt(c.ok /\ ok)
       /\ IF AwaitsFinishAck
          THEN Complete(c.out, c.w, ok)
          ELSE /\ ok
               /\ out' = c.out
               /\ toDevice' = toDevice \o c.w
               /\ UNCHANGED authenticated
  BY DEF RxGipAck
<1>2. c.out \in Outs /\ c.w \in Seq(HostPackets) /\ c.ok \in BOOLEAN
  BY ChunkShape DEF ShapeInv
<1>3. toHost' \in Seq(HeadsetPackets) /\ reader' \in BOOLEAN
  BY HeadAndTail DEF RxGipAck, Arrives, Taken, ShapeInv
<1>4. /\ out' \in Outs /\ toDevice' \in Seq(HostPackets)
      /\ authenticated' \in BOOLEAN
  <2>1. CASE AwaitsFinishAck
    BY <1>1, <1>2, <2>1, CompleteShape
  <2>2. CASE ~AwaitsFinishAck
    BY <1>1, <1>2, <2>2, Concatenated DEF ShapeInv
  <2> QED BY <2>1, <2>2
<1>5. faults' \in 0..MaxFaults
  BY <1>1, HandshakeAssumption DEF Attempt, ShapeInv
<1> QED BY <1>3, <1>4, <1>5 DEF RxGipAck, ShapeInv, device

LEMMA AuthAckShape == ShapeInv /\ RxAuthAck => ShapeInv'
<1> SUFFICES ASSUME ShapeInv, RxAuthAck PROVE ShapeInv'
  OBVIOUS
<1>1. toHost' \in Seq(HeadsetPackets) /\ reader' \in BOOLEAN
  BY HeadAndTail DEF RxAuthAck, Arrives, Taken, ShapeInv
<1>2. CASE lastCmd \in DOMAIN AfterAuthAck
  <2> DEFINE cmd == AfterAuthAck[lastCmd]
  <2>1. PICK ok \in BOOLEAN :
          Attempt(ok) /\ Send(cmd, out, <<>>, ok, Hashed(cmd))
    BY <1>2 DEF RxAuthAck
  <2>2. cmd \in Sendable
    BY <1>2 DEF AfterAuthAck, Sendable, Records, Requests
  <2> HIDE DEF cmd
  <2>3. Hashed(cmd) \in Seq(Names)
    BY <2>2, HashedShape DEF Sendable, Names
  <2>4. /\ lastCmd' \in Sendable /\ transcript' \in Seq(Names)
        /\ out' \in Outs /\ toDevice' \in Seq(HostPackets)
    BY <2>1, <2>2, <2>3, SendShape
  <2>5. faults' \in 0..MaxFaults
    BY <2>1, HandshakeAssumption DEF Attempt, ShapeInv
  <2> QED BY <1>1, <2>4, <2>5 DEF RxAuthAck, ShapeInv, Sendable, device
<1>3. CASE lastCmd \notin DOMAIN AfterAuthAck
  BY <1>1, <1>3 DEF RxAuthAck, ShapeInv, device
<1> QED BY <1>2, <1>3

LEMMA UpgradeShape == ShapeInv /\ RxUpgrade => ShapeInv'
<1> SUFFICES ASSUME ShapeInv, RxUpgrade PROVE ShapeInv'
  OBVIOUS
<1>1. toHost' \in Seq(HeadsetPackets) /\ reader' \in BOOLEAN
  BY HeadAndTail DEF RxUpgrade, Arrives, Taken, ShapeInv
<1>2. PICK ok \in BOOLEAN :
        Attempt(ok) /\ Send("hello2", out, <<>>, ok, <<"hello2">>)
  BY DEF RxUpgrade
<1>3. "hello2" \in Sendable /\ <<"hello2">> \in Seq(Names)
  BY DEF Sendable, Names, Records
<1>4. /\ lastCmd' \in Sendable /\ transcript' \in Seq(Names)
      /\ out' \in Outs /\ toDevice' \in Seq(HostPackets)
  BY <1>2, <1>3, SendShape
<1>5. faults' \in 0..MaxFaults
  BY <1>2, HandshakeAssumption DEF Attempt, ShapeInv
<1> QED BY <1>1, <1>4, <1>5 DEF RxUpgrade, ShapeInv, Sendable, device

LEMMA FragmentShape == ShapeInv /\ RxFragment => ShapeInv'
<1> SUFFICES ASSUME ShapeInv, RxFragment PROVE ShapeInv'
  OBVIOUS
<1> DEFINE p == Head(toHost)
<1>1. /\ toHost' \in Seq(HeadsetPackets) /\ reader' \in BOOLEAN
      /\ p \in HeadsetPackets /\ p.kind \in {"start", "chunk"}
  BY HeadAndTail DEF RxFragment, Arrives, Taken, ShapeInv
<1>2. /\ in' = IF p.kind = "start"
               THEN [cmd |-> p.cmd, total |-> p.off, len |-> p.n]
               ELSE [in EXCEPT !.len = Longer(@, p)]
      /\ \E ok \in BOOLEAN :
           /\ Attempt(ok)
           /\ p.ack \/ ok
           /\ toDevice' = IF p.ack /\ ok THEN Append(toDevice, Ack)
                          ELSE toDevice
  BY DEF RxFragment
<1> HIDE DEF p
<1>3. in' \in Ins
  <2>1. /\ p.cmd \in Names /\ p.off \in Nat /\ p.n \in 0..58
        /\ p.kind = "start" => p.off = ClientLen
        /\ p.kind = "chunk" => p.off + p.n <= ClientLen
    BY <1>1 DEF HeadsetPackets, Packets, GIP_PKT_MAX
  <2>2. in = [cmd |-> in.cmd, total |-> in.total, len |-> in.len]
        /\ in.cmd \in Names /\ in.total \in {0, ClientLen}
        /\ in.len \in 0..ClientLen
    BY DEF ShapeInv, Ins
  <2>3. CASE p.kind = "start"
    <3>1. in' = [cmd |-> p.cmd, total |-> ClientLen, len |-> p.n]
      BY <1>2, <2>1, <2>3
    <3>2. p.n \in 0..ClientLen
      BY <2>1, HandshakeAssumption
    <3> QED BY <2>1, <3>1, <3>2 DEF Ins
  <2>4. CASE p.kind = "chunk"
    <3>1. in' = [in EXCEPT !.len = Longer(in.len, p)]
      BY <1>2, <2>4
    <3>2. Longer(in.len, p) \in 0..ClientLen
      BY <2>1, <2>2, <2>4, HandshakeAssumption DEF Longer
    <3> QED BY <2>2, <3>1, <3>2 DEF Ins
  <2> QED BY <1>1, <2>3, <2>4
<1>4. Ack \in HostPackets
  BY DEF Ack, Packet, HostPackets, Packets, Kinds, Names, GIP_PKT_MAX
<1>5. toDevice' \in Seq(HostPackets)
  <2>1. toDevice' = toDevice \/ toDevice' = Append(toDevice, Ack)
    BY <1>2
  <2>2. toDevice \in Seq(HostPackets)
    BY DEF ShapeInv
  <2> HIDE DEF HostPackets, Ack
  <2> QED BY ONLY <1>4, <2>1, <2>2
<1>6. faults' \in 0..MaxFaults
  BY <1>2, HandshakeAssumption DEF Attempt, ShapeInv
<1> QED BY <1>1, <1>3, <1>5, <1>6 DEF RxFragment, ShapeInv, device, auth

LEMMA EndShape == ShapeInv /\ RxEnd => ShapeInv'
<1> SUFFICES ASSUME ShapeInv, RxEnd PROVE ShapeInv'
  OBVIOUS
<1>1. toHost' \in Seq(HeadsetPackets) /\ reader' \in BOOLEAN
  BY HeadAndTail DEF RxEnd, Arrives, Taken, ShapeInv
<1>2. CASE UNCHANGED <<in, auth, out, toDevice, faults>>
  BY <1>1, <1>2 DEF RxEnd, ShapeInv, device, auth
<1>3. CASE /\ in' = NoRecord
           /\ \E ok \in BOOLEAN :
               /\ Attempt(ok)
               /\ \/ /\ in.cmd \in DOMAIN AfterRecord
                     /\ LET cmd == AfterRecord[in.cmd]
                        IN  Send(cmd, out, <<>>, ok, <<in.cmd>> \o Hashed(cmd))
                     /\ UNCHANGED authenticated
                  \/ /\ in.cmd = "certificate"
                     /\ Send("secret", out, <<>>, ok, SecretAndCertificate(ok))
                     /\ UNCHANGED authenticated
                  \/ /\ in.cmd \in {"clientFinish", "clientFinish2"}
                     /\ transcript' = Append(transcript, in.cmd)
                     /\ Complete(out, <<>>, ok)
                     /\ UNCHANGED lastCmd
  <2>1. in' \in Ins
    BY <1>3, HandshakeAssumption DEF NoRecord, Ins, Names
  <2>2. PICK ok \in BOOLEAN :
          /\ Attempt(ok)
          /\ \/ /\ in.cmd \in DOMAIN AfterRecord
                /\ Send(AfterRecord[in.cmd], out, <<>>, ok,
                        <<in.cmd>> \o Hashed(AfterRecord[in.cmd]))
                /\ UNCHANGED authenticated
             \/ /\ in.cmd = "certificate"
                /\ Send("secret", out, <<>>, ok, SecretAndCertificate(ok))
                /\ UNCHANGED authenticated
             \/ /\ in.cmd \in {"clientFinish", "clientFinish2"}
                /\ transcript' = Append(transcript, in.cmd)
                /\ Complete(out, <<>>, ok)
                /\ UNCHANGED lastCmd
    BY <1>3
  <2>3. faults' \in 0..MaxFaults
    BY <2>2, HandshakeAssumption DEF Attempt, ShapeInv
  <2>4. in.cmd \in Names BY DEF ShapeInv, Ins
  <2>5. /\ lastCmd' \in Sendable \cup {"none"} /\ transcript' \in Seq(Names)
        /\ out' \in Outs /\ toDevice' \in Seq(HostPackets)
        /\ authenticated' \in BOOLEAN
    <3>1. CASE /\ in.cmd \in DOMAIN AfterRecord
               /\ Send(AfterRecord[in.cmd], out, <<>>, ok,
                       <<in.cmd>> \o Hashed(AfterRecord[in.cmd]))
               /\ UNCHANGED authenticated
      <4> DEFINE cmd == AfterRecord[in.cmd]
      <4>1. cmd \in Sendable
        BY <3>1 DEF AfterRecord, Sendable, Records, Requests
      <4>2. Send(cmd, out, <<>>, ok, <<in.cmd>> \o Hashed(cmd))
        BY <3>1
      <4> HIDE DEF cmd
      <4>3. Hashed(cmd) \in Seq(Names) /\ <<in.cmd>> \in Seq(Names)
        BY <2>4, <4>1, HashedShape DEF Sendable, Names
      <4>4. <<in.cmd>> \o Hashed(cmd) \in Seq(Names)
        BY <4>3, Concatenated
      <4> QED BY <3>1, <4>1, <4>2, <4>4, SendShape DEF ShapeInv
    <3>2. CASE /\ in.cmd = "certificate"
               /\ Send("secret", out, <<>>, ok, SecretAndCertificate(ok))
               /\ UNCHANGED authenticated
      <4>1. "secret" \in Sendable BY DEF Sendable, Records
      <4>2. SecretAndCertificate(ok) \in Seq(Names)
        <5>1. "secret" \in Names /\ "certificate" \in Names
          BY DEF Names, Records, Requests
        <5> QED BY <5>1 DEF SecretAndCertificate
      <4> QED BY <3>2, <4>1, <4>2, SendShape DEF ShapeInv
    <3>3. CASE /\ in.cmd \in {"clientFinish", "clientFinish2"}
               /\ transcript' = Append(transcript, in.cmd)
               /\ Complete(out, <<>>, ok)
               /\ UNCHANGED lastCmd
      <4>1. out \in Outs /\ <<>> \in Seq(HostPackets) BY DEF ShapeInv
      <4>2. /\ out' \in Outs /\ toDevice' \in Seq(HostPackets)
            /\ authenticated' \in BOOLEAN
        BY <3>3, <4>1, CompleteShape
      <4> QED BY <2>4, <3>3, <4>2 DEF ShapeInv, Sendable
    <3> QED BY <2>2, <3>1, <3>2, <3>3
  <2> QED BY <1>1, <2>1, <2>3, <2>5 DEF RxEnd, ShapeInv, device, Sendable
<1> QED BY <1>2, <1>3 DEF RxEnd

\* What the headset answers is made of its packets, whatever it is said.
LEMMA AnswerShape ==
  ASSUME NEW cmd \in Names
  PROVE  /\ Answer(cmd) \in Seq(HeadsetPackets)
         /\ Sends(cmd) \in Names
         /\ \A b \in BOOLEAN, p \in Packets :
              (p.ack = b) => AckOf(p) \in Seq(HeadsetPackets)
<1>1. "none" \in Names /\ "clientHello2" \in Names BY DEF Names
<1>2. \A kind \in {"authack", "upgrade"} : Reply(kind) \in Seq(HeadsetPackets)
  BY <1>1 DEF Reply, Packet, HeadsetPackets, Packets, Kinds, GIP_PKT_MAX
<1>3. \A c \in Names : StartOf(c) \in Seq(HeadsetPackets)
  BY HandshakeAssumption
  DEF StartOf, Packet, HeadsetPackets, Packets, Kinds, GIP_PKT_MAX
<1>4. <<>> \in Seq(HeadsetPackets) OBVIOUS
<1>5. Sends(cmd) \in Names
  BY <1>1 DEF Sends
<1>6. Answer(cmd) \in Seq(HeadsetPackets)
  BY <1>2, <1>3, <1>4, <1>5 DEF Answer
<1>7. Ack \in HeadsetPackets
  BY <1>1 DEF Ack, Packet, HeadsetPackets, Packets, Kinds, GIP_PKT_MAX
<1>8. \A p \in Packets : AckOf(p) \in Seq(HeadsetPackets)
  BY <1>4, <1>7 DEF AckOf
<1> QED BY <1>5, <1>6, <1>8

LEMMA HearShape ==
  ASSUME NEW cmd \in Names, NEW d \in Devs
  PROVE  Hear(cmd, d) \in Devs
<1> DEFINE e == IF cmd = "hello" THEN Quiet ELSE d
<1>1. e \in Devs BY EmptyShapes
<1>2. Hear(cmd, d) = [e EXCEPT !.in = NoRecord, !.heard = @ \cup {cmd},
                               !.sends = Sends(cmd), !.stage = "start"]
  BY DEF Hear
<1> HIDE DEF e
<1>3. Sends(cmd) \in Names BY AnswerShape
<1>4. NoRecord \in [cmd : Names, total : Nat, len : Nat]
  BY DEF NoRecord, Names
<1>5. /\ e = [in |-> e.in, sends |-> e.sends, stage |-> e.stage,
              heard |-> e.heard, torn |-> e.torn]
      /\ e.heard \in SUBSET Names /\ e.torn \in BOOLEAN
  BY <1>1 DEF Devs
<1>6. Hear(cmd, d) = [in |-> NoRecord, sends |-> Sends(cmd), stage |-> "start",
                      heard |-> e.heard \cup {cmd}, torn |-> e.torn]
  BY <1>2, <1>5
<1>7. e.heard \cup {cmd} \in SUBSET Names
  BY <1>5
<1> QED BY <1>3, <1>4, <1>5, <1>6, <1>7 DEF Devs

LEMMA DeviceShape == ShapeInv /\ DeviceRx => ShapeInv'
<1> SUFFICES ASSUME ShapeInv, DeviceRx PROVE ShapeInv'
  OBVIOUS
<1>1. PICK p \in HostPackets : p = Head(toDevice)
  BY HeadAndTail DEF ShapeInv, DeviceRx
<1>2. /\ p.kind \in Kinds /\ p.cmd \in Names /\ p.off \in Nat /\ p.n \in Nat
      /\ p \in Packets
  BY <1>1 DEF HostPackets, Packets, Kinds, GIP_PKT_MAX
<1>3. toDevice' \in Seq(HostPackets)
  BY HeadAndTail DEF ShapeInv, DeviceRx
<1>4. dev \in Devs /\ toHost \in Seq(HeadsetPackets)
  BY DEF ShapeInv
<1>5. /\ dev.in \in [cmd : Names, total : Nat, len : Nat]
      /\ dev.sends \in Names /\ dev.stage \in {"start", "rest"}
      /\ dev.heard \in SUBSET Names /\ dev.torn \in BOOLEAN
      /\ dev = [in |-> dev.in, sends |-> dev.sends, stage |-> dev.stage,
                heard |-> dev.heard, torn |-> dev.torn]
  BY <1>4 DEF Devs
<1>6. AckOf(p) \in Seq(HeadsetPackets)
  BY <1>2, AnswerShape DEF Packets
<1>7. ASSUME NEW w \in Seq(HeadsetPackets), Says(w)
      PROVE  toHost' \in Seq(HeadsetPackets)
  BY <1>4, <1>7, Concatenated DEF Says
<1>8. dev' \in Devs /\ toHost' \in Seq(HeadsetPackets)
  <2>1. CASE p.kind = "whole"
    <3>1. dev' = Hear(p.cmd, dev) /\ Says(AckOf(p) \o Answer(p.cmd))
      BY <1>1, <2>1 DEF DeviceRx
    <3>2. AckOf(p) \o Answer(p.cmd) \in Seq(HeadsetPackets)
      BY <1>2, <1>6, AnswerShape, Concatenated
    <3> QED BY <1>2, <1>4, <1>7, <3>1, <3>2, HearShape
  <2>2. CASE p.kind = "start"
    <3>1. dev' = [dev EXCEPT !.in = [cmd |-> p.cmd, total |-> p.off,
                                     len |-> p.n]]
          /\ Says(AckOf(p))
      BY <1>1, <2>2 DEF DeviceRx
    <3> QED BY <1>2, <1>5, <1>6, <1>7, <3>1 DEF Devs
  <2>3. CASE p.kind = "chunk"
    <3>1. dev' = [dev EXCEPT !.in.len = Longer(@, p),
                             !.torn = @ \/ p.off > dev.in.len]
          /\ Says(AckOf(p))
      BY <1>1, <2>3 DEF DeviceRx
    <3>2. Longer(dev.in.len, p) \in Nat
      BY <1>2, <1>5 DEF Longer
    <3>3. (dev.torn \/ p.off > dev.in.len) \in BOOLEAN
      BY <1>5
    <3>4. [dev.in EXCEPT !.len = Longer(dev.in.len, p)]
             \in [cmd : Names, total : Nat, len : Nat]
      BY <1>5, <3>2
    <3>5. dev' = [dev EXCEPT !.in = [dev.in EXCEPT !.len = Longer(dev.in.len, p)],
                             !.torn = (dev.torn \/ p.off > dev.in.len)]
      BY <1>5, <3>1
    <3> QED BY <1>5, <1>6, <1>7, <3>1, <3>3, <3>4, <3>5 DEF Devs
  <2>4. CASE p.kind = "end"
    <3>1. \/ dev' = Hear(dev.in.cmd, dev) /\ Says(Answer(dev.in.cmd))
          \/ dev' = [dev EXCEPT !.torn = TRUE] /\ Says(<<>>)
      BY <1>1, <2>4 DEF DeviceRx
    <3>2. dev.in.cmd \in Names BY <1>5
    <3>3. CASE dev' = Hear(dev.in.cmd, dev) /\ Says(Answer(dev.in.cmd))
      BY <1>4, <1>7, <3>2, <3>3, HearShape, AnswerShape
    <3>4. CASE dev' = [dev EXCEPT !.torn = TRUE] /\ Says(<<>>)
      <4>1. <<>> \in Seq(HeadsetPackets) OBVIOUS
      <4>2. dev' \in Devs BY <1>4, <3>4 DEF Devs
      <4> QED BY <1>7, <3>4, <4>1, <4>2
    <3> QED BY <3>1, <3>3, <3>4
  <2>5. CASE p.kind = "gipack" /\ dev.sends # "none"
    <3>1. /\ dev' = IF dev.stage = "start"
                    THEN [dev EXCEPT !.stage = "rest"]
                    ELSE [dev EXCEPT !.sends = "none"]
          /\ Says(IF dev.stage = "start"
                  THEN Fragments(dev.sends, GIP_PKT_MAX, ClientLen)
                  ELSE <<Packet("end", dev.sends, ClientLen, 0, FALSE)>>)
      BY <1>1, <2>5 DEF DeviceRx
    <3>2. dev' \in Devs
      BY <1>4, <3>1 DEF Devs, Names
    <3>3. Fragments(dev.sends, GIP_PKT_MAX, ClientLen) \in Seq(HeadsetPackets)
      <4>1. /\ dev.sends \in Names /\ GIP_PKT_MAX \in Nat /\ ClientLen \in Nat
            /\ GIP_PKT_MAX <= ClientLen
        BY <1>5, HandshakeAssumption DEF GIP_PKT_MAX
      <4> QED BY <4>1, FragmentShapes
    <3>4. <<Packet("end", dev.sends, ClientLen, 0, FALSE)>>
             \in Seq(HeadsetPackets)
      BY <1>5, HandshakeAssumption
      DEF Packet, HeadsetPackets, Packets, Kinds, GIP_PKT_MAX
    <3> QED BY <1>7, <3>1, <3>2, <3>3, <3>4
  <2>6. CASE p.kind = "gipack" /\ dev.sends = "none"
    <3>1. UNCHANGED <<dev, toHost>>
      BY <1>1, <2>6 DEF DeviceRx
    <3> QED BY <1>4, <3>1
  <2>7. p.kind \in {"whole", "start", "chunk", "end", "gipack"}
    BY <1>1 DEF HostPackets, Ack, Packet
  <2> QED BY <2>1, <2>2, <2>3, <2>4, <2>5, <2>6, <2>7
<1> QED BY <1>3, <1>8 DEF DeviceRx, ShapeInv, auth

LEMMA NextShape == ShapeInv /\ [Next]_vars => ShapeInv'
<1> SUFFICES ASSUME ShapeInv, [Next]_vars PROVE ShapeInv'
  OBVIOUS
<1>1. CASE Stream
  BY <1>1 DEF Stream, ShapeInv, auth, device
<1>2. CASE ReaderFails
  BY <1>2 DEF ReaderFails, ShapeInv, auth, device
<1>3. CASE UNCHANGED vars
  BY <1>3 DEF vars, ShapeInv, auth, device
<1> QED BY <1>1, <1>2, <1>3, ArmShape, RetryShape, GipAckShape, AuthAckShape,
           UpgradeShape, FragmentShape, EndShape, DeviceShape
        DEF Next, Host

\* Whatever is answered, fails or comes too late: the variables keep their
\* types, neither side's record runs over its end, and what is being sent of a
\* record is all of it or nothing.
THEOREM HandshakeTypes == Spec => []TypeOK
<1>1. ShapeInv => TypeOK
  <2> SUFFICES ASSUME ShapeInv PROVE TypeOK
    OBVIOUS
  <2>0. /\ out.total \in {0, 82, 274} /\ out.off \in 0..274
        /\ out.off <= out.total /\ out.len \in {0, out.total}
        /\ out.term \in BOOLEAN
    BY DEF ShapeInv, Outs
  <2>1. out.off \in 0..out.total /\ out.len \in {0, out.total}
    BY <2>0
  <2>2. in.total \in {0, ClientLen} /\ in.len \in 0..ClientLen
    BY DEF ShapeInv, Ins
  <2>3. dev.torn \in BOOLEAN
    BY DEF ShapeInv, Devs
  <2> QED BY <2>0, <2>1, <2>2, <2>3 DEF ShapeInv, TypeOK
<1> QED BY <1>1, InitShape, NextShape, PTL DEF Spec

----------------------------------------------------------------------------
(* The header codec, for the lengths and offsets below 16384 that the      *)
(* packets have.                                                           *)

LEMMA Powers == Pow128(0) = 1 /\ Pow128(1) = 128 /\ Pow128(2) = 16384
BY DEF Pow128

\* A value below 128 is its own byte.
LEMMA EncodeShort ==
  ASSUME NEW val \in Nat, val < 128
  PROVE  VarintLength(val) = 1 /\ EncodeVarint(val) = <<val>>
<1> DEFINE P(n) == val < Pow128(n) /\ (n = 1 \/ val >= Pow128(n - 1))
<1>1. VarintLength(val) = CHOOSE n \in 1..4 : P(n)
  BY DEF VarintLength
<1>2. /\ P(1)
      /\ \A n \in 1..4 : P(n) => n = 1
  BY DEF Pow128
<1> HIDE DEF P
<1>3. VarintLength(val) = 1
  BY <1>1, <1>2
<1>4. EncodeVarint(val) = [k \in 1..1 |-> val]
  BY <1>3, Powers DEF EncodeVarint
<1> QED BY <1>3, <1>4

\* A larger one takes two, the lower digit first.
LEMMA EncodeLong ==
  ASSUME NEW val \in Nat, 128 <= val, val < 16384
  PROVE  /\ VarintLength(val) = 2
         /\ EncodeVarint(val) = <<(val % 128) + 128, val \div 128>>
<1> DEFINE P(n) == val < Pow128(n) /\ (n = 1 \/ val >= Pow128(n - 1))
           e == EncodeVarint(val)
<1>1. VarintLength(val) = CHOOSE n \in 1..4 : P(n)
  BY DEF VarintLength
<1>2. /\ P(2)
      /\ \A n \in 1..4 : P(n) => n = 2
  BY DEF Pow128
<1> HIDE DEF P
<1>3. VarintLength(val) = 2
  BY <1>1, <1>2
<1>4. e = [k \in 1..2 |-> ((val \div Pow128(k - 1)) % 128)
                             + (IF k < 2 THEN 128 ELSE 0)]
  BY <1>3 DEF EncodeVarint
<1>5. /\ ((val \div Pow128(0)) % 128) + 128 = (val % 128) + 128
      /\ ((val \div Pow128(1)) % 128) + 0 = val \div 128
  <2>1. val \div 1 = val /\ (val \div 128) % 128 = val \div 128
    OBVIOUS
  <2> QED BY <2>1, Powers
<1>6. DOMAIN e = 1..2 /\ e[1] = (val % 128) + 128 /\ e[2] = val \div 128
  BY <1>4, <1>5
<1>7. e = <<(val % 128) + 128, val \div 128>>
  BY <1>4, <1>6
<1> QED BY <1>3, <1>7

\* A byte below 128 is a whole value.
LEMMA DecodeShort ==
  ASSUME NEW data, data[1] \in 0..127
  PROVE  VarintSpan(data) = 1 /\ VarintValue(data) = data[1]
<1> DEFINE P(n) == /\ data[n] < 128 \/ n = 5
                   /\ \A k \in 1..(n - 1) : data[k] >= 128
<1>1. VarintSpan(data) = CHOOSE n \in 1..5 : P(n)
  BY DEF VarintSpan
<1>2. P(1) /\ \A n \in 1..5 : P(n) => n = 1
  OBVIOUS
<1> HIDE DEF P
<1>3. VarintSpan(data) = 1
  BY <1>1, <1>2
<1> DEFINE F(d) == [k \in 0..1 |-> IF k = 0 THEN 0
                      ELSE d[k - 1] + (data[k] % 128) * Pow128(k - 1)]
           D == [k \in 0..1 |-> IF k = 0 THEN 0 ELSE data[1]]
           C == CHOOSE d : d = F(d)
<1>4. D = F(D)
  <2>1. D[0] = 0 /\ data[1] = 0 + (data[1] % 128) * 1
    OBVIOUS
  <2>2. \A k \in 0..1 :
          (IF k = 0 THEN 0 ELSE data[1])
            = IF k = 0 THEN 0
              ELSE D[k - 1] + (data[k] % 128) * Pow128(k - 1)
    <3> TAKE k \in 0..1
    <3> HIDE DEF D
    <3>1. CASE k = 1
      BY <2>1, <3>1, Powers
    <3>2. CASE k = 0
      BY <3>2
    <3> QED BY <3>1, <3>2
  <2> QED BY <2>2
<1>5. C = F(C)
  BY <1>4
<1>6. VarintValue(data) = C[1]
  BY <1>3 DEF VarintValue
<1> HIDE DEF C
<1>7. C[0] = 0 /\ C[1] = C[0] + (data[1] % 128) * Pow128(0)
  BY <1>5
<1> QED BY <1>3, <1>6, <1>7, Powers

\* Two bytes of which only the first goes on are one, too.
LEMMA DecodeLong ==
  ASSUME NEW data, data[1] \in 128..255, data[2] \in 0..127
  PROVE  /\ VarintSpan(data) = 2
         /\ VarintValue(data) = (data[1] - 128) + data[2] * 128
<1> DEFINE P(n) == /\ data[n] < 128 \/ n = 5
                   /\ \A k \in 1..(n - 1) : data[k] >= 128
<1>1. VarintSpan(data) = CHOOSE n \in 1..5 : P(n)
  BY DEF VarintSpan
<1>2. P(2) /\ \A n \in 1..5 : P(n) => n = 2
  OBVIOUS
<1> HIDE DEF P
<1>3. VarintSpan(data) = 2
  BY <1>1, <1>2
<1> DEFINE F(d) == [k \in 0..2 |-> IF k = 0 THEN 0
                      ELSE d[k - 1] + (data[k] % 128) * Pow128(k - 1)]
           v == (data[1] - 128) + data[2] * 128
           D == [k \in 0..2 |-> IF k = 0 THEN 0
                                ELSE IF k = 1 THEN data[1] - 128 ELSE v]
           C == CHOOSE d : d = F(d)
<1>4. D = F(D)
  <2>1. /\ D[0] = 0 /\ D[1] = data[1] - 128
        /\ data[1] - 128 = 0 + (data[1] % 128) * 1
        /\ v = (data[1] - 128) + (data[2] % 128) * 128
    OBVIOUS
  <2>2. \A k \in 0..2 :
          (IF k = 0 THEN 0 ELSE IF k = 1 THEN data[1] - 128 ELSE v)
            = IF k = 0 THEN 0
              ELSE D[k - 1] + (data[k] % 128) * Pow128(k - 1)
    <3> TAKE k \in 0..2
    <3> HIDE DEF D, v
    <3>1. CASE k = 2
      BY <2>1, <3>1, Powers
    <3>2. CASE k = 1
      BY <2>1, <3>2, Powers
    <3>3. CASE k = 0
      BY <3>3
    <3> QED BY <3>1, <3>2, <3>3
  <2> QED BY <2>2
<1>5. C = F(C)
  BY <1>4
<1>6. VarintValue(data) = C[2]
  BY <1>3 DEF VarintValue
<1> HIDE DEF C
<1>7. /\ C[0] = 0 /\ C[1] = C[0] + (data[1] % 128) * Pow128(0)
      /\ C[2] = C[1] + (data[2] % 128) * Pow128(1)
  BY <1>5
<1>8. /\ data[1] % 128 = data[1] - 128 /\ data[2] % 128 = data[2]
  OBVIOUS
<1>9. C[2] = (data[1] - 128) + data[2] * 128
  BY <1>7, <1>8, Powers
<1> QED BY <1>3, <1>6, <1>9

\* Joining short sequences.
LEMMA OneAndOne ==
  ASSUME NEW a, NEW b
  PROVE  <<a>> \o <<b>> = <<a, b>>
<1> DEFINE s == <<a>> \o <<b>>
           t == <<a, b>>
           S == {a, b}
<1>1. s \in Seq(S) /\ t \in Seq(S)
  OBVIOUS
<1>2. /\ Len(s) = 2 /\ s[1] = a /\ s[2] = b
      /\ Len(t) = 2 /\ t[1] = a /\ t[2] = b
  OBVIOUS
<1> HIDE DEF s, t, S
<1>3. \A i \in 1..Len(s) : s[i] = t[i]
  BY <1>2
<1>4. s = t
  BY <1>1, <1>2, <1>3, SeqEqual
<1> QED BY <1>4 DEF s, t

LEMMA OneAndTwo ==
  ASSUME NEW a, NEW b, NEW c
  PROVE  <<a>> \o <<b, c>> = <<a, b, c>>
<1> DEFINE s == <<a>> \o <<b, c>>
           t == <<a, b, c>>
           S == {a, b, c}
<1>1. s \in Seq(S) /\ t \in Seq(S)
  OBVIOUS
<1>2. /\ Len(s) = 3 /\ s[1] = a /\ s[2] = b /\ s[3] = c
      /\ Len(t) = 3 /\ t[1] = a /\ t[2] = b /\ t[3] = c
  OBVIOUS
<1> HIDE DEF s, t, S
<1>3. \A i \in 1..Len(s) : s[i] = t[i]
  BY <1>2
<1>4. s = t
  BY <1>1, <1>2, <1>3, SeqEqual
<1> QED BY <1>4 DEF s, t

LEMMA TwoAndOne ==
  ASSUME NEW a, NEW b, NEW c
  PROVE  <<a, b>> \o <<c>> = <<a, b, c>>
<1> DEFINE s == <<a, b>> \o <<c>>
           t == <<a, b, c>>
           S == {a, b, c}
<1>1. s \in Seq(S) /\ t \in Seq(S)
  OBVIOUS
<1>2. /\ Len(s) = 3 /\ s[1] = a /\ s[2] = b /\ s[3] = c
      /\ Len(t) = 3 /\ t[1] = a /\ t[2] = b /\ t[3] = c
  OBVIOUS
<1> HIDE DEF s, t, S
<1>3. \A i \in 1..Len(s) : s[i] = t[i]
  BY <1>2
<1>4. s = t
  BY <1>1, <1>2, <1>3, SeqEqual
<1> QED BY <1>4 DEF s, t

LEMMA ThreeAndOne ==
  ASSUME NEW a, NEW b, NEW c, NEW d
  PROVE  <<a, b, c>> \o <<d>> = <<a, b, c, d>>
<1> DEFINE s == <<a, b, c>> \o <<d>>
           t == <<a, b, c, d>>
           S == {a, b, c, d}
<1>1. s \in Seq(S) /\ t \in Seq(S)
  OBVIOUS
<1>2. /\ Len(s) = 4 /\ s[1] = a /\ s[2] = b /\ s[3] = c /\ s[4] = d
      /\ Len(t) = 4 /\ t[1] = a /\ t[2] = b /\ t[3] = c /\ t[4] = d
  OBVIOUS
<1> HIDE DEF s, t, S
<1>3. \A i \in 1..Len(s) : s[i] = t[i]
  BY <1>2
<1>4. s = t
  BY <1>1, <1>2, <1>3, SeqEqual
<1> QED BY <1>4 DEF s, t

\* The length that gip_encode_header pads: it goes on in a zero byte.
LEMMA PaddedLength ==
  ASSUME NEW n \in Nat PROVE Padded(<<n>>) = <<n + 128, 0>>
<1>1. PICK m \in Nat : m = n + 128
  OBVIOUS
<1>2. SubSeq(<<n>>, 1, 0) = <<>> /\ Len(<<n>>) = 1 /\ <<n>>[1] = n
  OBVIOUS
<1>3. Padded(<<n>>) = SubSeq(<<n>>, 1, 0) \o <<m, 0>>
  BY <1>1, <1>2 DEF Padded
<1>4. <<>> \o <<m, 0>> = <<m, 0>>
  OBVIOUS
<1>5. Padded(<<n>>) = <<m, 0>>
  BY ONLY <1>2, <1>3, <1>4
<1> QED BY <1>1, <1>5

\* What gip_encode_header writes of a packet that is whole, and of a fragment.
LEMMA EncodeWhole ==
  ASSUME NEW n \in Nat, n < 128,
         NEW hdr, hdr = [length |-> n, chunk |-> FALSE, offset |-> 0]
  PROVE  EncodeHeader(hdr) = <<n>>
<1>1. VarintLength(n) = 1 /\ EncodeVarint(n) = <<n>>
  BY EncodeShort
<1>2. hdr.length = n /\ ~hdr.chunk
  OBVIOUS
<1>3. ActualHeaderLength(hdr) = 4
  BY <1>1, <1>2 DEF ActualHeaderLength, GIP_HDR_MIN_LENGTH
<1>4. ~(ActualHeaderLength(hdr) % 2 = 1)
  BY <1>3
<1>5. EncodeHeader(hdr) = EncodeVarint(n) \o <<>>
  <2>1. EncodeHeader(hdr) = EncodeVarint(hdr.length) \o <<>>
    BY ONLY <1>2, <1>4, Zenon DEF EncodeHeader
  <2> QED BY <1>2, <2>1, Zenon
<1>6. <<n>> \o <<>> = <<n>>
  OBVIOUS
<1> QED BY ONLY <1>1, <1>5, <1>6

LEMMA EncodeNear ==
  ASSUME NEW n \in Nat, n < 128, NEW off \in Nat, 0 < off, off < 128,
         NEW hdr, hdr = [length |-> n, chunk |-> TRUE, offset |-> off]
  PROVE  EncodeHeader(hdr) = <<n + 128, 0, off>>
<1>1. VarintLength(n) = 1 /\ EncodeVarint(n) = <<n>>
  BY EncodeShort
<1>2. VarintLength(off) = 1 /\ EncodeVarint(off) = <<off>>
  BY EncodeShort
<1>3. hdr.length = n /\ hdr.chunk /\ hdr.offset = off
  OBVIOUS
<1>4. ActualHeaderLength(hdr) = 5
  BY <1>1, <1>2, <1>3 DEF ActualHeaderLength, GIP_HDR_MIN_LENGTH
<1>5. ActualHeaderLength(hdr) % 2 = 1
  BY <1>4
<1>6. EncodeHeader(hdr) = Padded(EncodeVarint(n)) \o EncodeVarint(off)
  <2>1. EncodeHeader(hdr) = Padded(EncodeVarint(hdr.length))
                              \o EncodeVarint(hdr.offset)
    BY ONLY <1>3, <1>5, Zenon DEF EncodeHeader
  <2> QED BY ONLY <1>3, <2>1
<1>7. Padded(<<n>>) = <<n + 128, 0>>
  BY PaddedLength
<1>8. <<n + 128, 0>> \o <<off>> = <<n + 128, 0, off>>
  BY ONLY TwoAndOne
<1> QED BY ONLY <1>1, <1>2, <1>6, <1>7, <1>8

LEMMA EncodeFar ==
  ASSUME NEW n \in Nat, n < 128, NEW off \in Nat, 128 <= off, off < 16384,
         NEW hdr, hdr = [length |-> n, chunk |-> TRUE, offset |-> off]
  PROVE  EncodeHeader(hdr) = <<n, (off % 128) + 128, off \div 128>>
<1>1. VarintLength(n) = 1 /\ EncodeVarint(n) = <<n>>
  BY EncodeShort
<1>2. /\ VarintLength(off) = 2
      /\ EncodeVarint(off) = <<(off % 128) + 128, off \div 128>>
  BY EncodeLong
<1>3. hdr.length = n /\ hdr.chunk /\ hdr.offset = off
  OBVIOUS
<1>4. ActualHeaderLength(hdr) = 6
  BY <1>1, <1>2, <1>3 DEF ActualHeaderLength, GIP_HDR_MIN_LENGTH
<1>5. ~(ActualHeaderLength(hdr) % 2 = 1)
  BY <1>4
<1>6. EncodeHeader(hdr) = EncodeVarint(n) \o EncodeVarint(off)
  <2>1. EncodeHeader(hdr) = EncodeVarint(hdr.length)
                              \o EncodeVarint(hdr.offset)
    BY ONLY <1>3, <1>5, Zenon DEF EncodeHeader
  <2> QED BY ONLY <1>3, <2>1
<1>7. <<n>> \o <<(off % 128) + 128, off \div 128>>
        = <<n, (off % 128) + 128, off \div 128>>
  BY ONLY OneAndTwo
<1> QED BY ONLY <1>1, <1>2, <1>6, <1>7

\* What gip_decode_header makes of it.
LEMMA ReadShort ==
  ASSUME NEW data, NEW v \in Nat, v < 128, data[1] = v
  PROVE  VarintSpan(data) = 1 /\ VarintValue(data) = v
<1>1. data[1] \in 0..127
  OBVIOUS
<1> QED BY <1>1, DecodeShort

LEMMA ReadLong ==
  ASSUME NEW data, NEW lo \in Nat, NEW hi \in Nat, 128 <= lo, lo < 256,
         hi < 128, data[1] = lo, data[2] = hi
  PROVE  VarintSpan(data) = 2 /\ VarintValue(data) = (lo - 128) + hi * 128
<1>1. data[1] \in 128..255 /\ data[2] \in 0..127
  OBVIOUS
<1> QED BY <1>1, DecodeLong

LEMMA DecodeWhole ==
  ASSUME NEW n \in Nat, n < 128, NEW wire, wire[1] = n
  PROVE  /\ DecodeHeader(FALSE, wire).length = n
         /\ DecodeHeader(FALSE, wire).offset = 0
         /\ DecodeHeader(FALSE, wire).taken = 1
<1>1. VarintSpan(wire) = 1 /\ VarintValue(wire) = n
  BY ReadShort
<1>2. /\ DecodeHeader(FALSE, wire).length = n
      /\ DecodeHeader(FALSE, wire).offset = 0
  BY <1>1 DEF DecodeHeader
<1>3. DecodeHeader(FALSE, wire).taken = 1
  BY <1>1 DEF DecodeHeader
<1> QED BY ONLY <1>2, <1>3

\* The parts of what is on the wire.
LEMMA Parts ==
  ASSUME NEW a, NEW b, NEW c, NEW d, NEW s, s = <<a, b, c, d>>
  PROVE  /\ Len(s) = 4 /\ s[1] = a /\ s[2] = b
         /\ SubSeq(s, 2, Len(s))[1] = b /\ SubSeq(s, 2, Len(s))[2] = c
         /\ SubSeq(s, 3, Len(s))[1] = c
OBVIOUS

\* A length of one byte and an offset of up to two survive the wire, whatever
\* byte comes after them.
Survives(hdr, n, off, taken, b) ==
  LET wire == EncodeHeader(hdr) \o <<b>>
      got  == DecodeHeader(hdr.chunk, wire)
  IN  /\ got.length = n /\ got.offset = off
      /\ got.taken = taken /\ Len(wire) = taken + 1

LEMMA WholeSurvives ==
  ASSUME NEW n \in Nat, n < 128, NEW b
  PROVE  Survives([length |-> n, chunk |-> FALSE, offset |-> 0], n, 0, 1, b)
<1> DEFINE hdr  == [length |-> n, chunk |-> FALSE, offset |-> 0]
           wire == EncodeHeader(hdr) \o <<b>>
<1>c. hdr.chunk = FALSE
  OBVIOUS
<1>h. hdr = [length |-> n, chunk |-> FALSE, offset |-> 0]
  OBVIOUS
<1> HIDE DEF hdr
<1>w. wire = EncodeHeader(hdr) \o <<b>>
  OBVIOUS
<1> HIDE DEF wire
<1>1. EncodeHeader(hdr) = <<n>>
  BY <1>h, EncodeWhole
<1>2. <<n>> \o <<b>> = <<n, b>>
  BY ONLY OneAndOne
<1>3. wire = <<n, b>>
  BY ONLY <1>1, <1>2, <1>w
<1>4. wire[1] = n /\ Len(wire) = 2
  BY ONLY <1>3
<1>5. /\ DecodeHeader(FALSE, wire).length = n
      /\ DecodeHeader(FALSE, wire).offset = 0
      /\ DecodeHeader(FALSE, wire).taken = 1
      /\ Len(wire) = 2
  BY ONLY <1>4, n \in Nat, n < 128, DecodeWhole
<1>6. /\ DecodeHeader(hdr.chunk, wire).length = n
      /\ DecodeHeader(hdr.chunk, wire).offset = 0
      /\ DecodeHeader(hdr.chunk, wire).taken = 1
  BY ONLY <1>c, <1>5
<1>7. Len(wire) = 1 + 1
  BY ONLY <1>5
<1>8. Survives(hdr, n, 0, 1, b)
  BY ONLY <1>6, <1>7, Zenon DEF Survives, wire
<1> QED BY <1>8 DEF hdr

LEMMA FragmentSurvives ==
  ASSUME NEW n \in Nat, n < 128, NEW off \in Nat, 0 < off, off < 16384, NEW b
  PROVE  Survives([length |-> n, chunk |-> TRUE, offset |-> off], n, off, 3, b)
<1> DEFINE hdr  == [length |-> n, chunk |-> TRUE, offset |-> off]
           wire == EncodeHeader(hdr) \o <<b>>
<1>c. hdr.chunk = TRUE
  OBVIOUS
<1>h. hdr = [length |-> n, chunk |-> TRUE, offset |-> off]
  OBVIOUS
<1> HIDE DEF hdr
<1>w. wire = EncodeHeader(hdr) \o <<b>>
  OBVIOUS
<1> HIDE DEF wire
<1> DEFINE Read == /\ DecodeHeader(TRUE, wire).length = n
                   /\ DecodeHeader(TRUE, wire).offset = off
                   /\ DecodeHeader(TRUE, wire).taken = 3
                   /\ Len(wire) = 4
<1>1. ASSUME off < 128 PROVE Read
  <2>1. PICK m \in Nat : m = n + 128
    OBVIOUS
  <2>2. EncodeHeader(hdr) = <<m, 0, off>>
    BY <1>h, <1>1, <2>1, EncodeNear
  <2>3. <<m, 0, off>> \o <<b>> = <<m, 0, off, b>>
    BY ONLY ThreeAndOne
  <2>4. wire = <<m, 0, off, b>>
    BY ONLY <2>2, <2>3, <1>w
  <2> DEFINE rest == SubSeq(wire, 3, Len(wire))
  <2>5. rest = SubSeq(wire, 3, Len(wire))
    OBVIOUS
  <2> HIDE DEF rest
  <2>6. Len(wire) = 4 /\ wire[1] = m /\ wire[2] = 0 /\ rest[1] = off
    BY ONLY <2>4, <2>5, Parts
  <2>7. VarintSpan(wire) = 2 /\ VarintValue(wire) = (m - 128) + 0 * 128
    <3>1. 128 <= m /\ m < 256 /\ 0 \in Nat /\ 0 < 128
      BY <2>1
    <3> QED BY ONLY <2>6, <3>1, m \in Nat, ReadLong
  <2>8. VarintSpan(rest) = 1 /\ VarintValue(rest) = off
    BY ONLY <1>1, <2>6, off \in Nat, ReadShort
  <2>9. VarintValue(wire) = n
    BY ONLY <2>1, <2>7, n \in Nat
  <2>10. /\ DecodeHeader(TRUE, wire).length = n
         /\ DecodeHeader(TRUE, wire).offset = off
         /\ DecodeHeader(TRUE, wire).taken = 3
    BY ONLY <2>5, <2>7, <2>8, <2>9, n \in Nat, off \in Nat DEF DecodeHeader
  <2> QED BY ONLY <2>6, <2>10
<1>2. ASSUME 128 <= off PROVE Read
  <2>1. PICK lo \in Nat : lo = (off % 128) + 128
    OBVIOUS
  <2>2. PICK hi \in Nat : hi = off \div 128
    OBVIOUS
  <2>3. /\ 128 <= lo /\ lo < 256 /\ hi < 128
        /\ (lo - 128) + hi * 128 = off
    BY ONLY <2>1, <2>2, off \in Nat, off < 16384
  <2>4. EncodeHeader(hdr) = <<n, lo, hi>>
    BY <1>h, <1>2, <2>1, <2>2, EncodeFar
  <2>5. <<n, lo, hi>> \o <<b>> = <<n, lo, hi, b>>
    BY ONLY ThreeAndOne
  <2>6. wire = <<n, lo, hi, b>>
    BY ONLY <2>4, <2>5, <1>w
  <2> DEFINE rest == SubSeq(wire, 2, Len(wire))
  <2>7. rest = SubSeq(wire, 2, Len(wire))
    OBVIOUS
  <2> HIDE DEF rest
  <2>8. Len(wire) = 4 /\ wire[1] = n /\ rest[1] = lo /\ rest[2] = hi
    BY ONLY <2>6, <2>7, Parts
  <2>9. VarintSpan(wire) = 1 /\ VarintValue(wire) = n
    BY ONLY <2>8, n \in Nat, n < 128, ReadShort
  <2>10. VarintSpan(rest) = 2 /\ VarintValue(rest) = (lo - 128) + hi * 128
    BY ONLY <2>3, <2>8, lo \in Nat, hi \in Nat, ReadLong
  <2>11. VarintValue(rest) = off
    BY ONLY <2>3, <2>10
  <2>12. /\ DecodeHeader(TRUE, wire).length = n
         /\ DecodeHeader(TRUE, wire).offset = off
         /\ DecodeHeader(TRUE, wire).taken = 3
    BY ONLY <2>7, <2>9, <2>10, <2>11, n \in Nat, off \in Nat DEF DecodeHeader
  <2> QED BY ONLY <2>8, <2>12
<1>3. off < 128 \/ 128 <= off
  OBVIOUS
<1>5. Read
  BY ONLY <1>1, <1>2, <1>3
<1>6. /\ DecodeHeader(hdr.chunk, wire).length = n
      /\ DecodeHeader(hdr.chunk, wire).offset = off
      /\ DecodeHeader(hdr.chunk, wire).taken = 3
  BY ONLY <1>c, <1>5
<1>7. Len(wire) = 3 + 1
  BY ONLY <1>5
<1>8. Survives(hdr, n, off, 3, b)
  BY ONLY <1>6, <1>7, Zenon DEF Survives, wire
<1> QED BY <1>8 DEF hdr

----------------------------------------------------------------------------
(* What is on its way to the headset has headers it can read.              *)

\* What send_pkt and the senders of fragments write is a packet of those
\* shapes, whose header survives the wire and leaves room for its payload,
\* whatever has been sent, lost or answered before.
LEMMA HostHeader ==
  ASSUME NEW p \in HostPackets, p # Ack, NEW b
  PROVE  LET wire == EncodeHeader(Header(p)) \o <<b>>
             got  == DecodeHeader(Header(p).chunk, wire)
         IN  /\ got.length = p.n /\ got.offset = Header(p).offset
             /\ got.taken = Len(wire) - 1
             /\ LET n == GIP_HDR_MIN_LENGTH + got.taken
                IN  n % 2 = 0 /\ n + p.n <= 64
<1>1. PICK n \in Nat : n = p.n
  BY DEF HostPackets, Packets, GIP_PKT_MAX
<1>2. n <= 58 /\ n < 128
  BY <1>1 DEF HostPackets, Packets, GIP_PKT_MAX
<1>3. CASE p.kind = "whole"
  <2>1. (p.kind # "whole") = FALSE
    BY <1>3
  <2>2. Header(p) = [length |-> n, chunk |-> FALSE, offset |-> 0]
    BY ONLY <1>1, <1>3, <2>1, Zenon DEF Header
  <2>3. Survives(Header(p), n, 0, 1, b)
    BY ONLY <1>2, <2>2, n \in Nat, WholeSurvives
  <2>4. Header(p).offset = 0
    BY ONLY <2>2
  <2> QED BY ONLY <1>1, <1>2, <2>3, <2>4, n \in Nat
          DEF Survives, GIP_HDR_MIN_LENGTH
<1>4. CASE p.kind # "whole"
  <2>0. (p.kind # "whole") = TRUE
    BY <1>4
  <2>1. p.off \in Nat /\ 0 < p.off /\ p.off < 16384
    BY <1>4 DEF HostPackets, Packets
  <2>2. PICK off \in Nat : off = p.off
    BY <2>1
  <2>3. 0 < off /\ off < 16384
    BY <2>1, <2>2
  <2>4. Header(p) = [length |-> n, chunk |-> TRUE, offset |-> off]
    BY ONLY <1>1, <1>4, <2>0, <2>2, Zenon DEF Header
  <2>5. Survives(Header(p), n, off, 3, b)
    BY ONLY <1>2, <2>3, <2>4, n \in Nat, off \in Nat, FragmentSurvives
  <2>6. Header(p).offset = off
    BY ONLY <2>4
  <2> QED BY ONLY <1>1, <1>2, <2>5, <2>6, n \in Nat, off \in Nat
          DEF Survives, GIP_HDR_MIN_LENGTH
<1> QED BY <1>3, <1>4

\* Every length and offset of an authentication packet survives the wire, its
\* header is of even length, and the packet fits the endpoint; with answers
\* that come too late as well.
THEOREM HeadersOnTheWire == Spec => []HeadersSurvive
<1>1. ShapeInv => HeadersSurvive
  <2> SUFFICES ASSUME ShapeInv, NEW p \in Sent, NEW b \in Byte
               PROVE  LET wire == EncodeHeader(Header(p)) \o <<b>>
                          got  == DecodeHeader(Header(p).chunk, wire)
                      IN  /\ got.length = p.n /\ got.offset = Header(p).offset
                          /\ got.taken = Len(wire) - 1
                          /\ LET n == GIP_HDR_MIN_LENGTH + got.taken
                             IN  n % 2 = 0 /\ n + p.n <= 64
    BY DEF HeadersSurvive
  <2>1. toDevice \in Seq(HostPackets)
    BY DEF ShapeInv
  <2>2. p \in HostPackets /\ p # Ack
    <3> HIDE DEF HostPackets, Ack
    <3> QED BY <2>1 DEF Sent
  <2> QED BY ONLY <2>2, HostHeader
<1> QED BY <1>1, InitShape, NextShape, PTL DEF Spec

----------------------------------------------------------------------------
(* The conversation of one attempt: whose turn it is, and what the other   *)
(* side has of the record that is being sent.                              *)

\* Sends and Answer, of a headset that speaks d.
SendsIn(cmd, d) ==
  IF cmd = "hello2" THEN "clientHello2"
  ELSE IF cmd \notin Requests \/ (cmd = "clientFinish" /\ d = "pdp")
  THEN "none" ELSE cmd

Acknowledging == {"hello", "secret", "finish", "key2", "finish2"}

AnswerIn(cmd, d) ==
  IF cmd = "hello" /\ d = "v2" THEN Reply("upgrade")
  ELSE IF cmd \in Acknowledging THEN Reply("authack")
  ELSE IF SendsIn(cmd, d) # "none" THEN StartOf(SendsIn(cmd, d))
  ELSE <<>>

LEMMA SendsAndAnswer ==
  ASSUME NEW cmd
  PROVE  Sends(cmd) = SendsIn(cmd, dialect) /\ Answer(cmd) = AnswerIn(cmd, dialect)
BY DEF Sends, SendsIn, Answer, AnswerIn, Acknowledging

\* A batch of fragments of a record, from an offset on, that follow each
\* other; and one that goes on to the end of the record.
Pieces(q, cmd, at, len) ==
  \A i \in 1..Len(q) :
    /\ at + (i - 1) * 58 < len
    /\ q[i] = Piece(cmd, at + (i - 1) * 58, len)

Reaches(q) == Len(q) > 0 /\ q[Len(q)].ack

\* Only the last piece asks for an acknowledgement; the others are full.
LEMMA PieceAck ==
  ASSUME NEW cmd, NEW at \in Nat, NEW len \in Nat, at < len
  PROVE  /\ len - at <= 58 => /\ Piece(cmd, at, len).ack
                              /\ Piece(cmd, at, len).n = len - at
         /\ len - at > 58 => /\ ~Piece(cmd, at, len).ack
                             /\ Piece(cmd, at, len).n = 58
<1>1. ASSUME len - at <= 58
      PROVE  Piece(cmd, at, len).ack /\ Piece(cmd, at, len).n = len - at
  <2>1. ~(len - at > GIP_PKT_MAX) /\ at + (len - at) = len
    BY <1>1 DEF GIP_PKT_MAX
  <2>2. Piece(cmd, at, len) = Packet("chunk", cmd, at, len - at, TRUE)
    BY <2>1 DEF Piece
  <2> QED BY <2>2 DEF Packet
<1>2. ASSUME len - at > 58
      PROVE  ~Piece(cmd, at, len).ack /\ Piece(cmd, at, len).n = 58
  <2>1. len - at > GIP_PKT_MAX /\ at + 58 # len /\ GIP_PKT_MAX = 58
    BY <1>2 DEF GIP_PKT_MAX
  <2>2. Piece(cmd, at, len) = Packet("chunk", cmd, at, 58, FALSE)
    BY <2>1 DEF Piece
  <2> QED BY <2>2 DEF Packet
<1> QED BY <1>1, <1>2

\* The first of them, and the ones after it.
LEMMA FirstPiece ==
  ASSUME NEW S, NEW q \in Seq(S), q # <<>>, NEW cmd \in Names,
         NEW at \in Nat, NEW len \in Nat, Pieces(q, cmd, at, len)
  PROVE  at < len /\ Head(q) = Piece(cmd, at, len)
<1>1. 1 \in 1..Len(q) /\ Head(q) = q[1]
  OBVIOUS
<1>2. at + (1 - 1) * 58 = at
  OBVIOUS
<1>3. at + (1 - 1) * 58 < len /\ q[1] = Piece(cmd, at + (1 - 1) * 58, len)
  BY ONLY <1>1, Pieces(q, cmd, at, len) DEF Pieces
<1> QED BY ONLY <1>1, <1>2, <1>3

LEMMA LastPiece ==
  ASSUME NEW S, NEW q \in Seq(S), q # <<>>, NEW cmd \in Names,
         NEW at \in Nat, NEW len \in Nat, Pieces(q, cmd, at, len),
         len - at <= 58
  PROVE  Len(q) = 1 /\ Tail(q) = <<>>
<1>1. ASSUME Len(q) >= 2 PROVE FALSE
  <2>1. 2 \in 1..Len(q)
    BY <1>1
  <2>2. at + (2 - 1) * 58 < len
    BY <2>1 DEF Pieces
  <2> QED BY <2>2
<1>2. Len(q) \in Nat /\ Len(q) # 0 /\ Tail(q) \in Seq(S)
      /\ Len(Tail(q)) = Len(q) - 1
  OBVIOUS
<1>3. Len(q) = 1 /\ Len(Tail(q)) = 0
  BY <1>1, <1>2
<1> QED BY <1>2, <1>3, EmptySeq

LEMMA OtherPieces ==
  ASSUME NEW S, NEW q \in Seq(S), q # <<>>, NEW cmd \in Names,
         NEW at \in Nat, NEW len \in Nat, Pieces(q, cmd, at, len),
         len - at > 58
  PROVE  /\ Pieces(Tail(q), cmd, at + 58, len)
         /\ Reaches(q) <=> Reaches(Tail(q))
<1>1. /\ Tail(q) \in Seq(S) /\ Len(Tail(q)) = Len(q) - 1 /\ Len(q) \in Nat
      /\ Len(q) > 0
      /\ \A i \in 1..(Len(q) - 1) : Tail(q)[i] = q[i + 1]
  OBVIOUS
<1>2. ASSUME NEW i \in 1..Len(Tail(q))
      PROVE  /\ (at + 58) + (i - 1) * 58 < len
             /\ Tail(q)[i] = Piece(cmd, (at + 58) + (i - 1) * 58, len)
  <2>1. i + 1 \in 1..Len(q) /\ Tail(q)[i] = q[i + 1]
    BY <1>1
  <2>2. at + ((i + 1) - 1) * 58 = (at + 58) + (i - 1) * 58
    BY <1>1
  <2>3. /\ at + ((i + 1) - 1) * 58 < len
        /\ q[i + 1] = Piece(cmd, at + ((i + 1) - 1) * 58, len)
    BY ONLY <2>1, Pieces(q, cmd, at, len) DEF Pieces
  <2> QED BY ONLY <2>1, <2>2, <2>3
<1>3. Pieces(Tail(q), cmd, at + 58, len)
  BY <1>2 DEF Pieces
<1>4. CASE Len(q) = 1
  <2>1. Head(q) = q[1] /\ Head(q) = Piece(cmd, at, len) /\ at < len
    BY FirstPiece
  <2>2. ~Piece(cmd, at, len).ack
    BY <2>1, PieceAck
  <2>3. ~q[1].ack
    BY ONLY <2>1, <2>2
  <2>4. ~Reaches(q)
    BY <1>4, <2>3 DEF Reaches
  <2>5. Len(Tail(q)) = 0
    BY <1>1, <1>4
  <2>6. ~Reaches(Tail(q))
    BY ONLY <2>5 DEF Reaches
  <2> QED BY <1>3, <2>4, <2>6
<1>5. CASE Len(q) > 1
  <2>1. Tail(q)[Len(q) - 1] = q[(Len(q) - 1) + 1] /\ (Len(q) - 1) + 1 = Len(q)
    BY <1>1, <1>5
  <2>2. Tail(q)[Len(Tail(q))] = q[Len(q)] /\ Len(Tail(q)) > 0
    BY <1>1, <1>5, <2>1
  <2> QED BY <1>1, <1>3, <2>2 DEF Reaches
<1> QED BY <1>1, <1>4, <1>5

\* What is written of a record's fragments.
LEMMA SomeFragments ==
  ASSUME NEW cmd \in Names, NEW off \in Nat, NEW len \in Nat, off <= len,
         NEW k \in 0..Len(Fragments(cmd, off, len))
  PROVE  LET q == Fragments(cmd, off, len)
             s == SubSeq(q, 1, k)
         IN  /\ Pieces(s, cmd, off, len)
             /\ k # 0 => s # <<>>
             /\ k = 0 => s = <<>>
             /\ Reaches(s) => k = Len(q)
             /\ off < len /\ k = Len(q) => Reaches(s)
             /\ off < len => Pieces(q, cmd, off, len) /\ Reaches(q)
<1> DEFINE q == Fragments(cmd, off, len)
           s == SubSeq(q, 1, k)
<1>1. PICK m \in Nat :
        /\ Len(q) = m
        /\ q = [j \in 1..m |-> Piece(cmd, off + (j - 1) * GIP_PKT_MAX, len)]
        /\ \A j \in 1..m : off + (j - 1) * GIP_PKT_MAX < len
        /\ off + m * GIP_PKT_MAX >= len
        /\ m = 0 => off = len
  BY FragmentsCover
<1>2. k \in Nat /\ k <= m
  BY <1>1
<1> HIDE DEF q
<1>3. \A j \in 1..m : /\ off + (j - 1) * 58 < len
                      /\ q[j] = Piece(cmd, off + (j - 1) * 58, len)
  BY <1>1 DEF GIP_PKT_MAX
<1>4. ASSUME NEW j \in 1..m
      PROVE  /\ q[j].ack => len - (off + (j - 1) * 58) <= 58
             /\ len - (off + (j - 1) * 58) <= 58 => q[j].ack
  <2>1. PICK at \in Nat : at = off + (j - 1) * 58
    OBVIOUS
  <2>2. at < len /\ q[j] = Piece(cmd, at, len)
    BY <1>3, <2>1
  <2>3. /\ Piece(cmd, at, len).ack => len - at <= 58
        /\ len - at <= 58 => Piece(cmd, at, len).ack
    BY ONLY <2>2, PieceAck, off \in Nat, len \in Nat
  <2> QED BY <2>1, <2>2, <2>3
<1>5. q \in Seq(Packets)
  BY PieceShape, FragmentsIn DEF q
<1>6. Len(s) = k /\ \A j \in 1..k : s[j] = q[j]
  BY <1>1, <1>2, <1>5
<1>7. k = 0 => s = <<>>
  BY <1>5
<1> HIDE DEF s
<1>8. Pieces(s, cmd, off, len)
  <2> SUFFICES ASSUME NEW i \in 1..k
               PROVE  /\ off + (i - 1) * 58 < len
                      /\ s[i] = Piece(cmd, off + (i - 1) * 58, len)
    BY <1>6 DEF Pieces
  <2>1. i \in 1..m
    BY <1>2
  <2> QED BY <1>3, <1>6, <2>1
<1>9. k # 0 => s # <<>>
  BY <1>2, <1>6
<1>10. ASSUME Reaches(s) PROVE k = Len(q)
  <2>1. k \in 1..m /\ s[k] = q[k] /\ s[k].ack
    BY <1>2, <1>6, <1>10 DEF Reaches
  <2>2. len - (off + (k - 1) * 58) <= 58
    BY <1>4, <2>1
  <2>3. ASSUME k < m PROVE FALSE
    <3>1. k + 1 \in 1..m
      BY <1>2, <2>3
    <3>2. off + ((k + 1) - 1) * 58 < len
      BY <1>3, <3>1
    <3> QED BY <1>2, <2>2, <3>2
  <2> QED BY <1>1, <1>2, <2>3
<1>11. ASSUME off < len PROVE Pieces(q, cmd, off, len) /\ Reaches(q)
  <2>1. m > 0 /\ m \in 1..m
    BY <1>1, <1>11
  <2>2. off + m * 58 >= len
    BY <1>1 DEF GIP_PKT_MAX
  <2>3. len - (off + (m - 1) * 58) <= 58
    BY <2>1, <2>2
  <2>4. q[m].ack
    BY <1>4, <2>1, <2>3
  <2>5. Pieces(q, cmd, off, len)
    BY <1>1, <1>3 DEF Pieces
  <2> QED BY <1>1, <2>1, <2>4, <2>5 DEF Reaches
<1>12. ASSUME off < len, k = Len(q) PROVE Reaches(s)
  BY <1>6, <1>11, <1>12 DEF Reaches
<1> QED BY <1>7, <1>8, <1>9, <1>10, <1>11, <1>12 DEF q, s

\* Nothing of a record is left to be sent.
Still == out.len = 0 /\ ~out.term

\* What the host has of the headset's record, and the headset of the host's.
Incoming(n) ==
  in = [cmd |-> SendsIn(lastCmd, dialect), total |-> ClientLen, len |-> n]
Arrived(n) ==
  dev.in = [cmd |-> lastCmd, total |-> Length(lastCmd), len |-> n]

\* Of a record of several packets one has been sent; or all but the end.
Fresh ==
  out = [cmd |-> lastCmd, total |-> Length(lastCmd), len |-> Length(lastCmd),
         off |-> 58, term |-> FALSE]
Given == /\ out.cmd = lastCmd /\ out.total = Length(lastCmd)
         /\ out.len = 0 /\ out.term

\* What the host notes as its last command.
Spoken == (Records \ {"complete"}) \cup Requests

\* The host has sent: a record of one packet, the start of a longer one, a
\* batch of its fragments, which end short of it only if a write has failed,
\* its end; or the acknowledgement of a fragment.
WholeSent ==
  /\ lastCmd \in Spoken \ Lasting
  /\ Still /\ toDevice = <<Whole(lastCmd)>>
StartSent ==
  /\ lastCmd \in Lasting /\ Fresh
  /\ toDevice = <<Packet("start", lastCmd, Length(lastCmd), 58, TRUE)>>
ChunksSent ==
  /\ lastCmd \in Lasting /\ toDevice # <<>>
  /\ \E n \in Nat : Arrived(n) /\ Pieces(toDevice, lastCmd, n, Length(lastCmd))
  /\ IF Reaches(toDevice) THEN Given ELSE faults # 0
EndSent ==
  /\ lastCmd \in Lasting /\ Still /\ Arrived(Length(lastCmd))
  /\ toDevice = <<Packet("end", lastCmd, Length(lastCmd), 0, FALSE)>>

\* The headset sends a record of its own because of the last one it heard.
Sending(stage, sends) ==
  /\ lastCmd \in dev.heard /\ Still
  /\ SendsIn(lastCmd, dialect) # "none"
  /\ dev.stage = stage /\ dev.sends = sends
AckSent ==
  /\ toDevice = <<Ack>>
  /\ \/ Sending("start", SendsIn(lastCmd, dialect)) /\ Incoming(58)
     \/ Sending("rest", SendsIn(lastCmd, dialect)) /\ Incoming(ClientLen)

\* The headset has heard a whole record and answers, acknowledging a record
\* of one packet first; it has acknowledged a part of a record; it sends the
\* rest of a record of its own, or its end.
Heard ==
  /\ lastCmd \in dev.heard /\ Still
  /\ dev.sends = SendsIn(lastCmd, dialect) /\ dev.stage = "start"
Answering ==
  /\ Heard /\ toHost = AnswerIn(lastCmd, dialect)
  /\ toHost = <<>> => faults # 0
Answered ==
  /\ Heard /\ lastCmd \in Spoken \ Lasting
  /\ toHost # <<>> /\ Head(toHost) = Ack
  /\ Tail(toHost) = AnswerIn(lastCmd, dialect)
Acknowledged ==
  /\ lastCmd \in Lasting /\ toHost = <<Ack>>
  /\ \/ Arrived(58) /\ Fresh
     \/ Arrived(Length(lastCmd)) /\ Given
RestComing ==
  /\ Sending("rest", SendsIn(lastCmd, dialect))
  /\ toHost # <<>> /\ Reaches(toHost)
  /\ \E n \in Nat : /\ Incoming(n)
                    /\ Pieces(toHost, SendsIn(lastCmd, dialect), n, ClientLen)
EndComing ==
  /\ Sending("rest", "none") /\ Incoming(ClientLen)
  /\ toHost = <<Packet("end", SendsIn(lastCmd, dialect), ClientLen, 0, FALSE)>>

\* Nothing is on its way: before the exchange, and after a write that failed.
Idle == toDevice = <<>> /\ toHost = <<>>
Silent == Idle /\ (phase = "opened" \/ faults # 0)

\* The host is done.  The beginning of the headset's finish may still arrive.
Over ==
  /\ toHost \in {<<>>, StartOf("clientFinish")}
  /\ toDevice \in {<<>>, <<Whole("complete")>>, <<Ack>>,
                   <<Whole("complete"), Ack>>}
  /\ toDevice \in {<<>>, <<Ack>>} => dev.sends = "none"
  /\ toDevice \in {<<Ack>>, <<Whole("complete"), Ack>>} => toHost = <<>>
  /\ lastCmd \in {"clientFinish", "clientFinish2"}

HostTurn == Answering \/ Answered \/ Acknowledged \/ RestComing \/ EndComing
HeadsetTurn == WholeSent \/ StartSent \/ ChunksSent \/ EndSent \/ AckSent

Turn ==
  \/ authenticated /\ Over
  \/ ~authenticated /\ Silent
  \/ ~authenticated /\ toHost = <<>> /\ HeadsetTurn
  \/ ~authenticated /\ toDevice = <<>> /\ HostTurn

----------------------------------------------------------------------------
(* What is known when a packet of some kind is read.                       *)

LEMMA Joined ==
  ASSUME NEW S, NEW a \in S, NEW s \in Seq(S)
  PROVE  /\ <<>> \o (<<a>> \o s) # <<>>
         /\ Head(<<>> \o (<<a>> \o s)) = a
         /\ Tail(<<>> \o (<<a>> \o s)) = s
<1> DEFINE t == <<a>> \o s
<1>1. t \in Seq(S) /\ Len(t) = Len(s) + 1
  OBVIOUS
<1>2. <<>> \o t = t
  BY <1>1
<1>3. t[1] = a /\ \A i \in 1..Len(s) : t[i + 1] = s[i]
  OBVIOUS
<1> HIDE DEF t
<1>4. t # <<>> /\ Head(t) = a
  BY <1>1, <1>3
<1>5. Tail(t) \in Seq(S) /\ Len(Tail(t)) = Len(s)
  BY <1>1, <1>4
<1>6. \A i \in 1..Len(Tail(t)) : Tail(t)[i] = s[i]
  BY <1>1, <1>3, <1>4, <1>5
<1>7. Tail(t) = s
  BY <1>5, <1>6, SeqEqual
<1> QED BY <1>2, <1>4, <1>7 DEF t

LEMMA Single ==
  ASSUME NEW x
  PROVE  <<x>> # <<>> /\ Head(<<x>>) = x /\ Tail(<<x>>) = <<>>
OBVIOUS

\* What the headset may answer.
LEMMA Answers ==
  ASSUME NEW cmd \in Names, NEW d
  PROVE  \/ /\ cmd = "hello" /\ d = "v2"
            /\ AnswerIn(cmd, d) = <<Packet("upgrade", "none", 0, 0, FALSE)>>
         \/ /\ cmd \in Acknowledging /\ ~(cmd = "hello" /\ d = "v2")
            /\ AnswerIn(cmd, d) = <<Packet("authack", "none", 0, 0, FALSE)>>
         \/ /\ cmd \notin Acknowledging /\ SendsIn(cmd, d) # "none"
            /\ AnswerIn(cmd, d) = <<Packet("start", SendsIn(cmd, d), ClientLen,
                                           58, TRUE)>>
         \/ /\ cmd \notin Acknowledging /\ SendsIn(cmd, d) = "none"
            /\ AnswerIn(cmd, d) = <<>>
BY DEF AnswerIn, Acknowledging, Reply, StartOf, GIP_PKT_MAX

\* What it sends of its own: of the requests, and of the second hello.
LEMMA SendsWhat ==
  ASSUME NEW cmd, NEW d, SendsIn(cmd, d) # "none"
  PROVE  /\ cmd \notin Lasting
         /\ SendsIn(cmd, d) \in Names
         /\ \/ SendsIn(cmd, d) = "clientHello2" /\ cmd = "hello2"
            \/ SendsIn(cmd, d) = cmd /\ cmd \in Requests
BY DEF SendsIn, Lasting, Requests, Names

LEMMA PacketFields ==
  ASSUME NEW kind, NEW cmd, NEW off, NEW n, NEW ack
  PROVE  /\ Packet(kind, cmd, off, n, ack).kind = kind
         /\ Packet(kind, cmd, off, n, ack).cmd = cmd
         /\ Packet(kind, cmd, off, n, ack).off = off
         /\ Packet(kind, cmd, off, n, ack).n = n
         /\ Packet(kind, cmd, off, n, ack).ack = ack
BY DEF Packet

LEMMA AckKind == Ack.kind = "gipack"
BY DEF Ack, Packet

LEMMA AnswerKinds ==
  ASSUME NEW cmd \in Names, NEW d, AnswerIn(cmd, d) # <<>>
  PROVE  /\ Tail(AnswerIn(cmd, d)) = <<>>
         /\ \/ /\ Head(AnswerIn(cmd, d)).kind = "upgrade"
               /\ cmd = "hello" /\ d = "v2"
            \/ /\ Head(AnswerIn(cmd, d)).kind = "authack"
               /\ cmd \in Acknowledging
            \/ /\ Head(AnswerIn(cmd, d)).kind = "start"
               /\ SendsIn(cmd, d) # "none"
               /\ AnswerIn(cmd, d) = StartOf(SendsIn(cmd, d))
<1> DEFINE s == AnswerIn(cmd, d)
<1>1. ASSUME NEW k, NEW c, NEW o, NEW n, NEW a, s = <<Packet(k, c, o, n, a)>>
      PROVE  Tail(s) = <<>> /\ Head(s).kind = k
  <2>1. Head(s) = Packet(k, c, o, n, a) /\ Tail(s) = <<>>
    BY ONLY <1>1, Single
  <2> QED BY ONLY <2>1, PacketFields
<1>2. CASE cmd = "hello" /\ d = "v2"
  <2>1. s = <<Packet("upgrade", "none", 0, 0, FALSE)>>
    BY <1>2 DEF AnswerIn, Reply
  <2>2. Tail(s) = <<>> /\ Head(s).kind = "upgrade"
    BY <1>1, <2>1
  <2> QED BY ONLY <1>2, <2>2
<1>3. CASE cmd \in Acknowledging /\ ~(cmd = "hello" /\ d = "v2")
  <2>1. s = <<Packet("authack", "none", 0, 0, FALSE)>>
    BY <1>3 DEF AnswerIn, Reply
  <2>2. Tail(s) = <<>> /\ Head(s).kind = "authack"
    BY <1>1, <2>1
  <2> QED BY ONLY <1>3, <2>2
<1>4. CASE cmd \notin Acknowledging
  <2>1. SendsIn(cmd, d) # "none" /\ s = StartOf(SendsIn(cmd, d))
    BY <1>4 DEF AnswerIn, Acknowledging
  <2>3. s = <<Packet("start", SendsIn(cmd, d), ClientLen, GIP_PKT_MAX, TRUE)>>
    BY <2>1 DEF StartOf
  <2>2. Tail(s) = <<>> /\ Head(s).kind = "start"
    BY <1>1, <2>3
  <2> QED BY ONLY <2>1, <2>2
<1> QED BY <1>2, <1>3, <1>4 DEF Acknowledging

LEMMA NotEmpty ==
  ASSUME NEW q, Reaches(q) PROVE q # <<>>
<1>1. Len(q) > 0
  BY DEF Reaches
<1>2. ASSUME q = <<>> PROVE Len(q) = 0
  BY ONLY <1>2
<1> QED BY ONLY <1>1, <1>2

\* The kind of what is read first tells where the conversation stands.
LEMMA HostTurnKinds ==
  ASSUME ShapeInv
  PROVE  /\ Answered => Head(toHost).kind = "gipack"
         /\ Acknowledged => Head(toHost).kind = "gipack"
         /\ RestComing => Head(toHost).kind = "chunk"
         /\ EndComing => Head(toHost).kind = "end"
         /\ Answering /\ toHost # <<>> =>
              Head(toHost).kind \in {"upgrade", "authack", "start"}
<1>0. lastCmd \in Names /\ toHost \in Seq(HeadsetPackets) /\ ClientLen \in Nat
  BY HandshakeAssumption DEF ShapeInv, Names
<1>1. Answered => Head(toHost).kind = "gipack"
  BY AckKind DEF Answered
<1>2. Acknowledged => Head(toHost).kind = "gipack"
  BY AckKind, Single DEF Acknowledged
<1>3. ASSUME RestComing PROVE Head(toHost).kind = "chunk"
  <2> DEFINE s == SendsIn(lastCmd, dialect)
  <2>1. s \in Names
    BY <1>3, SendsWhat DEF RestComing, Sending
  <2> HIDE DEF s
  <2>2. PICK n \in Nat : Pieces(toHost, s, n, ClientLen)
    BY <1>3 DEF RestComing, s
  <2>3. toHost # <<>>
    BY <1>3 DEF RestComing
  <2>4. n < ClientLen /\ Head(toHost) = Piece(s, n, ClientLen)
    BY ONLY <1>0, <2>1, <2>2, <2>3, FirstPiece
  <2>5. Piece(s, n, ClientLen).kind = "chunk"
    BY ONLY <1>0, <2>1, <2>4, n \in Nat, PieceShape
  <2> QED BY ONLY <2>4, <2>5
<1>4. ASSUME EndComing PROVE Head(toHost).kind = "end"
  <2>1. Head(toHost)
          = Packet("end", SendsIn(lastCmd, dialect), ClientLen, 0, FALSE)
    BY <1>4, Single DEF EndComing
  <2> QED BY <2>1 DEF Packet
<1>5. ASSUME Answering, toHost # <<>>
      PROVE  Head(toHost).kind \in {"upgrade", "authack", "start"}
  <2>1. toHost = AnswerIn(lastCmd, dialect)
    BY <1>5 DEF Answering
  <2>2. AnswerIn(lastCmd, dialect) # <<>>
    BY <1>5, <2>1
  <2>3. Head(AnswerIn(lastCmd, dialect)).kind \in {"upgrade", "authack", "start"}
    BY ONLY <1>0, <2>2, AnswerKinds
  <2> QED BY <2>1, <2>3
<1> QED BY <1>1, <1>2, <1>3, <1>4, <1>5

LEMMA OverKinds ==
  ASSUME Over, toHost # <<>>
  PROVE  Head(toHost).kind = "start"
<1>1. toHost = <<Packet("start", "clientFinish", ClientLen, GIP_PKT_MAX, TRUE)>>
  BY DEF Over, StartOf
<1>2. Head(toHost)
        = Packet("start", "clientFinish", ClientLen, GIP_PKT_MAX, TRUE)
  BY <1>1, Single
<1> QED BY <1>2 DEF Packet

\* A GIP acknowledgement.
LEMMA HearsAck ==
  ASSUME ShapeInv, Turn, Arrives("gipack")
  PROVE  /\ ~authenticated /\ toDevice = <<>>
         /\ Answered \/ Acknowledged
<1>1. toHost # <<>> /\ Head(toHost).kind = "gipack"
  BY DEF Arrives
<1>2. ~authenticated
  BY <1>1, OverKinds DEF Turn
<1>3. toDevice = <<>> /\ HostTurn
  BY <1>1, <1>2 DEF Turn, Silent, Idle
<1> QED BY <1>1, <1>2, <1>3, HostTurnKinds DEF HostTurn

\* An acknowledgement or request inside AUTHENTICATE.
LEMMA HearsReply ==
  ASSUME ShapeInv, Turn, Arrives("authack") \/ Arrives("upgrade")
  PROVE  /\ ~authenticated /\ toDevice = <<>> /\ Heard
         /\ Tail(toHost) = <<>>
         /\ Arrives("authack") => lastCmd \in Acknowledging
         /\ Arrives("upgrade") => lastCmd = "hello" /\ dialect = "v2"
<1>1. toHost # <<>> /\ Head(toHost).kind \in {"authack", "upgrade"}
  BY DEF Arrives
<1>2. ~authenticated
  BY <1>1, OverKinds DEF Turn
<1>3. toDevice = <<>> /\ HostTurn
  BY <1>1, <1>2 DEF Turn, Silent, Idle
<1>4. Answering
  BY <1>1, <1>2, <1>3, HostTurnKinds DEF HostTurn
<1>5. lastCmd \in Names
  BY DEF ShapeInv, Names
<1>6. toHost = AnswerIn(lastCmd, dialect) /\ Heard
  BY <1>4 DEF Answering
<1>7. AnswerIn(lastCmd, dialect) # <<>>
  BY <1>1, <1>6
<1> DEFINE s == AnswerIn(lastCmd, dialect)
<1>8. /\ Tail(s) = <<>>
      /\ Head(s).kind = "authack" => lastCmd \in Acknowledging
      /\ Head(s).kind = "upgrade" => lastCmd = "hello" /\ dialect = "v2"
  BY ONLY <1>5, <1>7, AnswerKinds
<1> QED BY <1>2, <1>3, <1>6, <1>8 DEF Arrives

\* The beginning of one of the headset's records.
LEMMA HearsStart ==
  ASSUME ShapeInv, Turn, Arrives("start")
  PROVE  /\ Tail(toHost) = <<>>
         /\ \/ authenticated /\ Over
            \/ /\ ~authenticated /\ toDevice = <<>> /\ Heard
               /\ SendsIn(lastCmd, dialect) # "none"
               /\ Head(toHost) = Packet("start", SendsIn(lastCmd, dialect),
                                        ClientLen, 58, TRUE)
<1>1. toHost # <<>> /\ Head(toHost).kind = "start"
  BY DEF Arrives
<1>2. CASE authenticated
  <2>1. Over
    BY <1>2 DEF Turn
  <2>2. Tail(toHost) = <<>>
    BY <1>1, <2>1, Single DEF Over, StartOf
  <2> QED BY <1>2, <2>1, <2>2
<1>3. CASE ~authenticated
  <2>1. toDevice = <<>> /\ HostTurn
    BY <1>1, <1>3 DEF Turn, Silent, Idle
  <2>2. Answering
    BY <1>1, <1>3, <2>1, HostTurnKinds DEF HostTurn
  <2>3. lastCmd \in Names
    BY DEF ShapeInv, Names
  <2>4. toHost = AnswerIn(lastCmd, dialect) /\ Heard
    BY <2>2 DEF Answering
  <2> DEFINE s == AnswerIn(lastCmd, dialect)
  <2>5. s # <<>> /\ Head(s).kind = "start"
    BY ONLY <1>1, <2>4
  <2>6. /\ Tail(s) = <<>> /\ SendsIn(lastCmd, dialect) # "none"
        /\ s = StartOf(SendsIn(lastCmd, dialect))
    BY ONLY <2>3, <2>5, AnswerKinds
  <2>7. Head(s) = Packet("start", SendsIn(lastCmd, dialect), ClientLen, 58,
                         TRUE)
    BY ONLY <2>6, Single DEF StartOf, GIP_PKT_MAX
  <2> QED BY ONLY <1>3, <2>1, <2>4, <2>6, <2>7
<1> QED BY <1>2, <1>3

\* Another fragment of it, or its end.
LEMMA HearsRest ==
  ASSUME ShapeInv, Turn, Arrives("chunk") \/ Arrives("end")
  PROVE  /\ ~authenticated /\ toDevice = <<>>
         /\ Arrives("chunk") => RestComing
         /\ Arrives("end") => EndComing
<1>1. toHost # <<>> /\ Head(toHost).kind \in {"chunk", "end"}
  BY DEF Arrives
<1>2. ~authenticated
  BY <1>1, OverKinds DEF Turn
<1>3. toDevice = <<>> /\ HostTurn
  BY <1>1, <1>2 DEF Turn, Silent, Idle
<1> QED BY <1>1, <1>2, <1>3, HostTurnKinds DEF HostTurn, Arrives

----------------------------------------------------------------------------
(* Whose turn it is after each step of the host.                           *)

\* A write that fails is counted.
LEMMA Counted ==
  ASSUME ShapeInv, NEW ok \in BOOLEAN, Attempt(ok)
  PROVE  ~ok \/ faults # 0 => faults' # 0
BY HandshakeAssumption DEF ShapeInv, Attempt

LEMMA SpokenNames == Spoken \subseteq Names
BY DEF Spoken, Names

\* Only the request for its finish may be left without an answer.
LEMMA NoAnswer ==
  ASSUME NEW cmd \in Spoken, NEW d, AnswerIn(cmd, d) = <<>>
  PROVE  cmd = "clientFinish"
<1>1. cmd \in Names /\ AnswerIn(cmd, d) = <<>>
  BY SpokenNames
<1>2. SendsIn(cmd, d) = "none" /\ cmd \notin Acknowledging
  <2>1. \A x : <<x>> # <<>>
    OBVIOUS
  <2>2. "hello" \in Acknowledging
    BY DEF Acknowledging
  <2> QED BY ONLY <1>1, <2>1, <2>2, Answers, Zenon
<1> QED BY <1>2 DEF SendsIn, Acknowledging, Spoken, Records, Requests

\* A record is sent when nothing is on its way and nothing is left to be sent.
LEMMA SendTurn ==
  ASSUME NEW cmd \in Spoken, NEW ok \in BOOLEAN, NEW hashed,
         Still, toDevice = <<>>, Send(cmd, out, <<>>, ok, hashed),
         toHost' = <<>>, ~authenticated', ~ok => faults' # 0
  PROVE  Turn' /\ (~ok => Idle')
<1>1. /\ lastCmd' = cmd /\ out' = OutAfter(cmd, out)
      /\ toDevice' = toDevice \o <<>>
                     \o (IF ok THEN <<FirstPacket(cmd, out)>> ELSE <<>>)
  BY DEF Send
<1>2. ASSUME ~ok PROVE Idle'
  <2>1. toDevice' = <<>> \o <<>> \o <<>>
    BY <1>1, <1>2
  <2>2. <<>> \o <<>> \o <<>> = <<>>
    OBVIOUS
  <2> QED BY ONLY <2>1, <2>2, toHost' = <<>> DEF Idle
<1>3. ASSUME ok PROVE toDevice' = <<FirstPacket(cmd, out)>>
  <2>1. toDevice' = <<>> \o <<>> \o <<FirstPacket(cmd, out)>>
    BY <1>1, <1>3
  <2>2. <<>> \o <<>> \o <<FirstPacket(cmd, out)>> = <<FirstPacket(cmd, out)>>
    <3> DEFINE p == FirstPacket(cmd, out)
    <3> HIDE DEF p
    <3>1. <<>> \o <<>> \o <<p>> = <<p>>
      OBVIOUS
    <3> QED BY <3>1 DEF p
  <2> QED BY ONLY <2>1, <2>2
<1>4. ASSUME ok, cmd \in Lasting PROVE HeadsetTurn'
  <2>1. Length(cmd) > GIP_PKT_MAX
    BY <1>4, Lengths, SpokenNames DEF Lasting, GIP_PKT_MAX
  <2>2. FirstPacket(cmd, out) = Packet("start", cmd, Length(cmd), 58, TRUE)
    BY <2>1 DEF FirstPacket, GIP_PKT_MAX
  <2>3. OutAfter(cmd, out)
          = [cmd |-> cmd, total |-> Length(cmd), len |-> Length(cmd),
             off |-> 58, term |-> FALSE]
    BY <2>1 DEF OutAfter, GIP_PKT_MAX
  <2>4. StartSent'
    BY ONLY <1>1, <1>3, <1>4, <2>2, <2>3 DEF StartSent, Fresh
  <2> QED BY <2>4 DEF HeadsetTurn
<1>5. ASSUME ok, cmd \notin Lasting PROVE HeadsetTurn'
  <2>0. Length(cmd) \in 2..GIP_PKT_MAX
    BY <1>5, Lengths, SpokenNames
  <2>1. ~(Length(cmd) > GIP_PKT_MAX)
    BY ONLY <2>0 DEF GIP_PKT_MAX
  <2>2. FirstPacket(cmd, out) = Whole(cmd)
    BY <2>1 DEF FirstPacket, Still
  <2>3. OutAfter(cmd, out) = out
    BY <2>1 DEF OutAfter, Still
  <2>4. WholeSent'
    BY ONLY <1>1, <1>3, <1>5, <2>2, <2>3, Still DEF WholeSent, Still
  <2> QED BY <2>4 DEF HeadsetTurn
<1> QED BY <1>2, <1>4, <1>5 DEF Turn, Silent

\* The message that completes the exchange is sent then, too.
LEMMA CompleteTurn ==
  ASSUME NEW ok \in BOOLEAN, NEW o, o.len = 0, ~o.term,
         toDevice = <<>>, Complete(o, <<>>, ok), ~authenticated
  PROVE  /\ Still'
         /\ ok => authenticated' /\ toDevice' = <<Whole("complete")>>
         /\ ~ok => ~authenticated' /\ toDevice' = <<>>
<1>1. /\ out' = OutAfter("complete", o)
      /\ toDevice' = toDevice \o <<>>
                     \o (IF ok THEN <<FirstPacket("complete", o)>> ELSE <<>>)
      /\ authenticated' = (authenticated \/ ok)
  BY DEF Complete
<1>2. ~(Length("complete") > GIP_PKT_MAX) /\ Length("complete") # GIP_PKT_MAX
  BY DEF Length, GIP_PKT_MAX
<1>3. FirstPacket("complete", o) = Whole("complete")
  BY <1>2 DEF FirstPacket
<1>4. OutAfter("complete", o) = o
  BY <1>2 DEF OutAfter
<1>5. Still'
  BY ONLY <1>1, <1>4, o.len = 0, ~o.term DEF Still
<1>6. ASSUME ok
      PROVE  authenticated' /\ toDevice' = <<Whole("complete")>>
  <2>1. toDevice' = <<>> \o <<>> \o <<Whole("complete")>>
    BY <1>1, <1>3, <1>6
  <2> DEFINE p == Whole("complete")
  <2> HIDE DEF p
  <2>2. <<>> \o <<>> \o <<p>> = <<p>>
    OBVIOUS
  <2> QED BY <1>1, <1>6, <2>1, <2>2 DEF p
<1>7. ASSUME ~ok PROVE ~authenticated' /\ toDevice' = <<>>
  <2>1. toDevice' = <<>> \o <<>> \o <<>>
    BY <1>1, <1>7
  <2>2. <<>> \o <<>> \o <<>> = <<>>
    OBVIOUS
  <2> QED BY <1>1, <1>7, <2>1, <2>2
<1> QED BY <1>5, <1>6, <1>7

\* Before an attempt has begun there is nothing of it anywhere.
Opened ==
  phase = "opened" =>
    /\ Idle /\ ~authenticated
    /\ lastCmd = "none" /\ out = NoOut /\ transcript = <<>>

LEMMA ArmTurn ==
  ASSUME ShapeInv, Opened, Arm
  PROVE  Turn' /\ lastCmd' = "hello" /\ transcript' = <<"hello">>
<1>1. Idle /\ ~authenticated /\ out = NoOut /\ transcript = <<>>
  BY DEF Opened, Arm
<1>2. PICK ok \in BOOLEAN :
        Attempt(ok) /\ Send("hello", out, <<>>, ok, <<"hello">>)
  BY DEF Arm
<1>3. "hello" \in Spoken /\ Still /\ (~ok => faults' # 0)
  BY <1>1, <1>2, Counted DEF Spoken, Records, Still, NoOut
<1>4. toHost' = <<>> /\ ~authenticated' /\ toDevice = <<>>
  BY <1>1 DEF Arm, Idle
<1>5. Turn'
  BY ONLY <1>2, <1>3, <1>4, ok \in BOOLEAN, SendTurn
<1>6. lastCmd' = "hello" /\ transcript' = <<>> \o <<"hello">>
  BY <1>1, <1>2 DEF Send
<1> QED BY <1>5, <1>6

LEMMA RxAuthAckTurn ==
  ASSUME ShapeInv, Turn, RxAuthAck
  PROVE  /\ Turn' /\ ~authenticated'
         /\ lastCmd \in Acknowledging /\ lastCmd \in dev.heard
         /\ lastCmd' = AfterAuthAck[lastCmd]
         /\ transcript' = transcript \o Hashed(lastCmd')
<1>1. Arrives("authack") /\ toHost' = Tail(toHost) /\ UNCHANGED authenticated
  BY DEF RxAuthAck, Taken
<1>2. /\ ~authenticated /\ toDevice = <<>> /\ Heard
      /\ Tail(toHost) = <<>> /\ lastCmd \in Acknowledging
  BY <1>1, HearsReply
<1>3. lastCmd \in DOMAIN AfterAuthAck
  BY <1>2 DEF AfterAuthAck, Acknowledging
<1> DEFINE cmd == AfterAuthAck[lastCmd]
<1>4. cmd \in Spoken
  BY <1>2 DEF AfterAuthAck, Acknowledging, Spoken, Records, Requests
<1>5. PICK ok \in BOOLEAN :
        Attempt(ok) /\ Send(cmd, out, <<>>, ok, Hashed(cmd))
  BY <1>3 DEF RxAuthAck
<1> HIDE DEF cmd
<1>6. /\ toHost' = <<>> /\ ~authenticated' /\ Still /\ lastCmd \in dev.heard
      /\ ~ok => faults' # 0
  BY <1>1, <1>2, <1>5, Counted DEF Heard
<1>7. Turn'
  BY ONLY <1>2, <1>4, <1>5, <1>6, ok \in BOOLEAN, SendTurn
<1>8. lastCmd' = cmd /\ transcript' = transcript \o Hashed(cmd)
  BY <1>5 DEF Send
<1> QED BY <1>2, <1>6, <1>7, <1>8 DEF cmd

LEMMA RxUpgradeTurn ==
  ASSUME ShapeInv, Turn, RxUpgrade
  PROVE  Turn' /\ ~authenticated' /\ lastCmd' = "hello2" /\ dialect = "v2"
<1>1. Arrives("upgrade") /\ toHost' = Tail(toHost) /\ UNCHANGED authenticated
  BY DEF RxUpgrade, Taken
<1>2. /\ ~authenticated /\ toDevice = <<>> /\ Heard
      /\ Tail(toHost) = <<>> /\ dialect = "v2"
  BY <1>1, HearsReply
<1>3. PICK ok \in BOOLEAN :
        Attempt(ok) /\ Send("hello2", out, <<>>, ok, <<"hello2">>)
  BY DEF RxUpgrade
<1>4. /\ toHost' = <<>> /\ ~authenticated' /\ Still /\ "hello2" \in Spoken
      /\ ~ok => faults' # 0
  BY <1>1, <1>2, <1>3, Counted DEF Heard, Spoken, Records
<1>5. Turn'
  BY ONLY <1>2, <1>3, <1>4, ok \in BOOLEAN, SendTurn
<1>6. lastCmd' = "hello2"
  BY <1>3 DEF Send
<1> QED BY <1>2, <1>4, <1>5, <1>6

\* The ends of an exchange that has been completed.
LEMMA Distinct ==
  /\ Whole("complete") # Ack /\ Whole("complete").kind = "whole"
  /\ <<Whole("complete")>> # <<Ack>>
  /\ <<Whole("complete")>> # <<Whole("complete"), Ack>>
  /\ <<Ack>> # <<Whole("complete"), Ack>>
  /\ <<Ack>> # <<>> /\ <<Whole("complete")>> # <<>>
  /\ <<Whole("complete"), Ack>> # <<>>
<1> DEFINE w == Whole("complete")
<1>1. w.kind = "whole"
  BY DEF Whole, Packet
<1>2. w # Ack
  BY <1>1, AckKind
<1> HIDE DEF w
<1>3. /\ <<w>> # <<Ack>> /\ <<w>> # <<w, Ack>> /\ <<Ack>> # <<w, Ack>>
      /\ <<Ack>> # <<>> /\ <<w>> # <<>> /\ <<w, Ack>> # <<>>
  <2> HIDE DEF Ack
  <2>1. Len(<<w>>) = 1 /\ Len(<<w, Ack>>) = 2 /\ Len(<<Ack>>) = 1
    OBVIOUS
  <2>2. Head(<<w>>) = w /\ Head(<<Ack>>) = Ack
    OBVIOUS
  <2> QED BY <1>2, <2>1, <2>2
<1> QED BY <1>1, <1>2, <1>3 DEF w

\* What an acknowledgement lets be written when nothing is left to be sent.
LEMMA NoChunks ==
  ASSUME Still, NEW c \in ChunkOutcomes
  PROVE  c.out = out /\ c.w = <<>> /\ c.ok = TRUE
<1>1. c \in {[out |-> out, w |-> <<>>, ok |-> TRUE]}
  BY DEF Still, ChunkOutcomes
<1> QED BY <1>1

\* A GIP acknowledgement: of a record of one packet, which may stand for the
\* headset's finish; or of a part of a longer one.
LEMMA RxGipAckTurn ==
  ASSUME ShapeInv, Turn, RxGipAck
  PROVE  Turn'
<1>1. /\ Arrives("gipack") /\ toHost' = Tail(toHost)
      /\ UNCHANGED <<lastCmd, dialect, dev>>
  BY DEF RxGipAck, Taken, device
<1>2. ~authenticated /\ toDevice = <<>>
  BY <1>1, HearsAck
<1>3. PICK c \in ChunkOutcomes, ok \in BOOLEAN :
        /\ Attempt(c.ok /\ ok)
        /\ IF AwaitsFinishAck
           THEN Complete(c.out, c.w, ok)
           ELSE /\ ok
                /\ out' = c.out
                /\ toDevice' = toDevice \o c.w
                /\ UNCHANGED authenticated
  BY DEF RxGipAck
<1>f. ~c.ok \/ ~ok => faults' # 0
  <2>1. (c.ok /\ ok) \in BOOLEAN
    OBVIOUS
  <2> DEFINE both == c.ok /\ ok
  <2> HIDE DEF both
  <2>2. both \in BOOLEAN /\ Attempt(both)
    BY <1>3, <2>1 DEF both
  <2>3. ~both => faults' # 0
    BY <2>2, Counted
  <2> QED BY <2>3 DEF both
<1>4. CASE Answered
  <2>1. /\ Heard /\ lastCmd \in dev.heard /\ Still
        /\ dev.sends = SendsIn(lastCmd, dialect) /\ dev.stage = "start"
        /\ toHost' = AnswerIn(lastCmd, dialect) /\ lastCmd \in Spoken
    BY <1>1, <1>4 DEF Answered, Heard
  <2>2. c.out = out /\ c.w = <<>>
    BY <2>1, NoChunks
  <2>3. ASSUME toDevice' = <<>>, ~authenticated', Still',
               toHost' = <<>> => faults' # 0
        PROVE  Turn'
    <3>1. Answering'
      BY ONLY <1>1, <2>1, <2>3 DEF Answering, Heard
    <3> QED BY <2>3, <3>1 DEF Turn, HostTurn
  <2>4. CASE AwaitsFinishAck
    <3>1. Complete(out, <<>>, ok) /\ lastCmd = "clientFinish"
      BY <1>3, <2>2, <2>4 DEF AwaitsFinishAck
    <3>2. /\ Still'
          /\ ok => authenticated' /\ toDevice' = <<Whole("complete")>>
          /\ ~ok => ~authenticated' /\ toDevice' = <<>>
      <4>1. out.len = 0 /\ ~out.term
        BY <2>1 DEF Still
      <4> QED BY ONLY <1>2, <3>1, <4>1, ok \in BOOLEAN, CompleteTurn
    <3>3. CASE ok
      <4>1. toHost' \in {<<>>, StartOf("clientFinish")}
        BY <2>1, <3>1 DEF AnswerIn, SendsIn, Acknowledging, Requests
      <4>2. toDevice' = <<Whole("complete")>> /\ lastCmd' = "clientFinish"
        BY <1>1, <3>1, <3>2, <3>3
      <4>3. Over'
        BY ONLY <4>1, <4>2, Distinct DEF Over
      <4> QED BY <3>2, <3>3, <4>3 DEF Turn
    <3>4. CASE ~ok
      BY <1>f, <2>3, <3>2, <3>4
    <3> QED BY <3>3, <3>4
  <2>5. CASE ~AwaitsFinishAck
    <3>1. /\ out' = out /\ toDevice' = <<>> \o <<>> /\ ~authenticated'
      BY <1>2, <1>3, <2>2, <2>5
    <3>2. <<>> \o <<>> = <<>>
      OBVIOUS
    <3>3. toDevice' = <<>> /\ Still'
      BY <2>1, <3>1, <3>2 DEF Still
    <3>4. toHost' # <<>>
      <4>1. lastCmd # "clientFinish"
        BY <1>2, <2>5 DEF AwaitsFinishAck
      <4> QED BY ONLY <2>1, <4>1, NoAnswer
    <3> QED BY <2>3, <3>1, <3>3, <3>4
  <2> QED BY <2>4, <2>5
<1>5. CASE Acknowledged
  <2>1. lastCmd \in Lasting /\ lastCmd \in Names /\ toHost = <<Ack>>
    BY <1>5 DEF Acknowledged, ShapeInv, Names
  <2>2. ~AwaitsFinishAck
    BY <2>1 DEF AwaitsFinishAck, Lasting
  <2>3. toHost' = <<>>
    BY ONLY <1>1, <2>1, Single
  <2>4. /\ out' = c.out /\ toDevice' = <<>> \o c.w /\ ~authenticated'
        /\ ~c.ok => faults' # 0
    BY <1>2, <1>3, <1>f, <2>2
  <2>5. PICK len \in Nat : len = Length(lastCmd)
    BY <2>1, Lengths DEF Lasting
  <2>6. len \in {82, 274}
    BY <2>1, <2>5, Lengths DEF Lasting
  <2>7. ASSUME toDevice' = <<>>, ~c.ok PROVE Turn'
    BY ONLY <2>3, <2>4, <2>7 DEF Turn, Silent, Idle
  <2>8. CASE Arrived(58) /\ Fresh
    <3> DEFINE q == Fragments(lastCmd, 58, len)
    <3>1. /\ out.len = len /\ out.off = 58 /\ out.cmd = lastCmd
          /\ out = [cmd |-> lastCmd, total |-> len, len |-> len, off |-> 58,
                    term |-> FALSE]
      BY <2>5, <2>8 DEF Fresh
    <3>2. out.len # 0 /\ Fragments(out.cmd, out.off, out.len) = q
      BY <2>6, <3>1
    <3> HIDE DEF q
    <3>3. PICK k \in 0..Len(q) :
            /\ c.out = AfterFragments(k) /\ c.w = SubSeq(q, 1, k)
            /\ c.ok = (k = Len(q))
      <4>1. c \in {[out |-> AfterFragments(k), w |-> SubSeq(q, 1, k),
                    ok |-> k = Len(q)] : k \in 0..Len(q)}
        BY ONLY <3>2, c \in ChunkOutcomes DEF ChunkOutcomes
      <4> QED BY ONLY <4>1
    <3>4. /\ Pieces(SubSeq(q, 1, k), lastCmd, 58, len)
          /\ k # 0 => SubSeq(q, 1, k) # <<>>
          /\ k = 0 => SubSeq(q, 1, k) = <<>>
          /\ Reaches(SubSeq(q, 1, k)) <=> k = Len(q)
      <4>1. 58 \in Nat /\ 58 < len /\ 58 <= len
        BY <2>6
      <4> QED BY ONLY <2>1, <4>1, len \in Nat, k \in 0..Len(q), SomeFragments
              DEF q
    <3>5. toDevice' = SubSeq(q, 1, k)
      <4>1. q \in Seq(Packets)
        <5>1. \A at \in Nat : 58 <= at /\ at < len
                                => Piece(lastCmd, at, len) \in Packets
          BY <2>1, PieceShape
        <5> QED BY <2>1, <2>6, <5>1, FragmentsIn DEF q
      <4>2. SubSeq(q, 1, k) \in Seq(Packets)
        BY <4>1
      <4> DEFINE s == SubSeq(q, 1, k)
      <4> HIDE DEF s, Packets
      <4>3. <<>> \o s = s
        BY <4>2 DEF s
      <4> QED BY <2>4, <3>3, <4>3 DEF s
    <3>6. CASE k = 0
      <4>1. ~Reaches(<<>>)
        BY DEF Reaches
      <4>2. toDevice' = <<>> /\ k # Len(q)
        BY ONLY <3>4, <3>5, <3>6, <4>1
      <4> QED BY <2>7, <3>3, <4>2
    <3>7. CASE k # 0
      <4>1. toDevice' # <<>> /\ Pieces(toDevice', lastCmd, 58, len)
        BY ONLY <3>4, <3>5, <3>7
      <4>2. ASSUME Reaches(toDevice') PROVE Given'
        <5>1. k = Len(q)
          BY ONLY <3>4, <3>5, <4>2
        <5>2. out' = [out EXCEPT !.off = out.len, !.len = 0, !.term = TRUE]
          BY <2>4, <3>2, <3>3, <5>1 DEF AfterFragments
        <5>3. out'.cmd = lastCmd /\ out'.total = len /\ out'.len = 0 /\ out'.term
          BY ONLY <3>1, <5>2
        <5> QED BY <1>1, <2>5, <5>3 DEF Given
      <4>5. ASSUME ~Reaches(toDevice') PROVE faults' # 0
        BY ONLY <2>4, <3>3, <3>4, <3>5, <4>5
      <4>3. Arrived(58)'
        BY ONLY <1>1, <2>8 DEF Arrived
      <4>4. ChunksSent'
        <5>1. \E n \in Nat : /\ Arrived(n)'
                             /\ Pieces(toDevice', lastCmd', n, Length(lastCmd'))
          BY <1>1, <2>5, <4>1, <4>3
        <5> QED BY ONLY <1>1, <2>1, <4>1, <4>2, <4>5, <5>1
                DEF ChunksSent, Arrived
      <4> QED BY <2>3, <2>4, <4>4 DEF Turn, HeadsetTurn
    <3> QED BY <3>6, <3>7
  <2>9. CASE Arrived(len) /\ Given
    <3> DEFINE end == Packet("end", lastCmd, len, 0, FALSE)
    <3>1. /\ out.len = 0 /\ out.term /\ out.cmd = lastCmd /\ out.total = len
      BY <2>5, <2>9 DEF Given
    <3>2. PICK done \in BOOLEAN :
            /\ c.out = [out EXCEPT !.term = ~done]
            /\ c.w = (IF done THEN <<end>> ELSE <<>>)
            /\ c.ok = done
      <4>1. Packet("end", out.cmd, out.total, 0, FALSE) = end
        BY <3>1
      <4> HIDE DEF end
      <4>2. c \in {[out |-> [out EXCEPT !.term = ~ok2], ok |-> ok2,
                    w |-> IF ok2 THEN <<end>> ELSE <<>>] : ok2 \in BOOLEAN}
        BY ONLY <3>1, <4>1, c \in ChunkOutcomes DEF ChunkOutcomes
      <4> QED BY ONLY <4>2
    <3> HIDE DEF end
    <3>3. <<>> \o <<end>> = <<end>> /\ <<>> \o <<>> = <<>>
      OBVIOUS
    <3>4. CASE ~done
      <4>1. toDevice' = <<>> /\ ~c.ok
        BY <2>4, <3>2, <3>3, <3>4
      <4> QED BY <2>7, <4>1
    <3>5. CASE done
      <4>1. toDevice' = <<end>>
        BY <2>4, <3>2, <3>3, <3>5
      <4>2. out' = [out EXCEPT !.term = FALSE] /\ out \in Outs
        BY <2>4, <3>2, <3>5 DEF ShapeInv
      <4>3. out'.len = 0 /\ ~out'.term
        BY <3>1, <4>2 DEF Outs
      <4>4. EndSent'
        BY ONLY <1>1, <2>1, <2>5, <2>9, <4>1, <4>3
           DEF EndSent, Still, Arrived, end
      <4> QED BY <2>3, <2>4, <4>4 DEF Turn, HeadsetTurn
    <3> QED BY <3>4, <3>5
  <2> QED BY <1>5, <2>5, <2>8, <2>9 DEF Acknowledged
<1> QED BY <1>1, <1>4, <1>5, HearsAck

LEMMA Appended ==
  ASSUME NEW a, NEW b
  PROVE  Append(<<a>>, b) = <<a, b>>
<1> DEFINE s == Append(<<a>>, b)
           t == <<a, b>>
           S == {a, b}
<1>1. s \in Seq(S) /\ t \in Seq(S)
  OBVIOUS
<1>2. /\ Len(s) = 2 /\ s[1] = a /\ s[2] = b
      /\ Len(t) = 2 /\ t[1] = a /\ t[2] = b
  OBVIOUS
<1> HIDE DEF s, t, S
<1>3. \A i \in 1..Len(s) : s[i] = t[i]
  BY <1>2
<1>4. s = t
  BY <1>1, <1>2, <1>3, SeqEqual
<1> QED BY <1>4 DEF s, t

\* A fragment of the headset's record: its start, or one of the rest.
LEMMA RxFragmentTurn ==
  ASSUME ShapeInv, Turn, RxFragment
  PROVE  Turn'
<1> DEFINE p == Head(toHost)
           s == SendsIn(lastCmd, dialect)
<1>1. /\ toHost' = Tail(toHost) /\ toHost # <<>>
      /\ UNCHANGED <<lastCmd, dialect, dev, out, authenticated>>
  BY DEF RxFragment, Taken, device, auth, Arrives
<1>2. PICK ok \in BOOLEAN :
        /\ Attempt(ok)
        /\ p.ack \/ ok
        /\ toDevice' = IF p.ack /\ ok THEN Append(toDevice, Ack) ELSE toDevice
  BY DEF RxFragment
<1>3. in' = IF p.kind = "start"
            THEN [cmd |-> p.cmd, total |-> p.off, len |-> p.n]
            ELSE [in EXCEPT !.len = Longer(@, p)]
  BY DEF RxFragment
<1>f. ~ok => faults' # 0
  BY <1>2, Counted
<1>s. ASSUME s # "none" PROVE s \in Names
  BY <1>s, SendsWhat
<1>c. ClientLen \in Nat /\ 58 < ClientLen
  BY HandshakeAssumption
<1> HIDE DEF p, s
<1>4. CASE Arrives("start")
  <2>1. toHost' = <<>>
    BY <1>1, <1>4, HearsStart
  <2>2. CASE authenticated
    <3>1. Over
      BY <2>2 DEF Turn
    <3>2. toHost = StartOf("clientFinish")
      BY <1>1, <3>1 DEF Over
    <3>3. p = Packet("start", "clientFinish", ClientLen, GIP_PKT_MAX, TRUE)
      BY <3>2, Single DEF StartOf, p
    <3>4. p.ack
      BY ONLY <3>3 DEF Packet
    <3>5. \/ toDevice = <<>> /\ dev.sends = "none"
          \/ toDevice = <<Whole("complete")>>
      BY <1>1, <3>1 DEF Over
    <3>6. toDevice' \in {<<>>, <<Whole("complete")>>, <<Ack>>,
                         <<Whole("complete"), Ack>>}
          /\ (toDevice' \in {<<>>, <<Ack>>} => dev.sends = "none")
      <4>1. CASE ~ok
        BY <1>2, <3>5, <4>1, Distinct
      <4> DEFINE w == Whole("complete")
      <4> HIDE DEF w, Ack
      <4>2. Append(<<>>, Ack) = <<Ack>> /\ Append(<<w>>, Ack) = <<w, Ack>>
        <5>1. Append(<<>>, Ack) = <<Ack>>
          OBVIOUS
        <5> QED BY ONLY <5>1, Appended
      <4>3. CASE ok
        <5>1. toDevice' = Append(toDevice, Ack)
          BY ONLY <1>2, <3>4, <4>3
        <5>2. CASE toDevice = <<>> /\ dev.sends = "none"
          BY ONLY <4>2, <5>1, <5>2
        <5>3. CASE toDevice = <<w>>
          <6>1. toDevice' = <<w, Ack>>
            BY ONLY <4>2, <5>1, <5>3
          <6> QED BY <6>1, Distinct DEF w
        <5> QED BY <3>5, <5>2, <5>3 DEF w
      <4> QED BY <4>1, <4>3
    <3>7. Over'
      BY ONLY <1>1, <2>1, <3>1, <3>6 DEF Over
    <3> QED BY <1>1, <2>2, <3>7 DEF Turn
  <2>3. CASE ~authenticated
    <3>1. /\ toDevice = <<>> /\ Heard /\ s # "none"
          /\ p = Packet("start", s, ClientLen, 58, TRUE)
      BY <1>4, <2>3, HearsStart DEF p, s
    <3>2. p.ack /\ p.kind = "start" /\ p.cmd = s /\ p.off = ClientLen /\ p.n = 58
      BY ONLY <3>1 DEF Packet
    <3>3. CASE ok
      <4>1. toDevice' = <<Ack>>
        <5>1. toDevice' = Append(<<>>, Ack)
          BY <1>2, <3>1, <3>2, <3>3
        <5> HIDE DEF Ack
        <5>2. Append(<<>>, Ack) = <<Ack>>
          OBVIOUS
        <5> QED BY ONLY <5>1, <5>2
      <4>2. in' = [cmd |-> s, total |-> ClientLen, len |-> 58]
        BY ONLY <1>3, <3>2
      <4>3. AckSent'
        BY ONLY <1>1, <3>1, <4>1, <4>2
           DEF AckSent, Sending, Incoming, Heard, Still, s
      <4> QED BY ONLY <1>1, <2>1, <2>3, <4>3 DEF Turn, HeadsetTurn
    <3>4. CASE ~ok
      <4>1. toDevice' = <<>>
        BY <1>2, <3>1, <3>4
      <4> QED BY ONLY <1>1, <1>f, <2>1, <2>3, <3>4, <4>1
              DEF Turn, Silent, Idle
    <3> QED BY <3>3, <3>4
  <2> QED BY <2>2, <2>3
<1>5. CASE Arrives("chunk")
  <2>1. ~authenticated /\ toDevice = <<>> /\ RestComing /\ p.kind = "chunk"
    BY <1>5, HearsRest DEF Arrives, p
  <2>2. /\ Sending("rest", s) /\ s # "none" /\ s \in Names /\ Reaches(toHost)
    BY <1>s, <2>1 DEF RestComing, Sending, s
  <2>3. PICK n \in Nat : Incoming(n) /\ Pieces(toHost, s, n, ClientLen)
    BY <2>1 DEF RestComing, s
  <2>4. toHost \in Seq(HeadsetPackets)
    BY DEF ShapeInv
  <2>5. n < ClientLen /\ p = Piece(s, n, ClientLen)
    BY ONLY <1>1, <1>c, <2>2, <2>3, <2>4, FirstPiece DEF p
  <2>6. PICK k \in Nat : k = n + p.n
    BY ONLY <1>c, <2>2, <2>5, n \in Nat, PieceShape, PieceAck
  <2>7. in' = [cmd |-> s, total |-> ClientLen, len |-> k]
    <3>1. p.off = n
      BY ONLY <1>c, <2>2, <2>5, n \in Nat, PieceShape
    <3>2. Longer(n, p) = k
      <4>1. p.off + p.n = k
        BY ONLY <2>6, <3>1
      <4>2. k >= n
        BY ONLY <1>c, <2>2, <2>5, <2>6, n \in Nat, k \in Nat, PieceAck
      <4>3. Longer(n, p) = IF k > n THEN k ELSE n
        BY ONLY <4>1 DEF Longer
      <4> QED BY ONLY <4>2, <4>3, n \in Nat, k \in Nat
    <3>3. in = [cmd |-> s, total |-> ClientLen, len |-> n]
      BY <2>3 DEF Incoming, s
    <3>4. in' = [in EXCEPT !.len = Longer(in.len, p)]
      BY ONLY <1>3, <2>1
    <3> QED BY ONLY <3>2, <3>3, <3>4
  <2>8. Incoming(k)' /\ Sending("rest", s)'
    BY ONLY <1>1, <2>2, <2>7 DEF Incoming, Sending, Still, s
  <2>9. CASE ClientLen - n <= 58
    <3>1. p.ack /\ k = ClientLen
      <4>1. p.ack /\ p.n = ClientLen - n
        BY ONLY <1>c, <2>2, <2>5, <2>9, n \in Nat, PieceAck
      <4> QED BY ONLY <1>c, <2>5, <2>6, <4>1, n \in Nat, k \in Nat
    <3>2. toHost' = <<>>
      BY ONLY <1>1, <1>c, <2>2, <2>3, <2>4, <2>9, n \in Nat, LastPiece
    <3>3. CASE ok
      <4>1. toDevice' = <<Ack>>
        <5>1. toDevice' = Append(<<>>, Ack)
          BY <1>2, <2>1, <3>1, <3>3
        <5> HIDE DEF Ack
        <5>2. Append(<<>>, Ack) = <<Ack>>
          OBVIOUS
        <5> QED BY ONLY <5>1, <5>2
      <4>2. AckSent'
        BY ONLY <1>1, <2>8, <3>1, <4>1 DEF AckSent, s
      <4> QED BY ONLY <1>1, <2>1, <3>2, <4>2 DEF Turn, HeadsetTurn
    <3>4. CASE ~ok
      <4>1. toDevice' = <<>>
        BY <1>2, <2>1, <3>4
      <4> QED BY ONLY <1>1, <1>f, <2>1, <3>2, <3>4, <4>1
              DEF Turn, Silent, Idle
    <3> QED BY <3>3, <3>4
  <2>10. CASE ClientLen - n > 58
    <3>1. ~p.ack /\ k = n + 58
      <4>1. ~p.ack /\ p.n = 58
        BY ONLY <1>c, <2>2, <2>5, <2>10, n \in Nat, PieceAck
      <4> QED BY ONLY <2>6, <4>1, n \in Nat, k \in Nat
    <3>2. Pieces(Tail(toHost), s, n + 58, ClientLen) /\ Reaches(Tail(toHost))
      BY ONLY <1>1, <1>c, <2>2, <2>3, <2>4, <2>10, n \in Nat, OtherPieces
    <3>3. toDevice' = <<>>
      BY <1>2, <2>1, <3>1
    <3>4. toHost' # <<>> /\ Reaches(toHost') /\ Pieces(toHost', s, k, ClientLen)
      <4>1. Tail(toHost) # <<>>
        BY ONLY <3>2, NotEmpty
      <4> QED BY ONLY <1>1, <3>1, <3>2, <4>1
    <3>5. RestComing'
      BY ONLY <1>1, <2>8, <3>4, k \in Nat DEF RestComing, s
    <3> QED BY ONLY <1>1, <2>1, <3>3, <3>5 DEF Turn, HostTurn
  <2> QED BY <1>c, <2>9, <2>10
<1> QED BY <1>4, <1>5 DEF RxFragment

\* The end of the headset's record: the host's next one, or the message that
\* completes the exchange.
LEMMA RxEndTurn ==
  ASSUME ShapeInv, Turn, RxEnd
  PROVE  /\ Turn' /\ ~authenticated
         /\ SendsIn(lastCmd, dialect) # "none" /\ lastCmd \in dev.heard
         /\ \E ok \in BOOLEAN :
              LET s == SendsIn(lastCmd, dialect)
              IN  \/ /\ s \in DOMAIN AfterRecord
                     /\ lastCmd' = AfterRecord[s]
                     /\ transcript'
                          = transcript \o (<<s>> \o Hashed(AfterRecord[s]))
                  \/ /\ s = "certificate" /\ lastCmd' = "secret"
                     /\ transcript' = transcript \o SecretAndCertificate(ok)
                     /\ ~ok => Idle'
                  \/ /\ s \in {"clientFinish", "clientFinish2"}
                     /\ lastCmd' = lastCmd /\ lastCmd = s
                     /\ transcript' = Append(transcript, s)
<1> DEFINE s == SendsIn(lastCmd, dialect)
<1>1. /\ Arrives("end") /\ toHost' = Tail(toHost)
      /\ UNCHANGED <<dialect, dev>>
  BY DEF RxEnd, Taken, device
<1>2. ~authenticated /\ toDevice = <<>> /\ EndComing
  BY <1>1, HearsRest
<1>3. /\ lastCmd \in dev.heard /\ Still /\ s # "none"
      /\ in = [cmd |-> s, total |-> ClientLen, len |-> ClientLen]
      /\ toHost = <<Packet("end", s, ClientLen, 0, FALSE)>>
  BY <1>2 DEF EndComing, Sending, Incoming
<1> HIDE DEF s
<1>4. Head(toHost) = Packet("end", s, ClientLen, 0, FALSE) /\ toHost' = <<>>
  BY ONLY <1>1, <1>3, Single
<1>5. Head(toHost).off = ClientLen
  BY ONLY <1>4 DEF Packet
<1>6. /\ in.total # 0 /\ Head(toHost).off = in.total /\ in.len = in.total
      /\ in.cmd = s
  <2>1. in.total = ClientLen /\ in.len = ClientLen /\ in.cmd = s
    BY ONLY <1>3
  <2>2. ClientLen # 0
    BY HandshakeAssumption
  <2> QED BY ONLY <1>5, <2>1, <2>2
<1>7. PICK ok \in BOOLEAN :
        /\ Attempt(ok)
        /\ \/ /\ s \in DOMAIN AfterRecord
              /\ Send(AfterRecord[s], out, <<>>, ok,
                      <<s>> \o Hashed(AfterRecord[s]))
              /\ UNCHANGED authenticated
           \/ /\ s = "certificate"
              /\ Send("secret", out, <<>>, ok, SecretAndCertificate(ok))
              /\ UNCHANGED authenticated
           \/ /\ s \in {"clientFinish", "clientFinish2"}
              /\ transcript' = Append(transcript, s)
              /\ Complete(out, <<>>, ok)
              /\ UNCHANGED lastCmd
  BY <1>6 DEF RxEnd
<1>f. ~ok => faults' # 0
  BY <1>7, Counted
<1>8. ASSUME NEW cmd \in Spoken, NEW h, Send(cmd, out, <<>>, ok, h),
             UNCHANGED authenticated
      PROVE  /\ Turn' /\ (~ok => Idle')
             /\ lastCmd' = cmd /\ transcript' = transcript \o h
  <2>1. Turn' /\ (~ok => Idle')
    <3>1. ~authenticated'
      BY <1>2, <1>8
    <3> QED BY ONLY <1>2, <1>3, <1>4, <1>8, <1>f, <3>1, ok \in BOOLEAN,
                    SendTurn
  <2>2. lastCmd' = cmd /\ transcript' = transcript \o h
    BY <1>8 DEF Send
  <2> QED BY <2>1, <2>2
<1>9. CASE s \in DOMAIN AfterRecord
           /\ Send(AfterRecord[s], out, <<>>, ok,
                   <<s>> \o Hashed(AfterRecord[s]))
           /\ UNCHANGED authenticated
  <2> DEFINE cmd == AfterRecord[s]
             h == <<s>> \o Hashed(AfterRecord[s])
  <2>1. cmd \in Spoken
    BY <1>9 DEF AfterRecord, Spoken, Records, Requests
  <2> HIDE DEF cmd, h
  <2>2. Send(cmd, out, <<>>, ok, h)
    BY <1>9 DEF cmd, h
  <2>3. Turn' /\ lastCmd' = cmd /\ transcript' = transcript \o h
    BY ONLY <1>8, <1>9, <2>1, <2>2
  <2> QED BY ONLY <1>2, <1>3, <1>9, <2>3, ok \in BOOLEAN DEF cmd, h, s
<1>10. CASE s = "certificate"
            /\ Send("secret", out, <<>>, ok, SecretAndCertificate(ok))
            /\ UNCHANGED authenticated
  <2>1. "secret" \in Spoken
    BY DEF Spoken, Records
  <2>2. /\ Turn' /\ (~ok => Idle') /\ lastCmd' = "secret"
        /\ transcript' = transcript \o SecretAndCertificate(ok)
    BY ONLY <1>8, <1>10, <2>1
  <2> QED BY ONLY <1>2, <1>3, <1>10, <2>2, ok \in BOOLEAN DEF s
<1>11. CASE s \in {"clientFinish", "clientFinish2"}
            /\ transcript' = Append(transcript, s)
            /\ Complete(out, <<>>, ok)
            /\ UNCHANGED lastCmd
  <2>1. lastCmd = s
    BY <1>3, <1>11, SendsWhat DEF s
  <2>2. /\ ok => authenticated' /\ toDevice' = <<Whole("complete")>>
        /\ ~ok => ~authenticated' /\ toDevice' = <<>>
    <3>1. out.len = 0 /\ ~out.term
      BY <1>3 DEF Still
    <3> QED BY ONLY <1>2, <1>11, <3>1, ok \in BOOLEAN, CompleteTurn
  <2>3. CASE ok
    <3>1. lastCmd' \in {"clientFinish", "clientFinish2"}
      BY <1>11, <2>1
    <3>2. Over'
      BY ONLY <1>4, <2>2, <2>3, <3>1, Distinct DEF Over
    <3>3. Turn'
      BY <2>2, <2>3, <3>2 DEF Turn
    <3> QED BY ONLY <1>2, <1>3, <1>11, <2>1, <3>3, ok \in BOOLEAN DEF s
  <2>4. CASE ~ok
    <3>1. Turn'
      BY <1>4, <1>f, <2>2, <2>4 DEF Turn, Silent, Idle
    <3> QED BY ONLY <1>2, <1>3, <1>11, <2>1, <3>1, ok \in BOOLEAN DEF s
  <2> QED BY <2>3, <2>4
<1> QED BY <1>7, <1>9, <1>10, <1>11

----------------------------------------------------------------------------
(* Whose turn it is after a step of the headset.                           *)

\* What the headset has heard stays heard, until a first hello.
HearsMore ==
  /\ ~dev.torn => ~dev'.torn
  /\ lastCmd # "hello" => dev.heard \subseteq dev'.heard

\* A whole record or request is heard.
LEMMA HearTurn ==
  ASSUME ShapeInv, NEW cmd \in Names, dev' = Hear(cmd, dev), UNCHANGED dialect
  PROVE  /\ cmd \in dev'.heard
         /\ dev'.sends = SendsIn(cmd, dialect) /\ dev'.stage = "start"
         /\ ~dev.torn => ~dev'.torn
         /\ cmd # "hello" => dev.heard \subseteq dev'.heard
<1> DEFINE d == IF cmd = "hello" THEN Quiet ELSE dev
<1>1. d \in Devs
  BY EmptyShapes DEF ShapeInv
<1>2. d.torn => dev.torn
  BY DEF Quiet
<1>3. cmd # "hello" => d = dev
  OBVIOUS
<1>4. dev' = [d EXCEPT !.in = NoRecord, !.heard = @ \cup {cmd},
                       !.sends = SendsIn(cmd, dialect), !.stage = "start"]
  BY SendsAndAnswer DEF Hear
<1> HIDE DEF d
<1>5. /\ dev'.heard = d.heard \cup {cmd} /\ dev'.torn = d.torn
      /\ dev'.sends = SendsIn(cmd, dialect) /\ dev'.stage = "start"
  BY <1>1, <1>4 DEF Devs
<1> QED BY <1>2, <1>3, <1>5

\* Nothing was on its way from the headset.
LEMMA OnlySaid ==
  ASSUME NEW S, NEW s \in Seq(S)
  PROVE  <<>> \o s = s
OBVIOUS

LEMMA AnswerShapes ==
  ASSUME NEW cmd \in Names, NEW d
  PROVE  AnswerIn(cmd, d) \in Seq(Packets)
<1>1. /\ Packet("upgrade", "none", 0, 0, FALSE) \in Packets
      /\ Packet("authack", "none", 0, 0, FALSE) \in Packets
  BY DEF Packet, Packets, Kinds, Names, GIP_PKT_MAX
<1>2. ASSUME SendsIn(cmd, d) # "none"
      PROVE  Packet("start", SendsIn(cmd, d), ClientLen, 58, TRUE) \in Packets
  <2>1. SendsIn(cmd, d) \in Names
    BY <1>2, SendsWhat
  <2> QED BY <2>1, HandshakeAssumption DEF Packet, Packets, Kinds, GIP_PKT_MAX
<1>3. \A p \in Packets : <<p>> \in Seq(Packets)
  OBVIOUS
<1>4. <<>> \in Seq(Packets)
  OBVIOUS
<1> QED BY ONLY <1>1, <1>2, <1>3, <1>4, cmd \in Names, Answers

LEMMA AckIn == Ack \in Packets
BY DEF Ack, Packet, Packets, Kinds, Names, GIP_PKT_MAX

\* A record of one packet, or a request, is acknowledged and answered.
LEMMA DeviceRxWhole ==
  ASSUME ShapeInv, ~authenticated, toHost = <<>>, WholeSent, DeviceRx
  PROVE  Turn' /\ HearsMore
<1> DEFINE p == Whole(lastCmd)
           a == AnswerIn(lastCmd, dialect)
<1>1. /\ Head(toDevice) = p /\ Tail(toDevice) = <<>>
      /\ Still /\ lastCmd \in Spoken \ Lasting
  BY Single DEF WholeSent
<1>2. /\ p.kind = "whole" /\ p.cmd = lastCmd /\ p.ack = (lastCmd # "complete")
  BY DEF Whole, Packet
<1>3. lastCmd \in Names
  BY DEF ShapeInv, Names
<1> HIDE DEF p, a
<1>4. /\ toDevice' = <<>>
      /\ dev' = Hear(lastCmd, dev)
      /\ toHost' = <<>> \o (AckOf(p) \o Answer(lastCmd))
      /\ UNCHANGED <<lastCmd, dialect, out, authenticated>>
  BY <1>1, <1>2 DEF DeviceRx, Says, auth
<1>5. Answer(lastCmd) = a
  BY SendsAndAnswer DEF a
<1>6. Heard' /\ HearsMore
  <2>1. /\ lastCmd \in dev'.heard
        /\ dev'.sends = SendsIn(lastCmd, dialect) /\ dev'.stage = "start"
        /\ ~dev.torn => ~dev'.torn
        /\ lastCmd # "hello" => dev.heard \subseteq dev'.heard
    BY <1>3, <1>4, HearTurn
  <2> QED BY ONLY <1>1, <1>4, <2>1 DEF Heard, Still, HearsMore
<1>7. a \in Seq(Packets)
  BY <1>3, AnswerShapes DEF a
<1>8. p.ack
  BY <1>1, <1>2 DEF Spoken, Requests
<1>9. toHost' = <<>> \o (<<Ack>> \o a)
  BY ONLY <1>4, <1>5, <1>8 DEF AckOf
<1>10. toHost' # <<>> /\ Head(toHost') = Ack /\ Tail(toHost') = a
  BY ONLY <1>7, <1>9, AckIn, Joined
<1>11. Answered'
  BY ONLY <1>1, <1>4, <1>6, <1>10 DEF Answered, a
<1> QED BY <1>4, <1>6, <1>11 DEF Turn, HostTurn

\* The start of a longer one.
LEMMA DeviceRxStart ==
  ASSUME ShapeInv, ~authenticated, toHost = <<>>, StartSent, DeviceRx
  PROVE  Turn' /\ HearsMore
<1> DEFINE len == Length(lastCmd)
           p == Packet("start", lastCmd, len, 58, TRUE)
<1>1. /\ Head(toDevice) = p /\ Tail(toDevice) = <<>>
      /\ Fresh /\ lastCmd \in Lasting
  BY Single DEF StartSent
<1>2. p.kind = "start" /\ p.cmd = lastCmd /\ p.off = len /\ p.n = 58 /\ p.ack
  BY DEF Packet
<1> HIDE DEF p, len
<1>3. /\ toDevice' = <<>>
      /\ dev' = [dev EXCEPT !.in = [cmd |-> lastCmd, total |-> len, len |-> 58]]
      /\ toHost' = <<>> \o AckOf(p)
      /\ UNCHANGED <<lastCmd, dialect, out, authenticated>>
  BY <1>1, <1>2 DEF DeviceRx, Says, auth
<1>4. toHost' = <<Ack>>
  <2>1. toHost' = <<>> \o <<Ack>>
    BY ONLY <1>2, <1>3 DEF AckOf
  <2> HIDE DEF Ack
  <2>2. <<>> \o <<Ack>> = <<Ack>>
    OBVIOUS
  <2> QED BY ONLY <2>1, <2>2
<1>5. /\ dev'.in = [cmd |-> lastCmd, total |-> len, len |-> 58]
      /\ dev'.torn = dev.torn /\ dev'.heard = dev.heard
  BY ONLY <1>3, ShapeInv DEF ShapeInv, Devs
<1>6. Arrived(58)' /\ Fresh'
  BY ONLY <1>1, <1>3, <1>5 DEF Arrived, Fresh, len
<1>7. Acknowledged'
  BY ONLY <1>1, <1>3, <1>4, <1>6 DEF Acknowledged
<1>8. HearsMore
  BY ONLY <1>5 DEF HearsMore
<1> QED BY <1>3, <1>7, <1>8 DEF Turn, HostTurn

\* Its end: it is heard.
LEMMA DeviceRxEnd ==
  ASSUME ShapeInv, ~authenticated, toHost = <<>>, EndSent, DeviceRx
  PROVE  Turn' /\ HearsMore
<1> DEFINE len == Length(lastCmd)
           p == Packet("end", lastCmd, len, 0, FALSE)
           a == AnswerIn(lastCmd, dialect)
<1>1. /\ Head(toDevice) = p /\ Tail(toDevice) = <<>>
      /\ Still /\ lastCmd \in Lasting
      /\ dev.in = [cmd |-> lastCmd, total |-> len, len |-> len]
  BY Single DEF EndSent, Arrived
<1>2. p.kind = "end" /\ p.off = len
  BY DEF Packet
<1>3. lastCmd \in Names
  BY DEF ShapeInv, Names
<1>4. len # 0
  BY <1>1, <1>3, Lengths DEF Lasting
<1> HIDE DEF p, len, a
<1>5. /\ dev.in.total # 0 /\ dev.in.len = p.off /\ p.off = dev.in.total
      /\ dev.in.cmd = lastCmd
  BY ONLY <1>1, <1>2, <1>4
<1>6. /\ toDevice' = <<>>
      /\ dev' = Hear(lastCmd, dev)
      /\ toHost' = <<>> \o Answer(lastCmd)
      /\ UNCHANGED <<lastCmd, dialect, out, authenticated>>
  BY <1>1, <1>2, <1>5 DEF DeviceRx, Says, auth
<1>7. Heard' /\ HearsMore
  <2>1. /\ lastCmd \in dev'.heard
        /\ dev'.sends = SendsIn(lastCmd, dialect) /\ dev'.stage = "start"
        /\ ~dev.torn => ~dev'.torn
        /\ lastCmd # "hello" => dev.heard \subseteq dev'.heard
    BY <1>3, <1>6, HearTurn
  <2> QED BY ONLY <1>1, <1>6, <2>1 DEF Heard, Still, HearsMore
<1>8. toHost' = a
  <2>1. a \in Seq(Packets) /\ Answer(lastCmd) = a
    BY <1>3, AnswerShapes, SendsAndAnswer DEF a
  <2> QED BY ONLY <1>6, <2>1, OnlySaid
<1>9. Answering'
  <2>1. lastCmd \in Acknowledging
    BY <1>1 DEF Lasting, Acknowledging
  <2>2. a # <<>>
    <3>1. \A x : <<x>> # <<>>
      OBVIOUS
    <3> QED BY ONLY <1>3, <2>1, <3>1, Answers, Zenon DEF a
  <2> QED BY ONLY <1>6, <1>7, <1>8, <2>2 DEF Answering, a
<1> QED BY <1>6, <1>7, <1>9 DEF Turn, HostTurn

\* A fragment of it: acknowledged if it is the last one, and never beyond what
\* has arrived.
LEMMA DeviceRxChunk ==
  ASSUME ShapeInv, ~authenticated, toHost = <<>>, ChunksSent, DeviceRx
  PROVE  Turn' /\ HearsMore
<1> DEFINE p == Head(toDevice)
<1>1. lastCmd \in Names /\ lastCmd \in Lasting /\ toDevice # <<>>
      /\ toDevice \in Seq(HostPackets)
  BY DEF ShapeInv, Names, ChunksSent
<1>2. PICK len \in Nat : len = Length(lastCmd)
  BY <1>1, Lengths DEF Lasting
<1>3. PICK n \in Nat : Arrived(n) /\ Pieces(toDevice, lastCmd, n, len)
  BY <1>2 DEF ChunksSent
<1>4. n < len /\ p = Piece(lastCmd, n, len)
  BY ONLY <1>1, <1>3, len \in Nat, FirstPiece
<1>5. p.kind = "chunk" /\ p.off = n
  BY ONLY <1>1, <1>4, n \in Nat, len \in Nat, PieceShape
<1> HIDE DEF p
<1>6. PICK k \in Nat : k = n + p.n
  BY ONLY <1>4, n \in Nat, len \in Nat, PieceAck
<1>7. dev.in = [cmd |-> lastCmd, total |-> len, len |-> n] /\ dev \in Devs
  BY <1>2, <1>3 DEF Arrived, ShapeInv
<1>8. /\ toDevice' = Tail(toDevice)
      /\ dev' = [dev EXCEPT !.in.len = Longer(@, p),
                            !.torn = @ \/ p.off > dev.in.len]
      /\ toHost' = <<>> \o AckOf(p)
      /\ UNCHANGED <<lastCmd, dialect, out, authenticated>>
  BY <1>1, <1>5 DEF DeviceRx, Says, auth, p
<1>9. Longer(n, p) = k
  <2>1. p.off + p.n = k
    BY ONLY <1>5, <1>6
  <2>2. k >= n
    BY ONLY <1>4, <1>6, n \in Nat, k \in Nat, len \in Nat, PieceAck
  <2>3. Longer(n, p) = IF k > n THEN k ELSE n
    BY ONLY <2>1 DEF Longer
  <2> QED BY ONLY <2>2, <2>3, n \in Nat, k \in Nat
<1>10. dev'.in = [cmd |-> lastCmd, total |-> len, len |-> k]
       /\ dev'.heard = dev.heard
  <2>1. dev'.in = [dev.in EXCEPT !.len = Longer(dev.in.len, p)]
        /\ dev'.heard = dev.heard
    BY ONLY <1>7, <1>8 DEF Devs
  <2>2. dev.in.len = n
    BY ONLY <1>7
  <2> QED BY ONLY <1>7, <1>9, <2>1, <2>2
<1>11. ~dev.torn => ~dev'.torn
  <2>1. dev'.torn = (dev.torn \/ p.off > dev.in.len)
    BY ONLY <1>7, <1>8 DEF Devs
  <2>2. dev.in.len = n
    BY ONLY <1>7
  <2>3. ~(p.off > dev.in.len)
    BY ONLY <1>5, <2>2, n \in Nat
  <2> QED BY ONLY <2>1, <2>3
<1>12. HearsMore
  BY ONLY <1>10, <1>11 DEF HearsMore
<1>13. Arrived(k)'
  BY ONLY <1>2, <1>8, <1>10 DEF Arrived
<1>14. CASE len - n <= 58
  <2>1. p.ack /\ k = len
    <3>1. p.ack /\ p.n = len - n
      BY ONLY <1>4, <1>14, n \in Nat, len \in Nat, PieceAck
    <3> QED BY ONLY <1>4, <1>6, <3>1, n \in Nat, k \in Nat, len \in Nat
  <2>2. Len(toDevice) = 1 /\ toDevice' = <<>>
    BY ONLY <1>1, <1>3, <1>8, <1>14, n \in Nat, len \in Nat, LastPiece
  <2>3. Reaches(toDevice)
    <3>1. toDevice[1] = p
      BY ONLY <1>1 DEF p
    <3> QED BY ONLY <2>1, <2>2, <3>1 DEF Reaches
  <2>4. Given'
    <3>1. Given
      BY <2>3 DEF ChunksSent
    <3> QED BY ONLY <1>8, <3>1 DEF Given
  <2>5. toHost' = <<Ack>>
    <3>1. toHost' = <<>> \o <<Ack>>
      BY ONLY <1>8, <2>1 DEF AckOf
    <3> HIDE DEF Ack
    <3>2. <<>> \o <<Ack>> = <<Ack>>
      OBVIOUS
    <3> QED BY ONLY <3>1, <3>2
  <2>6. Acknowledged'
    <3>1. k = Length(lastCmd)'
      BY ONLY <1>2, <1>8, <2>1
    <3> QED BY ONLY <1>1, <1>8, <1>13, <2>4, <2>5, <3>1
            DEF Acknowledged, Arrived
  <2> QED BY <1>8, <1>12, <2>2, <2>6 DEF Turn, HostTurn
<1>15. CASE len - n > 58
  <2>1. ~p.ack /\ k = n + 58
    <3>1. ~p.ack /\ p.n = 58
      BY ONLY <1>4, <1>15, n \in Nat, len \in Nat, PieceAck
    <3> QED BY ONLY <1>6, <3>1, n \in Nat, k \in Nat
  <2>2. /\ Pieces(Tail(toDevice), lastCmd, n + 58, len)
        /\ Reaches(toDevice) <=> Reaches(Tail(toDevice))
    BY ONLY <1>1, <1>3, <1>15, n \in Nat, len \in Nat, OtherPieces
  <2>3. toHost' = <<>>
    <3>1. toHost' = <<>> \o <<>>
      BY ONLY <1>8, <2>1 DEF AckOf
    <3>2. <<>> \o <<>> = <<>>
      OBVIOUS
    <3> QED BY ONLY <3>1, <3>2
  <2>6. ASSUME ~Reaches(toDevice') PROVE faults' # 0
    <3>1. faults # 0
      BY <1>8, <2>2, <2>6 DEF ChunksSent
    <3> QED BY <3>1 DEF DeviceRx
  <2>4. CASE toDevice' = <<>>
    <3>1. ~Reaches(toDevice')
      BY <2>4 DEF Reaches
    <3> QED BY <1>8, <1>12, <2>3, <2>4, <2>6, <3>1 DEF Turn, Silent, Idle
  <2>5. CASE toDevice' # <<>>
    <3>1. Pieces(toDevice', lastCmd', k, Length(lastCmd)')
      BY ONLY <1>2, <1>8, <2>1, <2>2
    <3>2. ASSUME Reaches(toDevice') PROVE Given'
      <4>1. Given
        BY <1>8, <2>2, <3>2 DEF ChunksSent
      <4> QED BY ONLY <1>8, <4>1 DEF Given
    <3>3. \E m \in Nat : /\ Arrived(m)'
                         /\ Pieces(toDevice', lastCmd', m, Length(lastCmd)')
      BY ONLY <1>13, <3>1, k \in Nat
    <3>4. ChunksSent'
      BY ONLY <1>1, <1>8, <2>5, <2>6, <3>2, <3>3
         DEF ChunksSent, Arrived
    <3> QED BY <1>8, <1>12, <2>3, <3>4 DEF Turn, HeadsetTurn
  <2> QED BY <2>4, <2>5
<1> QED BY <1>14, <1>15

\* The host's acknowledgement: the rest of the headset's record follows, and
\* then its end.
LEMMA DeviceRxAck ==
  ASSUME ShapeInv, ~authenticated, toHost = <<>>, AckSent, DeviceRx
  PROVE  Turn' /\ HearsMore
<1> DEFINE s == SendsIn(lastCmd, dialect)
           rest == Fragments(s, 58, ClientLen)
           end == <<Packet("end", s, ClientLen, 0, FALSE)>>
<1>1. /\ Head(toDevice) = Ack /\ Tail(toDevice) = <<>> /\ Ack.kind = "gipack"
      /\ dev.sends = s /\ s # "none" /\ Still /\ lastCmd \in dev.heard
      /\ dev \in Devs
  BY Single, AckKind DEF AckSent, Sending, ShapeInv
<1>2. s \in Names /\ ClientLen \in Nat /\ 58 < ClientLen
  BY <1>1, HandshakeAssumption, SendsWhat
<1>3. /\ toDevice' = <<>>
      /\ dev' = IF dev.stage = "start" THEN [dev EXCEPT !.stage = "rest"]
                ELSE [dev EXCEPT !.sends = "none"]
      /\ toHost' = <<>> \o (IF dev.stage = "start" THEN rest ELSE end)
      /\ UNCHANGED <<lastCmd, dialect, out, authenticated, in>>
  BY <1>1 DEF DeviceRx, Says, auth, GIP_PKT_MAX
<1>4. dev'.torn = dev.torn /\ dev'.heard = dev.heard
  BY ONLY <1>1, <1>3 DEF Devs
<1>5. HearsMore
  BY ONLY <1>4 DEF HearsMore
<1> HIDE DEF s, rest, end
<1>6. CASE dev.stage = "start"
  <2>1. dev'.stage = "rest" /\ dev'.sends = s
    BY ONLY <1>1, <1>3, <1>6 DEF Devs
  <2>2. Sending("rest", s)'
    BY ONLY <1>1, <1>3, <1>4, <2>1 DEF Sending, Still, s
  <2>3. rest \in Seq(HeadsetPackets)
    <3>1. 58 \in Nat /\ 58 <= ClientLen
      BY <1>2
    <3> QED BY <1>2, <3>1, FragmentShapes DEF rest
  <2>4. Pieces(rest, s, 58, ClientLen) /\ Reaches(rest)
    <3>1. 58 \in Nat /\ 58 <= ClientLen
      BY <1>2
    <3>2. 0 \in 0..Len(rest)
      BY <2>3
    <3> QED BY ONLY <1>2, <3>1, <3>2, SomeFragments DEF rest
  <2>5. toHost' = rest /\ rest # <<>>
    <3>1. toHost' = <<>> \o rest
      BY ONLY <1>3, <1>6
    <3> QED BY ONLY <2>3, <2>4, <3>1, OnlySaid, NotEmpty
  <2>6. Incoming(58)'
    <3>1. Incoming(58)
      BY <1>6 DEF AckSent, Sending
    <3> QED BY ONLY <1>3, <3>1 DEF Incoming
  <2>7. RestComing'
    <3>1. \E n \in Nat : Incoming(n)' /\ Pieces(toHost', s', n, ClientLen)
      <4>1. s' = s
        BY ONLY <1>3 DEF s
      <4> QED BY ONLY <2>4, <2>5, <2>6, <4>1
    <3> QED BY ONLY <2>2, <2>4, <2>5, <3>1 DEF RestComing, s
  <2> QED BY <1>3, <1>5, <2>7 DEF Turn, HostTurn
<1>7. CASE dev.stage # "start"
  <2>1. dev.stage = "rest" /\ Incoming(ClientLen)
    BY <1>7 DEF AckSent, Sending
  <2>2. dev'.stage = "rest" /\ dev'.sends = "none"
    BY ONLY <1>1, <1>3, <1>7, <2>1 DEF Devs
  <2>3. Sending("rest", "none")' /\ Incoming(ClientLen)'
    BY ONLY <1>1, <1>3, <1>4, <2>1, <2>2 DEF Sending, Still, Incoming, s
  <2>4. toHost' = end
    <3>1. toHost' = <<>> \o end
      BY ONLY <1>3, <1>7
    <3> DEFINE p == Packet("end", s, ClientLen, 0, FALSE)
    <3> HIDE DEF p
    <3>2. <<>> \o <<p>> = <<p>>
      OBVIOUS
    <3> QED BY ONLY <3>1, <3>2 DEF end, p
  <2>5. EndComing'
    BY ONLY <1>3, <2>3, <2>4 DEF EndComing, end, s
  <2> QED BY <1>3, <1>5, <2>5 DEF Turn, HostTurn
<1> QED BY <1>6, <1>7

\* After the exchange it hears that it is complete, and may get one more
\* acknowledgement.
LEMMA DeviceRxOver ==
  ASSUME ShapeInv, authenticated, Over, toDevice # <<>>, DeviceRx
  PROVE  Turn' /\ HearsMore
<1> DEFINE w == Whole("complete")
<1>0. /\ toDevice' = Tail(toDevice)
      /\ UNCHANGED <<lastCmd, dialect, authenticated>>
  BY DEF DeviceRx, auth
<1>1. CASE toDevice = <<Ack>>
  <2>1. Head(toDevice) = Ack /\ toDevice' = <<>> /\ Ack.kind = "gipack"
        /\ dev.sends = "none"
    BY <1>0, <1>1, Single, AckKind DEF Over
  <2>2. UNCHANGED <<dev, toHost>>
    BY <2>1 DEF DeviceRx
  <2>3. Over'
    BY ONLY <1>0, <2>1, <2>2, Over, Distinct DEF Over
  <2>4. HearsMore
    BY ONLY <2>2 DEF HearsMore
  <2> QED BY <1>0, <2>3, <2>4 DEF Turn
<1>2. CASE toDevice = <<w>> \/ toDevice = <<w, Ack>>
  <2>1. w.kind = "whole" /\ w.cmd = "complete" /\ w.ack = FALSE
    BY DEF Whole, Packet
  <2> HIDE DEF w
  <2>2. /\ Head(toDevice) = w
        /\ \/ toDevice = <<w>> /\ toDevice' = <<>>
           \/ toDevice = <<w, Ack>> /\ toDevice' = <<Ack>>
    <3> HIDE DEF Ack
    <3>1. /\ Head(<<w>>) = w /\ Tail(<<w>>) = <<>>
          /\ Head(<<w, Ack>>) = w /\ Tail(<<w, Ack>>) = <<Ack>>
      OBVIOUS
    <3> QED BY ONLY <1>0, <1>2, <3>1
  <2>3. /\ dev' = Hear("complete", dev)
        /\ toHost' = toHost \o (AckOf(w) \o Answer("complete"))
    BY <2>1, <2>2 DEF DeviceRx, Says
  <2>4. "complete" \in Names
    BY DEF Names, Records
  <2>5. /\ SendsIn("complete", dialect) = "none"
        /\ Answer("complete") = <<>>
    BY SendsAndAnswer DEF SendsIn, AnswerIn, Acknowledging, Requests
  <2>6. /\ dev'.sends = "none"
        /\ ~dev.torn => ~dev'.torn
        /\ dev.heard \subseteq dev'.heard
    BY ONLY <1>0, <2>3, <2>4, <2>5, ShapeInv, HearTurn
  <2>7. toHost' = toHost
    <3>1. AckOf(w) = <<>>
      BY <2>1 DEF AckOf
    <3>2. toHost' = toHost \o (<<>> \o <<>>)
      BY ONLY <2>3, <2>5, <3>1
    <3>3. toHost \in Seq(HeadsetPackets)
      BY DEF ShapeInv
    <3>4. <<>> \o <<>> = <<>>
      OBVIOUS
    <3>5. toHost \o <<>> = toHost
      <4> HIDE DEF HeadsetPackets
      <4> QED BY <3>3
    <3> QED BY ONLY <3>2, <3>4, <3>5
  <2>8. toHost = <<>> \/ toDevice = <<w>>
    BY <2>2, Distinct DEF Over, w
  <2>9. Over'
    BY ONLY <1>0, <2>2, <2>6, <2>7, <2>8, Over, Distinct DEF Over, w
  <2>10. HearsMore
    BY ONLY <2>6 DEF HearsMore
  <2> QED BY <1>0, <2>9, <2>10 DEF Turn
<1> QED BY <1>1, <1>2 DEF Over

LEMMA DeviceRxTurn ==
  ASSUME ShapeInv, Turn, DeviceRx
  PROVE  Turn' /\ HearsMore
<1>1. toDevice # <<>>
  BY DEF DeviceRx
<1>2. \/ authenticated /\ Over
      \/ ~authenticated /\ toHost = <<>> /\ HeadsetTurn
  BY <1>1 DEF Turn, Silent, Idle
<1> QED BY <1>1, <1>2, DeviceRxOver, DeviceRxWhole, DeviceRxStart,
           DeviceRxChunk, DeviceRxEnd, DeviceRxAck DEF HeadsetTurn

----------------------------------------------------------------------------
(* The conversation goes on in this order.                                 *)

Streams == phase = "streaming" => authenticated

\* The headset has the finish of the host that the command asks after.
FinishHeard ==
  /\ lastCmd = "clientFinish" => "finish" \in dev.heard
  /\ lastCmd = "clientFinish2" => "finish2" \in dev.heard

\* What has been hashed of an attempt with a headset of the first version.
Begins(t) ==
  /\ Len(t) >= 4
  /\ t[1] = "hello" /\ t[2] = "clientHello"
  /\ t[3] = "secret" /\ t[4] = "certificate"

Commands == {"none", "hello", "clientHello", "certificate", "secret",
             "finish", "clientFinish"}

Transcribed ==
  dialect # "v2" =>
    /\ lastCmd \in Commands
    /\ lastCmd \in {"hello", "clientHello"} => transcript = <<"hello">>
    /\ lastCmd = "certificate" => transcript = <<"hello", "clientHello">>
    /\ lastCmd = "secret" /\ ~Idle => Begins(transcript)
    /\ lastCmd \in {"finish", "clientFinish"} => Begins(transcript)

Conversation ==
  Turn /\ Opened /\ Streams /\ FinishHeard /\ Transcribed /\ ~dev.torn

LEMMA BeginsLonger ==
  ASSUME NEW t \in Seq(Names), Begins(t), NEW s \in Seq(Names)
  PROVE  Begins(t \o s)
BY DEF Begins

LEMMA InitConversation == Init => Conversation
<1> SUFFICES ASSUME Init PROVE Conversation
  OBVIOUS
<1>1. Silent /\ Idle /\ ~authenticated /\ lastCmd = "none"
      /\ phase = "opened" /\ out = NoOut /\ transcript = <<>>
  BY DEF Init, Silent, Idle
<1>2. ~dev.torn
  BY DEF Init, Quiet
<1> QED BY <1>1, <1>2
        DEF Conversation, Turn, Opened, Streams, FinishHeard, Transcribed,
            Commands

\* A step of an attempt that has begun.
LEMMA WithinAttempt ==
  ASSUME Conversation, toDevice # <<>> \/ toHost # <<>>,
         UNCHANGED phase, authenticated => authenticated'
  PROVE  Opened' /\ Streams'
<1>1. phase # "opened"
  BY DEF Conversation, Opened, Idle
<1> QED BY <1>1 DEF Conversation, Opened, Streams

\* A step that leaves the host's command alone keeps its transcript, too.
LEMMA SameCommand ==
  ASSUME Conversation, UNCHANGED <<lastCmd, transcript, dialect>>,
         HearsMore, ~Idle
  PROVE  FinishHeard' /\ Transcribed' /\ ~dev'.torn
<1>1. FinishHeard'
  BY DEF Conversation, FinishHeard, HearsMore
<1>2. Transcribed'
  BY DEF Conversation, Transcribed
<1> QED BY <1>1, <1>2 DEF Conversation, HearsMore

LEMMA SameHeadset ==
  ASSUME Conversation, UNCHANGED <<lastCmd, transcript, dialect, dev>>, ~Idle
  PROVE  FinishHeard' /\ Transcribed' /\ ~dev'.torn
<1>1. HearsMore
  BY DEF HearsMore
<1> QED BY <1>1, SameCommand

LEMMA ArmConversation ==
  ASSUME ShapeInv, Conversation, Arm PROVE Conversation'
<1>1. /\ Turn' /\ lastCmd' = "hello" /\ transcript' = <<"hello">>
  BY ArmTurn DEF Conversation
<1>2. phase' = "armed" /\ UNCHANGED <<dialect, dev>>
  BY DEF Arm, device
<1> QED BY <1>1, <1>2
        DEF Conversation, Opened, Streams, FinishHeard, Transcribed, Commands

\* The delayed acknowledgement: the next record or request.
LEMMA RxAuthAckConversation ==
  ASSUME ShapeInv, Conversation, RxAuthAck PROVE Conversation'
<1>1. /\ Turn' /\ lastCmd \in Acknowledging /\ lastCmd \in dev.heard
      /\ lastCmd' = AfterAuthAck[lastCmd]
      /\ transcript' = transcript \o Hashed(lastCmd')
      /\ ~authenticated
  BY RxAuthAckTurn, HearsReply DEF Conversation, RxAuthAck
<1>2. UNCHANGED <<phase, dialect, dev>> /\ toHost # <<>>
  BY DEF RxAuthAck, device, Arrives
<1>3. Opened' /\ Streams'
  BY <1>1, <1>2, WithinAttempt
<1>4. FinishHeard'
  BY <1>1, <1>2 DEF FinishHeard, AfterAuthAck, Acknowledging
<1>5. ASSUME dialect # "v2" PROVE Transcribed'
  <2>1. lastCmd \in {"hello", "secret", "finish"}
    BY <1>1, <1>5 DEF Conversation, Transcribed, Commands, Acknowledging
  <2>2. transcript \in Seq(Names)
    BY DEF ShapeInv
  <2>3. CASE lastCmd = "hello"
    <3>1. lastCmd' = "clientHello" /\ transcript = <<"hello">>
      BY <1>1, <1>5, <2>3 DEF AfterAuthAck, Conversation, Transcribed
    <3>2. Hashed(lastCmd') = <<>>
      BY <3>1 DEF Hashed, Records
    <3>4. <<"hello">> \o <<>> = <<"hello">>
      OBVIOUS
    <3>3. transcript' = <<"hello">>
      BY ONLY <1>1, <3>1, <3>2, <3>4
    <3> QED BY <3>1, <3>3 DEF Transcribed, Commands
  <2>4. CASE lastCmd \in {"secret", "finish"}
    <3>1. lastCmd' \in {"finish", "clientFinish"} /\ lastCmd' \in Names
      BY <1>1, <2>4 DEF AfterAuthAck, Names, Records, Requests
    <3>2. Begins(transcript)
      BY <1>2, <1>5, <2>4 DEF Conversation, Transcribed, Idle
    <3>3. Begins(transcript')
      <4>1. Hashed(lastCmd') \in Seq(Names)
        BY <3>1, HashedShape
      <4> QED BY ONLY <1>1, <2>2, <3>2, <4>1, BeginsLonger
    <3> QED BY <3>1, <3>3 DEF Transcribed, Commands
  <2> QED BY <2>1, <2>3, <2>4
<1>6. Transcribed'
  BY <1>2, <1>5 DEF Transcribed
<1> QED BY <1>1, <1>2, <1>3, <1>4, <1>6 DEF Conversation

LEMMA RxUpgradeConversation ==
  ASSUME ShapeInv, Conversation, RxUpgrade PROVE Conversation'
<1>1. Turn' /\ ~authenticated' /\ lastCmd' = "hello2" /\ dialect = "v2"
  BY RxUpgradeTurn DEF Conversation
<1>2. UNCHANGED <<phase, dialect, dev, authenticated>> /\ toHost # <<>>
  BY DEF RxUpgrade, device, Arrives
<1>3. Opened' /\ Streams'
  BY <1>1, <1>2, WithinAttempt
<1> QED BY <1>1, <1>2, <1>3 DEF Conversation, FinishHeard, Transcribed

\* The end of one of the headset's records.
LEMMA RxEndConversation ==
  ASSUME ShapeInv, Conversation, RxEnd PROVE Conversation'
<1> DEFINE s == SendsIn(lastCmd, dialect)
<1>1. PICK ok \in BOOLEAN :
        \/ /\ s \in DOMAIN AfterRecord
           /\ lastCmd' = AfterRecord[s]
           /\ transcript' = transcript \o (<<s>> \o Hashed(AfterRecord[s]))
        \/ /\ s = "certificate" /\ lastCmd' = "secret"
           /\ transcript' = transcript \o SecretAndCertificate(ok)
           /\ ~ok => Idle'
        \/ /\ s \in {"clientFinish", "clientFinish2"}
           /\ lastCmd' = lastCmd /\ lastCmd = s
           /\ transcript' = Append(transcript, s)
  BY RxEndTurn DEF Conversation
<1>2. Turn' /\ ~authenticated /\ s # "none" /\ lastCmd \in dev.heard
  BY RxEndTurn DEF Conversation
<1> HIDE DEF s
<1>3. UNCHANGED <<phase, dialect, dev>> /\ toHost # <<>>
  BY DEF RxEnd, device, Arrives
<1>4. Opened' /\ Streams'
  BY <1>2, <1>3, WithinAttempt
<1>5. FinishHeard'
  BY <1>1, <1>3 DEF FinishHeard, Conversation, AfterRecord
<1>6. ASSUME dialect # "v2" PROVE Transcribed'
  <2>1. s = lastCmd /\ lastCmd \in {"clientHello", "certificate", "clientFinish"}
    BY <1>2, <1>6
       DEF Conversation, Transcribed, Commands, SendsIn, Requests, s
  <2>2. transcript \in Seq(Names)
    BY DEF ShapeInv
  <2>3. CASE s = "clientHello"
    <3>1. lastCmd' = "certificate" /\ transcript = <<"hello">>
          /\ transcript' = transcript \o (<<s>> \o Hashed("certificate"))
      BY <1>1, <1>6, <2>1, <2>3 DEF AfterRecord, Conversation, Transcribed
    <3>2. Hashed("certificate") = <<>>
      BY DEF Hashed, Records
    <3>3. <<"clientHello">> \o <<>> = <<"clientHello">>
      OBVIOUS
    <3>4. transcript' = <<"hello">> \o <<"clientHello">>
      BY ONLY <2>3, <3>1, <3>2, <3>3
    <3>5. transcript' = <<"hello", "clientHello">>
      BY ONLY <3>4, OneAndOne
    <3> QED BY <3>1, <3>5 DEF Transcribed, Commands
  <2>4. CASE s = "certificate"
    <3>1. /\ lastCmd' = "secret" /\ transcript = <<"hello", "clientHello">>
          /\ transcript' = transcript \o SecretAndCertificate(ok)
          /\ ~ok => Idle'
      BY <1>1, <1>6, <2>1, <2>4 DEF AfterRecord, Conversation, Transcribed
    <3>2. ASSUME ok PROVE Begins(transcript')
      <4>1. transcript'
              = <<"hello", "clientHello">> \o <<"secret", "certificate">>
        <5>1. SecretAndCertificate(ok) = <<"secret", "certificate">>
          BY ONLY <3>2, Zenon DEF SecretAndCertificate
        <5> QED BY ONLY <3>1, <5>1
      <4> QED BY ONLY <4>1 DEF Begins
    <3>3. ~Idle' => Begins(transcript')
      BY ONLY <3>1, <3>2, ok \in BOOLEAN, Zenon
    <3> QED BY ONLY <3>1, <3>3 DEF Transcribed, Commands
  <2>5. CASE s = "clientFinish"
    <3>1. lastCmd' = "clientFinish" /\ Begins(transcript)
          /\ transcript' = Append(transcript, s)
      BY <1>1, <1>6, <2>1, <2>5 DEF AfterRecord, Conversation, Transcribed
    <3>2. Begins(transcript')
      BY ONLY <2>2, <2>5, <3>1 DEF Begins
    <3> QED BY <3>1, <3>2 DEF Transcribed, Commands
  <2> QED BY <2>1, <2>3, <2>4, <2>5
<1>7. Transcribed'
  BY <1>3, <1>6 DEF Transcribed
<1> QED BY <1>2, <1>3, <1>4, <1>5, <1>7 DEF Conversation

\* Steps that leave everything of the conversation alone.
LEMMA SameTurn ==
  ASSUME Conversation, phase' \in {phase, "streaming"},
         phase' = phase \/ authenticated,
         UNCHANGED <<lastCmd, authenticated, transcript, out, in, toDevice,
                     toHost, dialect, dev, faults>>
  PROVE  Conversation'
<1>1. Turn'
  <2>1. Over => Over'
    BY DEF Over
  <2>2. Silent /\ ~authenticated => Silent'
    BY DEF Silent, Idle
  <2>3. HeadsetTurn => HeadsetTurn'
    <3>1. WholeSent => WholeSent'
      BY DEF WholeSent, Still
    <3>2. StartSent => StartSent'
      BY DEF StartSent, Fresh
    <3>3. ChunksSent => ChunksSent'
      BY DEF ChunksSent, Given, Arrived
    <3>4. EndSent => EndSent'
      BY DEF EndSent, Still, Arrived
    <3>5. AckSent => AckSent'
      BY DEF AckSent, Sending, Still, Incoming
    <3> QED BY <3>1, <3>2, <3>3, <3>4, <3>5 DEF HeadsetTurn
  <2>4. HostTurn => HostTurn'
    <3>1. Heard => Heard'
      BY DEF Heard, Still
    <3>2. (Answering => Answering') /\ (Answered => Answered')
      BY <3>1 DEF Answering, Answered
    <3>3. Acknowledged => Acknowledged'
      BY DEF Acknowledged, Arrived, Fresh, Given
    <3>4. RestComing => RestComing'
      BY DEF RestComing, Sending, Still, Incoming
    <3>5. EndComing => EndComing'
      BY DEF EndComing, Sending, Still, Incoming
    <3> QED BY <3>2, <3>3, <3>4, <3>5 DEF HostTurn
  <2> QED BY <2>1, <2>2, <2>3, <2>4 DEF Conversation, Turn
<1>2. Opened' /\ Streams'
  BY DEF Conversation, Opened, Streams, Idle
<1>3. FinishHeard' /\ Transcribed' /\ ~dev'.torn
  BY DEF Conversation, FinishHeard, Transcribed, Idle
<1> QED BY <1>1, <1>2, <1>3 DEF Conversation

\* No answer to an attempt that has failed arrives in the next one.
LEMMA NextConversation ==
  ASSUME LateAnswers => session' = 1, ShapeInv, Conversation, [Next]_vars
  PROVE  Conversation'
<1>1. CASE Arm
  BY <1>1, ArmConversation
<1>2. CASE Stream
  BY <1>2, SameTurn DEF Stream, auth, device
<1>3. CASE RxGipAck
  <2>1. Turn'
    BY <1>3, RxGipAckTurn DEF Conversation
  <2>2. UNCHANGED <<phase, lastCmd, transcript, dialect, dev>> /\ toHost # <<>>
    BY <1>3 DEF RxGipAck, device, Arrives
  <2>3. authenticated => authenticated'
    BY <1>3 DEF RxGipAck, Complete
  <2>4. Opened' /\ Streams'
    BY <2>2, <2>3, WithinAttempt
  <2>5. FinishHeard' /\ Transcribed' /\ ~dev'.torn
    BY <2>2, SameHeadset DEF Idle
  <2> QED BY <2>1, <2>4, <2>5 DEF Conversation
<1>4. CASE RxAuthAck
  BY <1>4, RxAuthAckConversation
<1>5. CASE RxUpgrade
  BY <1>5, RxUpgradeConversation
<1>6. CASE RxFragment
  <2>1. Turn'
    BY <1>6, RxFragmentTurn DEF Conversation
  <2>2. /\ UNCHANGED <<phase, lastCmd, authenticated, transcript, dialect, dev>>
        /\ toHost # <<>>
    BY <1>6 DEF RxFragment, device, auth, Arrives
  <2>3. Opened' /\ Streams'
    BY <2>2, WithinAttempt
  <2>4. FinishHeard' /\ Transcribed' /\ ~dev'.torn
    BY <2>2, SameHeadset DEF Idle
  <2> QED BY <2>1, <2>3, <2>4 DEF Conversation
<1>7. CASE RxEnd
  BY <1>7, RxEndConversation
<1>8. CASE Retry
  <2>1. /\ phase' = "opened" /\ lastCmd' = "none" /\ ~authenticated'
        /\ transcript' = <<>> /\ out' = NoOut
        /\ toDevice' = <<>> /\ toHost' = <<>> /\ dev' = Quiet
    <3>1. session' # 1
      BY <1>8 DEF Retry, ShapeInv
    <3> QED BY <1>8, <3>1 DEF Retry
  <2>2. ~dev'.torn
    BY <2>1 DEF Quiet
  <2>3. Turn' /\ Opened' /\ Streams'
    BY ONLY <2>1 DEF Turn, Silent, Idle, Opened, Streams
  <2>4. FinishHeard' /\ Transcribed'
    BY ONLY <2>1 DEF FinishHeard, Transcribed, Commands
  <2> QED BY <2>2, <2>3, <2>4 DEF Conversation
<1>9. CASE ReaderFails
  BY <1>9, SameTurn DEF ReaderFails, auth, device
<1>10. CASE DeviceRx
  <2>1. Turn' /\ HearsMore
    BY <1>10, DeviceRxTurn DEF Conversation
  <2>2. /\ UNCHANGED <<phase, lastCmd, authenticated, transcript, dialect>>
        /\ toDevice # <<>>
    BY <1>10 DEF DeviceRx, auth
  <2>3. Opened' /\ Streams'
    BY <2>2, WithinAttempt
  <2>4. FinishHeard' /\ Transcribed' /\ ~dev'.torn
    BY <2>1, <2>2, SameCommand DEF Idle
  <2> QED BY <2>1, <2>3, <2>4 DEF Conversation
<1>11. CASE UNCHANGED vars
  BY <1>11, SameTurn DEF vars, auth, device
<1> QED BY <1>1, <1>2, <1>3, <1>4, <1>5, <1>6, <1>7, <1>8, <1>9, <1>10,
           <1>11 DEF Next, Host

\* Nothing of an earlier attempt reaches this one: there was none, or its
\* answers have all been read.
Undelayed == session = 1 \/ ~LateAnswers

ConversationInv == ShapeInv /\ (Undelayed => Conversation)

\* Each side speaks in its turn, whatever fails, until a late answer
\* interrupts: in every attempt without them, in the first one with them.
THEOREM ConversationKept == Spec => []ConversationInv
<1>1. Init => ConversationInv
  BY InitShape, InitConversation DEF ConversationInv
<1>2. ConversationInv /\ [Next]_vars => ConversationInv'
  <2> SUFFICES ASSUME ConversationInv, [Next]_vars PROVE ConversationInv'
    OBVIOUS
  <2>1. ShapeInv /\ ShapeInv'
    BY NextShape DEF ConversationInv
  <2>2. ASSUME Undelayed' PROVE Conversation'
    <3>1. LateAnswers => session' = 1
      BY <2>2 DEF Undelayed
    <3>2. session = session' \/ (Retry /\ session' # 1)
      BY <2>1 DEF Next, Host, vars, ShapeInv, Arm, Stream, RxGipAck, RxAuthAck,
                  RxUpgrade, RxFragment, RxEnd, Retry, ReaderFails, DeviceRx
    <3>3. Conversation
      BY <2>2, <3>2 DEF ConversationInv, Undelayed
    <3> QED BY <2>1, <3>1, <3>3, NextConversation
  <2> QED BY <2>1, <2>2 DEF ConversationInv
<1> QED BY <1>1, <1>2, PTL DEF Spec

LEMMA TranscribedInOrder == ShapeInv /\ Conversation => TranscriptOrder
<1> SUFFICES ASSUME ShapeInv, Conversation,
                    lastCmd \in {"finish", "clientFinish"}, dialect # "v2"
             PROVE  SubSeq(transcript, 1, 4)
                      = <<"hello", "clientHello", "secret", "certificate">>
  BY DEF TranscriptOrder
<1>1. Begins(transcript) /\ transcript \in Seq(Names)
  BY DEF Conversation, Transcribed, ShapeInv
<1> DEFINE s == SubSeq(transcript, 1, 4)
           t == <<"hello", "clientHello", "secret", "certificate">>
<1>2. t \in Seq(Names) /\ Len(t) = 4
  BY DEF Names, Records, Requests
<1>3. s \in Seq(Names) /\ Len(s) = 4 /\ \A i \in 1..4 : s[i] = transcript[i]
  BY <1>1 DEF Begins
<1>4. \A i \in 1..4 : transcript[i] = t[i]
  BY <1>1 DEF Begins
<1> HIDE DEF s, t
<1>5. s = t
  BY <1>2, <1>3, <1>4, SeqEqual
<1> QED BY <1>5 DEF s, t

LEMMA StreamingHeard == Conversation => AudioAfterFinish
<1> SUFFICES ASSUME Conversation, phase = "streaming"
             PROVE  {"finish", "finish2"} \cap dev.heard # {}
  BY DEF AudioAfterFinish
<1>1. Over
  BY DEF Conversation, Streams, Turn
<1>2. "finish" \in dev.heard \/ "finish2" \in dev.heard
  BY <1>1 DEF Conversation, FinishHeard, Over
<1> QED BY <1>2

LEMMA SomebodySpeaks == Conversation => NobodyWaits
<1> SUFFICES ASSUME Conversation, phase = "armed", ~authenticated, faults = 0,
                    toHost = <<>>, toDevice = <<>>
             PROVE  FALSE
  BY DEF NobodyWaits
<1>1. HeadsetTurn \/ HostTurn
  BY DEF Conversation, Turn, Silent
<1>2. \A x : <<x>> # <<>>
  OBVIOUS
<1>3. ~HeadsetTurn
  BY <1>2 DEF HeadsetTurn, WholeSent, StartSent, ChunksSent, EndSent, AckSent
<1>4. ~HostTurn
  BY <1>2 DEF HostTurn, Answering, Answered, Acknowledged, RestComing, EndComing
<1> QED BY <1>1, <1>3, <1>4

\* Host and headset never wait for each other: what each needs of the other
\* before it goes on is on its way, or a write has failed.
THEOREM NoMutualWait == ASSUME ~LateAnswers PROVE Spec => []NobodyWaits
<1>1. ConversationInv => NobodyWaits
  BY SomebodySpeaks DEF ConversationInv, Undelayed
<1> QED BY <1>1, ConversationKept, PTL

\* Every packet on its way to the headset carries what its header says.
LEMMA OwnBytes ==
  ASSUME Conversation, NEW i \in DOMAIN toDevice
  PROVE  toDevice[i].cmd # "torn"
<1>0. lastCmd \in Spoken => lastCmd # "torn"
  BY DEF Spoken, Records, Requests
<1>1. toDevice # <<>>
  OBVIOUS
<1>2. CASE authenticated /\ Over
  <2>1. toDevice \in {<<Whole("complete")>>, <<Ack>>, <<Whole("complete"), Ack>>}
    BY <1>1, <1>2 DEF Over
  <2>2. Whole("complete").cmd = "complete" /\ Ack.cmd = "none"
    BY DEF Whole, Ack, Packet
  <2> QED BY <2>1, <2>2
<1>3. CASE WholeSent
  <2>1. Whole(lastCmd).cmd = lastCmd
    BY DEF Whole, Packet
  <2> QED BY <1>0, <1>3, <2>1 DEF WholeSent
<1>4. CASE StartSent
  BY <1>4 DEF StartSent, Lasting, Packet
<1>5. CASE ChunksSent
  <2>1. PICK n \in Nat : Pieces(toDevice, lastCmd, n, Length(lastCmd))
    BY <1>5 DEF ChunksSent
  <2>2. toDevice[i] = Piece(lastCmd, n + (i - 1) * 58, Length(lastCmd))
    BY <2>1 DEF Pieces
  <2> QED BY <1>5, <2>2 DEF ChunksSent, Lasting, Piece, Packet
<1>6. CASE EndSent
  BY <1>6 DEF EndSent, Lasting, Packet
<1>7. CASE AckSent
  BY <1>7 DEF AckSent, Ack, Packet
<1> QED BY <1>1, <1>2, <1>3, <1>4, <1>5, <1>6, <1>7
        DEF Conversation, Turn, Silent, Idle, HeadsetTurn

LEMMA NothingTorn == Conversation => RecordsIntact
BY OwnBytes DEF Conversation, RecordsIntact

\* The headset never sees a hole in a record nor the end of one it does not
\* have, nor a message with the bytes of another (auth_send,
\* auth_send_next_chunk), wherever a write fails.
THEOREM NoHoles == ASSUME ~LateAnswers PROVE Spec => []RecordsIntact
<1>1. ConversationInv => RecordsIntact
  BY NothingTorn DEF ConversationInv, Undelayed
<1> QED BY <1>1, ConversationKept, PTL

\* The finish is computed over the secret before the certificate
\* (gip_auth_process), in every attempt.
THEOREM SecretFirst == ASSUME ~LateAnswers PROVE Spec => []TranscriptOrder
<1>1. ConversationInv => TranscriptOrder
  BY TranscribedInOrder DEF ConversationInv, Undelayed
<1> QED BY <1>1, ConversationKept, PTL

\* Audio does not begin before the headset has heard the host's finish
\* (the acknowledgements that on_rx takes, gip_auth_process).
THEOREM FinishBeforeAudio ==
  ASSUME ~LateAnswers PROVE Spec => []AudioAfterFinish
<1>1. ConversationInv => AudioAfterFinish
  BY StreamingHeard DEF ConversationInv, Undelayed
<1> QED BY <1>1, ConversationKept, PTL

\* The same of the first attempt of bridge_run, which has no late answers.
THEOREM FirstAttempt ==
  Spec => [](session = 1 => /\ RecordsIntact /\ NobodyWaits
                            /\ TranscriptOrder /\ AudioAfterFinish)
<1>1. ConversationInv
        => (session = 1 => /\ RecordsIntact /\ NobodyWaits
                           /\ TranscriptOrder /\ AudioAfterFinish)
  BY SomebodySpeaks, TranscribedInOrder, StreamingHeard, NothingTorn
     DEF ConversationInv, Undelayed
<1> QED BY <1>1, ConversationKept, PTL
====
