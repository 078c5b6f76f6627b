---- MODULE GipHeader ----
(***************************************************************************)
(* The header of a GIP packet (src/gip.c): a command, options and sequence *)
(* byte, the packet length and, in a fragment, a chunk offset, both of     *)
(* variable length, the whole padded to an even number of bytes.           *)
(***************************************************************************)
EXTENDS Integers, Sequences

\* The bytes before the first variable one.
GIP_HDR_MIN_LENGTH == 3

Pow128(k) == <<1, 128, 16384, 2097152, 268435456>>[k + 1]

\* Bytes in which a value is encoded, and into which it decodes.
VarintLength(val) ==
  CHOOSE n \in 1..4 : val < Pow128(n) /\ (n = 1 \/ val >= Pow128(n - 1))

\* encode_varint: seven bits a byte, the high bit on all but the last.
EncodeVarint(val) ==
  [k \in 1..VarintLength(val) |->
     ((val \div Pow128(k - 1)) % 128)
       + (IF k < VarintLength(val) THEN 128 ELSE 0)]

\* decode_varint: how many bytes of data it takes, and the value in them.  After
\* four bytes that go on it returns one more than it has looked at.
VarintSpan(data) ==
  CHOOSE n \in 1..5 :
    /\ data[n] < 128 \/ n = 5
    /\ \A k \in 1..(n - 1) : data[k] >= 128

VarintValue(data) ==
  LET n == IF VarintSpan(data) = 5 THEN 4 ELSE VarintSpan(data)
      digit[k \in 0..n] ==
        IF k = 0 THEN 0
        ELSE digit[k - 1] + (data[k] % 128) * Pow128(k - 1)
  IN  digit[n]

\* actual_header_length: an offset of zero takes no byte.
ActualHeaderLength(hdr) ==
  GIP_HDR_MIN_LENGTH + VarintLength(hdr.length)
    + (IF hdr.chunk /\ hdr.offset > 0 THEN VarintLength(hdr.offset) ELSE 0)

\* A zero byte follows, without the high bit that makes it part of the length.
PaddedBare(bytes) == Append(bytes, 0)

\* The packet length continues into a zero byte.
Padded(bytes) ==
  SubSeq(bytes, 1, Len(bytes) - 1) \o <<bytes[Len(bytes)] + 128, 0>>

\* gip_encode_header, after the three fixed bytes.
EncodeHeader(hdr) ==
  LET length == EncodeVarint(hdr.length)
  IN  (IF ActualHeaderLength(hdr) % 2 = 1 THEN Padded(length) ELSE length)
        \o (IF hdr.chunk THEN EncodeVarint(hdr.offset) ELSE <<>>)

\* gip_decode_header, after the three fixed bytes, of which the options say
\* whether there is an offset.
DecodeHeader(chunk, data) ==
  LET rest == SubSeq(data, VarintSpan(data) + 1, Len(data))
  IN  [length |-> VarintValue(data),
       chunk  |-> chunk,
       offset |-> IF chunk THEN VarintValue(rest) ELSE 0,
       taken  |-> VarintSpan(data) + (IF chunk THEN VarintSpan(rest) ELSE 0)]
====
