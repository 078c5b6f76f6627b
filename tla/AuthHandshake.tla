---- MODULE AuthHandshake ----
(***************************************************************************)
(* The authentication handshake that precedes audio: the state machine of  *)
(* src/gip_auth.c, the fragmenting transport around it in src/bridge.c     *)
(* (auth_send, auth_send_next_chunk, the AUTHENTICATE and ACKNOWLEDGE      *)
(* branches of on_rx) and the wait of run_session.  The headset is         *)
(* external: it answers as the comments of those files describe it.        *)
(*                                                                         *)
(* A record is the name of its command, a fragment its place in the        *)
(* record.  GipHeader encodes the length and offset in front of it.        *)
(* Certificates, keys and hashes are not modelled; the transcript is the   *)
(* sequence of the records hashed into it.                                 *)
(***************************************************************************)
EXTENDS GipHeader

CONSTANTS
  Dialects,     \* what the headset may speak, see Answer
  ClientLen,    \* length of the headset's records
  MaxSessions,  \* bound on the attempts of bridge_run
  MaxFaults,    \* bound on the writes that fail
  LateAnswers   \* whether answers to one attempt may arrive in the next

ASSUME HandshakeAssumption ==
  /\ Dialects \subseteq {"pdp", "finish", "v2"}
  /\ ClientLen \in Nat /\ ClientLen > 58
  /\ MaxSessions \in Nat \ {0}
  /\ MaxFaults \in Nat
  /\ LateAnswers \in BOOLEAN

VARIABLES
  session,       \* attempt of bridge_run
  phase,         \* "opened", "armed" or "streaming"
  lastCmd,       \* last_cmd
  started,       \* auth.started
  authenticated, \* auth.authenticated
  transcript,    \* records hashed so far
  out,           \* auth_out_*: record being sent, its length and offset
  in,            \* auth_in_*: record being assembled
  toDevice,      \* control packets written
  toHost,        \* control packets not read yet
  reader,        \* whether a read of the control pipe is pending
  dialect,       \* which headset this is
  dev,           \* the headset: what it assembles, sends and has accepted
  faults         \* writes that failed

auth   == <<lastCmd, started, authenticated, transcript>>
device == <<dialect, dev>>
vars   == <<session, phase, auth, out, in, toDevice, toHost, reader, device,
            faults>>

GIP_PKT_MAX == 58

\* Length of what the host sends: records, then requests (14 bytes each).
Records  == {"hello", "hello2", "secret", "finish", "key2", "finish2",
             "complete"}
Requests == {"clientHello", "certificate", "clientFinish", "certificate2",
             "clientKey2", "clientFinish2"}
Length(cmd) ==
  CASE cmd = "secret"               -> 274
    [] cmd = "key2"                 -> 82
    [] cmd = "hello"                -> 58
    [] cmd = "hello2"               -> 54
    [] cmd \in {"finish", "finish2"} -> 50
    [] cmd = "complete"             -> 2
    [] OTHER                        -> 14

NoRecord == [cmd |-> "none", total |-> 0, len |-> 0]
NoOut    == [cmd |-> "none", total |-> 0, len |-> 0, off |-> 0, term |-> FALSE]
Quiet    == [in |-> NoRecord, sends |-> "none", stage |-> "start",
             heard |-> {}, torn |-> FALSE]

Packet(kind, cmd, off, n, ack) ==
  [kind |-> kind, cmd |-> cmd, off |-> off, n |-> n, ack |-> ack]
Whole(cmd) == Packet("whole", cmd, 0, Length(cmd), cmd # "complete")
Ack        == Packet("gipack", "none", 0, 0, FALSE)

\* Fragments of a record from an offset on; only the last asks for an
\* acknowledgement.
Fragments(cmd, off, len) ==
  [k \in 1..((len - off + GIP_PKT_MAX - 1) \div GIP_PKT_MAX) |->
     LET at == off + (k - 1) * GIP_PKT_MAX
         n  == IF len - at > GIP_PKT_MAX THEN GIP_PKT_MAX ELSE len - at
     IN  Packet("chunk", cmd, at, n, at + n = len)]

Init ==
  /\ session = 1
  /\ phase = "opened"
  /\ lastCmd = "none" /\ started = FALSE /\ authenticated = FALSE
  /\ transcript = <<>>
  /\ out = NoOut
  /\ in = NoRecord
  /\ toDevice = <<>> /\ toHost = <<>>
  /\ reader = TRUE
  /\ dialect \in Dialects
  /\ dev = Quiet
  /\ faults = 0

----------------------------------------------------------------------------
(* Sending.                                                                *)

\* A write of the control pipe fails, or not.
Attempt(ok) == /\ ok \/ faults < MaxFaults
               /\ faults' = IF ok THEN faults ELSE faults + 1

\* The offset counts a full USB packet, header included.
OutAfterUsbPacket(cmd, o) ==
  IF Length(cmd) > GIP_PKT_MAX
  THEN [cmd |-> cmd, total |-> Length(cmd), len |-> Length(cmd),
        off |-> 64, term |-> FALSE]
  ELSE IF o.len # 0 THEN [o EXCEPT !.off = Length(cmd)] ELSE o

\* What auth_send makes of the record being sent: a long one replaces it, a
\* short one moves its offset.
OutAfter(cmd, o) ==
  IF Length(cmd) > GIP_PKT_MAX
  THEN [cmd |-> cmd, total |-> Length(cmd), len |-> Length(cmd),
        off |-> GIP_PKT_MAX, term |-> FALSE]
  ELSE IF o.len # 0 THEN [o EXCEPT !.off = Length(cmd)] ELSE o

\* The packet auth_send writes.  One of 58 bytes takes them from the record
\* being sent if there is one.
FirstPacket(cmd, o) ==
  IF Length(cmd) > GIP_PKT_MAX
  THEN Packet("start", cmd, Length(cmd), GIP_PKT_MAX, TRUE)
  ELSE IF Length(cmd) = GIP_PKT_MAX /\ o.len # 0
       THEN Packet("whole", "torn", 0, GIP_PKT_MAX, TRUE)
       ELSE Whole(cmd)

\* send_full and request: note the command, hash a record, send.
Send(cmd, o, written, ok, hashed) ==
  /\ lastCmd' = cmd
  /\ transcript' = transcript \o hashed
  /\ out' = OutAfter(cmd, o)
  /\ toDevice' = toDevice \o written
                 \o (IF ok THEN <<FirstPacket(cmd, o)>> ELSE <<>>)

\* The auth-complete control message; authenticated if it could be written.
Complete(o, written, ok) ==
  /\ out' = OutAfter("complete", o)
  /\ toDevice' = toDevice \o written
                 \o (IF ok THEN <<FirstPacket("complete", o)>> ELSE <<>>)
  /\ authenticated' = (authenticated \/ ok)

\* Requests are not hashed.
Hashed(cmd) == IF cmd \in Records THEN <<cmd>> ELSE <<>>

----------------------------------------------------------------------------
(* The session.                                                            *)

\* run_session sends Start and begins the exchange.
Arm ==
  /\ phase = "opened"
  /\ phase' = "armed"
  /\ started' = TRUE
  /\ \E ok \in BOOLEAN :
       Attempt(ok) /\ Send("hello", out, <<>>, ok, <<"hello">>)
  /\ UNCHANGED <<session, authenticated, in, toHost, reader, device>>

\* The wait ends because authentication is complete.
Stream ==
  /\ phase = "armed"
  /\ authenticated
  /\ phase' = "streaming"
  /\ UNCHANGED <<session, auth, out, in, toDevice, toHost, reader, device,
                 faults>>

\* A failed attempt whose reader is taken for the next one's.
ReaderKept == reader

\* Each attempt opens the device again and starts a reader.
ReaderStarted == TRUE

\* The wait of six seconds ends without it, or the session it led to; bridge_run
\* opens another one.  reset_counters and gip_auth_init leave auth_in_* as they
\* are.
Retry ==
  /\ session < MaxSessions
  /\ session' = session + 1
  /\ phase' = "opened"
  /\ lastCmd' = "none" /\ started' = FALSE /\ authenticated' = FALSE
  /\ transcript' = <<>>
  /\ out' = NoOut
  /\ IF LateAnswers
     THEN UNCHANGED <<toDevice, toHost, dev>>
     ELSE toDevice' = <<>> /\ toHost' = <<>> /\ dev' = Quiet
  /\ reader' = ReaderStarted
  /\ UNCHANGED <<in, dialect, faults>>

----------------------------------------------------------------------------
(* on_rx and gip_auth_process.                                             *)

Arrives(kind) == reader /\ toHost # <<>> /\ Head(toHost).kind = kind
Taken         == toHost' = Tail(toHost) /\ UNCHANGED reader

\* A read that fails is not submitted again, unless the pipe had stalled:
\* nothing more of this attempt is heard.  Assumed not to befall the last one.
ReaderFails ==
  /\ reader
  /\ session < MaxSessions
  /\ reader' = FALSE
  /\ UNCHANGED <<session, phase, auth, out, in, toDevice, toHost, device,
                 faults>>

\* The terminator is not noted.
AfterFragmentsOpen(k) ==
  LET frags == Fragments(out.cmd, out.off, out.len)
  IN  IF k = Len(frags)
      THEN [out EXCEPT !.off = out.len, !.len = 0]
      ELSE [out EXCEPT !.off = @ + k * GIP_PKT_MAX]

\* The record being sent after an acknowledgement that lets k fragments of it
\* be written.
AfterFragments(k) ==
  LET frags == Fragments(out.cmd, out.off, out.len)
  IN  IF k = Len(frags)
      THEN [out EXCEPT !.off = out.len, !.len = 0, !.term = TRUE]
      ELSE [out EXCEPT !.off = @ + k * GIP_PKT_MAX]

\* What auth_send_next_chunk can do: every write succeeds, or one fails and
\* the rest is left for another acknowledgement.
ChunkOutcomes ==
  LET frags == Fragments(out.cmd, out.off, out.len)
      ends  == Packet("end", out.cmd, out.total, 0, FALSE)
  IN  IF out.len # 0
      THEN {[out |-> AfterFragments(k), w |-> SubSeq(frags, 1, k),
             ok |-> k = Len(frags)] : k \in 0..Len(frags)}
      ELSE IF out.term
      THEN {[out |-> [out EXCEPT !.term = ~ok], ok |-> ok,
             w |-> IF ok THEN <<ends>> ELSE <<>>] : ok \in BOOLEAN}
      ELSE {[out |-> out, w |-> <<>>, ok |-> TRUE]}

\* Any request is taken for the last one.
AwaitsAnyAck == lastCmd \in Requests /\ ~authenticated

\* The acknowledgement of the request for the client's finish stands for it.
AwaitsFinishAck == lastCmd = "clientFinish" /\ ~authenticated

\* A GIP acknowledgement of an AUTHENTICATE packet.
RxGipAck ==
  /\ Arrives("gipack")
  /\ Taken
  /\ \E c \in ChunkOutcomes, ok \in BOOLEAN :
       /\ Attempt(c.ok /\ ok)
       /\ IF AwaitsFinishAck
          THEN Complete(c.out, c.w, ok)
          ELSE /\ ok
               /\ out' = c.out
               /\ toDevice' = toDevice \o c.w
               /\ UNCHANGED authenticated
  /\ UNCHANGED <<session, phase, lastCmd, started, transcript, in, device>>

\* The delayed acknowledgement inside AUTHENTICATE means the last host message.
AfterAuthAck ==
  [cmd \in {"hello", "secret", "finish", "key2", "finish2"} |->
     CASE cmd = "hello"   -> "clientHello"
       [] cmd = "secret"  -> "finish"
       [] cmd = "finish"  -> "clientFinish"
       [] cmd = "key2"    -> "finish2"
       [] cmd = "finish2" -> "clientFinish2"]

RxAuthAck ==
  /\ Arrives("authack")
  /\ Taken
  /\ IF lastCmd \in DOMAIN AfterAuthAck
     THEN LET cmd == AfterAuthAck[lastCmd]
          IN  \E ok \in BOOLEAN :
                Attempt(ok) /\ Send(cmd, out, <<>>, ok, Hashed(cmd))
     ELSE UNCHANGED <<lastCmd, transcript, out, toDevice, faults>>
  /\ UNCHANGED <<session, phase, started, authenticated, in, device>>

\* The headset asks for the second version of the protocol.
RxUpgrade ==
  /\ Arrives("upgrade")
  /\ Taken
  /\ \E ok \in BOOLEAN :
       Attempt(ok) /\ Send("hello2", out, <<>>, ok, <<"hello2">>)
  /\ UNCHANGED <<session, phase, started, authenticated, in, device>>

\* Where what has been assembled of a record ends once p is part of it.
Longer(len, p) == IF p.off + p.n > len THEN p.off + p.n ELSE len

\* A fragment of a record, acknowledged if it asks for it.
RxFragment ==
  /\ Arrives("start") \/ Arrives("chunk")
  /\ Taken
  /\ LET p == Head(toHost)
     IN  /\ in' = IF p.kind = "start"
                  THEN [cmd |-> p.cmd, total |-> p.off, len |-> p.n]
                  ELSE [in EXCEPT !.len = Longer(@, p)]
         /\ \E ok \in BOOLEAN :
              /\ Attempt(ok)
              /\ p.ack \/ ok
              /\ toDevice' = IF p.ack /\ ok THEN Append(toDevice, Ack)
                             ELSE toDevice
  /\ UNCHANGED <<session, phase, auth, out, device>>

AfterRecord ==
  [cmd \in {"clientHello", "clientHello2", "certificate2", "clientKey2"} |->
     CASE cmd = "clientHello"  -> "certificate"
       [] cmd = "clientHello2" -> "certificate2"
       [] cmd = "certificate2" -> "clientKey2"
       [] cmd = "clientKey2"   -> "key2"]

\* A certificate is hashed when it arrives, before the secret.
SecretAfterCertificate(ok) == <<"certificate", "secret">>

\* The handler of a certificate runs before it is hashed, so the secret comes
\* first; if it cannot be sent the certificate is not hashed.
SecretAndCertificate(ok) ==
  IF ok THEN <<"secret", "certificate">> ELSE <<"secret">>

\* The terminator: a complete record goes to gip_auth_process.
RxEnd ==
  /\ Arrives("end")
  /\ Taken
  /\ IF in.total # 0 /\ Head(toHost).off = in.total /\ in.len = in.total
     THEN /\ in' = NoRecord
          /\ \E ok \in BOOLEAN :
               /\ Attempt(ok)
               /\ \/ /\ in.cmd \in DOMAIN AfterRecord
                     /\ LET cmd == AfterRecord[in.cmd]
                        IN  Send(cmd, out, <<>>, ok, <<in.cmd>> \o Hashed(cmd))
                     /\ UNCHANGED authenticated
                  \/ /\ in.cmd = "certificate"
                     /\ Send("secret", out, <<>>, ok, SecretAndCertificate(ok))
                     /\ UNCHANGED authenticated
                  \/ /\ in.cmd \in {"clientFinish", "clientFinish2"}
                     /\ transcript' = Append(transcript, in.cmd)
                     /\ Complete(out, <<>>, ok)
                     /\ UNCHANGED lastCmd
     ELSE UNCHANGED <<in, auth, out, toDevice, faults>>
  /\ UNCHANGED <<session, phase, started, device>>

Host ==
  Arm \/ Stream \/ RxGipAck \/ RxAuthAck \/ RxUpgrade \/ RxFragment \/ RxEnd

----------------------------------------------------------------------------
(* The headset.                                                            *)

\* It acknowledges what asks for it.
AckOf(p) == IF p.ack THEN <<Ack>> ELSE <<>>

\* Its own records start with one fragment.
StartOf(cmd) == <<Packet("start", cmd, ClientLen, GIP_PKT_MAX, TRUE)>>

Reply(kind) == <<Packet(kind, "none", 0, 0, FALSE)>>

\* The record it sends in answer to a complete record or request, if any:
\* "pdp" acknowledges the request for its finish and sends none.
Sends(cmd) ==
  IF cmd = "hello2" THEN "clientHello2"
  ELSE IF cmd \notin Requests \/ (cmd = "clientFinish" /\ dialect = "pdp")
  THEN "none" ELSE cmd

\* What it says to it.
Answer(cmd) ==
  IF cmd = "hello" /\ dialect = "v2" THEN Reply("upgrade")
  ELSE IF cmd \in {"hello", "secret", "finish", "key2", "finish2"}
  THEN Reply("authack")
  ELSE IF Sends(cmd) # "none" THEN StartOf(Sends(cmd)) ELSE <<>>

\* A complete record or request; a first hello makes it start over.
Hear(cmd, d) ==
  [(IF cmd = "hello" THEN Quiet ELSE d) EXCEPT
     !.in = NoRecord,
     !.heard = @ \cup {cmd},
     !.sends = Sends(cmd),
     !.stage = "start"]

Says(packets) == toHost' = toHost \o packets

\* The next control packet of the bridge reaches the headset.
DeviceRx ==
  /\ toDevice # <<>>
  /\ toDevice' = Tail(toDevice)
  /\ LET p == Head(toDevice)
     IN  \/ /\ p.kind = "whole"
            /\ dev' = Hear(p.cmd, dev)
            /\ Says(AckOf(p) \o Answer(p.cmd))
         \/ /\ p.kind = "start"
            /\ dev' = [dev EXCEPT !.in = [cmd |-> p.cmd, total |-> p.off,
                                          len |-> p.n]]
            /\ Says(AckOf(p))
         \/ /\ p.kind = "chunk"
            /\ dev' = [dev EXCEPT !.in.len = Longer(@, p),
                                  !.torn = @ \/ p.off > dev.in.len]
            /\ Says(AckOf(p))
         \/ /\ p.kind = "end"
            /\ IF /\ dev.in.total # 0
                  /\ dev.in.len = p.off /\ p.off = dev.in.total
               THEN dev' = Hear(dev.in.cmd, dev) /\ Says(Answer(dev.in.cmd))
               ELSE dev' = [dev EXCEPT !.torn = TRUE] /\ Says(<<>>)
         \/ /\ p.kind = "gipack"
            /\ dev.sends # "none"
            /\ dev' = IF dev.stage = "start" THEN [dev EXCEPT !.stage = "rest"]
                      ELSE [dev EXCEPT !.sends = "none"]
            /\ Says(IF dev.stage = "start"
                    THEN Fragments(dev.sends, GIP_PKT_MAX, ClientLen)
                    ELSE <<Packet("end", dev.sends, ClientLen, 0, FALSE)>>)
         \/ /\ p.kind = "gipack"
            /\ dev.sends = "none"
            /\ UNCHANGED <<dev, toHost>>
  /\ UNCHANGED <<session, phase, auth, out, in, reader, dialect, faults>>

Next == Host \/ Retry \/ ReaderFails \/ DeviceRx

\* The run loop and the headset keep going, and the six seconds of the last
\* attempt are enough for a headset that answers.
Spec == Init /\ [][Next]_vars /\ WF_vars(Host) /\ WF_vars(DeviceRx)

----------------------------------------------------------------------------
(* Properties.                                                             *)

TypeOK ==
  /\ session \in 1..MaxSessions
  /\ phase \in {"opened", "armed", "streaming"}
  /\ lastCmd \in Records \cup Requests \cup {"none"}
  /\ {started, authenticated, reader, out.term, dev.torn} \subseteq BOOLEAN
  /\ out.off \in 0..out.total /\ out.len \in {0, out.total}
  /\ in.total \in {0, ClientLen} /\ in.len \in 0..ClientLen
  /\ faults \in 0..MaxFaults

\* Audio does not begin until the headset has the host's finish: the
\* acknowledgement taken for its own finish is never that of something else.
AudioAfterFinish ==
  phase = "streaming" => {"finish", "finish2"} \cap dev.heard # {}

\* Nobody waits for the other: as long as no write has failed, something is on
\* its way in an attempt that is not complete, with every fragment, terminator
\* and acknowledgement that one side needs of the other before it goes on.
NobodyWaits ==
  (phase = "armed" /\ ~authenticated /\ faults = 0)
    => toHost # <<>> \/ toDevice # <<>>

\* The headset never sees a hole in a record, nor the end of a record it does
\* not have, and no message goes out with the bytes of another, whatever is sent
\* or fails while a record is being sent.
RecordsIntact ==
  ~dev.torn /\ \A i \in DOMAIN toDevice : toDevice[i].cmd # "torn"

\* In the first version the finish is computed over the host's secret before
\* the headset's certificate, in every attempt, after failed ones too.
TranscriptOrder ==
  (lastCmd \in {"finish", "clientFinish"} /\ dialect # "v2")
    => SubSeq(transcript, 1, 4)
         = <<"hello", "clientHello", "secret", "certificate">>

\* The header send_pkt and the senders of fragments put before a packet, and
\* what on_rx of the other side makes of it, whatever byte comes after it.
Header(p) == [length |-> p.n, chunk |-> p.kind # "whole",
              offset |-> IF p.kind = "whole" THEN 0 ELSE p.off]
Sent      == {toDevice[i] : i \in DOMAIN toDevice} \ {Ack}
Byte      == {0, 127, 128, 255}

\* The lengths and offsets of every authentication packet survive the wire:
\* the padding of an odd header is part of its length, the payload is found
\* where it begins, and a fragment of GIP_PKT_MAX bytes leaves room for the
\* longest header its total or offset needs: "header length must be even", and
\* the packet fits the 64 bytes of the endpoint.
HeadersSurvive ==
  \A p \in Sent, b \in Byte :
    LET wire == EncodeHeader(Header(p)) \o <<b>>
        got  == DecodeHeader(Header(p).chunk, wire)
    IN  /\ got.length = p.n /\ got.offset = Header(p).offset
        /\ got.taken = Len(wire) - 1
        /\ LET n == GIP_HDR_MIN_LENGTH + got.taken
           IN  n % 2 = 0 /\ n + p.n <= 64

\* The last attempt succeeds if nothing fails any more, whatever state earlier
\* ones were abandoned in, a control reader that died unnoticed among them:
\* neither side waits for the other.
HandshakeCompletes ==
  (session = MaxSessions /\ phase = "opened" /\ faults = MaxFaults)
    ~> (phase = "streaming")

\* "Do not start it until we have explicitly sent Start": no authentication
\* message is sent before.
NothingBeforeStart == phase = "opened" => lastCmd = "none"
====
