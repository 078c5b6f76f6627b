---- MODULE IsoSchedule_proofs ----
(***************************************************************************)
(* What holds of the schedule of IsoSchedule for every number, length and  *)
(* lead of the transfers, and whatever fails or is refused.                *)
(***************************************************************************)
EXTENDS IsoSchedule, SequenceTheorems, WellFoundedInduction, TLAPS

LEMMA Constants ==
  /\ NumXfers \in Nat /\ NumXfers >= 1
  /\ AudioPkts \in Nat /\ AudioPkts >= 1
  /\ LeadFrames \in Nat /\ LeadFrames >= 1 /\ AbortPoll \in Nat
  /\ DrainFrames \in Nat /\ Tolerated \in Nat /\ MaxHold \in Nat /\ MaxFailed \in Nat /\ MaxLost \in Nat
BY ScheduleAssumption

\* Each transfer is queued or was refused twice.
TypeInv == TypeOK /\ NumXfers <= Len(starts) + lost

LEMMA QueuedFull ==
  ASSUME NEW first \in Int
  PROVE  /\ Queued(first) \in Seq(Int)
         /\ Len(Queued(first)) = NumXfers
         /\ \A i \in 1..NumXfers : Queued(first)[i] = first + (i - 1) * AudioPkts
<1>1. \A i \in 1..NumXfers : first + (i - 1) * AudioPkts \in Int
  BY Constants
<1> QED BY <1>1, Constants DEF Queued

\* What is left in the queue when the callback of transfer i has begun.
LEMMA Removed ==
  ASSUME NEW s \in Seq(Int), NEW i \in 1..Len(s)
  PROVE  /\ RemoveAt(s, i) \in Seq(Int)
         /\ Len(RemoveAt(s, i)) = Len(s) - 1
         /\ \A k \in 1..(Len(s) - 1) :
              RemoveAt(s, i)[k] = IF k < i THEN s[k] ELSE s[k + 1]
<1> DEFINE a == SubSeq(s, 1, i - 1)
           b == SubSeq(s, i + 1, Len(s))
<1>1. /\ a \in Seq(Int) /\ Len(a) = i - 1
      /\ \A k \in 1..(i - 1) : a[k] = s[k]
  OBVIOUS
<1>2. /\ b \in Seq(Int) /\ Len(b) = Len(s) - i
      /\ \A k \in 1..(Len(s) - i) : b[k] = s[i + k]
  OBVIOUS
<1>3. RemoveAt(s, i) = a \o b
  BY DEF RemoveAt
<1> HIDE DEF a, b
<1>4. /\ a \o b \in Seq(Int) /\ Len(a \o b) = Len(s) - 1
      /\ \A k \in 1..(Len(s) - 1) :
           (a \o b)[k] = IF k <= i - 1 THEN a[k] ELSE b[k - (i - 1)]
  <2>1. /\ a \o b \in Seq(Int) /\ Len(a \o b) = Len(a) + Len(b)
        /\ \A k \in 1..(Len(a) + Len(b)) :
             (a \o b)[k] = IF k <= Len(a) THEN a[k] ELSE b[k - Len(a)]
    BY <1>1, <1>2, ConcatProperties
  <2>2. Len(a) = i - 1 /\ Len(a) + Len(b) = Len(s) - 1
    BY <1>1, <1>2
  <2> QED BY <2>1, <2>2
<1>5. ASSUME NEW k \in 1..(Len(s) - 1)
      PROVE  (a \o b)[k] = IF k < i THEN s[k] ELSE s[k + 1]
  <2>1. CASE k < i
    BY <2>1, <1>1, <1>4
  <2>2. CASE ~(k < i)
    <3>1. k - (i - 1) \in 1..(Len(s) - i) /\ i + (k - (i - 1)) = k + 1
      BY <2>2
    <3>0. ~(k <= i - 1)
      BY <2>2
    <3>2. (a \o b)[k] = b[k - (i - 1)]
      BY <3>0, <1>4, Zenon
    <3>3. b[k - (i - 1)] = s[i + (k - (i - 1))]
      BY <3>1, <1>2
    <3> QED BY <2>2, <3>1, <3>2, <3>3
  <2> QED BY <2>1, <2>2
<1> QED BY <1>3, <1>4, <1>5

\* A callback moves the transfers behind its own up by one and puts its own at
\* the end.
LEMMA Submits ==
  ASSUME starts \in Seq(Int), NEW i \in 1..Len(starts), NEW frame \in Nat,
         Submit(i, frame)
  PROVE  LET f == IF frame > 0 THEN frame ELSE LeadFrames
             n == Len(starts)
         IN  /\ starts' \in Seq(Int)
             /\ Len(starts') = n
             /\ \A k \in 1..(n - 1) :
                  starts'[k] = IF k < i THEN starts[k] ELSE starts[k + 1]
             /\ starts'[n] = f
             /\ next' = f + AudioPkts
             /\ next' \in Nat
<1> DEFINE f == IF frame > 0 THEN frame ELSE LeadFrames
           r == RemoveAt(starts, i)
<1>1. f \in Nat
  BY Constants
<1>2. i \in 1..Len(starts) /\ Len(starts) \in Nat
  OBVIOUS
<1>3. /\ r \in Seq(Int) /\ Len(r) = Len(starts) - 1
      /\ \A k \in 1..(Len(starts) - 1) :
           r[k] = IF k < i THEN starts[k] ELSE starts[k + 1]
  BY <1>2, Removed
<1>4. starts' = Append(r, f) /\ next' = f + AudioPkts
  BY DEF Submit
<1> HIDE DEF f, r
<1>5. /\ starts' \in Seq(Int)
      /\ Len(starts') = Len(starts)
      /\ \A k \in 1..(Len(starts) - 1) : starts'[k] = r[k]
      /\ starts'[Len(starts)] = f
  BY <1>1, <1>2, <1>3, <1>4
<1>6. next' \in Nat
  BY <1>1, <1>4, Constants
<1> QED BY <1>3, <1>4, <1>5, <1>6 DEF f

\* A refused transfer leaves the queue.
LEMMA Loses ==
  ASSUME TypeInv, Lost
  PROVE  /\ starts' \in Seq(Int)
         /\ Len(starts') = Len(starts) - 1
         /\ next' = LeadFrames
         /\ \E i \in 1..Len(starts) :
              /\ Due(i)
              /\ \A k \in 1..(Len(starts) - 1) :
                   starts'[k] = IF k < i THEN starts[k] ELSE starts[k + 1]
<1>1. PICK i \in DOMAIN starts : Due(i) /\ starts' = RemoveAt(starts, i)
  BY DEF Lost
<1>2. starts \in Seq(Int) /\ i \in 1..Len(starts)
  BY DEF TypeInv, TypeOK
<1> QED BY <1>1, <1>2, Removed DEF Lost

\* One frame on.
LEMMA Moves ==
  ASSUME TypeInv, Frame
  PROVE  /\ starts' \in Seq(Int)
         /\ Len(starts') = Len(starts)
         /\ \A i \in 1..Len(starts) : starts'[i] = starts[i] - 1
         /\ next' \in Nat
         /\ next > 0 => next' = next - 1
         /\ next = 0 => next' = 0
         /\ \A i \in 1..Len(starts) : -(starts[i] + AudioPkts) < MaxHold
<1>1. starts \in Seq(Int) /\ next \in Nat
  BY DEF TypeInv, TypeOK
<1>2. starts' = [i \in 1..Len(starts) |-> starts[i] - 1]
  BY <1>1 DEF Frame
<1>3. \A i \in 1..Len(starts) : starts[i] - 1 \in Int
  BY <1>1
<1> QED BY <1>1, <1>2, <1>3 DEF Frame, Waited

\* The transfer a successful callback submits again, and one that failed.
LEMMA Succeeds ==
  ASSUME TypeInv, Succeeded
  PROVE  \E i \in 1..Len(starts) :
           /\ Due(i) /\ Submit(i, next)
           /\ since' = IF i > Len(starts) - since THEN since ELSE since + 1
BY DEF Succeeded, TypeInv, TypeOK, Sequenced

LEMMA Fails ==
  ASSUME TypeInv, Failed
  PROVE  \E i \in 1..Len(starts) : Due(i) /\ Submit(i, LeadFrames)
BY DEF Failed, TypeInv, TypeOK

----------------------------------------------------------------------------
(* Types.                                                                  *)

LEMMA TypeInit == Init => TypeInv
<1> SUFFICES ASSUME Init PROVE TypeInv
  OBVIOUS
<1>1. /\ starts \in Seq(Int) /\ next \in Nat /\ dir \in {"out", "in"}
      /\ NumXfers <= Len(starts) /\ since \in 0..Len(starts)
  <2>1. CASE StartPlayback
    <3>1. /\ LeadFrames + NumXfers * AudioPkts \in Nat
          /\ LeadFrames + NumXfers * AudioPkts + NumXfers * AudioPkts \in Nat
      BY Constants
    <3> QED BY <2>1, <3>1, QueuedFull, Constants DEF StartPlayback
  <2>2. CASE StartCapture
    <3>1. PICK aborted \in 0..NumXfers, poll \in 0..AbortPoll, ago \in 0..AudioPkts :
            starts = [i \in 1..aborted |-> LeadFrames - poll - ago]
                       \o Queued(LeadFrames - ago)
      BY <2>2 DEF StartCapture
    <3>2. LeadFrames - ago \in Int /\ LeadFrames - poll - ago \in Int
      BY Constants
    <3>3. [i \in 1..aborted |-> LeadFrames - poll - ago] \in Seq(Int)
      BY <3>2
    <3>4. Len([i \in 1..aborted |-> LeadFrames - poll - ago]) = aborted
      BY Constants
    <3>5. starts \in Seq(Int) /\ Len(starts) = aborted + NumXfers
      <4>1. Queued(LeadFrames - ago) \in Seq(Int) /\ Len(Queued(LeadFrames - ago)) = NumXfers
        BY <3>2, QueuedFull
      <4> QED BY <3>1, <3>3, <3>4, <4>1, ConcatProperties
    <3> QED BY <2>2, <3>5, Constants DEF StartCapture
  <2> QED BY <2>1, <2>2 DEF Init
<1>2. begun \in BOOLEAN /\ late \in BOOLEAN
  BY Zenon DEF Init
<1> QED BY <1>1, <1>2, Constants DEF Init, TypeInv, TypeOK

LEMMA TypeStep == TypeInv /\ [Next]_vars => TypeInv'
<1> SUFFICES ASSUME TypeInv, [Next]_vars PROVE TypeInv'
  OBVIOUS
<1>0. /\ starts \in Seq(Int) /\ {next, gap, failed, lost} \subseteq Nat
      /\ since \in 0..Len(starts) /\ Len(starts) \in Nat
      /\ NumXfers <= Len(starts) + lost
  BY DEF TypeInv, TypeOK
<1>1. CASE Frame
  <2>1. starts' \in Seq(Int) /\ Len(starts') = Len(starts) /\ next' \in Nat
    BY <1>1, Moves
  <2>2. gap' \in Nat /\ begun' \in BOOLEAN /\ late' \in BOOLEAN
    BY <1>0, <1>1 DEF Frame, TypeInv, TypeOK
  <2> QED BY <1>1, <2>1, <2>2 DEF Frame, TypeInv, TypeOK
<1>2. CASE Succeeded
  <2>1. PICK i \in 1..Len(starts) :
          /\ Submit(i, next)
          /\ since' = IF i > Len(starts) - since THEN since ELSE since + 1
    BY <1>2, Succeeds
  <2>2. starts' \in Seq(Int) /\ Len(starts') = Len(starts) /\ next' \in Nat
    BY <1>0, <2>1, Submits
  <2>3. since' \in 0..Len(starts')
    BY <1>0, <2>1, <2>2
  <2> QED BY <1>2, <2>2, <2>3 DEF Succeeded, TypeInv, TypeOK
<1>3. CASE Failed
  <2>1. PICK i \in 1..Len(starts) : Submit(i, LeadFrames)
    BY <1>3, Fails
  <2>2. starts' \in Seq(Int) /\ Len(starts') = Len(starts) /\ next' \in Nat
    BY <1>0, <2>1, Submits, Constants
  <2>3. since' \in 0..Len(starts') /\ failed' \in Nat
    <3>1. 1 \in 0..Len(starts') /\ failed \in Nat
      BY <1>0, <2>1, <2>2
    <3> QED BY <1>3, <3>1 DEF Failed
  <2> QED BY <1>3, <2>2, <2>3 DEF Failed, TypeInv, TypeOK
<1>4. CASE Lost
  <2>1. starts' \in Seq(Int) /\ Len(starts') = Len(starts) - 1 /\ next' = LeadFrames
    BY <1>4, Loses
  <2>2. since' = 0 /\ lost' = lost + 1 /\ UNCHANGED <<dir, begun, failed, late, gap>>
    BY <1>4 DEF Lost
  <2>3. Len(starts') \in Nat /\ since' \in 0..Len(starts') /\ lost' \in Nat
    BY <1>0, <2>1, <2>2
  <2>4. NumXfers <= Len(starts') + lost'
    BY <1>0, <2>1, <2>2, Constants
  <2>5. /\ next' \in Nat /\ gap' \in Nat /\ failed' \in Nat
        /\ dir' \in {"out", "in"} /\ begun' \in BOOLEAN /\ late' \in BOOLEAN
    BY <2>1, <2>2, Constants DEF TypeInv, TypeOK
  <2> QED BY <2>1, <2>3, <2>4, <2>5 DEF TypeInv, TypeOK
<1>5. CASE UNCHANGED vars
  BY <1>5 DEF vars, history, TypeInv, TypeOK
<1> QED BY <1>1, <1>2, <1>3, <1>4, <1>5 DEF Next

\* The variables of the schedule keep their types, whatever the constants.
THEOREM ScheduleTypes == Spec => []TypeOK
<1>1. TypeInv => TypeOK
  BY DEF TypeInv
<1> QED BY <1>1, TypeInit, TypeStep, PTL DEF Spec

----------------------------------------------------------------------------
(* OneTransferPerFrame.                                                    *)

\* Those submitted since the last rebase lie before the next frame to claim.
Behind ==
  \A i \in 1..Len(starts) : i > Len(starts) - since => starts[i] + AudioPkts <= next

Ordered == OneTransferPerFrame /\ Behind

LEMMA OrderedInit == Init => Ordered
<1> SUFFICES ASSUME Init PROVE Ordered
  OBVIOUS
<1>1. CASE StartPlayback
  <2> DEFINE first == LeadFrames + NumXfers * AudioPkts
  <2>1. first \in Nat /\ NumXfers * AudioPkts \in Nat
    BY Constants
  <2>2. /\ starts \in Seq(Int) /\ Len(starts) = NumXfers
        /\ \A i \in 1..NumXfers : starts[i] = first + (i - 1) * AudioPkts
        /\ next = first + NumXfers * AudioPkts
    <3>1. starts = Queued(first) /\ next = first + NumXfers * AudioPkts
      BY <1>1 DEF StartPlayback
    <3> HIDE DEF first
    <3>2. first \in Int
      BY <2>1
    <3>3. /\ Queued(first) \in Seq(Int)
          /\ Len(Queued(first)) = NumXfers
          /\ \A i \in 1..NumXfers : Queued(first)[i] = first + (i - 1) * AudioPkts
      BY <3>2, QueuedFull
    <3> QED BY <3>1, <3>3
  <2>3. ASSUME NEW i \in 1..NumXfers, NEW j \in Nat, i <= j
        PROVE  (i - 1) * AudioPkts + AudioPkts <= j * AudioPkts
    <3>1. (j - i) * AudioPkts >= 0
      BY <2>3, Constants
    <3> QED BY <3>1, Constants
  <2> HIDE DEF first
  <2>4. ASSUME NEW i \in 1..NumXfers, NEW j \in 1..NumXfers, i < j
        PROVE  starts[i] + AudioPkts <= starts[j]
    <3>1. j - 1 \in Nat /\ i <= j - 1
      BY <2>4
    <3>2. (i - 1) * AudioPkts + AudioPkts <= (j - 1) * AudioPkts
      BY <3>1, <2>3
    <3>3. (i - 1) * AudioPkts \in Int /\ (j - 1) * AudioPkts \in Int
      BY Constants
    <3>4. starts[i] = first + (i - 1) * AudioPkts /\ starts[j] = first + (j - 1) * AudioPkts
      BY <2>2
    <3> QED BY <2>1, <3>2, <3>3, <3>4, Constants
  <2>5. ASSUME NEW i \in 1..NumXfers PROVE starts[i] + AudioPkts <= next
    <3>1. (i - 1) * AudioPkts + AudioPkts <= NumXfers * AudioPkts
      BY <2>3, Constants
    <3>2. (i - 1) * AudioPkts \in Int
      BY Constants
    <3> QED BY <2>1, <2>2, <3>1, <3>2, Constants
  <2> QED BY <2>2, <2>4, <2>5 DEF Ordered, OneTransferPerFrame, Behind
<1>2. CASE StartCapture
  <2>1. starts \in Seq(Int) /\ since = 0
    BY <1>2, TypeInit DEF StartCapture, TypeInv, TypeOK
  <2>2. \A i \in 1..Len(starts) : ~(i > Len(starts) - since)
    BY <2>1
  <2> QED BY <2>1, <2>2 DEF Ordered, OneTransferPerFrame, Behind, Sequenced
<1> QED BY <1>1, <1>2 DEF Init

LEMMA OrderedStep ==
  ASSUME TypeInv, Ordered, [Next]_vars
  PROVE  Ordered'
<1> DEFINE n == Len(starts)
<1>0. /\ starts \in Seq(Int) /\ next \in Nat /\ n \in Nat /\ since \in 0..n
      /\ \A i, j \in 1..n : i < j /\ i > n - since => starts[i] + AudioPkts <= starts[j]
      /\ \A i \in 1..n : i > n - since => starts[i] + AudioPkts <= next
      /\ \A i \in 1..n : starts[i] \in Int
  <2>1. starts \in Seq(Int) /\ next \in Nat /\ since \in 0..n
    BY DEF TypeInv, TypeOK
  <2>2. n \in Nat /\ DOMAIN starts = 1..n /\ \A i \in 1..n : starts[i] \in Int
    BY <2>1
  <2>3. \A i, j \in 1..n : i < j /\ i > n - since => starts[i] + AudioPkts <= starts[j]
    BY <2>2 DEF Ordered, OneTransferPerFrame, Sequenced
  <2> QED BY <2>1, <2>2, <2>3 DEF Ordered, Behind
<1>1. CASE Frame
  <2>1. /\ starts' \in Seq(Int) /\ Len(starts') = n
        /\ \A i \in 1..n : starts'[i] = starts[i] - 1
        /\ next > 0 => next' = next - 1
        /\ next = 0 => next' = 0
        /\ since' = since
    BY <1>1, Moves DEF Frame
  <2>2. ASSUME NEW i \in 1..n, NEW j \in 1..n, i < j, i > n - since
        PROVE  starts'[i] + AudioPkts <= starts'[j]
    <3>1. starts[i] + AudioPkts <= starts[j] /\ starts[i] \in Int /\ starts[j] \in Int
      BY <1>0, <2>2
    <3>2. starts'[i] = starts[i] - 1 /\ starts'[j] = starts[j] - 1
      BY <2>1
    <3> QED BY <3>1, <3>2, Constants
  <2>3. ASSUME NEW i \in 1..n, i > n - since
        PROVE  starts'[i] + AudioPkts <= next'
    <3>1. starts[i] + AudioPkts <= next /\ starts[i] \in Int /\ next \in Nat
      BY <1>0, <2>3
    <3>2. /\ starts'[i] = starts[i] - 1
          /\ next > 0 => next' = next - 1
          /\ next = 0 => next' = 0
      BY <2>1
    <3> QED BY <3>1, <3>2, Constants
  <2>4. OneTransferPerFrame'
    BY <2>1, <2>2 DEF OneTransferPerFrame, Sequenced
  <2>5. Behind'
    BY <2>1, <2>3 DEF Behind
  <2> QED BY <2>4, <2>5 DEF Ordered
<1>2. CASE Succeeded
  <2>1. PICK i \in 1..n :
          /\ Submit(i, next)
          /\ since' = IF i > n - since THEN since ELSE since + 1
    BY <1>2, Succeeds
  <2> DEFINE g == IF next > 0 THEN next ELSE LeadFrames
  <2>9. g \in Nat /\ g >= next
    BY <1>0, Constants
  <2>10. /\ starts' \in Seq(Int) /\ Len(starts') = n
         /\ \A k \in 1..(n - 1) :
              starts'[k] = IF k < i THEN starts[k] ELSE starts[k + 1]
         /\ starts'[n] = g
         /\ next' = g + AudioPkts
    BY <1>0, <2>1, Submits
  <2> HIDE DEF g
  <2>2. PICK f \in Nat :
          /\ f >= next
          /\ starts' \in Seq(Int) /\ Len(starts') = n
          /\ \A k \in 1..(n - 1) :
               starts'[k] = IF k < i THEN starts[k] ELSE starts[k + 1]
          /\ starts'[n] = f
          /\ next' = f + AudioPkts
    BY <2>9, <2>10
  <2>3. ASSUME NEW k \in 1..(n - 1), k > n - since'
        PROVE  \E j \in 1..n : /\ j > n - since /\ starts'[k] = starts[j]
                               /\ j = IF k < i THEN k ELSE k + 1
    <3> DEFINE j == IF k < i THEN k ELSE k + 1
    <3>1. j \in 1..n
      BY <1>0, <2>1
    <3>3. starts'[k] = starts[j]
      BY <2>2
    <3>2. j > n - since
      <4>1. CASE i > n - since
        BY <4>1, <1>0, <2>1, <2>3
      <4>2. CASE ~(i > n - since)
        BY <4>2, <1>0, <2>1, <2>3
      <4> QED BY <4>1, <4>2
    <3> HIDE DEF j
    <3>4. j = IF k < i THEN k ELSE k + 1
      BY DEF j
    <3> QED BY <3>1, <3>2, <3>3, <3>4
  <2>4. ASSUME NEW k \in 1..(n - 1), NEW l \in 1..(n - 1), k < l, k > n - since'
        PROVE  starts'[k] + AudioPkts <= starts'[l]
    <3>1. since' \in Nat /\ l > n - since'
      BY <1>0, <2>1, <2>4
    <3>2. PICK j \in 1..n : /\ j > n - since /\ starts'[k] = starts[j]
                            /\ j = IF k < i THEN k ELSE k + 1
      BY <2>3, <2>4
    <3>3. PICK m \in 1..n : /\ m > n - since /\ starts'[l] = starts[m]
                            /\ m = IF l < i THEN l ELSE l + 1
      BY <2>3, <3>1
    <3>4. j < m
      BY <2>4, <3>2, <3>3
    <3> QED BY <1>0, <3>2, <3>3, <3>4
  <2>5. ASSUME NEW k \in 1..(n - 1), k > n - since'
        PROVE  starts'[k] + AudioPkts <= f
    <3>1. PICK j \in 1..n : j > n - since /\ starts'[k] = starts[j]
      BY <2>3, <2>5
    <3>2. starts[j] + AudioPkts <= next /\ starts[j] \in Int /\ next \in Nat
      BY <1>0, <3>1
    <3>3. f \in Nat /\ next <= f
      BY <1>0, <2>2
    <3> QED BY <3>1, <3>2, <3>3, Constants
  <2>6. OneTransferPerFrame'
    <3> SUFFICES ASSUME NEW k \in 1..n, NEW l \in 1..n, k < l, k > n - since'
                 PROVE  starts'[k] + AudioPkts <= starts'[l]
      BY <2>2 DEF OneTransferPerFrame, Sequenced
    <3>1. k \in 1..(n - 1) /\ (l = n \/ l \in 1..(n - 1))
      BY <1>0
    <3> QED BY <2>2, <2>4, <2>5, <3>1
  <2>7. Behind'
    <3> SUFFICES ASSUME NEW k \in 1..n, k > n - since'
                 PROVE  starts'[k] + AudioPkts <= next'
      BY <2>2 DEF Behind
    <3>1. CASE k = n
      BY <2>2, <3>1, Constants
    <3>2. CASE k # n
      <4>1. starts'[k] + AudioPkts <= f /\ starts'[k] \in Int
        <5>1. k \in 1..(n - 1)
          BY <1>0, <3>2
        <5> QED BY <2>2, <2>5, <5>1, ElementOfSeq
      <4> QED BY <4>1, <2>2, Constants
    <3> QED BY <3>1, <3>2
  <2> QED BY <2>6, <2>7 DEF Ordered
<1>3. CASE Failed
  <2>1. PICK i \in 1..n : Submit(i, LeadFrames)
    BY <1>3, Fails
  <2>2. /\ starts' \in Seq(Int) /\ Len(starts') = n
        /\ next' = starts'[n] + AudioPkts
        /\ since' = 1
    BY <1>0, <1>3, <2>1, Submits, Constants DEF Failed
  <2>3. \A k \in 1..n : k > n - 1 => k = n
    BY <1>0
  <2>4. OneTransferPerFrame'
    BY <2>2, <2>3 DEF OneTransferPerFrame, Sequenced
  <2>5. starts'[n] \in Int
    BY <1>0, <2>2, ElementOfSeq
  <2>6. starts'[n] + AudioPkts <= next'
    BY <2>2, <2>5, Constants
  <2>7. Behind'
    BY <2>2, <2>3, <2>6 DEF Behind
  <2> QED BY <2>4, <2>7 DEF Ordered
<1>4. CASE Lost
  <2>1. starts' \in Seq(Int) /\ since' = 0
    BY <1>4, Loses DEF Lost
  <2> QED BY <2>1 DEF Ordered, OneTransferPerFrame, Behind, Sequenced
<1>5. CASE UNCHANGED vars
  BY <1>5 DEF vars, history, Ordered, OneTransferPerFrame, Behind, Sequenced
<1> QED BY <1>1, <1>2, <1>3, <1>4, <1>5 DEF Next

\* Whatever fails, and whenever, the transfers submitted since claim frames of
\* their own, for every number, length and lead of the transfers.
THEOREM OneTransferPerFrameTheorem == Spec => []OneTransferPerFrame
<1>1. Init => TypeInv /\ Ordered
  BY TypeInit, OrderedInit
<1>2. TypeInv /\ Ordered /\ [Next]_vars => (TypeInv /\ Ordered)'
  BY TypeStep, OrderedStep
<1>3. Ordered => OneTransferPerFrame
  BY DEF Ordered
<1> QED BY <1>1, <1>2, <1>3, PTL DEF Spec

----------------------------------------------------------------------------
(* DrainOutlastsQueue.                                                     *)

\* No transfer is ever queued to end later than this.
Horizon == LeadFrames + 2 * (NumXfers * AudioPkts)

\* The last k transfers of the queue keep up with the next frame to claim, which
\* each of the others, when its callback runs, may move on by one transfer.
KeepsUp(k) ==
  /\ next + (Len(starts) - k) * AudioPkts <= Horizon
  /\ \A i \in 1..Len(starts) :
       i > Len(starts) - k => next <= starts[i] + (Len(starts) - i + 1) * AudioPkts

Bounded ==
  /\ Len(starts) <= 2 * NumXfers
  /\ \A i \in 1..Len(starts) : starts[i] + AudioPkts <= Horizon
  /\ \E k \in 0..Len(starts) : KeepsUp(k)

LEMMA Products ==
  /\ NumXfers * AudioPkts \in Nat /\ Horizon \in Nat
  /\ AudioPkts <= NumXfers * AudioPkts
  /\ \A k \in Nat : /\ k * AudioPkts \in Nat
                    /\ (k + 1) * AudioPkts = k * AudioPkts + AudioPkts
                    /\ k <= 2 * NumXfers => k * AudioPkts <= 2 * (NumXfers * AudioPkts)
                    /\ k <= NumXfers => k * AudioPkts <= NumXfers * AudioPkts
<1>1. NumXfers * AudioPkts \in Nat /\ Horizon \in Nat /\ AudioPkts <= NumXfers * AudioPkts
  BY Constants DEF Horizon
<1>2. ASSUME NEW k \in Nat, NEW m \in Nat, k <= m PROVE k * AudioPkts <= m * AudioPkts
  <2>1. (m - k) * AudioPkts >= 0
    BY <1>2, Constants
  <2> QED BY <2>1, Constants
<1>3. ASSUME NEW k \in Nat
      PROVE  /\ k * AudioPkts \in Nat
             /\ (k + 1) * AudioPkts = k * AudioPkts + AudioPkts
             /\ k <= 2 * NumXfers => k * AudioPkts <= 2 * (NumXfers * AudioPkts)
             /\ k <= NumXfers => k * AudioPkts <= NumXfers * AudioPkts
  <2>1. (2 * NumXfers) * AudioPkts = 2 * (NumXfers * AudioPkts) /\ 2 * NumXfers \in Nat
    BY Constants
  <2>2. k <= 2 * NumXfers => k * AudioPkts <= 2 * (NumXfers * AudioPkts)
    BY <2>1, <1>2
  <2>3. k <= NumXfers => k * AudioPkts <= NumXfers * AudioPkts
    BY <1>2, Constants
  <2>4. k * AudioPkts \in Nat /\ (k + 1) * AudioPkts = k * AudioPkts + AudioPkts
    BY Constants
  <2> QED BY <2>2, <2>3, <2>4
<1> QED BY <1>1, <1>3

LEMMA BoundedInit == Init => Bounded
<1> SUFFICES ASSUME Init PROVE Bounded
  OBVIOUS
<1>1. CASE StartPlayback
  <2> DEFINE first == LeadFrames + NumXfers * AudioPkts
  <2>1. first \in Int /\ next = first + NumXfers * AudioPkts /\ starts = Queued(first)
    BY <1>1, Constants DEF StartPlayback
  <2>2. first + NumXfers * AudioPkts = Horizon
    BY Products, Constants DEF Horizon
  <2> HIDE DEF first
  <2>3. /\ Len(starts) = NumXfers
        /\ \A i \in 1..NumXfers : starts[i] = first + (i - 1) * AudioPkts
    BY <2>1, QueuedFull
  <2>4. ASSUME NEW i \in 1..NumXfers
        PROVE  /\ starts[i] + AudioPkts <= Horizon
               /\ next <= starts[i] + (NumXfers - i + 1) * AudioPkts
    <3>1. starts[i] = first + (i - 1) * AudioPkts
      BY <2>3
    <3>2. i \in Nat /\ i - 1 \in Nat /\ i <= NumXfers /\ i - 1 + 1 = i
      BY Constants
    <3>3. i * AudioPkts = (i - 1) * AudioPkts + AudioPkts /\ i * AudioPkts <= NumXfers * AudioPkts
      BY <3>2, Products
    <3>4. (NumXfers - i + 1) * AudioPkts + (i - 1) * AudioPkts = NumXfers * AudioPkts
      BY <3>2, Constants
    <3>5. (i - 1) * AudioPkts \in Int /\ (NumXfers - i + 1) * AudioPkts \in Int
      BY Constants
    <3>6. starts[i] + AudioPkts <= Horizon
      BY <3>1, <3>3, <3>5, <2>1, <2>2, Products, Constants
    <3>7. next <= starts[i] + (NumXfers - i + 1) * AudioPkts
      BY <3>1, <3>4, <3>5, <2>1, Products, Constants
    <3> QED BY <3>6, <3>7
  <2>5. KeepsUp(NumXfers)
    <3>1. (NumXfers - NumXfers) * AudioPkts = 0
      BY Constants
    <3>2. next + (NumXfers - NumXfers) * AudioPkts <= Horizon
      BY <3>1, <2>1, <2>2, Products
    <3> QED BY <3>2, <2>3, <2>4 DEF KeepsUp
  <2> QED BY <2>3, <2>4, <2>5, Constants DEF Bounded
<1>2. CASE StartCapture
  <2>1. PICK aborted \in 0..NumXfers, poll \in 0..AbortPoll, ago \in 0..AudioPkts :
          starts = [i \in 1..aborted |-> LeadFrames - poll - ago]
                     \o Queued(LeadFrames - ago)
    BY <1>2 DEF StartCapture
  <2> DEFINE early == [i \in 1..aborted |-> LeadFrames - poll - ago]
             again == Queued(LeadFrames - ago)
  <2>2. LeadFrames - ago \in Int /\ LeadFrames - poll - ago \in Int
    BY Constants
  <2>3. /\ early \in Seq(Int) /\ Len(early) = aborted
        /\ \A i \in 1..aborted : early[i] = LeadFrames - poll - ago
    BY <2>2, Constants
  <2>4. /\ again \in Seq(Int) /\ Len(again) = NumXfers
        /\ \A i \in 1..NumXfers : again[i] = LeadFrames - ago + (i - 1) * AudioPkts
    BY <2>2, QueuedFull
  <2>5. starts = early \o again
    BY <2>1
  <2> HIDE DEF early, again
  <2>6. /\ Len(starts) = aborted + NumXfers
        /\ \A i \in 1..(aborted + NumXfers) :
             starts[i] = IF i <= aborted THEN early[i] ELSE again[i - aborted]
    <3>1. /\ Len(early \o again) = Len(early) + Len(again)
          /\ \A i \in 1..(Len(early) + Len(again)) :
               (early \o again)[i] = IF i <= Len(early) THEN early[i] ELSE again[i - Len(early)]
      BY <2>3, <2>4, ConcatProperties
    <3> QED BY <2>3, <2>4, <2>5, <3>1
  <2>7. ASSUME NEW i \in 1..(aborted + NumXfers)
        PROVE  starts[i] + AudioPkts <= Horizon
    <3>1. CASE i <= aborted
      <4>1. starts[i] = LeadFrames - poll - ago
        BY <2>3, <2>6, <3>1
      <4> QED BY <4>1, Products, Constants DEF Horizon
    <3>2. CASE ~(i <= aborted)
      <4>1. PICK j \in 1..NumXfers : j = i - aborted
        BY <3>2, Constants
      <4>2. starts[i] = LeadFrames - ago + (j - 1) * AudioPkts
        BY <2>4, <2>6, <3>2, <4>1
      <4>3. j - 1 \in Nat /\ j \in Nat /\ j <= NumXfers /\ j - 1 + 1 = j
        BY Constants
      <4>4. /\ j * AudioPkts = (j - 1) * AudioPkts + AudioPkts
            /\ j * AudioPkts <= NumXfers * AudioPkts
            /\ (j - 1) * AudioPkts \in Nat
        BY <4>3, Products
      <4> QED BY <4>2, <4>4, Products, Constants DEF Horizon
    <3> QED BY <3>1, <3>2
  <2>8. next = LeadFrames
    BY <1>2 DEF StartCapture
  <2>9. aborted + NumXfers \in Nat /\ aborted + NumXfers <= 2 * NumXfers
    BY Constants
  <2>10. KeepsUp(0)
    <3>1. (aborted + NumXfers) * AudioPkts <= 2 * (NumXfers * AudioPkts)
      <4>1. \A c \in Nat : c <= 2 * NumXfers => c * AudioPkts <= 2 * (NumXfers * AudioPkts)
        BY Products
      <4> QED BY <2>9, <4>1
    <3>2. aborted + NumXfers - 0 = aborted + NumXfers /\ (aborted + NumXfers) * AudioPkts \in Nat
      BY <2>9, Constants
    <3>3. next + (Len(starts) - 0) * AudioPkts <= Horizon
      BY <2>6, <2>8, <3>1, <3>2, Products, Constants DEF Horizon
    <3>4. \A i \in 1..Len(starts) : ~(i > Len(starts) - 0)
      BY <2>6, <2>9
    <3> QED BY <3>3, <3>4 DEF KeepsUp
  <2> QED BY <2>6, <2>7, <2>9, <2>10 DEF Bounded
<1> QED BY <1>1, <1>2 DEF Init

\* A callback that claims frame f as it moves transfer i to the end of the queue.
LEMMA BoundedSubmit ==
  ASSUME TypeInv, Bounded, NEW i \in 1..Len(starts), Due(i), NEW frame \in Nat,
         frame = next \/ frame = LeadFrames, Submit(i, frame)
  PROVE  Bounded'
<1> DEFINE n == Len(starts)
           f == IF frame > 0 THEN frame ELSE LeadFrames
<1>0. /\ starts \in Seq(Int) /\ next \in Nat /\ n \in Nat /\ n >= 1
      /\ n <= 2 * NumXfers
      /\ \A j \in 1..n : starts[j] \in Int /\ starts[j] + AudioPkts <= Horizon
  <2>1. starts \in Seq(Int) /\ next \in Nat
    BY DEF TypeInv, TypeOK
  <2>2. n \in Nat /\ n >= 1 /\ \A j \in 1..n : starts[j] \in Int
    BY <2>1
  <2> QED BY <2>1, <2>2 DEF Bounded
<1>1. /\ starts' \in Seq(Int) /\ Len(starts') = n
      /\ \A k \in 1..(n - 1) : starts'[k] = IF k < i THEN starts[k] ELSE starts[k + 1]
      /\ starts'[n] = f
      /\ next' = f + AudioPkts
  BY <1>0, Submits
<1>2. PICK k \in 0..n : KeepsUp(k)
  BY DEF Bounded
<1>3. f \in Nat /\ (f = next \/ f = LeadFrames)
  BY Constants
<1> HIDE DEF f
<1>4. /\ next + (n - k) * AudioPkts <= Horizon
      /\ \A j \in 1..n : j > n - k => next <= starts[j] + (n - j + 1) * AudioPkts
  BY <1>2 DEF KeepsUp
<1>5. starts[i] + AudioPkts <= 0 /\ starts[i] \in Int
  <2>1. starts[i] \in Int
    BY <1>0
  <2>2. -(starts[i] + AudioPkts) >= 0
    BY DEF Due, Waited
  <2> QED BY <2>1, <2>2, Constants
\* It is enough to find out how many of the last transfers keep up.
<1>6. ASSUME NEW m \in 1..n,
             next' + (n - m) * AudioPkts <= Horizon,
             \A j \in 1..(n - 1) :
               j > n - m => next' <= starts'[j] + (n - j + 1) * AudioPkts
      PROVE  Bounded'
  <2>1. next' <= starts'[n] + (n - n + 1) * AudioPkts
    BY <1>0, <1>1, <1>3, Constants
  <2>2. \A j \in 1..n : j = n \/ j \in 1..(n - 1)
    BY <1>0
  <2>3. KeepsUp(m)'
    BY <1>1, <1>6, <2>1, <2>2 DEF KeepsUp
  <2>4. m \in 0..Len(starts')
    BY <1>1
  <2>5. ASSUME NEW j \in 1..n PROVE starts'[j] + AudioPkts <= Horizon
    <3>1. CASE j = n
      <4>1. (n - m) * AudioPkts >= 0 /\ (n - m) * AudioPkts \in Int
        BY <1>0, Constants
      <4>2. next' <= Horizon
        <5>1. next' \in Int /\ Horizon \in Nat
          BY <1>1, <1>3, Products, Constants
        <5> QED BY <4>1, <5>1, <1>6
      <4> QED BY <3>1, <4>2, <1>1
    <3>2. CASE j # n
      <4>1. j \in 1..(n - 1)
        BY <1>0, <3>2
      <4>2. PICK l \in 1..n : starts'[j] = starts[l]
        BY <1>0, <1>1, <4>1
      <4> QED BY <1>0, <4>2
    <3> QED BY <3>1, <3>2
  <2> QED BY <1>0, <1>1, <2>3, <2>4, <2>5 DEF Bounded
<1>7. CASE f = LeadFrames
  <2>1. next' + (n - 1) * AudioPkts <= Horizon
    <3>1. n - 1 \in Nat /\ n - 1 + 1 = n
      BY <1>0
    <3>2. /\ n * AudioPkts = (n - 1) * AudioPkts + AudioPkts
          /\ (n - 1) * AudioPkts \in Nat
          /\ n * AudioPkts <= 2 * (NumXfers * AudioPkts)
      BY <1>0, <3>1, Products
    <3>3. next' = LeadFrames + AudioPkts
      BY <1>1, <1>7
    <3> QED BY <3>2, <3>3, Products, Constants DEF Horizon
  <2>2. \A j \in 1..(n - 1) : ~(j > n - 1)
    BY <1>0
  <2>3. 1 \in 1..n
    BY <1>0
  <2> QED BY <1>6, <2>1, <2>2, <2>3
<1>8. CASE f = next /\ i <= n - k
  <2>1. k + 1 \in 1..n
    BY <1>0, <1>8
  <2>2. next' = next + AudioPkts
    BY <1>1, <1>8
  <2>3. next' + (n - (k + 1)) * AudioPkts <= Horizon
    <3>1. (n - (k + 1)) * AudioPkts + AudioPkts = (n - k) * AudioPkts
      BY <1>0, Constants
    <3>2. (n - (k + 1)) * AudioPkts \in Int
      BY <1>0, Constants
    <3> QED BY <1>0, <1>4, <2>2, <3>1, <3>2, Products, Constants
  <2>4. ASSUME NEW j \in 1..(n - 1), j > n - (k + 1)
        PROVE  next' <= starts'[j] + (n - j + 1) * AudioPkts
    <3>1. starts'[j] = starts[j + 1] /\ j + 1 \in 1..n /\ j + 1 > n - k
      <4>1. j >= n - k /\ j + 1 \in 1..n
        BY <1>0, <2>4
      <4>2. ~(j < i)
        BY <1>0, <1>8, <4>1
      <4>3. starts'[j] = starts[j + 1]
        BY <1>1, <4>2
      <4> QED BY <1>0, <4>1, <4>3
    <3>2. next <= starts[j + 1] + (n - (j + 1) + 1) * AudioPkts /\ starts[j + 1] \in Int
      BY <1>0, <1>4, <3>1
    <3>3. n - (j + 1) + 1 = n - j /\ (n - j + 1) * AudioPkts = (n - j) * AudioPkts + AudioPkts
      BY <1>0, Constants
    <3>4. (n - j) * AudioPkts \in Int /\ next \in Nat
      BY <1>0, Constants
    <3>5. next <= starts[j + 1] + (n - j) * AudioPkts
      BY <3>2, <3>3
    <3>6. next + AudioPkts <= starts[j + 1] + ((n - j) * AudioPkts + AudioPkts)
      BY <3>2, <3>4, <3>5, Constants
    <3> QED BY <2>2, <3>1, <3>3, <3>6
  <2> QED BY <1>6, <2>1, <2>3, <2>4
<1>9. CASE f = next /\ ~(i <= n - k)
  <2>1. n - i + 1 \in 1..n /\ n - (n - i + 1) = i - 1
    BY <1>0
  <2>2. next <= (n - i) * AudioPkts
    <3>1. next <= starts[i] + (n - i + 1) * AudioPkts
      BY <1>0, <1>4, <1>9
    <3>2. (n - i + 1) * AudioPkts = (n - i) * AudioPkts + AudioPkts /\ (n - i) * AudioPkts \in Int
      BY <1>0, Constants
    <3> QED BY <1>0, <1>5, <3>1, <3>2, Constants
  <2>3. next' = next + AudioPkts
    BY <1>1, <1>9
  <2>4. next' + (i - 1) * AudioPkts <= Horizon
    <3>1. (n - i) * AudioPkts + AudioPkts + (i - 1) * AudioPkts = n * AudioPkts
      BY <1>0, Constants
    <3>2. n * AudioPkts <= 2 * (NumXfers * AudioPkts)
      BY <1>0, Products
    <3>3. (n - i) * AudioPkts \in Int /\ (i - 1) * AudioPkts \in Int /\ n * AudioPkts \in Int
      BY <1>0, Constants
    <3>4. next + AudioPkts + (i - 1) * AudioPkts <= n * AudioPkts
      BY <1>0, <2>2, <3>1, <3>3, Constants
    <3>5. 2 * (NumXfers * AudioPkts) <= Horizon /\ 2 * (NumXfers * AudioPkts) \in Nat
          /\ Horizon \in Nat
      BY Constants DEF Horizon
    <3>6. n * AudioPkts <= Horizon
      BY <3>2, <3>3, <3>5
    <3>7. next + AudioPkts + (i - 1) * AudioPkts \in Int
      BY <1>0, <3>3, Constants
    <3> QED BY <2>3, <3>3, <3>4, <3>5, <3>6, <3>7
  <2>5. ASSUME NEW j \in 1..(n - 1), j > n - (n - i + 1)
        PROVE  next' <= starts'[j] + (n - j + 1) * AudioPkts
    <3>1. starts'[j] = starts[j + 1] /\ j + 1 \in 1..n /\ j + 1 > n - k
      <4>1. j >= i /\ j + 1 \in 1..n
        BY <1>0, <2>1, <2>5
      <4>2. starts'[j] = starts[j + 1]
        BY <1>1, <4>1
      <4> QED BY <1>0, <1>9, <4>1, <4>2
    <3>2. next <= starts[j + 1] + (n - (j + 1) + 1) * AudioPkts /\ starts[j + 1] \in Int
      BY <1>0, <1>4, <3>1
    <3>3. n - (j + 1) + 1 = n - j /\ (n - j + 1) * AudioPkts = (n - j) * AudioPkts + AudioPkts
      BY <1>0, Constants
    <3>4. (n - j) * AudioPkts \in Int /\ next \in Nat
      BY <1>0, Constants
    <3>5. next <= starts[j + 1] + (n - j) * AudioPkts
      BY <3>2, <3>3
    <3>6. next + AudioPkts <= starts[j + 1] + ((n - j) * AudioPkts + AudioPkts)
      BY <3>2, <3>4, <3>5, Constants
    <3> QED BY <2>3, <3>1, <3>3, <3>6
  <2> QED BY <1>6, <2>1, <2>4, <2>5
<1> QED BY <1>3, <1>7, <1>8, <1>9

LEMMA BoundedStep ==
  ASSUME TypeInv, Bounded, [Next]_vars
  PROVE  Bounded'
<1> DEFINE n == Len(starts)
<1>0. /\ starts \in Seq(Int) /\ next \in Nat /\ n \in Nat /\ n <= 2 * NumXfers
      /\ \A j \in 1..n : starts[j] \in Int /\ starts[j] + AudioPkts <= Horizon
  <2>1. starts \in Seq(Int) /\ next \in Nat
    BY DEF TypeInv, TypeOK
  <2>2. n \in Nat /\ \A j \in 1..n : starts[j] \in Int
    BY <2>1
  <2> QED BY <2>1, <2>2 DEF Bounded
<1>1. CASE Frame
  <2>1. /\ Len(starts') = n
        /\ \A i \in 1..n : starts'[i] = starts[i] - 1
        /\ next > 0 => next' = next - 1
        /\ next = 0 => next' = 0
    BY <1>1, Moves
  <2>2. PICK k \in 0..n : KeepsUp(k)
    BY DEF Bounded
  <2>3. /\ next + (n - k) * AudioPkts <= Horizon
        /\ \A j \in 1..n : j > n - k => next <= starts[j] + (n - j + 1) * AudioPkts
        /\ (n - k) * AudioPkts \in Int
    BY <1>0, <2>2, Constants DEF KeepsUp
  <2>4. ASSUME NEW j \in 1..n PROVE starts'[j] + AudioPkts <= Horizon
    <3>1. starts[j] \in Int /\ starts[j] + AudioPkts <= Horizon /\ starts'[j] = starts[j] - 1
      BY <1>0, <2>1
    <3> QED BY <3>1, Products, Constants
  <2>5. CASE next > 0
    <3>1. next' + (n - k) * AudioPkts <= Horizon
      <4>1. next' = next - 1 /\ next \in Nat /\ Horizon \in Nat
        BY <1>0, <2>1, <2>5, Products
      <4> QED BY <2>3, <4>1
    <3>2. ASSUME NEW j \in 1..n, j > n - k
          PROVE  next' <= starts'[j] + (n - j + 1) * AudioPkts
      <4>1. next <= starts[j] + (n - j + 1) * AudioPkts /\ starts[j] \in Int
        BY <1>0, <2>3, <3>2
      <4>2. (n - j + 1) * AudioPkts \in Int
        BY <1>0, Constants
      <4>3. starts'[j] = starts[j] - 1 /\ next' = next - 1
        BY <2>1, <2>5
      <4>4. next \in Nat
        BY <1>0
      <4> QED BY ONLY <4>1, <4>2, <4>3, <4>4
    <3>3. KeepsUp(k)'
      BY <2>1, <3>1, <3>2 DEF KeepsUp
    <3> QED BY <1>0, <2>1, <2>4, <3>3 DEF Bounded
  <2>6. CASE next = 0
    <3>1. n - 0 = n /\ n * AudioPkts <= 2 * (NumXfers * AudioPkts) /\ n * AudioPkts \in Nat
      BY <1>0, Products
    <3>2. next' + (n - 0) * AudioPkts <= Horizon
      BY <2>1, <2>6, <3>1, Products, Constants DEF Horizon
    <3>3. \A j \in 1..n : ~(j > n - 0)
      BY <1>0
    <3>4. KeepsUp(0)'
      BY <2>1, <3>2, <3>3 DEF KeepsUp
    <3> QED BY <1>0, <2>1, <2>4, <3>4 DEF Bounded
  <2> QED BY <1>0, <2>5, <2>6
<1>2. CASE Succeeded
  <2>1. PICK i \in 1..n : Due(i) /\ Submit(i, next)
    BY <1>2, Succeeds
  <2> QED BY <1>0, <2>1, BoundedSubmit
<1>3. CASE Failed
  <2>1. PICK i \in 1..n : Due(i) /\ Submit(i, LeadFrames)
    BY <1>3, Fails
  <2> QED BY <2>1, BoundedSubmit, Constants
<1>4. CASE Lost
  <2>1. PICK i \in 1..n :
          \A k \in 1..(n - 1) : starts'[k] = IF k < i THEN starts[k] ELSE starts[k + 1]
    BY <1>4, Loses
  <2>2. /\ Len(starts') = n - 1 /\ next' = LeadFrames /\ i \in 1..n
    BY <1>0, <1>4, <2>1, Loses
  <2>3. ASSUME NEW j \in 1..(n - 1) PROVE starts'[j] + AudioPkts <= Horizon
    <3>0. j \in 1..n /\ j + 1 \in 1..n
      BY <1>0
    <3>1. PICK l \in 1..n : starts'[j] = starts[l]
      BY <2>1, <3>0
    <3> QED BY <1>0, <3>1
  <2>4. KeepsUp(0)'
    <3>1. n - 1 \in Nat /\ n - 1 - 0 = n - 1 /\ n - 1 <= 2 * NumXfers
      BY <1>0, <2>2, Constants
    <3>2. (n - 1) * AudioPkts <= 2 * (NumXfers * AudioPkts) /\ (n - 1) * AudioPkts \in Nat
      BY <3>1, Products
    <3>3. next' + (n - 1 - 0) * AudioPkts <= Horizon
      BY <2>2, <3>1, <3>2, Products, Constants DEF Horizon
    <3>4. \A j \in 1..(n - 1) : ~(j > n - 1 - 0)
      BY <3>1
    <3> QED BY <2>2, <3>3, <3>4 DEF KeepsUp
  <2>5. 0 \in 0..(n - 1) /\ n - 1 <= 2 * NumXfers
    BY <1>0, <2>2, Constants
  <2> QED BY <2>2, <2>3, <2>4, <2>5 DEF Bounded
<1>5. CASE UNCHANGED vars
  BY <1>5 DEF vars, history, Bounded, KeepsUp
<1> QED BY <1>1, <1>2, <1>3, <1>4, <1>5 DEF Next

\* A drain as long as the lead, twice the queue and a hold of the thread outlasts
\* every transfer of either direction, whatever failed before.
THEOREM DrainTheorem ==
  Horizon + MaxHold <= DrainFrames => (Spec => []DrainOutlastsQueue)
<1> SUFFICES ASSUME Horizon + MaxHold <= DrainFrames
             PROVE  Spec => []DrainOutlastsQueue
  OBVIOUS
<1>1. Init => TypeInv /\ Bounded
  BY TypeInit, BoundedInit
<1>2. TypeInv /\ Bounded /\ [Next]_vars => (TypeInv /\ Bounded)'
  BY TypeStep, BoundedStep
<1>3. TypeInv /\ Bounded => DrainOutlastsQueue
  <2> SUFFICES ASSUME TypeInv, Bounded, NEW i \in DOMAIN starts
               PROVE  starts[i] + AudioPkts + MaxHold <= DrainFrames
    BY DEF DrainOutlastsQueue
  <2>1. i \in 1..Len(starts) /\ starts[i] \in Int
    BY DEF TypeInv, TypeOK
  <2>2. starts[i] + AudioPkts <= Horizon
    BY <2>1 DEF Bounded
  <2> QED BY <2>1, <2>2, Products, Constants
<1> QED BY <1>1, <1>2, <1>3, PTL DEF Spec

----------------------------------------------------------------------------
(* NeverDry.                                                               *)

\* The frames of the other transfers of the queue.
Slack == (NumXfers - 1) * AudioPkts

\* Undisturbed playback is one chain of transfers, whose end is next_out_frame
\* and whose first one the bus has reached once it has begun.
Unbroken ==
  /\ Len(starts) = NumXfers
  /\ \A i \in 1..NumXfers : starts[i] = starts[1] + (i - 1) * AudioPkts
  /\ next = starts[1] + NumXfers * AudioPkts
  /\ begun => starts[1] <= 0
  /\ -(starts[1] + AudioPkts) < Tolerated

Undisturbed == dir = "out" /\ ~late /\ failed = 0 /\ lost = 0

Steady == Undisturbed => Unbroken

LEMMA SteadyFrame ==
  ASSUME Tolerated <= Slack, TypeInv, Unbroken, Frame, ~late'
  PROVE  Unbroken'
<1>0. /\ starts \in Seq(Int) /\ next \in Nat /\ Len(starts) = NumXfers
      /\ \A i \in 1..NumXfers : starts[i] = starts[1] + (i - 1) * AudioPkts
      /\ next = starts[1] + NumXfers * AudioPkts
      /\ begun => starts[1] <= 0
      /\ -(starts[1] + AudioPkts) < Tolerated
  BY DEF TypeInv, TypeOK, Unbroken
<1>1. starts[1] \in Int /\ 1 \in 1..NumXfers
  BY <1>0, Constants
<1>2. /\ starts' \in Seq(Int) /\ Len(starts') = NumXfers
      /\ \A i \in 1..NumXfers : starts'[i] = starts[i] - 1
      /\ next > 0 => next' = next - 1
  BY <1>0, Moves
<1>3. starts'[1] = starts[1] - 1
  BY <1>1, <1>2
<1>4. ASSUME NEW i \in 1..NumXfers
      PROVE  starts'[i] = starts'[1] + (i - 1) * AudioPkts
  <2>1. starts[i] = starts[1] + (i - 1) * AudioPkts /\ starts'[i] = starts[i] - 1
    BY <1>0, <1>2
  <2>2. (i - 1) * AudioPkts \in Int
    BY Constants
  <2> QED BY <1>1, <1>3, <2>1, <2>2
<1>5. next' = starts'[1] + NumXfers * AudioPkts
  <2>1. NumXfers * AudioPkts = Slack + AudioPkts /\ Slack \in Int /\ NumXfers * AudioPkts \in Int
    BY Constants DEF Slack
  <2>2. next > 0
    <3>1. next = starts[1] + (Slack + AudioPkts)
      BY <1>0, <2>1
    <3>2. -(starts[1] + AudioPkts) < Slack
      BY <1>0, <1>1, <2>1, Constants
    <3> QED BY ONLY <1>1, <2>1, <3>1, <3>2, Constants
  <2> QED BY <1>0, <1>1, <1>2, <1>3, <2>1, <2>2
<1>6. begun' => starts'[1] <= 0
  <2>1. CASE begun
    BY <2>1, <1>0, <1>1, <1>3
  <2>2. CASE Covered(starts')
    <3>1. PICK i \in 1..NumXfers : starts'[i] <= 0
      BY <2>2, <1>2 DEF Covered
    <3>2. starts'[i] = starts'[1] + (i - 1) * AudioPkts /\ (i - 1) * AudioPkts >= 0
      BY <1>4, Constants
    <3> QED BY <1>1, <1>3, <3>1, <3>2, Constants
  <2> QED BY <2>1, <2>2 DEF Frame
<1>7. -(starts'[1] + AudioPkts) < Tolerated
  <2>0. 1 \in DOMAIN starts
    BY <1>0, <1>1
  <2>1. ~(Waited(starts'[1]) >= Tolerated)
    BY <2>0, Zenon DEF Frame
  <2>2. starts'[1] \in Int
    BY <1>1, <1>3
  <2> QED BY <2>1, <2>2, Constants DEF Waited
<1> QED BY <1>2, <1>4, <1>5, <1>6, <1>7 DEF Unbroken

LEMMA SteadySucceeded ==
  ASSUME Tolerated <= Slack, TypeInv, Unbroken, Succeeded
  PROVE  Unbroken'
<1>0. /\ starts \in Seq(Int) /\ next \in Nat /\ Len(starts) = NumXfers
      /\ \A i \in 1..NumXfers : starts[i] = starts[1] + (i - 1) * AudioPkts
      /\ next = starts[1] + NumXfers * AudioPkts
      /\ begun => starts[1] <= 0
      /\ -(starts[1] + AudioPkts) < Tolerated
  BY DEF TypeInv, TypeOK, Unbroken
<1>1. starts[1] \in Int /\ 1 \in 1..NumXfers
  BY <1>0, Constants
<1>2. PICK i \in 1..NumXfers : Due(i) /\ Submit(i, next)
  BY <1>0, Succeeds
<1>3. i = 1
  <2>1. starts[i] = starts[1] + (i - 1) * AudioPkts /\ (i - 1) * AudioPkts >= 0
        /\ (i - 1) * AudioPkts \in Int
    BY <1>0, Constants
  <2>2. starts[i] < starts[1] \/ i <= 1
    <3>1. 1 \in DOMAIN starts
      BY <1>0, <1>1
    <3> QED BY <1>2, <3>1 DEF Due
  <2> QED BY <1>1, <2>1, <2>2
<1>4. next > 0
  <2>1. NumXfers * AudioPkts = Slack + AudioPkts /\ Slack \in Int
    BY Constants DEF Slack
  <2>2. next = starts[1] + (Slack + AudioPkts)
    BY <1>0, <2>1
  <2>3. -(starts[1] + AudioPkts) < Slack
    BY <1>0, <1>1, <2>1, Constants
  <2> QED BY ONLY <1>1, <2>1, <2>2, <2>3, Constants
<1>5. starts[1] + AudioPkts <= 0
  <2>1. -(starts[1] + AudioPkts) >= 0
    BY <1>2, <1>3 DEF Due, Waited
  <2> QED BY <1>1, <2>1, Constants
<1>6. /\ starts' \in Seq(Int) /\ Len(starts') = NumXfers
      /\ \A k \in 1..(NumXfers - 1) : starts'[k] = IF k < 1 THEN starts[k] ELSE starts[k + 1]
      /\ starts'[NumXfers] = next
      /\ next' = next + AudioPkts
  BY <1>0, <1>2, <1>3, <1>4, Submits
<1>7. ASSUME NEW k \in 1..NumXfers PROVE starts'[k] = starts[1] + k * AudioPkts
  <2>1. CASE k = NumXfers
    BY <1>0, <1>6, <2>1
  <2>2. CASE k # NumXfers
    <3>1. k \in 1..(NumXfers - 1) /\ ~(k < 1) /\ k + 1 \in 1..NumXfers /\ k + 1 - 1 = k
      BY <2>2, Constants
    <3>2. starts'[k] = starts[k + 1]
      BY <1>6, <3>1
    <3>3. starts[k + 1] = starts[1] + (k + 1 - 1) * AudioPkts
      BY <1>0, <3>1
    <3> QED BY <3>1, <3>2, <3>3
  <2> QED BY <2>1, <2>2
<1>8. starts'[1] = starts[1] + AudioPkts
  BY <1>1, <1>7, Constants
<1>9. ASSUME NEW k \in 1..NumXfers PROVE starts'[k] = starts'[1] + (k - 1) * AudioPkts
  <2>1. k * AudioPkts = AudioPkts + (k - 1) * AudioPkts /\ (k - 1) * AudioPkts \in Int
    BY Constants
  <2> QED BY <1>1, <1>7, <1>8, <2>1, Constants
<1>10. next' = starts'[1] + NumXfers * AudioPkts
  <2>1. NumXfers * AudioPkts \in Int
    BY Constants
  <2> QED BY <1>0, <1>1, <1>6, <1>8, <2>1, Constants
<1>11. begun' => starts'[1] <= 0
  BY <1>5, <1>8
<1>12. -(starts'[1] + AudioPkts) < Tolerated
  BY <1>0, <1>1, <1>8, Constants
<1> QED BY <1>6, <1>9, <1>10, <1>11, <1>12 DEF Unbroken

LEMMA SteadyStep ==
  ASSUME Tolerated <= Slack, TypeInv, Steady, [Next]_vars
  PROVE  Steady'
<1> SUFFICES ASSUME Undisturbed' PROVE Unbroken'
  BY DEF Steady
<1>0. failed \in Nat /\ lost \in Nat
  BY DEF TypeInv, TypeOK
<1>1. CASE Frame
  <2>1. Undisturbed
    BY <1>1 DEF Frame, Undisturbed
  <2>2. ~late'
    BY DEF Undisturbed
  <2> QED BY <1>1, <2>1, <2>2, SteadyFrame DEF Steady
<1>2. CASE Succeeded
  <2>1. Undisturbed
    BY <1>2 DEF Succeeded, Undisturbed
  <2> QED BY <1>2, <2>1, SteadySucceeded DEF Steady
<1>3. CASE Failed
  BY <1>0, <1>3 DEF Failed, Undisturbed
<1>4. CASE Lost
  BY <1>0, <1>4 DEF Lost, Undisturbed
<1>5. CASE UNCHANGED vars
  BY <1>5 DEF vars, history, Steady, Unbroken, Undisturbed
<1> QED BY <1>1, <1>2, <1>3, <1>4, <1>5 DEF Next

LEMMA SteadyInit == Init => Steady
<1> SUFFICES ASSUME Init, Undisturbed PROVE Unbroken
  BY DEF Steady
<1> DEFINE first == LeadFrames + NumXfers * AudioPkts
<1>1. starts = Queued(first) /\ next = first + NumXfers * AudioPkts /\ ~begun
  BY DEF Init, Undisturbed, StartPlayback, StartCapture
<1>2. first \in Nat
  BY Constants
<1> HIDE DEF first
<1>3. /\ Len(starts) = NumXfers
      /\ \A i \in 1..NumXfers : starts[i] = first + (i - 1) * AudioPkts
  <2>1. /\ Len(Queued(first)) = NumXfers
        /\ \A i \in 1..NumXfers : Queued(first)[i] = first + (i - 1) * AudioPkts
    BY <1>2, QueuedFull
  <2> QED BY <1>1, <2>1
<1>4. starts[1] = first
  <2>1. 1 \in 1..NumXfers /\ (1 - 1) * AudioPkts = 0
    BY Constants
  <2> QED BY <1>2, <1>3, <2>1
<1>5. -(first + AudioPkts) < Tolerated
  BY <1>2, Constants
<1> QED BY <1>1, <1>3, <1>4, <1>5 DEF Unbroken

\* The chain covers the frame the bus is in.
LEMMA UnbrokenCovers ==
  ASSUME Tolerated <= Slack, TypeInv, Unbroken, begun
  PROVE  Covered(starts)
<1>0. /\ starts \in Seq(Int) /\ Len(starts) = NumXfers
      /\ \A i \in 1..NumXfers : starts[i] = starts[1] + (i - 1) * AudioPkts
      /\ starts[1] <= 0 /\ -(starts[1] + AudioPkts) < Tolerated
  BY DEF TypeInv, TypeOK, Unbroken
<1>1. starts[1] \in Int
  BY <1>0, Constants
<1> DEFINE past == -starts[1]
           k == past \div AudioPkts
<1>2. past \in Nat /\ past < NumXfers * AudioPkts
  <2>1. NumXfers * AudioPkts = Slack + AudioPkts /\ Slack \in Int
    BY Constants DEF Slack
  <2> QED BY <1>0, <1>1, <2>1, Constants
<1>3. k \in Nat /\ k * AudioPkts <= past /\ past < (k + 1) * AudioPkts
  BY <1>2, Constants
<1>4. k + 1 \in 1..NumXfers
  BY <1>2, <1>3, Constants
<1>5. PICK m \in 1..NumXfers : m - 1 = k
  BY <1>3, <1>4
<1>6. (m - 1) * AudioPkts <= -starts[1] /\ -starts[1] < (m - 1) * AudioPkts + AudioPkts
  BY <1>1, <1>3, <1>5, Constants
<1> HIDE DEF k
<1>7. starts[m] = starts[1] + (m - 1) * AudioPkts /\ (m - 1) * AudioPkts \in Int
  BY <1>0, Constants
<1>8. starts[m] <= 0 /\ 0 < starts[m] + AudioPkts
  BY <1>1, <1>6, <1>7, Constants
<1>9. m \in DOMAIN starts
  BY <1>0
<1> QED BY <1>8, <1>9, Zenon DEF Covered

\* Playback never runs dry while each callback waits less than the frames of
\* the other transfers and none fails or is refused, whatever the constants.
THEOREM NeverDryTheorem == Tolerated <= Slack => (Spec => []NeverDry)
<1> SUFFICES ASSUME Tolerated <= Slack PROVE Spec => []NeverDry
  OBVIOUS
<1>1. Init => TypeInv /\ Steady
  BY TypeInit, SteadyInit
<1>2. TypeInv /\ Steady /\ [Next]_vars => (TypeInv /\ Steady)'
  BY TypeStep, SteadyStep
<1>3. TypeInv /\ Steady => NeverDry
  BY UnbrokenCovers DEF Steady, Undisturbed, NeverDry
<1> QED BY <1>1, <1>2, <1>3, PTL DEF Spec

----------------------------------------------------------------------------
(* GapBounded.                                                             *)

\* Of the transfers that lie in the future one is the first.
LEMMA First ==
  ASSUME NEW s \in Seq(Int), \E i \in 1..Len(s) : s[i] > 0
  PROVE  \E i \in 1..Len(s) :
           s[i] > 0 /\ \A j \in 1..Len(s) : s[j] > 0 => s[i] <= s[j]
<1> DEFINE T == {x \in Nat : x > 0 /\ \E i \in 1..Len(s) : s[i] = x}
<1>1. T \subseteq Nat /\ T # {}
  <2>1. PICK i \in 1..Len(s) : s[i] > 0
    OBVIOUS
  <2>2. s[i] \in Int
    BY <2>1
  <2> QED BY <2>1, <2>2
<1>2. PICK x \in T : \A y \in T : ~(<<y, x>> \in OpToRel(<, Nat))
  BY <1>1, WFMin, NatLessThanWellFounded
<1>3. \A y \in T : ~(y < x)
  BY <1>1, <1>2 DEF OpToRel
<1>4. PICK i \in 1..Len(s) : s[i] = x
  OBVIOUS
<1>5. ASSUME NEW j \in 1..Len(s), s[j] > 0 PROVE s[i] <= s[j]
  <2>1. s[j] \in Nat
    BY <1>5
  <2>2. s[j] \in T
    BY <1>5, <2>1
  <2> QED BY <1>3, <1>4, <2>1, <2>2
<1> QED BY <1>4, <1>5

\* Playback that no frame has carried yet is as it was queued.
Prelude == dir = "out" /\ ~begun

\* The next frame to claim is near or follows a queued transfer.
NextFollows ==
  \/ next <= LeadFrames
  \/ \E i \in 1..Len(starts) : starts[i] < next /\ next <= starts[i] + AudioPkts

\* So is and does each transfer, except the first before playback begins.
EachFollows ==
  \A i \in 1..Len(starts) :
    \/ starts[i] <= LeadFrames
    \/ \E j \in 1..Len(starts) :
         starts[j] < starts[i] /\ starts[i] <= starts[j] + AudioPkts
    \/ Prelude /\ \A j \in 1..Len(starts) : starts[i] <= starts[j]

NotReached == Prelude => \A i \in 1..Len(starts) : starts[i] > 0

Held == \A i \in 1..Len(starts) : -(starts[i] + AudioPkts) <= MaxHold

LongestGap == LeadFrames + MaxHold

\* In a gap a transfer is on its way, or all have completed since it began.
Coming ==
  \E i \in 1..Len(starts) : 0 < starts[i] /\ starts[i] + gap <= LongestGap + 1

Ended == \A i \in 1..Len(starts) : starts[i] + AudioPkts + gap <= 1

GapInv ==
  /\ NextFollows
  /\ EachFollows
  /\ NotReached
  /\ Held
  /\ gap > 0 => Coming \/ Ended

LEMMA GapInit == AbortPoll <= LeadFrames + MaxHold /\ Init => GapInv
<1> SUFFICES ASSUME AbortPoll <= LeadFrames + MaxHold, Init PROVE GapInv
  OBVIOUS
<1>0. gap = 0 /\ ~begun
  BY DEF Init
<1>1. CASE StartPlayback
  <2> DEFINE first == LeadFrames + NumXfers * AudioPkts
  <2>1. first \in Nat /\ first > 0 /\ NumXfers * AudioPkts \in Nat
    BY Constants
  <2>2. starts = Queued(first) /\ next = first + NumXfers * AudioPkts /\ dir = "out"
    BY <1>1 DEF StartPlayback
  <2> HIDE DEF first
  <2>3. /\ Len(Queued(first)) = NumXfers
        /\ \A i \in 1..NumXfers : Queued(first)[i] = first + (i - 1) * AudioPkts
    BY <2>1, QueuedFull
  <2>4. /\ Len(starts) = NumXfers
        /\ \A i \in 1..NumXfers : starts[i] = first + (i - 1) * AudioPkts
    BY <2>2, <2>3
  <2>5. \A i \in 1..NumXfers : starts[i] \in Int /\ starts[i] >= first
    <3>1. \A i \in 1..NumXfers : (i - 1) * AudioPkts \in Nat
      BY Constants
    <3> QED BY <2>1, <2>4, <3>1
  <2>6. NextFollows
    <3>1. NumXfers \in 1..NumXfers
      BY Constants
    <3>2. NumXfers * AudioPkts = (NumXfers - 1) * AudioPkts + AudioPkts
          /\ (NumXfers - 1) * AudioPkts \in Int
      BY Constants
    <3>3. starts[NumXfers] = first + (NumXfers - 1) * AudioPkts
      BY <2>4, <3>1
    <3>4. starts[NumXfers] < next /\ next <= starts[NumXfers] + AudioPkts
      BY <2>1, <2>2, <3>2, <3>3, Constants
    <3> QED BY <2>4, <3>1, <3>4 DEF NextFollows
  <2>7. EachFollows
    <3> SUFFICES ASSUME NEW i \in 1..NumXfers
                 PROVE  \/ \E j \in 1..NumXfers :
                             starts[j] < starts[i] /\ starts[i] <= starts[j] + AudioPkts
                        \/ \A j \in 1..NumXfers : starts[i] <= starts[j]
      BY <1>0, <2>2, <2>4 DEF EachFollows, Prelude
    <3>1. CASE i = 1
      <4>1. starts[1] = first
        <5>1. 1 \in 1..NumXfers /\ (1 - 1) * AudioPkts = 0
          BY Constants
        <5> QED BY <2>1, <2>4, <5>1
      <4> QED BY <2>5, <3>1, <4>1
    <3>2. CASE i # 1
      <4>1. i - 1 \in 1..NumXfers
        BY <3>2, Constants
      <4>2. starts[i] = first + (i - 1) * AudioPkts /\ starts[i - 1] = first + (i - 1 - 1) * AudioPkts
        BY <2>4, <4>1
      <4>3. (i - 1) * AudioPkts = (i - 1 - 1) * AudioPkts + AudioPkts
            /\ (i - 1 - 1) * AudioPkts \in Int
        BY Constants
      <4>4. starts[i - 1] < starts[i] /\ starts[i] <= starts[i - 1] + AudioPkts
        BY <2>1, <4>2, <4>3, Constants
      <4> QED BY <4>1, <4>4
    <3> QED BY <3>1, <3>2
  <2>8. NotReached
    BY <2>1, <2>4, <2>5 DEF NotReached
  <2>9. Held
    <3> SUFFICES ASSUME NEW i \in 1..NumXfers PROVE -(starts[i] + AudioPkts) <= MaxHold
      BY <2>4 DEF Held
    <3> QED BY <2>1, <2>5, Constants
  <2> QED BY <1>0, <2>6, <2>7, <2>8, <2>9 DEF GapInv
<1>2. CASE StartCapture
  <2>1. PICK aborted \in 0..NumXfers, poll \in 0..AbortPoll, ago \in 0..AudioPkts :
          starts = [i \in 1..aborted |-> LeadFrames - poll - ago]
                     \o Queued(LeadFrames - ago)
    BY <1>2 DEF StartCapture
  <2> DEFINE early == [i \in 1..aborted |-> LeadFrames - poll - ago]
             again == Queued(LeadFrames - ago)
             n == aborted + NumXfers
  <2>2. LeadFrames - ago \in Int /\ LeadFrames - poll - ago \in Int
    BY Constants
  <2>3. /\ early \in Seq(Int) /\ Len(early) = aborted
        /\ \A i \in 1..aborted : early[i] = LeadFrames - poll - ago
    BY <2>2, Constants
  <2>4. /\ again \in Seq(Int) /\ Len(again) = NumXfers
        /\ \A i \in 1..NumXfers : again[i] = LeadFrames - ago + (i - 1) * AudioPkts
    BY <2>2, QueuedFull
  <2>5. starts = early \o again /\ next = LeadFrames /\ dir = "in"
    BY <1>2, <2>1 DEF StartCapture
  <2> HIDE DEF early, again
  <2>6. /\ Len(starts) = n
        /\ \A i \in 1..n : starts[i] = IF i <= aborted THEN early[i] ELSE again[i - aborted]
    <3>1. /\ Len(early \o again) = Len(early) + Len(again)
          /\ \A i \in 1..(Len(early) + Len(again)) :
               (early \o again)[i] = IF i <= Len(early) THEN early[i] ELSE again[i - Len(early)]
      BY <2>3, <2>4, ConcatProperties
    <3> QED BY <2>3, <2>4, <2>5, <3>1
  <2>7. ASSUME NEW i \in 1..n
        PROVE  \/ starts[i] = LeadFrames - poll - ago
               \/ /\ i - aborted \in 1..NumXfers
                  /\ starts[i] = LeadFrames - ago + (i - aborted - 1) * AudioPkts
    <3>1. CASE i <= aborted
      BY <2>3, <2>6, <3>1
    <3>2. CASE ~(i <= aborted)
      <4>1. i - aborted \in 1..NumXfers
        BY <3>2, Constants
      <4> QED BY <2>4, <2>6, <3>2, <4>1
    <3> QED BY <3>1, <3>2
  <2>8. NextFollows
    BY <2>5, Constants DEF NextFollows
  <2>9. EachFollows
    <3> SUFFICES ASSUME NEW i \in 1..n
                 PROVE  \/ starts[i] <= LeadFrames
                        \/ \E j \in 1..n :
                             starts[j] < starts[i] /\ starts[i] <= starts[j] + AudioPkts
      BY <2>6 DEF EachFollows
    <3>1. CASE starts[i] = LeadFrames - poll - ago
      BY <3>1, Constants
    <3>2. CASE /\ i - aborted \in 1..NumXfers
               /\ starts[i] = LeadFrames - ago + (i - aborted - 1) * AudioPkts
      <4>1. CASE i - aborted = 1
        <5>1. (i - aborted - 1) * AudioPkts = 0
          BY <4>1, Constants
        <5> QED BY <3>2, <5>1, Constants
      <4>2. CASE i - aborted # 1
        <5>1. /\ i - 1 \in 1..n /\ i - 1 - aborted \in 1..NumXfers /\ ~(i - 1 <= aborted)
          BY <3>2, <4>2, Constants
        <5>2. starts[i - 1] = LeadFrames - ago + (i - 1 - aborted - 1) * AudioPkts
          BY <2>4, <2>6, <5>1
        <5>3. (i - aborted - 1) * AudioPkts = (i - 1 - aborted - 1) * AudioPkts + AudioPkts
              /\ (i - 1 - aborted - 1) * AudioPkts \in Int
          BY Constants
        <5>4. starts[i - 1] < starts[i] /\ starts[i] <= starts[i - 1] + AudioPkts
          BY <3>2, <5>2, <5>3, Constants
        <5> QED BY <5>1, <5>4
      <4> QED BY <4>1, <4>2
    <3> QED BY <2>7, <3>1, <3>2
  <2>10. Held
    <3> SUFFICES ASSUME NEW i \in 1..n PROVE -(starts[i] + AudioPkts) <= MaxHold
      BY <2>6 DEF Held
    <3>1. CASE starts[i] = LeadFrames - poll - ago
      BY <3>1, Constants
    <3>2. CASE /\ i - aborted \in 1..NumXfers
               /\ starts[i] = LeadFrames - ago + (i - aborted - 1) * AudioPkts
      <4>1. (i - aborted - 1) * AudioPkts \in Nat
        BY <3>2, Constants
      <4> QED BY <3>2, <4>1, Constants
    <3> QED BY <2>7, <3>1, <3>2
  <2> QED BY <1>0, <2>5, <2>8, <2>9, <2>10 DEF GapInv, NotReached, Prelude
<1> QED BY <1>1, <1>2 DEF Init

\* What holds of the transfers left in the queue when one has called back.
LEMMA GapRest ==
  ASSUME TypeInv, GapInv, NEW i \in 1..Len(starts), Due(i), NEW t \in Seq(Int),
         Len(starts) - 1 <= Len(t),
         \A k \in 1..(Len(starts) - 1) :
           t[k] = IF k < i THEN starts[k] ELSE starts[k + 1]
  PROVE  LET m == Len(starts) - 1
         IN  /\ ~Prelude
             /\ \A j \in 1..Len(starts) :
                  starts[j] + AudioPkts > 0 => \E k \in 1..m : t[k] = starts[j]
             /\ \A k \in 1..m : -(t[k] + AudioPkts) <= MaxHold
             /\ \A k \in 1..m :
                  \/ t[k] <= LeadFrames
                  \/ \E l \in 1..m : t[l] < t[k] /\ t[k] <= t[l] + AudioPkts
             /\ gap > 0 =>
                  \/ \E k \in 1..m : 0 < t[k] /\ t[k] + gap <= LongestGap + 1
                  \/ Ended /\ \A k \in 1..m : t[k] + AudioPkts + gap <= 1
<1> DEFINE n == Len(starts)
           m == n - 1
<1>0. /\ starts \in Seq(Int) /\ n \in Nat /\ gap \in Nat
      /\ \A j \in 1..n : starts[j] \in Int
  BY DEF TypeInv, TypeOK
<1>1. starts[i] + AudioPkts <= 0 /\ starts[i] \in Int
  <2>1. starts[i] \in Int
    BY <1>0
  <2>2. -(starts[i] + AudioPkts) >= 0
    BY DEF Due, Waited
  <2> QED BY <2>1, <2>2, Constants
<1>2. ASSUME NEW k \in 1..m
      PROVE  \E j \in 1..n : t[k] = starts[j]
  BY <1>0
<1>3. ASSUME NEW j \in 1..n, j # i
      PROVE  \E k \in 1..m : t[k] = starts[j]
  <2>1. CASE j < i
    <3>1. j \in 1..m
      BY <1>0, <2>1
    <3> QED BY <2>1, <3>1
  <2>2. CASE ~(j < i)
    <3>1. j - 1 \in 1..m /\ ~(j - 1 < i) /\ j - 1 + 1 = j
      BY <1>0, <1>3, <2>2
    <3> QED BY <3>1
  <2> QED BY <2>1, <2>2
<1>4. ASSUME NEW j \in 1..n, starts[j] + AudioPkts > 0
      PROVE  \E k \in 1..m : t[k] = starts[j]
  <2>1. j # i
    BY <1>1, <1>4, Constants
  <2> QED BY <1>3, <2>1
<1>5. ~Prelude
  <2>1. starts[i] <= 0
    BY <1>1, Constants
  <2> QED BY <1>1, <2>1 DEF GapInv, NotReached
<1>6. ASSUME NEW k \in 1..m PROVE -(t[k] + AudioPkts) <= MaxHold
  <2>1. PICK j \in 1..n : t[k] = starts[j]
    BY <1>2
  <2> QED BY <2>1 DEF GapInv, Held
<1>7. ASSUME NEW k \in 1..m
      PROVE  \/ t[k] <= LeadFrames
             \/ \E l \in 1..m : t[l] < t[k] /\ t[k] <= t[l] + AudioPkts
  <2>1. PICK j \in 1..n : t[k] = starts[j]
    BY <1>2
  <2>2. CASE starts[j] <= LeadFrames
    BY <2>1, <2>2
  <2>3. CASE starts[j] > LeadFrames
    <3>1. PICK h \in 1..n : starts[h] < starts[j] /\ starts[j] <= starts[h] + AudioPkts
      <4>1. ~(starts[j] <= LeadFrames)
        BY <1>0, <2>3, Constants
      <4> QED BY <1>5, <4>1 DEF GapInv, EachFollows
    <3>2. starts[h] + AudioPkts > 0
      <4>1. starts[h] \in Int /\ starts[j] \in Int
        BY <1>0
      <4> QED BY <2>3, <3>1, <4>1, Constants
    <3>3. PICK l \in 1..m : t[l] = starts[h]
      BY <1>4, <3>2
    <3> QED BY <2>1, <3>1, <3>3
  <2>4. starts[j] \in Int
    BY <1>0
  <2> QED BY <2>2, <2>3, <2>4, Constants
<1>8. ASSUME gap > 0
      PROVE  \/ \E k \in 1..m : 0 < t[k] /\ t[k] + gap <= LongestGap + 1
             \/ Ended /\ \A k \in 1..m : t[k] + AudioPkts + gap <= 1
  <2>1. CASE Coming
    <3>1. PICK j \in 1..n : 0 < starts[j] /\ starts[j] + gap <= LongestGap + 1
      BY <2>1 DEF Coming
    <3>2. starts[j] + AudioPkts > 0
      <4>1. starts[j] \in Int
        BY <1>0
      <4> QED BY <3>1, <4>1, Constants
    <3>3. PICK k \in 1..m : t[k] = starts[j]
      BY <1>4, <3>2
    <3> QED BY <3>1, <3>3
  <2>2. CASE Ended
    <3>1. ASSUME NEW k \in 1..m PROVE t[k] + AudioPkts + gap <= 1
      <4>1. PICK j \in 1..n : t[k] = starts[j]
        BY <1>2
      <4> QED BY <2>2, <4>1 DEF Ended
    <3> QED BY <2>2, <3>1
  <2> QED BY <1>8, <2>1, <2>2 DEF GapInv
<1> QED BY <1>4, <1>5, <1>6, <1>7, <1>8

LEMMA GapSubmit ==
  ASSUME TypeInv, GapInv, NEW i \in 1..Len(starts), Due(i), NEW frame \in Nat,
         frame = next \/ frame = LeadFrames, Submit(i, frame),
         UNCHANGED <<dir, begun, gap>>
  PROVE  GapInv'
<1> DEFINE n == Len(starts)
           m == n - 1
           f == IF frame > 0 THEN frame ELSE LeadFrames
<1>0. /\ starts \in Seq(Int) /\ next \in Nat /\ n \in Nat /\ gap \in Nat
      /\ \A j \in 1..n : starts[j] \in Int
  BY DEF TypeInv, TypeOK
<1>1. /\ starts' \in Seq(Int) /\ Len(starts') = n
      /\ \A k \in 1..m : starts'[k] = IF k < i THEN starts[k] ELSE starts[k + 1]
      /\ starts'[n] = f
      /\ next' = f + AudioPkts
  BY <1>0, Submits
<1>2. /\ f \in Nat /\ f > 0
      /\ f = next \/ f = LeadFrames
  BY <1>0, Constants
<1> HIDE DEF f
<1>3. /\ ~Prelude
      /\ \A j \in 1..n : starts[j] + AudioPkts > 0 => \E k \in 1..m : starts'[k] = starts[j]
      /\ \A k \in 1..m : -(starts'[k] + AudioPkts) <= MaxHold
      /\ \A k \in 1..m :
           \/ starts'[k] <= LeadFrames
           \/ \E l \in 1..m : starts'[l] < starts'[k] /\ starts'[k] <= starts'[l] + AudioPkts
      /\ gap > 0 =>
           \/ \E k \in 1..m : 0 < starts'[k] /\ starts'[k] + gap <= LongestGap + 1
           \/ Ended /\ \A k \in 1..m : starts'[k] + AudioPkts + gap <= 1
  <2>1. n - 1 <= Len(starts')
    BY <1>0, <1>1
  <2> QED BY <1>1, <2>1, GapRest
<1>4. n \in 1..n /\ \A k \in 1..n : k = n \/ k \in 1..m
  BY <1>0
\* The new transfer is near or follows one that is left.
<1>5. \/ f <= LeadFrames
      \/ \E l \in 1..m : starts'[l] < f /\ f <= starts'[l] + AudioPkts
  <2>1. CASE f = LeadFrames
    BY <2>1, Constants
  <2>2. CASE f = next /\ f > LeadFrames
    <3>1. PICK j \in 1..n : starts[j] < next /\ next <= starts[j] + AudioPkts
      <4>1. ~(next <= LeadFrames)
        BY <1>2, <2>2, Constants
      <4> QED BY <4>1 DEF GapInv, NextFollows
    <3>2. starts[j] + AudioPkts > 0
      <4>1. starts[j] \in Int
        BY <1>0
      <4> QED BY <1>2, <2>2, <3>1, <4>1, Constants
    <3>3. PICK l \in 1..m : starts'[l] = starts[j]
      BY <1>3, <3>2
    <3> QED BY <2>2, <3>1, <3>3
  <2> QED BY <1>2, <2>1, <2>2, Constants
<1>6. NextFollows'
  <2>1. starts'[n] < next' /\ next' <= starts'[n] + AudioPkts
    BY <1>1, <1>2, Constants
  <2> QED BY <1>1, <1>4, <2>1 DEF NextFollows
<1>7. EachFollows'
  <2> SUFFICES ASSUME NEW k \in 1..n
               PROVE  \/ starts'[k] <= LeadFrames
                      \/ \E l \in 1..n : starts'[l] < starts'[k]
                                         /\ starts'[k] <= starts'[l] + AudioPkts
    BY <1>1 DEF EachFollows
  <2>1. \A l \in 1..m : l \in 1..n
    BY <1>0
  <2>2. CASE k = n
    BY <1>1, <1>5, <2>1, <2>2
  <2>3. CASE k \in 1..m
    BY <1>3, <2>1, <2>3
  <2> QED BY <1>4, <2>2, <2>3
<1>8. NotReached'
  BY <1>3 DEF NotReached, Prelude
<1>9. Held'
  <2> SUFFICES ASSUME NEW k \in 1..n PROVE -(starts'[k] + AudioPkts) <= MaxHold
    BY <1>1 DEF Held
  <2>1. CASE k = n
    BY <1>1, <1>2, <2>1, Constants
  <2>2. CASE k \in 1..m
    BY <1>3, <2>2
  <2> QED BY <1>4, <2>1, <2>2
<1>10. gap' > 0 => Coming' \/ Ended'
  <2> SUFFICES ASSUME gap > 0 PROVE Coming'
    OBVIOUS
  <2>1. CASE \E k \in 1..m : 0 < starts'[k] /\ starts'[k] + gap <= LongestGap + 1
    <3>1. PICK k \in 1..m : 0 < starts'[k] /\ starts'[k] + gap <= LongestGap + 1
      BY <2>1
    <3>2. k \in 1..n
      BY <1>0, <3>1
    <3> QED BY <1>1, <3>1, <3>2 DEF Coming
  <2>2. CASE Ended
    <3>1. \A j \in 1..n : starts[j] + AudioPkts <= 0
      <4> SUFFICES ASSUME NEW j \in 1..n PROVE starts[j] + AudioPkts <= 0
        OBVIOUS
      <4>1. starts[j] \in Int /\ starts[j] + AudioPkts + gap <= 1
        BY <1>0, <2>2 DEF Ended
      <4> QED BY <1>0, <4>1, Constants
    <3>2. f <= LeadFrames
      <4>1. CASE f = next
        <5>1. \A j \in 1..n : ~(next <= starts[j] + AudioPkts)
          <6> SUFFICES ASSUME NEW j \in 1..n PROVE ~(next <= starts[j] + AudioPkts)
            OBVIOUS
          <6>1. starts[j] + AudioPkts <= 0 /\ starts[j] \in Int
            BY <1>0, <3>1
          <6> QED BY <1>0, <1>2, <4>1, <6>1, Constants
        <5>2. next <= LeadFrames
          BY <5>1 DEF GapInv, NextFollows
        <5> QED BY <4>1, <5>2
      <4> QED BY <1>2, <4>1, Constants
    <3>3. gap <= MaxHold + 1
      <4>1. starts[i] \in Int /\ starts[i] + AudioPkts + gap <= 1
        BY <1>0, <2>2 DEF Ended
      <4>2. -(starts[i] + AudioPkts) <= MaxHold
        BY DEF GapInv, Held
      <4> QED BY <1>0, <4>1, <4>2, Constants
    <3>4. starts'[n] + gap <= LongestGap + 1 /\ 0 < starts'[n]
      BY <1>0, <1>1, <1>2, <3>2, <3>3, Constants DEF LongestGap
    <3> QED BY <1>1, <1>4, <3>4 DEF Coming
  <2> QED BY <1>3, <2>1, <2>2
<1> QED BY <1>6, <1>7, <1>8, <1>9, <1>10 DEF GapInv

LEMMA GapLost ==
  ASSUME TypeInv, GapInv, Lost
  PROVE  GapInv'
<1> DEFINE n == Len(starts)
           m == n - 1
<1>0. n \in Nat
  BY DEF TypeInv, TypeOK
<1>1. PICK i \in 1..n :
        /\ Due(i)
        /\ \A k \in 1..m : starts'[k] = IF k < i THEN starts[k] ELSE starts[k + 1]
  BY Loses
<1>2. /\ starts' \in Seq(Int) /\ Len(starts') = m /\ next' = LeadFrames
      /\ UNCHANGED <<dir, begun, gap>>
  BY Loses DEF Lost
<1>3. /\ ~Prelude
      /\ \A k \in 1..m : -(starts'[k] + AudioPkts) <= MaxHold
      /\ \A k \in 1..m :
           \/ starts'[k] <= LeadFrames
           \/ \E l \in 1..m : starts'[l] < starts'[k] /\ starts'[k] <= starts'[l] + AudioPkts
      /\ gap > 0 =>
           \/ \E k \in 1..m : 0 < starts'[k] /\ starts'[k] + gap <= LongestGap + 1
           \/ Ended /\ \A k \in 1..m : starts'[k] + AudioPkts + gap <= 1
  <2>1. n - 1 <= Len(starts')
    BY <1>0, <1>2
  <2> QED BY <1>1, <1>2, <2>1, GapRest
<1>4. NextFollows'
  BY <1>2, Constants DEF NextFollows
<1>5. EachFollows'
  BY <1>2, <1>3 DEF EachFollows
<1>6. NotReached' /\ Held'
  BY <1>2, <1>3 DEF NotReached, Prelude, Held
<1>7. gap' > 0 => Coming' \/ Ended'
  BY <1>2, <1>3 DEF Coming, Ended
<1> QED BY <1>4, <1>5, <1>6, <1>7 DEF GapInv

LEMMA GapFrame ==
  ASSUME TypeInv, GapInv, Frame
  PROVE  GapInv'
<1> DEFINE n == Len(starts)
<1>0. /\ starts \in Seq(Int) /\ next \in Nat /\ n \in Nat /\ gap \in Nat
      /\ \A j \in 1..n : starts[j] \in Int
  BY DEF TypeInv, TypeOK
<1>1. /\ starts' \in Seq(Int) /\ Len(starts') = n
      /\ \A i \in 1..n : starts'[i] = starts[i] - 1
      /\ next > 0 => next' = next - 1
      /\ next = 0 => next' = 0
      /\ \A i \in 1..n : -(starts[i] + AudioPkts) < MaxHold
  BY Moves
<1>2. /\ dir' = dir
      /\ begun' = (begun \/ Covered(starts'))
      /\ gap' = IF begun' /\ ~Covered(starts') THEN gap + 1 ELSE 0
  BY DEF Frame
<1>3. \A i \in 1..n : starts'[i] \in Int
  BY <1>1, ElementOfSeq
<1>4. ASSUME NEW i \in 1..n
      PROVE  /\ starts[i] \in Int /\ starts'[i] = starts[i] - 1
             /\ starts'[i] <= 0 /\ 0 < starts'[i] + AudioPkts => Covered(starts')
  BY <1>0, <1>1 DEF Covered
<1>5. NextFollows'
  <2>1. CASE next <= LeadFrames
    <3>1. next' <= LeadFrames
      BY <1>0, <1>1, <2>1, Constants
    <3> QED BY <3>1 DEF NextFollows
  <2>2. CASE next > LeadFrames
    <3>1. PICK i \in 1..n : starts[i] < next /\ next <= starts[i] + AudioPkts
      <4>1. ~(next <= LeadFrames)
        BY <1>0, <2>2, Constants
      <4> QED BY <4>1 DEF GapInv, NextFollows
    <3>2. next' = next - 1
      BY <1>0, <1>1, <2>2, Constants
    <3>3. starts'[i] < next' /\ next' <= starts'[i] + AudioPkts
      BY <1>0, <1>4, <3>1, <3>2, Constants
    <3> QED BY <1>1, <3>3 DEF NextFollows
  <2> QED BY <1>0, <2>1, <2>2, Constants
\* Before playback begins the first transfer is not reached.
<1>6. NotReached'
  <2> SUFFICES ASSUME Prelude', NEW i \in 1..n PROVE starts'[i] > 0
    BY <1>1 DEF NotReached
  <2>1. Prelude /\ ~Covered(starts')
    BY <1>2 DEF Prelude
  <2>2. starts[i] > 0
    BY <2>1 DEF GapInv, NotReached
  <2>3. ~(starts'[i] = 0)
    BY <1>4, <2>1, Constants
  <2> QED BY <1>4, <2>2, <2>3
<1>7. EachFollows'
  <2> SUFFICES ASSUME NEW i \in 1..n
               PROVE  \/ starts'[i] <= LeadFrames
                      \/ \E j \in 1..n : starts'[j] < starts'[i]
                                         /\ starts'[i] <= starts'[j] + AudioPkts
                      \/ Prelude' /\ \A j \in 1..n : starts'[i] <= starts'[j]
    BY <1>1 DEF EachFollows
  <2>1. CASE starts[i] <= LeadFrames
    BY <1>4, <2>1, Constants
  <2>2. CASE \E j \in 1..n : starts[j] < starts[i] /\ starts[i] <= starts[j] + AudioPkts
    <3>1. PICK j \in 1..n : starts[j] < starts[i] /\ starts[i] <= starts[j] + AudioPkts
      BY <2>2
    <3>2. starts'[j] < starts'[i] /\ starts'[i] <= starts'[j] + AudioPkts
      BY <1>4, <3>1, Constants
    <3> QED BY <3>2
  <2>3. CASE Prelude /\ \A j \in 1..n : starts[i] <= starts[j]
    <3>1. \A j \in 1..n : starts'[i] <= starts'[j]
      <4> SUFFICES ASSUME NEW j \in 1..n PROVE starts'[i] <= starts'[j]
        OBVIOUS
      <4>1. starts[i] <= starts[j]
        BY <2>3
      <4> QED BY <1>4, <4>1
    <3>2. CASE ~begun'
      BY <1>2, <2>3, <3>1, <3>2 DEF Prelude
    <3>3. CASE Covered(starts')
      <4>1. PICK j \in 1..n : starts'[j] <= 0
        BY <1>1, <3>3 DEF Covered
      <4>2. starts'[i] <= starts'[j]
        BY <3>1
      <4> QED BY <1>3, <4>1, <4>2, Constants
    <3>4. ~begun' \/ Covered(starts')
      BY <1>2, <2>3 DEF Prelude
    <3> QED BY <3>2, <3>3, <3>4
  <2> QED BY <2>1, <2>2, <2>3 DEF GapInv, EachFollows
<1>8. Held'
  <2> SUFFICES ASSUME NEW i \in 1..n PROVE -(starts'[i] + AudioPkts) <= MaxHold
    BY <1>1 DEF Held
  <2>1. -(starts[i] + AudioPkts) < MaxHold
    BY <1>1
  <2> QED BY <1>4, <2>1, Constants
<1>9. gap' > 0 => Coming' \/ Ended'
  <2> SUFFICES ASSUME gap' > 0 PROVE Coming' \/ Ended'
    OBVIOUS
  <2>1. begun' /\ ~Covered(starts') /\ gap' = gap + 1
    BY <1>2
  <2>2. begun
    BY <1>2, <2>1
  <2>3. CASE gap = 0
    <3>1. CASE \E i \in 1..n : starts'[i] > 0
      <4>1. PICK i \in 1..n :
              starts'[i] > 0 /\ \A j \in 1..n : starts'[j] > 0 => starts'[i] <= starts'[j]
        BY <1>1, <3>1, First
      <4>2. starts[i] <= LeadFrames
        <5> SUFFICES ASSUME NEW j \in 1..n,
                            starts[j] < starts[i], starts[i] <= starts[j] + AudioPkts
                     PROVE  FALSE
          BY <2>2 DEF GapInv, EachFollows, Prelude
        <5>1. starts'[j] < starts'[i] /\ starts'[i] <= starts'[j] + AudioPkts
          BY <1>4, Constants
        <5>2. ~(starts'[j] > 0)
          BY <1>3, <4>1, <5>1
        <5>3. starts'[j] <= 0 /\ 0 < starts'[j] + AudioPkts
          BY <1>3, <4>1, <5>1, <5>2, Constants
        <5> QED BY <1>4, <2>1, <5>3
      <4>3. starts'[i] + gap' <= LongestGap + 1
        BY <1>4, <2>1, <2>3, <4>2, Constants DEF LongestGap
      <4> QED BY <1>1, <4>1, <4>3 DEF Coming
    <3>2. CASE \A i \in 1..n : ~(starts'[i] > 0)
      <4>1. ASSUME NEW i \in 1..n PROVE starts'[i] + AudioPkts + gap' <= 1
        <5>1. ~(0 < starts'[i] + AudioPkts)
          BY <1>3, <1>4, <2>1, <3>2
        <5> QED BY <1>3, <2>1, <2>3, <5>1, Constants
      <4> QED BY <1>1, <4>1 DEF Ended
    <3> QED BY <3>1, <3>2
  <2>4. CASE Coming
    <3>1. PICK i \in 1..n : 0 < starts[i] /\ starts[i] + gap <= LongestGap + 1
      BY <2>4 DEF Coming
    <3>2. starts'[i] + gap' <= LongestGap + 1
      BY <1>0, <1>4, <2>1, <3>1, Constants DEF LongestGap
    <3>3. 0 < starts'[i]
      <4>1. starts[i] \in Int /\ starts'[i] = starts[i] - 1
        BY <1>4
      <4>2. ~(starts'[i] <= 0 /\ 0 < starts'[i] + AudioPkts)
        BY <1>4, <2>1
      <4> QED BY ONLY <3>1, <4>1, <4>2, Constants
    <3> QED BY <1>1, <3>2, <3>3 DEF Coming
  <2>5. CASE Ended
    <3>1. ASSUME NEW i \in 1..n PROVE starts'[i] + AudioPkts + gap' <= 1
      <4>1. starts[i] + AudioPkts + gap <= 1
        BY <2>5 DEF Ended
      <4> QED BY <1>0, <1>4, <2>1, <4>1, Constants
    <3> QED BY <1>1, <3>1 DEF Ended
  <2> QED BY <1>0, <2>3, <2>4, <2>5 DEF GapInv
<1> QED BY <1>5, <1>6, <1>7, <1>8, <1>9 DEF GapInv

LEMMA GapStep ==
  ASSUME TypeInv, GapInv, [Next]_vars
  PROVE  GapInv'
<1>0. next \in Nat
  BY DEF TypeInv, TypeOK
<1>1. CASE Frame
  BY <1>1, GapFrame
<1>2. CASE Succeeded
  <2>1. PICK i \in 1..Len(starts) : Due(i) /\ Submit(i, next)
    BY <1>2, Succeeds
  <2>2. UNCHANGED <<dir, begun, gap>>
    BY <1>2 DEF Succeeded
  <2> QED BY <1>0, <2>1, <2>2, GapSubmit
<1>3. CASE Failed
  <2>1. PICK i \in 1..Len(starts) : Due(i) /\ Submit(i, LeadFrames)
    BY <1>3, Fails
  <2>2. UNCHANGED <<dir, begun, gap>>
    BY <1>3 DEF Failed
  <2> QED BY <2>1, <2>2, GapSubmit, Constants
<1>4. CASE Lost
  BY <1>4, GapLost
<1>5. CASE UNCHANGED vars
  BY <1>5 DEF vars, history, GapInv, NextFollows, EachFollows, NotReached, Prelude,
              Held, Coming, Ended
<1> QED BY <1>1, <1>2, <1>3, <1>4, <1>5 DEF Next

\* However often transfers fail and are refused, and in whatever order, the bus
\* carries audio again within the lead and one hold of the thread, as long as a
\* transfer is left.
THEOREM GapTheorem ==
  AbortPoll <= LeadFrames + MaxHold => (Spec => []GapBounded)
<1> SUFFICES ASSUME AbortPoll <= LeadFrames + MaxHold PROVE Spec => []GapBounded
  OBVIOUS
<1>1. Init => TypeInv /\ GapInv
  BY TypeInit, GapInit
<1>2. TypeInv /\ GapInv /\ [Next]_vars => (TypeInv /\ GapInv)'
  BY TypeStep, GapStep
<1>3. TypeInv /\ GapInv => GapBounded
  <2> SUFFICES ASSUME TypeInv, GapInv, lost < NumXfers
               PROVE  gap <= LeadFrames + MaxHold
    BY DEF GapBounded
  <2>1. gap \in Nat /\ 1 \in 1..Len(starts) /\ \A i \in 1..Len(starts) : starts[i] \in Int
    BY Constants DEF TypeInv, TypeOK
  <2>2. CASE Coming
    <3>1. PICK i \in 1..Len(starts) : 0 < starts[i] /\ starts[i] + gap <= LongestGap + 1
      BY <2>2 DEF Coming
    <3>2. starts[i] \in Int
      BY <2>1
    <3> QED BY <2>1, <3>1, <3>2, Constants DEF LongestGap
  <2>3. CASE Ended
    <3>1. starts[1] + AudioPkts + gap <= 1 /\ starts[1] \in Int
      BY <2>1, <2>3 DEF Ended
    <3>2. -(starts[1] + AudioPkts) <= MaxHold
      BY <2>1 DEF GapInv, Held
    <3> QED BY <2>1, <3>1, <3>2, Constants
  <2>4. CASE gap = 0
    BY <2>4, Constants
  <2> QED BY <2>1, <2>2, <2>3, <2>4 DEF GapInv
<1> QED BY <1>1, <1>2, <1>3, PTL DEF Spec
====
