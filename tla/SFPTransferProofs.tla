-------------------------- MODULE SFPTransferProofs --------------------------
(***************************************************************************)
(* SFPTransfer keeps its inductive invariant and implements                *)
(* MessageChannel, for every SeqRange, HistoryCapacity and Window, any     *)
(* number of packets and any number of faults.                             *)
(***************************************************************************)
EXTENDS SFPTransfer, SFPTransmitterProofs

\* The window is shorter than the numbering.
LEMMA WindowFits ==
  /\ Window \in Nat /\ HistoryCapacity \in Nat
  /\ Window <= HistoryCapacity /\ HistoryCapacity < SeqRange
  BY SeqRangePositive, HistoryAssumption, WindowAssumption

\* A later position is no farther from the end.
LEMMA CloserToSent ==
  \A a, b, c, w \in Nat : a <= b /\ c - a <= w => c - b <= w
  OBVIOUS

-----------------------------------------------------------------------------
(***************************************************************************)
(* NAKs in flight.                                                         *)
(***************************************************************************)
\* Confirmed is a position the receiver has reached.
LEMMA ConfirmedBounds ==
  ASSUME TypeOK, NaksOrdered
  PROVE  Confirmed \in Nat /\ Confirmed <= Len(delivered)
<1>1. CASE naks = << >>
  BY <1>1 DEF TypeOK, Confirmed
<1>2. CASE naks # << >>
  <2>1. Head(naks) = naks[1] /\ 1 \in 1 .. Len(naks) /\ naks[1] \in Naks
    BY <1>2 DEF TypeOK
  <2> QED BY <1>2, <2>1 DEF Confirmed, NaksOrdered, Naks
<1> QED BY <1>1, <1>2

\* When the oldest NAK leaves, Confirmed can only grow.
LEMMA NAKLeaves ==
  ASSUME TypeOK, NaksOrdered, naks # << >>, naks' = Tail(naks),
         UNCHANGED delivered
  PROVE  /\ naks' \in Seq(Naks)
         /\ NaksOrdered'
         /\ Confirmed <= Confirmed'
<1>1. /\ naks' \in Seq(Naks)
      /\ Len(naks') = Len(naks) - 1
      /\ \A i \in 1 .. Len(naks') : naks'[i] = naks[i + 1]
  BY HeadTailProperties DEF TypeOK
<1>2. Len(naks) \in Nat /\ Len(naks) > 0
  BY DEF TypeOK
<1>3. NaksOrdered'
  <2>1. \A i \in 1 .. Len(naks') : i + 1 \in 1 .. Len(naks)
    BY <1>1, <1>2
  <2>2. \A i \in 1 .. Len(naks') :
          naks'[i].seq = naks'[i].at % SeqRange /\ naks'[i].at <= Len(delivered)'
    BY <1>1, <2>1 DEF NaksOrdered
  <2>3. \A i, j \in 1 .. Len(naks') : i <= j => naks'[i].at <= naks'[j].at
    <3> SUFFICES ASSUME NEW i \in 1 .. Len(naks'), NEW j \in 1 .. Len(naks'),
                        i <= j
                 PROVE  naks'[i].at <= naks'[j].at
      OBVIOUS
    <3>1. i + 1 <= j + 1
      BY <1>1, <1>2
    <3> QED BY <1>1, <2>1, <3>1 DEF NaksOrdered
  <2> QED BY <2>2, <2>3 DEF NaksOrdered
<1>4. Confirmed = naks[1].at /\ naks[1].at <= Len(delivered)
  BY <1>2 DEF Confirmed, TypeOK, NaksOrdered
<1>5. Confirmed <= Confirmed'
  <2>1. CASE naks' = << >>
    <3>1. Confirmed' = Len(delivered)
      BY <2>1 DEF Confirmed
    <3> QED BY <1>4, <3>1
  <2>2. CASE naks' # << >>
    <3>1. Confirmed' = naks'[1].at /\ 1 \in 1 .. Len(naks')
      BY <1>1, <2>2 DEF Confirmed
    <3>2. naks'[1] = naks[2] /\ 1 \in 1 .. Len(naks) /\ 2 \in 1 .. Len(naks)
      BY <1>1, <1>2, <3>1
    <3> QED BY <1>4, <3>1, <3>2 DEF NaksOrdered
  <2> QED BY <2>1, <2>2
<1> QED BY <1>1, <1>3, <1>5

\* When the receiver sends a NAK, Confirmed stays where it is.
LEMMA NAKSent ==
  ASSUME TypeOK, Numbering, NaksOrdered, naks' = Append(naks, NakFrame),
         UNCHANGED <<rxSeq, delivered>>
  PROVE  /\ naks' \in Seq(Naks)
         /\ NaksOrdered'
         /\ Confirmed' = Confirmed
<1>1. NakFrame \in Naks /\ NakFrame.at = Len(delivered)
      /\ NakFrame.seq = NakFrame.at % SeqRange
  BY DEF NakFrame, Naks, TypeOK, Numbering
<1>2. /\ naks' \in Seq(Naks)
      /\ Len(naks) \in Nat
      /\ Len(naks') = Len(naks) + 1
      /\ \A i \in 1 .. Len(naks) : naks'[i] = naks[i]
      /\ naks'[Len(naks) + 1] = NakFrame
  BY <1>1 DEF TypeOK
<1>3. \A i \in 1 .. Len(naks') :
        naks'[i].seq = naks'[i].at % SeqRange /\ naks'[i].at <= Len(delivered)'
  <2> TAKE i \in 1 .. Len(naks')
  <2>1. CASE i \in 1 .. Len(naks)
    BY <1>2, <2>1 DEF NaksOrdered
  <2>2. CASE i = Len(naks) + 1
    BY <1>1, <1>2, <2>2 DEF TypeOK
  <2> QED BY <1>2, <2>1, <2>2
<1>4. \A i, j \in 1 .. Len(naks') : i <= j => naks'[i].at <= naks'[j].at
  <2> SUFFICES ASSUME NEW i \in 1 .. Len(naks'), NEW j \in 1 .. Len(naks'),
                      i <= j
               PROVE  naks'[i].at <= naks'[j].at
    OBVIOUS
  <2>1. CASE j \in 1 .. Len(naks)
    <3>1. i \in 1 .. Len(naks)
      BY <1>2, <2>1
    <3> QED BY <1>2, <2>1, <3>1 DEF NaksOrdered
  <2>2. CASE j = Len(naks) + 1
    BY <1>1, <1>2, <1>3, <2>2
  <2> QED BY <1>2, <2>1, <2>2
<1>5. Confirmed' = Confirmed
  <2>1. CASE naks = << >>
    <3>1. Head(naks') = NakFrame /\ naks' # << >>
      BY <1>2, <2>1
    <3> QED BY <1>1, <2>1, <3>1 DEF Confirmed
  <2>2. CASE naks # << >>
    <3>1. Head(naks) = naks[1] /\ 1 \in 1 .. Len(naks)
      BY <2>2 DEF TypeOK
    <3>2. Head(naks') = naks'[1] /\ naks' # << >>
      BY <1>2
    <3> QED BY <1>2, <2>2, <3>1, <3>2 DEF Confirmed
  <2> QED BY <2>1, <2>2
<1> QED BY <1>2, <1>3, <1>4, <1>5 DEF NaksOrdered

-----------------------------------------------------------------------------
(***************************************************************************)
(* Data frames in flight.                                                  *)
(***************************************************************************)
\* The frame at the head of the wire, in terms of DataUnambiguous.
LEMMA HeadOfData ==
  ASSUME TypeOK, DataUnambiguous, data # << >>
  PROVE  /\ 1 \in 1 .. Len(data) /\ Head(data) = data[1]
         /\ Head(data) \in Frames
         /\ Head(data).packet \in 1 .. sent
         /\ Head(data).seq = (Head(data).packet - 1) % SeqRange
         /\ Len(delivered) <= Head(data).packet + SeqRange - 2
  BY DEF TypeOK, DataUnambiguous

\* Removing the oldest frame keeps the others unambiguous.
LEMMA FrameLeaves ==
  ASSUME TypeOK, DataUnambiguous, data # << >>, data' = Tail(data),
         UNCHANGED <<sent, delivered>>
  PROVE  data' \in Seq(Frames) /\ DataUnambiguous'
<1>1. /\ data' \in Seq(Frames)
      /\ Len(data) \in Nat
      /\ Len(data') = Len(data) - 1
      /\ \A i \in 1 .. Len(data') : data'[i] = data[i + 1]
  BY HeadTailProperties DEF TypeOK
<1> QED BY <1>1 DEF DataUnambiguous

\* The receiver accepts a frame only if it carries the next packet.
LEMMA AcceptedIsNext ==
  ASSUME IndInv, data # << >>, Head(data).seq = rxSeq
  PROVE  /\ Head(data).packet = Len(delivered) + 1
         /\ Len(delivered) < sent
<1> DEFINE p == Head(data).packet
           D == Len(delivered)
<1>1. /\ p \in 1 .. sent /\ Head(data).seq = (p - 1) % SeqRange
      /\ D <= p + SeqRange - 2
  BY HeadOfData DEF IndInv
<1>2. D \in Nat /\ sent \in Nat /\ rxSeq = D % SeqRange
  BY DEF IndInv, TypeOK, Numbering
<1>3. Confirmed \in Nat /\ Confirmed <= D /\ sent - Confirmed <= Window
  BY ConfirmedBounds DEF IndInv, WindowKept
<1>4. p - 1 - D < SeqRange
  BY <1>1, <1>2, <1>3, WindowFits, SeqRangePositive
<1>5. D - (p - 1) < SeqRange
  BY <1>1, <1>2, SeqRangePositive
<1>6. p - 1 = D
  <2>1. (p - 1) % SeqRange = D % SeqRange
    BY <1>1, <1>2
  <2>2. p - 1 \in Int /\ D \in Int
    BY <1>1, <1>2
  <2> HIDE DEF p, D
  <2> QED BY <1>4, <1>5, <2>1, <2>2, SameNumberSamePosition
<1> QED BY <1>1, <1>2, <1>6

-----------------------------------------------------------------------------
(***************************************************************************)
(* Each action preserves the invariant.                                    *)
(***************************************************************************)
\* Init establishes the invariant.
LEMMA InitInv == Init => IndInv
<1> SUFFICES ASSUME Init PROVE IndInv
  OBVIOUS
<1> USE SeqRangePositive, HistoryAssumption, WindowFits
<1>1. TypeOK
  BY DEF Init, TypeOK, Seqs, InitialSeq
<1>2. Numbering /\ WindowKept
  BY DEF Init, Numbering, WindowKept, Confirmed, InitialSeq
<1>3. DeliveredInOrder /\ HistoryCovers
  BY DEF Init, DeliveredInOrder, HistoryCovers, Confirmed
<1>4. NaksOrdered /\ DataUnambiguous
  BY DEF Init, NaksOrdered, DataUnambiguous
<1> QED BY <1>1, <1>2, <1>3, <1>4 DEF IndInv

\* What does not depend on the wires survives when only the wires change and
\* Confirmed does not shrink.
LEMMA WiresOnly ==
  ASSUME IndInv, UNCHANGED <<txSeq, history, rxSeq, sent, delivered>>,
         Confirmed' \in Nat, Confirmed <= Confirmed',
         data' \in Seq(Frames), DataUnambiguous',
         naks' \in Seq(Naks), NaksOrdered'
  PROVE  IndInv'
<1>1. TypeOK'
  BY DEF IndInv, TypeOK
<1>2. Confirmed \in Nat /\ sent \in Nat /\ Len(history) \in Nat
  BY ConfirmedBounds DEF IndInv, TypeOK
<1>3. HistoryCovers'
  BY <1>2 DEF IndInv, HistoryCovers
<1>4. WindowKept'
  <2>1. sent - Confirmed <= Window /\ sent' = sent
    BY DEF IndInv, WindowKept
  <2>3. sent - Confirmed' <= Window
    BY <1>2, <2>1, CloserToSent, WindowFits
  <2> QED BY <2>1, <2>3 DEF WindowKept
<1>5. Numbering' /\ DeliveredInOrder'
  BY DEF IndInv, Numbering, DeliveredInOrder
<1> QED BY <1>1, <1>3, <1>4, <1>5 DEF IndInv

\* Confirmed is a natural number after any step that keeps the NAKs ordered.
LEMMA ConfirmedNat ==
  ASSUME delivered' \in Seq(Nat), naks' \in Seq(Naks)
  PROVE  Confirmed' \in Nat
<1>1. CASE naks' = << >>
  BY <1>1 DEF Confirmed
<1>2. CASE naks' # << >>
  <2>1. Head(naks') \in Naks
    BY <1>2
  <2> QED BY <1>2, <2>1 DEF Confirmed, Naks
<1> QED BY <1>1, <1>2

\* A packet is written under the next number and enters the history.
LEMMA WritePacketInv == IndInv /\ WritePacket => IndInv'
<1> SUFFICES ASSUME IndInv, WritePacket PROVE IndInv'
  OBVIOUS
<1> DEFINE f == DataFrame("USR", txSeq, sent + 1)
<1>1. /\ sent \in Nat /\ Len(history) \in Nat /\ history \in Seq(Nat)
      /\ Len(history) <= HistoryCapacity
      /\ data \in Seq(Frames) /\ Len(data) \in Nat
      /\ Len(delivered) \in Nat /\ Len(delivered) <= sent
      /\ txSeq \in Seqs /\ txSeq = sent % SeqRange
  BY DEF IndInv, TypeOK, Numbering
<1>2. Confirmed \in Nat /\ Confirmed' = Confirmed /\ sent - Confirmed < Window
  BY ConfirmedBounds DEF IndInv, WritePacket, WindowOpen, Confirmed
<1>3. /\ sent' = sent + 1
      /\ history' = PushBack(history, sent + 1)
      /\ data' = Append(data, f)
      /\ txSeq' = nextSeq(txSeq)
      /\ rxSeq' = rxSeq /\ naks' = naks /\ delivered' = delivered
  BY DEF WritePacket
<1>4. f \in Frames /\ f.packet = sent + 1 /\ f.seq = sent % SeqRange
  BY <1>1 DEF DataFrame, Frames
<1>5. /\ data' \in Seq(Frames) /\ Len(data') = Len(data) + 1
      /\ \A i \in 1 .. Len(data) : data'[i] = data[i]
      /\ data'[Len(data) + 1] = f
  BY <1>1, <1>3, <1>4
<1>6. txSeq' \in Seqs /\ txSeq' = sent' % SeqRange
  BY <1>1, <1>3, ModSum, DivMod DEF nextSeq
<1>7. /\ history' \in Seq(Nat)
      /\ Len(history) < HistoryCapacity => Len(history') = Len(history) + 1
      /\ Len(history) = HistoryCapacity => Len(history') = Len(history)
      /\ Len(history') > 0 /\ history'[Len(history')] = sent + 1
      /\ \A i \in 1 .. (Len(history') - 1) :
           history'[i] = history[i + Len(history) + 1 - Len(history')]
  <2>1. /\ history \in Seq(Nat) /\ Len(history) <= HistoryCapacity
        /\ sent + 1 \in Nat
    BY <1>1
  <2> QED BY ONLY <2>1, <1>3, PushBackProperties
<1>7a. /\ Len(history) < HistoryCapacity \/ Len(history) = HistoryCapacity
       /\ Len(history') = Len(history) + 1 \/ Len(history') = Len(history)
  BY <1>1, <1>7, WindowFits
<1>8. TypeOK'
  <2>1. Len(history') <= HistoryCapacity
    BY <1>1, <1>7, <1>7a, WindowFits
  <2> QED BY <1>1, <1>3, <1>5, <1>6, <1>7, <2>1 DEF IndInv, TypeOK
<1>9. Numbering' /\ DeliveredInOrder'
  BY <1>1, <1>3, <1>6 DEF IndInv, Numbering, DeliveredInOrder
<1>10. HistoryCovers'
  <2>1. Len(history') <= sent'
    BY <1>1, <1>3, <1>7a DEF IndInv, HistoryCovers
  <2>2. sent' - Len(history') <= Confirmed'
    <3>1. sent - Len(history) <= Confirmed
      BY DEF IndInv, HistoryCovers
    <3>2. CASE Len(history') = Len(history) + 1
      BY <1>1, <1>2, <1>3, <3>1, <3>2
    <3>3. CASE Len(history) = HistoryCapacity /\ Len(history') = Len(history)
      BY <1>1, <1>2, <1>3, <3>3, WindowFits
    <3> QED BY <1>7, <1>7a, <3>2, <3>3
  <2>3. ASSUME NEW i \in 1 .. Len(history')
        PROVE  history'[i] = sent' - Len(history') + i
    <3> DEFINE n == Len(history')
    <3>1. i \in 1 .. n /\ n \in Nat /\ (n = Len(history) + 1 \/ n = Len(history))
      BY <1>1, <1>7, <1>7a
    <3>2. CASE i = n
      <4>1. history'[i] = sent + 1
        BY <1>7, <3>2, Zenon
      <4> HIDE DEF n
      <4>2. sent' - n + n = sent + 1
        BY <1>1, <1>3, <3>1
      <4> QED BY <3>2, <4>1, <4>2 DEF n
    <3>3. CASE i # n
      <4>1. i \in 1 .. (n - 1)
        BY <3>1, <3>3
      <4>2. history'[i] = history[i + Len(history) + 1 - n]
        BY <1>7, <4>1, Zenon
      <4> HIDE DEF n
      <4>3. i + Len(history) + 1 - n \in 1 .. Len(history)
        BY <1>1, <3>1, <4>1
      <4>4. history'[i] = sent - Len(history) + (i + Len(history) + 1 - n)
        BY <4>2, <4>3, Zenon DEF IndInv, HistoryCovers
      <4>5. sent - Len(history) + (i + Len(history) + 1 - n) = sent' - n + i
        BY <1>1, <1>3, <3>1
      <4> QED BY <4>4, <4>5 DEF n
    <3> QED BY <3>2, <3>3
  <2> QED BY <2>1, <2>2, <2>3 DEF HistoryCovers
<1>11. NaksOrdered'
  BY <1>3 DEF IndInv, NaksOrdered
<1>12. WindowKept'
  BY <1>1, <1>2, <1>3, WindowFits DEF WindowKept
<1>13. DataUnambiguous'
  <2>1. ASSUME NEW i \in 1 .. Len(data')
        PROVE  /\ data'[i].packet \in 1 .. sent'
               /\ data'[i].seq = (data'[i].packet - 1) % SeqRange
               /\ Len(delivered)' <= data'[i].packet + SeqRange - 2
    <3>1. CASE i \in 1 .. Len(data)
      BY <1>1, <1>3, <1>5, <3>1 DEF IndInv, DataUnambiguous
    <3>2. CASE i = Len(data) + 1
      <4>1. data'[i].packet = sent + 1 /\ data'[i].seq = sent % SeqRange
        BY <1>4, <1>5, <3>2
      <4>2. /\ (sent + 1) - 1 = sent /\ sent + 1 \in 1 .. sent'
            /\ Len(delivered) <= (sent + 1) + SeqRange - 2
        BY <1>1, <1>3, SeqRangePositive
      <4> QED BY <1>3, <4>1, <4>2
    <3> QED BY <1>1, <1>5, <3>1, <3>2
  <2>2. ASSUME NEW i \in 1 .. Len(data'), NEW j \in 1 .. Len(data'), i < j
        PROVE  data'[i].packet <= data'[j].packet + SeqRange - 2
    <3>1. i \in 1 .. Len(data)
      BY <1>1, <1>5, <2>2
    <3>2. CASE j \in 1 .. Len(data)
      BY <1>5, <2>2, <3>1, <3>2 DEF IndInv, DataUnambiguous
    <3>3. CASE j = Len(data) + 1
      <4>1. data'[i].packet \in 1 .. sent /\ data'[j].packet = sent + 1
        BY <1>4, <1>5, <3>1, <3>3 DEF IndInv, DataUnambiguous
      <4> QED BY <1>1, <4>1, SeqRangePositive
    <3> QED BY <1>1, <1>5, <3>2, <3>3
  <2> QED BY <2>1, <2>2 DEF DataUnambiguous
<1> QED BY <1>8, <1>9, <1>10, <1>11, <1>12, <1>13 DEF IndInv

\* Dropping the oldest NAK without an answer: IgnoreNAK, LoseNAK.
LEMMA DropNAKInv ==
  ASSUME IndInv, naks # << >>, naks' = Tail(naks),
         UNCHANGED <<txSeq, history, rxSeq, data, sent, delivered>>
  PROVE  IndInv'
<1>1. TypeOK /\ NaksOrdered /\ DataUnambiguous
  BY DEF IndInv
<1>2. naks' \in Seq(Naks) /\ NaksOrdered' /\ Confirmed <= Confirmed'
  BY <1>1, NAKLeaves
<1>3. delivered' \in Seq(Nat) /\ data' \in Seq(Frames)
  BY <1>1 DEF TypeOK
<1>4. Confirmed' \in Nat
  BY <1>2, <1>3, ConfirmedNat
<1>5. DataUnambiguous'
  BY <1>1 DEF DataUnambiguous
<1> QED BY <1>2, <1>3, <1>4, <1>5, WiresOnly

\* Dropping the oldest data frame without delivering it: IgnoreRetransmission,
\* LoseData.
LEMMA DropDataInv ==
  ASSUME IndInv, data # << >>, data' = Tail(data),
         UNCHANGED <<txSeq, history, rxSeq, naks, sent, delivered>>
  PROVE  IndInv'
<1>1. TypeOK /\ NaksOrdered /\ DataUnambiguous
  BY DEF IndInv
<1>2. data' \in Seq(Frames) /\ DataUnambiguous'
  BY <1>1, FrameLeaves
<1>3. naks' \in Seq(Naks) /\ NaksOrdered'
  BY <1>1 DEF TypeOK, NaksOrdered
<1>4. Confirmed' = Confirmed /\ Confirmed \in Nat
  BY <1>1, ConfirmedBounds DEF Confirmed
<1> QED BY <1>2, <1>3, <1>4, WiresOnly

\* Sending a NAK, the oldest data frame being dropped or not:
\* RejectOutOfOrder, RejectBadFrame.
LEMMA SendNAKInv ==
  ASSUME IndInv, naks' = Append(naks, NakFrame),
         data' = data \/ (data # << >> /\ data' = Tail(data)),
         UNCHANGED <<txSeq, history, rxSeq, sent, delivered>>
  PROVE  IndInv'
<1>1. TypeOK /\ Numbering /\ NaksOrdered /\ DataUnambiguous
  BY DEF IndInv
<1>2. data' \in Seq(Frames) /\ DataUnambiguous'
  <2>1. CASE data' = data
    BY <1>1, <2>1 DEF TypeOK, DataUnambiguous
  <2>2. CASE data # << >> /\ data' = Tail(data)
    BY <1>1, <2>2, FrameLeaves
  <2> QED BY <2>1, <2>2
<1>3. naks' \in Seq(Naks) /\ NaksOrdered' /\ Confirmed' = Confirmed
  BY <1>1, NAKSent
<1>4. Confirmed \in Nat
  BY <1>1, ConfirmedBounds
<1> QED BY <1>2, <1>3, <1>4, WiresOnly

\* The receiver accepts the next packet.
LEMMA DeliverInv == IndInv /\ Deliver => IndInv'
<1> SUFFICES ASSUME IndInv, Deliver PROVE IndInv'
  OBVIOUS
<1> DEFINE D == Len(delivered)
<1>1. /\ data # << >> /\ Head(data).seq = rxSeq
      /\ delivered' = Append(delivered, Head(data).packet)
      /\ rxSeq' = nextSeq(rxSeq)
      /\ data' = Tail(data)
      /\ txSeq' = txSeq /\ history' = history /\ naks' = naks /\ sent' = sent
  BY DEF Deliver
<1>2. Head(data).packet = D + 1 /\ D < sent
  BY <1>1, AcceptedIsNext
<1>3. /\ TypeOK /\ Numbering /\ NaksOrdered /\ DataUnambiguous
      /\ D \in Nat /\ sent \in Nat /\ Len(history) \in Nat
  BY DEF IndInv, TypeOK
<1>4. /\ delivered' \in Seq(Nat) /\ Len(delivered') = D + 1
      /\ \A i \in 1 .. D : delivered'[i] = delivered[i]
      /\ delivered'[D + 1] = D + 1
  BY <1>1, <1>2, <1>3 DEF TypeOK
<1>5. rxSeq' \in Seqs /\ rxSeq' = (D + 1) % SeqRange
  BY <1>1, <1>3, ModSum, DivMod DEF nextSeq, Numbering
<1>6. /\ data' \in Seq(Frames) /\ Len(data) \in Nat /\ Len(data) > 0
      /\ Len(data') = Len(data) - 1
      /\ \A i \in 1 .. Len(data') : data'[i] = data[i + 1]
      /\ data[1].packet = D + 1
  BY <1>1, <1>2, <1>3, HeadTailProperties DEF TypeOK
<1>7. TypeOK'
  BY <1>1, <1>3, <1>4, <1>5, <1>6 DEF TypeOK
<1>8. Numbering'
  BY <1>1, <1>2, <1>3, <1>4, <1>5 DEF Numbering
<1>9. DeliveredInOrder'
  BY <1>3, <1>4 DEF IndInv, DeliveredInOrder
<1>10. NaksOrdered'
  <2>1. ASSUME NEW i \in 1 .. Len(naks)
        PROVE  naks[i].at <= Len(delivered')
    <3>1. naks[i] \in Naks
      BY <1>3 DEF TypeOK
    <3>2. naks[i].at \in Nat /\ naks[i].at <= D
      BY <1>3, <3>1 DEF NaksOrdered, Naks
    <3> QED BY <1>3, <1>4, <3>2
  <2> QED BY <1>1, <1>3, <2>1 DEF NaksOrdered
<1>11. /\ Confirmed \in Nat /\ Confirmed' \in Nat
       /\ Confirmed <= Confirmed'
  BY <1>1, <1>3, <1>4, <1>7, ConfirmedNat, ConfirmedBounds
     DEF Confirmed, TypeOK
<1>12. HistoryCovers' /\ WindowKept'
  <2>1. sent - Len(history) <= Confirmed /\ sent - Confirmed <= Window
    BY DEF IndInv, HistoryCovers, WindowKept
  <2>3. sent - Confirmed' <= Window
    BY <1>3, <1>11, <2>1, CloserToSent, WindowFits
  <2>4. sent - Len(history) <= Confirmed'
    BY <1>3, <1>11, <2>1
  <2> QED BY <1>1, <2>3, <2>4 DEF IndInv, HistoryCovers, WindowKept
<1>13. DataUnambiguous'
  <2>1. ASSUME NEW i \in 1 .. Len(data')
        PROVE  /\ data'[i].packet \in 1 .. sent
               /\ data'[i].seq = (data'[i].packet - 1) % SeqRange
               /\ D + 1 <= data'[i].packet + SeqRange - 2
    <3>1. data'[i] = data[i + 1] /\ i + 1 \in 1 .. Len(data) /\ 1 < i + 1
          /\ 1 \in 1 .. Len(data)
      BY <1>6
    <3> QED BY <1>3, <1>6, <3>1 DEF DataUnambiguous
  <2>2. ASSUME NEW i \in 1 .. Len(data'), NEW j \in 1 .. Len(data'), i < j
        PROVE  data'[i].packet <= data'[j].packet + SeqRange - 2
    <3>1. /\ data'[i] = data[i + 1] /\ i + 1 \in 1 .. Len(data)
          /\ data'[j] = data[j + 1] /\ j + 1 \in 1 .. Len(data)
          /\ i + 1 < j + 1
      BY <1>6, <2>2
    <3> QED BY <1>3, <3>1 DEF DataUnambiguous
  <2> QED BY <1>1, <1>4, <2>1, <2>2 DEF DataUnambiguous
<1> QED BY <1>7, <1>8, <1>9, <1>10, <1>12, <1>13 DEF IndInv

\* The transmitter goes back to the position a NAK names and sends everything
\* from there again.
LEMMA AnswerNAKInv == IndInv /\ AnswerNAK => IndInv' /\ NoUnderrun
<1> SUFFICES ASSUME IndInv, AnswerNAK PROVE IndInv' /\ NoUnderrun
  OBVIOUS
<1> DEFINE at == Head(naks).at
           seq == Head(naks).seq
           kept == KeptHistory(history, txSeq, seq)
           rtx == Retransmissions(kept, seq)
<1>1. /\ naks # << >> /\ seq # txSeq /\ naks' = Tail(naks)
      /\ history' = kept /\ data' = data \o rtx /\ txSeq' = SeqAfter(kept, seq)
      /\ rxSeq' = rxSeq /\ sent' = sent /\ delivered' = delivered
  BY DEF AnswerNAK, TransmitHistoryFromSeq
<1>2. /\ TypeOK /\ Numbering /\ HistoryCovers /\ NaksOrdered /\ DataUnambiguous
      /\ sent \in Nat /\ Len(delivered) \in Nat
      /\ Len(history) \in Nat /\ history \in Seq(Nat)
      /\ Len(history) <= HistoryCapacity
  BY DEF IndInv, TypeOK
<1>3. /\ at \in Nat /\ seq = at % SeqRange /\ at <= Len(delivered)
      /\ Confirmed = at /\ seq \in Int /\ txSeq \in Int
  <2>1. Head(naks) = naks[1] /\ 1 \in 1 .. Len(naks) /\ naks[1] \in Naks
    BY <1>1, <1>2 DEF TypeOK
  <2>2. seq \in Seqs /\ txSeq \in Seqs
    BY <1>2, <2>1 DEF TypeOK, Naks
  <2>3. seq \in Int /\ txSeq \in Int
    BY <2>2, SeqRangePositive DEF Seqs
  <2> QED BY <1>1, <1>2, <2>1, <2>3 DEF Confirmed, NaksOrdered, Naks
<1>4. /\ txSeq = sent % SeqRange /\ Len(delivered) <= sent
      /\ sent - Len(history) <= at /\ sent - at <= Window
  BY <1>2, <1>3 DEF IndInv, Numbering, HistoryCovers, WindowKept
<1>5. at < sent
  <2>1. at # sent
    BY <1>1, <1>3, <1>4
  <2> QED BY <1>2, <1>3, <1>4, <2>1
<1>6. /\ FastForward(history, txSeq, seq) = at - (sent - Len(history))
      /\ ~ Underrun(history, txSeq, seq)
  <2>1. Len(history) < SeqRange /\ sent \in Int /\ at \in Int
    BY <1>2, <1>3, WindowFits, SeqRangePositive
  <2> HIDE DEF at, seq
  <2> QED BY <1>2, <1>3, <1>4, <1>5, <2>1, FastForwardValue
<1>7. /\ kept \in Seq(Nat) /\ Len(kept) = sent - at
      /\ \A i \in 1 .. Len(kept) : kept[i] = at + i
  <2>2. /\ kept \in Seq(Nat)
        /\ Len(kept) = Len(history) - FastForward(history, txSeq, seq)
        /\ \A i \in 1 .. Len(kept) :
             kept[i] = history[i + FastForward(history, txSeq, seq)]
    BY <1>2, <1>3, <1>6, KeptHistoryType, KeptHistoryProperties
  <2> HIDE DEF at, seq, kept
  <2>3. Len(kept) = sent - at
    BY <1>2, <1>3, <1>6, <2>2
  <2>4. ASSUME NEW i \in 1 .. Len(kept)
        PROVE  kept[i] = at + i
    <3> DEFINE j == i + (at - (sent - Len(history)))
    <3>1. kept[i] = history[j]
      BY <1>6, <2>2
    <3>2. j \in 1 .. Len(history) /\ sent - Len(history) + j = at + i
      BY <1>2, <1>3, <1>4, <2>3
    <3> HIDE DEF j
    <3> QED BY <1>2, <3>1, <3>2 DEF HistoryCovers
  <2> QED BY <2>2, <2>3, <2>4
<1>8. /\ rtx \in Seq(Frames) /\ Len(rtx) = sent - at
      /\ \A i \in 1 .. Len(rtx) : /\ rtx[i].packet = at + i
                                 /\ rtx[i].seq = (at + i - 1) % SeqRange
  <2>2. /\ rtx \in Seq(Frames) /\ Len(rtx) = Len(kept)
        /\ \A i \in 1 .. Len(kept) : /\ rtx[i].packet = kept[i]
                                    /\ rtx[i].seq = (seq + i - 1) % SeqRange
    BY <1>3, <1>7, RetransmissionsProperties DEF Frames
  <2> HIDE DEF at, seq, kept, rtx
  <2>3. ASSUME NEW i \in Int
        PROVE  (seq + i - 1) % SeqRange = (at + i - 1) % SeqRange
    <3>1. ((at % SeqRange) + (i - 1)) % SeqRange = (at + (i - 1)) % SeqRange
      BY <1>3, ModSum
    <3>2. seq + i - 1 = (at % SeqRange) + (i - 1) /\ at + i - 1 = at + (i - 1)
      BY <1>3
    <3> QED BY <3>1, <3>2
  <2> QED BY <1>7, <2>2, <2>3
<1>9. txSeq' = sent' % SeqRange /\ txSeq' \in Seqs
  <2>1. txSeq' = ((at % SeqRange) + (sent - at)) % SeqRange
    BY <1>1, <1>3, <1>7 DEF SeqAfter
  <2>2. at + (sent - at) = sent /\ sent - at \in Int
    BY <1>2, <1>3
  <2> HIDE DEF at
  <2> QED BY <1>1, <1>2, <1>3, <2>1, <2>2, ModSum, DivMod
<1> HIDE DEF at, seq, kept, rtx
<1>10. naks' \in Seq(Naks) /\ NaksOrdered' /\ Confirmed <= Confirmed'
  BY <1>1, <1>2, NAKLeaves
<1>11. Confirmed' \in Nat
  BY <1>1, <1>2, <1>10, ConfirmedNat DEF TypeOK
<1>12. /\ data' \in Seq(Frames) /\ Len(data) \in Nat
       /\ Len(data') = Len(data) + (sent - at)
       /\ \A i \in 1 .. Len(data') :
            data'[i] = IF i <= Len(data) THEN data[i] ELSE rtx[i - Len(data)]
  <2>1. data \in Seq(Frames) /\ rtx \in Seq(Frames)
    BY <1>2, <1>8 DEF TypeOK
  <2>2. /\ data \o rtx \in Seq(Frames)
        /\ Len(data \o rtx) = Len(data) + Len(rtx)
        /\ \A i \in 1 .. Len(data) + Len(rtx) :
             (data \o rtx)[i] = IF i <= Len(data) THEN data[i]
                                                 ELSE rtx[i - Len(data)]
    BY <2>1, ConcatProperties
  <2>3. Len(data) \in Nat
    BY <2>1
  <2> HIDE DEF rtx
  <2> QED BY <1>1, <1>8, <2>2, <2>3
<1>13. TypeOK'
  <2>1. Len(history') <= HistoryCapacity
    BY <1>1, <1>2, <1>3, <1>4, <1>7, WindowFits
  <2> QED BY <1>1, <1>2, <1>7, <1>9, <1>10, <1>12, <2>1 DEF TypeOK
<1>14. Numbering' /\ DeliveredInOrder'
  BY <1>1, <1>2, <1>9 DEF IndInv, Numbering, DeliveredInOrder
<1>15. HistoryCovers'
  BY <1>1, <1>2, <1>3, <1>7, <1>10, <1>11 DEF HistoryCovers
<1>16. WindowKept'
  <2>1. sent - Confirmed' <= Window
    BY <1>2, <1>3, <1>4, <1>10, <1>11, WindowFits, CloserToSent
  <2> QED BY <1>1, <2>1 DEF WindowKept
<1>17. DataUnambiguous'
  \* A frame is an old one, or carries a packet beyond at.
  <2>1. ASSUME NEW i \in 1 .. Len(data')
        PROVE  \/ /\ i \in 1 .. Len(data) /\ data'[i] = data[i]
               \/ /\ i > Len(data) /\ i - Len(data) \in 1 .. (sent - at)
                  /\ data'[i].packet = at + (i - Len(data))
                  /\ data'[i].seq = (at + (i - Len(data)) - 1) % SeqRange
    <3>1. CASE i <= Len(data)
      BY <1>12, <3>1
    <3>2. CASE i > Len(data)
      <4>1. i - Len(data) \in 1 .. (sent - at) /\ ~ (i <= Len(data))
        BY <1>2, <1>3, <1>12, <3>2
      <4>2. data'[i] = rtx[i - Len(data)]
        BY <1>12, <4>1
      <4> QED BY <1>8, <3>2, <4>1, <4>2
    <3> QED BY <1>12, <3>1, <3>2
  <2>2. ASSUME NEW i \in 1 .. Len(data')
        PROVE  /\ data'[i].packet \in 1 .. sent
               /\ data'[i].seq = (data'[i].packet - 1) % SeqRange
               /\ Len(delivered) <= data'[i].packet + SeqRange - 2
    <3>1. CASE i \in 1 .. Len(data) /\ data'[i] = data[i]
      BY <1>2, <3>1 DEF DataUnambiguous
    <3>2. CASE /\ i > Len(data) /\ i - Len(data) \in 1 .. (sent - at)
               /\ data'[i].packet = at + (i - Len(data))
               /\ data'[i].seq = (at + (i - Len(data)) - 1) % SeqRange
      <4> DEFINE k == i - Len(data)
      <4>1. /\ k \in 1 .. (sent - at) /\ data'[i].packet = at + k
            /\ data'[i].seq = (at + k - 1) % SeqRange
        BY <3>2
      <4> HIDE DEF k
      <4>2. at + k \in 1 .. sent /\ Len(delivered) <= at + k + SeqRange - 2
        BY <1>2, <1>3, <1>4, <4>1, WindowFits, SeqRangePositive
      <4> DEFINE p == data'[i].packet
                 q == data'[i].seq
      <4>3. p = at + k /\ q = (at + k - 1) % SeqRange
        BY <4>1
      <4> HIDE DEF p, q
      <4>4. at + (k - 1) = p - 1
        BY <1>3, <4>1, <4>3
      <4>5. /\ p \in 1 .. sent /\ q = (p - 1) % SeqRange
            /\ Len(delivered) <= p + SeqRange - 2
        BY <4>2, <4>3, <4>4
      <4> QED BY <4>5 DEF p, q
    <3> QED BY <2>1, <3>1, <3>2
  <2>3. ASSUME NEW i \in 1 .. Len(data'), NEW j \in 1 .. Len(data'), i < j
        PROVE  data'[i].packet <= data'[j].packet + SeqRange - 2
    <3>1. CASE j \in 1 .. Len(data)
      <4>1. i \in 1 .. Len(data)
        BY <1>12, <2>3, <3>1
      <4>2. data'[i] = data[i] /\ data'[j] = data[j]
        BY <1>12, <3>1, <4>1
      <4> QED BY <1>2, <2>3, <3>1, <4>1, <4>2 DEF DataUnambiguous
    <3>2. CASE j > Len(data)
      <4>1. /\ data'[j].packet \in (at + 1) .. sent
            /\ data'[i].packet \in 1 .. sent
        <5>1. ~ (j \in 1 .. Len(data))
          BY <1>12, <3>2
        <5>2. /\ j - Len(data) \in 1 .. (sent - at)
              /\ data'[j].packet = at + (j - Len(data))
          BY <2>1, <5>1, Zenon
        <5>3. data'[j].packet \in (at + 1) .. sent
          BY <1>2, <1>3, <1>12, <5>2
        <5> QED BY <2>2, <5>3, Zenon
      <4> DEFINE p == data'[i].packet
                 q == data'[j].packet
      <4>2. p \in 1 .. sent /\ q \in (at + 1) .. sent
        BY <4>1
      <4>3. sent <= at + Window /\ Window <= SeqRange - 1 /\ Window \in Nat
        BY <1>2, <1>3, <1>4, WindowFits, SeqRangePositive
      <4> HIDE DEF p, q
      <4>4. p <= q + SeqRange - 2
        BY <1>2, <1>3, <4>2, <4>3, SeqRangePositive
      <4> QED BY <4>4 DEF p, q
    <3> QED BY <1>12, <3>1, <3>2
  <2> QED BY <1>1, <2>2, <2>3 DEF DataUnambiguous
<1>18. NoUnderrun
  BY <1>6 DEF NoUnderrun, seq
<1> QED BY <1>10, <1>13, <1>14, <1>15, <1>16, <1>17, <1>18 DEF IndInv

\* Every step of the protocol preserves the invariant.
LEMMA NextInv == IndInv /\ [Next]_vars => IndInv'
<1> SUFFICES ASSUME IndInv, [Next]_vars PROVE IndInv'
  OBVIOUS
<1>1. CASE WritePacket
  BY <1>1, WritePacketInv
<1>2. CASE IgnoreNAK
  BY <1>2, DropNAKInv DEF IgnoreNAK
<1>3. CASE AnswerNAK
  BY <1>3, AnswerNAKInv
<1>4. CASE Deliver
  BY <1>4, DeliverInv
<1>5. CASE RejectOutOfOrder
  BY <1>5, SendNAKInv DEF RejectOutOfOrder
<1>6. CASE IgnoreRetransmission
  BY <1>6, DropDataInv DEF IgnoreRetransmission
<1>7. CASE LoseData
  BY <1>7, DropDataInv DEF LoseData
<1>8. CASE LoseNAK
  BY <1>8, DropNAKInv DEF LoseNAK
<1>9. CASE RejectBadFrame
  BY <1>9, SendNAKInv DEF RejectBadFrame
<1>10. CASE UNCHANGED vars
  BY <1>10 DEF vars, IndInv, TypeOK, Numbering, DeliveredInOrder,
               HistoryCovers, NaksOrdered, WindowKept, DataUnambiguous, Confirmed
<1> QED
  BY <1>1, <1>2, <1>3, <1>4, <1>5, <1>6, <1>7, <1>8, <1>9, <1>10
     DEF Next, HandleNAK, HandleUSR, Fault

-----------------------------------------------------------------------------
(***************************************************************************)
(* The invariant of sfpWritePacket, sfpHandleUSR and sfpHandleNAK on a     *)
(* connected link over a lossy, damaging medium: numbering, history, NAKs  *)
(* and frames in flight stay consistent.                                   *)
(***************************************************************************)
THEOREM Invariance == Spec => []IndInv
<1>1. Init => IndInv
  BY InitInv
<1>2. IndInv /\ [Next]_vars => IndInv'
  BY NextInv
<1> QED BY <1>1, <1>2, PTL DEF Spec

(***************************************************************************)
(* Numbers stay in range, and the history never holds more than its ring   *)
(* buffer can.                                                             *)
(***************************************************************************)
THEOREM TypeCorrectness == Spec => []TypeOK
<1>1. IndInv => TypeOK
  BY DEF IndInv
<1> QED BY <1>1, Invariance, PTL

\* The oldest NAK in flight names a position that the history covers.
LEMMA InvNoUnderrun == IndInv => NoUnderrun
<1> SUFFICES ASSUME IndInv, naks # << >>, Head(naks).seq # txSeq
             PROVE  ~ Underrun(history, txSeq, Head(naks).seq)
  BY DEF NoUnderrun
<1>1. /\ TypeOK /\ NaksOrdered /\ sent \in Nat /\ Len(delivered) \in Nat
      /\ history \in Seq(Nat) /\ Len(history) <= HistoryCapacity
      /\ Len(history) \in Nat
  BY DEF IndInv, TypeOK
<1> DEFINE at == Head(naks).at
<1>2. /\ at \in Nat /\ Head(naks).seq = at % SeqRange
      /\ at <= Len(delivered) /\ Confirmed = at
  <2>1. Head(naks) = naks[1] /\ 1 \in 1 .. Len(naks) /\ naks[1] \in Naks
    BY <1>1 DEF TypeOK
  <2> QED BY <1>1, <2>1 DEF Confirmed, NaksOrdered, Naks
<1>3. /\ txSeq = sent % SeqRange /\ Len(delivered) <= sent
      /\ sent - Len(history) <= at
  BY <1>2 DEF IndInv, Numbering, HistoryCovers
<1>4. at # sent
  BY <1>2, <1>3
<1>5. at < sent /\ Len(history) < SeqRange /\ at \in Int /\ sent \in Int
  BY <1>1, <1>2, <1>3, <1>4, WindowFits, SeqRangePositive
<1> HIDE DEF at
<1> QED BY <1>1, <1>2, <1>3, <1>5, FastForwardValue

(***************************************************************************)
(* A NAK never asks sfpTransmitHistoryFromSeq for a packet that has left   *)
(* the history: its underrun branch is dead while the window is kept.      *)
(***************************************************************************)
THEOREM HistoryNeverUnderruns == Spec => []NoUnderrun
<1> QED BY Invariance, InvNoUnderrun, PTL

(***************************************************************************)
(* The transfer protocol implements a reliable, ordered channel: every     *)
(* step is a Send or a Deliver of MessageChannel, or changes nothing its   *)
(* user sees.                                                              *)
(***************************************************************************)
LEMMA StepRefines ==
  IndInv /\ [Next]_vars => [Channel!Next]_<<sent, delivered>>
<1> SUFFICES ASSUME IndInv, [Next]_vars
             PROVE  [Channel!Next]_<<sent, delivered>>
  OBVIOUS
<1>1. CASE WritePacket
  BY <1>1 DEF WritePacket, Channel!Next, Channel!Send
<1>2. CASE Deliver
  <2>1. /\ Head(data).packet = Len(delivered) + 1
        /\ Len(delivered) < sent
    BY <1>2, AcceptedIsNext DEF Deliver
  <2> QED BY <1>2, <2>1 DEF Deliver, Channel!Next, Channel!Deliver
<1>3. CASE HandleNAK
  BY <1>3 DEF HandleNAK, IgnoreNAK, AnswerNAK
<1>4. CASE RejectOutOfOrder \/ IgnoreRetransmission
  BY <1>4 DEF RejectOutOfOrder, IgnoreRetransmission
<1>5. CASE Fault
  BY <1>5 DEF Fault, LoseData, LoseNAK, RejectBadFrame
<1>6. CASE UNCHANGED vars
  BY <1>6 DEF vars
<1> QED BY <1>1, <1>2, <1>3, <1>4, <1>5, <1>6 DEF Next, HandleUSR

(***************************************************************************)
(* A connected direction of the link delivers what sfpWritePacket was      *)
(* given, once and in order, for every SeqRange, HistoryCapacity and       *)
(* Window that satisfy the assumptions, whatever the medium loses, damages *)
(* or makes up: SFPTransfer implements MessageChannel.                     *)
(***************************************************************************)
THEOREM Refinement == Spec => ReliableInOrder
<1>1. Init => Channel!Init
  BY DEF Init, Channel!Init
<1>2. IndInv /\ [Next]_vars => [Channel!Next]_<<sent, delivered>>
  BY StepRefines
<1> QED BY <1>1, <1>2, Invariance, PTL DEF Spec, ReliableInOrder, Channel!Spec
=============================================================================
