---------------------------- MODULE SFPLinkProofs ----------------------------
(***************************************************************************)
(* What is proved about two endpoints and the wires between them, for      *)
(* every SeqRange and HistoryCapacity and any number of calls, packets and *)
(* faults.                                                                 *)
(***************************************************************************)
EXTENDS MCSFPLink, SFPTransmitterProofs, SetInduction

\* There are two endpoints, and Peer goes from one to the other and back.
LEMMA TwoNodes ==
  ASSUME NEW n \in Nodes
  PROVE  /\ Peer(n) \in Nodes /\ Peer(n) # n
         /\ Peer(Peer(n)) = n
         /\ \A m \in Nodes : m = n \/ m = Peer(n)
<1>1. PICK a \in Nodes, b \in Nodes : a # b /\ Nodes = {a, b}
  BY NodesAssumption
<1>2. \A m \in Nodes : Peer(m) \in Nodes /\ Peer(m) # m
  BY <1>1 DEF Peer
<1> QED BY <1>1, <1>2

-----------------------------------------------------------------------------
(***************************************************************************)
(* Types.                                                                  *)
(***************************************************************************)
Packets == 1 .. MaxSent

\* The frames a handler makes are frames.
LEMMA FramesMade ==
  /\ {SYN0, SYN1, SYN2, DIS, Remnant} \subseteq Frames
  /\ \A seq \in Seqs : NAK(seq) \in Frames
  /\ \A seq \in Seqs, p \in Packets, t \in {"USR", "RTX"} : DataFrame(t, seq, p) \in Frames
  BY DEF Frames, NAK, DataFrame, Packets

LEMMA InitialSeqInRange == InitialSeq \in Seqs
  BY SeqRangePositive DEF InitialSeq, Seqs

\* What a retransmission does to the history and to tx.seq.
LEMMA RetransmissionTypes ==
  ASSUME NEW h \in Seq(Packets), Len(h) <= HistoryCapacity, NEW t \in Seqs, NEW s \in Seqs
  PROVE  LET kept == KeptHistory(h, t, s)
         IN  /\ kept \in Seq(Packets) /\ Len(kept) <= HistoryCapacity
             /\ SeqAfter(kept, s) \in Seqs
             /\ Retransmissions(kept, s) \in Seq(Frames)
<1> DEFINE kept == KeptHistory(h, t, s)
<1>1. t \in Int /\ s \in Int
  BY DEF Seqs
<1>2. kept \in Seq(Packets) /\ Len(kept) <= Len(h)
  BY <1>1, KeptHistoryType
<1>3. Len(kept) \in Nat /\ Len(h) \in Nat /\ HistoryCapacity \in Nat
  BY <1>2, HistoryAssumption, SeqRangePositive
<1> HIDE DEF kept
<1>4. SeqAfter(kept, s) \in Seqs
  <2>1. s + Len(kept) \in Int
    BY <1>1, <1>3
  <2> QED BY <2>1, DivMod DEF SeqAfter
<1>5. Retransmissions(kept, s) \in Seq(Frames)
  <2> DEFINE F == [type : {"USR", "RTX"}, seq : Seqs, packet : Packets]
  <2>1. Retransmissions(kept, s) \in Seq(F)
    BY <1>1, <1>2, RetransmissionsProperties
  <2>2. F \subseteq Frames
    BY DEF Frames, Packets
  <2> HIDE DEF F
  <2> QED BY <2>1, <2>2
<1> QED BY <1>2, <1>3, <1>4, <1>5 DEF kept

\* A step that takes a frame off one wire and puts others on the other.
LEMMA ConsumeWires ==
  ASSUME NEW n \in Nodes, wire \in [Nodes -> Seq(Frames)], wire[n] # << >>,
         NEW out \in Seq(Frames), Consume(n, out)
  PROVE  /\ wire' \in [Nodes -> Seq(Frames)]
         /\ wire'[n] = Tail(wire[n])
         /\ wire'[Peer(n)] = wire[Peer(n)] \o out
<1>1. Peer(n) \in Nodes /\ Peer(n) # n
  BY TwoNodes
<1>2. Tail(wire[n]) \in Seq(Frames) /\ wire[Peer(n)] \o out \in Seq(Frames)
  BY <1>1
<1> QED BY <1>1, <1>2 DEF Consume

\* A step that changes one wire and puts a frame on the other.
LEMMA SendWires ==
  ASSUME NEW n \in Nodes, wire \in [Nodes -> Seq(Frames)],
         NEW w \in Seq(Frames), NEW f \in Frames,
         wire' = [wire EXCEPT ![n] = w, ![Peer(n)] = Append(@, f)]
  PROVE  /\ wire' \in [Nodes -> Seq(Frames)]
         /\ wire'[n] = w
         /\ wire'[Peer(n)] = Append(wire[Peer(n)], f)
<1>1. Peer(n) \in Nodes /\ Peer(n) # n
  BY TwoNodes
<1>2. Append(wire[Peer(n)], f) \in Seq(Frames)
  BY <1>1
<1> QED BY <1>1, <1>2

\* The frame that has arrived.
LEMMA ArrivingFrame ==
  ASSUME NEW n \in Nodes, wire \in [Nodes -> Seq(Frames)], wire[n] # << >>
  PROVE  /\ Head(wire[n]) \in Frames
         /\ Head(wire[n]).type = "NAK" => Head(wire[n]).seq \in Seqs
         /\ Head(wire[n]).type \in {"USR", "RTX"} =>
              Head(wire[n]).seq \in Seqs /\ Head(wire[n]).packet \in Packets
<1>1. Head(wire[n]) \in Frames
  OBVIOUS
<1> QED BY <1>1 DEF Frames, SYN0, SYN1, SYN2, DIS, Remnant, Packets

\* What is left of a wire when its receiver is reset is a wire.
LEMMA ResetWire ==
  ASSUME NEW w \in Seq(Frames), NEW v \in AfterReceiverReset(w)
  PROVE  v \in Seq(Frames)
<1>1. Remnant \in Frames
  BY FramesMade
<1>2. CASE w = << >>
  BY <1>2 DEF AfterReceiverReset
<1>3. CASE w # << >>
  <2>1. Tail(w) \in Seq(Frames)
    BY <1>3
  <2>2. <<Remnant>> \in Seq(Frames)
    BY <1>1
  <2>3. <<Remnant>> \o Tail(w) \in Seq(Frames)
    BY <2>1, <2>2
  <2> QED BY <1>3, <2>1, <2>3 DEF AfterReceiverReset
<1> QED BY <1>2, <1>3

\* Numbers that are set back are in their ranges.
LEMMA ResetTypes ==
  ASSUME TypeOK, NEW n \in Nodes, ResetNumbers(n)
  PROVE  /\ rxSeq' \in [Nodes -> Seqs] /\ txSeq' \in [Nodes -> Seqs]
         /\ history' \in [Nodes -> Seq(Packets)]
         /\ \A m \in Nodes : Len(history'[m]) <= HistoryCapacity
         /\ base' \in [Nodes -> 0 .. MaxSent]
<1>1. InitialSeq \in Seqs /\ HistoryCapacity \in Nat
  BY InitialSeqInRange, HistoryAssumption, SeqRangePositive
<1>2. history' \in [Nodes -> Seq(Packets)]
      /\ \A m \in Nodes : Len(history'[m]) <= HistoryCapacity
  <2>1. << >> \in Seq(Packets) /\ Len(<< >>) <= HistoryCapacity
    BY <1>1
  <2> QED BY <2>1 DEF TypeOK, ResetNumbers, Packets
<1> QED BY <1>1, <1>2 DEF TypeOK, ResetNumbers

\* The user's calls keep the types.
LEMMA UserCallTypes ==
  ASSUME TypeOK, NEW n \in Nodes, UserCall(n)
  PROVE  TypeOK'
<1>1. Peer(n) \in Nodes /\ Peer(n) # n /\ InitialSeq \in Seqs
  BY TwoNodes, InitialSeqInRange
<1>2. CASE Connect(n)
  <2>1. /\ rxSeq' \in [Nodes -> Seqs] /\ txSeq' \in [Nodes -> Seqs]
        /\ history' \in [Nodes -> Seq(Packets)]
        /\ \A m \in Nodes : Len(history'[m]) <= HistoryCapacity
        /\ base' \in [Nodes -> 0 .. MaxSent]
    BY <1>2, ResetTypes DEF Connect
  <2>2. wire' \in [Nodes -> Seq(Frames)]
    <3>1. PICK w \in AfterReceiverReset(wire[n]) :
            wire' = [wire EXCEPT ![n] = w, ![Peer(n)] = Append(@, SYN0)]
      BY <1>2 DEF Connect
    <3>2. w \in Seq(Frames)
      BY <3>1, ResetWire DEF TypeOK
    <3>3. SYN0 \in Frames
      BY FramesMade
    <3> QED BY <3>1, <3>2, <3>3, SendWires DEF TypeOK
  <2>3. connectState' \in [Nodes -> ConnectStates] /\ connects' \in [Nodes -> 0 .. MaxConnects]
    BY <1>2, BoundsAssumption DEF TypeOK, Connect, Enter, ConnectStates
  <2> QED BY <1>2, <2>1, <2>2, <2>3 DEF TypeOK, Connect, Packets
<1>3. CASE Reinit(n)
  <2>1. wire' \in [Nodes -> Seq(Frames)]
    <3>1. PICK w \in AfterReceiverReset(wire[n]) : wire' = [wire EXCEPT ![n] = w]
      BY <1>3 DEF Reinit
    <3>2. w \in Seq(Frames)
      BY <3>1, ResetWire DEF TypeOK
    <3> QED BY <3>1, <3>2 DEF TypeOK
  <2>2. /\ connectState' \in [Nodes -> ConnectStates]
        /\ rxSeq' \in [Nodes -> Seqs] /\ txSeq' \in [Nodes -> Seqs]
        /\ base' \in [Nodes -> 0 .. MaxSent]
    BY <1>1, <1>3 DEF TypeOK, Reinit, Enter, ConnectStates
  <2>3. inits' \in 0 .. MaxInits
    BY <1>3, BoundsAssumption DEF TypeOK, Reinit
  <2> QED BY <1>3, <2>1, <2>2, <2>3 DEF TypeOK, Reinit
<1>4. CASE WritePacket(n)
  <2>1. sent[n] + 1 \in Packets /\ sent' \in [Nodes -> 0 .. MaxSent]
    BY <1>4, BoundsAssumption DEF TypeOK, WritePacket, Packets
  <2>2. /\ history' \in [Nodes -> Seq(Packets)]
        /\ \A m \in Nodes : Len(history'[m]) <= HistoryCapacity
    <3> DEFINE h == history[n]
               g == PushBack(h, sent[n] + 1)
    <3>1. h \in Seq(Packets) /\ Len(h) <= HistoryCapacity /\ HistoryCapacity \in Nat
      BY HistoryAssumption, SeqRangePositive DEF TypeOK, Packets
    <3>2. g \in Seq(Packets) /\ Len(g) <= HistoryCapacity
      <4> HIDE DEF h
      <4>1. CASE Len(h) < HistoryCapacity
        BY <2>1, <3>1, <4>1 DEF PushBack
      <4>2. CASE ~ (Len(h) < HistoryCapacity)
        <5>1. HistoryCapacity > 0
          BY HistoryAssumption, SeqRangePositive
        <5>2. h # << >> /\ Len(h) = HistoryCapacity
          BY <3>1, <4>2, <5>1
        <5>3. Tail(h) \in Seq(Packets) /\ Len(Tail(h)) = HistoryCapacity - 1
          BY <3>1, <5>2, HeadTailProperties
        <5>4. g = Append(Tail(h), sent[n] + 1)
          BY <4>2 DEF PushBack
        <5> QED BY <2>1, <3>1, <5>3, <5>4
      <4> QED BY <4>1, <4>2
    <3>3. history' = [history EXCEPT ![n] = g]
      BY <1>4 DEF WritePacket
    <3> HIDE DEF g
    <3> QED BY <3>2, <3>3 DEF TypeOK, Packets
  <2>3. wire' \in [Nodes -> Seq(Frames)]
    <3>1. DataFrame("USR", txSeq[n], sent[n] + 1) \in Frames
      BY <2>1, FramesMade DEF TypeOK
    <3> QED BY <1>1, <1>4, <3>1 DEF TypeOK, WritePacket
  <2>4. txSeq' \in [Nodes -> Seqs]
    <3>1. txSeq[n] \in Seqs /\ txSeq[n] \in Int
      BY DEF TypeOK, Seqs
    <3>2. nextSeq(txSeq[n]) \in Seqs
      BY <3>1, DivMod DEF nextSeq
    <3> QED BY <1>4, <3>2 DEF TypeOK, WritePacket
  <2> QED BY <1>4, <2>1, <2>2, <2>3, <2>4 DEF TypeOK, WritePacket, budget, Packets
<1> QED BY <1>2, <1>3, <1>4 DEF UserCall

\* The medium keeps the types.
LEMMA FaultTypes ==
  ASSUME TypeOK, NEW n \in Nodes, Fault(n)
  PROVE  TypeOK'
<1>1. Peer(n) \in Nodes /\ NAK(rxSeq[n]) \in Frames
  BY TwoNodes, FramesMade DEF TypeOK
<1>2. << >> \in Seq(Frames) /\ <<NAK(rxSeq[n])>> \in Seq(Frames)
  BY <1>1
<1>3. wire' \in [Nodes -> Seq(Frames)]
  <2>1. CASE wire[n] # << >> /\ (Consume(n, << >>) \/ Consume(n, <<NAK(rxSeq[n])>>))
    BY <1>2, <2>1, ConsumeWires DEF TypeOK
  <2>2. CASE wire' = [wire EXCEPT ![Peer(n)] = Append(@, NAK(rxSeq[n]))]
    BY <1>1, <2>2 DEF TypeOK
  <2> QED BY <2>1, <2>2 DEF Fault
<1>4. faults' \in 0 .. MaxFaults
  BY BoundsAssumption DEF TypeOK, Fault
<1> QED BY <1>3, <1>4 DEF TypeOK, Fault, numbers, users

\* A handler that takes its frame off the wire and leaves the numbers alone.
LEMMA ReplyTypes ==
  ASSUME TypeOK, NEW n \in Nodes, wire[n] # << >>, NEW out \in Seq(Frames), Consume(n, out),
         connectState' = connectState \/ (\E s \in ConnectStates : Enter(n, s)),
         UNCHANGED <<numbers, users, budget>>
  PROVE  TypeOK'
<1>1. wire' \in [Nodes -> Seq(Frames)]
  BY ConsumeWires DEF TypeOK
<1>2. connectState' \in [Nodes -> ConnectStates]
  BY DEF TypeOK, Enter
<1> QED BY <1>1, <1>2 DEF TypeOK, numbers, users, budget

\* A handler that retransmits.
LEMMA RetransmitTypes ==
  ASSUME TypeOK, NEW n \in Nodes, wire[n] # << >>, NEW out \in Seq(Frames), NEW s \in Seqs,
         ConsumeAndTransmitHistoryFrom(n, out, s),
         connectState' \in [Nodes -> ConnectStates],
         UNCHANGED <<users, budget>>
  PROVE  TypeOK'
<1> DEFINE kept == KeptHistory(history[n], txSeq[n], s)
<1>1. /\ kept \in Seq(Packets) /\ Len(kept) <= HistoryCapacity
      /\ SeqAfter(kept, s) \in Seqs
      /\ Retransmissions(kept, s) \in Seq(Frames)
  <2>1. history[n] \in Seq(Packets) /\ Len(history[n]) <= HistoryCapacity /\ txSeq[n] \in Seqs
    BY DEF TypeOK, Packets
  <2> QED BY <2>1, RetransmissionTypes
<1>2. /\ history' = [history EXCEPT ![n] = kept]
      /\ txSeq' = [txSeq EXCEPT ![n] = SeqAfter(kept, s)]
      /\ Consume(n, out \o Retransmissions(kept, s))
      /\ rxSeq' = rxSeq
  BY DEF ConsumeAndTransmitHistoryFrom
<1> HIDE DEF kept
<1>3. out \o Retransmissions(kept, s) \in Seq(Frames)
  BY <1>1
<1>4. wire' \in [Nodes -> Seq(Frames)]
  BY <1>2, <1>3, ConsumeWires DEF TypeOK
<1>5. /\ history' \in [Nodes -> Seq(Packets)]
      /\ \A m \in Nodes : Len(history'[m]) <= HistoryCapacity
      /\ txSeq' \in [Nodes -> Seqs]
  BY <1>1, <1>2 DEF TypeOK, Packets
<1> QED BY <1>2, <1>4, <1>5 DEF TypeOK, users, budget, Packets

\* The handlers keep the types.
LEMMA HandleFrameTypes ==
  ASSUME TypeOK, NEW n \in Nodes, HandleFrame(n)
  PROVE  TypeOK'
<1>1. wire[n] # << >> /\ connectState[n] \in ConnectStates /\ InitialSeq \in Seqs
  BY InitialSeqInRange DEF TypeOK, HandleFrame, HandleSYN, HandleNAK, HandleUSR, HandleSYN0, HandleSYN1, HandleSYN2,
     SYN2AfterSYN0, HandleDIS, SYNWhileDisconnected, IgnoreNAK, AnswerNAK, Deliver, RejectOutOfOrder,
     IgnoreRetransmission, RebuffFrame, RejectRemnant, Arrives, ArrivesSYN
<1>2. /\ << >> \in Seq(Frames) /\ <<SYN0>> \in Seq(Frames) /\ <<SYN1>> \in Seq(Frames)
      /\ <<SYN2>> \in Seq(Frames) /\ <<DIS>> \in Seq(Frames) /\ <<NAK(rxSeq[n])>> \in Seq(Frames)
  BY FramesMade DEF TypeOK
<1>3. CASE HandleSYN0(n)
  <2>1. wire' \in [Nodes -> Seq(Frames)]
    BY <1>1, <1>2, <1>3, ConsumeWires DEF TypeOK, HandleSYN0
  <2>2. /\ rxSeq' \in [Nodes -> Seqs] /\ txSeq' \in [Nodes -> Seqs]
        /\ history' \in [Nodes -> Seq(Packets)]
        /\ \A m \in Nodes : Len(history'[m]) <= HistoryCapacity
        /\ base' \in [Nodes -> 0 .. MaxSent]
    BY <1>3, ResetTypes DEF HandleSYN0
  <2>3. connectState' \in [Nodes -> ConnectStates]
    BY <1>3 DEF TypeOK, HandleSYN0, Enter, ConnectStates
  <2> QED BY <1>3, <2>1, <2>2, <2>3 DEF TypeOK, HandleSYN0, budget, Packets
<1>4. ASSUME NEW out \in Seq(Frames), BecomeConnected(n, out) PROVE TypeOK'
  <2>1. connectState' \in [Nodes -> ConnectStates]
    BY <1>4 DEF TypeOK, BecomeConnected, Enter, ConnectStates
  <2>2. CASE txSeq[n] = InitialSeq
    <3>1. Consume(n, out) /\ UNCHANGED <<numbers, users, budget>> /\ Enter(n, "CONNECTED")
      BY <1>4, <2>2 DEF BecomeConnected
    <3>2. "CONNECTED" \in ConnectStates
      BY DEF ConnectStates
    <3> QED BY <1>1, <3>1, <3>2, ReplyTypes
  <2>3. CASE txSeq[n] # InitialSeq
    BY <1>1, <1>4, <2>1, <2>3, RetransmitTypes DEF BecomeConnected
  <2> QED BY <2>2, <2>3
<1>5. CASE HandleSYN1(n) \/ HandleSYN2(n)
  BY <1>2, <1>4, <1>5 DEF HandleSYN1, HandleSYN2
<1>6. CASE SYN2AfterSYN0(n) \/ SYNWhileDisconnected(n)
  BY <1>1, <1>2, <1>6, ReplyTypes DEF SYN2AfterSYN0, SYNWhileDisconnected
<1>7. CASE HandleDIS(n)
  <2>1. "DISCONNECTED" \in ConnectStates
    BY DEF ConnectStates
  <2> QED BY <1>1, <1>2, <1>7, <2>1, ReplyTypes DEF HandleDIS
<1>8. CASE IgnoreNAK(n) \/ RejectOutOfOrder(n) \/ IgnoreRetransmission(n) \/ RejectRemnant(n)
  BY <1>1, <1>2, <1>8, ReplyTypes DEF IgnoreNAK, RejectOutOfOrder, IgnoreRetransmission, RejectRemnant
<1>9. CASE AnswerNAK(n)
  <2>1. Head(wire[n]).seq \in Seqs
    BY <1>1, <1>9, ArrivingFrame DEF TypeOK, AnswerNAK, Arrives
  <2>2. connectState' \in [Nodes -> ConnectStates]
    BY <1>9 DEF TypeOK, AnswerNAK
  <2> QED BY <1>1, <1>2, <1>9, <2>1, <2>2, RetransmitTypes DEF AnswerNAK
<1>10. CASE Deliver(n)
  <2>1. Head(wire[n]).packet \in Packets
    BY <1>1, <1>10, ArrivingFrame DEF TypeOK, Deliver, Arrives
  <2>2. delivered' \in [Nodes -> Seq(Packets)]
    BY <1>10, <2>1 DEF TypeOK, Deliver, Packets
  <2>3. rxSeq' \in [Nodes -> Seqs]
    <3>1. rxSeq[n] \in Seqs /\ rxSeq[n] \in Int
      BY DEF TypeOK, Seqs
    <3>2. nextSeq(rxSeq[n]) \in Seqs
      BY <3>1, DivMod DEF nextSeq
    <3> QED BY <1>10, <3>2 DEF TypeOK, Deliver
  <2>4. wire' \in [Nodes -> Seq(Frames)]
    BY <1>1, <1>2, <1>10, ConsumeWires DEF TypeOK, Deliver
  <2> QED BY <1>10, <2>2, <2>3, <2>4 DEF TypeOK, Deliver, budget, Packets
<1>11. CASE RebuffFrame(n)
  <2>1. <<Rebuff(connectState[n])>> \in Seq(Frames)
    BY <1>1, <1>2, <1>11 DEF RebuffFrame, Rebuff, ConnectStates
  <2> QED BY <1>1, <1>11, <2>1, ReplyTypes DEF RebuffFrame
<1> QED BY <1>3, <1>5, <1>6, <1>7, <1>8, <1>9, <1>10, <1>11 DEF HandleFrame, HandleSYN, HandleNAK, HandleUSR

\* Every step keeps the types, wherever the link has begun.
LEMMA NextTypes == TypeOK /\ [Next]_vars => TypeOK'
<1> SUFFICES ASSUME TypeOK, [Next]_vars PROVE TypeOK'
  OBVIOUS
<1>1. CASE UNCHANGED vars
  BY <1>1 DEF TypeOK, vars, numbers, users, budget
<1>2. CASE Next
  BY <1>2, HandleFrameTypes, UserCallTypes, FaultTypes DEF Next
<1> QED BY <1>1, <1>2

LEMMA InitTypes ==
  ASSUME NEW s \in ConnectStates, InitIn(s)
  PROVE  TypeOK
<1>1. << >> \in Seq(Packets) /\ << >> \in Seq(Frames) /\ Len(<< >>) = 0
  OBVIOUS
<1>2. HistoryCapacity \in Nat
  BY HistoryAssumption, SeqRangePositive
<1> QED BY <1>1, <1>2, InitialSeqInRange, BoundsAssumption DEF InitIn, TypeOK, Packets

(***************************************************************************)
(* Types are kept by every link, whether it begins before a handshake or   *)
(* after one: in particular the ring buffer of sfpTransmitFrameImpl never  *)
(* holds more than its capacity, and rx.seq, tx.seq and the number in each *)
(* frame stay in their six bits.                                           *)
(***************************************************************************)
THEOREM LinkTypes == Spec \/ ConnectedSpec \/ WindowedSpec => []TypeOK
<1>1. Init => TypeOK
  <2>1. "DISCONNECTED" \in ConnectStates
    BY DEF ConnectStates
  <2> QED BY <2>1, InitTypes DEF Init
<1>2. InitIn("CONNECTED") => TypeOK
  <2>1. "CONNECTED" \in ConnectStates
    BY DEF ConnectStates
  <2> QED BY <2>1, InitTypes
<1> QED BY <1>1, <1>2, NextTypes, PTL DEF Spec, ConnectedSpec, WindowedSpec

-----------------------------------------------------------------------------
(***************************************************************************)
(* Agreement on being connected.  All of it is about a link on which there *)
(* has been no fault and no second sfpInit.                                *)
(***************************************************************************)
In(w, f) == \E i \in 1 .. Len(w) : w[i] = f

\* A frame that makes an endpoint in DISCONNECTED send something.
Answered(f) == f.type # "BAD" /\ f # DIS

HasAnswered(w) == \E i \in 1 .. Len(w) : Answered(w[i])

\* Only the first frame can be a remnant: the receiver was reset by its own
\* sfpConnect while the frame was arriving.
RemnantFirst(n) ==
  \A i \in 1 .. Len(wire[n]) :
    wire[n][i].type = "BAD" => i = 1 /\ connectState[n] = "SENT_SYN0"

\* The SYN0 of an endpoint, or the answer to it, or one from the other end is
\* under way.
SYN0Pending(n) ==
  connectState[n] = "SENT_SYN0" =>
    In(wire[Peer(n)], SYN0) \/ In(wire[n], SYN0) \/ In(wire[n], SYN1)

\* The SYN1 of an endpoint, or something that ends the wait for its answer.
SYN1Pending(n) ==
  connectState[n] = "SENT_SYN1" =>
    \/ In(wire[Peer(n)], SYN1)
    \/ In(wire[n], SYN0) \/ In(wire[n], SYN1) \/ In(wire[n], SYN2) \/ In(wire[n], DIS)

\* If one end is disconnected and the other is not, the first is going to say
\* so, or has said it, or is going to be connected.
DisconnectionPending(n) ==
  connectState[n] # "DISCONNECTED" /\ connectState[Peer(n)] = "DISCONNECTED" =>
    HasAnswered(wire[Peer(n)]) \/ In(wire[n], DIS) \/ In(wire[n], SYN0)

\* A DIS that an endpoint sent before it began to connect is followed by the
\* SYN frame it began with.
Reopened(w) ==
  \A i \in 1 .. Len(w) : w[i] = DIS => \E j \in (i + 1) .. Len(w) : w[j] \in {SYN0, SYN1}

DISOvertaken(n) == connectState[n] # "DISCONNECTED" => Reopened(wire[Peer(n)])

Agreeing(n) ==
  RemnantFirst(n) /\ SYN0Pending(n) /\ SYN1Pending(n) /\ DisconnectionPending(n) /\ DISOvertaken(n)

AgreementInv == TypeOK /\ (Clean => \A n \in Nodes : Agreeing(n))

\* The frames of the handshake differ.
LEMMA SYNsDiffer ==
  /\ SYN0.type = "SYN" /\ SYN1.type = "SYN" /\ SYN2.type = "SYN" /\ DIS.type = "SYN"
  /\ SYN0 # SYN1 /\ SYN0 # SYN2 /\ SYN0 # DIS /\ SYN1 # SYN2 /\ SYN1 # DIS /\ SYN2 # DIS
  /\ Remnant.type = "BAD"
  /\ \A seq : NAK(seq).type = "NAK"
  /\ \A t, seq, p : DataFrame(t, seq, p).type = t
<1>1. SYN0.seq = 0 /\ SYN1.seq = 1 /\ SYN2.seq = 2 /\ DIS.seq = 3
  BY DEF SYN0, SYN1, SYN2, DIS
<1> QED BY <1>1 DEF SYN0, SYN1, SYN2, DIS, Remnant, NAK, DataFrame

LEMMA ShortWires ==
  /\ \A f : ~ In(<< >>, f)
  /\ \A f, g : In(<<f>>, g) <=> f = g
  BY DEF In

\* What a wire has when its first frame is taken.
LEMMA TailHas ==
  ASSUME NEW w \in Seq(Frames), w # << >>
  PROVE  /\ \A f : In(w, f) /\ f # Head(w) => In(Tail(w), f)
         /\ HasAnswered(w) /\ ~ Answered(Head(w)) => HasAnswered(Tail(w))
         /\ Reopened(w) => Reopened(Tail(w))
         /\ Reopened(w) /\ Head(w) = DIS => HasAnswered(Tail(w))
         /\ \A i \in 1 .. Len(Tail(w)) : i + 1 \in 1 .. Len(w) /\ Tail(w)[i] = w[i + 1]
<1>1. /\ Len(w) \in Nat \ {0} /\ Len(Tail(w)) = Len(w) - 1 /\ Head(w) = w[1]
      /\ \A i \in 1 .. Len(Tail(w)) : i + 1 \in 1 .. Len(w) /\ Tail(w)[i] = w[i + 1]
  BY HeadTailProperties
<1>2. \A i \in 1 .. Len(w) : i # 1 => i - 1 \in 1 .. Len(Tail(w)) /\ Tail(w)[i - 1] = w[i]
  BY <1>1
<1>3. \A f : In(w, f) /\ f # Head(w) => In(Tail(w), f)
  BY <1>1, <1>2 DEF In
<1>4. HasAnswered(w) /\ ~ Answered(Head(w)) => HasAnswered(Tail(w))
  BY <1>1, <1>2 DEF HasAnswered
<1>5. ASSUME Reopened(w), NEW i \in 1 .. Len(Tail(w)), Tail(w)[i] = DIS
      PROVE  \E j \in (i + 1) .. Len(Tail(w)) : Tail(w)[j] \in {SYN0, SYN1}
  <2>1. w[i + 1] = DIS /\ i + 1 \in 1 .. Len(w)
    BY <1>1, <1>5
  <2>2. PICK j \in (i + 2) .. Len(w) : w[j] \in {SYN0, SYN1}
    BY <2>1, <1>5 DEF Reopened
  <2>3. j \in 1 .. Len(w) /\ j # 1 /\ j - 1 \in (i + 1) .. Len(Tail(w))
    BY <1>1, <2>2
  <2> QED BY <1>2, <2>2, <2>3
<1>6. ASSUME Reopened(w), Head(w) = DIS PROVE HasAnswered(Tail(w))
  <2>1. PICK j \in 2 .. Len(w) : w[j] \in {SYN0, SYN1}
    BY <1>1, <1>6 DEF Reopened
  <2>2. Answered(w[j]) /\ j \in 1 .. Len(w) /\ j # 1
    BY <1>1, <2>1, SYNsDiffer DEF Answered
  <2> QED BY <1>2, <2>2 DEF HasAnswered
<1> QED BY <1>1, <1>3, <1>4, <1>5, <1>6 DEF Reopened

\* What a wire has when frames are put on it.
LEMMA CatHas ==
  ASSUME NEW w \in Seq(Frames), NEW out \in Seq(Frames)
  PROVE  /\ \A f : In(w \o out, f) <=> In(w, f) \/ In(out, f)
         /\ HasAnswered(w) => HasAnswered(w \o out)
         /\ Reopened(w) /\ ~ In(out, DIS) => Reopened(w \o out)
         /\ \A i \in 1 .. Len(w \o out) :
              (i \in 1 .. Len(w) /\ (w \o out)[i] = w[i])
                \/ \E j \in 1 .. Len(out) : (w \o out)[i] = out[j]
<1> DEFINE c == w \o out
<1>1. /\ Len(w) \in Nat /\ Len(out) \in Nat /\ Len(c) = Len(w) + Len(out)
      /\ \A i \in 1 .. Len(w) : c[i] = w[i]
      /\ \A j \in 1 .. Len(out) : c[Len(w) + j] = out[j]
  OBVIOUS
<1> HIDE DEF c
<1>2. \A i \in 1 .. Len(c) : i \in 1 .. Len(w) \/ (i - Len(w) \in 1 .. Len(out) /\ c[i] = out[i - Len(w)])
  <2> TAKE i \in 1 .. Len(c)
  <2>1. CASE i <= Len(w)
    BY <1>1, <2>1
  <2>2. CASE i > Len(w)
    <3>1. i - Len(w) \in 1 .. Len(out) /\ Len(w) + (i - Len(w)) = i
      BY <1>1, <2>2
    <3> QED BY <1>1, <3>1
  <2> QED BY <1>1, <2>1, <2>2
<1>3. (\A i \in 1 .. Len(w) : i \in 1 .. Len(c))
      /\ \A j \in 1 .. Len(out) : Len(w) + j \in 1 .. Len(c)
  BY <1>1
<1>4. \A f : In(c, f) <=> In(w, f) \/ In(out, f)
  BY <1>1, <1>2, <1>3 DEF In
<1>5. HasAnswered(w) => HasAnswered(c)
  BY <1>1, <1>3 DEF HasAnswered
<1>6. ASSUME Reopened(w), ~ In(out, DIS) PROVE Reopened(c)
  <2> SUFFICES ASSUME NEW i \in 1 .. Len(c), c[i] = DIS
               PROVE  \E j \in (i + 1) .. Len(c) : c[j] \in {SYN0, SYN1}
    BY DEF Reopened
  <2>1. i \in 1 .. Len(w) /\ w[i] = DIS
    BY <1>1, <1>2, <1>6 DEF In
  <2>2. PICK j \in (i + 1) .. Len(w) : w[j] \in {SYN0, SYN1}
    BY <1>6, <2>1 DEF Reopened
  <2>3. j \in (i + 1) .. Len(c) /\ j \in 1 .. Len(w)
    BY <1>1, <2>1, <2>2
  <2> QED BY <1>1, <2>2, <2>3
<1>7. \A i \in 1 .. Len(c) :
        (i \in 1 .. Len(w) /\ c[i] = w[i]) \/ \E j \in 1 .. Len(out) : c[i] = out[j]
  BY <1>1, <1>2
<1> QED BY <1>4, <1>5, <1>6, <1>7 DEF c

\* A wire that ends with a SYN frame that begins a connection.
LEMMA EndsReopened ==
  ASSUME NEW w \in Seq(Frames), NEW f \in {SYN0, SYN1}
  PROVE  Reopened(w \o <<f>>) /\ HasAnswered(w \o <<f>>)
<1> DEFINE c == w \o <<f>>
<1>1. Len(w) \in Nat /\ Len(c) = Len(w) + 1 /\ c[Len(w) + 1] = f /\ f # DIS /\ Answered(f)
  BY SYNsDiffer DEF Answered
<1> HIDE DEF c
<1>2. Reopened(c)
  <2> SUFFICES ASSUME NEW i \in 1 .. Len(c), c[i] = DIS
               PROVE  \E j \in (i + 1) .. Len(c) : c[j] \in {SYN0, SYN1}
    BY DEF Reopened
  <2>1. Len(w) + 1 \in (i + 1) .. Len(c)
    BY <1>1
  <2> QED BY <1>1, <2>1
<1>3. Len(w) + 1 \in 1 .. Len(c)
  BY <1>1
<1> QED BY <1>1, <1>2, <1>3 DEF c, HasAnswered

(***************************************************************************)
(* What a handler does about the connection: the frame f that n takes, the *)
(* frames out that it sends, and the states s and t of n before and after. *)
(***************************************************************************)
Handled(f, out, s, t) ==
  /\ \A i \in 1 .. Len(out) : out[i].type # "BAD"
  /\ f = SYN0 => out = <<SYN1>> /\ t = "SENT_SYN1"
  /\ f = DIS => t = "DISCONNECTED"
  /\ f = SYN1 /\ s # "DISCONNECTED" => t = "CONNECTED" /\ In(out, SYN2)
  /\ f = SYN2 /\ s \in {"SENT_SYN1", "CONNECTED"} => t = "CONNECTED"
  /\ t \in {s, "CONNECTED"} \/ f \in {SYN0, DIS}
  /\ t = s \/ s # "DISCONNECTED" \/ f \in {SYN0, DIS}
  /\ s = "DISCONNECTED" /\ Answered(f) /\ f # SYN0 => In(out, DIS)
  /\ s # "DISCONNECTED" => ~ In(out, DIS)

\* Retransmitted frames are none of the handshake.
LEMMA RetransmitsNoSYN ==
  ASSUME TypeOK, NEW n \in Nodes, wire[n] # << >>, NEW out \in Seq(Frames), NEW s \in Seqs,
         ConsumeAndTransmitHistoryFrom(n, out, s)
  PROVE  \E more \in Seq(Frames) :
           /\ Consume(n, out \o more)
           /\ \A i \in 1 .. Len(more) : more[i].type = "RTX"
<1> DEFINE kept == KeptHistory(history[n], txSeq[n], s)
           more == Retransmissions(kept, s)
<1>1. Consume(n, out \o more) /\ more \in Seq(Frames)
  <2>1. history[n] \in Seq(Packets) /\ Len(history[n]) <= HistoryCapacity /\ txSeq[n] \in Seqs
    BY DEF TypeOK, Packets
  <2> QED BY <2>1, RetransmissionTypes DEF ConsumeAndTransmitHistoryFrom
<1>2. \A i \in 1 .. Len(more) : more[i].type = "RTX"
  <2> HIDE DEF kept
  <2>1. more = [i \in 1 .. Len(kept) |-> DataFrame("RTX", (s + i - 1) % SeqRange, kept[i])]
    BY DEF Retransmissions
  <2>2. Len(kept) \in Nat
    <3>1. kept \in Seq(Packets)
      BY KeptHistoryType DEF kept, TypeOK, Packets, Seqs
    <3> QED BY <3>1
  <2>3. Len(more) = Len(kept)
    BY <2>1, <2>2
  <2> QED BY <2>1, <2>3, SYNsDiffer
<1> HIDE DEF more
<1> QED BY <1>1, <1>2

\* Every handler is of this kind.
LEMMA HandlersHandle ==
  ASSUME TypeOK, NEW n \in Nodes, HandleFrame(n)
  PROVE  /\ wire[n] # << >>
         /\ \E out \in Seq(Frames) :
              /\ Consume(n, out)
              /\ Handled(Head(wire[n]), out, connectState[n], connectState'[n])
         /\ \A m \in Nodes : m # n => connectState'[m] = connectState[m]
         /\ UNCHANGED <<inits, faults>>
<1> DEFINE f == Head(wire[n])
           s == connectState[n]
           t == connectState'[n]
           Effect == /\ \E out \in Seq(Frames) : Consume(n, out) /\ Handled(f, out, s, t)
                     /\ \A m \in Nodes : m # n => connectState'[m] = connectState[m]
                     /\ UNCHANGED <<inits, faults>>
<1>1. wire[n] # << >> /\ s \in ConnectStates /\ InitialSeq \in Seqs
      /\ connectState \in [Nodes -> ConnectStates]
  BY InitialSeqInRange DEF TypeOK, HandleFrame, HandleSYN, HandleNAK, HandleUSR, HandleSYN0, HandleSYN1, HandleSYN2,
     SYN2AfterSYN0, HandleDIS, SYNWhileDisconnected, IgnoreNAK, AnswerNAK, Deliver, RejectOutOfOrder,
     IgnoreRetransmission, RebuffFrame, RejectRemnant, Arrives, ArrivesSYN
<1>2. /\ << >> \in Seq(Frames) /\ <<SYN0>> \in Seq(Frames) /\ <<SYN1>> \in Seq(Frames)
      /\ <<SYN2>> \in Seq(Frames) /\ <<DIS>> \in Seq(Frames) /\ <<NAK(rxSeq[n])>> \in Seq(Frames)
  BY FramesMade DEF TypeOK
<1> SUFFICES Effect
  BY <1>1
<1>0. ASSUME NEW out \in Seq(Frames), Consume(n, out), Handled(f, out, s, t),
             connectState' = connectState \/ (\E q : Enter(n, q)), UNCHANGED <<inits, faults>>
      PROVE  Effect
  <2> HIDE DEF f, s, t
  <2>1. \A m \in Nodes : m # n => connectState'[m] = connectState[m]
    BY <1>0, <1>1 DEF Enter
  <2> QED BY <1>0, <2>1
<1> HIDE DEF Effect
<1>3. \A g : Len(<<g>>) = 1 /\ \A i \in 1 .. Len(<<g>>) : <<g>>[i] = g
  OBVIOUS
<1>4. CASE HandleSYN0(n)
  <2>1. f = SYN0 /\ t = "SENT_SYN1" /\ Consume(n, <<SYN1>>)
    BY <1>1, <1>4 DEF HandleSYN0, ArrivesSYN, Enter
  <2>2. Handled(f, <<SYN1>>, s, t)
    BY <1>3, <2>1, SYNsDiffer, ShortWires DEF Handled, Answered
  <2> QED BY <1>0, <1>2, <1>4, <2>1, <2>2 DEF HandleSYN0, budget
<1>5. ASSUME NEW out \in {<< >>, <<SYN2>>}, BecomeConnected(n, out)
      PROVE  /\ t = "CONNECTED"
             /\ \E sent2 \in Seq(Frames) :
                  /\ Consume(n, sent2)
                  /\ \A i \in 1 .. Len(sent2) : sent2[i].type # "BAD"
                  /\ out = <<SYN2>> => In(sent2, SYN2)
                  /\ ~ In(sent2, DIS)
             /\ Enter(n, "CONNECTED")
             /\ UNCHANGED <<inits, faults>>
  <2>0. out \in Seq(Frames)
    BY <1>2
  <2>1. t = "CONNECTED" /\ UNCHANGED <<inits, faults>> /\ Enter(n, "CONNECTED")
    BY <1>1, <1>5 DEF BecomeConnected, Enter, budget
  <2>2. PICK more \in Seq(Frames) : Consume(n, out \o more) /\ \A i \in 1 .. Len(more) : more[i].type = "RTX"
    <3>1. CASE txSeq[n] = InitialSeq
      <4>1. out = out \o << >>
        BY <2>0
      <4>2. Consume(n, out \o << >>)
        BY <1>5, <3>1, <4>1 DEF BecomeConnected
      <4>3. << >> \in Seq(Frames) /\ \A i \in 1 .. Len(<< >>) : << >>[i].type = "RTX"
        OBVIOUS
      <4> QED BY <4>2, <4>3
    <3>2. CASE txSeq[n] # InitialSeq
      <4>1. ConsumeAndTransmitHistoryFrom(n, out, InitialSeq)
        BY <1>5, <3>2 DEF BecomeConnected
      <4> QED BY <1>1, <2>0, <4>1, RetransmitsNoSYN
    <3> QED BY <3>1, <3>2
  <2> DEFINE sent2 == out \o more
  <2>3. sent2 \in Seq(Frames) /\ ~ In(more, DIS)
    BY <2>0, <2>2, SYNsDiffer DEF In
  <2>4. \A i \in 1 .. Len(sent2) : sent2[i].type # "BAD"
    <3>1. \A i \in 1 .. Len(out) : out[i].type # "BAD"
      BY <1>3, SYNsDiffer
    <3> QED BY <2>0, <2>2, <3>1, CatHas
  <2>5. ~ In(sent2, DIS) /\ (out = <<SYN2>> => In(sent2, SYN2))
    <3>1. ~ In(out, DIS) /\ (out = <<SYN2>> => In(out, SYN2))
      BY ShortWires, SYNsDiffer
    <3> QED BY <2>0, <2>2, <2>3, <3>1, CatHas
  <2> HIDE DEF sent2
  <2> QED BY <2>1, <2>2, <2>3, <2>4, <2>5 DEF sent2
<1>6. CASE HandleSYN1(n)
  <2>1. f = SYN1 /\ s # "DISCONNECTED" /\ BecomeConnected(n, <<SYN2>>)
    BY <1>6 DEF HandleSYN1, ArrivesSYN
  <2> HIDE DEF f, s, t
  <2>2. PICK out \in Seq(Frames) :
          /\ Consume(n, out)
          /\ \A i \in 1 .. Len(out) : out[i].type # "BAD"
          /\ In(out, SYN2) /\ ~ In(out, DIS)
    BY <2>1, <1>5
  <2>3. Handled(f, out, s, t)
    BY <1>5, <2>1, <2>2, SYNsDiffer DEF Handled
  <2> QED BY <1>0, <1>5, <2>1, <2>2, <2>3
<1>7. CASE HandleSYN2(n)
  <2>1. f = SYN2 /\ s \in {"SENT_SYN1", "CONNECTED"} /\ BecomeConnected(n, << >>)
    BY <1>7 DEF HandleSYN2, ArrivesSYN
  <2> HIDE DEF f, s, t
  <2>2. PICK out \in Seq(Frames) :
          /\ Consume(n, out)
          /\ \A i \in 1 .. Len(out) : out[i].type # "BAD"
          /\ ~ In(out, DIS)
    BY <2>1, <1>5
  <2>3. Handled(f, out, s, t)
    BY <1>5, <2>1, <2>2, SYNsDiffer DEF Handled
  <2> QED BY <1>0, <1>5, <2>1, <2>2, <2>3
<1>8. CASE SYN2AfterSYN0(n)
  <2>1. f = SYN2 /\ s = "SENT_SYN0" /\ Consume(n, <<SYN0>>) /\ t = s
    BY <1>8 DEF SYN2AfterSYN0, ArrivesSYN
  <2>2. Handled(f, <<SYN0>>, s, t)
    BY <1>3, <2>1, SYNsDiffer, ShortWires DEF Handled
  <2> QED BY <1>0, <1>2, <1>8, <2>1, <2>2 DEF SYN2AfterSYN0, budget
<1>9. CASE SYNWhileDisconnected(n)
  <2>1. f \in {SYN1, SYN2} /\ s = "DISCONNECTED" /\ Consume(n, <<DIS>>) /\ t = s
    BY <1>9 DEF SYNWhileDisconnected, ArrivesSYN
  <2>2. Handled(f, <<DIS>>, s, t)
    BY <1>3, <2>1, SYNsDiffer, ShortWires DEF Handled
  <2> QED BY <1>0, <1>2, <1>9, <2>1, <2>2 DEF SYNWhileDisconnected, budget
<1>10. CASE HandleDIS(n)
  <2>1. f = DIS /\ t = "DISCONNECTED" /\ Consume(n, << >>)
    BY <1>1, <1>10 DEF HandleDIS, ArrivesSYN, Enter
  <2>2. Handled(f, << >>, s, t)
    BY <2>1, SYNsDiffer, ShortWires DEF Handled, Answered
  <2> QED BY <1>0, <1>2, <1>10, <2>1, <2>2 DEF HandleDIS, budget
<1>11. CASE IgnoreNAK(n) \/ Deliver(n) \/ RejectOutOfOrder(n) \/ IgnoreRetransmission(n)
  <2>1. PICK out \in {<< >>, <<NAK(rxSeq[n])>>} : Consume(n, out)
    BY <1>11 DEF IgnoreNAK, Deliver, RejectOutOfOrder, IgnoreRetransmission
  <2>2. s = "CONNECTED" /\ t = s /\ f.type \in {"USR", "RTX", "NAK"}
    BY <1>11 DEF IgnoreNAK, Deliver, RejectOutOfOrder, IgnoreRetransmission, Arrives
  <2>3. Handled(f, out, s, t)
    BY <1>3, <2>1, <2>2, SYNsDiffer, ShortWires DEF Handled
  <2> QED BY <1>0, <1>2, <1>11, <2>1, <2>3 DEF IgnoreNAK, Deliver, RejectOutOfOrder, IgnoreRetransmission, budget
<1>12. CASE AnswerNAK(n)
  <2>1. s = "CONNECTED" /\ t = s /\ f.type = "NAK" /\ f.seq \in Seqs
    BY <1>1, <1>12, ArrivingFrame DEF TypeOK, AnswerNAK, Arrives
  <2>2. PICK more \in Seq(Frames) :
          Consume(n, << >> \o more) /\ \A i \in 1 .. Len(more) : more[i].type = "RTX"
    BY <1>1, <1>2, <1>12, <2>1, RetransmitsNoSYN DEF AnswerNAK
  <2>3. << >> \o more = more /\ ~ In(more, DIS)
    BY <2>2, SYNsDiffer DEF In
  <2>4. Handled(f, more, s, t)
    <3> HIDE DEF f, s, t
    <3> QED BY <2>1, <2>2, <2>3, SYNsDiffer DEF Handled
  <2> QED BY <1>0, <1>12, <2>2, <2>3, <2>4 DEF AnswerNAK, budget
<1>13. CASE RebuffFrame(n)
  <2>1. /\ s # "CONNECTED" /\ t = s /\ f.type \in {"USR", "RTX", "NAK"}
        /\ Consume(n, <<Rebuff(s)>>)
    BY <1>13 DEF RebuffFrame, Arrives
  <2>2. /\ Rebuff(s) \in {SYN0, SYN1, DIS}
        /\ Rebuff(s) = DIS <=> s = "DISCONNECTED"
    BY <1>1, <2>1, SYNsDiffer DEF Rebuff, ConnectStates
  <2> HIDE DEF f, s, t
  <2>3. Handled(f, <<Rebuff(s)>>, s, t)
    BY <1>3, <2>1, <2>2, SYNsDiffer, ShortWires DEF Handled
  <2>4. <<Rebuff(s)>> \in Seq(Frames)
    BY <1>2, <2>2
  <2> QED BY <1>0, <1>13, <2>1, <2>3, <2>4 DEF RebuffFrame, budget
<1>14. CASE RejectRemnant(n)
  <2>1. f.type = "BAD" /\ t = s /\ Consume(n, <<NAK(rxSeq[n])>>)
    BY <1>14 DEF RejectRemnant, Arrives
  <2>2. Handled(f, <<NAK(rxSeq[n])>>, s, t)
    BY <1>3, <2>1, SYNsDiffer, ShortWires DEF Handled, Answered
  <2> QED BY <1>0, <1>2, <1>14, <2>1, <2>2 DEF RejectRemnant, budget
<1> QED BY <1>4, <1>6, <1>7, <1>8, <1>9, <1>10, <1>11, <1>12, <1>13, <1>14 DEF HandleFrame, HandleSYN, HandleNAK, HandleUSR

\* A handler keeps the agreement.
LEMMA HandleFrameAgreement ==
  ASSUME TypeOK, NEW n \in Nodes, HandleFrame(n), Agreeing(n), Agreeing(Peer(n))
  PROVE  Agreeing(n)' /\ Agreeing(Peer(n))'
<1> DEFINE p == Peer(n)
           f == Head(wire[n])
           s == connectState[n]
           t == connectState'[n]
           q == connectState[p]
           W == wire[n]
           V == wire[p]
<1>1. p \in Nodes /\ p # n /\ Peer(p) = n
  BY TwoNodes
<1>2. PICK out \in Seq(Frames) : Consume(n, out) /\ Handled(f, out, s, t)
  BY HandlersHandle
<1>3. W # << >> /\ W \in Seq(Frames) /\ V \in Seq(Frames) /\ connectState'[p] = q
  BY <1>1, HandlersHandle DEF TypeOK
<1>4. wire'[n] = Tail(W) /\ wire'[p] = V \o out
  BY <1>2, <1>3, ConsumeWires DEF TypeOK
<1> DEFINE W1 == Tail(W)
           V1 == V \o out
<1>5. /\ \A g : In(W, g) /\ g # f => In(W1, g)
      /\ HasAnswered(W) /\ ~ Answered(f) => HasAnswered(W1)
      /\ Reopened(W) => Reopened(W1)
      /\ Reopened(W) /\ f = DIS => HasAnswered(W1)
      /\ \A i \in 1 .. Len(W1) : i + 1 \in 1 .. Len(W) /\ W1[i] = W[i + 1]
  BY <1>3, TailHas
<1>6. /\ \A g : In(V1, g) <=> In(V, g) \/ In(out, g)
      /\ HasAnswered(V) => HasAnswered(V1)
      /\ Reopened(V) /\ ~ In(out, DIS) => Reopened(V1)
      /\ \A i \in 1 .. Len(V1) : (i \in 1 .. Len(V) /\ V1[i] = V[i]) \/ \E j \in 1 .. Len(out) : V1[i] = out[j]
  BY <1>2, <1>3, CatHas
<1>7. f = SYN0 => In(out, SYN1) /\ t = "SENT_SYN1" /\ Reopened(V1) /\ HasAnswered(V1)
  <2>1. Reopened(V \o <<SYN1>>) /\ HasAnswered(V \o <<SYN1>>)
    BY <1>3, EndsReopened
  <2> QED BY <1>2, <2>1, ShortWires DEF Handled
<1>8. t # "DISCONNECTED" /\ f # SYN0 => s # "DISCONNECTED"
  BY <1>2 DEF Handled
<1>9. t = "DISCONNECTED" /\ f # DIS => s = "DISCONNECTED" /\ f # SYN0
  BY <1>2 DEF Handled
<1>10. /\ RemnantFirst(n) /\ SYN0Pending(n) /\ SYN1Pending(n) /\ DisconnectionPending(n) /\ DISOvertaken(n)
       /\ RemnantFirst(p) /\ SYN0Pending(p) /\ SYN1Pending(p) /\ DisconnectionPending(p) /\ DISOvertaken(p)
  BY DEF Agreeing
<1> HIDE DEF p, f, s, t, q, W, V, W1, V1
<1>11. RemnantFirst(n)'
  <2> SUFFICES ASSUME NEW i \in 1 .. Len(W1), W1[i].type = "BAD" PROVE FALSE
    BY <1>4 DEF RemnantFirst, W1
  <2>1. i + 1 = 1
    BY <1>5, <1>10 DEF RemnantFirst, W
  <2> QED BY <2>1
<1>12. SYN0Pending(n)'
  <2> SUFFICES ASSUME t = "SENT_SYN0"
               PROVE  In(V1, SYN0) \/ In(W1, SYN0) \/ In(W1, SYN1)
    BY <1>4 DEF SYN0Pending, t, p, V1, W1
  <2>1. s = "SENT_SYN0" /\ f # SYN0 /\ f # SYN1
    BY <1>2, SYNsDiffer DEF Handled
  <2>2. In(V, SYN0) \/ In(W, SYN0) \/ In(W, SYN1)
    BY <1>10, <2>1 DEF SYN0Pending, s, p, V, W
  <2> QED BY <1>5, <1>6, <2>1, <2>2
<1>13. SYN1Pending(n)'
  <2> SUFFICES ASSUME t = "SENT_SYN1"
               PROVE  In(V1, SYN1) \/ In(W1, SYN0) \/ In(W1, SYN1) \/ In(W1, SYN2) \/ In(W1, DIS)
    BY <1>4 DEF SYN1Pending, t, p, V1, W1
  <2>1. CASE f = SYN0
    BY <1>6, <1>7, <2>1
  <2>2. CASE f # SYN0
    <3>1. s = "SENT_SYN1" /\ f # SYN0 /\ f # SYN1 /\ f # SYN2 /\ f # DIS
      BY <1>2, <2>2, SYNsDiffer DEF Handled
    <3>2. In(V, SYN1) \/ In(W, SYN0) \/ In(W, SYN1) \/ In(W, SYN2) \/ In(W, DIS)
      BY <1>10, <3>1 DEF SYN1Pending, s, p, V, W
    <3> QED BY <1>5, <1>6, <3>1, <3>2
  <2> QED BY <2>1, <2>2
<1>14. DisconnectionPending(n)'
  <2> SUFFICES ASSUME t # "DISCONNECTED", q = "DISCONNECTED"
               PROVE  HasAnswered(V1) \/ In(W1, DIS) \/ In(W1, SYN0)
    BY <1>3, <1>4 DEF DisconnectionPending, t, q, p, V1, W1
  <2>1. CASE f = SYN0
    BY <1>7, <2>1
  <2>2. CASE f # SYN0
    <3>1. s # "DISCONNECTED" /\ f # DIS
      BY <1>2, <1>8, <2>2 DEF Handled
    <3>2. HasAnswered(V) \/ In(W, DIS) \/ In(W, SYN0)
      BY <1>10, <3>1 DEF DisconnectionPending, s, q, p, V, W
    <3> QED BY <1>5, <1>6, <2>2, <3>1, <3>2
  <2> QED BY <2>1, <2>2
<1>15. DISOvertaken(n)'
  <2> SUFFICES ASSUME t # "DISCONNECTED" PROVE Reopened(V1)
    BY <1>4 DEF DISOvertaken, t, p, V1
  <2>1. CASE f = SYN0
    BY <1>7, <2>1
  <2>2. CASE f # SYN0
    <3>1. s # "DISCONNECTED" /\ Reopened(V)
      BY <1>8, <1>10, <2>2 DEF DISOvertaken, s, p, V
    <3>2. ~ In(out, DIS)
      BY <1>2, <3>1 DEF Handled
    <3> QED BY <1>6, <3>1, <3>2
  <2> QED BY <2>1, <2>2
<1>16. RemnantFirst(p)'
  <2> SUFFICES ASSUME NEW i \in 1 .. Len(V1), V1[i].type = "BAD"
               PROVE  i = 1 /\ q = "SENT_SYN0"
    BY <1>3, <1>4 DEF RemnantFirst, V1, p
  <2>1. i \in 1 .. Len(V) /\ V[i].type = "BAD"
    BY <1>2, <1>6 DEF Handled
  <2> QED BY <1>10, <2>1 DEF RemnantFirst, V, q
<1>17. SYN0Pending(p)'
  <2> SUFFICES ASSUME q = "SENT_SYN0"
               PROVE  In(W1, SYN0) \/ In(V1, SYN0) \/ In(V1, SYN1)
    BY <1>1, <1>3, <1>4 DEF SYN0Pending, q, p, V1, W1
  <2>1. In(W, SYN0) \/ In(V, SYN0) \/ In(V, SYN1)
    BY <1>1, <1>10 DEF SYN0Pending, q, V, W
  <2> QED BY <1>5, <1>6, <1>7, <2>1
<1>18. SYN1Pending(p)'
  <2> SUFFICES ASSUME q = "SENT_SYN1"
               PROVE  In(W1, SYN1) \/ In(V1, SYN0) \/ In(V1, SYN1) \/ In(V1, SYN2) \/ In(V1, DIS)
    BY <1>1, <1>3, <1>4 DEF SYN1Pending, q, p, V1, W1
  <2>1. In(W, SYN1) \/ In(V, SYN0) \/ In(V, SYN1) \/ In(V, SYN2) \/ In(V, DIS)
    BY <1>1, <1>10 DEF SYN1Pending, q, V, W
  <2>2. f = SYN1 => In(out, SYN2) \/ In(out, DIS)
    BY <1>2, SYNsDiffer DEF Handled, Answered
  <2> QED BY <1>5, <1>6, <2>1, <2>2
<1>19. DisconnectionPending(p)'
  <2> SUFFICES ASSUME q # "DISCONNECTED", t = "DISCONNECTED"
               PROVE  HasAnswered(W1) \/ In(V1, DIS) \/ In(V1, SYN0)
    BY <1>1, <1>3, <1>4 DEF DisconnectionPending, t, q, p, V1, W1
  <2>1. CASE f = DIS
    <3>1. Reopened(W)
      BY <1>1, <1>10 DEF DISOvertaken, q, W
    <3> QED BY <1>5, <2>1, <3>1
  <2>2. CASE f # DIS
    <3>1. s = "DISCONNECTED" /\ f # SYN0
      BY <1>9, <2>2
    <3>2. HasAnswered(W) \/ In(V, DIS) \/ In(V, SYN0)
      BY <1>1, <1>10, <3>1 DEF DisconnectionPending, s, q, V, W
    <3>3. Answered(f) => In(out, DIS)
      BY <1>2, <3>1 DEF Handled
    <3> QED BY <1>5, <1>6, <3>2, <3>3
  <2> QED BY <2>1, <2>2
<1>20. DISOvertaken(p)'
  <2> SUFFICES ASSUME q # "DISCONNECTED" PROVE Reopened(W1)
    BY <1>1, <1>3, <1>4 DEF DISOvertaken, q, W1
  <2>1. Reopened(W)
    BY <1>1, <1>10 DEF DISOvertaken, q, W
  <2> QED BY <1>5, <2>1
<1> QED BY <1>11, <1>12, <1>13, <1>14, <1>15, <1>16, <1>17, <1>18, <1>19, <1>20 DEF Agreeing, p

\* What a wire has when its receiver is reset.
LEMMA AfterResetHas ==
  ASSUME NEW w \in Seq(Frames), NEW v \in AfterReceiverReset(w),
         \A i \in 1 .. Len(w) : w[i].type = "BAD" => i = 1
  PROVE  /\ Reopened(w) => Reopened(v)
         /\ \A i \in 1 .. Len(v) : v[i].type = "BAD" => i = 1
<1>1. CASE v = w
  BY <1>1
<1>2. CASE w # << >> /\ v = Tail(w)
  <2> DEFINE tail == Tail(w)
  <2>1. /\ \A i \in 1 .. Len(tail) : i + 1 \in 1 .. Len(w) /\ tail[i] = w[i + 1]
        /\ Reopened(w) => Reopened(tail)
    BY <1>2, TailHas
  <2> HIDE DEF tail
  <2>2. ASSUME NEW i \in 1 .. Len(tail), tail[i].type = "BAD" PROVE FALSE
    <3>1. i + 1 = 1
      BY <2>1, <2>2
    <3> QED BY <3>1
  <2> QED BY <1>2, <2>1, <2>2 DEF tail
<1>3. CASE w # << >> /\ v = <<Remnant>> \o Tail(w)
  <2>1. /\ Len(w) \in Nat \ {0} /\ Tail(w) \in Seq(Frames) /\ Len(Tail(w)) = Len(w) - 1
        /\ \A i \in 1 .. Len(Tail(w)) : Tail(w)[i] = w[i + 1]
    BY <1>3, HeadTailProperties
  <2>2. Len(v) = Len(w) /\ v[1] = Remnant /\ \A i \in 1 .. Len(Tail(w)) : v[i + 1] = Tail(w)[i]
    <3>1. <<Remnant>> \in Seq(Frames) /\ Len(<<Remnant>>) = 1 /\ <<Remnant>>[1] = Remnant
      BY FramesMade
    <3> DEFINE tail == Tail(w)
               head == <<Remnant>>
    <3> HIDE DEF tail, head
    <3>2. /\ Len(head \o tail) = 1 + Len(tail) /\ (head \o tail)[1] = Remnant
          /\ \A i \in 1 .. Len(tail) : (head \o tail)[i + 1] = tail[i]
      BY <2>1, <3>1 DEF tail, head
    <3> QED BY <1>3, <2>1, <3>2 DEF tail, head
  <2>3. \A i \in 1 .. Len(w) : i # 1 => v[i] = w[i]
    <3> TAKE i \in 1 .. Len(w)
    <3> HAVE i # 1
    <3>1. i - 1 \in 1 .. Len(Tail(w)) /\ (i - 1) + 1 = i
      BY <2>1
    <3> QED BY <2>1, <2>2, <3>1
  <2>4. ASSUME Reopened(w) PROVE Reopened(v)
    <3> SUFFICES ASSUME NEW i \in 1 .. Len(v), v[i] = DIS
                 PROVE  \E j \in (i + 1) .. Len(v) : v[j] \in {SYN0, SYN1}
      BY DEF Reopened
    <3>1. i \in 1 .. Len(w) /\ i # 1
      BY <2>2, SYNsDiffer
    <3>2. PICK j \in (i + 1) .. Len(w) : w[j] \in {SYN0, SYN1}
      BY <2>3, <2>4, <3>1 DEF Reopened
    <3>3. j \in 1 .. Len(w) /\ j # 1
      BY <2>1, <3>1, <3>2
    <3> QED BY <2>2, <2>3, <3>2, <3>3
  <2> QED BY <2>2, <2>3, <2>4
<1> QED BY <1>1, <1>2, <1>3 DEF AfterReceiverReset

\* sfpConnect keeps the agreement.
LEMMA ConnectAgreement ==
  ASSUME TypeOK, NEW n \in Nodes, Connect(n), Agreeing(n), Agreeing(Peer(n))
  PROVE  Agreeing(n)' /\ Agreeing(Peer(n))'
<1> DEFINE p == Peer(n)
           W == wire[n]
           V == wire[p]
           V1 == V \o <<SYN0>>
<1>1. p \in Nodes /\ p # n /\ Peer(p) = n /\ W \in Seq(Frames) /\ V \in Seq(Frames)
  BY TwoNodes DEF TypeOK
<1>2. PICK w \in AfterReceiverReset(W) :
        wire' = [wire EXCEPT ![n] = w, ![p] = Append(@, SYN0)]
  BY DEF Connect
<1>3. wire'[n] = w /\ wire'[p] = V1
  <2>1. Append(V, SYN0) = V1
    BY <1>1, FramesMade
  <2> QED BY <1>1, <1>2, <2>1, ResetWire, FramesMade, SendWires DEF TypeOK
<1>4. connectState'[n] = "SENT_SYN0" /\ connectState'[p] = connectState[p]
  BY <1>1 DEF Connect, Enter, TypeOK
<1>5. /\ RemnantFirst(n) /\ SYN0Pending(n) /\ SYN1Pending(n) /\ DisconnectionPending(n) /\ DISOvertaken(n)
      /\ RemnantFirst(p) /\ SYN0Pending(p) /\ SYN1Pending(p) /\ DisconnectionPending(p) /\ DISOvertaken(p)
  BY DEF Agreeing
<1>6. (Reopened(W) => Reopened(w)) /\ \A i \in 1 .. Len(w) : w[i].type = "BAD" => i = 1
  BY <1>1, <1>2, <1>5, AfterResetHas DEF RemnantFirst
<1>7. In(V1, SYN0) /\ Reopened(V1) /\ HasAnswered(V1)
      /\ \A i \in 1 .. Len(V1) : V1[i].type = "BAD" => i \in 1 .. Len(V) /\ V[i].type = "BAD"
  <2>1. <<SYN0>> \in Seq(Frames) /\ \A j \in 1 .. Len(<<SYN0>>) : <<SYN0>>[j].type # "BAD"
    BY FramesMade, SYNsDiffer
  <2>2. In(V1, SYN0) /\ \A i \in 1 .. Len(V1) :
          (i \in 1 .. Len(V) /\ V1[i] = V[i]) \/ \E j \in 1 .. Len(<<SYN0>>) : V1[i] = <<SYN0>>[j]
    BY <1>1, <2>1, CatHas, ShortWires, ZenonT(60)
  <2>3. Reopened(V1) /\ HasAnswered(V1)
    BY <1>1, EndsReopened
  <2> QED BY <2>1, <2>2, <2>3
<1> HIDE DEF p, W, V, V1
<1>8. Agreeing(n)'
  <2>1. RemnantFirst(n)'
    BY <1>3, <1>4, <1>6 DEF RemnantFirst
  <2>2. SYN0Pending(n)' /\ SYN1Pending(n)' /\ DisconnectionPending(n)' /\ DISOvertaken(n)'
    BY <1>3, <1>4, <1>7 DEF SYN0Pending, SYN1Pending, DisconnectionPending, DISOvertaken, p
  <2> QED BY <2>1, <2>2 DEF Agreeing
<1>9. Agreeing(p)'
  <2>1. RemnantFirst(p)'
    BY <1>3, <1>4, <1>5, <1>7 DEF RemnantFirst, V
  <2>2. SYN0Pending(p)' /\ SYN1Pending(p)' /\ DisconnectionPending(p)'
    BY <1>1, <1>3, <1>4, <1>7 DEF SYN0Pending, SYN1Pending, DisconnectionPending
  <2>3. DISOvertaken(p)'
    BY <1>1, <1>3, <1>4, <1>5, <1>6 DEF DISOvertaken, W
  <2> QED BY <2>1, <2>2, <2>3 DEF Agreeing
<1> QED BY <1>8, <1>9 DEF p

\* sfpWritePacket keeps the agreement.
LEMMA WriteAgreement ==
  ASSUME TypeOK, NEW n \in Nodes, WritePacket(n), Agreeing(n), Agreeing(Peer(n))
  PROVE  Agreeing(n)' /\ Agreeing(Peer(n))'
<1> DEFINE p == Peer(n)
           g == DataFrame("USR", txSeq[n], sent[n] + 1)
           W == wire[n]
           V == wire[p]
           V1 == V \o <<g>>
<1>1. p \in Nodes /\ p # n /\ Peer(p) = n /\ W \in Seq(Frames) /\ V \in Seq(Frames)
  BY TwoNodes DEF TypeOK
<1>2. g \in Frames /\ g.type = "USR"
  <2>1. sent[n] + 1 \in Packets /\ txSeq[n] \in Seqs
    BY BoundsAssumption DEF TypeOK, WritePacket, Packets
  <2> QED BY <2>1, FramesMade, SYNsDiffer
<1>3. wire' = [wire EXCEPT ![p] = Append(@, g)] /\ connectState' = connectState
  BY DEF WritePacket
<1> HIDE DEF g
<1>4. wire'[n] = W /\ wire'[p] = V1
  <2>1. Append(V, g) = V1
    BY <1>1, <1>2
  <2> QED BY <1>1, <1>3, <2>1 DEF TypeOK
<1>5. /\ RemnantFirst(n) /\ SYN0Pending(n) /\ SYN1Pending(n) /\ DisconnectionPending(n) /\ DISOvertaken(n)
      /\ RemnantFirst(p) /\ SYN0Pending(p) /\ SYN1Pending(p) /\ DisconnectionPending(p) /\ DISOvertaken(p)
  BY DEF Agreeing
<1>6. /\ \A h : In(V, h) => In(V1, h)
      /\ HasAnswered(V) => HasAnswered(V1)
      /\ Reopened(V) => Reopened(V1)
      /\ \A i \in 1 .. Len(V1) : V1[i].type = "BAD" => i \in 1 .. Len(V) /\ V[i].type = "BAD"
  <2>1. <<g>> \in Seq(Frames) /\ (\A j \in 1 .. Len(<<g>>) : <<g>>[j].type # "BAD") /\ ~ In(<<g>>, DIS)
    BY <1>2, ShortWires, SYNsDiffer
  <2> DEFINE one == <<g>>
  <2> HIDE DEF one, V
  <2>2. /\ \A h : In(V \o one, h) <=> In(V, h) \/ In(one, h)
        /\ HasAnswered(V) => HasAnswered(V \o one)
        /\ Reopened(V) /\ ~ In(one, DIS) => Reopened(V \o one)
        /\ \A i \in 1 .. Len(V \o one) :
             (i \in 1 .. Len(V) /\ (V \o one)[i] = V[i]) \/ \E j \in 1 .. Len(one) : (V \o one)[i] = one[j]
    BY <1>1, <2>1, CatHas DEF one
  <2> QED BY <2>1, <2>2 DEF one
<1> HIDE DEF p, W, V, V1
<1>7. Agreeing(n)'
  <2>1. RemnantFirst(n)'
    BY <1>3, <1>4, <1>5 DEF RemnantFirst, W
  <2>2. SYN0Pending(n)' /\ SYN1Pending(n)'
    BY <1>3, <1>4, <1>5, <1>6 DEF SYN0Pending, SYN1Pending, p, W, V
  <2>3. DisconnectionPending(n)' /\ DISOvertaken(n)'
    BY <1>3, <1>4, <1>5, <1>6 DEF DisconnectionPending, DISOvertaken, p, W, V
  <2> QED BY <2>1, <2>2, <2>3 DEF Agreeing
<1>8. Agreeing(p)'
  <2>1. RemnantFirst(p)'
    BY <1>3, <1>4, <1>5, <1>6 DEF RemnantFirst, V
  <2>2. SYN0Pending(p)' /\ SYN1Pending(p)'
    BY <1>1, <1>3, <1>4, <1>5, <1>6 DEF SYN0Pending, SYN1Pending, W, V
  <2>3. DisconnectionPending(p)' /\ DISOvertaken(p)'
    BY <1>1, <1>3, <1>4, <1>5, <1>6 DEF DisconnectionPending, DISOvertaken, W, V
  <2> QED BY <2>1, <2>2, <2>3 DEF Agreeing
<1> QED BY <1>7, <1>8 DEF p

\* A link that is still clean has taken a frame, or a user has connected or written.
LEMMA CleanStep ==
  ASSUME TypeOK, TypeOK', Next, Clean'
  PROVE  \E n \in Nodes : Clean /\ (HandleFrame(n) \/ Connect(n) \/ WritePacket(n))
<1>1. inits \in Nat /\ faults \in Nat /\ inits' \in Nat /\ faults' \in Nat
  BY BoundsAssumption DEF TypeOK
<1>2. PICK n \in Nodes : HandleFrame(n) \/ UserCall(n) \/ Fault(n)
  BY DEF Next
<1>3. inits' = 0 /\ faults' = 0
  <2>1. \A a, b \in Nat : a + b = 0 => a = 0 /\ b = 0
    OBVIOUS
  <2>2. inits' + faults' = 0
    BY DEF Clean
  <2> QED BY <1>1, <2>1, <2>2
<1>4. ~ Reinit(n) /\ ~ Fault(n)
  <2>1. Reinit(n) => inits' = inits + 1
    BY DEF Reinit
  <2>2. Fault(n) => faults' = faults + 1
    BY DEF Fault
  <2> QED BY <1>1, <1>3, <2>1, <2>2
<1>5. CASE HandleFrame(n)
  BY <1>3, <1>5, HandlersHandle DEF Clean
<1>6. CASE Connect(n) \/ WritePacket(n)
  BY <1>6 DEF Clean, Connect, WritePacket, budget
<1> QED BY <1>2, <1>4, <1>5, <1>6 DEF UserCall

\* Every step keeps the agreement.
LEMMA NextAgreement == AgreementInv /\ [Next]_vars => AgreementInv'
<1> SUFFICES ASSUME AgreementInv, [Next]_vars PROVE AgreementInv'
  OBVIOUS
<1>1. TypeOK /\ TypeOK'
  BY NextTypes DEF AgreementInv
<1> SUFFICES ASSUME Clean' PROVE \A n \in Nodes : Agreeing(n)'
  BY <1>1 DEF AgreementInv
<1>2. CASE UNCHANGED vars
  <2>1. Clean /\ connectState' = connectState /\ wire' = wire
    BY <1>2 DEF Clean, vars, budget
  <2> QED BY <2>1 DEF AgreementInv, Agreeing, RemnantFirst, SYN0Pending, SYN1Pending, DisconnectionPending,
                      DISOvertaken
<1>3. CASE Next
  <2>1. PICK n \in Nodes : Clean /\ (HandleFrame(n) \/ Connect(n) \/ WritePacket(n))
    BY <1>1, <1>3, CleanStep
  <2>2. Agreeing(n) /\ Agreeing(Peer(n))
    BY <2>1, TwoNodes DEF AgreementInv
  <2>3. Agreeing(n)' /\ Agreeing(Peer(n))'
    BY <1>1, <2>1, <2>2, HandleFrameAgreement, ConnectAgreement, WriteAgreement
  <2> QED BY <2>3, TwoNodes
<1> QED BY <1>2, <1>3

\* The agreement holds at the start.
LEMMA InitAgreement == Init => AgreementInv
<1> SUFFICES ASSUME Init PROVE AgreementInv
  OBVIOUS
<1>1. TypeOK
  <2>1. "DISCONNECTED" \in ConnectStates
    BY DEF ConnectStates
  <2> QED BY <2>1, InitTypes DEF Init
<1>2. \A n \in Nodes : Peer(n) \in Nodes /\ wire[n] = << >> /\ connectState[n] = "DISCONNECTED"
  BY TwoNodes DEF Init, InitIn
<1> QED BY <1>1, <1>2 DEF AgreementInv, Agreeing, RemnantFirst, SYN0Pending, SYN1Pending, DisconnectionPending,
                           DISOvertaken

(***************************************************************************)
(* The agreement gives QuietAgreement: with empty wires nobody can be in   *)
(* the middle of a handshake, nor disconnected alone.                      *)
(***************************************************************************)
LEMMA AgreementIsQuiet == AgreementInv => QuietAgreement
<1> SUFFICES ASSUME AgreementInv, Quiet, Clean PROVE AllConnected \/ AllDisconnected
  BY DEF QuietAgreement
<1>1. \A n \in Nodes : /\ Peer(n) \in Nodes /\ Peer(Peer(n)) = n
                       /\ wire[n] = << >> /\ wire[Peer(n)] = << >>
  BY TwoNodes DEF Quiet
<1>2. \A n \in Nodes : connectState[n] \in {"CONNECTED", "DISCONNECTED"}
  <2> TAKE n \in Nodes
  <2>1. SYN0Pending(n) /\ SYN1Pending(n)
    BY DEF AgreementInv, Agreeing
  <2>2. connectState[n] \in ConnectStates
    BY DEF AgreementInv, TypeOK
  <2>3. wire[n] = << >> /\ wire[Peer(n)] = << >>
    BY <1>1
  <2>4. connectState[n] # "SENT_SYN0" /\ connectState[n] # "SENT_SYN1"
    BY <2>1, <2>3, ShortWires DEF SYN0Pending, SYN1Pending
  <2> QED BY <2>2, <2>4 DEF ConnectStates
<1>3. ~ HasAnswered(<< >>)
  BY DEF HasAnswered
<1>4. \A n \in Nodes : ~ (connectState[n] # "DISCONNECTED" /\ connectState[Peer(n)] = "DISCONNECTED")
  BY <1>1, <1>3, ShortWires DEF AgreementInv, Agreeing, DisconnectionPending
<1>5. PICK n \in Nodes : TRUE
  BY NodesAssumption
<1>6. connectState[n] = connectState[Peer(n)]
  BY <1>1, <1>2, <1>4, <1>5
<1>7. \A m \in Nodes : connectState[m] = connectState[n]
  BY <1>5, <1>6, TwoNodes
<1> QED BY <1>2, <1>5, <1>7 DEF AllConnected, AllDisconnected, Connected

(***************************************************************************)
(* On a medium without faults the ends never disagree for good, for every  *)
(* number of calls of sfpConnect at either end, whenever and in whatever   *)
(* state they come, and whatever is written meanwhile.                     *)
(***************************************************************************)
THEOREM Agreement == Spec \/ DisruptedSpec => []QuietAgreement
<1>1. AgreementInv /\ [Next /\ OneDisruption]_vars => AgreementInv'
  BY NextAgreement
<1> QED BY <1>1, InitAgreement, NextAgreement, AgreementIsQuiet, PTL DEF Spec, DisruptedSpec

-----------------------------------------------------------------------------
(***************************************************************************)
(* The frames of some types on a wire.                                     *)
(***************************************************************************)
\* Only so far, and what the next frame makes of it.
Extended(kept, f, types) == IF f.type \in types THEN Append(kept, f) ELSE kept

OnlyUpTo(w, types, g, n) ==
  g = [i \in 0 .. n |-> IF i = 0 THEN << >> ELSE Extended(g[i - 1], w[i], types)]

LEMMA OnlyUpToExists ==
  ASSUME NEW w, NEW types
  PROVE  \A n \in Nat : \E g : OnlyUpTo(w, types, g, n)
<1> DEFINE T == {n \in Nat : \E g : OnlyUpTo(w, types, g, n)}
<1>1. 0 \in T
  <2>1. OnlyUpTo(w, types, [i \in 0 .. 0 |-> << >>], 0)
    BY DEF OnlyUpTo
  <2> QED  BY <2>1
<1>2. ASSUME NEW n \in Nat, n \in T PROVE n + 1 \in T
  <2>1. PICK g : OnlyUpTo(w, types, g, n)
    BY <1>2
  <2> DEFINE h == [i \in 0 .. n + 1 |-> IF i <= n THEN g[i] ELSE Extended(g[n], w[n + 1], types)]
  <2>2. \A i \in 0 .. n : g[i] = IF i = 0 THEN << >> ELSE Extended(g[i - 1], w[i], types)
    BY <2>1 DEF OnlyUpTo
  <2>3. \A i \in 0 .. n + 1 : h[i] = IF i = 0 THEN << >> ELSE Extended(h[i - 1], w[i], types)
    <3> TAKE i \in 0 .. n + 1
    <3>1. CASE i = 0
      BY <3>1, <2>2
    <3>2. CASE i \in 1 .. n
      <4>1. h[i] = g[i] /\ h[i - 1] = g[i - 1]
        BY <3>2
      <4> QED  BY <3>2, <4>1, <2>2
    <3>3. CASE i = n + 1
      <4>1. h[i] = Extended(g[n], w[i], types) /\ h[i - 1] = g[n]
        BY <3>3
      <4> QED  BY <3>3, <4>1
    <3> QED  BY <3>1, <3>2, <3>3
  <2>4. OnlyUpTo(w, types, h, n + 1)
    BY <2>3 DEF OnlyUpTo
  <2> QED  BY <2>4
<1>3. Nat \subseteq T
  <2> HIDE DEF T
  <2> QED  BY <1>1, <1>2, SetInduction
<1> QED  BY <1>3

LEMMA OnlyUnrolled ==
  ASSUME NEW w \in Seq(Frames), NEW types
  PROVE  \E g : /\ Only(w, types) = g[Len(w)]
                /\ g[0] = << >>
                /\ \A i \in 1 .. Len(w) : g[i] = Extended(g[i - 1], w[i], types)
<1> DEFINE h == CHOOSE g : OnlyUpTo(w, types, g, Len(w))
<1>1. Len(w) \in Nat
  OBVIOUS
<1>2. OnlyUpTo(w, types, h, Len(w))
  BY <1>1, OnlyUpToExists
<1>3. Only(w, types) = h[Len(w)]
  BY DEF Only, OnlyUpTo, Extended
<1> HIDE DEF h
<1>4. \A i \in 0 .. Len(w) : h[i] = IF i = 0 THEN << >> ELSE Extended(h[i - 1], w[i], types)
  BY <1>2 DEF OnlyUpTo
<1>5. h[0] = << >> /\ \A i \in 1 .. Len(w) : h[i] = Extended(h[i - 1], w[i], types)
  BY <1>1, <1>4
<1> QED BY <1>3, <1>5

\* The empty wire, and a wire that grows by a frame.
LEMMA OnlyAppend ==
  ASSUME NEW types
  PROVE  /\ Only(<< >>, types) = << >>
         /\ \A w \in Seq(Frames), f \in Frames :
              /\ Only(w, types) \in Seq(Frames)
              /\ Only(Append(w, f), types) = Extended(Only(w, types), f, types)
<1>1. Only(<< >>, types) = << >>
  <2>1. << >> \in Seq(Frames) /\ Len(<< >>) = 0
    OBVIOUS
  <2> QED BY <2>1, OnlyUnrolled
<1>2. ASSUME NEW w \in Seq(Frames), NEW f \in Frames
      PROVE  /\ Only(w, types) \in Seq(Frames)
             /\ Only(Append(w, f), types) = Extended(Only(w, types), f, types)
  <2> DEFINE v == Append(w, f)
  <2>1. /\ v \in Seq(Frames) /\ Len(w) \in Nat /\ Len(v) = Len(w) + 1 /\ v[Len(w) + 1] = f
        /\ \A i \in 1 .. Len(w) : v[i] = w[i] /\ w[i] \in Frames
    OBVIOUS
  <2> HIDE DEF v
  <2>2. PICK g : /\ Only(w, types) = g[Len(w)] /\ g[0] = << >>
                 /\ \A i \in 1 .. Len(w) : g[i] = Extended(g[i - 1], w[i], types)
    BY OnlyUnrolled
  <2>3. PICK h : /\ Only(v, types) = h[Len(v)] /\ h[0] = << >>
                 /\ \A i \in 1 .. Len(v) : h[i] = Extended(h[i - 1], v[i], types)
    BY <2>1, OnlyUnrolled
  <2> DEFINE T == {i \in Nat : i <= Len(w) => g[i] = h[i] /\ g[i] \in Seq(Frames)}
  <2>4. 0 \in T
    <3>1. << >> \in Seq(Frames)
      OBVIOUS
    <3> QED BY <2>2, <2>3, <3>1
  <2>5. ASSUME NEW i \in Nat, i \in T PROVE i + 1 \in T
    <3> SUFFICES ASSUME i + 1 <= Len(w) PROVE g[i + 1] = h[i + 1] /\ g[i + 1] \in Seq(Frames)
      OBVIOUS
    <3>1. g[i] = h[i] /\ g[i] \in Seq(Frames) /\ i + 1 \in 1 .. Len(w) /\ i + 1 \in 1 .. Len(v) /\ (i + 1) - 1 = i
      BY <2>1, <2>5
    <3>2. g[i + 1] = Extended(g[i], w[i + 1], types) /\ h[i + 1] = Extended(h[i], w[i + 1], types)
      BY <2>1, <2>2, <2>3, <3>1
    <3>3. Extended(g[i], w[i + 1], types) \in Seq(Frames)
      BY <2>1, <3>1 DEF Extended
    <3> QED BY <3>1, <3>2, <3>3
  <2>6. Nat \subseteq T
    <3> HIDE DEF T
    <3> QED BY <2>4, <2>5, SetInduction
  <2>7. g[Len(w)] = h[Len(w)] /\ g[Len(w)] \in Seq(Frames)
    BY <2>1, <2>6
  <2>8. h[Len(v)] = Extended(h[Len(w)], f, types)
    <3>1. Len(v) \in 1 .. Len(v) /\ Len(v) - 1 = Len(w) /\ v[Len(v)] = f
      BY <2>1
    <3> QED BY <2>3, <3>1
  <2> QED BY <2>2, <2>3, <2>7, <2>8 DEF v
<1> QED BY <1>1, <1>2

\* A wire is empty or ends with a frame.
LEMMA LastFrame ==
  ASSUME NEW n \in Nat, NEW w \in Seq(Frames), Len(w) = n + 1
  PROVE  \E v \in Seq(Frames), f \in Frames :
           /\ w = Append(v, f) /\ Len(v) = n /\ f = w[n + 1]
           /\ \A i \in 1 .. n : w[i] = v[i]
<1> DEFINE v == [i \in 1 .. n |-> w[i]]
<1>1. v \in Seq(Frames) /\ Len(v) = n /\ w[n + 1] \in Frames
  OBVIOUS
<1>2. Len(Append(v, w[n + 1])) = n + 1 /\ \A i \in 1 .. (n + 1) : Append(v, w[n + 1])[i] = w[i]
  BY <1>1
<1>3. w = Append(v, w[n + 1])
  BY <1>1, <1>2
<1>4. \A i \in 1 .. n : w[i] = v[i]
  OBVIOUS
<1> HIDE DEF v
<1> QED BY <1>1, <1>3, <1>4

\* Frames put on a wire.
LEMMA OnlyConcat ==
  ASSUME NEW types, NEW w \in Seq(Frames), NEW out \in Seq(Frames)
  PROVE  Only(w \o out, types) = Only(w, types) \o Only(out, types)
<1> DEFINE T == {n \in Nat : \A v \in Seq(Frames) :
                   Len(v) = n => Only(w \o v, types) = Only(w, types) \o Only(v, types)}
<1>1. 0 \in T
  <2> SUFFICES ASSUME NEW v \in Seq(Frames), Len(v) = 0
               PROVE  Only(w \o v, types) = Only(w, types) \o Only(v, types)
    OBVIOUS
  <2>1. v = << >>
    OBVIOUS
  <2>2. w \o v = w
    BY <2>1
  <2>3. Only(v, types) = << >> /\ Only(w, types) \in Seq(Frames)
    BY <2>1, OnlyAppend, FramesMade
  <2>4. Only(w, types) \o << >> = Only(w, types)
    BY <2>3
  <2> QED BY <2>2, <2>3, <2>4
<1>2. ASSUME NEW n \in Nat, n \in T PROVE n + 1 \in T
  <2> SUFFICES ASSUME NEW u \in Seq(Frames), Len(u) = n + 1
               PROVE  Only(w \o u, types) = Only(w, types) \o Only(u, types)
    OBVIOUS
  <2>1. PICK v \in Seq(Frames), f \in Frames : u = Append(v, f) /\ Len(v) = n
    BY LastFrame
  <2>2. w \o u = Append(w \o v, f) /\ w \o v \in Seq(Frames)
    BY <2>1
  <2> DEFINE a == Only(w, types)
             b == Only(v, types)
  <2>3. a \in Seq(Frames) /\ b \in Seq(Frames) /\ Only(w \o v, types) = a \o b
    BY <1>2, <2>1, OnlyAppend
  <2>4. Only(w \o u, types) = Extended(a \o b, f, types) /\ Only(u, types) = Extended(b, f, types)
    BY <2>1, <2>2, <2>3, OnlyAppend, ZenonT(60)
  <2> HIDE DEF a, b
  <2>5. a \o Append(b, f) = Append(a \o b, f)
    BY <2>1, <2>3
  <2> QED BY <2>4, <2>5 DEF Extended, a
<1>3. Nat \subseteq T
  <2> HIDE DEF T
  <2> QED BY <1>1, <1>2, SetInduction
<1>4. Len(out) \in Nat
  OBVIOUS
<1> QED BY <1>3, <1>4

\* Frames that are all, or none, of the types.
LEMMA OnlyOrNone ==
  ASSUME NEW types, NEW w \in Seq(Frames)
  PROVE  /\ (\A i \in 1 .. Len(w) : w[i].type \in types) => Only(w, types) = w
         /\ (\A i \in 1 .. Len(w) : w[i].type \notin types) => Only(w, types) = << >>
         /\ \A i \in 1 .. Len(Only(w, types)) : Only(w, types)[i].type \in types
<1> DEFINE P(v) ==
             /\ (\A i \in 1 .. Len(v) : v[i].type \in types) => Only(v, types) = v
             /\ (\A i \in 1 .. Len(v) : v[i].type \notin types) => Only(v, types) = << >>
             /\ \A i \in 1 .. Len(Only(v, types)) : Only(v, types)[i].type \in types
           T == {n \in Nat : \A v \in Seq(Frames) : Len(v) = n => P(v)}
<1>1. 0 \in T
  <2> SUFFICES ASSUME NEW v \in Seq(Frames), Len(v) = 0 PROVE P(v)
    OBVIOUS
  <2>1. v = << >> /\ Only(<< >>, types) = << >>
    BY OnlyAppend
  <2> QED BY <2>1
<1>2. ASSUME NEW n \in Nat, n \in T PROVE n + 1 \in T
  <2> SUFFICES ASSUME NEW u \in Seq(Frames), Len(u) = n + 1 PROVE P(u)
    OBVIOUS
  <2>1. PICK v \in Seq(Frames), f \in Frames :
          u = Append(v, f) /\ Len(v) = n /\ f = u[n + 1] /\ \A i \in 1 .. n : u[i] = v[i]
    BY LastFrame
  <2>2. P(v)
    BY <1>2, <2>1
  <2> DEFINE b == Only(v, types)
  <2>3. b \in Seq(Frames) /\ Only(u, types) = Extended(b, f, types)
    BY <2>1, OnlyAppend
  <2>4. n + 1 \in 1 .. Len(u) /\ \A i \in 1 .. n : i \in 1 .. Len(u)
    OBVIOUS
  <2> HIDE DEF b
  <2>5. (\A i \in 1 .. Len(u) : u[i].type \in types) => Only(u, types) = u
    BY <2>1, <2>2, <2>3, <2>4 DEF Extended, b
  <2>6. (\A i \in 1 .. Len(u) : u[i].type \notin types) => Only(u, types) = << >>
    BY <2>1, <2>2, <2>3, <2>4 DEF Extended, b
  <2>7. \A i \in 1 .. Len(Only(u, types)) : Only(u, types)[i].type \in types
    <3>1. \A i \in 1 .. Len(b) : b[i].type \in types
      BY <2>2 DEF b
    <3>2. CASE f.type \in types
      <4>1. Only(u, types) = Append(b, f)
        BY <2>3, <3>2 DEF Extended
      <4>2. \A i \in 1 .. Len(Append(b, f)) : Append(b, f)[i] = f \/ (i \in 1 .. Len(b) /\ Append(b, f)[i] = b[i])
        BY <2>1, <2>3
      <4> QED BY <3>1, <3>2, <4>1, <4>2
    <3>3. CASE f.type \notin types
      BY <2>3, <3>1, <3>3 DEF Extended
    <3> QED BY <3>2, <3>3
  <2> QED BY <2>5, <2>6, <2>7
<1>3. Nat \subseteq T
  <2> HIDE DEF T
  <2> QED BY <1>1, <1>2, SetInduction
<1>4. Len(w) \in Nat /\ P(w)
  BY <1>3
<1> QED BY <1>4

\* The first frame is taken off a wire.
LEMMA OnlyTail ==
  ASSUME NEW types, NEW w \in Seq(Frames), w # << >>
  PROVE  /\ Only(Tail(w), types) \in Seq(Frames) /\ Only(w, types) \in Seq(Frames)
         /\ Head(w).type \in types =>
              /\ Only(w, types) # << >> /\ Head(Only(w, types)) = Head(w)
              /\ Only(Tail(w), types) = Tail(Only(w, types))
         /\ Head(w).type \notin types => Only(Tail(w), types) = Only(w, types)
<1> DEFINE f == Head(w)
           tail == Tail(w)
           b == Only(tail, types)
<1>1. f \in Frames /\ tail \in Seq(Frames) /\ <<f>> \in Seq(Frames) /\ w = <<f>> \o tail
  OBVIOUS
<1>2. b \in Seq(Frames) /\ Only(w, types) \in Seq(Frames)
  BY <1>1, OnlyAppend
<1>3. Only(w, types) = Only(<<f>>, types) \o b
  BY <1>1, OnlyConcat
<1>4. Len(<<f>>) = 1 /\ \A i \in 1 .. 1 : <<f>>[i] = f
  OBVIOUS
<1>5. f.type \in types => Only(<<f>>, types) = <<f>>
  BY <1>1, <1>4, OnlyOrNone
<1>6. f.type \notin types => Only(<<f>>, types) = << >>
  BY <1>1, <1>4, OnlyOrNone
<1> HIDE DEF f, tail, b
<1>7. <<f>> \o b # << >> /\ Head(<<f>> \o b) = f /\ Tail(<<f>> \o b) = b /\ << >> \o b = b
  BY <1>1, <1>2
<1>8. f.type \in types => Only(w, types) # << >> /\ Head(Only(w, types)) = f /\ b = Tail(Only(w, types))
  BY <1>3, <1>5, <1>7
<1>9. f.type \notin types => b = Only(w, types)
  BY <1>3, <1>6, <1>7
<1> QED BY <1>2, <1>8, <1>9 DEF f, b, tail

-----------------------------------------------------------------------------
(***************************************************************************)
(* The two directions of a connected link.                                 *)
(***************************************************************************)
DataTypes == {"USR", "RTX"}

\* The NAKs among r as a direction whose receiver has delivered d packets and
\* waits for number s sees them.
Stamp(f, d, s) == [seq |-> f.seq, at |-> d - ((s - f.seq) % SeqRange)]
Stamped(r, d, s) == [i \in 1 .. Len(r) |-> Stamp(r[i], d, s)]

LEMMA NaksAreStamped ==
  ASSUME NEW n \in Nodes
  PROVE  NaksTo(n) = Stamped(Only(wire[n], {"NAK"}), Len(delivered[Peer(n)]), rxSeq[Peer(n)])
  BY DEF NaksTo, Stamped, Stamp

LEMMA StampedTail ==
  ASSUME NEW r \in Seq(Frames), r # << >>, NEW d, NEW s
  PROVE  /\ Stamped(r, d, s) # << >> /\ Head(Stamped(r, d, s)) = Stamp(Head(r), d, s)
         /\ Stamped(Tail(r), d, s) = Tail(Stamped(r, d, s))
<1> DEFINE S == {Stamp(f, d, s) : f \in Frames}
           w == Stamped(r, d, s)
           v == Stamped(Tail(r), d, s)
<1>1. /\ Len(r) \in Nat \ {0} /\ Head(r) = r[1] /\ Tail(r) \in Seq(Frames) /\ Len(Tail(r)) = Len(r) - 1
      /\ \A i \in 1 .. Len(Tail(r)) : Tail(r)[i] = r[i + 1]
      /\ \A i \in 1 .. Len(r) : r[i] \in Frames
  BY HeadTailProperties
<1>2. w \in Seq(S) /\ Len(w) = Len(r) /\ \A i \in 1 .. Len(r) : w[i] = Stamp(r[i], d, s)
  <2> HIDE DEF S
  <2>1. \A i \in 1 .. Len(r) : Stamp(r[i], d, s) \in S
    BY <1>1 DEF S
  <2> QED BY <1>1, <2>1 DEF Stamped
<1>3. /\ v = [i \in 1 .. (Len(r) - 1) |-> Stamp(r[i + 1], d, s)]
  BY <1>1 DEF Stamped
<1> HIDE DEF S, w, v
<1>7. v \in Seq(S) /\ Len(v) = Len(r) - 1
  <2>1. \A i \in 1 .. (Len(r) - 1) : Stamp(r[i + 1], d, s) \in S
    BY <1>1 DEF S
  <2>2. Len(r) - 1 \in Nat
    BY <1>1
  <2> QED BY <1>3, <2>1, <2>2
<1>4. /\ w # << >> /\ Head(w) = w[1] /\ Tail(w) \in Seq(S) /\ Len(Tail(w)) = Len(w) - 1
      /\ \A i \in 1 .. Len(Tail(w)) : Tail(w)[i] = w[i + 1]
  BY <1>1, <1>2, HeadTailProperties
<1>5. Tail(w) = v
  <2>1. \A i \in 1 .. Len(v) : v[i] = w[i + 1] /\ v[i] \in S
    BY <1>1, <1>2, <1>3, <1>7, ElementOfSeq
  <2> QED BY <1>2, <1>4, <1>7, <2>1, SeqEqual
<1>6. Head(w) = Stamp(Head(r), d, s)
  BY <1>1, <1>2, <1>4
<1> QED BY <1>4, <1>5, <1>6 DEF w, v

LEMMA StampedAppend ==
  ASSUME NEW r \in Seq(Frames), NEW f, NEW d, NEW s
  PROVE  Stamped(Append(r, f), d, s) = Append(Stamped(r, d, s), Stamp(f, d, s))
<1> DEFINE w == Stamped(r, d, s)
           q == Append(r, f)
<1>1. Len(r) \in Nat /\ Len(q) = Len(r) + 1 /\ q[Len(r) + 1] = f /\ \A i \in 1 .. Len(r) : q[i] = r[i]
  OBVIOUS
<1>2. /\ w = [i \in 1 .. Len(r) |-> Stamp(r[i], d, s)] /\ Len(w) = Len(r)
  BY <1>1 DEF Stamped
<1> HIDE DEF q
<1>3. Stamped(q, d, s) = [i \in 1 .. (Len(r) + 1) |-> Stamp(q[i], d, s)]
  BY <1>1 DEF Stamped
<1> HIDE DEF w
<1>4. Append(w, Stamp(f, d, s)) = [i \in 1 .. (Len(r) + 1) |-> IF i = Len(r) + 1 THEN Stamp(f, d, s) ELSE w[i]]
  BY <1>1, <1>2
<1>5. \A i \in 1 .. (Len(r) + 1) : Stamp(q[i], d, s) = IF i = Len(r) + 1 THEN Stamp(f, d, s) ELSE w[i]
  BY <1>1, <1>2
<1> QED BY <1>3, <1>4, <1>5 DEF q, w

\* A wire on which there are only frames of a connected link.
TransferOnly(w) == \A i \in 1 .. Len(w) : w[i].type \in DataTypes \cup {"NAK"}

TransferFrames == \A n \in Nodes : TransferOnly(wire[n])

LEMMA TransferFrame ==
  ASSUME NEW n \in Nodes, TypeOK, TransferFrames, wire[n] # << >>
  PROVE  /\ Head(wire[n]).type \in DataTypes \cup {"NAK"}
         /\ \A syn \in {SYN0, SYN1, SYN2, DIS} : Head(wire[n]) # syn
         /\ TransferOnly(Tail(wire[n]))
<1> DEFINE w == wire[n]
<1>1. w \in Seq(Frames) /\ \A i \in 1 .. Len(w) : w[i].type \in DataTypes \cup {"NAK"}
  BY DEF TypeOK, TransferFrames, TransferOnly
<1>2. /\ 1 \in 1 .. Len(w) /\ Head(w) = w[1]
      /\ \A i \in 1 .. Len(Tail(w)) : i + 1 \in 1 .. Len(w) /\ Tail(w)[i] = w[i + 1]
  BY <1>1, HeadTailProperties
<1>3. Head(w).type \in DataTypes \cup {"NAK"} /\ TransferOnly(Tail(w))
  BY <1>1, <1>2 DEF TransferOnly
<1>4. \A syn \in {SYN0, SYN1, SYN2, DIS} : Head(w) # syn
  BY <1>3, SYNsDiffer DEF DataTypes
<1> QED BY <1>3, <1>4

LEMMA TransferConcat ==
  ASSUME NEW w \in Seq(Frames), NEW out \in Seq(Frames), TransferOnly(w), TransferOnly(out)
  PROVE  TransferOnly(w \o out)
<1> DEFINE c == w \o out
<1>1. \A i \in 1 .. Len(c) : (i \in 1 .. Len(w) /\ c[i] = w[i]) \/ \E j \in 1 .. Len(out) : c[i] = out[j]
  BY CatHas
<1> HIDE DEF c
<1> QED BY <1>1 DEF TransferOnly, c

\* What n does to the wires when it takes a frame and sends others.
LEMMA ConsumeDirections ==
  ASSUME TypeOK, NEW n \in Nodes, wire[n] # << >>, NEW out \in Seq(Frames), Consume(n, out),
         NEW types
  PROVE  LET f == Head(wire[n])
             p == Peer(n)
         IN  /\ f.type \in types =>
                  /\ Only(wire[n], types) # << >> /\ Head(Only(wire[n], types)) = f
                  /\ Only(wire[n], types)' = Tail(Only(wire[n], types))
             /\ f.type \notin types => Only(wire[n], types)' = Only(wire[n], types)
             /\ Only(wire[p], types)' = Only(wire[p], types) \o Only(out, types)
             /\ Only(wire[n], types) \in Seq(Frames) /\ Only(wire[p], types) \in Seq(Frames)
<1> DEFINE p == Peer(n)
<1>1. p \in Nodes /\ wire[n] \in Seq(Frames) /\ wire[p] \in Seq(Frames)
  BY TwoNodes DEF TypeOK
<1>2. wire'[n] = Tail(wire[n]) /\ wire'[p] = wire[p] \o out
  BY ConsumeWires DEF TypeOK
<1>3. Only(wire[n], types)' = Only(Tail(wire[n]), types) /\ Only(wire[p], types)' = Only(wire[p] \o out, types)
  BY <1>2 DEF Only
<1>4. Only(wire[p] \o out, types) = Only(wire[p], types) \o Only(out, types)
  BY <1>1, OnlyConcat
<1>5. Only(wire[p], types) \in Seq(Frames)
  BY <1>1, FramesMade, OnlyAppend
<1> QED BY <1>1, <1>3, <1>4, <1>5, OnlyTail

-----------------------------------------------------------------------------
\* Frames sent that are of no interest to a direction, or that are a NAK.
LEMMA StampedWithNAK ==
  ASSUME NEW r \in Seq(Frames), NEW d \in Nat, NEW s \in Seqs
  PROVE  Stamped(r \o <<NAK(s)>>, d, s) = Append(Stamped(r, d, s), [seq |-> s, at |-> d])
<1>1. r \o <<NAK(s)>> = Append(r, NAK(s))
  BY FramesMade
<1>2. Stamp(NAK(s), d, s) = [seq |-> s, at |-> d]
  <2>1. (s - s) % SeqRange = 0 /\ s \in Int
    BY SeqRangePositive DEF Seqs
  <2>2. NAK(s).seq = s /\ d - 0 = d
    BY DEF NAK
  <2> QED BY <2>1, <2>2 DEF Stamp
<1>3. Stamped(Append(r, NAK(s)), d, s) = Append(Stamped(r, d, s), Stamp(NAK(s), d, s))
  BY StampedAppend
<1> QED BY <1>1, <1>2, <1>3

\* What each direction sees when n takes a frame and sends others.
LEMMA TakenFrame ==
  ASSUME TypeOK, NEW n \in Nodes, wire[n] # << >>, NEW out \in Seq(Frames), Consume(n, out),
         rxSeq'[Peer(n)] = rxSeq[Peer(n)], delivered'[Peer(n)] = delivered[Peer(n)]
  PROVE  LET f == Head(wire[n])
             p == Peer(n)
         IN  /\ f.type \in DataTypes =>
                  /\ DataFrom(p) # << >> /\ Head(DataFrom(p)) = f /\ DataFrom(p)' = Tail(DataFrom(p))
                  /\ NaksTo(n)' = NaksTo(n)
             /\ f.type = "NAK" =>
                  /\ NaksTo(n) # << >> /\ Head(NaksTo(n)).seq = f.seq /\ NaksTo(n)' = Tail(NaksTo(n))
                  /\ DataFrom(p)' = DataFrom(p)
             /\ DataFrom(n)' = DataFrom(n) \o Only(out, DataTypes)
             /\ Only(out, DataTypes) = << >> => DataFrom(n)' = DataFrom(n)
             /\ NaksTo(p)' = Stamped(Only(wire[p], {"NAK"}) \o Only(out, {"NAK"}), Len(delivered'[n]), rxSeq'[n])
             /\ rxSeq'[n] = rxSeq[n] /\ delivered'[n] = delivered[n] =>
                  /\ Only(out, {"NAK"}) = << >> => NaksTo(p)' = NaksTo(p)
                  /\ Only(out, {"NAK"}) = <<NAK(rxSeq[n])>> =>
                       NaksTo(p)' = Append(NaksTo(p), [seq |-> rxSeq[n], at |-> Len(delivered[n])])
<1> DEFINE f == Head(wire[n])
           p == Peer(n)
           r == Only(wire[n], {"NAK"})
           q == Only(wire[p], {"NAK"})
           d == Len(delivered[p])
           s == rxSeq[p]
<1>1. p \in Nodes /\ Peer(p) = n
  BY TwoNodes
<1>2. /\ f.type \in DataTypes =>
           DataFrom(p) # << >> /\ Head(DataFrom(p)) = f /\ DataFrom(p)' = Tail(DataFrom(p))
      /\ f.type \notin DataTypes => DataFrom(p)' = DataFrom(p)
      /\ DataFrom(n)' = DataFrom(n) \o Only(out, DataTypes) /\ DataFrom(n) \in Seq(Frames)
  <2> DEFINE a == Only(wire[n], DataTypes)
             b == Only(wire[p], DataTypes)
  <2>1. /\ f.type \in DataTypes => a # << >> /\ Head(a) = f /\ a' = Tail(a)
        /\ f.type \notin DataTypes => a' = a
        /\ b' = b \o Only(out, DataTypes) /\ b \in Seq(Frames)
    BY ConsumeDirections
  <2>2. DataFrom(n) = b /\ DataFrom(p) = Only(wire[Peer(p)], DataTypes)
    BY DEF DataFrom, DataTypes
  <2>3. DataFrom(n)' = b' /\ DataFrom(p)' = Only(wire[Peer(p)], DataTypes)'
    BY DEF DataFrom, DataTypes
  <2>4. DataFrom(p) = a /\ DataFrom(p)' = a'
    BY <1>1, <2>2, <2>3
  <2> HIDE DEF a, b
  <2> QED BY <2>1, <2>2, <2>3, <2>4
<1>3. Only(out, DataTypes) = << >> => DataFrom(n)' = DataFrom(n)
  BY <1>2
<1>4. /\ f.type = "NAK" => r # << >> /\ Head(r) = f /\ r' = Tail(r)
      /\ f.type # "NAK" => r' = r
      /\ q' = q \o Only(out, {"NAK"})
      /\ r \in Seq(Frames) /\ q \in Seq(Frames)
  BY ConsumeDirections
<1>5. NaksTo(n) = Stamped(r, d, s) /\ NaksTo(p) = Stamped(q, Len(delivered[n]), rxSeq[n])
  BY <1>1, NaksAreStamped
<1>6. NaksTo(n)' = Stamped(r', d, s) /\ NaksTo(p)' = Stamped(q', Len(delivered'[n]), rxSeq'[n])
  <2>1. NaksTo(n)' = Stamped(r', Len(delivered'[p]), rxSeq'[p]) /\ NaksTo(p)' = Stamped(q', Len(delivered'[Peer(p)]), rxSeq'[Peer(p)])
    BY DEF NaksTo, Stamped, Stamp
  <2> QED BY <1>1, <2>1
<1> HIDE DEF f, p, r, q, d, s
<1>7. f.type = "NAK" => /\ NaksTo(n) # << >> /\ Head(NaksTo(n)).seq = f.seq
                        /\ NaksTo(n)' = Tail(NaksTo(n))
  <2>1. f.type = "NAK" => /\ Stamped(r, d, s) # << >> /\ Head(Stamped(r, d, s)) = Stamp(f, d, s)
                          /\ Stamped(Tail(r), d, s) = Tail(Stamped(r, d, s))
    BY <1>4, StampedTail
  <2>2. Stamp(f, d, s).seq = f.seq
    BY DEF Stamp
  <2> QED BY <1>4, <1>5, <1>6, <2>1, <2>2
<1>8. f.type # "NAK" => NaksTo(n)' = NaksTo(n)
  BY <1>4, <1>5, <1>6
<1>9. ASSUME rxSeq'[n] = rxSeq[n], delivered'[n] = delivered[n]
      PROVE  /\ Only(out, {"NAK"}) = << >> => NaksTo(p)' = NaksTo(p)
             /\ Only(out, {"NAK"}) = <<NAK(rxSeq[n])>> =>
                  NaksTo(p)' = Append(NaksTo(p), [seq |-> rxSeq[n], at |-> Len(delivered[n])])
  <2>1. q \o << >> = q
    BY <1>4
  <2>2. Len(delivered[n]) \in Nat /\ rxSeq[n] \in Seqs
    BY DEF TypeOK
  <2> QED BY <1>4, <1>5, <1>6, <1>9, <2>1, <2>2, StampedWithNAK
<1>10. "NAK" \notin DataTypes
  BY DEF DataTypes
<1> QED BY <1>2, <1>3, <1>4, <1>6, <1>7, <1>8, <1>9, <1>10 DEF f, p, q

\* A direction makes a step of its own, or none.
Transfers(n) == Direction(n)!Next \/ UNCHANGED Direction(n)!vars

LEMMA DirectionIdle ==
  ASSUME NEW n \in Nodes, txSeq'[n] = txSeq[n], history'[n] = history[n], rxSeq'[Peer(n)] = rxSeq[Peer(n)],
         DataFrom(n)' = DataFrom(n), NaksTo(n)' = NaksTo(n), sent'[n] = sent[n],
         delivered'[Peer(n)] = delivered[Peer(n)]
  PROVE  Transfers(n)
  BY DEF Transfers, Direction!vars

\* The frames that take part in no direction, or in one.
LEMMA FramesSeen ==
  /\ \A types : Only(<< >>, types) = << >>
  /\ \A s \in Seqs : Only(<<NAK(s)>>, DataTypes) = << >> /\ Only(<<NAK(s)>>, {"NAK"}) = <<NAK(s)>>
<1>1. \A s \in Seqs : /\ <<NAK(s)>> \in Seq(Frames) /\ Len(<<NAK(s)>>) = 1
                      /\ \A i \in 1 .. 1 : <<NAK(s)>>[i].type = "NAK"
  BY FramesMade, SYNsDiffer
<1>2. \A s \in Seqs : Only(<<NAK(s)>>, DataTypes) = << >>
  BY <1>1, OnlyOrNone DEF DataTypes
<1>3. ASSUME NEW s \in Seqs PROVE Only(<<NAK(s)>>, {"NAK"}) = <<NAK(s)>>
  <2> DEFINE w == <<NAK(s)>>
  <2>1. w \in Seq(Frames) /\ \A i \in 1 .. Len(w) : w[i].type \in {"NAK"}
    BY <1>1
  <2> HIDE DEF w
  <2>2. Only(w, {"NAK"}) = w
    BY <2>1, OnlyOrNone
  <2> QED BY <2>2 DEF w
<1> QED BY <1>2, <1>3, OnlyAppend

\* What each direction sees when a frame is put on the wire to the peer of n.
LEMMA SentFrame ==
  ASSUME TypeOK, NEW n \in Nodes, NEW g \in Frames,
         wire' = [wire EXCEPT ![Peer(n)] = Append(@, g)], UNCHANGED <<rxSeq, delivered>>
  PROVE  LET p == Peer(n)
         IN  /\ DataFrom(p)' = DataFrom(p) /\ NaksTo(n)' = NaksTo(n)
             /\ g.type \in DataTypes =>
                  DataFrom(n)' = Append(DataFrom(n), g) /\ NaksTo(p)' = NaksTo(p)
             /\ g = NAK(rxSeq[n]) =>
                  /\ DataFrom(n)' = DataFrom(n)
                  /\ NaksTo(p)' = Append(NaksTo(p), [seq |-> rxSeq[n], at |-> Len(delivered[n])])
<1> DEFINE p == Peer(n)
           q == Only(wire[p], {"NAK"})
           b == Only(wire[p], DataTypes)
<1>1. p \in Nodes /\ p # n /\ Peer(p) = n /\ wire[p] \in Seq(Frames)
      /\ Len(delivered[n]) \in Nat /\ rxSeq[n] \in Seqs
  BY TwoNodes DEF TypeOK
<1>2. wire'[n] = wire[n] /\ wire'[p] = Append(wire[p], g) /\ rxSeq' = rxSeq /\ delivered' = delivered
  BY <1>1 DEF TypeOK
<1>3. /\ q \in Seq(Frames) /\ b \in Seq(Frames)
      /\ Only(Append(wire[p], g), {"NAK"}) = Extended(q, g, {"NAK"})
      /\ Only(Append(wire[p], g), DataTypes) = Extended(b, g, DataTypes)
  BY <1>1, OnlyAppend
<1>4. DataFrom(n) = b /\ DataFrom(p) = Only(wire[n], DataTypes)
  BY <1>1 DEF DataFrom, DataTypes
<1>5. DataFrom(n)' = Only(wire'[p], DataTypes) /\ DataFrom(p)' = Only(wire'[n], DataTypes)
  <2>1. DataFrom(p)' = Only(wire'[Peer(p)], DataTypes)
    BY DEF DataFrom, DataTypes, Only
  <2>2. DataFrom(n)' = Only(wire'[p], DataTypes)
    BY DEF DataFrom, DataTypes, Only
  <2> QED BY <1>1, <2>1, <2>2
<1>6. NaksTo(p) = Stamped(q, Len(delivered[n]), rxSeq[n])
  BY <1>1, NaksAreStamped
<1>7. NaksTo(p)' = Stamped(Only(wire'[p], {"NAK"}), Len(delivered[n]), rxSeq[n]) /\ NaksTo(n)' = NaksTo(n)
  <2>1. NaksTo(n)' = Stamped(Only(wire'[n], {"NAK"}), Len(delivered'[p]), rxSeq'[p])
    BY DEF NaksTo, Stamped, Stamp, Only
  <2>2. NaksTo(p)' = Stamped(Only(wire'[p], {"NAK"}), Len(delivered'[Peer(p)]), rxSeq'[Peer(p)])
    BY DEF NaksTo, Stamped, Stamp, Only
  <2>3. NaksTo(n) = Stamped(Only(wire[n], {"NAK"}), Len(delivered[p]), rxSeq[p])
    BY NaksAreStamped
  <2> QED BY <1>1, <1>2, <2>1, <2>2, <2>3
<1> HIDE DEF p, q, b
<1>8. g.type \in DataTypes => DataFrom(n)' = Append(DataFrom(n), g) /\ NaksTo(p)' = NaksTo(p)
  BY <1>2, <1>3, <1>4, <1>5, <1>6, <1>7 DEF Extended, DataTypes
<1>9. ASSUME g = NAK(rxSeq[n])
      PROVE  /\ DataFrom(n)' = DataFrom(n)
             /\ NaksTo(p)' = Append(NaksTo(p), [seq |-> rxSeq[n], at |-> Len(delivered[n])])
  <2>1. g.type = "NAK"
    BY <1>9, SYNsDiffer
  <2>2. DataFrom(n)' = DataFrom(n)
    BY <1>2, <1>3, <1>4, <1>5, <2>1 DEF Extended, DataTypes
  <2>3. NaksTo(p)' = Stamped(q \o <<g>>, Len(delivered[n]), rxSeq[n])
    <3>1. Append(q, g) = q \o <<g>>
      BY <1>3
    <3> QED BY <1>2, <1>3, <1>7, <2>1, <3>1 DEF Extended
  <2>4. Stamped(q \o <<NAK(rxSeq[n])>>, Len(delivered[n]), rxSeq[n]) =
          Append(Stamped(q, Len(delivered[n]), rxSeq[n]), [seq |-> rxSeq[n], at |-> Len(delivered[n])])
    BY <1>1, <1>3, StampedWithNAK
  <2> QED BY <1>6, <1>9, <2>2, <2>3, <2>4
<1>10. DataFrom(p)' = DataFrom(p)
  BY <1>2, <1>4, <1>5
<1> QED BY <1>7, <1>8, <1>9, <1>10 DEF p

\* A packet that is written: the writer's direction takes its step.
LEMMA WriteDirections ==
  ASSUME TypeOK, NEW n \in Nodes, WritePacket(n), UsersKeepWindow
  PROVE  Transfers(n) /\ Transfers(Peer(n))
<1> DEFINE p == Peer(n)
           g == DataFrame("USR", txSeq[n], sent[n] + 1)
<1>1. p \in Nodes /\ p # n /\ Peer(p) = n
  BY TwoNodes
<1>2. g \in Frames /\ g.type \in DataTypes
  <2>1. sent[n] + 1 \in Packets /\ txSeq[n] \in Seqs
    BY BoundsAssumption DEF TypeOK, WritePacket, Packets
  <2> QED BY <2>1, FramesMade, SYNsDiffer DEF DataTypes
<1>3. /\ sent'[n] = sent[n] + 1 /\ sent'[p] = sent[p]
      /\ history'[n] = PushBack(history[n], sent[n] + 1) /\ history'[p] = history[p]
      /\ txSeq'[n] = nextSeq(txSeq[n]) /\ txSeq'[p] = txSeq[p]
      /\ wire' = [wire EXCEPT ![p] = Append(@, g)]
      /\ rxSeq' = rxSeq /\ delivered' = delivered
  BY <1>1 DEF WritePacket, TypeOK
<1>4. Direction(n)!WindowOpen
  <2>1. sent'[n] # sent[n]
    BY <1>3 DEF TypeOK
  <2> QED BY <2>1 DEF UsersKeepWindow
<1>5. /\ DataFrom(p)' = DataFrom(p) /\ NaksTo(n)' = NaksTo(n)
      /\ DataFrom(n)' = Append(DataFrom(n), g) /\ NaksTo(p)' = NaksTo(p)
  BY <1>2, <1>3, SentFrame
<1>6. Transfers(p)
  BY <1>1, <1>3, <1>5, DirectionIdle
<1>7. Direction(n)!WritePacket
  BY <1>3, <1>4, <1>5 DEF Direction!WritePacket, Direction!PushBack, Direction!nextSeq, Direction!DataFrame,
                          PushBack, nextSeq, DataFrame
<1> QED BY <1>6, <1>7 DEF Transfers, Direction!Next

\* A frame that makes its receiver do nothing but, perhaps, send a NAK: a
\* frame of either kind is lost, or damaged, or is out of order, or is a NAK
\* for the packet to be written next.
LEMMA DroppedFrameDirections ==
  ASSUME TypeOK, NEW n \in Nodes, TransferFrames, wire[n] # << >>,
         NEW out \in {<< >>, <<NAK(rxSeq[n])>>}, Consume(n, out), UNCHANGED <<numbers, sent, delivered>>
  PROVE  Transfers(n) /\ Transfers(Peer(n))
<1> DEFINE p == Peer(n)
           f == Head(wire[n])
<1>1. p \in Nodes /\ Peer(p) = n /\ rxSeq[n] \in Seqs
  BY TwoNodes DEF TypeOK
<1>2. out \in Seq(Frames) /\ rxSeq' = rxSeq /\ txSeq' = txSeq /\ history' = history
      /\ sent' = sent /\ delivered' = delivered
  <2>1. << >> \in Seq(Frames) /\ <<NAK(rxSeq[n])>> \in Seq(Frames)
    BY <1>1, FramesMade
  <2> QED BY <2>1 DEF numbers
<1>3. Only(out, DataTypes) = << >> /\ Only(out, {"NAK"}) = out
  BY <1>1, FramesSeen
<1>4. f.type \in DataTypes \/ f.type = "NAK"
  BY TransferFrame
<1>5. /\ f.type \in DataTypes =>
           DataFrom(p) # << >> /\ DataFrom(p)' = Tail(DataFrom(p)) /\ NaksTo(n)' = NaksTo(n)
      /\ f.type = "NAK" =>
           NaksTo(n) # << >> /\ NaksTo(n)' = Tail(NaksTo(n)) /\ DataFrom(p)' = DataFrom(p)
      /\ DataFrom(n)' = DataFrom(n)
      /\ out = << >> => NaksTo(p)' = NaksTo(p)
      /\ out # << >> => NaksTo(p)' = Append(NaksTo(p), [seq |-> rxSeq[n], at |-> Len(delivered[n])])
  BY <1>2, <1>3, TakenFrame
<1> HIDE DEF p, f
<1>6. Transfers(n)
  <2>1. CASE f.type \in DataTypes
    BY <1>2, <1>5, <2>1, DirectionIdle
  <2>2. CASE f.type = "NAK"
    <3>1. Direction(n)!LoseNAK
      BY <1>2, <1>5, <2>2 DEF Direction!LoseNAK
    <3> QED BY <3>1 DEF Transfers, Direction!Next, Direction!Fault
  <2> QED BY <1>4, <2>1, <2>2
<1>7. Transfers(p)
  <2>1. CASE out = << >> /\ f.type \in DataTypes
    <3>1. Direction(p)!LoseData
      BY <1>1, <1>2, <1>5, <2>1 DEF Direction!LoseData
    <3> QED BY <3>1 DEF Transfers, Direction!Next, Direction!Fault
  <2>2. CASE out = << >> /\ f.type = "NAK"
    BY <1>1, <1>2, <1>5, <2>2, DirectionIdle
  <2>3. CASE out # << >>
    <3>1. Direction(p)!RejectBadFrame
      BY <1>1, <1>2, <1>4, <1>5, <2>3 DEF Direction!RejectBadFrame, Direction!NakFrame
    <3> QED BY <3>1 DEF Transfers, Direction!Next, Direction!Fault
  <2> QED BY <1>4, <2>1, <2>2, <2>3
<1> QED BY <1>6, <1>7 DEF p

\* Noise that looks like a frame to n.
LEMMA NoiseDirections ==
  ASSUME TypeOK, NEW n \in Nodes, wire' = [wire EXCEPT ![Peer(n)] = Append(@, NAK(rxSeq[n]))],
         UNCHANGED <<numbers, sent, delivered>>
  PROVE  Transfers(n) /\ Transfers(Peer(n))
<1> DEFINE p == Peer(n)
<1>1. p \in Nodes /\ Peer(p) = n /\ NAK(rxSeq[n]) \in Frames
  BY TwoNodes, FramesMade DEF TypeOK
<1>2. rxSeq' = rxSeq /\ txSeq' = txSeq /\ history' = history /\ sent' = sent /\ delivered' = delivered
  BY DEF numbers
<1>3. /\ DataFrom(p)' = DataFrom(p) /\ NaksTo(n)' = NaksTo(n) /\ DataFrom(n)' = DataFrom(n)
      /\ NaksTo(p)' = Append(NaksTo(p), [seq |-> rxSeq[n], at |-> Len(delivered[n])])
  BY <1>1, <1>2, SentFrame
<1> HIDE DEF p
<1>4. Transfers(n)
  BY <1>2, <1>3, DirectionIdle DEF p
<1>5. Direction(p)!RejectBadFrame
  BY <1>1, <1>2, <1>3 DEF Direction!RejectBadFrame, Direction!NakFrame
<1> QED BY <1>4, <1>5 DEF Transfers, Direction!Next, Direction!Fault, p

\* A NAK is answered: the direction it belongs to takes its step.
LEMMA AnswerDirections ==
  ASSUME TypeOK, NEW n \in Nodes, TransferFrames, AnswerNAK(n)
  PROVE  /\ Transfers(n) /\ Transfers(Peer(n))
         /\ \E out \in Seq(Frames) : Consume(n, out) /\ TransferOnly(out)
<1> DEFINE p == Peer(n)
           f == Head(wire[n])
           kept == KeptHistory(history[n], txSeq[n], f.seq)
           more == Retransmissions(kept, f.seq)
<1>1. p \in Nodes /\ p # n /\ Peer(p) = n /\ wire[n] # << >>
  BY TwoNodes DEF AnswerNAK, Arrives
<1>2. f.type = "NAK" /\ f.seq \in Seqs /\ f.seq # txSeq[n]
  BY <1>1, ArrivingFrame DEF TypeOK, AnswerNAK, Arrives
<1>3. more \in Seq(Frames) /\ \A i \in 1 .. Len(more) : more[i].type = "RTX"
  <2>1. history[n] \in Seq(Packets) /\ Len(history[n]) <= HistoryCapacity /\ txSeq[n] \in Seqs
    BY DEF TypeOK, Packets
  <2>2. kept \in Seq(Packets) /\ more \in Seq(Frames)
    BY <1>2, <2>1, RetransmissionTypes
  <2> HIDE DEF kept
  <2>3. more = [i \in 1 .. Len(kept) |-> DataFrame("RTX", (f.seq + i - 1) % SeqRange, kept[i])]
    BY DEF Retransmissions
  <2>4. Len(kept) \in Nat
    BY <2>2
  <2>5. Len(more) = Len(kept)
    BY <2>3, <2>4
  <2> QED BY <2>2, <2>3, <2>5, SYNsDiffer
<1>4. /\ history'[n] = kept /\ history'[p] = history[p]
      /\ txSeq'[n] = SeqAfter(kept, f.seq) /\ txSeq'[p] = txSeq[p]
      /\ Consume(n, << >> \o more)
      /\ rxSeq' = rxSeq /\ sent' = sent /\ delivered' = delivered
  BY <1>1 DEF AnswerNAK, ConsumeAndTransmitHistoryFrom, users, TypeOK
<1>5. Consume(n, more)
  <2>1. << >> \o more = more
    BY <1>3
  <2> QED BY <1>4, <2>1
<1>6. Only(more, DataTypes) = more /\ Only(more, {"NAK"}) = << >>
  BY <1>3, OnlyOrNone DEF DataTypes
<1> HIDE DEF more
<1>7. /\ NaksTo(n) # << >> /\ Head(NaksTo(n)).seq = f.seq /\ NaksTo(n)' = Tail(NaksTo(n))
      /\ DataFrom(p)' = DataFrom(p) /\ DataFrom(n)' = DataFrom(n) \o more
      /\ NaksTo(p)' = NaksTo(p)
  BY <1>1, <1>2, <1>3, <1>4, <1>5, <1>6, TakenFrame
<1> HIDE DEF f, p, kept
<1>8. Transfers(p)
  BY <1>1, <1>4, <1>7, DirectionIdle
<1>9. Direction(n)!TransmitHistoryFromSeq(f.seq)
  BY <1>4, <1>7 DEF Direction!TransmitHistoryFromSeq, kept, more, Direction!KeptHistory, Direction!Underrun,
     Direction!FastForward, Direction!Retransmissions, Direction!DataFrame, Direction!SeqAfter,
     KeptHistory, Underrun, FastForward, Retransmissions, DataFrame, SeqAfter
<1>10. Direction(n)!AnswerNAK
  BY <1>2, <1>4, <1>7, <1>9 DEF Direction!AnswerNAK, p
<1>11. TransferOnly(more)
  BY <1>3 DEF TransferOnly, DataTypes
<1> QED BY <1>3, <1>5, <1>8, <1>10, <1>11 DEF Transfers, Direction!Next, Direction!HandleNAK, p

\* A NAK in flight keeps the position it names while the receiver passes on.
LEMMA StampLater ==
  ASSUME NEW f, f.seq \in Seqs, NEW d \in Nat, NEW s \in Seqs, (s - f.seq) % SeqRange < SeqRange - 1
  PROVE  Stamp(f, d + 1, nextSeq(s)) = Stamp(f, d, s)
<1> DEFINE q == f.seq
           k == (s - q) % SeqRange
           m == (s - q) \div SeqRange
<1>1. q \in Int /\ s \in Int /\ s - q \in Int /\ SeqRange \in Nat
  BY SeqRangePositive DEF Seqs
<1>2. k \in Seqs /\ m \in Int /\ s - q = SeqRange * m + k
  BY <1>1, DivMod
<1>3. (nextSeq(s) - q) % SeqRange = ((s + 1) - q) % SeqRange
  <2> DEFINE a == s + 1
             c == 0 - q
  <2>0. a \in Int /\ c \in Int
    BY <1>1
  <2> HIDE DEF a, c
  <2>1. ((a % SeqRange) + c) % SeqRange = (a + c) % SeqRange
    BY <2>0, ModSum
  <2> USE DEF a, c
  <2>2. (s + 1) % SeqRange \in Int
    BY <1>1, DivMod DEF Seqs
  <2>3. ((s + 1) % SeqRange) + (0 - q) = nextSeq(s) - q /\ (s + 1) + (0 - q) = (s + 1) - q
    BY <1>1, <2>2 DEF nextSeq
  <2> QED BY <2>1, <2>3
<1> HIDE DEF k, m, q
<1>4. k + 1 \in Seqs
  BY <1>1, <1>2 DEF Seqs, k, q
<1>5. (SeqRange * m + (k + 1)) % SeqRange = k + 1
  BY <1>2, <1>4, ModUnique
<1>6. (s + 1) - q = SeqRange * m + (k + 1)
  <2> DEFINE a == SeqRange * m
  <2>1. a \in Int /\ k \in Int
    BY <1>1, <1>2 DEF Seqs
  <2>2. s - q = a + k
    BY <1>2
  <2> HIDE DEF a
  <2>3. (s + 1) - q = a + (k + 1)
    BY <1>1, <2>1, <2>2
  <2> QED BY <2>3 DEF a
<1>7. (nextSeq(s) - q) % SeqRange = k + 1
  BY <1>3, <1>5, <1>6
<1>8. (d + 1) - (k + 1) = d - k
  BY <1>2 DEF Seqs
<1> QED BY <1>7, <1>8 DEF Stamp, k, q

(***************************************************************************)
(* The two directions as instances of what is proved about SFPTransfer.    *)
(***************************************************************************)
FirstNode == CHOOSE n \in Nodes : TRUE
SecondNode == Peer(FirstNode)

First == INSTANCE SFPTransferProofs WITH
  Window <- HistoryCapacity, txSeq <- txSeq[FirstNode], history <- history[FirstNode],
  rxSeq <- rxSeq[Peer(FirstNode)], data <- DataFrom(FirstNode), naks <- NaksTo(FirstNode),
  sent <- sent[FirstNode], delivered <- delivered[Peer(FirstNode)]

Second == INSTANCE SFPTransferProofs WITH
  Window <- HistoryCapacity, txSeq <- txSeq[SecondNode], history <- history[SecondNode],
  rxSeq <- rxSeq[Peer(SecondNode)], data <- DataFrom(SecondNode), naks <- NaksTo(SecondNode),
  sent <- sent[SecondNode], delivered <- delivered[Peer(SecondNode)]

LEMMA FirstOrSecond ==
  /\ FirstNode \in Nodes /\ SecondNode \in Nodes
  /\ \A n \in Nodes : n = FirstNode \/ n = SecondNode
<1>1. \E n \in Nodes : TRUE
  BY NodesAssumption
<1>2. FirstNode \in Nodes
  BY <1>1 DEF FirstNode
<1> QED BY <1>2, TwoNodes DEF SecondNode

\* The history is a window the history can hold.
LEMMA WholeHistory == HistoryCapacity \in 1 .. HistoryCapacity
  BY HistoryAssumption, SeqRangePositive

\* A direction is the instance that has its node.
LEMMA FirstInvariant ==
  (Direction(FirstNode)!IndInv <=> First!IndInv) /\ (Direction(FirstNode)!IndInv' <=> First!IndInv')
  BY DEF Direction!IndInv, Direction!TypeOK, Direction!Numbering, Direction!DeliveredInOrder,
         Direction!HistoryCovers, Direction!NaksOrdered, Direction!WindowKept, Direction!DataUnambiguous,
         Direction!Confirmed, Direction!Seqs, Direction!Frames, Direction!Naks, First!IndInv, First!TypeOK,
         First!Numbering, First!DeliveredInOrder, First!HistoryCovers, First!NaksOrdered, First!WindowKept,
         First!DataUnambiguous, First!Confirmed, First!Seqs, First!Frames, First!Naks

LEMMA FirstSteps == Transfers(FirstNode) => First!Next \/ UNCHANGED First!vars
  BY DEF Transfers, Direction!Next, Direction!WritePacket, Direction!WindowOpen, Direction!Confirmed,
         Direction!PushBack, Direction!DataFrame, Direction!nextSeq, Direction!HandleNAK, Direction!IgnoreNAK,
         Direction!AnswerNAK, Direction!TransmitHistoryFromSeq, Direction!KeptHistory, Direction!Underrun,
         Direction!FastForward, Direction!Retransmissions, Direction!SeqAfter, Direction!HandleUSR,
         Direction!Deliver, Direction!RejectOutOfOrder, Direction!IgnoreRetransmission, Direction!NakFrame,
         Direction!Fault, Direction!LoseData, Direction!LoseNAK, Direction!RejectBadFrame, Direction!vars,
         First!Next, First!WritePacket, First!WindowOpen, First!Confirmed, First!PushBack, First!DataFrame,
         First!nextSeq, First!HandleNAK, First!IgnoreNAK, First!AnswerNAK, First!TransmitHistoryFromSeq,
         First!KeptHistory, First!Underrun, First!FastForward, First!Retransmissions, First!SeqAfter,
         First!HandleUSR, First!Deliver, First!RejectOutOfOrder, First!IgnoreRetransmission, First!NakFrame,
         First!Fault, First!LoseData, First!LoseNAK, First!RejectBadFrame, First!vars

LEMMA SecondInvariant ==
  (Direction(SecondNode)!IndInv <=> Second!IndInv) /\ (Direction(SecondNode)!IndInv' <=> Second!IndInv')
  BY DEF Direction!IndInv, Direction!TypeOK, Direction!Numbering, Direction!DeliveredInOrder,
         Direction!HistoryCovers, Direction!NaksOrdered, Direction!WindowKept, Direction!DataUnambiguous,
         Direction!Confirmed, Direction!Seqs, Direction!Frames, Direction!Naks, Second!IndInv, Second!TypeOK,
         Second!Numbering, Second!DeliveredInOrder, Second!HistoryCovers, Second!NaksOrdered, Second!WindowKept,
         Second!DataUnambiguous, Second!Confirmed, Second!Seqs, Second!Frames, Second!Naks

LEMMA SecondSteps == Transfers(SecondNode) => Second!Next \/ UNCHANGED Second!vars
  BY DEF Transfers, Direction!Next, Direction!WritePacket, Direction!WindowOpen, Direction!Confirmed,
         Direction!PushBack, Direction!DataFrame, Direction!nextSeq, Direction!HandleNAK, Direction!IgnoreNAK,
         Direction!AnswerNAK, Direction!TransmitHistoryFromSeq, Direction!KeptHistory, Direction!Underrun,
         Direction!FastForward, Direction!Retransmissions, Direction!SeqAfter, Direction!HandleUSR,
         Direction!Deliver, Direction!RejectOutOfOrder, Direction!IgnoreRetransmission, Direction!NakFrame,
         Direction!Fault, Direction!LoseData, Direction!LoseNAK, Direction!RejectBadFrame, Direction!vars,
         Second!Next, Second!WritePacket, Second!WindowOpen, Second!Confirmed, Second!PushBack, Second!DataFrame,
         Second!nextSeq, Second!HandleNAK, Second!IgnoreNAK, Second!AnswerNAK, Second!TransmitHistoryFromSeq,
         Second!KeptHistory, Second!Underrun, Second!FastForward, Second!Retransmissions, Second!SeqAfter,
         Second!HandleUSR, Second!Deliver, Second!RejectOutOfOrder, Second!IgnoreRetransmission, Second!NakFrame,
         Second!Fault, Second!LoseData, Second!LoseNAK, Second!RejectBadFrame, Second!vars

\* What is proved about every transfer holds for the direction of any node.
LEMMA DirectionNext ==
  ASSUME NEW n \in Nodes, Direction(n)!IndInv, Transfers(n)
  PROVE  Direction(n)!IndInv'
<1>1. CASE n = FirstNode
  <2>1. Direction(FirstNode)!IndInv /\ Transfers(FirstNode)
    BY <1>1
  <2>2. First!IndInv'
    BY <2>1, FirstInvariant, FirstSteps, First!NextInv, SeqRangeAssumption, HistoryAssumption, WholeHistory
  <2>3. Direction(FirstNode)!IndInv'
    BY <2>2, FirstInvariant
  <2> QED BY <1>1, <2>3
<1>2. CASE n = SecondNode
  <2>1. Direction(SecondNode)!IndInv /\ Transfers(SecondNode)
    BY <1>2
  <2>2. Second!IndInv'
    BY <2>1, SecondInvariant, SecondSteps, Second!NextInv, SeqRangeAssumption, HistoryAssumption, WholeHistory
  <2>3. Direction(SecondNode)!IndInv'
    BY <2>2, SecondInvariant
  <2> QED BY <1>2, <2>3
<1> QED BY <1>1, <1>2, FirstOrSecond

\* A frame that is accepted carries a packet that was written.
LEMMA AcceptedInDirection ==
  ASSUME NEW n \in Nodes, Direction(n)!IndInv, DataFrom(n) # << >>,
         Head(DataFrom(n)).seq = rxSeq[Peer(n)]
  PROVE  Len(delivered[Peer(n)]) < sent[n]
<1>1. CASE n = FirstNode
  <2>1. First!IndInv /\ DataFrom(FirstNode) # << >> /\ Head(DataFrom(FirstNode)).seq = rxSeq[Peer(FirstNode)]
    BY <1>1, FirstInvariant
  <2>2. Len(delivered[Peer(FirstNode)]) < sent[FirstNode]
    BY <2>1, First!AcceptedIsNext, SeqRangeAssumption, HistoryAssumption, WholeHistory
  <2> QED BY <1>1, <2>2
<1>2. CASE n = SecondNode
  <2>1. Second!IndInv /\ DataFrom(SecondNode) # << >> /\ Head(DataFrom(SecondNode)).seq = rxSeq[Peer(SecondNode)]
    BY <1>2, SecondInvariant
  <2>2. Len(delivered[Peer(SecondNode)]) < sent[SecondNode]
    BY <2>1, Second!AcceptedIsNext, SeqRangeAssumption, HistoryAssumption, WholeHistory
  <2> QED BY <1>2, <2>2
<1> QED BY <1>1, <1>2, FirstOrSecond

\* A NAK in flight names one of the last positions its sender has passed, and
\* the next one still leaves it among them.
LEMMA NaksRecent ==
  ASSUME TypeOK, NEW n \in Nodes, Direction(n)!IndInv, Len(delivered[Peer(n)]) < sent[n],
         NEW i \in 1 .. Len(Only(wire[n], {"NAK"}))
  PROVE  LET f == Only(wire[n], {"NAK"})[i]
         IN  f.seq \in Seqs /\ (rxSeq[Peer(n)] - f.seq) % SeqRange < SeqRange - 1
<1> DEFINE p == Peer(n)
           r == Only(wire[n], {"NAK"})
           f == r[i]
           d == Len(delivered[p])
           w == NaksTo(n)
           k == (rxSeq[p] - f.seq) % SeqRange
<1>1. p \in Nodes /\ wire[n] \in Seq(Frames) /\ d \in Nat /\ rxSeq[p] \in Seqs /\ sent[n] \in Nat
  BY TwoNodes, BoundsAssumption DEF TypeOK
<1>2. r \in Seq(Frames) /\ f.type = "NAK"
  <2>1. r \in Seq(Frames)
    BY <1>1, FramesMade, OnlyAppend
  <2> QED BY <1>1, <2>1, OnlyOrNone
<1>3. f.seq \in Seqs
  <2>1. f \in Frames
    BY <1>2, ElementOfSeq
  <2> QED BY <1>2, <2>1 DEF Frames, SYN0, SYN1, SYN2, DIS, Remnant
<1>4. Len(r) \in Nat /\ w = Stamped(r, d, rxSeq[p])
  BY <1>2, NaksAreStamped
<1> HIDE DEF r
<1>5. Len(w) = Len(r) /\ w[i] = Stamp(f, d, rxSeq[p]) /\ 1 \in 1 .. Len(r)
  BY <1>4 DEF Stamped, r
<1>6. w[i].at = d - k
  BY <1>5 DEF Stamp
<1> HIDE DEF p, f, d, w, k
<1>7. Direction(n)!NaksOrdered /\ Direction(n)!WindowKept /\ Direction(n)!TypeOK
  BY DEF Direction!IndInv
<1>8. w # << >> /\ Head(w) = w[1] /\ w[1].at <= w[i].at /\ w[1].at \in Nat /\ w[i].at \in Nat
  <2>1. i \in 1 .. Len(w) /\ 1 \in 1 .. Len(w)
    BY <1>5 DEF r
  <2>2. w[1].at <= w[i].at
    BY <1>7, <2>1 DEF Direction!NaksOrdered, w
  <2>3. w \in Seq(Direction(n)!Naks)
    BY <1>7 DEF Direction!TypeOK, w
  <2>4. w[1].at \in Nat /\ w[i].at \in Nat
    <3>1. w[1] \in Direction(n)!Naks /\ w[i] \in Direction(n)!Naks
      BY <2>1, <2>3
    <3> QED BY <3>1 DEF Direction!Naks
  <2> QED BY <2>1, <2>2, <2>3, <2>4
<1>9. sent[n] - w[1].at <= HistoryCapacity
  BY <1>7, <1>8 DEF Direction!WindowKept, Direction!Confirmed, w
<1>10. k \in Nat /\ HistoryCapacity \in Nat /\ HistoryCapacity <= SeqRange - 1 /\ SeqRange \in Nat
  <2>1. rxSeq[p] - f.seq \in Int
    BY <1>1, <1>3 DEF Seqs
  <2>2. k \in Seqs
    BY <2>1, DivMod DEF k
  <2>3. k \in Nat
    BY <2>2 DEF Seqs
  <2> QED BY <2>3, HistoryAssumption, SeqRangePositive
<1>11. d < sent[n]
  BY DEF d, p
<1>12. k < SeqRange - 1
  BY <1>1, <1>6, <1>8, <1>9, <1>10, <1>11
<1> QED BY <1>3, <1>12 DEF f, k, p, r

\* A packet is delivered: the direction it belongs to takes its step.
LEMMA DeliverDirections ==
  ASSUME TypeOK, NEW n \in Nodes, TransferFrames, Deliver(n), Direction(Peer(n))!IndInv
  PROVE  Transfers(n) /\ Transfers(Peer(n))
<1> DEFINE p == Peer(n)
           f == Head(wire[n])
           q == Only(wire[p], {"NAK"})
           d == Len(delivered[n])
           s == rxSeq[n]
<1>1. p \in Nodes /\ p # n /\ Peer(p) = n /\ wire[n] # << >>
  BY TwoNodes DEF Deliver, Arrives
<1>2. f.type \in DataTypes /\ f.seq = s
  BY DEF Deliver, Arrives, DataTypes
<1>3. /\ delivered'[n] = Append(delivered[n], f.packet) /\ delivered'[p] = delivered[p]
      /\ rxSeq'[n] = nextSeq(s) /\ rxSeq'[p] = rxSeq[p]
      /\ txSeq' = txSeq /\ history' = history /\ sent' = sent
      /\ Consume(n, << >>)
  BY <1>1 DEF Deliver, TypeOK
<1>4. /\ DataFrom(p) # << >> /\ Head(DataFrom(p)) = f /\ DataFrom(p)' = Tail(DataFrom(p))
      /\ NaksTo(n)' = NaksTo(n) /\ DataFrom(n)' = DataFrom(n)
      /\ NaksTo(p)' = Stamped(q \o Only(<< >>, {"NAK"}), Len(delivered'[n]), rxSeq'[n])
  <2>1. << >> \in Seq(Frames) /\ Only(<< >>, DataTypes) = << >>
    BY FramesSeen
  <2> QED BY <1>1, <1>2, <1>3, <2>1, TakenFrame
<1>5. NaksTo(p)' = NaksTo(p)
  <2>1. q \in Seq(Frames) /\ Only(<< >>, {"NAK"}) = << >>
    <3>1. wire[p] \in Seq(Frames)
      BY <1>1 DEF TypeOK
    <3> QED BY <3>1, FramesMade, OnlyAppend
  <2>2. q \o << >> = q
    BY <2>1
  <2>3. Len(delivered'[n]) = d + 1 /\ d \in Nat /\ s \in Seqs
    <3>1. delivered[n] \in Seq(Packets) /\ s \in Seqs
      BY DEF TypeOK, Packets
    <3> QED BY <1>3, <3>1
  <2>4. NaksTo(p)' = Stamped(q, d + 1, nextSeq(s))
    BY <1>3, <1>4, <2>1, <2>2, <2>3
  <2>5. d < sent[p]
    BY <1>1, <1>2, <1>4, AcceptedInDirection
  <2>6. \A i \in 1 .. Len(q) : Stamp(q[i], d + 1, nextSeq(s)) = Stamp(q[i], d, s)
    <3> TAKE i \in 1 .. Len(q)
    <3>1. q[i].seq \in Seqs /\ (s - q[i].seq) % SeqRange < SeqRange - 1
      BY <1>1, <2>5, NaksRecent
    <3> HIDE DEF q
    <3> QED BY <2>3, <3>1, StampLater
  <2>7. NaksTo(p) = Stamped(q, d, s)
    BY <1>1, NaksAreStamped
  <2> HIDE DEF q, d, s
  <2> QED BY <2>4, <2>6, <2>7 DEF Stamped
<1> HIDE DEF p, f
<1>6. Transfers(n)
  BY <1>3, <1>4, DirectionIdle DEF p
<1>7. Direction(p)!Deliver
  BY <1>1, <1>2, <1>3, <1>4, <1>5 DEF Direction!Deliver, Direction!nextSeq, nextSeq
<1> QED BY <1>6, <1>7 DEF Transfers, Direction!Next, Direction!HandleUSR, p

\* A link on which nobody connects anew is a link whose frames are those of a
\* transfer and whose directions are transfers.
DirectionsInv ==
  /\ TypeOK /\ AllConnected /\ TransferFrames
  /\ \A n \in Nodes : Direction(n)!IndInv

LEMMA InitDirections ==
  ASSUME InitIn("CONNECTED")
  PROVE  DirectionsInv /\ \A n \in Nodes : Direction(n)!Init
<1>1. TypeOK
  <2>1. "CONNECTED" \in ConnectStates
    BY DEF ConnectStates
  <2> QED BY <2>1, InitTypes
<1>2. AllConnected /\ TransferFrames
  BY DEF InitIn, AllConnected, Connected, TransferFrames, TransferOnly
<1>3. ASSUME NEW n \in Nodes PROVE Direction(n)!Init
  <2>1. Peer(n) \in Nodes /\ wire[n] = << >> /\ wire[Peer(n)] = << >>
    BY TwoNodes DEF InitIn
  <2>2. DataFrom(n) = << >>
    BY <2>1, OnlyAppend DEF DataFrom
  <2>3. NaksTo(n) = << >>
    <3>1. NaksTo(n) = Stamped(<< >>, Len(delivered[Peer(n)]), rxSeq[Peer(n)])
      BY <2>1, OnlyAppend, NaksAreStamped
    <3>2. \A d, s : Stamped(<< >>, d, s) = << >>
      BY DEF Stamped
    <3> QED BY <3>1, <3>2
  <2> QED BY <2>1, <2>2, <2>3 DEF InitIn, Direction!Init, Direction!InitialSeq, InitialSeq
<1>4. ASSUME NEW n \in Nodes PROVE Direction(n)!IndInv
  <2>1. CASE n = FirstNode
    <3>1. First!Init
      BY <1>3, FirstOrSecond DEF Direction!Init, First!Init, Direction!InitialSeq, First!InitialSeq
    <3>2. First!IndInv
      BY <3>1, First!InitInv, SeqRangeAssumption, HistoryAssumption, WholeHistory
    <3> QED BY <2>1, <3>2, FirstInvariant
  <2>2. CASE n = SecondNode
    <3>1. Second!Init
      BY <1>3, FirstOrSecond DEF Direction!Init, Second!Init, Direction!InitialSeq, Second!InitialSeq
    <3>2. Second!IndInv
      BY <3>1, Second!InitInv, SeqRangeAssumption, HistoryAssumption, WholeHistory
    <3> QED BY <2>2, <3>2, SecondInvariant
  <2> QED BY <2>1, <2>2, FirstOrSecond
<1> QED BY <1>1, <1>2, <1>3, <1>4 DEF DirectionsInv

\* Taking a frame and sending some keeps the wires to frames of transfers.
LEMMA ConsumeTransferFrames ==
  ASSUME TypeOK, TransferFrames, NEW n \in Nodes, wire[n] # << >>, NEW out \in Seq(Frames), Consume(n, out),
         TransferOnly(out)
  PROVE  TransferFrames'
<1>1. /\ wire'[n] = Tail(wire[n]) /\ wire'[Peer(n)] = wire[Peer(n)] \o out
      /\ wire[Peer(n)] \in Seq(Frames)
  BY TwoNodes, ConsumeWires DEF TypeOK
<1>2. TransferOnly(wire'[n]) /\ TransferOnly(wire'[Peer(n)])
  BY <1>1, TwoNodes, TransferFrame, TransferConcat DEF TransferFrames
<1> QED BY <1>2, TwoNodes DEF TransferFrames

\* Putting a frame of a transfer on a wire does, too.
LEMMA SendTransferFrames ==
  ASSUME TypeOK, TransferFrames, NEW n \in Nodes, NEW g \in Frames, g.type \in DataTypes \cup {"NAK"},
         wire' = [wire EXCEPT ![Peer(n)] = Append(@, g)]
  PROVE  TransferFrames'
<1>1. Peer(n) \in Nodes /\ Peer(n) # n /\ wire[Peer(n)] \in Seq(Frames)
  BY TwoNodes DEF TypeOK
<1>2. wire'[n] = wire[n] /\ wire'[Peer(n)] = Append(wire[Peer(n)], g)
  BY <1>1 DEF TypeOK
<1>3. TransferOnly(wire[Peer(n)])
  BY <1>1 DEF TransferFrames
<1>4. TransferOnly(Append(wire[Peer(n)], g))
  <2> DEFINE v == wire[Peer(n)]
  <2>1. \A i \in 1 .. Len(Append(v, g)) :
          Append(v, g)[i] = g \/ (i \in 1 .. Len(v) /\ Append(v, g)[i] = v[i])
    BY <1>1
  <2> QED BY <1>3, <2>1 DEF TransferOnly
<1> QED BY <1>1, <1>2, <1>4, TwoNodes DEF TransferFrames

\* A link without sfpConnect and sfpInit steps only as its directions do.
LEMMA LinkStep ==
  ASSUME Initiators = {}, MaxInits = 0, DirectionsInv, Next, UsersKeepWindow
  PROVE  AllConnected' /\ TransferFrames' /\ \A n \in Nodes : Transfers(n)
<1>1. PICK n \in Nodes : HandleFrame(n) \/ UserCall(n) \/ Fault(n)
  BY DEF Next
<1> DEFINE Goal == AllConnected' /\ TransferFrames' /\ Transfers(n) /\ Transfers(Peer(n))
<1>2. SUFFICES Goal
  BY TwoNodes
<1>3. TypeOK /\ AllConnected /\ TransferFrames
  BY DEF DirectionsInv
<1>4. connectState[n] = "CONNECTED" /\ Direction(Peer(n))!IndInv
  BY TwoNodes DEF DirectionsInv, AllConnected, Connected
<1>5. NAK(rxSeq[n]) \in Frames /\ NAK(rxSeq[n]).type = "NAK"
  BY <1>3, FramesMade, SYNsDiffer DEF TypeOK
<1>6. ASSUME wire[n] # << >>, NEW out \in {<< >>, <<NAK(rxSeq[n])>>}, Consume(n, out),
             UNCHANGED <<connectState, numbers, sent, delivered>>
      PROVE  Goal
  <2>1. out \in Seq(Frames) /\ TransferOnly(out)
    <3>1. << >> \in Seq(Frames) /\ TransferOnly(<< >>)
      BY DEF TransferOnly
    <3>2. <<NAK(rxSeq[n])>> \in Seq(Frames) /\ TransferOnly(<<NAK(rxSeq[n])>>)
      BY <1>5 DEF TransferOnly
    <3> QED BY <3>1, <3>2
  <2>2. TransferFrames'
    BY <1>3, <1>6, <2>1, ConsumeTransferFrames
  <2>3. AllConnected'
    BY <1>3, <1>6 DEF AllConnected, Connected
  <2>4. Transfers(n) /\ Transfers(Peer(n))
    BY <1>3, <1>6, DroppedFrameDirections
  <2> QED BY <2>2, <2>3, <2>4
<1> HIDE DEF Goal
<1>7. CASE HandleFrame(n)
  <2>1. wire[n] # << >>
    BY <1>3, <1>7, HandlersHandle
  <2>2. ~ HandleSYN(n) /\ ~ RebuffFrame(n) /\ ~ RejectRemnant(n)
    <3>1. /\ Head(wire[n]).type # "BAD"
          /\ \A syn \in {SYN0, SYN1, SYN2, DIS} : Head(wire[n]) # syn
      BY <1>3, <2>1, TransferFrame DEF DataTypes
    <3> QED BY <1>4, <3>1 DEF HandleSYN, HandleSYN0, HandleSYN1, HandleSYN2, SYN2AfterSYN0, HandleDIS,
                              SYNWhileDisconnected, RebuffFrame, RejectRemnant, Arrives, ArrivesSYN
  <2>3. CASE IgnoreNAK(n) \/ RejectOutOfOrder(n) \/ IgnoreRetransmission(n)
    BY <1>6, <2>1, <2>3 DEF IgnoreNAK, RejectOutOfOrder, IgnoreRetransmission, users
  <2>4. CASE AnswerNAK(n)
    <3>1. /\ Transfers(n) /\ Transfers(Peer(n))
          /\ \E out \in Seq(Frames) : Consume(n, out) /\ TransferOnly(out)
      BY <1>3, <2>4, AnswerDirections
    <3>2. TransferFrames'
      BY <1>3, <2>1, <3>1, ConsumeTransferFrames
    <3>3. AllConnected'
      BY <1>3, <2>4 DEF AllConnected, Connected, AnswerNAK
    <3> QED BY <3>1, <3>2, <3>3 DEF Goal
  <2>5. CASE Deliver(n)
    <3>1. Transfers(n) /\ Transfers(Peer(n))
      BY <1>3, <1>4, <2>5, DeliverDirections
    <3>2. TransferFrames'
      <4>1. << >> \in Seq(Frames) /\ TransferOnly(<< >>)
        BY DEF TransferOnly
      <4> QED BY <1>3, <2>1, <2>5, <4>1, ConsumeTransferFrames DEF Deliver
    <3>3. AllConnected'
      BY <1>3, <2>5 DEF AllConnected, Connected, Deliver
    <3> QED BY <3>1, <3>2, <3>3 DEF Goal
  <2> QED BY <1>7, <2>2, <2>3, <2>4, <2>5 DEF HandleFrame, HandleNAK, HandleUSR
<1>8. CASE UserCall(n)
  <2>1. ~ Connect(n) /\ ~ Reinit(n)
    <3>1. inits \in 0 .. 0
      BY <1>3 DEF TypeOK
    <3> QED BY <3>1 DEF Connect, Reinit
  <2>2. WritePacket(n)
    BY <1>8, <2>1 DEF UserCall
  <2>3. Transfers(n) /\ Transfers(Peer(n))
    BY <1>3, <2>2, WriteDirections
  <2>4. TransferFrames'
    <3> DEFINE g == DataFrame("USR", txSeq[n], sent[n] + 1)
    <3>1. g \in Frames /\ g.type \in DataTypes \cup {"NAK"}
      <4>1. sent[n] + 1 \in Packets /\ txSeq[n] \in Seqs
        BY <1>3, <2>2, BoundsAssumption DEF TypeOK, WritePacket, Packets
      <4> QED BY <4>1, FramesMade, SYNsDiffer DEF DataTypes
    <3>2. wire' = [wire EXCEPT ![Peer(n)] = Append(@, g)]
      BY <2>2 DEF WritePacket
    <3> QED BY <1>3, <3>1, <3>2, SendTransferFrames
  <2>5. AllConnected'
    BY <1>3, <2>2 DEF AllConnected, Connected, WritePacket
  <2> QED BY <2>3, <2>4, <2>5 DEF Goal
<1>9. CASE Fault(n)
  <2>1. UNCHANGED <<connectState, numbers, sent, delivered>>
    BY <1>9 DEF Fault, users
  <2>2. CASE wire[n] # << >> /\ (Consume(n, << >>) \/ Consume(n, <<NAK(rxSeq[n])>>))
    BY <1>6, <2>1, <2>2
  <2>3. CASE wire' = [wire EXCEPT ![Peer(n)] = Append(@, NAK(rxSeq[n]))]
    <3>1. Transfers(n) /\ Transfers(Peer(n))
      BY <1>3, <2>1, <2>3, NoiseDirections
    <3>2. TransferFrames'
      BY <1>3, <1>5, <2>3, SendTransferFrames
    <3>3. AllConnected'
      BY <1>3, <2>1 DEF AllConnected, Connected
    <3> QED BY <3>1, <3>2, <3>3 DEF Goal
  <2> QED BY <1>9, <2>2, <2>3 DEF Fault
<1> QED BY <1>1, <1>7, <1>8, <1>9

LEMMA NextDirections ==
  ASSUME Initiators = {}, MaxInits = 0, DirectionsInv, [Next /\ UsersKeepWindow]_vars
  PROVE  /\ DirectionsInv'
         /\ [\A n \in Nodes : Direction(n)!Next \/ UNCHANGED Direction(n)!vars]_vars
<1>1. TypeOK'
  BY NextTypes DEF DirectionsInv
<1>2. CASE Next /\ UsersKeepWindow
  <2>1. AllConnected' /\ TransferFrames' /\ \A n \in Nodes : Transfers(n)
    BY <1>2, LinkStep
  <2>2. \A n \in Nodes : Direction(n)!IndInv'
    BY <2>1, DirectionNext DEF DirectionsInv
  <2> QED BY <1>1, <2>1, <2>2 DEF DirectionsInv, Transfers
<1>3. CASE UNCHANGED vars
  <2>1. /\ connectState' = connectState /\ wire' = wire /\ txSeq' = txSeq /\ rxSeq' = rxSeq
        /\ history' = history /\ sent' = sent /\ delivered' = delivered
    BY <1>3 DEF vars, numbers, users
  <2>2. AllConnected' /\ TransferFrames'
    BY <2>1 DEF DirectionsInv, AllConnected, Connected, TransferFrames
  <2>3. ASSUME NEW n \in Nodes PROVE Transfers(n)
    <3>1. DataFrom(n)' = DataFrom(n) /\ NaksTo(n)' = NaksTo(n)
      BY <2>1 DEF DataFrom, NaksTo
    <3> QED BY <2>1, <3>1, DirectionIdle
  <2>4. \A n \in Nodes : Direction(n)!IndInv'
    BY <2>3, DirectionNext DEF DirectionsInv
  <2> QED BY <1>1, <1>3, <2>2, <2>4 DEF DirectionsInv
<1> QED BY <1>2, <1>3

(***************************************************************************)
(* On a connected link whose users keep a window, both directions are      *)
(* SFPTransfer, step by step: sharing the wires, and answering the damaged *)
(* frames of the other direction, adds nothing that SFPTransfer does not   *)
(* allow.                                                                  *)
(***************************************************************************)
THEOREM LinkImplementsTransfers ==
  ASSUME Initiators = {}, MaxInits = 0
  PROVE  WindowedSpec => DirectionsAreTransfers
<1>1. InitIn("CONNECTED") => DirectionsInv /\ \A n \in Nodes : Direction(n)!Init
  BY InitDirections
<1>2. DirectionsInv /\ [Next /\ UsersKeepWindow]_vars =>
        /\ DirectionsInv'
        /\ [\A n \in Nodes : Direction(n)!Next \/ UNCHANGED Direction(n)!vars]_vars
  BY NextDirections
<1> QED BY <1>1, <1>2, PTL DEF WindowedSpec, DirectionsAreTransfers

\* The directions of a link that nobody connects anew keep their invariant.
LEMMA DirectionsKept ==
  ASSUME Initiators = {}, MaxInits = 0
  PROVE  WindowedSpec => []DirectionsInv
<1>1. InitIn("CONNECTED") => DirectionsInv
  BY InitDirections
<1>2. DirectionsInv /\ [Next /\ UsersKeepWindow]_vars => DirectionsInv'
  BY NextDirections
<1> QED BY <1>1, <1>2, PTL DEF WindowedSpec

(***************************************************************************)
(* What tests/sfp-echo.cpp expects of a medium that loses and damages      *)
(* frames holds at both ends, for any number of packets and faults, if the *)
(* users keep at most HistoryCapacity packets outstanding.  Without that   *)
(* EchoesInOrder does not hold.                                            *)
(***************************************************************************)
THEOREM WindowedInOrder ==
  ASSUME Initiators = {}, MaxInits = 0
  PROVE  WindowedSpec => []EchoesInOrder
<1>1. ASSUME DirectionsInv PROVE EchoesInOrder
  <2> SUFFICES ASSUME NEW n \in Nodes, NEW i \in 1 .. Len(delivered[n]) PROVE delivered[n][i] = i
    BY DEF EchoesInOrder
  <2> DEFINE p == Peer(n)
  <2>1. p \in Nodes /\ Peer(p) = n
    BY TwoNodes
  <2> HIDE DEF p
  <2>2. Direction(p)!DeliveredInOrder
    BY <1>1, <2>1 DEF DirectionsInv, Direction!IndInv
  <2>3. \A j \in 1 .. Len(delivered[Peer(p)]) : delivered[Peer(p)][j] = j
    BY <2>2 DEF Direction!DeliveredInOrder
  <2> QED BY <2>1, <2>3
<1> QED BY <1>1, DirectionsKept, PTL

(***************************************************************************)
(* Neither end of such a link ever finds its history short of the packet a *)
(* NAK asks for: sfpTransmitHistoryFromSeq's "lost by history buffer       *)
(* underrun" is never reached.                                             *)
(***************************************************************************)
THEOREM WindowedNeverUnderruns ==
  ASSUME Initiators = {}, MaxInits = 0
  PROVE  WindowedSpec => [](\A n \in Nodes : Direction(n)!NoUnderrun)
<1>1. ASSUME DirectionsInv, NEW n \in Nodes PROVE Direction(n)!NoUnderrun
  <2>1. CASE n = FirstNode
    <3>1. First!IndInv
      BY <1>1, <2>1, FirstInvariant DEF DirectionsInv
    <3>2. First!NoUnderrun
      BY <3>1, First!InvNoUnderrun, SeqRangeAssumption, HistoryAssumption, WholeHistory
    <3> QED BY <2>1, <3>2 DEF First!NoUnderrun, Direction!NoUnderrun, First!Underrun, Direction!Underrun,
                              First!FastForward, Direction!FastForward
  <2>2. CASE n = SecondNode
    <3>1. Second!IndInv
      BY <1>1, <2>2, SecondInvariant DEF DirectionsInv
    <3>2. Second!NoUnderrun
      BY <3>1, Second!InvNoUnderrun, SeqRangeAssumption, HistoryAssumption, WholeHistory
    <3> QED BY <2>2, <3>2 DEF Second!NoUnderrun, Direction!NoUnderrun, Second!Underrun, Direction!Underrun,
                              Second!FastForward, Direction!FastForward
  <2> QED BY <2>1, <2>2, FirstOrSecond
<1>2. DirectionsInv => \A n \in Nodes : Direction(n)!NoUnderrun
  BY <1>1
<1> QED BY <1>2, DirectionsKept, PTL

-----------------------------------------------------------------------------
(***************************************************************************)
(* QuietSync: two ends that are connected and have nothing in flight agree *)
(* about the numbers and have delivered everything.                        *)
(*                                                                         *)
(* In each direction the wire carries data of several connections, parted  *)
(* by SYN0 frames.  From one SYN0 to the next they come in order, though   *)
(* some come more than once (Ordered); those behind the last one are what  *)
(* the transmitter's history holds (Current); the receiver has delivered   *)
(* what came before them (Received); and when data reach it, it is         *)
(* connected (Admitting).  That is Settled.  It does not hold while the    *)
(* transmitter is going to be reset itself by a SYN0 of the other end,     *)
(* there or still to be sent (Pending): then nothing it has sent is going  *)
(* to be accepted (Resetting).  For this the SYN1, SYN2, NAK and damaged   *)
(* frames of two crossing handshakes may be only where Crossing allows     *)
(* them, and one end's sfpConnect may find the other only in one of the    *)
(* stages of the opening that it began (Opening).                          *)
(*                                                                         *)
(* In these definitions n is in state s and has the numbers t (tx.seq) and *)
(* b (base), its peer is in state q and waits for r (rx.seq), v is the     *)
(* wire to n and w the wire from n, d is what the peer has delivered.      *)
(***************************************************************************)
IsDatum(f) == f.type \in DataTypes
Carries(f, s) == IsDatum(f) /\ f.seq = s
DataFree(w) == \A i \in 1 .. Len(w) : ~ IsDatum(w[i])
DataOnly(w) == \A i \in 1 .. Len(w) : IsDatum(w[i])

\* There is no SYN0 in w from i on, before i, or from j to i.
Fresh(w, i) == \A j \in 1 .. Len(w) : j >= i => w[j] # SYN0
First0(w, i) == \A j \in 1 .. Len(w) : j < i => w[j] # SYN0
Joined(w, j, i) == j < i /\ \A m \in 1 .. Len(w) : j <= m /\ m <= i => w[m] # SYN0

\* What the receiver of w waits for when the i-th frame, or the end of w, is its next.
StartAt(w, i, r) == IF First0(w, i) THEN r ELSE 0
Start(w, r) == IF In(w, SYN0) THEN 0 ELSE r

\* From one SYN0 to the next, data come in order, however often.
InOrder(w, r, i) ==
  /\ w[i].seq < HistoryCapacity
  /\ \A s \in Nat : StartAt(w, i, r) <= s /\ s < w[i].seq =>
       \E j \in 1 .. Len(w) : Joined(w, j, i) /\ Carries(w[j], s)
  /\ w[i].type = "USR" =>
       /\ StartAt(w, i, r) <= w[i].seq
       /\ \A j \in 1 .. Len(w) : Joined(w, j, i) /\ IsDatum(w[j]) => w[j].seq < w[i].seq

Ordered(w, r) == \A i \in 1 .. Len(w) : IsDatum(w[i]) => InOrder(w, r, i)

\* After the last SYN0, they are all that is written since base b and not yet delivered.
Current(w, r, t, b) ==
  /\ \A i \in 1 .. Len(w) : IsDatum(w[i]) /\ Fresh(w, i) =>
       w[i].seq < t /\ w[i].packet = b + w[i].seq + 1
  /\ \A s \in Nat : Start(w, r) <= s /\ s < t =>
       \E i \in 1 .. Len(w) : Fresh(w, i) /\ Carries(w[i], s)
  /\ Start(w, r) <= t

Received(w, r, b, d) ==
  ~ In(w, SYN0) => \A s \in Nat : s < r => \E i \in 1 .. Len(d) : d[i] = b + s + 1

Stream(w, r, t, b, d) == Ordered(w, r) /\ Current(w, r, t, b) /\ Received(w, r, b, d)

\* When data arrive the receiver is connected: it is, or a SYN1 or SYN2 is before them.
Admitted(w, q, i) ==
  \/ First0(w, i) /\ q = "CONNECTED"
  \/ \E j \in 1 .. Len(w) : w[j] \in {SYN1, SYN2} /\ Joined(w, j, i)

Admitting(w, s, q) ==
  /\ \A i \in 1 .. Len(w) : IsDatum(w[i]) => Admitted(w, q, i)
  /\ s \in {"SENT_SYN1", "CONNECTED"} => Admitted(w, q, Len(w) + 1)

\* n, in state s, is going to be reset by a SYN0 in v or one that its peer, in state q, may still send.
Pending(v, q) == q = "SENT_SYN0" \/ In(v, SYN0)

\* Then nothing that n has sent is going to be accepted.
Refused(w, q, i) ==
  q = "SENT_SYN0" /\ \A j \in 1 .. Len(w) : j < i => w[j] # SYN0 /\ w[j] # SYN1

AllRefused(w, q) == \A i \in 1 .. Len(w) : IsDatum(w[i]) => Refused(w, q, i)

\* The peer is going to be connected by a SYN1 that no SYN0 follows.
LastSYN1(w) == \E j \in 1 .. Len(w) : w[j] = SYN1 /\ Fresh(w, j)

Resetting(w, v, s, q, t, r) ==
  Pending(v, q) =>
    /\ AllRefused(w, q)
    /\ r = 0
    /\ s = "CONNECTED" => q = "SENT_SYN0" /\ ~ In(w, SYN0) /\ ~ In(w, SYN1)
    /\ ~ In(v, SYN0) =>
         t = 0 /\ s \in {"SENT_SYN0", "SENT_SYN1"} /\ (s = "SENT_SYN1" => LastSYN1(w))

Settled(w, v, s, q, t, r, b, d) ==
  ~ Pending(v, q) => Stream(w, r, t, b, d) /\ Admitting(w, s, q)

\* v is on its way to an end in state s from one in state q, w the other way.
LateSYN1(v, w, s, q) ==
  \A j \in 1 .. Len(v) : v[j] = SYN1 /\ (q = "SENT_SYN0" \/ ~ Fresh(v, j)) =>
    j = 1 /\ q = "SENT_SYN0" /\ s = "SENT_SYN0" /\ In(v, SYN0) /\ ~ In(w, SYN0) /\ ~ In(w, SYN1)

LateSYN2(v, q) == \A j \in 1 .. Len(v) : v[j] = SYN2 => q # "SENT_SYN0" /\ Fresh(v, j)

NAKsRefused(v, s) ==
  \A i \in 1 .. Len(v) : v[i].type = "NAK" =>
    IF i = 1 THEN s \in {"SENT_SYN0", "SENT_SYN1"} ELSE v[i - 1] = SYN0

RemnantsFirst(v, w, s, q) ==
  \A i \in 1 .. Len(v) : v[i].type = "BAD" =>
    /\ i = 1 /\ s = "SENT_SYN0"
    /\ IF w = << >> THEN q \in {"SENT_SYN0", "SENT_SYN1"} ELSE w[Len(w)] = SYN0

Crossing(v, w, s, q) ==
  LateSYN1(v, w, s, q) /\ LateSYN2(v, q) /\ NAKsRefused(v, s) /\ RemnantsFirst(v, w, s, q)
    /\ ~ In(v, DIS)

\* While q, the state of the other end, is not due to a sfpConnect of its own.
Opening(v, w, s, q) ==
  \/ s = "DISCONNECTED" /\ q = "DISCONNECTED" /\ v = << >> /\ w = << >>
  \/ s = "SENT_SYN0" /\ q = "DISCONNECTED" /\ v = << >> /\ w = <<SYN0>>
  \/ s = "SENT_SYN0" /\ q = "SENT_SYN1" /\ v = <<SYN1>> /\ w = << >>
  \/ /\ s = "CONNECTED" /\ q = "SENT_SYN1"
     /\ v = << >> /\ w # << >> /\ Head(w) = SYN2 /\ DataOnly(Tail(w))
  \/ s = "CONNECTED" /\ q = "CONNECTED" /\ DataOnly(v) /\ DataOnly(w)

Numbered(s, t, h, b, k) ==
  /\ b + t = k
  /\ h = [i \in 1 .. t |-> b + i]
  /\ s # "CONNECTED" => t = 0

InStep(n) ==
  LET p == Peer(n)
      v == wire[n]
      w == wire[p]
      s == connectState[n]
      q == connectState[p]
  IN  /\ Numbered(s, txSeq[n], history[n], base[n], sent[n])
      /\ Resetting(w, v, s, q, txSeq[n], rxSeq[p])
      /\ Settled(w, v, s, q, txSeq[n], rxSeq[p], base[n], delivered[p])
      /\ Crossing(v, w, s, q)
      /\ connects[p] = 0 => Opening(v, w, s, q) /\ (connects[n] = 0 => s = "DISCONNECTED")
      /\ connects[n] > 0 => s # "DISCONNECTED"

SyncInv == TypeOK /\ (Clean => \A n \in Nodes : InStep(n))

\* What n, in state s, sends to its peer, in state q.
Flow(w, v, s, q, t, r, b, d) == Resetting(w, v, s, q, t, r) /\ Settled(w, v, s, q, t, r, b, d)

\* Indices of a wire whose first frame is taken, or on which frames are put.
LEMMA TailIndices ==
  ASSUME NEW w \in Seq(Frames), w # << >>
  PROVE  /\ Tail(w) \in Seq(Frames) /\ Len(w) \in Nat /\ Len(w) > 0
         /\ Len(Tail(w)) = Len(w) - 1 /\ Head(w) = w[1] /\ 1 \in 1 .. Len(w) /\ Head(w) \in Frames
         /\ \A i \in 1 .. Len(Tail(w)) : i + 1 \in 1 .. Len(w) /\ Tail(w)[i] = w[i + 1]
         /\ \A i \in 1 .. Len(w) : i # 1 => i - 1 \in 1 .. Len(Tail(w)) /\ Tail(w)[i - 1] = w[i]
<1>1. /\ Len(w) \in Nat \ {0} /\ Len(Tail(w)) = Len(w) - 1 /\ Head(w) = w[1]
      /\ \A i \in 1 .. Len(Tail(w)) : i + 1 \in 1 .. Len(w) /\ Tail(w)[i] = w[i + 1]
  BY HeadTailProperties
<1>2. \A i \in 1 .. Len(w) : i # 1 => i - 1 \in 1 .. Len(Tail(w)) /\ Tail(w)[i - 1] = w[i]
  BY <1>1
<1>3. Tail(w) \in Seq(Frames) /\ Head(w) \in Frames
  OBVIOUS
<1> QED BY <1>1, <1>2, <1>3

LEMMA CatIndices ==
  ASSUME NEW w \in Seq(Frames), NEW out \in Seq(Frames)
  PROVE  /\ w \o out \in Seq(Frames)
         /\ Len(w) \in Nat /\ Len(out) \in Nat /\ Len(w \o out) = Len(w) + Len(out)
         /\ \A i \in 1 .. Len(w) : i \in 1 .. Len(w \o out) /\ (w \o out)[i] = w[i]
         /\ \A j \in 1 .. Len(out) : Len(w) + j \in 1 .. Len(w \o out) /\ (w \o out)[Len(w) + j] = out[j]
         /\ \A i \in 1 .. Len(w \o out) :
              \/ i \in 1 .. Len(w)
              \/ i > Len(w) /\ i - Len(w) \in 1 .. Len(out) /\ (w \o out)[i] = out[i - Len(w)]
<1> DEFINE c == w \o out
<1>1. /\ Len(w) \in Nat /\ Len(out) \in Nat /\ Len(c) = Len(w) + Len(out) /\ c \in Seq(Frames)
      /\ \A i \in 1 .. Len(w) : c[i] = w[i]
      /\ \A j \in 1 .. Len(out) : c[Len(w) + j] = out[j]
  OBVIOUS
<1> HIDE DEF c
<1>2. \A i \in 1 .. Len(c) : i \in 1 .. Len(w)
                             \/ (i > Len(w) /\ i - Len(w) \in 1 .. Len(out) /\ c[i] = out[i - Len(w)])
  <2> TAKE i \in 1 .. Len(c)
  <2>1. CASE i <= Len(w)
    BY <1>1, <2>1
  <2>2. CASE i > Len(w)
    <3>1. i - Len(w) \in 1 .. Len(out) /\ Len(w) + (i - Len(w)) = i
      BY <1>1, <2>2
    <3> QED BY <1>1, <2>2, <3>1
  <2> QED BY <1>1, <2>1, <2>2
<1>3. (\A i \in 1 .. Len(w) : i \in 1 .. Len(c))
      /\ \A j \in 1 .. Len(out) : Len(w) + j \in 1 .. Len(c)
  BY <1>1
<1> QED BY <1>1, <1>2, <1>3 DEF c

\* The places of the SYN0 in what is left of a wire.
LEMMA TailPlaces ==
  ASSUME NEW w \in Seq(Frames), w # << >>
  PROVE  /\ \A i \in Int : Fresh(Tail(w), i) <=> Fresh(w, IF i >= 1 THEN i + 1 ELSE 2)
         /\ Head(w) # SYN0 => \A i \in Int : i >= 1 => (First0(Tail(w), i) <=> First0(w, i + 1))
         /\ Head(w) = SYN0 => \A i \in Int : i >= 1 => ~ First0(w, i + 1)
         /\ \A i, j \in Int : i >= 1 /\ j >= 1 => (Joined(Tail(w), j, i) <=> Joined(w, j + 1, i + 1))
         /\ Head(w) # SYN0 => (In(w, SYN0) <=> In(Tail(w), SYN0))
         /\ Head(w) = SYN0 => In(w, SYN0)
<1> DEFINE z == Tail(w)
<1>1. /\ Len(w) \in Nat /\ Len(w) > 0 /\ Len(z) = Len(w) - 1 /\ Head(w) = w[1]
      /\ \A i \in 1 .. Len(z) : i + 1 \in 1 .. Len(w) /\ z[i] = w[i + 1]
      /\ \A i \in 1 .. Len(w) : i # 1 => i - 1 \in 1 .. Len(z) /\ z[i - 1] = w[i]
  BY TailIndices
<1> HIDE DEF z
<1>2. \A i \in Int : Fresh(z, i) <=> Fresh(w, IF i >= 1 THEN i + 1 ELSE 2)
  <2> TAKE i \in Int
  <2> DEFINE k == IF i >= 1 THEN i + 1 ELSE 2
  <2>1. ASSUME Fresh(z, i), NEW j \in 1 .. Len(w), j >= k PROVE w[j] # SYN0
    <3>1. j # 1 /\ j - 1 >= i
      BY <2>1
    <3> QED BY <1>1, <2>1, <3>1 DEF Fresh
  <2>2. ASSUME Fresh(w, k), NEW j \in 1 .. Len(z), j >= i PROVE z[j] # SYN0
    <3>1. j + 1 >= k
      BY <1>1, <2>2
    <3> QED BY <1>1, <2>2, <3>1 DEF Fresh
  <2> QED BY <2>1, <2>2 DEF Fresh
<1>3. ASSUME Head(w) # SYN0, NEW i \in Int, i >= 1 PROVE First0(z, i) <=> First0(w, i + 1)
  <2>1. ASSUME First0(z, i), NEW j \in 1 .. Len(w), j < i + 1 PROVE w[j] # SYN0
    <3>1. CASE j = 1
      BY <1>1, <1>3, <3>1
    <3>2. CASE j # 1
      <4>1. j - 1 < i
        BY <2>1
      <4> QED BY <1>1, <2>1, <3>2, <4>1 DEF First0
    <3> QED BY <3>1, <3>2
  <2>2. ASSUME First0(w, i + 1), NEW j \in 1 .. Len(z), j < i PROVE z[j] # SYN0
    <3>1. j + 1 < i + 1
      BY <1>1, <2>2, <1>3
    <3> QED BY <1>1, <2>2, <3>1 DEF First0
  <2> QED BY <2>1, <2>2 DEF First0
<1>4. ASSUME Head(w) = SYN0, NEW i \in Int, i >= 1 PROVE ~ First0(w, i + 1)
  <2>1. 1 \in 1 .. Len(w) /\ 1 < i + 1
    BY <1>1, <1>4
  <2> QED BY <1>1, <1>4, <2>1 DEF First0
<1>5. ASSUME NEW i \in Int, NEW j \in Int, i >= 1, j >= 1
      PROVE  Joined(z, j, i) <=> Joined(w, j + 1, i + 1)
  <2>1. ASSUME Joined(z, j, i), NEW m \in 1 .. Len(w), j + 1 <= m, m <= i + 1 PROVE w[m] # SYN0
    <3>1. m # 1 /\ j <= m - 1 /\ m - 1 <= i
      BY <1>5, <2>1
    <3> QED BY <1>1, <2>1, <3>1 DEF Joined
  <2>2. ASSUME Joined(w, j + 1, i + 1), NEW m \in 1 .. Len(z), j <= m, m <= i PROVE z[m] # SYN0
    <3>1. j + 1 <= m + 1 /\ m + 1 <= i + 1
      BY <1>5, <2>2
    <3> QED BY <1>1, <2>2, <3>1 DEF Joined
  <2>3. j < i <=> j + 1 < i + 1
    BY <1>5
  <2> QED BY <2>1, <2>2, <2>3 DEF Joined
<1>6. (Head(w) # SYN0 => (In(w, SYN0) <=> In(z, SYN0))) /\ (Head(w) = SYN0 => In(w, SYN0))
  <2>1. 1 \in 1 .. Len(w)
    BY <1>1
  <2> QED BY <1>1, <2>1 DEF In
<1> QED BY <1>2, <1>3, <1>4, <1>5, <1>6 DEF z

\* The same when frames that are no SYN0 have been put on it.
LEMMA CatPlaces ==
  ASSUME NEW w \in Seq(Frames), NEW out \in Seq(Frames), ~ In(out, SYN0)
  PROVE  /\ \A i \in Int : i <= Len(w) + 1 => (Fresh(w \o out, i) <=> Fresh(w, i))
         /\ \A i \in Int : i > Len(w) => Fresh(w \o out, i)
         /\ \A i \in 1 .. Len(w) : First0(w \o out, i) <=> First0(w, i)
         /\ \A i \in Int : i > Len(w) => (First0(w \o out, i) <=> ~ In(w, SYN0))
         /\ \A i \in 1 .. Len(w), j \in Int : Joined(w \o out, j, i) <=> Joined(w, j, i)
         /\ \A i \in 1 .. Len(w \o out), j \in 1 .. Len(w) :
              i > Len(w) => (Joined(w \o out, j, i) <=> Fresh(w, j))
         /\ \A i \in 1 .. Len(w \o out), j \in 1 .. Len(w \o out) :
              j > Len(w) => (Joined(w \o out, j, i) <=> j < i)
         /\ In(w \o out, SYN0) <=> In(w, SYN0)
<1> DEFINE c == w \o out
<1>1. /\ Len(w) \in Nat /\ Len(out) \in Nat /\ Len(c) = Len(w) + Len(out)
      /\ \A i \in 1 .. Len(w) : i \in 1 .. Len(c) /\ c[i] = w[i]
      /\ \A i \in 1 .. Len(c) : i > Len(w) => c[i] # SYN0
      /\ \A i \in 1 .. Len(c) : i \in 1 .. Len(w) \/ i > Len(w)
  BY CatIndices DEF In
<1> HIDE DEF c
<1>2. \A i \in Int : i <= Len(w) + 1 => (Fresh(c, i) <=> Fresh(w, i))
  BY <1>1 DEF Fresh
<1>3. \A i \in Int : i > Len(w) => Fresh(c, i)
  BY <1>1 DEF Fresh
<1>4. \A i \in 1 .. Len(w) : First0(c, i) <=> First0(w, i)
  BY <1>1 DEF First0
<1>5. \A i \in Int : i > Len(w) => (First0(c, i) <=> ~ In(w, SYN0))
  BY <1>1, SMTT(30) DEF First0, In
<1>6. \A i \in 1 .. Len(w), j \in Int : Joined(c, j, i) <=> Joined(w, j, i)
  BY <1>1 DEF Joined
<1>7. \A i \in 1 .. Len(c), j \in 1 .. Len(w) : i > Len(w) => (Joined(c, j, i) <=> Fresh(w, j))
  BY <1>1 DEF Joined, Fresh
<1>8. \A i \in 1 .. Len(c), j \in 1 .. Len(c) : j > Len(w) => (Joined(c, j, i) <=> j < i)
  BY <1>1 DEF Joined
<1>9. In(c, SYN0) <=> In(w, SYN0)
  BY <1>1 DEF In
<1> QED BY <1>2, <1>3, <1>4, <1>5, <1>6, <1>7, <1>8, <1>9 DEF c

LEMMA DatumFields ==
  ASSUME NEW f \in Frames
  PROVE  /\ IsDatum(f) => f.seq \in Nat /\ f.packet \in Packets /\ f # SYN0 /\ f # SYN1 /\ f # SYN2
         /\ IsDatum(f) => f.type \in {"USR", "RTX"}
  BY SYNsDiffer DEF Frames, IsDatum, DataTypes, Packets, Seqs, SYN0, SYN1, SYN2, DIS, Remnant

\* What was before stays when frames are put behind it.
LEMMA CatBefore ==
  ASSUME NEW w \in Seq(Frames), NEW out \in Seq(Frames), NEW i \in 1 .. Len(w)
  PROVE  /\ First0(w \o out, i) <=> First0(w, i)
         /\ \A j \in Int : Joined(w \o out, j, i) <=> Joined(w, j, i)
<1> DEFINE c == w \o out
<1>1. /\ Len(w) \in Nat
      /\ \A k \in 1 .. Len(w) : k \in 1 .. Len(c) /\ c[k] = w[k]
      /\ \A k \in 1 .. Len(c) : k \in 1 .. Len(w) \/ k > Len(w)
  BY CatIndices
<1> HIDE DEF c
<1>2. First0(c, i) <=> First0(w, i)
  BY <1>1 DEF First0
<1>3. \A j \in Int : Joined(c, j, i) <=> Joined(w, j, i)
  BY <1>1 DEF Joined
<1> QED BY <1>2, <1>3 DEF c

LEMMA OrderedTail ==
  ASSUME NEW w \in Seq(Frames), w # << >>, NEW r \in Nat, Ordered(w, r)
  PROVE  LET f == Head(w) IN
         /\ f = SYN0 => Ordered(Tail(w), 0)
         /\ f # SYN0 /\ ~ IsDatum(f) => Ordered(Tail(w), r)
         /\ IsDatum(f) /\ f.seq = r => r < HistoryCapacity /\ Ordered(Tail(w), r + 1)
         /\ IsDatum(f) /\ f.seq # r => f.type = "RTX" /\ f.seq < r /\ Ordered(Tail(w), r)
<1> DEFINE z == Tail(w)
           f == Head(w)
<1>1. /\ z \in Seq(Frames) /\ f \in Frames /\ Len(w) \in Nat /\ 1 \in 1 .. Len(w) /\ f = w[1]
      /\ \A i \in 1 .. Len(z) : i + 1 \in 1 .. Len(w) /\ z[i] = w[i + 1]
      /\ \A i \in 1 .. Len(w) : i # 1 => i - 1 \in 1 .. Len(z) /\ z[i - 1] = w[i]
  BY TailIndices
<1>2. /\ f # SYN0 => \A i \in Int : i >= 1 => (First0(z, i) <=> First0(w, i + 1))
      /\ f = SYN0 => \A i \in Int : i >= 1 => ~ First0(w, i + 1)
      /\ \A i, j \in Int : i >= 1 /\ j >= 1 => (Joined(z, j, i) <=> Joined(w, j + 1, i + 1))
  BY TailPlaces
<1>3. /\ IsDatum(f) => f.seq \in Nat /\ f # SYN0 /\ f.type \in {"USR", "RTX"}
      /\ \A i \in 1 .. Len(w) : IsDatum(w[i]) => w[i].seq \in Nat /\ w[i] # SYN0
  <2>1. \A i \in 1 .. Len(w) : w[i] \in Frames
    OBVIOUS
  <2> QED BY <1>1, <2>1, DatumFields
<1>4. \A i \in 1 .. Len(w) : Joined(w, 1, i) => w[1] # SYN0 /\ First0(w, i)
  BY <1>1 DEF Joined, First0
<1>5. \A i \in 1 .. Len(w) : First0(w, i) /\ IsDatum(w[i]) /\ i > 1 => Joined(w, 1, i)
  BY <1>3 DEF Joined, First0
<1> HIDE DEF z, f
<1>6. ASSUME NEW x \in Nat, x >= r \/ f = SYN0,
             f = SYN0 => x = 0,
             IsDatum(f) => f.seq < x,
             \A i \in 1 .. Len(w) : IsDatum(w[i]) /\ w[i].type = "USR" /\ i > 1 /\ First0(w, i) => x <= w[i].seq
      PROVE  Ordered(z, x)
  <2> SUFFICES ASSUME NEW i \in 1 .. Len(z), IsDatum(z[i])
               PROVE  /\ z[i].seq < HistoryCapacity
                      /\ \A s \in Nat : StartAt(z, i, x) <= s /\ s < z[i].seq =>
                           \E j \in 1 .. Len(z) : Joined(z, j, i) /\ Carries(z[j], s)
                      /\ z[i].type = "USR" =>
                           /\ StartAt(z, i, x) <= z[i].seq
                           /\ \A j \in 1 .. Len(z) : Joined(z, j, i) /\ IsDatum(z[j]) => z[j].seq < z[i].seq
    BY DEF Ordered, InOrder
  <2> DEFINE k == i + 1
  <2>1. k \in 1 .. Len(w) /\ z[i] = w[k] /\ i \in Int /\ i >= 1 /\ k > 1 /\ IsDatum(w[k])
    BY <1>1
  <2>2. /\ w[k].seq < HistoryCapacity
        /\ \A s \in Nat : StartAt(w, k, r) <= s /\ s < w[k].seq =>
             \E j \in 1 .. Len(w) : Joined(w, j, k) /\ Carries(w[j], s)
        /\ w[k].type = "USR" =>
             /\ StartAt(w, k, r) <= w[k].seq
             /\ \A j \in 1 .. Len(w) : Joined(w, j, k) /\ IsDatum(w[j]) => w[j].seq < w[k].seq
    BY <2>1 DEF Ordered, InOrder
  <2>3. StartAt(w, k, r) <= StartAt(z, i, x) /\ StartAt(z, i, x) \in Nat /\ StartAt(w, k, r) \in Nat
    <3>1. CASE f = SYN0
      <4>1. x = 0 /\ ~ First0(w, k)
        BY <1>2, <1>6, <2>1, <3>1
      <4> QED BY <4>1 DEF StartAt
    <3>2. CASE f # SYN0
      <4>1. (First0(z, i) <=> First0(w, k)) /\ x >= r
        BY <1>2, <1>6, <2>1, <3>2
      <4> QED BY <4>1 DEF StartAt
    <3> QED BY <3>1, <3>2
  <2>4. ASSUME NEW s \in Nat, StartAt(z, i, x) <= s, s < z[i].seq
        PROVE  \E j \in 1 .. Len(z) : Joined(z, j, i) /\ Carries(z[j], s)
    <3>1. w[k].seq \in Nat
      BY <1>3, <2>1
    <3>2. PICK j \in 1 .. Len(w) : Joined(w, j, k) /\ Carries(w[j], s)
      BY <2>1, <2>2, <2>3, <2>4, <3>1
    <3>3. j # 1
      <4> SUFFICES ASSUME j = 1 PROVE FALSE
        OBVIOUS
      <4>1. f # SYN0 /\ First0(w, k) /\ Carries(f, s)
        BY <1>1, <1>4, <2>1, <3>2
      <4>2. StartAt(z, i, x) = x
        BY <1>2, <2>1, <4>1 DEF StartAt
      <4>3. f.seq < x /\ f.seq = s /\ f.seq \in Nat
        BY <1>3, <1>6, <4>1 DEF Carries
      <4> QED BY <2>4, <4>2, <4>3
    <3>4. j - 1 \in 1 .. Len(z) /\ z[j - 1] = w[j] /\ (j - 1) + 1 = j
      BY <1>1, <3>3
    <3>5. Joined(z, j - 1, i)
      BY <1>2, <2>1, <3>2, <3>4
    <3> QED BY <3>2, <3>4, <3>5
  <2>5. ASSUME z[i].type = "USR"
        PROVE  /\ StartAt(z, i, x) <= z[i].seq
               /\ \A j \in 1 .. Len(z) : Joined(z, j, i) /\ IsDatum(z[j]) => z[j].seq < z[i].seq
    <3>1. w[k].type = "USR" /\ w[k].seq \in Nat
      BY <1>3, <2>1, <2>5
    <3>2. StartAt(z, i, x) <= z[i].seq
      <4>1. CASE f = SYN0
        BY <1>6, <2>1, <3>1, <4>1 DEF StartAt
      <4>2. CASE f # SYN0 /\ First0(z, i)
        <5>1. First0(w, k)
          BY <1>2, <2>1, <4>2
        <5> QED BY <1>6, <2>1, <3>1, <4>2, <5>1 DEF StartAt
      <4>3. CASE ~ First0(z, i)
        BY <2>1, <3>1, <4>3 DEF StartAt
      <4> QED BY <4>1, <4>2, <4>3
    <3>3. ASSUME NEW j \in 1 .. Len(z), Joined(z, j, i), IsDatum(z[j]) PROVE z[j].seq < z[i].seq
      <4>1. j + 1 \in 1 .. Len(w) /\ z[j] = w[j + 1] /\ j \in Int /\ j >= 1
        BY <1>1
      <4>2. Joined(w, j + 1, k)
        BY <1>2, <2>1, <3>3, <4>1
      <4> QED BY <2>1, <2>2, <3>1, <3>3, <4>1, <4>2
    <3> QED BY <3>2, <3>3
  <2> QED BY <2>1, <2>2, <2>4, <2>5
<1>7. \A i \in 1 .. Len(w) : IsDatum(w[i]) /\ w[i].type = "USR" /\ First0(w, i) =>
        r <= w[i].seq /\ (IsDatum(f) /\ i > 1 => f.seq < w[i].seq)
  <2> SUFFICES ASSUME NEW i \in 1 .. Len(w), IsDatum(w[i]), w[i].type = "USR", First0(w, i)
               PROVE  r <= w[i].seq /\ (IsDatum(f) /\ i > 1 => f.seq < w[i].seq)
    OBVIOUS
  <2>1. r <= w[i].seq /\ \A j \in 1 .. Len(w) : Joined(w, j, i) /\ IsDatum(w[j]) => w[j].seq < w[i].seq
    BY DEF Ordered, InOrder, StartAt
  <2> QED BY <1>1, <1>5, <2>1
<1>8. CASE f = SYN0
  <2>1. Ordered(z, 0)
    BY <1>3, <1>6, <1>8
  <2> QED BY <1>3, <1>8, <2>1 DEF f, z
<1>9. CASE f # SYN0 /\ ~ IsDatum(f)
  <2>1. Ordered(z, r)
    BY <1>6, <1>7, <1>9
  <2> QED BY <1>9, <2>1 DEF f, z
<1>10. CASE IsDatum(f) /\ f.seq = r
  <2>1. \A i \in 1 .. Len(w) : IsDatum(w[i]) /\ w[i].type = "USR" /\ i > 1 /\ First0(w, i) => r + 1 <= w[i].seq
    BY <1>3, <1>7, <1>10
  <2>2. Ordered(z, r + 1)
    BY <1>3, <1>6, <1>10, <2>1
  <2>3. r < HistoryCapacity
    BY <1>1, <1>10 DEF Ordered, InOrder
  <2> QED BY <1>3, <1>10, <2>2, <2>3 DEF f, z
<1>11. CASE IsDatum(f) /\ f.seq # r
  <2>1. First0(w, 1) /\ \A j \in 1 .. Len(w) : ~ Joined(w, j, 1)
    BY DEF First0, Joined
  <2>2. f.seq < r
    <3> SUFFICES ASSUME r < f.seq PROVE FALSE
      BY <1>3, <1>11
    <3> QED BY <1>1, <1>11, <2>1 DEF Ordered, InOrder, StartAt
  <2>3. f.type = "RTX"
    <3> SUFFICES ASSUME f.type = "USR" PROVE FALSE
      BY <1>3, <1>11
    <3>1. r <= f.seq
      BY <1>1, <1>7, <1>11, <2>1
    <3> QED BY <1>3, <1>11, <2>2, <3>1
  <2>4. Ordered(z, r)
    BY <1>3, <1>6, <1>7, <1>11, <2>2
  <2> QED BY <1>3, <1>11, <2>2, <2>3, <2>4 DEF f, z
<1> QED BY <1>8, <1>9, <1>10, <1>11 DEF f, z

\* Frames put on a wire leave the data that are on it where they belong.
LEMMA OrderedCat ==
  ASSUME NEW w \in Seq(Frames), NEW out \in Seq(Frames), NEW r \in Nat, Ordered(w, r),
         \A i \in 1 .. Len(w \o out) : i > Len(w) /\ IsDatum((w \o out)[i]) => InOrder(w \o out, r, i)
  PROVE  Ordered(w \o out, r)
<1> DEFINE c == w \o out
<1>1. /\ Len(w) \in Nat
      /\ \A k \in 1 .. Len(w) : k \in 1 .. Len(c) /\ c[k] = w[k]
      /\ \A k \in 1 .. Len(c) : k \in 1 .. Len(w) \/ k > Len(w)
  BY CatIndices
<1>2. \A i \in 1 .. Len(w) : (First0(c, i) <=> First0(w, i)) /\ \A j \in Int : Joined(c, j, i) <=> Joined(w, j, i)
  BY CatBefore
<1>3. \A i \in 1 .. Len(c) : i > Len(w) /\ IsDatum(c[i]) => InOrder(c, r, i)
  OBVIOUS
<1> HIDE DEF c
<1>4. ASSUME NEW i \in 1 .. Len(w), IsDatum(w[i]) PROVE InOrder(c, r, i)
  <2>1. InOrder(w, r, i)
    BY <1>4 DEF Ordered
  <2>2. StartAt(c, i, r) = StartAt(w, i, r) /\ c[i] = w[i]
    BY <1>1, <1>2 DEF StartAt
  <2>3. ASSUME NEW j \in 1 .. Len(c), Joined(c, j, i) PROVE j \in 1 .. Len(w) /\ Joined(w, j, i) /\ c[j] = w[j]
    <3>1. j < i
      BY <2>3 DEF Joined
    <3>2. j \in 1 .. Len(w)
      BY <1>1, <3>1
    <3> QED BY <1>1, <1>2, <2>3, <3>2
  <2>4. \A j \in 1 .. Len(w) : Joined(w, j, i) => j \in 1 .. Len(c) /\ Joined(c, j, i) /\ c[j] = w[j]
    BY <1>1, <1>2
  <2> QED BY <2>1, <2>2, <2>3, <2>4 DEF InOrder
<1> QED BY <1>1, <1>3, <1>4 DEF Ordered, c

\* A block of retransmitted packets from number 0 on.
AllFrom0(t, b) == [i \in 1 .. t |-> DataFrame("RTX", i - 1, b + i)]

LEMMA BlockProperties ==
  ASSUME NEW t \in Nat, NEW b \in Nat, b + t \in 0 .. MaxSent, t <= HistoryCapacity
  PROVE  /\ AllFrom0(t, b) \in Seq(Frames) /\ Len(AllFrom0(t, b)) = t
         /\ \A i \in 1 .. t : /\ AllFrom0(t, b)[i] = DataFrame("RTX", i - 1, b + i)
                              /\ AllFrom0(t, b)[i].type = "RTX" /\ AllFrom0(t, b)[i].seq = i - 1
                              /\ AllFrom0(t, b)[i].packet = b + i /\ IsDatum(AllFrom0(t, b)[i])
<1> DEFINE A == AllFrom0(t, b)
<1>1. A = [i \in 1 .. t |-> DataFrame("RTX", i - 1, b + i)]
  BY DEF AllFrom0
<1>2. \A i \in 1 .. t : DataFrame("RTX", i - 1, b + i) \in Frames
  <2> TAKE i \in 1 .. t
  <2>1. i - 1 \in Seqs
    BY HistoryAssumption, SeqRangePositive DEF Seqs
  <2>2. b + i \in Packets
    BY BoundsAssumption DEF Packets
  <2> QED BY <2>1, <2>2, FramesMade
<1>3. A \in Seq(Frames) /\ Len(A) = t /\ \A i \in 1 .. t : A[i] = DataFrame("RTX", i - 1, b + i)
  <2> HIDE DEF A
  <2>1. \A i \in 1 .. t : A[i] = DataFrame("RTX", i - 1, b + i)
    BY <1>1
  <2> QED BY <1>1, <1>2, <2>1
<1> HIDE DEF A
<1> QED BY <1>3 DEF A, DataFrame, IsDatum, DataTypes

\* What is put on a wire from the connection's first number on continues what is there.
LEMMA OrderedBlock ==
  ASSUME NEW w \in Seq(Frames), NEW pre \in Seq(Frames), NEW r \in Nat, NEW t \in Nat, NEW b \in Nat,
         b + t \in 0 .. MaxSent, t <= HistoryCapacity,
         DataFree(pre), ~ In(pre, SYN0), Ordered(w, r)
  PROVE  Ordered(w \o (pre \o AllFrom0(t, b)), r)
<1> DEFINE A == AllFrom0(t, b)
           out == pre \o A
           c == w \o out
<1>1. /\ A \in Seq(Frames) /\ Len(A) = t
      /\ \A i \in 1 .. t : A[i].type = "RTX" /\ A[i].seq = i - 1 /\ IsDatum(A[i])
  BY BlockProperties
<1> HIDE DEF A
<1>2. /\ out \in Seq(Frames) /\ Len(pre) \in Nat /\ Len(out) = Len(pre) + t
      /\ \A i \in 1 .. Len(pre) : out[i] = pre[i]
      /\ \A i \in 1 .. t : Len(pre) + i \in 1 .. Len(out) /\ out[Len(pre) + i] = A[i]
      /\ \A i \in 1 .. Len(out) : i \in 1 .. Len(pre) \/ (i > Len(pre) /\ i - Len(pre) \in 1 .. t /\ out[i] = A[i - Len(pre)])
  BY <1>1, CatIndices
<1>3. ~ In(out, SYN0)
  <2> SUFFICES ASSUME NEW i \in 1 .. Len(out), out[i] = SYN0 PROVE FALSE
    BY DEF In
  <2>1. CASE i \in 1 .. Len(pre)
    BY <1>2, <2>1 DEF In
  <2>2. CASE i - Len(pre) \in 1 .. t /\ out[i] = A[i - Len(pre)]
    BY <1>1, <2>2, SYNsDiffer
  <2> QED BY <1>2, <2>1, <2>2
<1> HIDE DEF out
<1>4. /\ c \in Seq(Frames) /\ Len(w) \in Nat /\ Len(c) = Len(w) + Len(out)
      /\ \A j \in 1 .. Len(out) : Len(w) + j \in 1 .. Len(c) /\ c[Len(w) + j] = out[j]
      /\ \A i \in 1 .. Len(c) : i \in 1 .. Len(w) \/ (i > Len(w) /\ i - Len(w) \in 1 .. Len(out) /\ c[i] = out[i - Len(w)])
  BY <1>2, CatIndices
<1>6. \A i \in 1 .. Len(c), j \in 1 .. Len(c) : j > Len(w) => (Joined(c, j, i) <=> j < i)
  BY <1>2, <1>3, CatPlaces
<1> HIDE DEF c
<1>5. ASSUME NEW i \in 1 .. Len(c), i > Len(w), IsDatum(c[i]) PROVE InOrder(c, r, i)
  <2> DEFINE k == (i - Len(w)) - Len(pre)
  <2>1. k \in 1 .. t /\ c[i] = A[k] /\ i = (Len(w) + Len(pre)) + k
    <3>1. i - Len(w) \in 1 .. Len(out) /\ c[i] = out[i - Len(w)]
      BY <1>4, <1>5
    <3>2. ~ (i - Len(w) \in 1 .. Len(pre))
      BY <1>2, <1>5, <3>1 DEF DataFree
    <3> QED BY <1>2, <1>4, <3>1, <3>2
  <2> HIDE DEF k
  <2>2. c[i].seq = k - 1 /\ c[i].type = "RTX"
    BY <1>1, <2>1
  <2>3. ASSUME NEW s \in Nat, s < k - 1 PROVE \E j \in 1 .. Len(c) : Joined(c, j, i) /\ Carries(c[j], s)
    <3> DEFINE m == s + 1
               j == Len(w) + (Len(pre) + m)
    <3>1. m \in 1 .. t /\ m < k
      BY <2>1, <2>3
    <3>2. Len(pre) + m \in 1 .. Len(out) /\ out[Len(pre) + m] = A[m]
      BY <1>2, <3>1
    <3>3. j \in 1 .. Len(c) /\ c[j] = A[m]
      BY <1>4, <3>2
    <3>4. j > Len(w) /\ j < i
      BY <1>2, <1>4, <2>1, <3>1
    <3>5. A[m].seq = s /\ IsDatum(A[m])
      BY <1>1, <3>1
    <3> HIDE DEF j, m
    <3>6. Joined(c, j, i)
      BY <1>6, <3>3, <3>4
    <3> QED BY <3>3, <3>5, <3>6 DEF Carries
  <2>4. k - 1 < HistoryCapacity
    BY <2>1, HistoryAssumption, SeqRangePositive
  <2> QED BY <2>2, <2>3, <2>4 DEF InOrder
<1> QED BY <1>2, <1>5, OrderedCat DEF c, out, A

\* What a receiver has and waits for, when the next frame is taken.
LEMMA StreamTail ==
  ASSUME NEW w \in Seq(Frames), w # << >>, NEW r \in Nat, NEW t \in Nat, NEW b \in Nat, NEW d \in Seq(Packets),
         Stream(w, r, t, b, d)
  PROVE  LET f == Head(w) IN
         /\ f = SYN0 => Stream(Tail(w), 0, t, b, d)
         /\ f # SYN0 /\ ~ IsDatum(f) => Stream(Tail(w), r, t, b, d)
         /\ IsDatum(f) /\ f.seq = r =>
              r < HistoryCapacity /\ Stream(Tail(w), r + 1, t, b, Append(d, f.packet))
         /\ IsDatum(f) /\ f.seq # r => f.type = "RTX" /\ Stream(Tail(w), r, t, b, d)
<1> DEFINE z == Tail(w)
           f == Head(w)
<1>1. /\ z \in Seq(Frames) /\ f \in Frames /\ Len(w) \in Nat /\ 1 \in 1 .. Len(w) /\ f = w[1]
      /\ \A i \in 1 .. Len(z) : i + 1 \in 1 .. Len(w) /\ z[i] = w[i + 1]
      /\ \A i \in 1 .. Len(w) : i # 1 => i - 1 \in 1 .. Len(z) /\ z[i - 1] = w[i]
  BY TailIndices
<1>2. \A i \in Int : Fresh(z, i) <=> Fresh(w, IF i >= 1 THEN i + 1 ELSE 2)
  BY TailPlaces
<1>3. (f # SYN0 => (In(w, SYN0) <=> In(z, SYN0))) /\ (f = SYN0 => In(w, SYN0))
  BY TailPlaces
<1>4. Ordered(w, r) /\ Current(w, r, t, b) /\ Received(w, r, b, d)
  BY DEF Stream
<1>5. /\ f = SYN0 => Ordered(z, 0)
      /\ f # SYN0 /\ ~ IsDatum(f) => Ordered(z, r)
      /\ IsDatum(f) /\ f.seq = r => r < HistoryCapacity /\ Ordered(z, r + 1)
      /\ IsDatum(f) /\ f.seq # r => f.type = "RTX" /\ f.seq < r /\ Ordered(z, r)
  BY <1>4, OrderedTail
<1>6. IsDatum(f) => f.seq \in Nat /\ f.packet \in Packets /\ f # SYN0
  BY <1>1, DatumFields
<1>7. f # SYN0 => (Fresh(w, 1) <=> ~ In(w, SYN0))
  BY DEF Fresh, In
<1> HIDE DEF z, f
<1>8. \A i \in 1 .. Len(z) : IsDatum(z[i]) /\ Fresh(z, i) => z[i].seq < t /\ z[i].packet = b + z[i].seq + 1
  <2> SUFFICES ASSUME NEW i \in 1 .. Len(z), IsDatum(z[i]), Fresh(z, i)
               PROVE  z[i].seq < t /\ z[i].packet = b + z[i].seq + 1
    OBVIOUS
  <2>1. i + 1 \in 1 .. Len(w) /\ z[i] = w[i + 1] /\ Fresh(w, i + 1)
    BY <1>1, <1>2
  <2> QED BY <1>4, <2>1 DEF Current
<1>9. ASSUME NEW x \in Nat, Start(z, x) >= Start(w, r), Start(z, x) <= t,
             Fresh(w, 1) /\ IsDatum(f) => f.seq < Start(z, x)
      PROVE  Current(z, x, t, b)
  <2> SUFFICES ASSUME NEW s \in Nat, Start(z, x) <= s, s < t
               PROVE  \E i \in 1 .. Len(z) : Fresh(z, i) /\ Carries(z[i], s)
    BY <1>8, <1>9 DEF Current
  <2>0. Start(w, r) \in Nat /\ Start(z, x) \in Nat
    BY DEF Start
  <2>1. PICK i \in 1 .. Len(w) : Fresh(w, i) /\ Carries(w[i], s)
    BY <1>4, <1>9, <2>0 DEF Current
  <2>2. i # 1
    <3> SUFFICES ASSUME i = 1 PROVE FALSE
      OBVIOUS
    <3>1. Fresh(w, 1) /\ IsDatum(f) /\ f.seq = s
      BY <1>1, <2>1 DEF Carries
    <3> QED BY <1>6, <1>9, <2>0, <3>1
  <2>3. i - 1 \in 1 .. Len(z) /\ z[i - 1] = w[i] /\ (i - 1) + 1 = i
    BY <1>1, <2>2
  <2>4. Fresh(z, i - 1)
    BY <1>2, <2>1, <2>3
  <2> QED BY <2>1, <2>3, <2>4
<1>10. Start(w, r) <= t /\ Start(w, r) \in Nat
  BY <1>4 DEF Current, Start
<1>11. CASE f = SYN0
  <2>1. Start(w, r) = 0 /\ Start(z, 0) = 0
    BY <1>3, <1>11 DEF Start
  <2>4. ~ Fresh(w, 1)
    <3>1. 1 \in 1 .. Len(w) /\ w[1] = SYN0 /\ 1 >= 1
      BY <1>1, <1>11
    <3> QED BY <3>1 DEF Fresh
  <2>2. Current(z, 0, t, b)
    BY <1>9, <1>10, <2>1, <2>4
  <2>3. Received(z, 0, b, d)
    BY DEF Received
  <2> QED BY <1>5, <1>6, <1>11, <2>2, <2>3 DEF z, f, Stream
<1>12. CASE f # SYN0 /\ ~ IsDatum(f)
  <2>1. Start(z, r) = Start(w, r)
    BY <1>3, <1>12 DEF Start
  <2>2. Current(z, r, t, b)
    BY <1>9, <1>10, <1>12, <2>1
  <2>3. Received(z, r, b, d)
    BY <1>3, <1>4, <1>12 DEF Received
  <2> QED BY <1>5, <1>12, <2>2, <2>3 DEF z, f, Stream
<1>13. CASE IsDatum(f) /\ f.seq = r
  <2>1. ~ In(w, SYN0) => f.seq < t /\ f.packet = b + r + 1
    BY <1>1, <1>4, <1>6, <1>7, <1>13 DEF Current
  <2>2. Start(z, r + 1) >= Start(w, r) /\ Start(z, r + 1) <= t /\ (Fresh(w, 1) => f.seq < Start(z, r + 1))
    <3>1. CASE In(w, SYN0)
      BY <1>3, <1>6, <1>7, <1>13, <3>1 DEF Start
    <3>2. CASE ~ In(w, SYN0)
      <4>1. Start(z, r + 1) = r + 1 /\ Start(w, r) = r
        BY <1>3, <1>6, <1>13, <3>2 DEF Start
      <4> QED BY <1>13, <2>1, <3>2, <4>1
    <3> QED BY <3>1, <3>2
  <2>3. Current(z, r + 1, t, b)
    BY <1>9, <2>2
  <2>4. Received(z, r + 1, b, Append(d, f.packet))
    <3> SUFFICES ASSUME ~ In(z, SYN0), NEW s \in Nat, s < r + 1
                 PROVE  \E i \in 1 .. Len(Append(d, f.packet)) : Append(d, f.packet)[i] = b + s + 1
      BY DEF Received
    <3>1. ~ In(w, SYN0)
      BY <1>3, <1>6, <1>13
    <3> DEFINE e == Append(d, f.packet)
    <3>2. Len(d) \in Nat /\ Len(e) = Len(d) + 1 /\ e[Len(d) + 1] = f.packet /\ \A i \in 1 .. Len(d) : e[i] = d[i]
      BY <1>6, <1>13
    <3> HIDE DEF e
    <3>3. CASE s = r
      BY <2>1, <3>1, <3>2, <3>3 DEF e
    <3>4. CASE s < r
      <4>1. PICK i \in 1 .. Len(d) : d[i] = b + s + 1
        BY <1>4, <3>1, <3>4 DEF Received
      <4>2. i \in 1 .. Len(e)
        BY <3>2
      <4> QED BY <3>2, <4>1, <4>2 DEF e
    <3> QED BY <3>3, <3>4
  <2> QED BY <1>5, <1>6, <1>13, <2>3, <2>4 DEF z, f, Stream
<1>14. CASE IsDatum(f) /\ f.seq # r
  <2>1. Start(z, r) = Start(w, r) /\ (Fresh(w, 1) => Start(w, r) = r)
    BY <1>3, <1>6, <1>7, <1>14 DEF Start
  <2>2. Current(z, r, t, b)
    BY <1>5, <1>9, <1>10, <1>14, <2>1
  <2>3. Received(z, r, b, d)
    BY <1>3, <1>4, <1>6, <1>14 DEF Received
  <2> QED BY <1>5, <1>6, <1>14, <2>2, <2>3 DEF z, f, Stream
<1> QED BY <1>11, <1>12, <1>13, <1>14 DEF z, f

\* Where no data are on the way, and none has been numbered.
LEMMA StreamNone ==
  ASSUME NEW w \in Seq(Frames), NEW b, NEW d, DataFree(w)
  PROVE  Stream(w, 0, 0, b, d)
<1>1. Ordered(w, 0) /\ Received(w, 0, b, d) /\ Current(w, 0, 0, b)
  BY DEF Ordered, Received, Current, DataFree, Start
<1> QED BY <1>1 DEF Stream

\* A SYN0 begins a new numbering.
LEMMA StreamSYN0 ==
  ASSUME NEW w \in Seq(Frames), NEW r \in Nat, NEW b, NEW d, Ordered(w, r)
  PROVE  Stream(w \o <<SYN0>>, r, 0, b, d)
<1> DEFINE c == w \o <<SYN0>>
<1>1. <<SYN0>> \in Seq(Frames) /\ Len(<<SYN0>>) = 1 /\ <<SYN0>>[1] = SYN0 /\ ~ IsDatum(SYN0)
  BY FramesMade, SYNsDiffer DEF IsDatum, DataTypes
<1>2. /\ Len(w) \in Nat /\ Len(c) = Len(w) + 1 /\ c[Len(w) + 1] = SYN0
      /\ \A i \in 1 .. Len(c) : i > Len(w) => c[i] = SYN0
  BY <1>1
<1>3. Ordered(c, r)
  BY <1>1, <1>2, OrderedCat
<1> HIDE DEF c
<1>4. Len(w) + 1 \in 1 .. Len(c)
  BY <1>2
<1>5. In(c, SYN0) /\ \A i \in 1 .. Len(c) : ~ Fresh(c, i)
  BY <1>2, <1>4 DEF In, Fresh
<1>6. Received(c, r, b, d) /\ Current(c, r, 0, b)
  BY <1>5 DEF Received, Current, Start
<1> QED BY <1>3, <1>6 DEF Stream, c

\* What is behind the last SYN0 of a wire is still there when frames without one are put on it.
LEMMA CurrentCat ==
  ASSUME NEW w \in Seq(Frames), NEW out \in Seq(Frames), ~ In(out, SYN0),
         NEW r \in Nat, NEW t \in Nat, NEW u \in Nat, NEW b \in Nat, Current(w, r, t, b), t <= u,
         \A j \in 1 .. Len(out) : IsDatum(out[j]) => out[j].seq < u /\ out[j].packet = b + out[j].seq + 1,
         \A s \in Nat : t <= s /\ s < u => \E j \in 1 .. Len(out) : Carries(out[j], s)
  PROVE  Current(w \o out, r, u, b)
<1> DEFINE c == w \o out
<1>1. /\ Len(w) \in Nat
      /\ \A i \in 1 .. Len(w) : i \in 1 .. Len(c) /\ c[i] = w[i]
      /\ \A j \in 1 .. Len(out) : Len(w) + j \in 1 .. Len(c) /\ c[Len(w) + j] = out[j] /\ Len(w) + j > Len(w)
      /\ \A i \in 1 .. Len(c) :
           \/ i \in 1 .. Len(w)
           \/ i > Len(w) /\ i - Len(w) \in 1 .. Len(out) /\ c[i] = out[i - Len(w)]
  BY CatIndices, SMTT(30)
<1>2. \A i \in 1 .. Len(w) : Fresh(c, i) <=> Fresh(w, i)
  <2>1. \A i \in Int : i <= Len(w) + 1 => (Fresh(c, i) <=> Fresh(w, i))
    BY CatPlaces
  <2> QED BY <1>1, <2>1
<1>3. \A i \in Int : i > Len(w) => Fresh(c, i)
  BY CatPlaces
<1>4. Start(c, r) = Start(w, r) /\ Start(w, r) \in Nat
  <2>1. In(c, SYN0) <=> In(w, SYN0)
    BY CatPlaces
  <2> QED BY <2>1 DEF Start
<1> HIDE DEF c
<1>5. Start(c, r) <= u
  BY <1>4 DEF Current
<1>6. ASSUME NEW i \in 1 .. Len(c), IsDatum(c[i]), Fresh(c, i)
      PROVE  c[i].seq < u /\ c[i].packet = b + c[i].seq + 1
  <2>1. CASE i \in 1 .. Len(w)
    <3>1. w[i] \in Frames /\ IsDatum(w[i]) /\ Fresh(w, i) /\ c[i] = w[i]
      BY <1>1, <1>2, <1>6, <2>1
    <3>2. w[i].seq < t /\ w[i].packet = b + w[i].seq + 1 /\ w[i].seq \in Nat
      BY <2>1, <3>1, DatumFields DEF Current
    <3> QED BY <3>1, <3>2
  <2>2. CASE i > Len(w) /\ i - Len(w) \in 1 .. Len(out) /\ c[i] = out[i - Len(w)]
    BY <1>6, <2>2
  <2> QED BY <1>1, <2>1, <2>2
<1>7. ASSUME NEW s \in Nat, Start(c, r) <= s, s < u
      PROVE  \E i \in 1 .. Len(c) : Fresh(c, i) /\ Carries(c[i], s)
  <2>1. CASE s < t
    <3>1. PICK i \in 1 .. Len(w) : Fresh(w, i) /\ Carries(w[i], s)
      BY <1>4, <1>7, <2>1 DEF Current
    <3> QED BY <1>1, <1>2, <3>1
  <2>2. CASE t <= s
    <3>1. PICK j \in 1 .. Len(out) : Carries(out[j], s)
      BY <1>7, <2>2
    <3>2. Len(w) + j \in 1 .. Len(c) /\ c[Len(w) + j] = out[j] /\ Len(w) + j \in Int /\ Len(w) + j > Len(w)
      BY <1>1
    <3>3. Fresh(c, Len(w) + j)
      BY <1>3, <3>2
    <3> QED BY <3>1, <3>2, <3>3
  <2> QED BY <2>1, <2>2
<1> QED BY <1>5, <1>6, <1>7 DEF Current, c

LEMMA ReceivedCat ==
  ASSUME NEW w \in Seq(Frames), NEW out \in Seq(Frames), NEW r, NEW b, NEW d, Received(w, r, b, d)
  PROVE  Received(w \o out, r, b, d)
<1>1. In(w, SYN0) => In(w \o out, SYN0)
  BY CatHas
<1> QED BY <1>1 DEF Received

\* Frames of the handshake and NAKs do not matter.
LEMMA StreamCat ==
  ASSUME NEW w \in Seq(Frames), NEW out \in Seq(Frames), DataFree(out), ~ In(out, SYN0),
         NEW r \in Nat, NEW t \in Nat, NEW b \in Nat, NEW d, Stream(w, r, t, b, d)
  PROVE  Stream(w \o out, r, t, b, d)
<1>1. Ordered(w, r) /\ Current(w, r, t, b) /\ Received(w, r, b, d)
  BY DEF Stream
<1>2. \A i \in 1 .. Len(w \o out) : i > Len(w) => ~ IsDatum((w \o out)[i])
  <2>1. \A i \in 1 .. Len(w \o out) :
          \/ i \in 1 .. Len(w)
          \/ i > Len(w) /\ i - Len(w) \in 1 .. Len(out) /\ (w \o out)[i] = out[i - Len(w)]
    BY CatIndices
  <2>2. Len(w) \in Nat
    OBVIOUS
  <2> DEFINE c == w \o out
  <2> HIDE DEF c
  <2> QED BY <2>1, <2>2 DEF DataFree, c
<1>3. Ordered(w \o out, r)
  BY <1>1, <1>2, OrderedCat
<1>4. Current(w \o out, r, t, b)
  <2>1. /\ \A j \in 1 .. Len(out) : ~ IsDatum(out[j])
        /\ \A s \in Nat : ~ (t <= s /\ s < t)
    BY DEF DataFree
  <2> QED BY <1>1, <2>1, CurrentCat
<1> QED BY <1>1, <1>3, <1>4, ReceivedCat DEF Stream

\* A SYN2, or nothing, and then all that is in the history.
LEMMA StreamBlock ==
  ASSUME NEW w \in Seq(Frames), NEW pre \in Seq(Frames), DataFree(pre), ~ In(pre, SYN0),
         NEW r \in Nat, NEW t \in Nat, NEW b \in Nat, NEW d, Stream(w, r, t, b, d),
         b + t \in 0 .. MaxSent, t <= HistoryCapacity
  PROVE  Stream(w \o (pre \o AllFrom0(t, b)), r, t, b, d)
<1> DEFINE A == AllFrom0(t, b)
           out == pre \o A
<1>1. Ordered(w, r) /\ Current(w, r, t, b) /\ Received(w, r, b, d)
  BY DEF Stream
<1>2. Ordered(w \o out, r)
  BY <1>1, OrderedBlock
<1>3. /\ A \in Seq(Frames) /\ Len(A) = t
      /\ \A i \in 1 .. t : A[i].type = "RTX" /\ A[i].seq = i - 1 /\ A[i].packet = b + i
  BY BlockProperties
<1> HIDE DEF A
<1>4. /\ out \in Seq(Frames) /\ Len(pre) \in Nat
      /\ \A i \in 1 .. Len(out) :
           (i \in 1 .. Len(pre) /\ out[i] = pre[i]) \/ (i - Len(pre) \in 1 .. t /\ out[i] = A[i - Len(pre)])
  BY <1>3, CatIndices
<1>5. ~ In(out, SYN0)
  <2>1. ~ In(A, SYN0)
    BY <1>3, SYNsDiffer DEF In
  <2> QED BY <1>3, <2>1, CatHas
<1> HIDE DEF out
<1>6. \A j \in 1 .. Len(out) : IsDatum(out[j]) => out[j].seq < t /\ out[j].packet = b + out[j].seq + 1
  <2> SUFFICES ASSUME NEW j \in 1 .. Len(out), IsDatum(out[j])
               PROVE  out[j].seq < t /\ out[j].packet = b + out[j].seq + 1
    OBVIOUS
  <2>1. j - Len(pre) \in 1 .. t /\ out[j] = A[j - Len(pre)]
    BY <1>4 DEF DataFree
  <2> QED BY <1>3, <2>1
<1>7. \A s \in Nat : ~ (t <= s /\ s < t)
  OBVIOUS
<1>8. Current(w \o out, r, t, b)
  <2>1. out \in Seq(Frames) /\ t <= t /\ Current(w, r, t, b)
    BY <1>1, <1>4
  <2> QED BY <1>5, <1>6, <1>7, <2>1, CurrentCat
<1> QED BY <1>1, <1>2, <1>4, <1>8, ReceivedCat DEF Stream, out, A

\* A packet that is written gets the next number.
LEMMA StreamWrite ==
  ASSUME NEW w \in Seq(Frames), NEW g \in Frames, NEW r \in Nat, NEW t \in Nat, NEW b \in Nat, NEW d,
         Stream(w, r, t, b, d), g.type = "USR", g.seq = t, g.packet = b + t + 1, t < HistoryCapacity
  PROVE  Stream(w \o <<g>>, r, t + 1, b, d)
<1> DEFINE out == <<g>>
           c == w \o out
<1>1. out \in Seq(Frames) /\ Len(out) = 1 /\ (\A j \in 1 .. Len(out) : out[j] = g) /\ 1 \in 1 .. Len(out)
  OBVIOUS
<1>2. ~ In(out, SYN0) /\ IsDatum(g) /\ Carries(g, t)
  BY <1>1, SYNsDiffer DEF In, IsDatum, DataTypes, Carries
<1> HIDE DEF out
<1>3. Ordered(w, r) /\ Current(w, r, t, b) /\ Received(w, r, b, d)
  BY DEF Stream
<1>4. /\ Len(w) \in Nat /\ Len(c) = Len(w) + 1
      /\ \A i \in 1 .. Len(w) : i \in 1 .. Len(c) /\ c[i] = w[i]
      /\ \A i \in 1 .. Len(c) : i \in 1 .. Len(w) \/ (i = Len(w) + 1 /\ c[i] = g)
  <2>1. \A i \in 1 .. Len(c) :
           \/ i \in 1 .. Len(w)
           \/ i > Len(w) /\ i - Len(w) \in 1 .. Len(out) /\ c[i] = out[i - Len(w)]
    BY <1>1, CatIndices
  <2>2. Len(w) \in Nat /\ Len(c) = Len(w) + Len(out)
    BY <1>1, CatIndices
  <2>3. \A i \in 1 .. Len(w) : i \in 1 .. Len(c) /\ c[i] = w[i]
    BY <1>1, CatIndices
  <2> HIDE DEF c
  <2> QED BY <1>1, <2>1, <2>2, <2>3
<1>5. \A i \in 1 .. Len(c), j \in 1 .. Len(w) : i > Len(w) => (Joined(c, j, i) <=> Fresh(w, j))
  BY <1>1, <1>2, CatPlaces
<1>6. \A i \in Int : i > Len(w) => (First0(c, i) <=> ~ In(w, SYN0))
  BY <1>1, <1>2, CatPlaces
<1> HIDE DEF c
<1>7. ASSUME NEW i \in 1 .. Len(c), i > Len(w) PROVE InOrder(c, r, i)
  <2>1. i = Len(w) + 1 /\ c[i] = g /\ i \in Int
    BY <1>4, <1>7
  <2>2. StartAt(c, i, r) = Start(w, r) /\ Start(w, r) \in Nat /\ Start(w, r) <= t
    BY <1>3, <1>6, <1>7, <2>1 DEF StartAt, Start, Current
  <2>3. ASSUME NEW s \in Nat, Start(w, r) <= s, s < t
        PROVE  \E j \in 1 .. Len(c) : Joined(c, j, i) /\ Carries(c[j], s)
    <3>1. PICK j \in 1 .. Len(w) : Fresh(w, j) /\ Carries(w[j], s)
      BY <1>3, <2>3 DEF Current
    <3> QED BY <1>4, <1>5, <1>7, <3>1
  <2>4. ASSUME NEW j \in 1 .. Len(c), Joined(c, j, i), IsDatum(c[j]) PROVE c[j].seq < t
    <3>1. j \in 1 .. Len(w)
      <4>1. j < i
        BY <2>4 DEF Joined
      <4> QED BY <1>4, <2>1, <4>1
    <3>2. Fresh(w, j) /\ IsDatum(w[j]) /\ c[j] = w[j]
      BY <1>4, <1>5, <1>7, <2>4, <3>1
    <3> QED BY <1>3, <3>1, <3>2 DEF Current
  <2> QED BY <2>1, <2>2, <2>3, <2>4 DEF InOrder
<1>8. Ordered(w \o out, r)
  BY <1>1, <1>3, <1>7, OrderedCat DEF c
<1>9. Current(w \o out, r, t + 1, b)
  <2>1. \A j \in 1 .. Len(out) : out[j].seq < t + 1 /\ out[j].packet = b + out[j].seq + 1
    BY <1>1
  <2>2. \A s \in Nat : t <= s /\ s < t + 1 => \E j \in 1 .. Len(out) : Carries(out[j], s)
    <3> SUFFICES ASSUME NEW s \in Nat, t <= s, s < t + 1 PROVE \E j \in 1 .. Len(out) : Carries(out[j], s)
      OBVIOUS
    <3>1. s = t
      OBVIOUS
    <3> QED BY <1>1, <1>2, <3>1
  <2>3. out \in Seq(Frames) /\ ~ In(out, SYN0) /\ Current(w, r, t, b) /\ t + 1 \in Nat /\ t <= t + 1
    BY <1>1, <1>2, <1>3
  <2>4. \A j \in 1 .. Len(out) : IsDatum(out[j]) => out[j].seq < t + 1 /\ out[j].packet = b + out[j].seq + 1
    BY <2>1
  <2> HIDE DEF out
  <2> QED BY <2>2, <2>3, <2>4, CurrentCat
<1> QED BY <1>1, <1>3, <1>8, <1>9, ReceivedCat DEF Stream, out

\* A receiver that is connected, or is going to be, when its frames arrive.
LEMMA AdmittingTail ==
  ASSUME NEW w \in Seq(Frames), w # << >>, NEW s, NEW q, NEW x, Admitting(w, s, q),
         q = "CONNECTED" /\ Head(w) # SYN0 => x = "CONNECTED",
         Head(w) \in {SYN1, SYN2} => x = "CONNECTED"
  PROVE  Admitting(Tail(w), s, x)
<1> DEFINE z == Tail(w)
           f == Head(w)
<1>1. /\ z \in Seq(Frames) /\ Len(w) \in Nat /\ f = w[1] /\ Len(z) = Len(w) - 1 /\ Len(w) > 0
      /\ \A i \in 1 .. Len(z) : i + 1 \in 1 .. Len(w) /\ z[i] = w[i + 1]
      /\ \A i \in 1 .. Len(w) : i # 1 => i - 1 \in 1 .. Len(z) /\ z[i - 1] = w[i]
  BY TailIndices
<1>2. /\ f # SYN0 => \A i \in Int : i >= 1 => (First0(z, i) <=> First0(w, i + 1))
      /\ f = SYN0 => \A i \in Int : i >= 1 => ~ First0(w, i + 1)
      /\ \A i, j \in Int : i >= 1 /\ j >= 1 => (Joined(z, j, i) <=> Joined(w, j + 1, i + 1))
  BY TailPlaces
<1> HIDE DEF z, f
<1>3. ASSUME NEW i \in Int, i >= 1, i <= Len(w), Admitted(w, q, i + 1) PROVE Admitted(z, x, i)
  <2>1. CASE First0(w, i + 1) /\ q = "CONNECTED"
    BY <1>2, <1>3, <2>1 DEF Admitted, f
  <2>2. CASE \E j \in 1 .. Len(w) : w[j] \in {SYN1, SYN2} /\ Joined(w, j, i + 1)
    <3>1. PICK j \in 1 .. Len(w) : w[j] \in {SYN1, SYN2} /\ Joined(w, j, i + 1)
      BY <2>2
    <3>2. CASE j = 1
      <4>1. f \in {SYN1, SYN2} /\ f # SYN0
        BY <1>1, <3>1, <3>2, SYNsDiffer
      <4>2. First0(w, i + 1)
        BY <1>1, <3>1, <3>2 DEF Joined, First0
      <4> QED BY <1>2, <1>3, <4>1, <4>2 DEF Admitted, f
    <3>3. CASE j # 1
      <4>1. j - 1 \in 1 .. Len(z) /\ z[j - 1] = w[j] /\ (j - 1) + 1 = j
        BY <1>1, <3>3
      <4>2. Joined(z, j - 1, i)
        BY <1>2, <1>3, <3>1, <4>1
      <4> QED BY <3>1, <4>1, <4>2 DEF Admitted
    <3> QED BY <3>2, <3>3
  <2> QED BY <1>3, <2>1, <2>2 DEF Admitted
<1>4. ASSUME NEW i \in 1 .. Len(z), IsDatum(z[i]) PROVE Admitted(z, x, i)
  <2>1. i + 1 \in 1 .. Len(w) /\ IsDatum(w[i + 1]) /\ i \in Int /\ i >= 1 /\ i <= Len(w)
    BY <1>1, <1>4
  <2> QED BY <1>3, <2>1 DEF Admitting
<1>5. s \in {"SENT_SYN1", "CONNECTED"} => Admitted(z, x, Len(z) + 1)
  <2>1. Len(z) + 1 = Len(w) /\ Len(w) \in Int /\ Len(w) >= 1
    BY <1>1
  <2> QED BY <1>3, <2>1 DEF Admitting
<1> QED BY <1>4, <1>5 DEF Admitting, z

LEMMA AdmittingCat ==
  ASSUME NEW w \in Seq(Frames), NEW out \in Seq(Frames), ~ In(out, SYN0), NEW s, NEW u, NEW q, Admitting(w, s, q),
         \/ u \notin {"SENT_SYN1", "CONNECTED"} /\ DataFree(out)
         \/ s \in {"SENT_SYN1", "CONNECTED"}
         \/ out # << >> /\ out[1] \in {SYN1, SYN2}
  PROVE  Admitting(w \o out, u, q)
<1> DEFINE c == w \o out
<1>1. /\ Len(w) \in Nat /\ Len(out) \in Nat /\ Len(c) = Len(w) + Len(out)
      /\ \A i \in 1 .. Len(w) : i \in 1 .. Len(c) /\ c[i] = w[i]
      /\ \A j \in 1 .. Len(out) : Len(w) + j \in 1 .. Len(c) /\ c[Len(w) + j] = out[j]
      /\ \A i \in 1 .. Len(c) :
           \/ i \in 1 .. Len(w)
           \/ i > Len(w) /\ i - Len(w) \in 1 .. Len(out) /\ c[i] = out[i - Len(w)]
  BY CatIndices
<1>2. \A i \in 1 .. Len(w) : (First0(c, i) <=> First0(w, i)) /\ \A j \in Int : Joined(c, j, i) <=> Joined(w, j, i)
  BY CatBefore
<1>3. \A i \in Int : i > Len(w) => (First0(c, i) <=> ~ In(w, SYN0))
  BY CatPlaces
<1> HIDE DEF c
<1>4. \A i \in 1 .. Len(c) : i > Len(w) => c[i] # SYN0
  <2>1. \A j \in 1 .. Len(out) : out[j] # SYN0
    BY DEF In
  <2> TAKE i \in 1 .. Len(c)
  <2> HAVE i > Len(w)
  <2>2. i - Len(w) \in 1 .. Len(out) /\ c[i] = out[i - Len(w)]
    BY <1>1
  <2> QED BY <2>1, <2>2
<1>5. \A i \in 1 .. Len(w) : Admitted(w, q, i) => Admitted(c, q, i)
  BY <1>1, <1>2 DEF Admitted
<1>6. ASSUME Admitted(w, q, Len(w) + 1), NEW i \in Int, i > Len(w) PROVE Admitted(c, q, i)
  <2>1. CASE First0(w, Len(w) + 1) /\ q = "CONNECTED"
    <3>1. ~ In(w, SYN0)
      BY <1>1, <2>1 DEF First0, In
    <3> QED BY <1>3, <1>6, <2>1, <3>1 DEF Admitted
  <2>2. CASE \E j \in 1 .. Len(w) : w[j] \in {SYN1, SYN2} /\ Joined(w, j, Len(w) + 1)
    <3>1. PICK j \in 1 .. Len(w) : w[j] \in {SYN1, SYN2} /\ Joined(w, j, Len(w) + 1)
      BY <2>2
    <3>2. Joined(c, j, i)
      BY <1>1, <1>4, <1>6, <3>1 DEF Joined
    <3> QED BY <1>1, <3>1, <3>2 DEF Admitted
  <2> QED BY <1>6, <2>1, <2>2 DEF Admitted
<1>7. ASSUME out # << >>, out[1] \in {SYN1, SYN2}, NEW i \in Int, i > Len(w) + 1 PROVE Admitted(c, q, i)
  <2>1. 1 \in 1 .. Len(out)
    BY <1>1, <1>7
  <2>2. Len(w) + 1 \in 1 .. Len(c) /\ c[Len(w) + 1] \in {SYN1, SYN2}
    BY <1>1, <1>7, <2>1
  <2>3. Joined(c, Len(w) + 1, i)
    BY <1>1, <1>4, <1>7 DEF Joined
  <2> QED BY <2>2, <2>3 DEF Admitted
<1>8. \A i \in 1 .. Len(w) : IsDatum(c[i]) => Admitted(c, q, i)
  BY <1>1, <1>5 DEF Admitting
<1>9. CASE u \notin {"SENT_SYN1", "CONNECTED"} /\ DataFree(out)
  <2>1. \A i \in 1 .. Len(c) : IsDatum(c[i]) => i \in 1 .. Len(w)
    BY <1>1, <1>9 DEF DataFree
  <2> QED BY <1>8, <1>9, <2>1 DEF Admitting, c
<1>10. CASE s \in {"SENT_SYN1", "CONNECTED"}
  <2>1. Admitted(w, q, Len(w) + 1)
    BY <1>10 DEF Admitting
  <2>2. \A i \in Int : i > Len(w) => Admitted(c, q, i)
    BY <1>6, <2>1
  <2>3. Len(c) + 1 \in Int /\ Len(c) + 1 > Len(w)
    BY <1>1
  <2> QED BY <1>1, <1>8, <2>2, <2>3 DEF Admitting, c
<1>11. CASE out # << >> /\ out[1] \in {SYN1, SYN2}
  <2>1. \A i \in Int : i > Len(w) + 1 => Admitted(c, q, i)
    BY <1>7, <1>11
  <2>2. \A i \in 1 .. Len(c) : IsDatum(c[i]) => i \in 1 .. Len(w) \/ i > Len(w) + 1
    <3> SUFFICES ASSUME NEW i \in 1 .. Len(c), IsDatum(c[i]), i > Len(w) PROVE i # Len(w) + 1
      BY <1>1
    <3> SUFFICES ASSUME i = Len(w) + 1 PROVE FALSE
      OBVIOUS
    <3>1. i - Len(w) = 1 /\ c[i] = out[1]
      BY <1>1
    <3> QED BY <1>11, <3>1, SYNsDiffer DEF IsDatum, DataTypes
  <2>3. Len(c) + 1 \in Int /\ Len(c) + 1 > Len(w) + 1
    BY <1>1, <1>11
  <2> QED BY <1>1, <1>8, <2>1, <2>2, <2>3 DEF Admitting, c
<1> QED BY <1>9, <1>10, <1>11

\* A SYN0 lets in no data.
LEMMA AdmittingSYN0 ==
  ASSUME NEW w \in Seq(Frames), NEW s, NEW u, NEW q, Admitting(w, s, q), u \notin {"SENT_SYN1", "CONNECTED"}
  PROVE  Admitting(w \o <<SYN0>>, u, q)
<1> DEFINE c == w \o <<SYN0>>
<1>1. <<SYN0>> \in Seq(Frames) /\ Len(<<SYN0>>) = 1 /\ <<SYN0>>[1] = SYN0 /\ ~ IsDatum(SYN0)
  BY FramesMade, SYNsDiffer DEF IsDatum, DataTypes
<1>2. /\ \A i \in 1 .. Len(w) : i \in 1 .. Len(c) /\ c[i] = w[i]
      /\ \A i \in 1 .. Len(c) : i \in 1 .. Len(w) \/ c[i] = SYN0
  BY <1>1
<1>3. \A i \in 1 .. Len(w) : (First0(c, i) <=> First0(w, i)) /\ \A j \in Int : Joined(c, j, i) <=> Joined(w, j, i)
  BY <1>1, CatBefore
<1> HIDE DEF c
<1>4. \A i \in 1 .. Len(w) : Admitted(w, q, i) => Admitted(c, q, i)
  BY <1>2, <1>3 DEF Admitted
<1> QED BY <1>1, <1>2, <1>4 DEF Admitting, c

\* Facts about a frame taken and about frames put on a wire, as the handshake needs them.
LEMMA TailFacts ==
  ASSUME NEW v \in Seq(Frames), v # << >>
  PROVE  /\ \A g : In(Tail(v), g) => In(v, g)
         /\ \A g : In(v, g) /\ g # Head(v) => In(Tail(v), g)
         /\ \A q : AllRefused(v, q) => AllRefused(Tail(v), q)
         /\ \A q : AllRefused(v, q) /\ Head(v) \in {SYN0, SYN1} => DataFree(Tail(v)) /\ DataFree(v)
         /\ \A q : AllRefused(v, q) /\ q # "SENT_SYN0" => DataFree(Tail(v)) /\ DataFree(v)
         /\ LastSYN1(v) => LastSYN1(Tail(v)) \/ (Head(v) = SYN1 /\ ~ In(v, SYN0))
         /\ v[Len(v)] # Head(v) => Tail(v) # << >> /\ Tail(v)[Len(Tail(v))] = v[Len(v)]
         /\ Tail(v) # << >> => Tail(v)[Len(Tail(v))] = v[Len(v)]
<1> DEFINE z == Tail(v)
           f == Head(v)
<1>1. /\ z \in Seq(Frames) /\ Len(v) \in Nat /\ Len(v) > 0 /\ f = v[1] /\ Len(z) = Len(v) - 1
      /\ \A i \in 1 .. Len(z) : i + 1 \in 1 .. Len(v) /\ z[i] = v[i + 1]
      /\ \A i \in 1 .. Len(v) : i # 1 => i - 1 \in 1 .. Len(z) /\ z[i - 1] = v[i]
  BY TailIndices
<1>2. \A i \in Int : Fresh(z, i) <=> Fresh(v, IF i >= 1 THEN i + 1 ELSE 2)
  BY TailPlaces
<1> HIDE DEF z, f
<1>3. (z = << >>) <=> Len(z) = 0
  BY <1>1
<1>4. (\A g : In(z, g) => In(v, g)) /\ (\A g : In(v, g) /\ g # f => In(z, g))
  <2>1. \A g : In(z, g) => In(v, g)
    BY <1>1 DEF In
  <2>2. \A g : In(v, g) /\ g # f => In(z, g)
    BY <1>1 DEF In
  <2> QED BY <2>1, <2>2
<1>5. ASSUME NEW q, AllRefused(v, q), NEW i \in 1 .. Len(z), IsDatum(z[i])
      PROVE  Refused(z, q, i) /\ q = "SENT_SYN0" /\ f # SYN0 /\ f # SYN1
  <2>1. i + 1 \in 1 .. Len(v) /\ z[i] = v[i + 1]
    BY <1>1
  <2>2. Refused(v, q, i + 1)
    BY <1>5, <2>1 DEF AllRefused
  <2>3. 1 \in 1 .. Len(v) /\ 1 < i + 1
    BY <1>1
  <2>4. f # SYN0 /\ f # SYN1 /\ q = "SENT_SYN0"
    BY <1>1, <2>2, <2>3 DEF Refused
  <2>5. ASSUME NEW j \in 1 .. Len(z), j < i PROVE z[j] # SYN0 /\ z[j] # SYN1
    <3>1. j + 1 \in 1 .. Len(v) /\ z[j] = v[j + 1] /\ j + 1 < i + 1
      BY <1>1, <2>5
    <3> QED BY <2>2, <3>1 DEF Refused
  <2> QED BY <2>4, <2>5 DEF Refused
<1>6. \A q : AllRefused(v, q) => AllRefused(z, q)
  BY <1>5 DEF AllRefused
<1>7. \A q : AllRefused(v, q) /\ f \in {SYN0, SYN1} => DataFree(z) /\ DataFree(v)
  <2> SUFFICES ASSUME NEW q, AllRefused(v, q), f \in {SYN0, SYN1} PROVE DataFree(z) /\ DataFree(v)
    OBVIOUS
  <2>1. DataFree(z)
    BY <1>5 DEF DataFree
  <2>2. ~ IsDatum(f)
    BY SYNsDiffer DEF IsDatum, DataTypes
  <2>3. \A i \in 1 .. Len(v) : ~ IsDatum(v[i])
    <3> TAKE i \in 1 .. Len(v)
    <3>1. CASE i = 1
      BY <1>1, <2>2, <3>1
    <3>2. CASE i # 1
      BY <1>1, <2>1, <3>2 DEF DataFree
    <3> QED BY <3>1, <3>2
  <2> QED BY <2>1, <2>3 DEF DataFree
<1>8. \A q : AllRefused(v, q) /\ q # "SENT_SYN0" => DataFree(z) /\ DataFree(v)
  <2> SUFFICES ASSUME NEW q, AllRefused(v, q), q # "SENT_SYN0" PROVE DataFree(z) /\ DataFree(v)
    OBVIOUS
  <2>1. DataFree(z)
    BY <1>5 DEF DataFree
  <2>2. DataFree(v)
    BY DEF DataFree, AllRefused, Refused
  <2> QED BY <2>1, <2>2
<1>9. LastSYN1(v) => LastSYN1(z) \/ (f = SYN1 /\ ~ In(v, SYN0))
  <2> SUFFICES ASSUME NEW j \in 1 .. Len(v), v[j] = SYN1, Fresh(v, j)
               PROVE  LastSYN1(z) \/ (f = SYN1 /\ ~ In(v, SYN0))
    BY DEF LastSYN1
  <2>1. CASE j = 1
    BY <1>1, <2>1 DEF In, Fresh
  <2>2. CASE j # 1
    <3>1. j - 1 \in 1 .. Len(z) /\ z[j - 1] = v[j] /\ (j - 1) + 1 = j /\ j - 1 >= 1
      BY <1>1, <2>2
    <3>2. Fresh(z, j - 1)
      BY <1>2, <3>1
    <3> QED BY <3>1, <3>2 DEF LastSYN1
  <2> QED BY <2>1, <2>2
<1>10. (v[Len(v)] # f => z # << >> /\ z[Len(z)] = v[Len(v)]) /\ (z # << >> => z[Len(z)] = v[Len(v)])
  <2>1. Len(v) # 1 => z # << >> /\ z[Len(z)] = v[Len(v)]
    <3> HAVE Len(v) # 1
    <3>1. Len(v) \in 1 .. Len(v) /\ Len(v) - 1 = Len(z) /\ Len(z) # 0
      BY <1>1
    <3> QED BY <1>1, <1>3, <3>1
  <2>2. Len(v) = 1 => z = << >> /\ v[Len(v)] = f
    BY <1>1, <1>3
  <2> QED BY <2>1, <2>2
<1> QED BY <1>4, <1>6, <1>7, <1>8, <1>9, <1>10 DEF z, f

LEMMA CatFacts ==
  ASSUME NEW w \in Seq(Frames), NEW out \in Seq(Frames)
  PROVE  /\ \A g : In(w \o out, g) <=> In(w, g) \/ In(out, g)
         /\ \A q : AllRefused(w, q) /\ DataFree(out) => AllRefused(w \o out, q)
         /\ DataFree(w) /\ DataFree(out) => DataFree(w \o out)
         /\ ~ In(out, SYN0) /\ LastSYN1(w) => LastSYN1(w \o out)
<1> DEFINE c == w \o out
<1>1. /\ Len(w) \in Nat
      /\ \A i \in 1 .. Len(w) : i \in 1 .. Len(c) /\ c[i] = w[i]
      /\ \A i \in 1 .. Len(c) :
           \/ i \in 1 .. Len(w)
           \/ i > Len(w) /\ i - Len(w) \in 1 .. Len(out) /\ c[i] = out[i - Len(w)]
  BY CatIndices
<1>2. \A g : In(c, g) <=> In(w, g) \/ In(out, g)
  BY CatHas
<1>3. ~ In(out, SYN0) => \A i \in Int : i <= Len(w) + 1 => (Fresh(c, i) <=> Fresh(w, i))
  BY CatPlaces
<1> HIDE DEF c
<1>4. ASSUME NEW q, AllRefused(w, q), DataFree(out), NEW i \in 1 .. Len(c), IsDatum(c[i]) PROVE Refused(c, q, i)
  <2>1. i \in 1 .. Len(w) /\ IsDatum(w[i])
    BY <1>1, <1>4 DEF DataFree
  <2>2. Refused(w, q, i)
    BY <1>4, <2>1 DEF AllRefused
  <2>3. ASSUME NEW j \in 1 .. Len(c), j < i PROVE c[j] # SYN0 /\ c[j] # SYN1
    <3>1. j \in 1 .. Len(w)
      BY <1>1, <2>1, <2>3
    <3> QED BY <1>1, <2>2, <2>3, <3>1 DEF Refused
  <2> QED BY <2>2, <2>3 DEF Refused
<1>5. DataFree(w) /\ DataFree(out) => DataFree(c)
  BY <1>1 DEF DataFree
<1>6. ~ In(out, SYN0) /\ LastSYN1(w) => LastSYN1(c)
  <2> SUFFICES ASSUME ~ In(out, SYN0), NEW j \in 1 .. Len(w), w[j] = SYN1, Fresh(w, j) PROVE LastSYN1(c)
    BY DEF LastSYN1
  <2>1. j <= Len(w) + 1 /\ j \in Int
    BY <1>1
  <2>2. Fresh(c, j)
    BY <1>3, <2>1
  <2> QED BY <1>1, <2>2 DEF LastSYN1
<1> QED BY <1>2, <1>4, <1>5, <1>6 DEF c, AllRefused

\* A single frame.
LEMMA OneFrame ==
  ASSUME NEW g \in Frames
  PROVE  /\ <<g>> \in Seq(Frames) /\ <<g>> # << >> /\ Len(<<g>>) = 1 /\ <<g>>[1] = g
         /\ \A i \in 1 .. Len(<<g>>) : <<g>>[i] = g
         /\ \A h : In(<<g>>, h) <=> g = h
         /\ ~ IsDatum(g) => DataFree(<<g>>)
         /\ \A w \in Seq(Frames) : /\ Len(w) \in Nat /\ Len(w \o <<g>>) = Len(w) + 1 /\ w \o <<g>> # << >>
                                   /\ (w \o <<g>>)[Len(w) + 1] = g
                                   /\ \A i \in 1 .. Len(w) : (w \o <<g>>)[i] = w[i]
<1>1. \A w \in Seq(Frames) : /\ Len(w) \in Nat /\ Len(w \o <<g>>) = Len(w) + 1 /\ w \o <<g>> # << >>
                             /\ (w \o <<g>>)[Len(w) + 1] = g
                             /\ \A i \in 1 .. Len(w) : (w \o <<g>>)[i] = w[i]
  <2> TAKE w \in Seq(Frames)
  <2>1. Len(w) \in Nat /\ Len(w \o <<g>>) = Len(w) + 1 /\ (w \o <<g>>)[Len(w) + 1] = g
    OBVIOUS
  <2>2. \A i \in 1 .. Len(w) : (w \o <<g>>)[i] = w[i]
    OBVIOUS
  <2>3. Len(<< >>) = 0
    OBVIOUS
  <2> QED BY <2>1, <2>2, <2>3
<1> QED BY <1>1 DEF In, DataFree

\* None of the frames of the handshake carries data.
LEMMA NoData ==
  /\ \A g \in {SYN0, SYN1, SYN2, DIS, Remnant} : ~ IsDatum(g)
  /\ \A x : ~ IsDatum(NAK(x))
  BY SYNsDiffer DEF IsDatum, DataTypes

\* A frame is taken from the wire to n, whatever is sent in return.
LEMMA CrossingTail ==
  ASSUME NEW v \in Seq(Frames), v # << >>, NEW w, NEW u, NEW s, NEW q, NEW x, Crossing(v, w, s, q),
         Head(v) = SYN0 => x \in {"SENT_SYN0", "SENT_SYN1"}
  PROVE  Crossing(Tail(v), u, x, q)
<1> DEFINE z == Tail(v)
           f == Head(v)
<1>1. /\ z \in Seq(Frames) /\ Len(v) \in Nat /\ Len(v) > 0 /\ f = v[1]
      /\ \A i \in 1 .. Len(z) : i + 1 \in 1 .. Len(v) /\ z[i] = v[i + 1] /\ i + 1 # 1 /\ i \in Int /\ i >= 1
      /\ \A i \in 1 .. Len(v) : i # 1 => i - 1 \in 1 .. Len(z) /\ z[i - 1] = v[i]
  BY TailIndices
<1>2. \A i \in Int : i >= 1 => (Fresh(z, i) <=> Fresh(v, i + 1))
  BY TailPlaces
<1>3. \A g : In(z, g) => In(v, g)
  BY TailFacts
<1> HIDE DEF z, f
<1>4. LateSYN1(v, w, s, q) /\ LateSYN2(v, q) /\ NAKsRefused(v, s) /\ RemnantsFirst(v, w, s, q) /\ ~ In(v, DIS)
  BY DEF Crossing
<1>5. LateSYN1(z, u, x, q)
  <2> SUFFICES ASSUME NEW j \in 1 .. Len(z), z[j] = SYN1, q = "SENT_SYN0" \/ ~ Fresh(z, j) PROVE FALSE
    BY DEF LateSYN1
  <2>1. j + 1 \in 1 .. Len(v) /\ v[j + 1] = SYN1 /\ j + 1 # 1 /\ (q = "SENT_SYN0" \/ ~ Fresh(v, j + 1))
    BY <1>1, <1>2
  <2> QED BY <1>4, <2>1 DEF LateSYN1
<1>6. LateSYN2(z, q)
  <2> SUFFICES ASSUME NEW j \in 1 .. Len(z), z[j] = SYN2 PROVE q # "SENT_SYN0" /\ Fresh(z, j)
    BY DEF LateSYN2
  <2>1. j + 1 \in 1 .. Len(v) /\ v[j + 1] = SYN2 /\ (Fresh(v, j + 1) => Fresh(z, j))
    BY <1>1, <1>2
  <2> QED BY <1>4, <2>1 DEF LateSYN2
<1>7. NAKsRefused(z, x)
  <2> SUFFICES ASSUME NEW i \in 1 .. Len(z), z[i].type = "NAK"
               PROVE  IF i = 1 THEN x \in {"SENT_SYN0", "SENT_SYN1"} ELSE z[i - 1] = SYN0
    BY DEF NAKsRefused
  <2>1. i + 1 \in 1 .. Len(v) /\ v[i + 1].type = "NAK" /\ i + 1 # 1 /\ (i + 1) - 1 = i
    BY <1>1
  <2>2. v[i] = SYN0
    BY <1>4, <2>1 DEF NAKsRefused
  <2>3. CASE i = 1
    BY <1>1, <2>2, <2>3 DEF f
  <2>4. CASE i # 1
    <3>1. i \in 1 .. Len(v)
      BY <1>1, <2>1
    <3> QED BY <1>1, <2>2, <2>4, <3>1
  <2> QED BY <2>3, <2>4
<1>8. RemnantsFirst(z, u, x, q)
  <2> SUFFICES ASSUME NEW i \in 1 .. Len(z), z[i].type = "BAD" PROVE FALSE
    BY DEF RemnantsFirst
  <2>1. i + 1 \in 1 .. Len(v) /\ v[i + 1].type = "BAD" /\ i + 1 # 1
    BY <1>1
  <2> QED BY <1>4, <2>1 DEF RemnantsFirst
<1> QED BY <1>3, <1>4, <1>5, <1>6, <1>7, <1>8 DEF Crossing, z

\* What is on the wire v or left of it once n has taken a frame, and the states of n then.
Taken(v, z, s, x) ==
  \/ z = v /\ x = s
  \/ v # << >> /\ z = Tail(v) /\ (Head(v) = SYN0 => x \in {"SENT_SYN0", "SENT_SYN1"})

\* A remnant at the other end is still the receiver's own fault.
LEMMA RemnantsCat ==
  ASSUME NEW v \in Seq(Frames), NEW w \in Seq(Frames), NEW out \in Seq(Frames), NEW z, NEW s, NEW q, NEW x,
         RemnantsFirst(w, v, q, s), Taken(v, z, s, x), \A j \in 1 .. Len(out) : out[j].type # "BAD"
  PROVE  RemnantsFirst(w \o out, z, q, x)
<1> DEFINE c == w \o out
<1>1. \A i \in 1 .. Len(c) : (i \in 1 .. Len(w) /\ c[i] = w[i]) \/ \E j \in 1 .. Len(out) : c[i] = out[j]
  BY CatHas
<1> HIDE DEF c
<1>2. SUFFICES ASSUME NEW i \in 1 .. Len(c), c[i].type = "BAD"
               PROVE  /\ i = 1 /\ q = "SENT_SYN0"
                      /\ IF z = << >> THEN x \in {"SENT_SYN0", "SENT_SYN1"} ELSE z[Len(z)] = SYN0
  BY DEF RemnantsFirst, c
<1>3. /\ i = 1 /\ q = "SENT_SYN0"
      /\ IF v = << >> THEN s \in {"SENT_SYN0", "SENT_SYN1"} ELSE v[Len(v)] = SYN0
  BY <1>1, <1>2 DEF RemnantsFirst
<1>4. CASE z = v /\ x = s
  BY <1>3, <1>4
<1>5. CASE v # << >> /\ z = Tail(v) /\ (Head(v) = SYN0 => x \in {"SENT_SYN0", "SENT_SYN1"})
  <2>1. v[Len(v)] = SYN0
    BY <1>3, <1>5
  <2>2. z # << >> => z[Len(z)] = v[Len(v)]
    BY <1>5, TailFacts
  <2>3. Head(v) # SYN0 => z # << >>
    BY <1>5, <2>1, TailFacts
  <2> QED BY <1>3, <1>5, <2>1, <2>2, <2>3
<1> QED BY <1>4, <1>5 DEF Taken

\* The other wire when n, which is not in SENT_SYN0 then, puts frames on it.
LEMMA CrossingCat ==
  ASSUME NEW v \in Seq(Frames), NEW w \in Seq(Frames), NEW out \in Seq(Frames), NEW z, NEW s, NEW q, NEW x,
         Crossing(w, v, q, s), Taken(v, z, s, x), x # "SENT_SYN0",
         \A j \in 1 .. Len(out) : out[j] \notin {SYN0, DIS} /\ out[j].type \notin {"NAK", "BAD"},
         \A j \in 1 .. Len(w) : w[j] = SYN1 => Fresh(w, j)
  PROVE  Crossing(w \o out, z, q, x)
<1> DEFINE c == w \o out
<1>1. /\ Len(w) \in Nat
      /\ \A i \in 1 .. Len(w) : i \in 1 .. Len(c) /\ c[i] = w[i]
      /\ \A i \in 1 .. Len(c) :
           \/ i \in 1 .. Len(w)
           \/ i > Len(w) /\ i - Len(w) \in 1 .. Len(out) /\ c[i] = out[i - Len(w)]
  BY CatIndices
<1>2. ~ In(out, SYN0) /\ ~ In(out, DIS)
  BY DEF In
<1>3. /\ \A i \in Int : i <= Len(w) + 1 => (Fresh(c, i) <=> Fresh(w, i))
      /\ \A i \in Int : i > Len(w) => Fresh(c, i)
  BY <1>2, CatPlaces
<1>4. LateSYN1(w, v, q, s) /\ LateSYN2(w, s) /\ NAKsRefused(w, q) /\ RemnantsFirst(w, v, q, s) /\ ~ In(w, DIS)
  BY DEF Crossing
<1>5. RemnantsFirst(c, z, q, x)
  BY <1>4, RemnantsCat
<1>6. ~ In(c, DIS)
  BY <1>2, <1>4, CatHas
<1> HIDE DEF c
<1>7. \A j \in 1 .. Len(c) : c[j] \in {SYN1, SYN2} => Fresh(c, j)
  <2> SUFFICES ASSUME NEW j \in 1 .. Len(c), c[j] \in {SYN1, SYN2} PROVE Fresh(c, j)
    OBVIOUS
  <2>1. CASE j \in 1 .. Len(w)
    <3>1. Fresh(w, j)
      BY <1>1, <1>4, <2>1 DEF LateSYN2
    <3> QED BY <1>1, <1>3, <2>1, <3>1
  <2>2. CASE j > Len(w)
    BY <1>3, <2>2
  <2> QED BY <1>1, <2>1, <2>2
<1>8. NAKsRefused(c, q)
  <2> SUFFICES ASSUME NEW i \in 1 .. Len(c), c[i].type = "NAK"
               PROVE  IF i = 1 THEN q \in {"SENT_SYN0", "SENT_SYN1"} ELSE c[i - 1] = SYN0
    BY DEF NAKsRefused
  <2>1. i \in 1 .. Len(w) /\ w[i].type = "NAK"
    BY <1>1
  <2>2. i # 1 => i - 1 \in 1 .. Len(w)
    BY <2>1
  <2> QED BY <1>1, <1>4, <2>1, <2>2 DEF NAKsRefused
<1>9. LateSYN1(c, z, q, x) /\ LateSYN2(c, x)
  BY <1>7 DEF LateSYN1, LateSYN2
<1> QED BY <1>5, <1>6, <1>8, <1>9 DEF Crossing, c

\* The other wire when n, in SENT_SYN0, takes a frame and puts a SYN0 or a NAK on it.
LEMMA CrossingWait ==
  ASSUME NEW v \in Seq(Frames), v # << >>, NEW w \in Seq(Frames), NEW g \in Frames, NEW q,
         Crossing(w, v, q, "SENT_SYN0"),
         \/ g = SYN0
         \/ g.type = "NAK" /\ IF w = << >> THEN q \in {"SENT_SYN0", "SENT_SYN1"} ELSE w[Len(w)] = SYN0
  PROVE  Crossing(w \o <<g>>, Tail(v), q, "SENT_SYN0")
<1> DEFINE c == w \o <<g>>
           z == Tail(v)
<1>0. g # DIS /\ g # SYN1 /\ g # SYN2 /\ g.type # "BAD" /\ (g.type = "NAK" => g # SYN0) /\ SYN0.type # "NAK"
  BY SYNsDiffer
<1>1. /\ Len(w) \in Nat /\ Len(c) = Len(w) + 1 /\ c[Len(w) + 1] = g
      /\ \A i \in 1 .. Len(w) : i \in 1 .. Len(c) /\ c[i] = w[i]
      /\ \A i \in 1 .. Len(c) : i \in 1 .. Len(w) \/ (i = Len(w) + 1 /\ c[i] = g)
  <2>1. /\ Len(w) \in Nat /\ Len(c) = Len(w) + 1 /\ c[Len(w) + 1] = g
        /\ \A i \in 1 .. Len(w) : c[i] = w[i]
    BY OneFrame
  <2> HIDE DEF c
  <2> QED BY <2>1
<1>2. LateSYN1(w, v, q, "SENT_SYN0") /\ LateSYN2(w, "SENT_SYN0") /\ NAKsRefused(w, q)
      /\ RemnantsFirst(w, v, q, "SENT_SYN0") /\ ~ In(w, DIS)
  BY DEF Crossing
<1>3. RemnantsFirst(c, z, q, "SENT_SYN0")
  <2>1. \A j \in 1 .. Len(<<g>>) : <<g>>[j].type # "BAD"
    BY <1>0
  <2>2. Taken(v, z, "SENT_SYN0", "SENT_SYN0") /\ <<g>> \in Seq(Frames)
    BY DEF Taken
  <2> QED BY <1>2, <2>1, <2>2, RemnantsCat
<1>4. \A h : In(c, h) <=> In(w, h) \/ g = h
  BY OneFrame, CatFacts
<1>5. \A h : In(z, h) => In(v, h)
  BY TailFacts
<1> HIDE DEF c, z
<1>6. LateSYN1(c, z, q, "SENT_SYN0")
  <2> SUFFICES ASSUME NEW j \in 1 .. Len(c), c[j] = SYN1
               PROVE  j = 1 /\ q = "SENT_SYN0" /\ In(c, SYN0) /\ ~ In(z, SYN0) /\ ~ In(z, SYN1)
    BY DEF LateSYN1
  <2>1. j \in 1 .. Len(w) /\ w[j] = SYN1
    BY <1>0, <1>1
  <2> QED BY <1>2, <1>4, <1>5, <2>1 DEF LateSYN1
<1>7. LateSYN2(c, "SENT_SYN0")
  <2> SUFFICES ASSUME NEW j \in 1 .. Len(c), c[j] = SYN2 PROVE FALSE
    BY DEF LateSYN2
  <2>1. j \in 1 .. Len(w) /\ w[j] = SYN2
    BY <1>0, <1>1
  <2> QED BY <1>2, <2>1 DEF LateSYN2
<1>8. NAKsRefused(c, q)
  <2> SUFFICES ASSUME NEW i \in 1 .. Len(c), c[i].type = "NAK"
               PROVE  IF i = 1 THEN q \in {"SENT_SYN0", "SENT_SYN1"} ELSE c[i - 1] = SYN0
    BY DEF NAKsRefused
  <2>1. CASE i \in 1 .. Len(w)
    <3>1. i # 1 => i - 1 \in 1 .. Len(w)
      BY <2>1
    <3> QED BY <1>1, <1>2, <2>1, <3>1 DEF NAKsRefused
  <2>2. CASE i = Len(w) + 1 /\ c[i] = g
    <3>1. IF w = << >> THEN q \in {"SENT_SYN0", "SENT_SYN1"} ELSE w[Len(w)] = SYN0
      BY <1>0, <2>2
    <3>2. CASE w = << >>
      <4>1. i = 1
        BY <2>2, <3>2
      <4> QED BY <3>1, <3>2, <4>1
    <3>3. CASE w # << >>
      <4>1. i # 1 /\ i - 1 = Len(w) /\ Len(w) \in 1 .. Len(w)
        BY <1>1, <2>2, <3>3
      <4> QED BY <1>1, <3>1, <3>3, <4>1
    <3> QED BY <3>2, <3>3
  <2> QED BY <1>1, <2>1, <2>2
<1> QED BY <1>0, <1>2, <1>3, <1>4, <1>6, <1>7, <1>8 DEF Crossing, c, z

-----------------------------------------------------------------------------
\* n takes a frame that is no SYN0, and that changes nothing about what it sends.
LEMMA SendingTail ==
  ASSUME NEW v \in Seq(Frames), v # << >>, Head(v) # SYN0, NEW w, NEW s, NEW q, NEW t, NEW r, NEW b, NEW d,
         Flow(w, v, s, q, t, r, b, d)
  PROVE  Flow(w, Tail(v), s, q, t, r, b, d)
<1>1. In(v, SYN0) <=> In(Tail(v), SYN0)
  BY TailPlaces
<1> QED BY <1>1 DEF Flow, Resetting, Settled, Pending

\* n sends frames without data, which are no SYN0.
LEMMA SendingCat ==
  ASSUME NEW w \in Seq(Frames), NEW out \in Seq(Frames), NEW v, NEW s, NEW q, NEW t \in Nat, NEW r \in Nat,
         NEW b \in Nat, NEW d,
         DataFree(out), ~ In(out, SYN0), s = "CONNECTED" => ~ In(out, SYN1), Flow(w, v, s, q, t, r, b, d)
  PROVE  Flow(w \o out, v, s, q, t, r, b, d)
<1>1. CASE Pending(v, q)
  <2>1. /\ AllRefused(w \o out, q)
        /\ \A g : In(w \o out, g) <=> In(w, g) \/ In(out, g)
        /\ LastSYN1(w) => LastSYN1(w \o out)
    BY <1>1, CatFacts DEF Flow, Resetting
  <2> QED BY <1>1, <2>1 DEF Flow, Resetting, Settled
<1>2. CASE ~ Pending(v, q)
  <2>1. Stream(w, r, t, b, d) /\ Admitting(w, s, q)
    BY <1>2 DEF Flow, Settled
  <2>2. Stream(w \o out, r, t, b, d)
    BY <2>1, StreamCat
  <2>3. Admitting(w \o out, s, q)
    BY <2>1, AdmittingCat
  <2> QED BY <1>2, <2>2, <2>3 DEF Flow, Resetting, Settled
<1> QED BY <1>1, <1>2

\* n, which has numbered nothing, sends a SYN0 again.
LEMMA SendingSYN0 ==
  ASSUME NEW w \in Seq(Frames), NEW v, NEW q, NEW r \in Nat, NEW b \in Nat, NEW d,
         Flow(w, v, "SENT_SYN0", q, 0, r, b, d)
  PROVE  Flow(w \o <<SYN0>>, v, "SENT_SYN0", q, 0, r, b, d)
<1>0. SYN0 \in Frames /\ ~ IsDatum(SYN0)
  BY FramesMade, NoData
<1>1. CASE Pending(v, q)
  <2>1. <<SYN0>> \in Seq(Frames) /\ DataFree(<<SYN0>>)
    BY <1>0, OneFrame
  <2>2. AllRefused(w \o <<SYN0>>, q)
    BY <1>1, <2>1, CatFacts DEF Flow, Resetting
  <2> QED BY <1>1, <2>2 DEF Flow, Resetting, Settled
<1>2. CASE ~ Pending(v, q)
  <2>1. Ordered(w, r) /\ Admitting(w, "SENT_SYN0", q)
    BY <1>2 DEF Flow, Settled, Stream
  <2>2. Stream(w \o <<SYN0>>, r, 0, b, d)
    BY <2>1, StreamSYN0
  <2>3. Admitting(w \o <<SYN0>>, "SENT_SYN0", q)
    BY <2>1, AdmittingSYN0
  <2> QED BY <1>2, <2>2, <2>3 DEF Flow, Resetting, Settled
<1> QED BY <1>1, <1>2

\* n takes a SYN0: what it sends begins anew.
LEMMA SendingAfterSYN0 ==
  ASSUME NEW v \in Seq(Frames), v # << >>, Head(v) = SYN0, NEW w \in Seq(Frames),
         NEW s, NEW q, NEW t \in Nat, NEW r \in Nat, NEW b, NEW c \in Nat, NEW d,
         Flow(w, v, s, q, t, r, b, d)
  PROVE  Flow(w \o <<SYN1>>, Tail(v), "SENT_SYN1", q, 0, r, c, d)
<1> DEFINE z == Tail(v)
           u == w \o <<SYN1>>
<1>0. SYN1 \in Frames /\ ~ IsDatum(SYN1) /\ SYN1 # SYN0
  BY FramesMade, NoData, SYNsDiffer
<1>1. <<SYN1>> \in Seq(Frames) /\ DataFree(<<SYN1>>) /\ ~ In(<<SYN1>>, SYN0)
  BY <1>0, OneFrame
<1>2. In(v, SYN0) /\ Pending(v, q)
  BY TailPlaces DEF Pending
<1>3. AllRefused(w, q) /\ r = 0
  BY <1>2 DEF Flow, Resetting
<1>4. AllRefused(u, q)
  BY <1>1, <1>3, CatFacts
<1>5. LastSYN1(u)
  <2>1. Len(w) \in Nat /\ Len(u) = Len(w) + 1 /\ u[Len(w) + 1] = SYN1
    BY <1>0, OneFrame
  <2> HIDE DEF u
  <2>2. Len(w) + 1 \in 1 .. Len(u)
    BY <2>1
  <2>3. Fresh(u, Len(w) + 1)
    <3> SUFFICES ASSUME NEW j \in 1 .. Len(u), j >= Len(w) + 1 PROVE u[j] # SYN0
      BY DEF Fresh
    <3>1. j = Len(w) + 1
      BY <2>1
    <3> QED BY <1>0, <2>1, <3>1
  <2> QED BY <2>1, <2>2, <2>3 DEF LastSYN1
<1>6. Resetting(u, z, "SENT_SYN1", q, 0, r)
  BY <1>3, <1>4, <1>5 DEF Resetting
<1>7. ASSUME ~ Pending(z, q) PROVE Stream(u, r, 0, c, d) /\ Admitting(u, "SENT_SYN1", q)
  <2>1. \A i \in 1 .. Len(w) : ~ IsDatum(w[i])
    BY <1>3, <1>7 DEF AllRefused, Refused, Pending
  <2>2. DataFree(u)
    BY <1>1, <2>1, CatFacts DEF DataFree
  <2>3. Stream(u, 0, 0, c, d)
    <3>1. u \in Seq(Frames)
      BY <1>1
    <3> HIDE DEF u
    <3> QED BY <2>2, <3>1, StreamNone
  <2>4. Admitting(w, "SENT_SYN0", q)
    BY <2>1 DEF Admitting
  <2>5. <<SYN1>> # << >> /\ <<SYN1>>[1] \in {SYN1, SYN2}
    BY <1>0, OneFrame
  <2>6. Admitting(u, "SENT_SYN1", q)
    BY <1>1, <2>4, <2>5, AdmittingCat
  <2> QED BY <1>3, <2>3, <2>6
<1> QED BY <1>6, <1>7 DEF Flow, Settled

\* n takes a SYN0: what it receives begins anew.
LEMMA ReceivingAfterSYN0 ==
  ASSUME NEW v \in Seq(Frames), v # << >>, Head(v) = SYN0, NEW w \in Seq(Frames),
         NEW s, NEW q, NEW t \in Nat, NEW r \in Nat, NEW b \in Nat, NEW d \in Seq(Packets),
         Flow(v, w, q, s, t, r, b, d)
  PROVE  Flow(Tail(v), w \o <<SYN1>>, q, "SENT_SYN1", t, 0, b, d)
<1> DEFINE z == Tail(v)
           u == w \o <<SYN1>>
<1>0. SYN1 \in Frames /\ SYN1 # SYN0 /\ SYN1 # SYN2 /\ SYN0 \notin {SYN1, SYN2} /\ <<SYN1>> \in Seq(Frames)
  BY FramesMade, SYNsDiffer
<1>1. In(u, SYN0) <=> In(w, SYN0)
  BY <1>0, OneFrame, CatFacts
<1>2. In(v, SYN0) /\ z \in Seq(Frames)
  BY TailPlaces, TailFacts, SMTT(30)
<1>3. Pending(u, "SENT_SYN1") => Pending(w, s) /\ In(u, SYN0)
  BY <1>1 DEF Pending
<1> HIDE DEF u
<1>4. ASSUME Pending(w, s)
      PROVE  /\ DataFree(z) /\ r = 0 /\ q # "CONNECTED"
             /\ ~ In(w, SYN0) => t = 0 /\ q \in {"SENT_SYN0", "SENT_SYN1"} /\ (q = "SENT_SYN1" => LastSYN1(z))
  <2>1. /\ AllRefused(v, s) /\ r = 0 /\ (q = "CONNECTED" => ~ In(v, SYN0))
        /\ ~ In(w, SYN0) => t = 0 /\ q \in {"SENT_SYN0", "SENT_SYN1"} /\ (q = "SENT_SYN1" => LastSYN1(v))
    BY <1>4 DEF Flow, Resetting
  <2>2. DataFree(z)
    BY <2>1, TailFacts
  <2>3. LastSYN1(v) => LastSYN1(z)
    BY <1>0, TailFacts
  <2> QED BY <1>2, <2>1, <2>2, <2>3
<1>5. Resetting(z, u, q, "SENT_SYN1", t, 0)
  <2>1. DataFree(z) => AllRefused(z, "SENT_SYN1")
    BY DEF DataFree, AllRefused
  <2> QED BY <1>3, <1>4, <2>1 DEF Resetting
<1>6. ASSUME ~ Pending(u, "SENT_SYN1") PROVE Stream(z, 0, t, b, d) /\ Admitting(z, q, "SENT_SYN1")
  <2>1. ~ In(w, SYN0)
    BY <1>1, <1>6 DEF Pending
  <2>2. CASE Pending(w, s)
    <3>1. Stream(z, 0, t, b, d)
      BY <1>2, <1>4, <2>1, <2>2, StreamNone
    <3>2. LastSYN1(z) => Admitted(z, "SENT_SYN1", Len(z) + 1)
      <4> SUFFICES ASSUME NEW j \in 1 .. Len(z), z[j] = SYN1, Fresh(z, j)
                   PROVE  Joined(z, j, Len(z) + 1)
        BY DEF LastSYN1, Admitted
      <4>1. Len(z) \in Nat
        BY <1>2
      <4> QED BY <4>1 DEF Joined, Fresh
    <3>3. Admitting(z, q, "SENT_SYN1")
      BY <1>4, <2>1, <2>2, <3>2 DEF Admitting, DataFree
    <3> QED BY <3>1, <3>3
  <2>3. CASE ~ Pending(w, s)
    <3>1. Stream(v, r, t, b, d) /\ Admitting(v, q, s)
      BY <2>3 DEF Flow, Settled
    <3>2. Stream(z, 0, t, b, d)
      BY <3>1, StreamTail
    <3>3. Admitting(z, q, "SENT_SYN1")
      BY <1>0, <3>1, AdmittingTail
    <3> QED BY <3>2, <3>3
  <2> QED BY <2>2, <2>3
<1> QED BY <1>5, <1>6 DEF Flow, Settled, u

\* n takes a SYN1 or SYN2 and is connected: it sends all that its history holds.
LEMMA SendingConnected ==
  ASSUME NEW v \in Seq(Frames), v # << >>, NEW w \in Seq(Frames), NEW pre \in Seq(Frames),
         NEW s, NEW q, NEW t \in Nat, NEW r \in Nat, NEW b \in Nat, NEW d,
         Flow(w, v, s, q, t, r, b, d), Crossing(v, w, s, q), s # "CONNECTED" => t = 0,
         b + t \in 0 .. MaxSent, t <= HistoryCapacity,
         \/ Head(v) = SYN1 /\ pre = <<SYN2>>
         \/ Head(v) = SYN2 /\ pre = << >> /\ s \in {"SENT_SYN1", "CONNECTED"}
  PROVE  Flow(w \o (pre \o AllFrom0(t, b)), Tail(v), "CONNECTED", q, t, r, b, d)
<1> DEFINE z == Tail(v)
           A == AllFrom0(t, b)
           out == pre \o A
           u == w \o out
<1>1. Head(v) # SYN0 /\ Head(v) = v[1] /\ 1 \in 1 .. Len(v)
  BY TailIndices, SYNsDiffer
<1>2. In(v, SYN0) <=> In(z, SYN0)
  BY <1>1, TailPlaces
<1>3. DataFree(pre) /\ ~ In(pre, SYN0) /\ ~ In(pre, SYN1)
  <2>1. CASE pre = <<SYN2>>
    BY <2>1, FramesMade, NoData, OneFrame, SYNsDiffer
  <2>2. CASE pre = << >>
    BY <2>2 DEF DataFree, In
  <2> QED BY <2>1, <2>2
<1>4. A \in Seq(Frames) /\ Len(A) = t /\ \A i \in 1 .. t : A[i].type = "RTX"
  BY BlockProperties
<1> HIDE DEF A
<1>5. out \in Seq(Frames) /\ ~ In(out, SYN0) /\ ~ In(out, SYN1)
  <2>1. ~ In(A, SYN0) /\ ~ In(A, SYN1)
    BY <1>4, SYNsDiffer DEF In
  <2> QED BY <1>3, <1>4, <2>1, CatFacts
<1>6. ASSUME Pending(z, q)
      PROVE  AllRefused(u, q) /\ r = 0 /\ q = "SENT_SYN0" /\ ~ In(u, SYN0) /\ ~ In(u, SYN1) /\ In(z, SYN0)
  <2>1. Pending(v, q)
    BY <1>2, <1>6 DEF Pending
  <2>2. q = "SENT_SYN0" \/ ~ Fresh(v, 1)
    BY <1>2, <1>6 DEF Pending, Fresh, In
  <2>3. Head(v) = SYN1
    BY <1>1, <2>2 DEF Crossing, LateSYN2
  <2>4. q = "SENT_SYN0" /\ s = "SENT_SYN0" /\ In(v, SYN0) /\ ~ In(w, SYN0) /\ ~ In(w, SYN1)
    BY <1>1, <2>2, <2>3 DEF Crossing, LateSYN1
  <2>5. t = 0
    BY <2>4
  <2>6. DataFree(out)
    <3>1. DataFree(A)
      BY <1>4, <2>5 DEF DataFree
    <3> QED BY <1>3, <1>4, <3>1, CatFacts
  <2>7. AllRefused(w, q) /\ r = 0
    BY <2>1 DEF Flow, Resetting
  <2>8. AllRefused(u, q)
    BY <1>5, <2>6, <2>7, CatFacts
  <2>9. ~ In(u, SYN0) /\ ~ In(u, SYN1)
    BY <1>5, <2>4, CatFacts
  <2> QED BY <1>2, <2>4, <2>7, <2>8, <2>9
<1>7. ASSUME ~ Pending(z, q) PROVE Stream(u, r, t, b, d) /\ Admitting(u, "CONNECTED", q)
  <2>1. Stream(w, r, t, b, d) /\ Admitting(w, s, q)
    BY <1>2, <1>7 DEF Flow, Settled, Pending
  <2>2. Stream(u, r, t, b, d)
    BY <1>3, <2>1, StreamBlock DEF A
  <2>3. s \in {"SENT_SYN1", "CONNECTED"} \/ (out # << >> /\ out[1] \in {SYN1, SYN2})
    <3> SUFFICES ASSUME pre = <<SYN2>> PROVE out # << >> /\ out[1] = SYN2
      OBVIOUS
    <3>1. pre[1] = SYN2 /\ Len(pre) = 1
      OBVIOUS
    <3>2. Len(out) = Len(pre) + t /\ \A i \in 1 .. Len(pre) : out[i] = pre[i]
      BY <1>4, CatIndices
    <3> HIDE DEF out
    <3> QED BY <1>5, <3>1, <3>2
  <2>4. Admitting(u, "CONNECTED", q)
    BY <1>5, <2>1, <2>3, AdmittingCat
  <2> QED BY <2>2, <2>4
<1>8. Resetting(u, z, "CONNECTED", q, t, r)
  BY <1>6 DEF Resetting
<1> QED BY <1>7, <1>8 DEF Flow, Settled, A

\* n takes a SYN1 or SYN2 and is connected: from now on it accepts data.
LEMMA ReceivingConnected ==
  ASSUME NEW v \in Seq(Frames), v # << >>, NEW w \in Seq(Frames), NEW out \in Seq(Frames), ~ In(out, SYN0),
         NEW s, NEW q, NEW t \in Nat, NEW r \in Nat, NEW b \in Nat, NEW d \in Seq(Packets),
         Flow(v, w, q, s, t, r, b, d),
         Head(v) = SYN1 \/ (Head(v) = SYN2 /\ s \in {"SENT_SYN1", "CONNECTED"})
  PROVE  Flow(Tail(v), w \o out, q, "CONNECTED", t, r, b, d)
<1> DEFINE z == Tail(v)
           u == w \o out
           f == Head(v)
<1>0. f # SYN0 /\ ~ IsDatum(f) /\ f \in {SYN1, SYN2} /\ (f = SYN1 => f # SYN2)
  BY NoData, SYNsDiffer
<1>1. (In(u, SYN0) <=> In(w, SYN0)) /\ (In(v, SYN0) <=> In(z, SYN0)) /\ z \in Seq(Frames)
  <2>1. In(u, SYN0) <=> In(w, SYN0)
    BY CatFacts
  <2>2. z \in Seq(Frames)
    BY TailIndices
  <2> QED BY <1>0, <2>1, <2>2, TailPlaces
<1> HIDE DEF u
<1>2. ASSUME Pending(w, s) PROVE DataFree(z) /\ r = 0 /\ q # "CONNECTED"
                                 /\ (~ In(w, SYN0) => t = 0 /\ (q = "SENT_SYN1" => LastSYN1(v)))
  <2>1. /\ AllRefused(v, s) /\ r = 0 /\ (q = "CONNECTED" => s = "SENT_SYN0" /\ ~ In(v, SYN1))
        /\ ~ In(w, SYN0) => t = 0 /\ (q = "SENT_SYN1" => LastSYN1(v))
    BY <1>2 DEF Flow, Resetting
  <2>2. DataFree(z)
    BY <2>1, TailFacts
  <2>3. 1 \in 1 .. Len(v) /\ v[1] = f
    BY TailIndices
  <2>4. f = SYN1 => In(v, SYN1)
    BY <2>3 DEF In
  <2> QED BY <2>1, <2>2, <2>4
<1>3. Resetting(z, u, q, "CONNECTED", t, r)
  <2>1. DataFree(z) => AllRefused(z, "CONNECTED")
    BY DEF DataFree, AllRefused
  <2>2. Pending(u, "CONNECTED") => Pending(w, s) /\ In(u, SYN0)
    BY <1>1 DEF Pending
  <2> QED BY <1>2, <2>1, <2>2 DEF Resetting
<1>4. ASSUME ~ Pending(u, "CONNECTED") PROVE Stream(z, r, t, b, d) /\ Admitting(z, q, "CONNECTED")
  <2>1. ~ In(w, SYN0)
    BY <1>1, <1>4 DEF Pending
  <2>2. CASE Pending(w, s)
    <3>1. Stream(z, r, t, b, d)
      BY <1>1, <1>2, <2>1, <2>2, StreamNone
    <3>2. q = "SENT_SYN1" => Admitted(z, "CONNECTED", Len(z) + 1)
      <4> HAVE q = "SENT_SYN1"
      <4>1. LastSYN1(z) \/ ~ In(z, SYN0)
        BY <1>1, <1>2, <2>1, <2>2, TailFacts
      <4>2. Len(z) \in Nat
        BY <1>1
      <4>3. CASE ~ In(z, SYN0)
        BY <4>2, <4>3 DEF Admitted, First0, In
      <4>4. CASE LastSYN1(z)
        <5>1. PICK j \in 1 .. Len(z) : z[j] = SYN1 /\ Fresh(z, j)
          BY <4>4 DEF LastSYN1
        <5>2. Joined(z, j, Len(z) + 1)
          BY <4>2, <5>1 DEF Joined, Fresh
        <5> QED BY <5>1, <5>2 DEF Admitted
      <4> QED BY <4>1, <4>3, <4>4
    <3>3. Admitting(z, q, "CONNECTED")
      BY <1>2, <2>1, <2>2, <3>2 DEF Admitting, DataFree
    <3> QED BY <3>1, <3>3
  <2>3. CASE ~ Pending(w, s)
    <3>1. Stream(v, r, t, b, d) /\ Admitting(v, q, s)
      BY <2>3 DEF Flow, Settled
    <3>2. Stream(z, r, t, b, d)
      BY <1>0, <3>1, StreamTail
    <3>3. Admitting(z, q, "CONNECTED")
      BY <3>1, AdmittingTail
    <3> QED BY <3>2, <3>3
  <2> QED BY <2>2, <2>3
<1> QED BY <1>3, <1>4 DEF Flow, Settled, u

\* n waits for the answer to its SYN0 and takes something else.
LEMMA ReceivingInSYN0 ==
  ASSUME NEW v \in Seq(Frames), v # << >>, NEW w \in Seq(Frames), NEW out \in Seq(Frames),
         NEW q, NEW t \in Nat, NEW r \in Nat, NEW b \in Nat, NEW d,
         Flow(v, w, q, "SENT_SYN0", t, r, b, d), Head(v) \notin {SYN0, SYN1}
  PROVE  Flow(Tail(v), w \o out, q, "SENT_SYN0", t, r, b, d)
<1> DEFINE z == Tail(v)
           u == w \o out
<1>1. In(w, SYN0) => In(u, SYN0)
  BY CatFacts
<1>2. /\ \A g : In(z, g) => In(v, g)
      /\ AllRefused(v, "SENT_SYN0") => AllRefused(z, "SENT_SYN0")
      /\ LastSYN1(v) => LastSYN1(z)
  BY TailFacts
<1>3. \A x : Pending(x, "SENT_SYN0")
  BY DEF Pending
<1> HIDE DEF u, z
<1>4. Resetting(z, u, q, "SENT_SYN0", t, r)
  BY <1>1, <1>2, <1>3 DEF Flow, Resetting
<1> QED BY <1>3, <1>4 DEF Flow, Settled, u, z

\* n has sent a SYN1, waits for the answer and takes something else: it is no data.
LEMMA ReceivingInSYN1 ==
  ASSUME NEW v \in Seq(Frames), v # << >>, NEW w \in Seq(Frames), NEW out \in Seq(Frames), ~ In(out, SYN0),
         NEW q, NEW t \in Nat, NEW r \in Nat, NEW b \in Nat, NEW d \in Seq(Packets),
         Flow(v, w, q, "SENT_SYN1", t, r, b, d), Head(v) \notin {SYN0, SYN1, SYN2}
  PROVE  Flow(Tail(v), w \o out, q, "SENT_SYN1", t, r, b, d) /\ ~ IsDatum(Head(v))
<1> DEFINE z == Tail(v)
           u == w \o out
           f == Head(v)
<1>1. (In(w, SYN0) <=> In(u, SYN0)) /\ (Pending(u, "SENT_SYN1") <=> Pending(w, "SENT_SYN1"))
  BY CatFacts DEF Pending
<1>2. f = v[1] /\ 1 \in 1 .. Len(v)
  BY TailIndices
<1> HIDE DEF u
<1>3. CASE Pending(w, "SENT_SYN1")
  <2>1. /\ AllRefused(v, "SENT_SYN1") /\ r = 0 /\ q # "CONNECTED" /\ In(w, SYN0)
    BY <1>3 DEF Flow, Resetting, Pending
  <2>2. AllRefused(z, "SENT_SYN1") /\ DataFree(v)
    BY <2>1, TailFacts
  <2>3. Resetting(z, u, q, "SENT_SYN1", t, r)
    BY <1>1, <2>1, <2>2 DEF Resetting
  <2> QED BY <1>1, <1>2, <1>3, <2>2, <2>3 DEF Flow, Settled, DataFree, u
<1>4. CASE ~ Pending(w, "SENT_SYN1")
  <2>1. Stream(v, r, t, b, d) /\ Admitting(v, q, "SENT_SYN1")
    BY <1>4 DEF Flow, Settled
  <2>2. ~ IsDatum(f)
    <3> SUFFICES ASSUME Admitted(v, "SENT_SYN1", 1) PROVE FALSE
      BY <1>2, <2>1 DEF Admitting
    <3> QED BY DEF Admitted, Joined
  <2>3. Stream(z, r, t, b, d)
    BY <2>1, <2>2, StreamTail
  <2>4. Admitting(z, q, "SENT_SYN1")
    BY <2>1, AdmittingTail
  <2> QED BY <1>1, <1>4, <2>2, <2>3, <2>4 DEF Flow, Resetting, Settled, u
<1> QED BY <1>3, <1>4

\* n, which is connected, takes a datum.
LEMMA ReceivingData ==
  ASSUME NEW v \in Seq(Frames), v # << >>, NEW w, NEW q, NEW t \in Nat, NEW r \in Nat, NEW b \in Nat,
         NEW d \in Seq(Packets), Flow(v, w, q, "CONNECTED", t, r, b, d), IsDatum(Head(v))
  PROVE  /\ Head(v).seq = r =>
              r < HistoryCapacity /\ Flow(Tail(v), w, q, "CONNECTED", t, r + 1, b, Append(d, Head(v).packet))
         /\ Head(v).seq # r => Head(v).type = "RTX" /\ Flow(Tail(v), w, q, "CONNECTED", t, r, b, d)
<1>1. 1 \in 1 .. Len(v) /\ v[1] = Head(v) /\ Head(v) \in Frames
  BY TailIndices
<1>2. ~ Pending(w, "CONNECTED")
  BY <1>1 DEF Flow, Resetting, AllRefused, Refused
<1>3. Stream(v, r, t, b, d) /\ Admitting(v, q, "CONNECTED")
  BY <1>2 DEF Flow, Settled
<1>4. Head(v) # SYN0 /\ Head(v) \notin {SYN1, SYN2}
  BY <1>1, DatumFields
<1>5. Admitting(Tail(v), q, "CONNECTED")
  BY <1>3, <1>4, AdmittingTail
<1>6. /\ Head(v).seq = r => r < HistoryCapacity /\ Stream(Tail(v), r + 1, t, b, Append(d, Head(v).packet))
      /\ Head(v).seq # r => Head(v).type = "RTX" /\ Stream(Tail(v), r, t, b, d)
  BY <1>3, StreamTail
<1> QED BY <1>2, <1>5, <1>6 DEF Flow, Resetting, Settled

\* n, which is connected, writes a packet.
LEMMA SendingWrite ==
  ASSUME NEW w \in Seq(Frames), NEW g \in Frames, NEW v, NEW q, NEW t \in Nat, NEW r \in Nat, NEW b \in Nat, NEW d,
         Flow(w, v, "CONNECTED", q, t, r, b, d), g.type = "USR", g.seq = t, g.packet = b + t + 1,
         t < HistoryCapacity
  PROVE  Flow(w \o <<g>>, v, "CONNECTED", q, t + 1, r, b, d)
<1> DEFINE u == w \o <<g>>
<1>1. /\ <<g>> \in Seq(Frames) /\ Len(u) = Len(w) + 1 /\ Len(w) \in Nat
      /\ \A i \in 1 .. Len(w) : u[i] = w[i]
      /\ g # SYN0 /\ g # SYN1
  BY OneFrame, SYNsDiffer
<1>2. \A h : In(u, h) <=> In(w, h) \/ g = h
  BY <1>1, OneFrame, CatFacts
<1>3. CASE Pending(v, q)
  <2>1. AllRefused(w, q) /\ r = 0 /\ q = "SENT_SYN0" /\ ~ In(w, SYN0) /\ ~ In(w, SYN1) /\ In(v, SYN0)
    BY <1>3 DEF Flow, Resetting
  <2> HIDE DEF u
  <2>2. \A i \in 1 .. Len(u) : Refused(u, q, i)
    <3> TAKE i \in 1 .. Len(u)
    <3>1. ASSUME NEW j \in 1 .. Len(u), j < i PROVE u[j] # SYN0 /\ u[j] # SYN1
      <4>1. j \in 1 .. Len(w)
        BY <1>1, <3>1
      <4> QED BY <1>1, <2>1, <4>1 DEF In
    <3> QED BY <2>1, <3>1 DEF Refused
  <2> QED BY <1>1, <1>2, <1>3, <2>1, <2>2 DEF Flow, Resetting, Settled, AllRefused, u
<1>4. CASE ~ Pending(v, q)
  <2>1. Stream(w, r, t, b, d) /\ Admitting(w, "CONNECTED", q)
    BY <1>4 DEF Flow, Settled
  <2>2. Stream(u, r, t + 1, b, d)
    BY <2>1, StreamWrite
  <2>3. ~ In(<<g>>, SYN0)
    BY <1>1, OneFrame
  <2>4. Admitting(u, "CONNECTED", q)
    BY <1>1, <2>1, <2>3, AdmittingCat
  <2> QED BY <1>4, <2>2, <2>4 DEF Flow, Resetting, Settled
<1> QED BY <1>3, <1>4

\* What its peer sends does not depend on what n adds, unless that is a SYN0.
LEMMA ReceivingCat ==
  ASSUME NEW w \in Seq(Frames), NEW out \in Seq(Frames), ~ In(out, SYN0), NEW v, NEW s, NEW q,
         NEW t, NEW r, NEW b, NEW d, Flow(v, w, q, s, t, r, b, d)
  PROVE  Flow(v, w \o out, q, s, t, r, b, d)
<1>1. In(w \o out, SYN0) <=> In(w, SYN0)
  BY CatFacts
<1> QED BY <1>1 DEF Flow, Resetting, Settled, Pending

-----------------------------------------------------------------------------
\* What a wire has when the receiver at its end is reset.
LEMMA ResetKinds ==
  ASSUME NEW v \in Seq(Frames), NEW z \in AfterReceiverReset(v)
  PROVE  /\ z \in Seq(Frames)
         /\ \A i \in 1 .. Len(z) : (\E j \in 1 .. Len(v) : z[i] = v[j]) \/ (i = 1 /\ z[i] = Remnant)
         /\ v = << >> => z = << >>
<1>0. z \in Seq(Frames)
  BY ResetWire
<1>1. CASE v = << >> \/ z = v
  BY <1>0, <1>1 DEF AfterReceiverReset
<1>2. CASE v # << >> /\ z = Tail(v)
  BY <1>0, <1>2, TailIndices
<1>3. CASE v # << >> /\ z = <<Remnant>> \o Tail(v)
  <2>1. <<Remnant>> \in Seq(Frames) /\ Len(<<Remnant>>) = 1 /\ <<Remnant>>[1] = Remnant
    BY FramesMade, OneFrame
  <2>2. /\ Tail(v) \in Seq(Frames)
        /\ \A i \in 1 .. Len(Tail(v)) : i + 1 \in 1 .. Len(v) /\ Tail(v)[i] = v[i + 1]
    BY <1>3, TailIndices
  <2>3. ASSUME NEW i \in 1 .. Len(z), i # 1 PROVE \E j \in 1 .. Len(v) : z[i] = v[j]
    <3>1. i - 1 \in 1 .. Len(Tail(v)) /\ z[i] = Tail(v)[i - 1]
      BY <1>3, <2>1, <2>2, <2>3, CatIndices
    <3> QED BY <2>2, <3>1
  <2>4. 1 \in 1 .. Len(z) => z[1] = Remnant
    BY <1>3, <2>1, <2>2, CatIndices
  <2> QED BY <1>0, <1>3, <2>3, <2>4
<1> QED BY <1>1, <1>2, <1>3 DEF AfterReceiverReset

\* Both ways of a link on which n calls sfpConnect for the first time.
ConnectWires(v, w, s, q, z) ==
  /\ Opening(w, v, q, s)
  /\ z \in AfterReceiverReset(v)

LEMMA ConnectFacts ==
  ASSUME NEW v \in Seq(Frames), NEW w \in Seq(Frames), NEW s, NEW q, NEW z, ConnectWires(v, w, s, q, z)
  PROVE  /\ z \in Seq(Frames)
         /\ q \in {"DISCONNECTED", "SENT_SYN0", "CONNECTED"}
         /\ \A i \in 1 .. Len(z) : IsDatum(z[i]) \/ z[i] = SYN2 \/ z[i] = SYN0 \/ (i = 1 /\ z[i] = Remnant)
         /\ (q # "SENT_SYN0" => ~ In(v, SYN0) /\ ~ In(z, SYN0)) /\ (q # "CONNECTED" => DataFree(z))
         /\ \A i \in 1 .. Len(z) : z[i] = SYN2 => q = "CONNECTED"
         /\ (\A i \in 1 .. Len(w) : IsDatum(w[i])) \/ (w = <<SYN1>> /\ q = "SENT_SYN0" /\ z = << >>)
         /\ q = "SENT_SYN0" => DataFree(w)
<1>0. /\ z \in Seq(Frames)
      /\ \A i \in 1 .. Len(z) : (\E j \in 1 .. Len(v) : z[i] = v[j]) \/ (i = 1 /\ z[i] = Remnant)
      /\ v = << >> => z = << >>
  BY ResetKinds DEF ConnectWires
<1>1. ~ IsDatum(Remnant) /\ Remnant # SYN0 /\ Remnant # SYN1 /\ Remnant # SYN2 /\ ~ IsDatum(SYN0)
      /\ SYN0 # SYN2 /\ ~ IsDatum(SYN1) /\ ~ IsDatum(SYN2)
  BY NoData, SYNsDiffer
<1>2. CASE q = "DISCONNECTED" /\ s = "DISCONNECTED" /\ w = << >> /\ v = << >>
  BY <1>0, <1>2 DEF In, DataFree
<1>3. CASE q = "SENT_SYN0" /\ s = "DISCONNECTED" /\ w = << >> /\ v = <<SYN0>>
  <2>1. \A j \in 1 .. Len(v) : v[j] = SYN0
    BY <1>3, FramesMade, OneFrame
  <2> QED BY <1>0, <1>1, <1>3, <2>1 DEF DataFree
<1>4. CASE q = "SENT_SYN0" /\ s = "SENT_SYN1" /\ w = <<SYN1>> /\ v = << >>
  <2>1. DataFree(w)
    BY <1>1, <1>4, FramesMade, OneFrame
  <2> QED BY <1>0, <1>4, <2>1 DEF DataFree
<1>5. CASE q = "CONNECTED" /\ s = "SENT_SYN1" /\ w = << >> /\ v # << >> /\ Head(v) = SYN2 /\ DataOnly(Tail(v))
  <2>1. \A j \in 1 .. Len(v) : v[j] = SYN2 \/ IsDatum(v[j])
    <3> TAKE j \in 1 .. Len(v)
    <3>1. CASE j = 1
      BY <1>5, <3>1, TailIndices
    <3>2. CASE j # 1
      <4>1. j - 1 \in 1 .. Len(Tail(v)) /\ Tail(v)[j - 1] = v[j]
        BY <1>5, <3>2, TailIndices
      <4> QED BY <1>5, <4>1 DEF DataOnly
    <3> QED BY <3>1, <3>2
  <2> QED BY <1>0, <1>1, <1>5, <2>1 DEF In
<1>6. CASE q = "CONNECTED" /\ s = "CONNECTED" /\ DataOnly(w) /\ DataOnly(v)
  BY <1>0, <1>1, <1>6 DEF In, DataOnly
<1> QED BY <1>2, <1>3, <1>4, <1>5, <1>6 DEF ConnectWires, Opening

\* What n sends begins anew behind its SYN0.
LEMMA SendingConnect ==
  ASSUME NEW v \in Seq(Frames), NEW w \in Seq(Frames), NEW s, NEW q, NEW z, ConnectWires(v, w, s, q, z),
         NEW t, NEW r \in Nat, NEW b, NEW c, NEW d, Flow(w, v, s, q, t, r, b, d)
  PROVE  Flow(w \o <<SYN0>>, z, "SENT_SYN0", q, 0, r, c, d)
<1>1. CASE q = "SENT_SYN0"
  <2>1. DataFree(w)
    BY <1>1, ConnectFacts
  <2>2. DataFree(w \o <<SYN0>>)
    BY <2>1, FramesMade, NoData, OneFrame, CatFacts
  <2>3. AllRefused(w \o <<SYN0>>, q)
    BY <2>2 DEF AllRefused, DataFree
  <2>4. Pending(v, q) /\ Pending(z, q)
    BY <1>1 DEF Pending
  <2>5. r = 0
    BY <2>4 DEF Flow, Resetting
  <2> QED BY <1>1, <2>3, <2>4, <2>5 DEF Flow, Resetting, Settled
<1>2. CASE q # "SENT_SYN0"
  <2>1. ~ Pending(v, q) /\ ~ Pending(z, q)
    BY <1>2, ConnectFacts DEF Pending
  <2>2. Ordered(w, r) /\ Admitting(w, s, q)
    BY <2>1 DEF Flow, Settled, Stream
  <2>3. Stream(w \o <<SYN0>>, r, 0, c, d)
    BY <2>2, StreamSYN0
  <2>4. Admitting(w \o <<SYN0>>, "SENT_SYN0", q)
    BY <2>2, AdmittingSYN0
  <2> QED BY <2>1, <2>3, <2>4 DEF Flow, Resetting, Settled
<1> QED BY <1>1, <1>2

\* What the other end has sent is refused.
LEMMA ReceivingConnect ==
  ASSUME NEW v \in Seq(Frames), NEW w \in Seq(Frames), NEW s, NEW q, NEW z, ConnectWires(v, w, s, q, z),
         NEW t, NEW b, NEW d
  PROVE  Flow(z, w \o <<SYN0>>, q, "SENT_SYN0", t, 0, b, d)
<1> DEFINE u == w \o <<SYN0>>
<1>1. In(u, SYN0)
  BY FramesMade, OneFrame, CatFacts
<1>2. /\ \A i \in 1 .. Len(z) : IsDatum(z[i]) \/ z[i] = SYN2 \/ z[i] = SYN0 \/ (i = 1 /\ z[i] = Remnant)
      /\ (q # "SENT_SYN0" => ~ In(z, SYN0)) /\ (q # "CONNECTED" => DataFree(z))
  BY ConnectFacts
<1>3. ~ In(z, SYN1)
  BY <1>2, NoData, SYNsDiffer DEF In
<1>4. AllRefused(z, "SENT_SYN0")
  BY <1>2, <1>3 DEF AllRefused, Refused, DataFree, In
<1>5. Pending(u, "SENT_SYN0")
  BY DEF Pending
<1> HIDE DEF u
<1> QED BY <1>1, <1>2, <1>3, <1>4, <1>5 DEF Flow, Resetting, Settled, u

LEMMA CrossingConnect ==
  ASSUME NEW v \in Seq(Frames), NEW w \in Seq(Frames), NEW s, NEW q, NEW z, ConnectWires(v, w, s, q, z)
  PROVE  /\ Crossing(z, w \o <<SYN0>>, "SENT_SYN0", q)
         /\ Crossing(w \o <<SYN0>>, z, q, "SENT_SYN0")
<1> DEFINE u == w \o <<SYN0>>
<1>0. /\ \A i \in 1 .. Len(z) : IsDatum(z[i]) \/ z[i] = SYN2 \/ z[i] = SYN0 \/ (i = 1 /\ z[i] = Remnant)
      /\ (q # "SENT_SYN0" => ~ In(z, SYN0))
      /\ \A i \in 1 .. Len(z) : z[i] = SYN2 => q = "CONNECTED"
      /\ (\A i \in 1 .. Len(w) : IsDatum(w[i])) \/ (w = <<SYN1>> /\ q = "SENT_SYN0" /\ z = << >>)
  BY ConnectFacts
<1>1. /\ Len(w) \in Nat /\ Len(u) = Len(w) + 1 /\ u[Len(w) + 1] = SYN0 /\ u # << >>
      /\ \A i \in 1 .. Len(w) : u[i] = w[i]
  BY FramesMade, OneFrame
<1> HIDE DEF u
<1>2. /\ \A f : IsDatum(f) => f.type \notin {"NAK", "BAD"} /\ f \notin {SYN0, SYN1, SYN2, DIS}
      /\ \A f \in {SYN0, SYN1, SYN2} : f.type \notin {"NAK", "BAD"} /\ f # DIS /\ f # Remnant
      /\ SYN0 # SYN1 /\ SYN0 # SYN2 /\ SYN1 # SYN2
      /\ Remnant.type # "NAK" /\ Remnant # DIS
  BY SYNsDiffer DEF IsDatum, DataTypes
<1>3. Crossing(z, u, "SENT_SYN0", q)
  <2>1. LateSYN1(z, u, "SENT_SYN0", q)
    BY <1>0, <1>2 DEF LateSYN1
  <2>2. LateSYN2(z, q)
    BY <1>0 DEF LateSYN2, Fresh, In
  <2>3. NAKsRefused(z, "SENT_SYN0")
    BY <1>0, <1>2 DEF NAKsRefused
  <2>4. RemnantsFirst(z, u, "SENT_SYN0", q)
    <3>1. u[Len(u)] = SYN0
      BY <1>1
    <3> QED BY <1>0, <1>1, <1>2, <3>1 DEF RemnantsFirst
  <2>5. ~ In(z, DIS)
    BY <1>0, <1>2 DEF In
  <2> QED BY <2>1, <2>2, <2>3, <2>4, <2>5 DEF Crossing
<1>4. \A j \in 1 .. Len(u) : j \in 1 .. Len(w) \/ u[j] = SYN0
  BY <1>1
<1>5. CASE \A i \in 1 .. Len(w) : IsDatum(w[i])
  <2>1. \A j \in 1 .. Len(u) : IsDatum(u[j]) \/ u[j] = SYN0
    BY <1>1, <1>4, <1>5
  <2>2. \A j \in 1 .. Len(u) : u[j] # SYN1 /\ u[j] # SYN2 /\ u[j] # DIS /\ u[j].type \notin {"NAK", "BAD"}
    BY <1>2, <2>1
  <2>3. Crossing(u, z, q, "SENT_SYN0")
    BY <2>2 DEF Crossing, LateSYN1, LateSYN2, NAKsRefused, RemnantsFirst, In
  <2> QED BY <1>3, <2>3 DEF u
<1>6. CASE w = <<SYN1>> /\ q = "SENT_SYN0" /\ z = << >>
  <2>1. Len(w) = 1 /\ w[1] = SYN1
    BY <1>6
  <2>2. \A j \in 1 .. Len(u) : (j = 1 /\ u[j] = SYN1) \/ u[j] = SYN0
    BY <1>1, <1>4, <2>1
  <2>3. In(u, SYN0)
    <3>1. Len(w) + 1 \in 1 .. Len(u)
      BY <1>1
    <3> QED BY <1>1, <3>1 DEF In
  <2>4. ~ In(z, SYN0) /\ ~ In(z, SYN1)
    BY <1>6, ShortWires
  <2>5. LateSYN1(u, z, q, "SENT_SYN0")
    BY <1>2, <1>6, <2>2, <2>3, <2>4 DEF LateSYN1
  <2>6. \A j \in 1 .. Len(u) : u[j] # SYN2 /\ u[j] # DIS /\ u[j].type \notin {"NAK", "BAD"}
    BY <1>2, <2>2
  <2>7. Crossing(u, z, q, "SENT_SYN0")
    BY <2>5, <2>6 DEF Crossing, LateSYN2, NAKsRefused, RemnantsFirst, In
  <2> QED BY <1>3, <2>7 DEF u
<1> QED BY <1>0, <1>5, <1>6

-----------------------------------------------------------------------------
\* What n takes and what it answers leave the SYN, NAK and damaged frames, and
\* the opening of the link, as they should be.
Answering(v, w, s, q, out, x) ==
  /\ Crossing(Tail(v), w \o out, x, q)
  /\ Crossing(w \o out, Tail(v), q, x)
  /\ Opening(v, w, s, q) => Opening(Tail(v), w \o out, x, q)
  /\ Opening(w, v, q, s) => Opening(w \o out, Tail(v), q, x)

\* The frame that n can take while the link is being opened.
LEMMA OpeningHead ==
  ASSUME NEW v \in Seq(Frames), v # << >>, NEW w \in Seq(Frames), NEW s, NEW q
  PROVE  /\ Opening(v, w, s, q) =>
              \/ s = "SENT_SYN0" /\ q = "SENT_SYN1" /\ v = <<SYN1>> /\ Head(v) = SYN1 /\ Tail(v) = << >> /\ w = << >>
              \/ s = "CONNECTED" /\ q = "CONNECTED" /\ IsDatum(Head(v)) /\ DataOnly(Tail(v)) /\ DataOnly(w)
         /\ Opening(w, v, q, s) =>
              \/ /\ s = "DISCONNECTED" /\ q = "SENT_SYN0" /\ v = <<SYN0>> /\ Head(v) = SYN0 /\ Tail(v) = << >>
                 /\ w = << >>
              \/ s = "SENT_SYN1" /\ q = "CONNECTED" /\ Head(v) = SYN2 /\ DataOnly(Tail(v)) /\ w = << >>
              \/ s = "CONNECTED" /\ q = "CONNECTED" /\ IsDatum(Head(v)) /\ DataOnly(Tail(v)) /\ DataOnly(w)
<1>1. DataOnly(v) => IsDatum(Head(v)) /\ DataOnly(Tail(v))
  BY TailIndices DEF DataOnly
<1>2. \A g : Head(<<g>>) = g /\ Tail(<<g>>) = << >>
  OBVIOUS
<1> QED BY <1>1, <1>2 DEF Opening

LEMMA AnswerSYN0 ==
  ASSUME NEW v \in Seq(Frames), v # << >>, Head(v) = SYN0, NEW w \in Seq(Frames), NEW s, NEW q,
         Crossing(v, w, s, q), Crossing(w, v, q, s)
  PROVE  Answering(v, w, s, q, <<SYN1>>, "SENT_SYN1")
<1>1. In(v, SYN0) /\ ~ IsDatum(SYN0) /\ SYN0 # SYN1 /\ SYN0 # SYN2
  BY TailPlaces, NoData, SYNsDiffer
<1>2. Crossing(Tail(v), w \o <<SYN1>>, "SENT_SYN1", q)
  BY CrossingTail
<1>3. Crossing(w \o <<SYN1>>, Tail(v), q, "SENT_SYN1")
  <2>1. \A j \in 1 .. Len(w) : w[j] = SYN1 => Fresh(w, j)
    BY <1>1 DEF Crossing, LateSYN1
  <2>2. Taken(v, Tail(v), s, "SENT_SYN1")
    BY DEF Taken
  <2>3. /\ <<SYN1>> \in Seq(Frames)
        /\ \A j \in 1 .. Len(<<SYN1>>) : <<SYN1>>[j] \notin {SYN0, DIS} /\ <<SYN1>>[j].type \notin {"NAK", "BAD"}
    BY FramesMade, SYNsDiffer, OneFrame
  <2> QED BY <2>1, <2>2, <2>3, CrossingCat
<1>4. ~ Opening(v, w, s, q)
  BY <1>1, OpeningHead
<1>5. Opening(w, v, q, s) => Opening(w \o <<SYN1>>, Tail(v), q, "SENT_SYN1")
  <2> HAVE Opening(w, v, q, s)
  <2>1. q = "SENT_SYN0" /\ Tail(v) = << >> /\ w = << >>
    BY <1>1, OpeningHead
  <2>2. w \o <<SYN1>> = <<SYN1>>
    BY <2>1
  <2> QED BY <2>1, <2>2 DEF Opening
<1> QED BY <1>2, <1>3, <1>4, <1>5 DEF Answering

LEMMA AnswerConnected ==
  ASSUME NEW v \in Seq(Frames), v # << >>, NEW w \in Seq(Frames), NEW pre, NEW s, NEW q,
         Crossing(v, w, s, q), Crossing(w, v, q, s),
         NEW t \in Nat, NEW b \in Nat, s # "CONNECTED" => t = 0, b + t \in 0 .. MaxSent, t <= HistoryCapacity,
         \/ Head(v) = SYN1 /\ pre = <<SYN2>>
         \/ Head(v) = SYN2 /\ pre = << >> /\ s \in {"SENT_SYN1", "CONNECTED"}
  PROVE  Answering(v, w, s, q, pre \o AllFrom0(t, b), "CONNECTED")
<1> DEFINE A == AllFrom0(t, b)
           out == pre \o A
<1>0. A \in Seq(Frames) /\ Len(A) = t /\ \A i \in 1 .. t : A[i].type = "RTX" /\ IsDatum(A[i])
  BY BlockProperties
<1> HIDE DEF A
<1>1. Head(v) # SYN0 /\ Head(v) = v[1] /\ 1 \in 1 .. Len(v) /\ ~ IsDatum(Head(v))
  BY TailIndices, SYNsDiffer, NoData
<1>2. pre \in Seq(Frames) /\ \A i \in 1 .. Len(pre) : pre[i] = SYN2
  <2>1. <<SYN2>> \in Seq(Frames) /\ \A i \in 1 .. Len(<<SYN2>>) : <<SYN2>>[i] = SYN2
    BY FramesMade, OneFrame
  <2>2. << >> \in Seq(Frames) /\ \A i \in 1 .. Len(<< >>) : << >>[i] = SYN2
    OBVIOUS
  <2> QED BY <2>1, <2>2
<1>3. out \in Seq(Frames) /\ \A j \in 1 .. Len(out) : out[j] \notin {SYN0, DIS} /\ out[j].type \notin {"NAK", "BAD"}
  <2>1. \A j \in 1 .. Len(out) : out[j] = SYN2 \/ out[j].type = "RTX"
    <3> TAKE j \in 1 .. Len(out)
    <3>1. j \in 1 .. Len(pre) \/ (j - Len(pre) \in 1 .. Len(A) /\ out[j] = A[j - Len(pre)])
      BY <1>0, <1>2, CatIndices
    <3>2. j \in 1 .. Len(pre) => out[j] = SYN2
      BY <1>0, <1>2, CatIndices
    <3> QED BY <1>0, <3>1, <3>2
  <2>2. out \in Seq(Frames)
    BY <1>0, <1>2
  <2> HIDE DEF out
  <2> QED BY <2>1, <2>2, SYNsDiffer
<1>4. Crossing(Tail(v), w \o out, "CONNECTED", q)
  BY <1>1, CrossingTail
<1>5. Crossing(w \o out, Tail(v), q, "CONNECTED")
  <2>1. \A j \in 1 .. Len(w) : w[j] = SYN1 => Fresh(w, j)
    <3> SUFFICES ASSUME NEW j \in 1 .. Len(w), w[j] = SYN1, ~ Fresh(w, j) PROVE FALSE
      OBVIOUS
    <3>1. s = "SENT_SYN0" /\ ~ In(v, SYN1)
      BY DEF Crossing, LateSYN1
    <3>2. Head(v) # SYN1
      BY <1>1, <3>1 DEF In
    <3> QED BY <3>1, <3>2
  <2>2. Taken(v, Tail(v), s, "CONNECTED")
    BY <1>1 DEF Taken
  <2> HIDE DEF out
  <2> QED BY <1>3, <2>1, <2>2, CrossingCat
<1>6. Opening(v, w, s, q) => Opening(Tail(v), w \o out, "CONNECTED", q)
  <2> SUFFICES ASSUME Opening(v, w, s, q) PROVE Opening(Tail(v), w \o out, "CONNECTED", q)
    OBVIOUS
  <2>1. s = "SENT_SYN0" /\ q = "SENT_SYN1" /\ Head(v) = SYN1 /\ Tail(v) = << >> /\ w = << >>
    BY <1>1, OpeningHead
  <2>2. t = 0 /\ pre = <<SYN2>>
    BY <2>1, SYNsDiffer
  <2>3. A = << >>
    BY <1>0, <2>2
  <2>4. w \o out = <<SYN2>>
    BY <2>1, <2>2, <2>3
  <2>5. Head(<<SYN2>>) = SYN2 /\ Tail(<<SYN2>>) = << >> /\ <<SYN2>> # << >> /\ DataOnly(<< >>)
    BY DEF DataOnly
  <2> QED BY <2>1, <2>4, <2>5 DEF Opening
<1>7. Opening(w, v, q, s) => Opening(w \o out, Tail(v), q, "CONNECTED")
  <2> SUFFICES ASSUME Opening(w, v, q, s) PROVE Opening(w \o out, Tail(v), q, "CONNECTED")
    OBVIOUS
  <2>1. s = "SENT_SYN1" /\ q = "CONNECTED" /\ Head(v) = SYN2 /\ DataOnly(Tail(v)) /\ w = << >>
    BY <1>1, OpeningHead
  <2>2. pre = << >>
    BY <2>1, SYNsDiffer
  <2>3. w \o out = A
    BY <1>0, <2>1, <2>2
  <2>4. DataOnly(A)
    BY <1>0 DEF DataOnly
  <2> QED BY <2>1, <2>3, <2>4 DEF Opening
<1> QED BY <1>4, <1>5, <1>6, <1>7 DEF Answering, A

\* n waits for the answer to its SYN0, takes something else and answers g.
LEMMA AnswerInSYN0 ==
  ASSUME NEW v \in Seq(Frames), v # << >>, Head(v) \notin {SYN0, SYN1}, NEW w \in Seq(Frames), NEW q,
         Crossing(v, w, "SENT_SYN0", q), Crossing(w, v, q, "SENT_SYN0"),
         NEW g \in Frames, g = SYN0 \/ (g.type = "NAK" /\ Head(v).type = "BAD")
  PROVE  Answering(v, w, "SENT_SYN0", q, <<g>>, "SENT_SYN0")
<1>1. Head(v) = v[1] /\ 1 \in 1 .. Len(v)
  BY TailIndices
<1>2. Crossing(Tail(v), w \o <<g>>, "SENT_SYN0", q)
  BY CrossingTail
<1>3. Head(v).type = "BAD" => IF w = << >> THEN q \in {"SENT_SYN0", "SENT_SYN1"} ELSE w[Len(w)] = SYN0
  BY <1>1 DEF Crossing, RemnantsFirst
<1>4. Crossing(w \o <<g>>, Tail(v), q, "SENT_SYN0")
  BY <1>3, CrossingWait
<1>5. ~ Opening(v, w, "SENT_SYN0", q) /\ ~ Opening(w, v, q, "SENT_SYN0")
  BY OpeningHead
<1> QED BY <1>2, <1>4, <1>5 DEF Answering

LEMMA AnswerInSYN1 ==
  ASSUME NEW v \in Seq(Frames), v # << >>, Head(v) \notin {SYN0, SYN1, SYN2}, NEW w \in Seq(Frames), NEW q,
         Crossing(v, w, "SENT_SYN1", q), Crossing(w, v, q, "SENT_SYN1")
  PROVE  Answering(v, w, "SENT_SYN1", q, <<SYN1>>, "SENT_SYN1")
<1>1. Crossing(Tail(v), w \o <<SYN1>>, "SENT_SYN1", q)
  BY CrossingTail
<1>2. Crossing(w \o <<SYN1>>, Tail(v), q, "SENT_SYN1")
  <2>1. \A j \in 1 .. Len(w) : w[j] = SYN1 => Fresh(w, j)
    BY DEF Crossing, LateSYN1
  <2>2. Taken(v, Tail(v), "SENT_SYN1", "SENT_SYN1")
    BY DEF Taken
  <2>3. /\ <<SYN1>> \in Seq(Frames)
        /\ \A j \in 1 .. Len(<<SYN1>>) : <<SYN1>>[j] \notin {SYN0, DIS} /\ <<SYN1>>[j].type \notin {"NAK", "BAD"}
    BY FramesMade, SYNsDiffer, OneFrame
  <2> QED BY <2>1, <2>2, <2>3, CrossingCat
<1>3. ~ Opening(v, w, "SENT_SYN1", q) /\ ~ Opening(w, v, q, "SENT_SYN1")
  BY OpeningHead
<1> QED BY <1>1, <1>2, <1>3 DEF Answering

LEMMA AnswerData ==
  ASSUME NEW v \in Seq(Frames), v # << >>, IsDatum(Head(v)), NEW w \in Seq(Frames), NEW q,
         Crossing(v, w, "CONNECTED", q), Crossing(w, v, q, "CONNECTED")
  PROVE  Answering(v, w, "CONNECTED", q, << >>, "CONNECTED")
<1>1. Head(v) \notin {SYN0, SYN1, SYN2}
  BY TailIndices, DatumFields
<1>2. Crossing(Tail(v), w \o << >>, "CONNECTED", q)
  BY <1>1, CrossingTail
<1>3. Crossing(w \o << >>, Tail(v), q, "CONNECTED")
  <2>1. \A j \in 1 .. Len(w) : w[j] = SYN1 => Fresh(w, j)
    BY DEF Crossing, LateSYN1
  <2>2. Taken(v, Tail(v), "CONNECTED", "CONNECTED")
    BY <1>1 DEF Taken
  <2>3. << >> \in Seq(Frames) /\ \A j \in 1 .. Len(<< >>) : FALSE
    OBVIOUS
  <2> QED BY <2>1, <2>2, <2>3, CrossingCat
<1>4. w \o << >> = w
  OBVIOUS
<1>5. Opening(v, w, "CONNECTED", q) => Opening(Tail(v), w, "CONNECTED", q)
  BY <1>1, OpeningHead DEF Opening
<1>6. Opening(w, v, q, "CONNECTED") => Opening(w, Tail(v), q, "CONNECTED")
  BY <1>1, OpeningHead DEF Opening
<1> QED BY <1>2, <1>3, <1>4, <1>5, <1>6 DEF Answering

\* n, which is connected, writes g.
LEMMA CrossingWrite ==
  ASSUME NEW v \in Seq(Frames), NEW w \in Seq(Frames), NEW q, NEW g \in Frames, IsDatum(g),
         Crossing(v, w, "CONNECTED", q), Crossing(w, v, q, "CONNECTED")
  PROVE  /\ Crossing(v, w \o <<g>>, "CONNECTED", q)
         /\ Crossing(w \o <<g>>, v, q, "CONNECTED")
         /\ Opening(v, w, "CONNECTED", q) => Opening(v, w \o <<g>>, "CONNECTED", q)
         /\ Opening(w, v, q, "CONNECTED") => Opening(w \o <<g>>, v, q, "CONNECTED")
<1>0. /\ <<g>> \in Seq(Frames)
      /\ \A j \in 1 .. Len(<<g>>) : <<g>>[j] \notin {SYN0, DIS} /\ <<g>>[j].type \notin {"NAK", "BAD"}
  BY SYNsDiffer, OneFrame DEF IsDatum, DataTypes
<1>1. Crossing(v, w \o <<g>>, "CONNECTED", q)
  BY DEF Crossing, LateSYN1, RemnantsFirst
<1>2. Crossing(w \o <<g>>, v, q, "CONNECTED")
  <2>1. \A j \in 1 .. Len(w) : w[j] = SYN1 => Fresh(w, j)
    BY DEF Crossing, LateSYN1
  <2>2. Taken(v, v, "CONNECTED", "CONNECTED")
    BY DEF Taken
  <2> QED BY <1>0, <2>1, <2>2, CrossingCat
<1>3. /\ DataOnly(w) => DataOnly(w \o <<g>>)
      /\ w # << >> /\ DataOnly(Tail(w)) =>
           w \o <<g>> # << >> /\ Head(w \o <<g>>) = Head(w) /\ DataOnly(Tail(w \o <<g>>))
  <2> DEFINE u == w \o <<g>>
  <2>1. /\ u \in Seq(Frames) /\ Len(w) \in Nat /\ Len(u) = Len(w) + 1 /\ u[Len(w) + 1] = g /\ u # << >>
        /\ \A i \in 1 .. Len(w) : u[i] = w[i]
    BY <1>0, OneFrame
  <2> HIDE DEF u
  <2>2. \A i \in 1 .. Len(u) : i \in 1 .. Len(w) \/ u[i] = g
    BY <2>1
  <2>3. DataOnly(w) => DataOnly(u)
    BY <2>1, <2>2 DEF DataOnly
  <2>4. ASSUME w # << >>, DataOnly(Tail(w)) PROVE Head(u) = Head(w) /\ DataOnly(Tail(u))
    <3>1. Head(w) = w[1] /\ Head(u) = u[1] /\ 1 \in 1 .. Len(w)
      BY <2>1, <2>4, TailIndices
    <3>2. ASSUME NEW i \in 1 .. Len(Tail(u)) PROVE IsDatum(Tail(u)[i])
      <4>1. i + 1 \in 1 .. Len(u) /\ Tail(u)[i] = u[i + 1] /\ i + 1 # 1
        BY <2>1, TailIndices
      <4>2. CASE i + 1 \in 1 .. Len(w)
        <5>1. i + 1 - 1 \in 1 .. Len(Tail(w)) /\ Tail(w)[i + 1 - 1] = w[i + 1]
          BY <2>4, <4>1, <4>2, TailIndices
        <5> QED BY <2>1, <2>4, <4>1, <4>2, <5>1 DEF DataOnly
      <4> QED BY <2>2, <4>1, <4>2
    <3> QED BY <2>1, <3>1, <3>2 DEF DataOnly
  <2> QED BY <2>1, <2>3, <2>4 DEF u
<1>4. Opening(v, w, "CONNECTED", q) => Opening(v, w \o <<g>>, "CONNECTED", q)
  BY <1>3 DEF Opening
<1>5. Opening(w, v, q, "CONNECTED") => Opening(w \o <<g>>, v, q, "CONNECTED")
  BY <1>3 DEF Opening
<1> QED BY <1>1, <1>2, <1>4, <1>5

-----------------------------------------------------------------------------
\* A frame has been handled: what remains to be shown of both ends.
LEMMA HandledInStep ==
  ASSUME TypeOK, NEW n \in Nodes, wire[n] # << >>, NEW out \in Seq(Frames), Consume(n, out),
         InStep(n), InStep(Peer(n)), connectState'[n] # "DISCONNECTED",
         connectState'[Peer(n)] = connectState[Peer(n)], txSeq'[Peer(n)] = txSeq[Peer(n)],
         rxSeq'[Peer(n)] = rxSeq[Peer(n)], history'[Peer(n)] = history[Peer(n)], base'[Peer(n)] = base[Peer(n)],
         delivered'[Peer(n)] = delivered[Peer(n)], UNCHANGED <<sent, connects>>,
         Numbered(connectState'[n], txSeq'[n], history'[n], base'[n], sent[n]),
         Flow(wire[Peer(n)] \o out, Tail(wire[n]), connectState'[n], connectState[Peer(n)],
              txSeq'[n], rxSeq[Peer(n)], base'[n], delivered[Peer(n)]),
         Flow(Tail(wire[n]), wire[Peer(n)] \o out, connectState[Peer(n)], connectState'[n],
              txSeq[Peer(n)], rxSeq'[n], base[Peer(n)], delivered'[n]),
         Answering(wire[n], wire[Peer(n)], connectState[n], connectState[Peer(n)], out, connectState'[n])
  PROVE  InStep(n)' /\ InStep(Peer(n))'
<1> DEFINE p == Peer(n)
           v == wire[n]
           w == wire[p]
           s == connectState[n]
           q == connectState[p]
           x == connectState'[n]
<1>1. p \in Nodes /\ Peer(p) = n /\ p # n
  BY TwoNodes
<1>2. v \in Seq(Frames) /\ w \in Seq(Frames)
  BY <1>1 DEF TypeOK
<1>3. wire'[n] = Tail(v) /\ wire'[p] = w \o out
  BY ConsumeWires DEF TypeOK
<1>4. connects' = connects /\ sent' = sent
  OBVIOUS
<1>5. InStep(n)'
  <2>1. connects[p] = 0 => Opening(v, w, s, q) /\ (connects[n] = 0 => s = "DISCONNECTED")
    BY DEF InStep
  <2>2. connects[p] = 0 => Opening(Tail(v), w \o out, x, q) /\ connects[n] # 0
    BY <1>2, <2>1, OpeningHead DEF Answering
  <2>3. Crossing(Tail(v), w \o out, x, q)
    BY DEF Answering
  <2> QED BY <1>1, <1>3, <1>4, <2>2, <2>3 DEF InStep, Flow
<1>6. InStep(p)'
  <2>1. connects[n] = 0 => Opening(w, v, q, s) /\ (connects[p] = 0 => q = "DISCONNECTED")
    BY <1>1 DEF InStep
  <2>2. connects[n] = 0 => Opening(w \o out, Tail(v), q, x)
    BY <2>1 DEF Answering
  <2>3. Crossing(w \o out, Tail(v), q, x)
    BY DEF Answering
  <2>4. Numbered(q, txSeq[p], history[p], base[p], sent[p]) /\ (connects[p] > 0 => q # "DISCONNECTED")
    BY DEF InStep
  <2> QED BY <1>1, <1>3, <1>4, <2>1, <2>2, <2>3, <2>4 DEF InStep, Flow
<1> QED BY <1>5, <1>6

\* What is known of an end and of its peer, by the names used for them above.
LEMMA InStepParts ==
  ASSUME TypeOK, NEW n \in Nodes, InStep(n), InStep(Peer(n))
  PROVE  LET p == Peer(n)
             v == wire[n]
             w == wire[p]
             s == connectState[n]
             q == connectState[p]
         IN  /\ p \in Nodes /\ p # n /\ Peer(p) = n
             /\ v \in Seq(Frames) /\ w \in Seq(Frames)
             /\ txSeq[n] \in Nat /\ rxSeq[n] \in Nat /\ base[n] \in Nat /\ delivered[n] \in Seq(Packets)
             /\ txSeq[p] \in Nat /\ rxSeq[p] \in Nat /\ base[p] \in Nat /\ delivered[p] \in Seq(Packets)
             /\ sent[n] \in 0 .. MaxSent /\ sent[p] \in 0 .. MaxSent
             /\ Numbered(s, txSeq[n], history[n], base[n], sent[n])
             /\ Flow(w, v, s, q, txSeq[n], rxSeq[p], base[n], delivered[p])
             /\ Flow(v, w, q, s, txSeq[p], rxSeq[n], base[p], delivered[n])
             /\ Crossing(v, w, s, q) /\ Crossing(w, v, q, s)
             /\ connects[p] = 0 => Opening(v, w, s, q) /\ (connects[n] = 0 => s = "DISCONNECTED")
             /\ connects[n] = 0 => Opening(w, v, q, s) /\ (connects[p] = 0 => q = "DISCONNECTED")
             /\ connects[n] > 0 => s # "DISCONNECTED"
             /\ connects[p] > 0 => q # "DISCONNECTED"
<1> DEFINE p == Peer(n)
<1>1. p \in Nodes /\ Peer(p) = n /\ p # n
  BY TwoNodes
<1>2. Seqs \subseteq Nat /\ 0 .. MaxSent \subseteq Nat
  BY SeqRangePositive, BoundsAssumption DEF Seqs
<1>3. \A m \in Nodes : /\ wire[m] \in Seq(Frames) /\ txSeq[m] \in Nat /\ rxSeq[m] \in Nat /\ base[m] \in Nat
                       /\ delivered[m] \in Seq(Packets) /\ sent[m] \in 0 .. MaxSent
  BY <1>2 DEF TypeOK, Packets
<1> QED BY <1>1, <1>3 DEF InStep, Flow

-----------------------------------------------------------------------------
\* A history that is numbered from 0 is sent as it is, and its numbers stay.
LEMMA WholeHistorySent ==
  ASSUME NEW t \in Nat, NEW b \in Nat, 0 < t, t <= HistoryCapacity
  PROVE  LET h == [i \in 1 .. t |-> b + i]
         IN  /\ KeptHistory(h, t, InitialSeq) = h
             /\ SeqAfter(h, InitialSeq) = t
             /\ Retransmissions(h, InitialSeq) = AllFrom0(t, b)
<1> DEFINE h == [i \in 1 .. t |-> b + i]
<1>1. h \in Seq(Nat) /\ Len(h) = t
  OBVIOUS
<1>2. SeqRange \in Nat /\ t < SeqRange /\ SeqRange > 1
  BY SeqRangePositive, HistoryAssumption
<1>3. \A k \in 0 .. t : k % SeqRange = k
  BY <1>2, ModSmall DEF Seqs
<1>4. FastForward(h, t, InitialSeq) = 0
  <2>1. 0 - (t - t) = 0
    OBVIOUS
  <2>2. 0 % SeqRange = 0
    BY <1>3
  <2> QED BY <1>1, <2>1, <2>2 DEF FastForward, InitialSeq
<1>5. KeptHistory(h, t, InitialSeq) = h
  <2>1. KeptHistory(h, t, InitialSeq) = SubSeq(h, 0 + 1, Len(h))
    BY <1>1, <1>4 DEF KeptHistory, Underrun
  <2>2. SubSeq(h, 1, Len(h)) = h
    BY <1>1
  <2> QED BY <2>1, <2>2
<1>6. SeqAfter(h, InitialSeq) = t
  BY <1>1, <1>3 DEF SeqAfter, InitialSeq
<1>7. Retransmissions(h, InitialSeq) = AllFrom0(t, b)
  <2>1. Retransmissions(h, InitialSeq) = [i \in 1 .. t |-> DataFrame("RTX", (0 + i - 1) % SeqRange, h[i])]
    BY <1>1 DEF Retransmissions, InitialSeq
  <2>2. \A i \in 1 .. t : (0 + i - 1) % SeqRange = i - 1 /\ h[i] = b + i
    BY <1>3
  <2> QED BY <2>1, <2>2 DEF AllFrom0
<1> QED BY <1>5, <1>6, <1>7

\* The end of sfpHandleSYN1 and sfpHandleSYN2, when the numbers begin at 0.
LEMMA BecomeConnectedSends ==
  ASSUME MaxSent <= HistoryCapacity, TypeOK, NEW n \in Nodes, InStep(n), InStep(Peer(n)),
         NEW pre \in Seq(Frames), BecomeConnected(n, pre)
  PROVE  /\ Consume(n, pre \o AllFrom0(txSeq[n], base[n]))
         /\ connectState' = [connectState EXCEPT ![n] = "CONNECTED"] /\ UNCHANGED <<numbers, users, budget>>
         /\ base[n] + txSeq[n] \in 0 .. MaxSent /\ txSeq[n] <= HistoryCapacity
         /\ AllFrom0(txSeq[n], base[n]) \in Seq(Frames)
<1> DEFINE t == txSeq[n]
           b == base[n]
           h == history[n]
<1>1. /\ t \in Nat /\ b \in Nat /\ b + t = sent[n] /\ sent[n] \in 0 .. MaxSent /\ h = [i \in 1 .. t |-> b + i]
  BY InStepParts DEF Numbered
<1>2. t <= HistoryCapacity
  BY <1>1, BoundsAssumption, HistoryAssumption, SeqRangePositive
<1>3. AllFrom0(t, b) \in Seq(Frames)
  BY <1>1, <1>2, BlockProperties
<1>4. connectState' = [connectState EXCEPT ![n] = "CONNECTED"] /\ UNCHANGED <<users, budget>>
  BY DEF BecomeConnected, Enter
<1>5. CASE t = InitialSeq
  <2>1. Consume(n, pre) /\ UNCHANGED numbers
    BY <1>5 DEF BecomeConnected
  <2>2. AllFrom0(t, b) = << >>
    BY <1>5 DEF AllFrom0, InitialSeq
  <2>3. pre \o AllFrom0(t, b) = pre
    BY <2>2
  <2> QED BY <1>1, <1>2, <1>3, <1>4, <2>1, <2>3
<1>6. CASE t # InitialSeq
  <2>1. ConsumeAndTransmitHistoryFrom(n, pre, InitialSeq)
    BY <1>6 DEF BecomeConnected
  <2>2. t \in Nat /\ b \in Nat /\ 0 < t /\ t <= HistoryCapacity
    BY <1>1, <1>2, <1>6 DEF InitialSeq
  <2>3. /\ KeptHistory(h, t, InitialSeq) = h /\ SeqAfter(h, InitialSeq) = t
        /\ Retransmissions(h, InitialSeq) = AllFrom0(t, b)
    <3> DEFINE g == [i \in 1 .. t |-> b + i]
    <3> HIDE DEF t, b
    <3>1. /\ KeptHistory(g, t, InitialSeq) = g /\ SeqAfter(g, InitialSeq) = t
          /\ Retransmissions(g, InitialSeq) = AllFrom0(t, b)
      BY <2>2, WholeHistorySent
    <3>2. h = g
      BY <1>1
    <3> HIDE DEF g, h
    <3> QED BY <3>1, <3>2
  <2>4. /\ history' = [history EXCEPT ![n] = h] /\ txSeq' = [txSeq EXCEPT ![n] = t]
        /\ Consume(n, pre \o AllFrom0(t, b)) /\ rxSeq' = rxSeq
    BY <2>1, <2>3 DEF ConsumeAndTransmitHistoryFrom
  <2>5. history' = history /\ txSeq' = txSeq
    BY <2>4 DEF TypeOK
  <2> QED BY <1>1, <1>2, <1>3, <1>4, <2>4, <2>5 DEF numbers
<1> QED BY <1>5, <1>6

\* The handlers of SYN frames.
LEMMA SYN0InStep ==
  ASSUME TypeOK, NEW n \in Nodes, InStep(n), InStep(Peer(n)), HandleSYN0(n)
  PROVE  InStep(n)' /\ InStep(Peer(n))'
<1> DEFINE p == Peer(n)
           v == wire[n]
           w == wire[p]
           s == connectState[n]
           q == connectState[p]
<1>1. v # << >> /\ Head(v) = SYN0 /\ <<SYN1>> \in Seq(Frames)
  BY FramesMade DEF HandleSYN0, ArrivesSYN
<1>2. /\ p \in Nodes /\ p # n /\ v \in Seq(Frames) /\ w \in Seq(Frames)
      /\ txSeq[n] \in Nat /\ rxSeq[n] \in Nat /\ base[n] \in Nat /\ delivered[n] \in Seq(Packets)
      /\ txSeq[p] \in Nat /\ rxSeq[p] \in Nat /\ base[p] \in Nat /\ sent[n] \in 0 .. MaxSent
      /\ Flow(w, v, s, q, txSeq[n], rxSeq[p], base[n], delivered[p])
      /\ Flow(v, w, q, s, txSeq[p], rxSeq[n], base[p], delivered[n])
      /\ Crossing(v, w, s, q) /\ Crossing(w, v, q, s)
  BY InStepParts
<1>3. /\ connectState'[n] = "SENT_SYN1" /\ connectState'[p] = q /\ txSeq'[n] = 0 /\ txSeq'[p] = txSeq[p]
      /\ rxSeq'[n] = 0 /\ rxSeq'[p] = rxSeq[p] /\ history'[n] = << >> /\ history'[p] = history[p]
      /\ base'[n] = sent[n] /\ base'[p] = base[p] /\ delivered' = delivered /\ UNCHANGED <<sent, connects>>
      /\ Consume(n, <<SYN1>>)
  BY <1>2 DEF HandleSYN0, ResetNumbers, Enter, TypeOK, InitialSeq, budget
<1>4. Numbered("SENT_SYN1", 0, << >>, sent[n], sent[n])
  <2>1. sent[n] + 0 = sent[n]
    BY <1>2, BoundsAssumption
  <2> QED BY <2>1 DEF Numbered
<1>5. sent[n] \in Nat
  BY <1>2, BoundsAssumption
<1>6. Flow(w \o <<SYN1>>, Tail(v), "SENT_SYN1", q, 0, rxSeq[p], sent[n], delivered[p])
  BY <1>1, <1>2, <1>5, SendingAfterSYN0
<1>7. Flow(Tail(v), w \o <<SYN1>>, q, "SENT_SYN1", txSeq[p], 0, base[p], delivered[n])
  BY <1>1, <1>2, ReceivingAfterSYN0
<1>8. Answering(v, w, s, q, <<SYN1>>, "SENT_SYN1")
  BY <1>1, <1>2, AnswerSYN0
<1> QED BY <1>1, <1>3, <1>4, <1>6, <1>7, <1>8, HandledInStep

LEMMA ConnectedInStep ==
  ASSUME MaxSent <= HistoryCapacity, TypeOK, NEW n \in Nodes, InStep(n), InStep(Peer(n)),
         wire[n] # << >>, NEW pre, BecomeConnected(n, pre),
         \/ Head(wire[n]) = SYN1 /\ pre = <<SYN2>>
         \/ Head(wire[n]) = SYN2 /\ pre = << >> /\ connectState[n] \in {"SENT_SYN1", "CONNECTED"}
  PROVE  InStep(n)' /\ InStep(Peer(n))'
<1> DEFINE p == Peer(n)
           v == wire[n]
           w == wire[p]
           s == connectState[n]
           q == connectState[p]
           t == txSeq[n]
           b == base[n]
           out == pre \o AllFrom0(t, b)
<1>1. pre \in Seq(Frames) /\ ~ In(pre, SYN0)
  <2>1. <<SYN2>> \in Seq(Frames) /\ ~ In(<<SYN2>>, SYN0)
    BY FramesMade, OneFrame, SYNsDiffer
  <2>2. << >> \in Seq(Frames) /\ ~ In(<< >>, SYN0)
    BY ShortWires
  <2> QED BY <2>1, <2>2
<1>2. /\ p \in Nodes /\ p # n /\ v \in Seq(Frames) /\ w \in Seq(Frames)
      /\ t \in Nat /\ rxSeq[n] \in Nat /\ b \in Nat /\ delivered[n] \in Seq(Packets)
      /\ txSeq[p] \in Nat /\ rxSeq[p] \in Nat /\ base[p] \in Nat
      /\ Numbered(s, t, history[n], b, sent[n])
      /\ Flow(w, v, s, q, t, rxSeq[p], b, delivered[p])
      /\ Flow(v, w, q, s, txSeq[p], rxSeq[n], base[p], delivered[n])
      /\ Crossing(v, w, s, q) /\ Crossing(w, v, q, s)
  BY InStepParts
<1>3. /\ Consume(n, out) /\ connectState' = [connectState EXCEPT ![n] = "CONNECTED"]
      /\ UNCHANGED <<numbers, users, budget>>
      /\ b + t \in 0 .. MaxSent /\ t <= HistoryCapacity /\ AllFrom0(t, b) \in Seq(Frames)
  BY <1>1, BecomeConnectedSends
<1>4. connectState'[n] = "CONNECTED" /\ connectState'[p] = q
  BY <1>2, <1>3 DEF TypeOK
<1>5. s # "CONNECTED" => t = 0
  BY <1>2 DEF Numbered
<1>6. Numbered("CONNECTED", t, history[n], b, sent[n])
  BY <1>2 DEF Numbered
<1>7. out \in Seq(Frames) /\ ~ In(out, SYN0)
  <2>1. ~ In(AllFrom0(t, b), SYN0)
    <3>1. Len(AllFrom0(t, b)) = t /\ \A i \in 1 .. t : AllFrom0(t, b)[i].type = "RTX"
      BY <1>2, <1>3, BlockProperties
    <3> QED BY <3>1, SYNsDiffer DEF In
  <2> QED BY <1>1, <1>3, <2>1, CatFacts
<1>8. Flow(w \o out, Tail(v), "CONNECTED", q, t, rxSeq[p], b, delivered[p])
  BY <1>1, <1>2, <1>3, <1>5, SendingConnected
<1>9. Answering(v, w, s, q, out, "CONNECTED")
  BY <1>2, <1>3, <1>5, AnswerConnected
<1> HIDE DEF out
<1>10. Flow(Tail(v), w \o out, q, "CONNECTED", txSeq[p], rxSeq[n], base[p], delivered[n])
  BY <1>2, <1>7, ReceivingConnected
<1> QED BY <1>3, <1>4, <1>6, <1>7, <1>8, <1>9, <1>10, HandledInStep DEF numbers, users, budget

\* An end that waits for the answer to its SYN0 takes something else and answers g.
LEMMA WaitingInStep ==
  ASSUME TypeOK, NEW n \in Nodes, InStep(n), InStep(Peer(n)), connectState[n] = "SENT_SYN0",
         wire[n] # << >>, Head(wire[n]) \notin {SYN0, SYN1}, NEW g \in Frames, Consume(n, <<g>>),
         g = SYN0 \/ (g.type = "NAK" /\ Head(wire[n]).type = "BAD"),
         UNCHANGED <<connectState, numbers, users, budget>>
  PROVE  InStep(n)' /\ InStep(Peer(n))'
<1> DEFINE p == Peer(n)
           v == wire[n]
           w == wire[p]
           q == connectState[p]
           t == txSeq[n]
<1>1. /\ p \in Nodes /\ p # n /\ v \in Seq(Frames) /\ w \in Seq(Frames)
      /\ t \in Nat /\ rxSeq[n] \in Nat /\ base[n] \in Nat
      /\ txSeq[p] \in Nat /\ rxSeq[p] \in Nat /\ base[p] \in Nat
      /\ Numbered("SENT_SYN0", t, history[n], base[n], sent[n])
      /\ Flow(w, v, "SENT_SYN0", q, t, rxSeq[p], base[n], delivered[p])
      /\ Flow(v, w, q, "SENT_SYN0", txSeq[p], rxSeq[n], base[p], delivered[n])
      /\ Crossing(v, w, "SENT_SYN0", q) /\ Crossing(w, v, q, "SENT_SYN0")
  BY InStepParts
<1>2. t = 0 /\ <<g>> \in Seq(Frames)
  BY <1>1 DEF Numbered
<1>3. Flow(w, Tail(v), "SENT_SYN0", q, t, rxSeq[p], base[n], delivered[p])
  BY <1>1, SendingTail
<1>4. Flow(w \o <<g>>, Tail(v), "SENT_SYN0", q, t, rxSeq[p], base[n], delivered[p])
  <2>1. CASE g = SYN0
    BY <1>1, <1>2, <1>3, <2>1, SendingSYN0
  <2>2. CASE g.type = "NAK"
    <3>1. ~ IsDatum(g) /\ g # SYN0
      BY <2>2, SYNsDiffer DEF IsDatum, DataTypes
    <3>2. DataFree(<<g>>) /\ ~ In(<<g>>, SYN0)
      BY <3>1, OneFrame
    <3> QED BY <1>1, <1>2, <1>3, <3>2, SendingCat
  <2> QED BY <2>1, <2>2
<1>5. Flow(Tail(v), w \o <<g>>, q, "SENT_SYN0", txSeq[p], rxSeq[n], base[p], delivered[n])
  BY <1>1, <1>2, ReceivingInSYN0
<1>6. Answering(v, w, "SENT_SYN0", q, <<g>>, "SENT_SYN0")
  BY <1>1, AnswerInSYN0
<1> QED BY <1>1, <1>2, <1>4, <1>5, <1>6, HandledInStep DEF numbers, users, budget

\* One that has sent a SYN1 and waits for the answer repeats it.
LEMMA RepeatingInStep ==
  ASSUME TypeOK, NEW n \in Nodes, InStep(n), InStep(Peer(n)), connectState[n] = "SENT_SYN1",
         wire[n] # << >>, Head(wire[n]) \notin {SYN0, SYN1, SYN2}, Consume(n, <<SYN1>>),
         UNCHANGED <<connectState, numbers, users, budget>>
  PROVE  InStep(n)' /\ InStep(Peer(n))'
<1> DEFINE p == Peer(n)
           v == wire[n]
           w == wire[p]
           q == connectState[p]
           t == txSeq[n]
<1>1. /\ p \in Nodes /\ p # n /\ v \in Seq(Frames) /\ w \in Seq(Frames)
      /\ t \in Nat /\ rxSeq[n] \in Nat /\ base[n] \in Nat
      /\ txSeq[p] \in Nat /\ rxSeq[p] \in Nat /\ base[p] \in Nat /\ delivered[n] \in Seq(Packets)
      /\ Numbered("SENT_SYN1", t, history[n], base[n], sent[n])
      /\ Flow(w, v, "SENT_SYN1", q, t, rxSeq[p], base[n], delivered[p])
      /\ Flow(v, w, q, "SENT_SYN1", txSeq[p], rxSeq[n], base[p], delivered[n])
      /\ Crossing(v, w, "SENT_SYN1", q) /\ Crossing(w, v, q, "SENT_SYN1")
  BY InStepParts
<1>2. <<SYN1>> \in Seq(Frames) /\ DataFree(<<SYN1>>) /\ ~ In(<<SYN1>>, SYN0)
  BY FramesMade, NoData, SYNsDiffer, OneFrame
<1>3. Flow(w, Tail(v), "SENT_SYN1", q, t, rxSeq[p], base[n], delivered[p])
  BY <1>1, SendingTail
<1>4. Flow(w \o <<SYN1>>, Tail(v), "SENT_SYN1", q, t, rxSeq[p], base[n], delivered[p])
  BY <1>1, <1>2, <1>3, SendingCat
<1>5. Flow(Tail(v), w \o <<SYN1>>, q, "SENT_SYN1", txSeq[p], rxSeq[n], base[p], delivered[n])
  BY <1>1, <1>2, ReceivingInSYN1
<1>6. Answering(v, w, "SENT_SYN1", q, <<SYN1>>, "SENT_SYN1")
  BY <1>1, AnswerInSYN1
<1> QED BY <1>1, <1>2, <1>4, <1>5, <1>6, HandledInStep DEF numbers, users, budget

\* One that is connected takes a datum.  It is the next one, or one that has been sent again.
LEMMA DataInStep ==
  ASSUME TypeOK, NEW n \in Nodes, InStep(n), InStep(Peer(n)), HandleUSR(n)
  PROVE  InStep(n)' /\ InStep(Peer(n))'
<1> DEFINE p == Peer(n)
           v == wire[n]
           w == wire[p]
           q == connectState[p]
           t == txSeq[n]
           r == rxSeq[n]
           f == Head(v)
<1>1. v # << >> /\ IsDatum(f) /\ connectState[n] = "CONNECTED"
  BY DEF HandleUSR, Deliver, RejectOutOfOrder, IgnoreRetransmission, Arrives, IsDatum, DataTypes
<1>2. /\ p \in Nodes /\ p # n /\ v \in Seq(Frames) /\ w \in Seq(Frames)
      /\ t \in Nat /\ r \in Nat /\ base[n] \in Nat
      /\ txSeq[p] \in Nat /\ rxSeq[p] \in Nat /\ base[p] \in Nat /\ delivered[n] \in Seq(Packets)
      /\ Numbered("CONNECTED", t, history[n], base[n], sent[n])
      /\ Flow(w, v, "CONNECTED", q, t, rxSeq[p], base[n], delivered[p])
      /\ Flow(v, w, q, "CONNECTED", txSeq[p], r, base[p], delivered[n])
      /\ Crossing(v, w, "CONNECTED", q) /\ Crossing(w, v, q, "CONNECTED")
  BY <1>1, InStepParts
<1>3. w \o << >> = w /\ << >> \in Seq(Frames) /\ f \in Frames /\ f # SYN0 /\ f.packet \in Packets
  BY <1>1, <1>2, TailIndices, DatumFields
<1>4. Flow(w, Tail(v), "CONNECTED", q, t, rxSeq[p], base[n], delivered[p])
  BY <1>1, <1>2, <1>3, SendingTail
<1>5. /\ f.seq = r => r < HistoryCapacity
                        /\ Flow(Tail(v), w, q, "CONNECTED", txSeq[p], r + 1, base[p], Append(delivered[n], f.packet))
      /\ f.seq # r => f.type = "RTX" /\ Flow(Tail(v), w, q, "CONNECTED", txSeq[p], r, base[p], delivered[n])
  BY <1>1, <1>2, ReceivingData
<1>6. Answering(v, w, "CONNECTED", q, << >>, "CONNECTED")
  BY <1>1, <1>2, AnswerData
<1>7. CASE f.seq = r
  <2>1. Deliver(n)
    BY <1>7 DEF HandleUSR, RejectOutOfOrder, IgnoreRetransmission
  <2>2. nextSeq(r) = r + 1
    <3>1. r + 1 \in Seqs
      BY <1>2, <1>5, <1>7, HistoryAssumption, SeqRangePositive DEF Seqs
    <3> QED BY <3>1, ModSmall DEF nextSeq
  <2>3. /\ rxSeq'[n] = r + 1 /\ rxSeq'[p] = rxSeq[p]
        /\ delivered'[n] = Append(delivered[n], f.packet) /\ delivered'[p] = delivered[p]
        /\ UNCHANGED <<connectState, txSeq, history, sent, base, connects>> /\ Consume(n, << >>)
    BY <1>2, <2>1, <2>2 DEF Deliver, TypeOK, budget
  <2>4. Flow(Tail(v), w, q, "CONNECTED", txSeq[p], rxSeq'[n], base[p], delivered'[n])
    BY <1>5, <1>7, <2>3
  <2> QED BY <1>1, <1>2, <1>3, <1>4, <1>6, <2>3, <2>4, HandledInStep
<1>8. CASE f.seq # r
  <2>1. IgnoreRetransmission(n)
    <3>1. f.type # "USR"
      BY <1>5, <1>8
    <3> QED BY <1>8, <3>1 DEF HandleUSR, Deliver, RejectOutOfOrder, Arrives
  <2>2. UNCHANGED <<connectState, numbers, users, budget>> /\ Consume(n, << >>)
    BY <2>1 DEF IgnoreRetransmission
  <2> QED BY <1>1, <1>2, <1>3, <1>4, <1>5, <1>6, <1>8, <2>2, HandledInStep DEF numbers, users, budget
<1> QED BY <1>7, <1>8

\* A SYN1, or a SYN2 behind a SYN1 of n, makes n connected.
Establishing(n) ==
  \E pre :
    /\ BecomeConnected(n, pre)
    /\ \/ Head(wire[n]) = SYN1 /\ pre = <<SYN2>>
       \/ Head(wire[n]) = SYN2 /\ pre = << >> /\ connectState[n] \in {"SENT_SYN1", "CONNECTED"}

\* n waits for the answer to its SYN0 and takes something else.
Waiting(n) ==
  /\ connectState[n] = "SENT_SYN0" /\ Head(wire[n]) \notin {SYN0, SYN1}
  /\ \E g \in Frames : Consume(n, <<g>>) /\ (g = SYN0 \/ (g.type = "NAK" /\ Head(wire[n]).type = "BAD"))
  /\ UNCHANGED <<connectState, numbers, users, budget>>

\* n waits for the answer to its SYN1 and takes something that is no SYN frame.
Repeating(n) ==
  /\ connectState[n] = "SENT_SYN1" /\ Head(wire[n]) \notin {SYN0, SYN1, SYN2}
  /\ Consume(n, <<SYN1>>)
  /\ UNCHANGED <<connectState, numbers, users, budget>>

\* What handling a frame is, of the ways HandleFrame names, at an end that is in step with its peer.
LEMMA FrameKinds ==
  ASSUME TypeOK, NEW n \in Nodes, InStep(n), InStep(Peer(n)), HandleFrame(n)
  PROVE  /\ wire[n] # << >>
         /\ \/ HandleSYN0(n)
            \/ Establishing(n)
            \/ Waiting(n)
            \/ Repeating(n)
            \/ HandleUSR(n)
<1> DEFINE p == Peer(n)
           v == wire[n]
           w == wire[p]
           s == connectState[n]
           q == connectState[p]
           f == Head(v)
<1>1. v # << >> /\ v \in Seq(Frames) /\ w \in Seq(Frames)
  BY HandlersHandle, InStepParts
<1>2. 1 \in 1 .. Len(v) /\ v[1] = f /\ f \in Frames
  BY <1>1, TailIndices
<1>3. Crossing(v, w, s, q) /\ s \in ConnectStates
  BY InStepParts DEF TypeOK
<1>4. f # DIS /\ (f.type = "NAK" => s # "CONNECTED") /\ (f.type = "BAD" => s = "SENT_SYN0")
  BY <1>2, <1>3 DEF Crossing, In, NAKsRefused, RemnantsFirst
<1>5. s = "DISCONNECTED" => f = SYN0
  <2> HAVE s = "DISCONNECTED"
  <2>1. connects[n] = 0
    <3>1. connects[n] \in Nat /\ ~ (connects[n] > 0)
      <4>1. connects[n] \in 0 .. MaxConnects
        BY DEF TypeOK
      <4>2. connects[n] \in Nat
        BY <4>1, BoundsAssumption
      <4>3. connects[n] > 0 => s # "DISCONNECTED"
        BY InStepParts
      <4> QED BY <4>2, <4>3
    <3> QED BY <3>1
  <2>2. Opening(w, v, q, s)
    BY <2>1, InStepParts
  <2> QED BY <1>1, <2>2, OpeningHead
<1>6. /\ f.type \in {"USR", "RTX", "NAK", "BAD"} => f \notin {SYN0, SYN1, SYN2}
      /\ SYN2 \notin {SYN0, SYN1} /\ SYN0 \in Frames
  BY SYNsDiffer, FramesMade
<1>7. CASE HandleSYN(n)
  <2>1. CASE HandleSYN0(n)
    BY <1>1, <2>1
  <2>2. CASE HandleSYN1(n)
    BY <1>1, <2>2 DEF HandleSYN1, ArrivesSYN, Establishing
  <2>3. CASE HandleSYN2(n)
    BY <1>1, <2>3 DEF HandleSYN2, ArrivesSYN, Establishing
  <2>4. CASE SYN2AfterSYN0(n)
    BY <1>1, <1>6, <2>4 DEF SYN2AfterSYN0, ArrivesSYN, Waiting
  <2>5. ~ HandleDIS(n)
    BY <1>4 DEF HandleDIS, ArrivesSYN
  <2>6. ~ SYNWhileDisconnected(n)
    BY <1>5, SYNsDiffer DEF SYNWhileDisconnected, ArrivesSYN
  <2> QED BY <1>1, <1>7, <2>1, <2>2, <2>3, <2>4, <2>5, <2>6 DEF HandleSYN
<1>8. ~ HandleNAK(n)
  BY <1>4 DEF HandleNAK, IgnoreNAK, AnswerNAK, Arrives
<1>9. CASE HandleUSR(n)
  BY <1>1, <1>9
<1>10. CASE RebuffFrame(n)
  <2>1. /\ f.type \in {"USR", "RTX", "NAK"} /\ s # "CONNECTED"
        /\ Consume(n, <<Rebuff(s)>>) /\ UNCHANGED <<connectState, numbers, users, budget>>
    BY <1>10 DEF RebuffFrame, Arrives
  <2>2. s \in {"SENT_SYN0", "SENT_SYN1"}
    BY <1>3, <1>5, <1>6, <2>1 DEF ConnectStates
  <2>3. CASE s = "SENT_SYN0"
    <3>1. Rebuff(s) = SYN0
      BY <2>3 DEF Rebuff
    <3> QED BY <1>1, <1>6, <2>1, <2>3, <3>1 DEF Waiting
  <2>4. CASE s = "SENT_SYN1"
    <3>1. Rebuff(s) = SYN1
      BY <2>4 DEF Rebuff
    <3> QED BY <1>1, <1>6, <2>1, <2>4, <3>1 DEF Repeating
  <2> QED BY <1>1, <2>2, <2>3, <2>4
<1>11. CASE RejectRemnant(n)
  <2>1. f.type = "BAD" /\ Consume(n, <<NAK(rxSeq[n])>>) /\ UNCHANGED <<connectState, numbers, users, budget>>
    BY <1>11 DEF RejectRemnant, Arrives
  <2>2. NAK(rxSeq[n]) \in Frames /\ NAK(rxSeq[n]).type = "NAK"
    BY FramesMade, SYNsDiffer DEF TypeOK
  <2> QED BY <1>1, <1>4, <1>6, <2>1, <2>2 DEF Waiting
<1> QED BY <1>7, <1>8, <1>9, <1>10, <1>11 DEF HandleFrame

LEMMA HandleFrameInStep ==
  ASSUME MaxSent <= HistoryCapacity, TypeOK, NEW n \in Nodes, InStep(n), InStep(Peer(n)), HandleFrame(n)
  PROVE  InStep(n)' /\ InStep(Peer(n))'
<1>1. wire[n] # << >> /\ (HandleSYN0(n) \/ Establishing(n) \/ Waiting(n) \/ Repeating(n) \/ HandleUSR(n))
  BY FrameKinds
<1>2. CASE HandleSYN0(n)
  BY <1>2, SYN0InStep
<1>3. CASE Establishing(n)
  BY <1>1, <1>3, ConnectedInStep DEF Establishing
<1>4. CASE Waiting(n)
  BY <1>1, <1>4, WaitingInStep DEF Waiting
<1>5. CASE Repeating(n)
  BY <1>1, <1>5, RepeatingInStep DEF Repeating
<1>6. CASE HandleUSR(n)
  BY <1>6, DataInStep
<1> QED BY <1>1, <1>2, <1>3, <1>4, <1>5, <1>6

-----------------------------------------------------------------------------
\* A user's call has changed n and both wires: what remains to be shown of both ends.
LEMMA CalledInStep ==
  ASSUME TypeOK, NEW n \in Nodes, InStep(n), InStep(Peer(n)), connectState'[n] # "DISCONNECTED",
         NEW z, NEW u, wire'[n] = z, wire'[Peer(n)] = u,
         connectState'[Peer(n)] = connectState[Peer(n)], txSeq'[Peer(n)] = txSeq[Peer(n)],
         rxSeq'[Peer(n)] = rxSeq[Peer(n)], history'[Peer(n)] = history[Peer(n)], base'[Peer(n)] = base[Peer(n)],
         sent'[Peer(n)] = sent[Peer(n)], delivered' = delivered, connects'[Peer(n)] = connects[Peer(n)],
         Numbered(connectState'[n], txSeq'[n], history'[n], base'[n], sent'[n]),
         Flow(u, z, connectState'[n], connectState[Peer(n)], txSeq'[n], rxSeq[Peer(n)], base'[n],
              delivered[Peer(n)]),
         Flow(z, u, connectState[Peer(n)], connectState'[n], txSeq[Peer(n)], rxSeq'[n], base[Peer(n)],
              delivered[n]),
         Crossing(z, u, connectState'[n], connectState[Peer(n)]),
         Crossing(u, z, connectState[Peer(n)], connectState'[n]),
         connects[Peer(n)] = 0 =>
           Opening(z, u, connectState'[n], connectState[Peer(n)]) /\ connects'[n] # 0,
         connects'[n] = 0 => connects[n] = 0 /\ Opening(u, z, connectState[Peer(n)], connectState'[n])
  PROVE  InStep(n)' /\ InStep(Peer(n))'
<1> DEFINE p == Peer(n)
<1>1. p \in Nodes /\ Peer(p) = n /\ p # n
  BY TwoNodes
<1>2. InStep(n)'
  BY <1>1 DEF InStep, Flow
<1>3. InStep(p)'
  <2>1. /\ Numbered(connectState[p], txSeq[p], history[p], base[p], sent[p])
        /\ connects[p] > 0 => connectState[p] # "DISCONNECTED"
        /\ connects[n] = 0 => (connects[p] = 0 => connectState[p] = "DISCONNECTED")
    BY InStepParts
  <2> QED BY <1>1, <2>1 DEF InStep, Flow
<1> QED BY <1>2, <1>3

\* The data that a transmitter's history holds, when a packet is written.
LEMMA WriteNumbers ==
  ASSUME NEW t \in Nat, NEW b \in Nat, NEW h, NEW k \in Nat, Numbered("CONNECTED", t, h, b, k),
         k < HistoryCapacity
  PROVE  /\ Numbered("CONNECTED", nextSeq(t), PushBack(h, k + 1), b, k + 1)
         /\ nextSeq(t) = t + 1 /\ t < HistoryCapacity /\ k + 1 = b + t + 1
<1>1. b + t = k /\ h = [i \in 1 .. t |-> b + i] /\ t < HistoryCapacity
  BY HistoryAssumption, SeqRangePositive DEF Numbered
<1>2. nextSeq(t) = t + 1
  <2>1. t + 1 \in Seqs
    BY <1>1, HistoryAssumption, SeqRangePositive DEF Seqs
  <2> QED BY <2>1, ModSmall DEF nextSeq
<1>3. PushBack(h, k + 1) = [i \in 1 .. (t + 1) |-> b + i]
  <2>1. h \in Seq(Nat) /\ Len(h) = t
    BY <1>1
  <2>2. PushBack(h, k + 1) = Append(h, k + 1)
    BY <1>1, <2>1 DEF PushBack
  <2> DEFINE g == Append(h, k + 1)
  <2>3. g \in Seq(Nat) /\ Len(g) = t + 1 /\ g[t + 1] = k + 1 /\ \A i \in 1 .. t : g[i] = h[i]
    BY <2>1
  <2>4. \A i \in 1 .. (t + 1) : g[i] = b + i
    BY <1>1, <2>3
  <2> HIDE DEF g
  <2>5. g = [i \in 1 .. (t + 1) |-> g[i]]
    BY <2>3
  <2>6. g = [i \in 1 .. (t + 1) |-> b + i]
    BY <2>4, <2>5
  <2> QED BY <2>2, <2>6 DEF g
<1> QED BY <1>1, <1>2, <1>3 DEF Numbered

LEMMA WriteInStep ==
  ASSUME MaxSent <= HistoryCapacity, WriteStates \subseteq {"CONNECTED"},
         TypeOK, NEW n \in Nodes, InStep(n), InStep(Peer(n)), WritePacket(n)
  PROVE  InStep(n)' /\ InStep(Peer(n))'
<1> DEFINE p == Peer(n)
           v == wire[n]
           w == wire[p]
           q == connectState[p]
           t == txSeq[n]
           b == base[n]
           k == sent[n]
           g == DataFrame("USR", t, k + 1)
<1>1. connectState[n] = "CONNECTED" /\ k < MaxSent
  BY DEF WritePacket
<1>2. /\ p \in Nodes /\ p # n /\ v \in Seq(Frames) /\ w \in Seq(Frames)
      /\ t \in Nat /\ rxSeq[n] \in Nat /\ b \in Nat
      /\ txSeq[p] \in Nat /\ rxSeq[p] \in Nat /\ base[p] \in Nat /\ k \in 0 .. MaxSent
      /\ Numbered("CONNECTED", t, history[n], b, k)
      /\ Flow(w, v, "CONNECTED", q, t, rxSeq[p], b, delivered[p])
      /\ Flow(v, w, q, "CONNECTED", txSeq[p], rxSeq[n], base[p], delivered[n])
      /\ Crossing(v, w, "CONNECTED", q) /\ Crossing(w, v, q, "CONNECTED")
      /\ connects[p] = 0 => Opening(v, w, "CONNECTED", q) /\ connects[n] # 0
      /\ connects[n] = 0 => Opening(w, v, q, "CONNECTED")
  BY <1>1, InStepParts
<1>3. k \in Nat /\ k < HistoryCapacity /\ k + 1 \in Packets
  BY <1>1, <1>2, BoundsAssumption, HistoryAssumption, SeqRangePositive DEF Packets
<1>4. /\ Numbered("CONNECTED", nextSeq(t), PushBack(history[n], k + 1), b, k + 1)
      /\ nextSeq(t) = t + 1 /\ t < HistoryCapacity /\ k + 1 = b + t + 1
  <2> HIDE DEF t, b, k
  <2> QED BY <1>2, <1>3, WriteNumbers
<1>5. /\ g \in Frames /\ g.type = "USR" /\ g.seq = t /\ g.packet = b + t + 1 /\ IsDatum(g)
      /\ <<g>> \in Seq(Frames) /\ Append(w, g) = w \o <<g>>
  <2>1. g \in Frames
    BY <1>2, <1>3, FramesMade DEF TypeOK
  <2>2. g.type = "USR" /\ g.seq = t /\ g.packet = b + t + 1
    BY <1>4 DEF DataFrame
  <2> HIDE DEF g
  <2>3. IsDatum(g)
    BY <2>2 DEF IsDatum, DataTypes
  <2>4. <<g>> \in Seq(Frames)
    BY <2>1
  <2>5. Append(w, g) = w \o <<g>>
    BY <1>2, <2>1
  <2> QED BY <2>1, <2>2, <2>3, <2>4, <2>5
<1>6. /\ connectState' = connectState /\ wire'[n] = v /\ wire'[p] = w \o <<g>>
      /\ txSeq'[n] = t + 1 /\ txSeq'[p] = txSeq[p] /\ rxSeq' = rxSeq
      /\ history'[n] = PushBack(history[n], k + 1) /\ history'[p] = history[p]
      /\ base' = base /\ sent'[n] = k + 1 /\ sent'[p] = sent[p]
      /\ delivered' = delivered /\ connects' = connects
  BY <1>2, <1>4, <1>5 DEF WritePacket, TypeOK, budget
<1> HIDE DEF g
<1>7. Flow(w \o <<g>>, v, "CONNECTED", q, t + 1, rxSeq[p], b, delivered[p])
  BY <1>2, <1>4, <1>5, SendingWrite
<1>8. Flow(v, w \o <<g>>, q, "CONNECTED", txSeq[p], rxSeq[n], base[p], delivered[n])
  <2>1. ~ In(<<g>>, SYN0)
    BY <1>5, OneFrame, DatumFields
  <2> QED BY <1>2, <1>5, <2>1, ReceivingCat
<1>9. /\ Crossing(v, w \o <<g>>, "CONNECTED", q)
      /\ Crossing(w \o <<g>>, v, q, "CONNECTED")
      /\ Opening(v, w, "CONNECTED", q) => Opening(v, w \o <<g>>, "CONNECTED", q)
      /\ Opening(w, v, q, "CONNECTED") => Opening(w \o <<g>>, v, q, "CONNECTED")
  BY <1>2, <1>5, CrossingWrite
<1> QED BY <1>1, <1>2, <1>4, <1>6, <1>7, <1>8, <1>9, CalledInStep

LEMMA ConnectInStep ==
  ASSUME MaxConnects <= 1, TypeOK, NEW n \in Nodes, InStep(n), InStep(Peer(n)), Connect(n)
  PROVE  InStep(n)' /\ InStep(Peer(n))'
<1> DEFINE p == Peer(n)
           v == wire[n]
           w == wire[p]
           s == connectState[n]
           q == connectState[p]
           k == sent[n]
<1>1. connects[n] = 0 /\ connects'[n] = 1 /\ connects'[p] = connects[p]
  <2>1. connects[n] \in 0 .. MaxConnects /\ MaxConnects \in Nat /\ p \in Nodes /\ p # n
    BY BoundsAssumption, TwoNodes DEF TypeOK
  <2> QED BY <2>1 DEF Connect, TypeOK
<1>2. /\ p \in Nodes /\ p # n /\ v \in Seq(Frames) /\ w \in Seq(Frames)
      /\ txSeq[n] \in Nat /\ rxSeq[p] \in Nat /\ base[n] \in Nat /\ k \in 0 .. MaxSent
      /\ Flow(w, v, s, q, txSeq[n], rxSeq[p], base[n], delivered[p])
      /\ connects[p] = 0 => Opening(v, w, s, q) /\ (connects[n] = 0 => s = "DISCONNECTED")
      /\ Opening(w, v, q, s) /\ (connects[p] = 0 => q = "DISCONNECTED")
  BY <1>1, InStepParts
<1>3. PICK z \in AfterReceiverReset(v) : wire' = [wire EXCEPT ![n] = z, ![p] = Append(@, SYN0)]
  BY DEF Connect
<1>4. z \in Seq(Frames) /\ SYN0 \in Frames
  BY <1>2, <1>3, ResetWire, FramesMade
<1>5. wire'[n] = z /\ wire'[p] = w \o <<SYN0>>
  <2>1. wire'[n] = z /\ wire'[p] = Append(w, SYN0)
    BY <1>3, <1>4, SendWires DEF TypeOK
  <2>2. Append(w, SYN0) = w \o <<SYN0>>
    BY <1>2, <1>4
  <2> QED BY <2>1, <2>2
<1>6. /\ connectState'[n] = "SENT_SYN0" /\ connectState'[p] = q /\ txSeq'[n] = 0 /\ txSeq'[p] = txSeq[p]
      /\ rxSeq'[n] = 0 /\ rxSeq'[p] = rxSeq[p] /\ history'[n] = << >> /\ history'[p] = history[p]
      /\ base'[n] = k /\ base'[p] = base[p] /\ delivered' = delivered /\ sent' = sent
  BY <1>2 DEF Connect, ResetNumbers, Enter, TypeOK, InitialSeq
<1>7. ConnectWires(v, w, s, q, z)
  BY <1>2, <1>3 DEF ConnectWires
<1>8. Flow(w \o <<SYN0>>, z, "SENT_SYN0", q, 0, rxSeq[p], k, delivered[p])
  BY <1>2, <1>7, SendingConnect
<1>9. Flow(z, w \o <<SYN0>>, q, "SENT_SYN0", txSeq[p], 0, base[p], delivered[n])
  BY <1>2, <1>7, ReceivingConnect
<1>10. Crossing(z, w \o <<SYN0>>, "SENT_SYN0", q) /\ Crossing(w \o <<SYN0>>, z, q, "SENT_SYN0")
  BY <1>2, <1>7, CrossingConnect
<1>11. Numbered("SENT_SYN0", 0, << >>, k, k)
  <2>1. k + 0 = k
    BY <1>2, BoundsAssumption
  <2> QED BY <2>1 DEF Numbered
<1>12. connects[p] = 0 => Opening(z, w \o <<SYN0>>, "SENT_SYN0", q)
  <2> HAVE connects[p] = 0
  <2>1. s = "DISCONNECTED" /\ q = "DISCONNECTED" /\ v = << >> /\ w = << >>
    BY <1>1, <1>2 DEF Opening
  <2>2. z = << >>
    BY <2>1 DEF AfterReceiverReset
  <2>3. w \o <<SYN0>> = <<SYN0>>
    BY <2>1
  <2> QED BY <2>1, <2>2, <2>3 DEF Opening
<1>13. /\ Numbered(connectState'[n], txSeq'[n], history'[n], base'[n], sent'[n])
       /\ Flow(w \o <<SYN0>>, z, connectState'[n], q, txSeq'[n], rxSeq[p], base'[n], delivered[p])
       /\ Flow(z, w \o <<SYN0>>, q, connectState'[n], txSeq[p], rxSeq'[n], base[p], delivered[n])
       /\ Crossing(z, w \o <<SYN0>>, connectState'[n], q)
       /\ Crossing(w \o <<SYN0>>, z, q, connectState'[n])
       /\ connects[p] = 0 => Opening(z, w \o <<SYN0>>, connectState'[n], q) /\ connects'[n] # 0
       /\ connects'[n] # 0 /\ connectState'[n] # "DISCONNECTED" /\ sent'[p] = sent[p]
  BY <1>1, <1>6, <1>8, <1>9, <1>10, <1>11, <1>12
<1> HIDE DEF v, w, s, q, k
<1> DEFINE u == w \o <<SYN0>>
<1>14. wire'[n] = z /\ wire'[Peer(n)] = u
  BY <1>5
<1> HIDE DEF u
<1> QED BY <1>1, <1>6, <1>13, <1>14, CalledInStep DEF q, u

LEMMA NextSync ==
  ASSUME MaxConnects <= 1, MaxSent <= HistoryCapacity, WriteStates \subseteq {"CONNECTED"},
         SyncInv, [Next]_vars
  PROVE  SyncInv'
<1>1. TypeOK /\ TypeOK'
  BY NextTypes DEF SyncInv
<1> SUFFICES ASSUME Clean' PROVE \A n \in Nodes : InStep(n)'
  BY <1>1 DEF SyncInv
<1>2. CASE UNCHANGED vars
  <2>1. Clean /\ UNCHANGED <<connectState, wire, rxSeq, txSeq, history, sent, delivered, base, connects>>
    BY <1>2 DEF Clean, vars, numbers, users, budget
  <2> QED BY <2>1 DEF SyncInv, InStep
<1>3. CASE Next
  <2>1. PICK n \in Nodes : Clean /\ (HandleFrame(n) \/ Connect(n) \/ WritePacket(n))
    BY <1>1, <1>3, CleanStep
  <2>2. InStep(n) /\ InStep(Peer(n))
    BY <2>1, TwoNodes DEF SyncInv
  <2>3. InStep(n)' /\ InStep(Peer(n))'
    BY <1>1, <2>1, <2>2, HandleFrameInStep, ConnectInStep, WriteInStep
  <2> QED BY <2>3, TwoNodes
<1> QED BY <1>2, <1>3

LEMMA InitSync == Init => SyncInv
<1> SUFFICES ASSUME Init PROVE SyncInv
  OBVIOUS
<1>1. TypeOK
  <2>1. "DISCONNECTED" \in ConnectStates
    BY DEF ConnectStates
  <2> QED BY <2>1, InitTypes DEF Init
<1> SUFFICES ASSUME NEW n \in Nodes PROVE InStep(n)
  BY <1>1 DEF SyncInv
<1> DEFINE p == Peer(n)
<1>2. /\ p \in Nodes /\ wire[n] = << >> /\ wire[p] = << >> /\ connectState[n] = "DISCONNECTED"
      /\ connectState[p] = "DISCONNECTED" /\ txSeq[n] = 0 /\ rxSeq[p] = 0 /\ history[n] = << >>
      /\ base[n] = 0 /\ sent[n] = 0 /\ delivered[p] = << >> /\ connects[n] = 0 /\ connects[p] = 0
  BY TwoNodes DEF Init, InitIn, InitialSeq
<1>3. Numbered("DISCONNECTED", 0, << >>, 0, 0)
  BY DEF Numbered
<1>4. ~ Pending(<< >>, "DISCONNECTED")
  BY ShortWires DEF Pending
<1>5. Stream(<< >>, 0, 0, 0, << >>) /\ Admitting(<< >>, "DISCONNECTED", "DISCONNECTED")
  <2>1. << >> \in Seq(Frames) /\ DataFree(<< >>)
    BY DEF DataFree
  <2>2. Stream(<< >>, 0, 0, 0, << >>)
    BY <2>1, StreamNone
  <2>3. Admitting(<< >>, "DISCONNECTED", "DISCONNECTED")
    BY <2>1 DEF Admitting, DataFree
  <2> QED BY <2>2, <2>3
<1>6. Crossing(<< >>, << >>, "DISCONNECTED", "DISCONNECTED")
  BY ShortWires DEF Crossing, LateSYN1, LateSYN2, NAKsRefused, RemnantsFirst
<1>7. Opening(<< >>, << >>, "DISCONNECTED", "DISCONNECTED")
  BY DEF Opening
<1> QED BY <1>2, <1>3, <1>4, <1>5, <1>6, <1>7 DEF InStep, Resetting, Settled

LEMMA SyncIsQuiet == SyncInv => QuietSync
<1> SUFFICES ASSUME SyncInv, Quiet, Clean, AllConnected, NEW n \in Nodes
             PROVE  rxSeq[Peer(n)] = txSeq[n] /\ \A k \in (base[n] + 1) .. sent[n] : WasDelivered(n, k)
  BY DEF QuietSync
<1> DEFINE p == Peer(n)
           t == txSeq[n]
           r == rxSeq[p]
           b == base[n]
           d == delivered[p]
<1>1. /\ p \in Nodes /\ t \in Nat /\ r \in Nat /\ b \in Nat
      /\ Numbered(connectState[n], t, history[n], b, sent[n])
      /\ Flow(wire[p], wire[n], connectState[n], connectState[p], t, r, b, d)
  BY TwoNodes, InStepParts DEF SyncInv
<1>2. wire[n] = << >> /\ wire[p] = << >> /\ connectState[p] = "CONNECTED"
  BY <1>1 DEF Quiet, AllConnected, Connected
<1>3. Stream(<< >>, r, t, b, d)
  <2>1. ~ Pending(<< >>, "CONNECTED")
    BY ShortWires DEF Pending
  <2> QED BY <1>1, <1>2, <2>1 DEF Flow, Settled
<1>4. Start(<< >>, r) = r /\ ~ In(<< >>, SYN0)
  BY ShortWires DEF Start
<1>5. r = t
  <2>1. r <= t
    BY <1>3, <1>4 DEF Stream, Current
  <2>2. ~ (r < t)
    BY <1>1, <1>3, <1>4 DEF Stream, Current
  <2> QED BY <1>1, <2>1, <2>2
<1>6. ASSUME NEW k \in (b + 1) .. sent[n] PROVE WasDelivered(n, k)
  <2>1. b + t = sent[n]
    BY <1>1 DEF Numbered
  <2>2. k - b - 1 \in Nat /\ k - b - 1 < r /\ b + (k - b - 1) + 1 = k
    BY <1>1, <1>5, <2>1
  <2>3. \E i \in 1 .. Len(d) : d[i] = b + (k - b - 1) + 1
    BY <1>3, <1>4, <2>2 DEF Stream, Received
  <2> QED BY <2>2, <2>3 DEF WasDelivered
<1> QED BY <1>5, <1>6

(***************************************************************************)
(* Once a link is quiet and both its ends are connected, each receiver     *)
(* waits for what the other end's transmitter numbers next, and has        *)
(* delivered all that was written since that transmitter was reset: for    *)
(* any SeqRange and HistoryCapacity, in every order of the two calls of    *)
(* sfpConnect, the SYN frames that cross because of them and the packets   *)
(* written.  It takes users who call sfpConnect once, write only when      *)
(* connected, and write no more than the history holds: without any one of *)
(* the three TLC finds QuietSync violated.                                 *)
(***************************************************************************)
THEOREM Synchronized ==
  ASSUME MaxConnects <= 1, MaxSent <= HistoryCapacity, WriteStates \subseteq {"CONNECTED"}
  PROVE  Spec \/ DisruptedSpec => []QuietSync
<1>1. SyncInv /\ [Next]_vars => SyncInv'
  BY NextSync
<1>2. SyncInv /\ [Next /\ OneDisruption]_vars => SyncInv'
  BY NextSync
<1> QED BY <1>1, <1>2, InitSync, SyncIsQuiet, PTL DEF Spec, DisruptedSpec

-----------------------------------------------------------------------------
(***************************************************************************)
(* AtMostOnceInOrder of a link both ends of which may connect, until the   *)
(* medium fails or an end is initialised anew.                             *)
(*                                                                         *)
(* SyncInv says which data are going to be accepted by their numbers.      *)
(* Here it is said that these are newer than what has been delivered       *)
(* (Newer): packets grow with their numbers, and from one SYN0 to the next *)
(* (Growing), and what was written before the transmitter was last reset   *)
(* is older than what is written now (Older).                              *)
(*                                                                         *)
(* As above, w is the wire from n and v that to n, q the state of its peer *)
(* and r what that waits for, b the base of n; k packets have been written *)
(* by n, and d is what its peer has delivered.                             *)
(***************************************************************************)
Newer(w, r, d) ==
  \A i \in 1 .. Len(w), j \in 1 .. Len(d) :
    IsDatum(w[i]) /\ StartAt(w, i, r) <= w[i].seq => d[j] < w[i].packet

Growing(w) ==
  \A i, j \in 1 .. Len(w) : i < j /\ IsDatum(w[i]) /\ IsDatum(w[j]) =>
    IF Joined(w, i, j) THEN w[j].packet + w[i].seq = w[i].packet + w[j].seq
                       ELSE w[i].packet < w[j].packet

Older(w, r, b, d) ==
  /\ \A j \in 1 .. Len(d) : d[j] <= b + Start(w, r)
  /\ \A i \in 1 .. Len(w) : IsDatum(w[i]) /\ ~ Fresh(w, i) => w[i].packet <= b

Sequel(w, r, b, d) == Newer(w, r, d) /\ Growing(w) /\ Older(w, r, b, d)

Written(w, d, k) ==
  /\ \A i \in 1 .. Len(w) : IsDatum(w[i]) => w[i].packet <= k
  /\ \A j \in 1 .. Len(d) : d[j] <= k
  /\ \A i, j \in 1 .. Len(d) : i < j => d[i] < d[j]

Once(w, v, q, r, b, d, k) == Written(w, d, k) /\ (~ Pending(v, q) => Sequel(w, r, b, d))

OnceInOrder(n) ==
  LET p == Peer(n)
  IN  Once(wire[p], wire[n], connectState[p], rxSeq[p], base[n], delivered[p], sent[n])

CleanInv == SyncInv /\ (Clean => \A n \in Nodes : OnceInOrder(n))

LEMMA PacketsAreNumbers ==
  ASSUME NEW d \in Seq(Packets)
  PROVE  Len(d) \in Nat /\ \A j \in 1 .. Len(d) : d[j] \in Packets /\ d[j] \in Nat
<1>1. Len(d) \in Nat /\ \A j \in 1 .. Len(d) : d[j] \in Packets
  OBVIOUS
<1>2. \A x \in Packets : x \in Nat
  BY DEF Packets
<1> QED BY <1>1, <1>2

\* Where there are no data.
LEMMA SequelNone ==
  ASSUME NEW w \in Seq(Frames), DataFree(w), NEW r \in Nat, NEW b \in Nat, NEW d \in Seq(Packets),
         \A j \in 1 .. Len(d) : d[j] <= b
  PROVE  Sequel(w, r, b, d)
<1>1. Start(w, r) \in Nat
  BY DEF Start
<1>2. \A j \in 1 .. Len(d) : d[j] <= b + Start(w, r)
  BY <1>1, PacketsAreNumbers
<1> QED BY <1>2 DEF Sequel, Newer, Growing, Older, DataFree

\* A frame is taken that is not delivered.
LEMMA SequelTail ==
  ASSUME NEW w \in Seq(Frames), w # << >>, NEW r \in Nat, NEW b \in Nat, NEW d \in Seq(Packets),
         Sequel(w, r, b, d), NEW x, x = IF Head(w) = SYN0 THEN 0 ELSE r
  PROVE  Sequel(Tail(w), x, b, d)
<1> DEFINE z == Tail(w)
<1>1. /\ Len(w) \in Nat /\ Len(z) = Len(w) - 1
      /\ \A i \in 1 .. Len(z) : i + 1 \in 1 .. Len(w) /\ z[i] = w[i + 1]
  BY TailIndices
<1>0. /\ \A i \in Int : Fresh(z, i) <=> Fresh(w, IF i >= 1 THEN i + 1 ELSE 2)
      /\ Head(w) # SYN0 => \A i \in Int : i >= 1 => (First0(z, i) <=> First0(w, i + 1))
      /\ Head(w) = SYN0 => \A i \in Int : i >= 1 => ~ First0(w, i + 1)
      /\ \A i, j \in Int : i >= 1 /\ j >= 1 => (Joined(z, j, i) <=> Joined(w, j + 1, i + 1))
      /\ Head(w) # SYN0 => (In(w, SYN0) <=> In(z, SYN0))
      /\ Head(w) = SYN0 => In(w, SYN0)
  BY TailPlaces
<1> HIDE DEF z
<1>2. \A i \in 1 .. Len(z) : StartAt(z, i, x) = StartAt(w, i + 1, r)
  <2>1. CASE Head(w) = SYN0
    <3>1. x = 0 /\ \A i \in 1 .. Len(z) : ~ First0(w, i + 1)
      BY <1>0, <2>1
    <3> QED BY <3>1 DEF StartAt
  <2>2. CASE Head(w) # SYN0
    <3>1. x = r /\ \A i \in 1 .. Len(z) : First0(z, i) <=> First0(w, i + 1)
      BY <1>0, <2>2
    <3> QED BY <3>1 DEF StartAt
  <2> QED BY <2>1, <2>2
<1>3. \A i, j \in 1 .. Len(z) : Joined(z, i, j) <=> Joined(w, i + 1, j + 1)
  BY <1>0
<1>4. \A i \in 1 .. Len(z) : Fresh(z, i) <=> Fresh(w, i + 1)
  <2> TAKE i \in 1 .. Len(z)
  <2>1. i \in Int /\ i >= 1
    OBVIOUS
  <2> QED BY <1>0, <2>1
<1>5. Start(z, x) = Start(w, r)
  BY <1>0 DEF Start
<1>6. Newer(z, x, d)
  BY <1>1, <1>2 DEF Sequel, Newer
<1>7. Growing(z)
  <2> SUFFICES ASSUME NEW i \in 1 .. Len(z), NEW j \in 1 .. Len(z), i < j, IsDatum(z[i]), IsDatum(z[j])
               PROVE  IF Joined(z, i, j) THEN z[j].packet + z[i].seq = z[i].packet + z[j].seq
                                         ELSE z[i].packet < z[j].packet
    BY DEF Growing
  <2>1. i + 1 \in 1 .. Len(w) /\ j + 1 \in 1 .. Len(w) /\ i + 1 < j + 1 /\ z[i] = w[i + 1] /\ z[j] = w[j + 1]
    BY <1>1
  <2>2. Joined(z, i, j) <=> Joined(w, i + 1, j + 1)
    BY <1>3
  <2> QED BY <2>1, <2>2 DEF Sequel, Growing
<1>8. Older(z, x, b, d)
  BY <1>1, <1>4, <1>5 DEF Sequel, Older
<1> QED BY <1>6, <1>7, <1>8 DEF Sequel, z

\* The datum that the receiver waits for is delivered.
LEMMA SequelDeliver ==
  ASSUME NEW w \in Seq(Frames), w # << >>, NEW r \in Nat, NEW t \in Nat, NEW b \in Nat, NEW d \in Seq(Packets),
         Sequel(w, r, b, d), Current(w, r, t, b), IsDatum(Head(w)), Head(w).seq = r
  PROVE  /\ Sequel(Tail(w), r + 1, b, Append(d, Head(w).packet))
         /\ \A j \in 1 .. Len(d) : d[j] < Head(w).packet
<1> DEFINE z == Tail(w)
           f == Head(w)
           e == Append(d, f.packet)
<1>1. /\ Len(w) \in Nat /\ Len(z) = Len(w) - 1 /\ z \in Seq(Frames) /\ f = w[1] /\ 1 \in 1 .. Len(w)
      /\ \A i \in 1 .. Len(z) : i + 1 \in 1 .. Len(w) /\ z[i] = w[i + 1]
  BY TailIndices
<1>2. f \in Frames /\ f # SYN0 /\ f.packet \in Packets /\ f.packet \in Nat
  BY TailIndices, DatumFields DEF Packets
<1>3. /\ Len(d) \in Nat /\ Len(e) = Len(d) + 1 /\ e[Len(d) + 1] = f.packet
      /\ \A j \in 1 .. Len(d) : e[j] = d[j] /\ d[j] \in Nat
      /\ \A j \in 1 .. Len(e) : j \in 1 .. Len(d) \/ j = Len(d) + 1
  <2>1. /\ Len(e) = Len(d) + 1 /\ e[Len(d) + 1] = f.packet
        /\ \A j \in 1 .. Len(d) : e[j] = d[j]
    BY <1>2
  <2> HIDE DEF e
  <2>2. Len(d) \in Nat /\ \A j \in 1 .. Len(d) : d[j] \in Nat
    BY PacketsAreNumbers
  <2> QED BY <2>1, <2>2
<1>4. Sequel(z, r, b, d)
  BY <1>2, SequelTail
<1>5. /\ \A i \in 1 .. Len(z) : First0(z, i) <=> First0(w, i + 1)
      /\ \A i \in 1 .. Len(z) : z[i] # SYN0 => (First0(w, i + 1) <=> Joined(w, 1, i + 1))
      /\ In(z, SYN0) <=> In(w, SYN0)
      /\ Fresh(w, 1) <=> ~ In(w, SYN0)
  <2>0. \A i \in Int : i >= 1 => (First0(z, i) <=> First0(w, i + 1))
    BY <1>2, TailPlaces
  <2> HIDE DEF z
  <2>1. \A i \in 1 .. Len(z) : First0(z, i) <=> First0(w, i + 1)
    BY <2>0
  <2>2. In(z, SYN0) <=> In(w, SYN0)
    BY <1>2, TailPlaces DEF z
  <2>3. Fresh(w, 1) <=> ~ In(w, SYN0)
    BY <1>1 DEF Fresh, In
  <2>4. ASSUME NEW i \in 1 .. Len(z), z[i] # SYN0 PROVE First0(w, i + 1) <=> Joined(w, 1, i + 1)
    <3>1. i + 1 \in 1 .. Len(w) /\ w[i + 1] # SYN0 /\ 1 < i + 1
      BY <1>1, <2>4
    <3>2. \A m \in 1 .. Len(w) : m <= i + 1 => m < i + 1 \/ m = i + 1
      BY <1>1
    <3>3. \A m \in 1 .. Len(w) : m < i + 1 => 1 <= m /\ m <= i + 1
      BY <1>1
    <3> QED BY <3>1, <3>2, <3>3 DEF First0, Joined
  <2> QED BY <2>1, <2>2, <2>3, <2>4
<1> HIDE DEF z, e, f
<1>6. ASSUME NEW j \in 1 .. Len(d) PROVE d[j] < f.packet
  <2>1. First0(w, 1)
    BY DEF First0
  <2>2. StartAt(w, 1, r) <= w[1].seq
    BY <1>1, <2>1 DEF StartAt, f
  <2> QED BY <1>1, <2>2 DEF Sequel, Newer, f
<1>7. ASSUME NEW i \in 1 .. Len(z), NEW j \in 1 .. Len(e), IsDatum(z[i]), StartAt(z, i, r + 1) <= z[i].seq
      PROVE  e[j] < z[i].packet
  <2>1. /\ i + 1 \in 1 .. Len(w) /\ z[i] = w[i + 1] /\ z[i] \in Frames /\ 1 < i + 1
        /\ z[i].seq \in Nat /\ z[i].packet \in Nat /\ z[i] # SYN0 /\ f.seq = r
    <3>1. z[i] \in Frames
      BY <1>1
    <3>2. z[i].seq \in Nat /\ z[i].packet \in Packets /\ z[i] # SYN0
      BY <1>7, <3>1, DatumFields
    <3> QED BY <1>1, <3>1, <3>2 DEF Packets, f
  <2>2. CASE j \in 1 .. Len(d)
    <3>1. StartAt(z, i, r) <= z[i].seq
      BY <1>7, <2>1 DEF StartAt
    <3> QED BY <1>3, <1>4, <1>7, <2>2, <3>1 DEF Sequel, Newer
  <2>3. CASE j = Len(d) + 1
    <3>1. IF Joined(w, 1, i + 1) THEN z[i].packet + r = f.packet + z[i].seq ELSE f.packet < z[i].packet
      BY <1>1, <1>7, <2>1 DEF Sequel, Growing, f
    <3>2. First0(z, i) <=> Joined(w, 1, i + 1)
      BY <1>5, <2>1
    <3>3. First0(z, i) => r + 1 <= z[i].seq
      BY <1>7 DEF StartAt
    <3>4. f.packet < z[i].packet
      BY <1>2, <2>1, <3>1, <3>2, <3>3, SMTT(30)
    <3> QED BY <1>3, <2>3, <3>4
  <2> QED BY <1>3, <2>2, <2>3
<1>8. ASSUME NEW j \in 1 .. Len(e) PROVE e[j] <= b + Start(z, r + 1)
  <2>1. CASE In(w, SYN0)
    <3>1. Start(z, r + 1) = 0 /\ Start(w, r) = 0
      BY <1>5, <2>1 DEF Start
    <3>2. f.packet <= b
      BY <1>1, <1>5, <2>1 DEF Sequel, Older, f
    <3>3. \A i \in 1 .. Len(d) : d[i] <= b + 0
      BY <3>1 DEF Sequel, Older
    <3> QED BY <1>2, <1>3, <3>1, <3>2, <3>3
  <2>2. CASE ~ In(w, SYN0)
    <3>1. Start(z, r + 1) = r + 1 /\ Start(w, r) = r
      BY <1>5, <2>2 DEF Start
    <3>2. f.packet = b + r + 1
      BY <1>1, <1>5, <2>2 DEF Current, f
    <3>3. \A i \in 1 .. Len(d) : d[i] <= b + r
      BY <3>1 DEF Sequel, Older
    <3> QED BY <1>2, <1>3, <3>1, <3>2, <3>3
  <2> QED BY <2>1, <2>2
<1>9. Growing(z) /\ \A i \in 1 .. Len(z) : IsDatum(z[i]) /\ ~ Fresh(z, i) => z[i].packet <= b
  BY <1>4 DEF Sequel, Older
<1>10. Newer(z, r + 1, e) /\ Older(z, r + 1, b, e)
  BY <1>7, <1>8, <1>9 DEF Newer, Older
<1> QED BY <1>6, <1>9, <1>10 DEF Sequel, z, e, f

LEMMA EqualOffsets ==
  ASSUME NEW b \in Nat, NEW x \in Nat, NEW y \in Nat
  PROVE  (b + y + 1) + x = (b + x + 1) + y
  OBVIOUS

\* Frames without a SYN0 are put behind, whose data go on from base b.
LEMMA SequelCat ==
  ASSUME NEW w \in Seq(Frames), NEW out \in Seq(Frames), ~ In(out, SYN0),
         NEW r \in Nat, NEW t \in Nat, NEW b \in Nat, NEW d \in Seq(Packets),
         Sequel(w, r, b, d), Current(w, r, t, b),
         \A j \in 1 .. Len(out) : IsDatum(out[j]) => out[j].packet = b + out[j].seq + 1
  PROVE  Sequel(w \o out, r, b, d)
<1> DEFINE c == w \o out
<1>1. /\ c \in Seq(Frames) /\ Len(w) \in Nat /\ Len(c) \in Nat
      /\ \A i \in 1 .. Len(w) : i \in 1 .. Len(c) /\ c[i] = w[i]
      /\ \A i \in 1 .. Len(c) :
           \/ i \in 1 .. Len(w)
           \/ i > Len(w) /\ i - Len(w) \in 1 .. Len(out) /\ c[i] = out[i - Len(w)]
  BY CatIndices
<1>2. /\ \A i \in Int : i <= Len(w) + 1 => (Fresh(c, i) <=> Fresh(w, i))
      /\ \A i \in Int : i > Len(w) => Fresh(c, i)
      /\ \A i \in 1 .. Len(w) : First0(c, i) <=> First0(w, i)
      /\ \A i \in Int : i > Len(w) => (First0(c, i) <=> ~ In(w, SYN0))
      /\ \A i \in 1 .. Len(w), j \in Int : Joined(c, j, i) <=> Joined(w, j, i)
      /\ \A i \in 1 .. Len(c), j \in 1 .. Len(w) : i > Len(w) => (Joined(c, j, i) <=> Fresh(w, j))
      /\ \A i \in 1 .. Len(c), j \in 1 .. Len(c) : j > Len(w) => (Joined(c, j, i) <=> j < i)
      /\ In(c, SYN0) <=> In(w, SYN0)
  BY CatPlaces
<1>3. Len(d) \in Nat /\ \A j \in 1 .. Len(d) : d[j] \in Nat
  BY PacketsAreNumbers
<1> HIDE DEF c
<1>4. ASSUME NEW i \in 1 .. Len(c), IsDatum(c[i])
      PROVE  /\ c[i].seq \in Nat /\ c[i].packet \in Nat
             /\ i > Len(w) => c[i].packet = b + c[i].seq + 1
  <2>1. c[i] \in Frames
    BY <1>1
  <2>2. c[i].seq \in Nat /\ c[i].packet \in Packets
    BY <1>4, <2>1, DatumFields
  <2>3. c[i].packet \in Nat
    BY <2>2 DEF Packets
  <2>4. ASSUME i > Len(w) PROVE c[i].packet = b + c[i].seq + 1
    <3>1. i - Len(w) \in 1 .. Len(out) /\ c[i] = out[i - Len(w)]
      BY <1>1, <2>4
    <3> QED BY <1>4, <3>1
  <2> QED BY <2>2, <2>3, <2>4
<1>5. ASSUME NEW i \in 1 .. Len(c), NEW j \in 1 .. Len(d), IsDatum(c[i]), StartAt(c, i, r) <= c[i].seq
      PROVE  d[j] < c[i].packet
  <2>1. CASE i \in 1 .. Len(w)
    <3>1. StartAt(w, i, r) = StartAt(c, i, r) /\ c[i] = w[i]
      BY <1>1, <1>2, <2>1 DEF StartAt
    <3> QED BY <1>5, <2>1, <3>1 DEF Sequel, Newer
  <2>2. CASE i > Len(w)
    <3>1. StartAt(c, i, r) = Start(w, r)
      BY <1>2, <2>2 DEF StartAt, Start
    <3>2. d[j] <= b + Start(w, r)
      BY DEF Sequel, Older
    <3>3. Start(w, r) \in Nat
      BY DEF Start
    <3>4. /\ c[i].packet = b + c[i].seq + 1 /\ Start(w, r) <= c[i].seq
          /\ c[i].seq \in Nat /\ d[j] \in Nat
      BY <1>3, <1>4, <1>5, <2>2, <3>1
    <3> QED BY <3>2, <3>3, <3>4
  <2> QED BY <1>1, <2>1, <2>2
<1>6. ASSUME NEW i \in 1 .. Len(c), NEW j \in 1 .. Len(c), i < j, IsDatum(c[i]), IsDatum(c[j])
      PROVE  IF Joined(c, i, j) THEN c[j].packet + c[i].seq = c[i].packet + c[j].seq
                                ELSE c[i].packet < c[j].packet
  <2>1. CASE j \in 1 .. Len(w)
    <3>1. i \in 1 .. Len(w) /\ c[i] = w[i] /\ c[j] = w[j] /\ (Joined(c, i, j) <=> Joined(w, i, j))
      BY <1>1, <1>2, <1>6, <2>1
    <3> QED BY <1>6, <2>1, <3>1 DEF Sequel, Growing
  <2>2. CASE i \in 1 .. Len(w) /\ j > Len(w)
    <3>1. c[i] = w[i] /\ (Joined(c, i, j) <=> Fresh(w, i)) /\ c[j].packet = b + c[j].seq + 1
      BY <1>1, <1>2, <1>4, <1>6, <2>2
    <3>2. Fresh(w, i) => c[i].packet = b + c[i].seq + 1
      BY <1>6, <2>2, <3>1 DEF Current
    <3>3. ~ Fresh(w, i) => c[i].packet <= b
      BY <1>6, <2>2, <3>1 DEF Sequel, Older
    <3>4. c[i].seq \in Nat /\ c[i].packet \in Nat /\ c[j].seq \in Nat /\ c[j].packet \in Nat
      BY <1>4, <1>6
    <3>5. CASE Fresh(w, i)
      <4>1. Joined(c, i, j) /\ c[i].packet = b + c[i].seq + 1 /\ c[j].packet = b + c[j].seq + 1
        BY <3>1, <3>2, <3>5
      <4>2. (b + c[j].seq + 1) + c[i].seq = (b + c[i].seq + 1) + c[j].seq
        BY <3>4, EqualOffsets
      <4> QED BY <4>1, <4>2
    <3>6. CASE ~ Fresh(w, i)
      <4>1. ~ Joined(c, i, j) /\ c[i].packet <= b /\ c[j].packet = b + c[j].seq + 1
        BY <3>1, <3>3, <3>6
      <4>2. c[i].packet < c[j].packet
        BY <3>4, <4>1, SMTT(30)
      <4> QED BY <4>1, <4>2
    <3> QED BY <3>5, <3>6
  <2>3. CASE i > Len(w) /\ j > Len(w)
    <3>1. Joined(c, i, j) /\ c[i].packet = b + c[i].seq + 1 /\ c[j].packet = b + c[j].seq + 1
      BY <1>2, <1>4, <1>6, <2>3
    <3>2. c[i].seq \in Nat /\ c[j].seq \in Nat
      BY <1>4, <1>6
    <3>3. (b + c[j].seq + 1) + c[i].seq = (b + c[i].seq + 1) + c[j].seq
      BY <3>2, EqualOffsets
    <3> QED BY <3>1, <3>3
  <2> QED BY <1>1, <1>6, <2>1, <2>2, <2>3
<1>7. Older(c, r, b, d)
  <2>1. Start(c, r) = Start(w, r)
    BY <1>2 DEF Start
  <2>2. ASSUME NEW i \in 1 .. Len(c), IsDatum(c[i]), ~ Fresh(c, i) PROVE c[i].packet <= b
    <3>1. i \in 1 .. Len(w) /\ c[i] = w[i] /\ ~ Fresh(w, i)
      BY <1>1, <1>2, <2>2
    <3> QED BY <2>2, <3>1 DEF Sequel, Older
  <2> QED BY <2>1, <2>2 DEF Sequel, Older
<1> QED BY <1>5, <1>6, <1>7 DEF Sequel, Newer, Growing, c

\* Behind a SYN0 what is written from now on is newer than everything.
LEMMA SequelSYN0 ==
  ASSUME NEW w \in Seq(Frames), NEW r \in Nat, NEW b, NEW k \in Nat, NEW d \in Seq(Packets),
         Sequel(w, r, b, d), Written(w, d, k)
  PROVE  Sequel(w \o <<SYN0>>, r, k, d)
<1> DEFINE c == w \o <<SYN0>>
<1>1. /\ Len(w) \in Nat /\ Len(c) = Len(w) + 1 /\ c[Len(w) + 1] = SYN0 /\ ~ IsDatum(SYN0)
      /\ \A i \in 1 .. Len(w) : c[i] = w[i]
  BY FramesMade, NoData, OneFrame
<1>2. /\ \A i \in 1 .. Len(w) : First0(c, i) <=> First0(w, i)
      /\ \A i \in 1 .. Len(w), j \in Int : Joined(c, j, i) <=> Joined(w, j, i)
  <2>1. <<SYN0>> \in Seq(Frames)
    BY FramesMade
  <2> QED BY <2>1, CatBefore
<1> HIDE DEF c
<1>3. \A i \in 1 .. Len(c) : IsDatum(c[i]) => i \in 1 .. Len(w) /\ c[i] = w[i]
  BY <1>1
<1>4. In(c, SYN0)
  BY <1>1 DEF In
<1>5. \A i \in 1 .. Len(w) : StartAt(c, i, r) = StartAt(w, i, r)
  BY <1>2 DEF StartAt
<1>6. Newer(c, r, d)
  BY <1>3, <1>5 DEF Sequel, Newer
<1>7. Growing(c)
  <2> SUFFICES ASSUME NEW i \in 1 .. Len(c), NEW j \in 1 .. Len(c), i < j, IsDatum(c[i]), IsDatum(c[j])
               PROVE  IF Joined(c, i, j) THEN c[j].packet + c[i].seq = c[i].packet + c[j].seq
                                         ELSE c[i].packet < c[j].packet
    BY DEF Growing
  <2>1. i \in 1 .. Len(w) /\ j \in 1 .. Len(w) /\ c[i] = w[i] /\ c[j] = w[j] /\ (Joined(c, i, j) <=> Joined(w, i, j))
    BY <1>2, <1>3
  <2> QED BY <2>1 DEF Sequel, Growing
<1>8. Older(c, r, k, d)
  <2>1. Start(c, r) = 0
    BY <1>4 DEF Start
  <2>2. \A j \in 1 .. Len(d) : d[j] <= k + 0
    BY DEF Written
  <2> QED BY <1>3, <2>1, <2>2 DEF Older, Written
<1> QED BY <1>6, <1>7, <1>8 DEF Sequel, c

\* What has been written stays so when frames are taken, delivered, and put on the wire.
LEMMA WrittenTail ==
  ASSUME NEW w \in Seq(Frames), w # << >>, NEW d \in Seq(Packets), NEW k, Written(w, d, k)
  PROVE  /\ Written(Tail(w), d, k)
         /\ IsDatum(Head(w)) /\ (\A j \in 1 .. Len(d) : d[j] < Head(w).packet) =>
              Written(Tail(w), Append(d, Head(w).packet), k)
<1> DEFINE z == Tail(w)
           f == Head(w)
<1>1. /\ Len(w) \in Nat /\ f = w[1] /\ 1 \in 1 .. Len(w) /\ f \in Frames
      /\ \A i \in 1 .. Len(z) : i + 1 \in 1 .. Len(w) /\ z[i] = w[i + 1]
  BY TailIndices
<1> HIDE DEF z, f
<1>2. Written(z, d, k)
  BY <1>1 DEF Written
<1>3. ASSUME IsDatum(f), \A j \in 1 .. Len(d) : d[j] < f.packet PROVE Written(z, Append(d, f.packet), k)
  <2> DEFINE e == Append(d, f.packet)
  <2>1. f.packet \in Packets /\ f.packet <= k
    BY <1>1, <1>3, DatumFields DEF Written
  <2>2. /\ Len(e) = Len(d) + 1 /\ e[Len(d) + 1] = f.packet /\ Len(d) \in Nat
        /\ \A j \in 1 .. Len(d) : e[j] = d[j]
    BY <2>1
  <2> HIDE DEF e
  <2>3. \A j \in 1 .. Len(e) : j \in 1 .. Len(d) \/ j = Len(d) + 1
    BY <2>2
  <2>4. \A j \in 1 .. Len(e) : e[j] <= k
    BY <2>1, <2>2, <2>3 DEF Written
  <2>5. ASSUME NEW i \in 1 .. Len(e), NEW j \in 1 .. Len(e), i < j PROVE e[i] < e[j]
    <3>1. i \in 1 .. Len(d) /\ e[i] = d[i]
      BY <2>2, <2>3, <2>5
    <3>2. CASE j \in 1 .. Len(d)
      BY <2>2, <2>5, <3>1, <3>2 DEF Written
    <3>3. CASE j = Len(d) + 1
      BY <1>3, <2>2, <3>1, <3>3
    <3> QED BY <2>3, <3>2, <3>3
  <2> QED BY <1>2, <2>4, <2>5 DEF Written, e
<1> QED BY <1>2, <1>3 DEF z, f

LEMMA WrittenCat ==
  ASSUME NEW w \in Seq(Frames), NEW out \in Seq(Frames), NEW d \in Seq(Packets), NEW k \in Nat, NEW m \in Nat,
         k <= m, Written(w, d, k), \A j \in 1 .. Len(out) : IsDatum(out[j]) => out[j].packet <= m
  PROVE  Written(w \o out, d, m)
<1> DEFINE c == w \o out
<1>1. \A i \in 1 .. Len(c) :
        \/ i \in 1 .. Len(w) /\ c[i] = w[i]
        \/ i - Len(w) \in 1 .. Len(out) /\ c[i] = out[i - Len(w)]
  BY CatIndices
<1>2. Len(d) \in Nat /\ \A j \in 1 .. Len(d) : d[j] \in Nat
  BY PacketsAreNumbers
<1>3. \A j \in 1 .. Len(d) : d[j] <= m
  BY <1>2 DEF Written
<1>4. ASSUME NEW i \in 1 .. Len(w), IsDatum(w[i]) PROVE w[i].packet <= m
  <2>1. w[i].packet \in Packets /\ w[i].packet <= k
    BY <1>4, DatumFields DEF Written
  <2> QED BY <2>1 DEF Packets
<1> HIDE DEF c
<1>5. \A i \in 1 .. Len(c) : IsDatum(c[i]) => c[i].packet <= m
  BY <1>1, <1>4
<1> QED BY <1>3, <1>5 DEF Written, c

LEMMA WrittenFree ==
  ASSUME NEW w \in Seq(Frames), NEW out \in Seq(Frames), DataFree(out), NEW d \in Seq(Packets), NEW k \in Nat,
         Written(w, d, k)
  PROVE  Written(w \o out, d, k)
<1>1. k <= k /\ \A j \in 1 .. Len(out) : IsDatum(out[j]) => out[j].packet <= k
  BY DEF DataFree
<1> QED BY <1>1, WrittenCat

-----------------------------------------------------------------------------
\* n puts frames without a SYN0 on the wire, and may take a frame that is none.
LEMMA OnceCat ==
  ASSUME NEW w \in Seq(Frames), NEW out \in Seq(Frames), ~ In(out, SYN0),
         NEW v, NEW z, In(v, SYN0) <=> In(z, SYN0), NEW s, NEW q,
         NEW t \in Nat, NEW r \in Nat, NEW b \in Nat, NEW d \in Seq(Packets), NEW k \in Nat, NEW m \in Nat, k <= m,
         Flow(w, v, s, q, t, r, b, d), Once(w, v, q, r, b, d, k),
         \A j \in 1 .. Len(out) : IsDatum(out[j]) => out[j].packet = b + out[j].seq + 1 /\ out[j].packet <= m
  PROVE  Once(w \o out, z, q, r, b, d, m)
<1>1. Written(w \o out, d, m)
  BY WrittenCat DEF Once
<1>2. ASSUME ~ Pending(z, q) PROVE Sequel(w \o out, r, b, d)
  <2>1. ~ Pending(v, q)
    BY <1>2 DEF Pending
  <2>2. Sequel(w, r, b, d) /\ Current(w, r, t, b)
    BY <2>1 DEF Once, Flow, Settled, Stream
  <2> QED BY <2>2, SequelCat
<1> QED BY <1>1, <1>2 DEF Once

\* n takes a SYN0: what it writes from now on is newer than everything, and nothing older is under way.
LEMMA OnceAfterSYN0 ==
  ASSUME NEW v \in Seq(Frames), v # << >>, Head(v) = SYN0, NEW w \in Seq(Frames), NEW s, NEW q,
         NEW t, NEW r \in Nat, NEW b, NEW d \in Seq(Packets), NEW k \in Nat,
         Flow(w, v, s, q, t, r, b, d), Once(w, v, q, r, b, d, k)
  PROVE  Once(w \o <<SYN1>>, Tail(v), q, r, k, d, k)
<1> DEFINE out == <<SYN1>>
<1>1. out \in Seq(Frames) /\ DataFree(out)
  BY FramesMade, NoData, OneFrame
<1> HIDE DEF out
<1>2. Written(w \o out, d, k)
  BY <1>1, WrittenFree DEF Once
<1>3. ASSUME q # "SENT_SYN0" PROVE Sequel(w \o out, r, k, d)
  <2>1. Pending(v, q)
    BY TailPlaces DEF Pending
  <2>2. DataFree(w)
    BY <1>3, <2>1 DEF Flow, Resetting, AllRefused, Refused, DataFree
  <2>3. DataFree(w \o out) /\ w \o out \in Seq(Frames)
    BY <1>1, <2>2, CatFacts, CatIndices
  <2>4. \A j \in 1 .. Len(d) : d[j] <= k
    BY DEF Once, Written
  <2> QED BY <2>3, <2>4, SequelNone
<1> QED BY <1>2, <1>3 DEF Once, Pending, out

\* n sends a SYN0.
LEMMA OnceSYN0 ==
  ASSUME NEW w \in Seq(Frames), NEW v, NEW z, NEW q, q # "SENT_SYN0" /\ In(v, SYN0) => In(z, SYN0),
         NEW r \in Nat, NEW b, NEW d \in Seq(Packets), NEW k \in Nat, Once(w, v, q, r, b, d, k)
  PROVE  Once(w \o <<SYN0>>, z, q, r, k, d, k)
<1>1. Written(w \o <<SYN0>>, d, k)
  <2> DEFINE out == <<SYN0>>
  <2>1. out \in Seq(Frames) /\ DataFree(out)
    BY FramesMade, NoData, OneFrame
  <2> HIDE DEF out
  <2>2. Written(w \o out, d, k)
    BY <2>1, WrittenFree DEF Once
  <2> QED BY <2>2 DEF out
<1>2. ~ Pending(z, q) => Sequel(w \o <<SYN0>>, r, k, d)
  BY SequelSYN0 DEF Once, Pending
<1> QED BY <1>1, <1>2 DEF Once

\* n, which goes from s to x, takes a frame and delivers nothing.  If it was going to accept nothing
\* of what was under way, it has taken the frame behind which that changes.
LEMMA OnceTaken ==
  ASSUME NEW v \in Seq(Frames), v # << >>, NEW w, NEW u, NEW q, NEW s, NEW x,
         NEW t \in Nat, NEW r \in Nat, NEW b \in Nat, NEW d \in Seq(Packets), NEW k \in Nat, b + t = k,
         Flow(v, w, q, s, t, r, b, d), Once(v, w, s, r, b, d, k),
         Pending(w, s) /\ ~ Pending(u, x) => s = "SENT_SYN0" /\ Head(v) \in {SYN0, SYN1} /\ ~ In(w, SYN0),
         NEW y \in Nat, y = IF Head(v) = SYN0 THEN 0 ELSE r
  PROVE  Once(Tail(v), u, x, y, b, d, k)
<1>1. Tail(v) \in Seq(Frames) /\ Written(Tail(v), d, k)
  BY TailIndices, WrittenTail DEF Once
<1>2. CASE ~ Pending(w, s)
  BY <1>1, <1>2, SequelTail DEF Once
<1>3. CASE Pending(w, s) /\ ~ Pending(u, x)
  <2>1. AllRefused(v, s) /\ t = 0
    BY <1>3 DEF Flow, Resetting
  <2>2. DataFree(Tail(v))
    BY <1>3, <2>1, TailFacts
  <2>3. \A j \in 1 .. Len(d) : d[j] <= b
    BY <2>1 DEF Once, Written
  <2>4. Sequel(Tail(v), y, b, d)
    BY <1>1, <2>2, <2>3, SequelNone
  <2> QED BY <1>1, <2>4 DEF Once
<1>4. CASE Pending(u, x)
  BY <1>1, <1>4 DEF Once
<1> QED BY <1>2, <1>3, <1>4

LEMMA OnceDelivered ==
  ASSUME NEW v \in Seq(Frames), v # << >>, NEW w, NEW q, NEW t \in Nat, NEW r \in Nat, NEW b \in Nat,
         NEW d \in Seq(Packets), NEW k, Flow(v, w, q, "CONNECTED", t, r, b, d),
         Once(v, w, "CONNECTED", r, b, d, k), IsDatum(Head(v)), Head(v).seq = r
  PROVE  Once(Tail(v), w, "CONNECTED", r + 1, b, Append(d, Head(v).packet), k)
<1>1. ~ Pending(w, "CONNECTED")
  <2>1. 1 \in 1 .. Len(v) /\ v[1] = Head(v)
    BY TailIndices
  <2> QED BY <2>1 DEF Flow, Resetting, AllRefused, Refused
<1>2. Current(v, r, t, b) /\ Sequel(v, r, b, d)
  BY <1>1 DEF Flow, Settled, Stream, Once
<1>3. /\ Sequel(Tail(v), r + 1, b, Append(d, Head(v).packet))
      /\ \A j \in 1 .. Len(d) : d[j] < Head(v).packet
  BY <1>2, SequelDeliver
<1>4. Written(Tail(v), Append(d, Head(v).packet), k)
  BY <1>3, WrittenTail DEF Once
<1> QED BY <1>3, <1>4 DEF Once

\* What is known of both directions, by the names used above.
LEMMA OnceParts ==
  ASSUME TypeOK, NEW n \in Nodes, InStep(n), InStep(Peer(n)), OnceInOrder(n), OnceInOrder(Peer(n))
  PROVE  LET p == Peer(n)
             v == wire[n]
             w == wire[p]
             s == connectState[n]
             q == connectState[p]
         IN  /\ p \in Nodes /\ p # n /\ Peer(p) = n
             /\ v \in Seq(Frames) /\ w \in Seq(Frames)
             /\ txSeq[n] \in Nat /\ rxSeq[n] \in Nat /\ base[n] \in Nat /\ delivered[n] \in Seq(Packets)
             /\ txSeq[p] \in Nat /\ rxSeq[p] \in Nat /\ base[p] \in Nat /\ delivered[p] \in Seq(Packets)
             /\ sent[n] \in Nat /\ sent[p] \in Nat
             /\ Numbered(s, txSeq[n], history[n], base[n], sent[n])
             /\ base[n] + txSeq[n] = sent[n] /\ base[p] + txSeq[p] = sent[p]
             /\ Flow(w, v, s, q, txSeq[n], rxSeq[p], base[n], delivered[p])
             /\ Flow(v, w, q, s, txSeq[p], rxSeq[n], base[p], delivered[n])
             /\ Once(w, v, q, rxSeq[p], base[n], delivered[p], sent[n])
             /\ Once(v, w, s, rxSeq[n], base[p], delivered[n], sent[p])
<1> DEFINE p == Peer(n)
<1>1. p \in Nodes /\ p # n /\ Peer(p) = n
  BY TwoNodes
<1>2. sent[n] \in Nat /\ sent[p] \in Nat
  <2>1. sent[n] \in 0 .. MaxSent /\ sent[p] \in 0 .. MaxSent
    BY <1>1 DEF TypeOK
  <2> QED BY <2>1, BoundsAssumption
<1>3. base[n] + txSeq[n] = sent[n] /\ base[p] + txSeq[p] = sent[p]
  BY DEF InStep, Numbered
<1>4. /\ Once(wire[p], wire[n], connectState[p], rxSeq[p], base[n], delivered[p], sent[n])
      /\ Once(wire[n], wire[p], connectState[n], rxSeq[n], base[p], delivered[n], sent[p])
  BY <1>1 DEF OnceInOrder
<1> HIDE DEF p
<1> QED BY <1>1, <1>2, <1>3, <1>4, InStepParts DEF p

\* A frame has been handled, or a user's call made: what remains to be shown of both directions.
LEMMA BothOnce ==
  ASSUME NEW n \in Nodes, NEW z, NEW u, wire'[n] = z, wire'[Peer(n)] = u,
         connectState'[Peer(n)] = connectState[Peer(n)], rxSeq'[Peer(n)] = rxSeq[Peer(n)],
         base'[Peer(n)] = base[Peer(n)], delivered'[Peer(n)] = delivered[Peer(n)], sent'[Peer(n)] = sent[Peer(n)],
         Once(u, z, connectState[Peer(n)], rxSeq[Peer(n)], base'[n], delivered[Peer(n)], sent'[n]),
         Once(z, u, connectState'[n], rxSeq'[n], base[Peer(n)], delivered'[n], sent[Peer(n)])
  PROVE  OnceInOrder(n)' /\ OnceInOrder(Peer(n))'
<1>1. Peer(Peer(n)) = n
  BY TwoNodes
<1> QED BY <1>1 DEF OnceInOrder

LEMMA SYN0Once ==
  ASSUME TypeOK, NEW n \in Nodes, InStep(n), InStep(Peer(n)), OnceInOrder(n), OnceInOrder(Peer(n)), HandleSYN0(n)
  PROVE  OnceInOrder(n)' /\ OnceInOrder(Peer(n))'
<1> DEFINE p == Peer(n)
           v == wire[n]
           w == wire[p]
           s == connectState[n]
           q == connectState[p]
           u == w \o <<SYN1>>
<1>1. v # << >> /\ Head(v) = SYN0 /\ <<SYN1>> \in Seq(Frames)
  BY FramesMade DEF HandleSYN0, ArrivesSYN
<1>2. /\ p \in Nodes /\ p # n /\ v \in Seq(Frames) /\ w \in Seq(Frames)
      /\ rxSeq[n] \in Nat /\ delivered[n] \in Seq(Packets) /\ txSeq[p] \in Nat /\ rxSeq[p] \in Nat
      /\ base[p] \in Nat /\ delivered[p] \in Seq(Packets) /\ sent[n] \in Nat /\ sent[p] \in Nat
      /\ base[p] + txSeq[p] = sent[p]
      /\ Flow(w, v, s, q, txSeq[n], rxSeq[p], base[n], delivered[p])
      /\ Flow(v, w, q, s, txSeq[p], rxSeq[n], base[p], delivered[n])
      /\ Once(w, v, q, rxSeq[p], base[n], delivered[p], sent[n])
      /\ Once(v, w, s, rxSeq[n], base[p], delivered[n], sent[p])
  BY OnceParts
<1>3. /\ connectState'[n] = "SENT_SYN1" /\ connectState'[p] = q /\ rxSeq'[n] = 0 /\ rxSeq'[p] = rxSeq[p]
      /\ base'[n] = sent[n] /\ base'[p] = base[p] /\ delivered' = delivered /\ sent' = sent
      /\ wire'[n] = Tail(v) /\ wire'[p] = u
  <2>1. wire'[n] = Tail(v) /\ wire'[p] = u
    BY <1>1, ConsumeWires DEF HandleSYN0, TypeOK
  <2> QED BY <1>2, <2>1 DEF HandleSYN0, ResetNumbers, Enter, TypeOK, InitialSeq
<1>4. Once(u, Tail(v), q, rxSeq[p], sent[n], delivered[p], sent[n])
  BY <1>1, <1>2, OnceAfterSYN0
<1>5. In(w, SYN0) <=> In(u, SYN0)
  <2>1. ~ In(<<SYN1>>, SYN0)
    BY FramesMade, OneFrame, SYNsDiffer
  <2> QED BY <1>1, <1>2, <2>1, CatFacts
<1> HIDE DEF u
<1>6. Once(Tail(v), u, "SENT_SYN1", 0, base[p], delivered[n], sent[p])
  <2>1. Pending(w, s) /\ ~ Pending(u, "SENT_SYN1") => s = "SENT_SYN0" /\ ~ In(w, SYN0)
    BY <1>5 DEF Pending
  <2> HIDE DEF v, w, s, q, p
  <2> QED BY <1>1, <1>2, <2>1, OnceTaken
<1> QED BY <1>3, <1>4, <1>6, BothOnce

LEMMA ConnectedOnce ==
  ASSUME MaxSent <= HistoryCapacity, TypeOK, NEW n \in Nodes, InStep(n), InStep(Peer(n)),
         OnceInOrder(n), OnceInOrder(Peer(n)), wire[n] # << >>, NEW pre, BecomeConnected(n, pre),
         \/ Head(wire[n]) = SYN1 /\ pre = <<SYN2>>
         \/ Head(wire[n]) = SYN2 /\ pre = << >> /\ connectState[n] \in {"SENT_SYN1", "CONNECTED"}
  PROVE  OnceInOrder(n)' /\ OnceInOrder(Peer(n))'
<1> DEFINE p == Peer(n)
           v == wire[n]
           w == wire[p]
           s == connectState[n]
           q == connectState[p]
           t == txSeq[n]
           b == base[n]
           block == AllFrom0(t, b)
           out == pre \o block
           u == w \o out
<1>1. pre \in Seq(Frames) /\ ~ In(pre, SYN0) /\ DataFree(pre)
  <2>1. <<SYN2>> \in Seq(Frames) /\ ~ In(<<SYN2>>, SYN0) /\ DataFree(<<SYN2>>)
    BY FramesMade, OneFrame, SYNsDiffer, NoData
  <2>2. << >> \in Seq(Frames) /\ ~ In(<< >>, SYN0) /\ DataFree(<< >>)
    BY ShortWires DEF DataFree
  <2> QED BY <2>1, <2>2
<1>2. /\ p \in Nodes /\ p # n /\ v \in Seq(Frames) /\ w \in Seq(Frames)
      /\ t \in Nat /\ b \in Nat /\ rxSeq[n] \in Nat /\ delivered[n] \in Seq(Packets)
      /\ txSeq[p] \in Nat /\ rxSeq[p] \in Nat /\ base[p] \in Nat /\ delivered[p] \in Seq(Packets)
      /\ sent[n] \in Nat /\ sent[p] \in Nat /\ b + t = sent[n] /\ base[p] + txSeq[p] = sent[p]
      /\ Flow(w, v, s, q, t, rxSeq[p], b, delivered[p])
      /\ Flow(v, w, q, s, txSeq[p], rxSeq[n], base[p], delivered[n])
      /\ Once(w, v, q, rxSeq[p], b, delivered[p], sent[n])
      /\ Once(v, w, s, rxSeq[n], base[p], delivered[n], sent[p])
  BY OnceParts
<1>3. /\ Consume(n, out) /\ connectState' = [connectState EXCEPT ![n] = "CONNECTED"]
      /\ UNCHANGED <<numbers, users, budget>>
      /\ b + t \in 0 .. MaxSent /\ t <= HistoryCapacity /\ block \in Seq(Frames)
  BY <1>1, BecomeConnectedSends
<1>4. /\ Len(block) = t
      /\ \A i \in 1 .. t : block[i].type = "RTX" /\ block[i].seq = i - 1 /\ block[i].packet = b + i
  BY <1>2, <1>3, BlockProperties
<1> HIDE DEF block
<1>5. out \in Seq(Frames) /\ ~ In(out, SYN0)
  <2>1. ~ In(block, SYN0)
    BY <1>4, SYNsDiffer DEF In
  <2> QED BY <1>1, <1>3, <2>1, CatFacts, CatIndices
<1>6. \A j \in 1 .. Len(out) : IsDatum(out[j]) => out[j].packet = b + out[j].seq + 1 /\ out[j].packet <= sent[n]
  <2>1. \A i \in 1 .. t : block[i].packet = b + block[i].seq + 1 /\ block[i].packet <= sent[n]
    <3> TAKE i \in 1 .. t
    <3>1. b + i = b + (i - 1) + 1 /\ b + i <= sent[n]
      BY <1>2
    <3> QED BY <1>4, <3>1
  <2>2. \A j \in 1 .. Len(out) :
          \/ j \in 1 .. Len(pre) /\ out[j] = pre[j]
          \/ j - Len(pre) \in 1 .. Len(block) /\ out[j] = block[j - Len(pre)]
    BY <1>1, <1>3, CatIndices
  <2> HIDE DEF out
  <2> QED BY <1>1, <1>4, <2>1, <2>2 DEF DataFree
<1>7. /\ connectState'[n] = "CONNECTED" /\ connectState'[p] = q /\ rxSeq' = rxSeq /\ base' = base
      /\ delivered' = delivered /\ sent' = sent /\ wire'[n] = Tail(v) /\ wire'[p] = u
  <2>1. wire'[n] = Tail(v) /\ wire'[p] = u
    BY <1>3, <1>5, ConsumeWires DEF TypeOK
  <2> QED BY <1>2, <1>3, <2>1 DEF TypeOK, numbers, users
<1> HIDE DEF out
<1>8. Head(v) \in {SYN1, SYN2} /\ Head(v) # SYN0 /\ (In(v, SYN0) <=> In(Tail(v), SYN0))
  <2>1. Head(v) \in {SYN1, SYN2} /\ Head(v) # SYN0
    BY SYNsDiffer
  <2> QED BY <1>2, <2>1, TailPlaces
<1>9. Once(u, Tail(v), q, rxSeq[p], b, delivered[p], sent[n])
  <2>1. sent[n] <= sent[n]
    BY <1>2
  <2> HIDE DEF v, w, s, q, t, b, p
  <2> QED BY <1>2, <1>5, <1>6, <1>8, <2>1, OnceCat
<1>10. Once(Tail(v), u, "CONNECTED", rxSeq[n], base[p], delivered[n], sent[p])
  <2>1. In(w, SYN0) <=> In(u, SYN0)
    BY <1>2, <1>5, CatFacts
  <2>2. Pending(w, s) /\ ~ Pending(u, "CONNECTED") => s = "SENT_SYN0" /\ Head(v) \in {SYN0, SYN1} /\ ~ In(w, SYN0)
    BY <2>1, SYNsDiffer DEF Pending
  <2> HIDE DEF u, v, w, s, q, p
  <2> QED BY <1>2, <1>8, <2>2, OnceTaken DEF v
<1> QED BY <1>7, <1>9, <1>10, BothOnce

\* One that waits for the answer to its SYN0, or to its SYN1, takes something else and answers g.
LEMMA AnsweringOnce ==
  ASSUME TypeOK, NEW n \in Nodes, InStep(n), InStep(Peer(n)), OnceInOrder(n), OnceInOrder(Peer(n)),
         wire[n] # << >>, connectState[n] # "CONNECTED", NEW g \in Frames, Consume(n, <<g>>),
         Head(wire[n]) # SYN0, ~ IsDatum(g), g = SYN0 => connectState[n] = "SENT_SYN0",
         UNCHANGED <<connectState, numbers, users, budget>>
  PROVE  OnceInOrder(n)' /\ OnceInOrder(Peer(n))'
<1> DEFINE p == Peer(n)
           v == wire[n]
           w == wire[p]
           s == connectState[n]
           q == connectState[p]
           b == base[n]
           k == sent[n]
           u == w \o <<g>>
<1>1. /\ p \in Nodes /\ p # n /\ v \in Seq(Frames) /\ w \in Seq(Frames)
      /\ txSeq[n] \in Nat /\ b \in Nat /\ rxSeq[n] \in Nat /\ delivered[n] \in Seq(Packets)
      /\ txSeq[p] \in Nat /\ rxSeq[p] \in Nat /\ base[p] \in Nat /\ delivered[p] \in Seq(Packets)
      /\ k \in Nat /\ sent[p] \in Nat /\ b + txSeq[n] = k /\ base[p] + txSeq[p] = sent[p]
      /\ Numbered(s, txSeq[n], history[n], b, k)
      /\ Flow(w, v, s, q, txSeq[n], rxSeq[p], b, delivered[p])
      /\ Flow(v, w, q, s, txSeq[p], rxSeq[n], base[p], delivered[n])
      /\ Once(w, v, q, rxSeq[p], b, delivered[p], k)
      /\ Once(v, w, s, rxSeq[n], base[p], delivered[n], sent[p])
  BY OnceParts
<1>2. b = k /\ k <= k
  BY <1>1 DEF Numbered
<1>3. <<g>> \in Seq(Frames) /\ DataFree(<<g>>) /\ (In(<<g>>, SYN0) <=> g = SYN0)
  BY OneFrame
<1>4. /\ connectState' = connectState /\ rxSeq' = rxSeq /\ base' = base /\ delivered' = delivered
      /\ sent' = sent /\ wire'[n] = Tail(v) /\ wire'[p] = u
  <2>1. wire'[n] = Tail(v) /\ wire'[p] = u
    BY <1>3, ConsumeWires DEF TypeOK
  <2> QED BY <2>1 DEF numbers, users
<1>5. In(v, SYN0) <=> In(Tail(v), SYN0)
  BY <1>1, TailPlaces
<1>6. g # SYN0 => (In(w, SYN0) <=> In(u, SYN0))
  BY <1>1, <1>3, CatFacts
<1> HIDE DEF u
<1>7. Once(u, Tail(v), q, rxSeq[p], b, delivered[p], k)
  <2>1. CASE g = SYN0
    <3> HIDE DEF v, w, q, b, k, p
    <3> QED BY <1>1, <1>2, <1>5, <2>1, OnceSYN0 DEF u
  <2>2. CASE g # SYN0
    <3>1. \A j \in 1 .. Len(<<g>>) : IsDatum(<<g>>[j]) => <<g>>[j].packet = b + <<g>>[j].seq + 1 /\ <<g>>[j].packet <= k
      BY <1>3 DEF DataFree
    <3> DEFINE out == <<g>>
    <3>2. /\ out \in Seq(Frames) /\ ~ In(out, SYN0)
          /\ \A j \in 1 .. Len(out) : IsDatum(out[j]) => out[j].packet = b + out[j].seq + 1 /\ out[j].packet <= k
      BY <1>3, <2>2, <3>1
    <3>3. u = w \o out
      BY DEF u
    <3> HIDE DEF v, w, s, q, b, k, p, out
    <3> QED BY <1>1, <1>2, <1>5, <3>2, <3>3, OnceCat
  <2> QED BY <2>1, <2>2
<1>8. Once(Tail(v), u, s, rxSeq[n], base[p], delivered[n], sent[p])
  <2>1. ~ (Pending(w, s) /\ ~ Pending(u, s))
    BY <1>6 DEF Pending
  <2>2. rxSeq[n] = IF Head(v) = SYN0 THEN 0 ELSE rxSeq[n]
    OBVIOUS
  <2>3. v # << >>
    OBVIOUS
  <2> HIDE DEF v, w, s, q, p
  <2> QED BY <1>1, <2>1, <2>2, <2>3, OnceTaken
<1> QED BY <1>4, <1>7, <1>8, BothOnce

\* One that is connected takes a datum.
LEMMA DataOnce ==
  ASSUME TypeOK, NEW n \in Nodes, InStep(n), InStep(Peer(n)), OnceInOrder(n), OnceInOrder(Peer(n)), HandleUSR(n)
  PROVE  OnceInOrder(n)' /\ OnceInOrder(Peer(n))'
<1> DEFINE p == Peer(n)
           v == wire[n]
           w == wire[p]
           q == connectState[p]
           b == base[n]
           r == rxSeq[n]
           k == sent[n]
           f == Head(v)
<1>1. v # << >> /\ IsDatum(f) /\ connectState[n] = "CONNECTED"
  BY DEF HandleUSR, Deliver, RejectOutOfOrder, IgnoreRetransmission, Arrives, IsDatum, DataTypes
<1>2. /\ p \in Nodes /\ p # n /\ v \in Seq(Frames) /\ w \in Seq(Frames)
      /\ txSeq[n] \in Nat /\ b \in Nat /\ r \in Nat /\ delivered[n] \in Seq(Packets)
      /\ txSeq[p] \in Nat /\ rxSeq[p] \in Nat /\ base[p] \in Nat /\ delivered[p] \in Seq(Packets)
      /\ k \in Nat /\ k <= k /\ sent[p] \in Nat /\ base[p] + txSeq[p] = sent[p]
      /\ Flow(w, v, "CONNECTED", q, txSeq[n], rxSeq[p], b, delivered[p])
      /\ Flow(v, w, q, "CONNECTED", txSeq[p], r, base[p], delivered[n])
      /\ Once(w, v, q, rxSeq[p], b, delivered[p], k)
      /\ Once(v, w, "CONNECTED", r, base[p], delivered[n], sent[p])
  BY <1>1, OnceParts
<1>3. w \o << >> = w /\ << >> \in Seq(Frames) /\ ~ In(<< >>, SYN0) /\ f \in Frames /\ f # SYN0
  BY <1>1, <1>2, TailIndices, DatumFields, ShortWires
<1>4. In(v, SYN0) <=> In(Tail(v), SYN0)
  BY <1>1, <1>2, <1>3, TailPlaces
<1>5. Once(w, Tail(v), q, rxSeq[p], b, delivered[p], k)
  <2>1. \A j \in 1 .. Len(<< >>) : IsDatum(<< >>[j]) => << >>[j].packet = b + << >>[j].seq + 1 /\ << >>[j].packet <= k
    OBVIOUS
  <2> HIDE DEF v, w, q, b, k, p
  <2>2. Once(w \o << >>, Tail(v), q, rxSeq[p], b, delivered[p], k)
    BY <1>2, <1>3, <1>4, <2>1, OnceCat
  <2> QED BY <1>3, <2>2
<1>6. /\ f.seq = r => r < HistoryCapacity
      /\ f.seq # r => f.type = "RTX"
  BY <1>1, <1>2, ReceivingData, SMTT(30)
<1>7. CASE f.seq = r
  <2>1. Deliver(n)
    BY <1>7 DEF HandleUSR, RejectOutOfOrder, IgnoreRetransmission
  <2>2. nextSeq(r) = r + 1
    <3>1. r + 1 \in Seqs
      BY <1>2, <1>6, <1>7, HistoryAssumption, SeqRangePositive, SMTT(30) DEF Seqs
    <3> QED BY <3>1, ModSmall DEF nextSeq
  <2>3. /\ rxSeq'[n] = r + 1 /\ rxSeq'[p] = rxSeq[p]
        /\ delivered'[n] = Append(delivered[n], f.packet) /\ delivered'[p] = delivered[p]
        /\ connectState' = connectState /\ sent' = sent /\ base' = base /\ Consume(n, << >>)
    BY <1>2, <2>1, <2>2 DEF Deliver, TypeOK
  <2>4. wire'[n] = Tail(v) /\ wire'[p] = w
    BY <1>1, <1>3, <2>3, ConsumeWires DEF TypeOK
  <2>5. Once(Tail(v), w, "CONNECTED", r + 1, base[p], Append(delivered[n], f.packet), sent[p])
    <3> HIDE DEF w, q, r, p
    <3> QED BY <1>1, <1>2, <1>7, OnceDelivered
  <2> QED BY <1>1, <1>5, <2>3, <2>4, <2>5, BothOnce
<1>8. CASE f.seq # r
  <2>1. IgnoreRetransmission(n)
    <3>1. f.type # "USR"
      BY <1>6, <1>8
    <3> QED BY <1>8, <3>1 DEF HandleUSR, Deliver, RejectOutOfOrder, Arrives
  <2>2. UNCHANGED <<connectState, numbers, users, budget>> /\ Consume(n, << >>)
    BY <2>1 DEF IgnoreRetransmission
  <2>3. wire'[n] = Tail(v) /\ wire'[p] = w
    BY <1>1, <1>3, <2>2, ConsumeWires DEF TypeOK
  <2>4. Once(Tail(v), w, "CONNECTED", r, base[p], delivered[n], sent[p])
    <3>1. r = IF Head(v) = SYN0 THEN 0 ELSE r
      BY <1>3
    <3> HIDE DEF v, w, q, r, p
    <3> QED BY <1>1, <1>2, <3>1, OnceTaken
  <2> QED BY <1>1, <1>5, <2>2, <2>3, <2>4, BothOnce DEF numbers, users
<1> QED BY <1>7, <1>8

LEMMA HandleFrameOnce ==
  ASSUME MaxSent <= HistoryCapacity, TypeOK, NEW n \in Nodes, InStep(n), InStep(Peer(n)),
         OnceInOrder(n), OnceInOrder(Peer(n)), HandleFrame(n)
  PROVE  OnceInOrder(n)' /\ OnceInOrder(Peer(n))'
<1> DEFINE f == Head(wire[n])
<1>1. wire[n] # << >> /\ (HandleSYN0(n) \/ Establishing(n) \/ Waiting(n) \/ Repeating(n) \/ HandleUSR(n))
  BY FrameKinds
<1>2. CASE HandleSYN0(n)
  BY <1>2, SYN0Once
<1>3. CASE Establishing(n)
  BY <1>1, <1>3, ConnectedOnce DEF Establishing
<1>4. CASE Waiting(n)
  <2>1. PICK g \in Frames : Consume(n, <<g>>) /\ (g = SYN0 \/ (g.type = "NAK" /\ f.type = "BAD"))
    BY <1>4 DEF Waiting
  <2>2. ~ IsDatum(g)
    BY <2>1, SYNsDiffer DEF IsDatum, DataTypes
  <2> QED BY <1>1, <1>4, <2>1, <2>2, AnsweringOnce DEF Waiting
<1>5. CASE Repeating(n)
  <2>1. SYN1 \in Frames /\ SYN1 # SYN0 /\ ~ IsDatum(SYN1)
    BY FramesMade, SYNsDiffer, NoData
  <2> QED BY <1>1, <1>5, <2>1, AnsweringOnce DEF Repeating
<1>6. CASE HandleUSR(n)
  BY <1>6, DataOnce
<1> QED BY <1>1, <1>2, <1>3, <1>4, <1>5, <1>6

LEMMA WriteOnce ==
  ASSUME MaxSent <= HistoryCapacity, WriteStates \subseteq {"CONNECTED"}, TypeOK,
         NEW n \in Nodes, InStep(n), InStep(Peer(n)), OnceInOrder(n), OnceInOrder(Peer(n)), WritePacket(n)
  PROVE  OnceInOrder(n)' /\ OnceInOrder(Peer(n))'
<1> DEFINE p == Peer(n)
           v == wire[n]
           w == wire[p]
           s == connectState[n]
           q == connectState[p]
           t == txSeq[n]
           b == base[n]
           k == sent[n]
           g == DataFrame("USR", t, k + 1)
           out == <<g>>
           u == w \o out
<1>1. s = "CONNECTED" /\ k < MaxSent
  BY DEF WritePacket
<1>2. /\ p \in Nodes /\ p # n /\ v \in Seq(Frames) /\ w \in Seq(Frames)
      /\ t \in Nat /\ rxSeq[n] \in Nat /\ b \in Nat /\ delivered[n] \in Seq(Packets)
      /\ rxSeq[p] \in Nat /\ base[p] \in Nat /\ delivered[p] \in Seq(Packets)
      /\ k \in Nat /\ sent[p] \in Nat /\ b + t = k
      /\ Flow(w, v, s, q, t, rxSeq[p], b, delivered[p])
      /\ Once(w, v, q, rxSeq[p], b, delivered[p], k)
      /\ Once(v, w, s, rxSeq[n], base[p], delivered[n], sent[p])
  BY OnceParts
<1>3. k + 1 \in Packets /\ k + 1 \in Nat /\ k <= k + 1 /\ k + 1 = b + t + 1
  BY <1>1, <1>2, BoundsAssumption DEF Packets
<1>4. g \in Frames /\ g.type = "USR" /\ g.seq = t /\ g.packet = k + 1
  <2>1. g \in Frames
    BY <1>3, FramesMade DEF TypeOK
  <2>2. g.type = "USR" /\ g.seq = t /\ g.packet = k + 1
    BY DEF DataFrame
  <2> QED BY <2>1, <2>2
<1> HIDE DEF g
<1>5. Append(w, g) = w \o <<g>> /\ out \in Seq(Frames) /\ ~ In(out, SYN0)
  <2>1. g # SYN0
    BY <1>4, SYNsDiffer
  <2>2. out \in Seq(Frames) /\ ~ In(out, SYN0)
    BY <1>4, <2>1, OneFrame
  <2>3. w \in Seq(Frames) /\ g \in Frames
    BY <1>2, <1>4
  <2> HIDE DEF w, g
  <2>4. Append(w, g) = w \o <<g>>
    BY <2>3
  <2> QED BY <2>2, <2>4
<1>6. \A j \in 1 .. Len(out) : IsDatum(out[j]) => out[j].packet = b + out[j].seq + 1 /\ out[j].packet <= k + 1
  <2>1. \A j \in 1 .. Len(out) : out[j] = g
    OBVIOUS
  <2>2. g.packet = b + g.seq + 1 /\ g.packet <= k + 1
    BY <1>2, <1>3, <1>4
  <2> QED BY <2>1, <2>2
<1>7. /\ connectState' = connectState /\ wire'[n] = v /\ wire'[p] = u /\ rxSeq' = rxSeq
      /\ base' = base /\ sent'[n] = k + 1 /\ sent'[p] = sent[p] /\ delivered' = delivered
  BY <1>2, <1>5 DEF WritePacket, TypeOK, g
<1> HIDE DEF out
<1>8. Once(u, v, q, rxSeq[p], b, delivered[p], k + 1)
  <2>1. In(v, SYN0) <=> In(v, SYN0)
    OBVIOUS
  <2> HIDE DEF v, w, s, q, t, b, k, p
  <2> QED BY <1>2, <1>3, <1>5, <1>6, <2>1, OnceCat
<1>9. Once(v, u, s, rxSeq[n], base[p], delivered[n], sent[p])
  <2>1. In(w, SYN0) => In(u, SYN0)
    BY <1>2, <1>5, CatFacts
  <2> QED BY <1>2, <2>1 DEF Once, Pending
<1> HIDE DEF u
<1> QED BY <1>7, <1>8, <1>9, BothOnce

LEMMA ConnectOnce ==
  ASSUME MaxConnects <= 1, TypeOK, NEW n \in Nodes, InStep(n), InStep(Peer(n)),
         OnceInOrder(n), OnceInOrder(Peer(n)), Connect(n)
  PROVE  OnceInOrder(n)' /\ OnceInOrder(Peer(n))'
<1> DEFINE p == Peer(n)
           v == wire[n]
           w == wire[p]
           s == connectState[n]
           q == connectState[p]
           k == sent[n]
           u == w \o <<SYN0>>
<1>1. /\ p \in Nodes /\ p # n /\ v \in Seq(Frames) /\ w \in Seq(Frames)
      /\ rxSeq[p] \in Nat /\ delivered[n] \in Seq(Packets) /\ delivered[p] \in Seq(Packets)
      /\ k \in Nat /\ sent[p] \in Nat
      /\ Once(w, v, q, rxSeq[p], base[n], delivered[p], k)
      /\ Once(v, w, s, rxSeq[n], base[p], delivered[n], sent[p])
  BY OnceParts
<1>2. connects[n] = 0
  <2>1. connects[n] \in 0 .. MaxConnects /\ MaxConnects \in Nat
    BY BoundsAssumption DEF TypeOK
  <2> QED BY <2>1 DEF Connect
<1>3. PICK z \in AfterReceiverReset(v) : wire' = [wire EXCEPT ![n] = z, ![p] = Append(@, SYN0)]
  BY DEF Connect
<1>4. z \in Seq(Frames) /\ SYN0 \in Frames
  BY <1>1, <1>3, ResetWire, FramesMade
<1>5. wire'[n] = z /\ wire'[p] = u
  <2>1. wire'[n] = z /\ wire'[p] = Append(w, SYN0)
    BY <1>3, <1>4, SendWires DEF TypeOK
  <2>2. Append(w, SYN0) = w \o <<SYN0>>
    <3>1. w \in Seq(Frames) /\ SYN0 \in Frames
      BY <1>1, <1>4
    <3> HIDE DEF w
    <3> QED BY <3>1
  <2> QED BY <2>1, <2>2
<1>6. /\ connectState'[n] = "SENT_SYN0" /\ connectState'[p] = q /\ rxSeq'[n] = 0 /\ rxSeq'[p] = rxSeq[p]
      /\ base'[n] = k /\ base'[p] = base[p] /\ delivered' = delivered /\ sent' = sent
  BY <1>1 DEF Connect, ResetNumbers, Enter, TypeOK, InitialSeq
<1>7. ConnectWires(v, w, s, q, z)
  BY <1>2, <1>3, InStepParts DEF ConnectWires
<1>8. Once(u, z, q, rxSeq[p], k, delivered[p], k)
  <2>1. q # "SENT_SYN0" => ~ In(v, SYN0)
    BY <1>1, <1>7, ConnectFacts
  <2> HIDE DEF v, w, s, q, k, p
  <2> QED BY <1>1, <2>1, OnceSYN0
<1>9. Once(z, u, "SENT_SYN0", 0, base[p], delivered[n], sent[p])
  <2>1. Written(v, delivered[n], sent[p])
    BY <1>1 DEF Once
  <2>2. \A i \in 1 .. Len(z) : IsDatum(z[i]) => \E j \in 1 .. Len(v) : z[i] = v[j]
    BY <1>1, <1>3, ResetKinds, NoData, SMTT(30)
  <2>3. Written(z, delivered[n], sent[p])
    BY <2>1, <2>2 DEF Written
  <2> QED BY <2>3 DEF Once, Pending
<1> HIDE DEF u
<1> QED BY <1>5, <1>6, <1>8, <1>9, BothOnce

LEMMA NextOnce ==
  ASSUME MaxConnects <= 1, MaxSent <= HistoryCapacity, WriteStates \subseteq {"CONNECTED"},
         CleanInv, [Next]_vars
  PROVE  CleanInv'
<1>1. SyncInv /\ SyncInv' /\ TypeOK /\ TypeOK'
  BY NextSync DEF CleanInv, SyncInv
<1> SUFFICES ASSUME Clean' PROVE \A n \in Nodes : OnceInOrder(n)'
  BY <1>1 DEF CleanInv
<1>2. CASE UNCHANGED vars
  <2>1. Clean /\ UNCHANGED <<connectState, wire, rxSeq, sent, delivered, base>>
    BY <1>2 DEF Clean, vars, numbers, users, budget
  <2> QED BY <2>1 DEF CleanInv, OnceInOrder
<1>3. CASE Next
  <2>1. PICK n \in Nodes : Clean /\ (HandleFrame(n) \/ Connect(n) \/ WritePacket(n))
    BY <1>1, <1>3, CleanStep
  <2>2. InStep(n) /\ InStep(Peer(n)) /\ OnceInOrder(n) /\ OnceInOrder(Peer(n))
    BY <2>1, TwoNodes DEF CleanInv, SyncInv
  <2>3. OnceInOrder(n)' /\ OnceInOrder(Peer(n))'
    BY <1>1, <2>1, <2>2, HandleFrameOnce, ConnectOnce, WriteOnce
  <2> QED BY <2>3, TwoNodes
<1> QED BY <1>2, <1>3

LEMMA InitOnce == Init => CleanInv
<1> SUFFICES ASSUME Init, NEW n \in Nodes PROVE OnceInOrder(n)
  BY InitSync DEF CleanInv
<1>1. /\ Peer(n) \in Nodes /\ wire[Peer(n)] = << >> /\ rxSeq[Peer(n)] = 0
      /\ base[n] = 0 /\ sent[n] = 0 /\ delivered[Peer(n)] = << >>
  BY TwoNodes DEF Init, InitIn, InitialSeq
<1>2. Written(<< >>, << >>, 0)
  BY DEF Written
<1>3. Sequel(<< >>, 0, 0, << >>)
  <2>1. << >> \in Seq(Frames) /\ DataFree(<< >>) /\ << >> \in Seq(Packets) /\ 0 \in Nat
    BY DEF DataFree
  <2>2. \A j \in 1 .. Len(<< >>) : << >>[j] <= 0
    OBVIOUS
  <2> QED BY <2>1, <2>2, SequelNone
<1> QED BY <1>1, <1>2, <1>3 DEF OnceInOrder, Once

LEMMA CleanIsInOrder == CleanInv => (Clean => AtMostOnceInOrder)
<1> SUFFICES ASSUME CleanInv, Clean, NEW n \in Nodes
             PROVE  \A i, j \in 1 .. Len(delivered[n]) : i < j => delivered[n][i] < delivered[n][j]
  BY DEF AtMostOnceInOrder
<1>1. Peer(n) \in Nodes /\ Peer(Peer(n)) = n
  BY TwoNodes
<1>2. OnceInOrder(Peer(n))
  BY <1>1 DEF CleanInv
<1> QED BY <1>1, <1>2 DEF OnceInOrder, Once, Written

(***************************************************************************)
(* Until the medium fails or an end is initialised anew, no receiver hands *)
(* its user a packet twice, or one behind a later one, however the two     *)
(* calls of sfpConnect, the SYN frames that cross because of them and the  *)
(* packets written are interleaved: the transmitters' histories are sent   *)
(* again from 0 more than once, the receivers' numbers are reset while     *)
(* frames of before are under way, and what sfpHandleUSR takes is newer    *)
(* than all it has taken, for any SeqRange and HistoryCapacity.  It takes  *)
(* users as in Synchronized, since it rests on SyncInv: TLC finds it false *)
(* of users who write more than the history holds, but not of those who    *)
(* connect twice or write early.  OneConnectionInOrder is about a link     *)
(* that is not clean, of which one end alone connects.                     *)
(***************************************************************************)
THEOREM OpeningInOrder ==
  ASSUME MaxConnects <= 1, MaxSent <= HistoryCapacity, WriteStates \subseteq {"CONNECTED"}
  PROVE  Spec \/ DisruptedSpec => [](Clean => AtMostOnceInOrder)
<1>1. CleanInv /\ [Next]_vars => CleanInv'
  BY NextOnce
<1>2. CleanInv /\ [Next /\ OneDisruption]_vars => CleanInv'
  BY NextOnce
<1> QED BY <1>1, <1>2, InitOnce, CleanIsInOrder, PTL DEF Spec, DisruptedSpec

-----------------------------------------------------------------------------
(***************************************************************************)
(* One connection.  What is said here is about a link of which one end, c, *)
(* calls sfpConnect, and does so once; the other end waits for it.  The    *)
(* medium may fail and either end may be initialised anew at any time.     *)
(***************************************************************************)
OneOpener(c) ==
  /\ c \in Nodes /\ Initiators \subseteq {c} /\ MaxConnects <= 1
  /\ MaxSent <= HistoryCapacity

Unopened(c) == connects[c] = 0 \/ connectState[c] = "SENT_SYN0" \/ In(wire[Peer(c)], SYN0)

\* n has been disconnected for good.
Over(c, n) ==
  /\ connectState[n] = "DISCONNECTED"
  /\ IF n = c THEN connects[c] # 0 ELSE ~ Unopened(c)

\* Who sends what, and what is still to come while the connection is opened.
Roles(c) ==
  LET s == Peer(c) IN
  /\ connectState[c] # "SENT_SYN1" /\ connectState[s] # "SENT_SYN0"
  /\ ~ In(wire[c], SYN0) /\ ~ In(wire[c], SYN2) /\ ~ In(wire[s], SYN1)
  /\ connects[c] = 0 =>
       /\ connectState[c] = "DISCONNECTED" /\ connectState[s] = "DISCONNECTED"
       /\ ~ In(wire[s], SYN0) /\ ~ In(wire[c], SYN1)
  /\ connects[c] = 0 \/ connectState[c] = "SENT_SYN0" => sent[c] = 0 /\ ~ In(wire[s], SYN2)
  /\ Unopened(c) => connectState[s] # "CONNECTED"
  /\ Unopened(c) \/ connectState[s] = "SENT_SYN1" => sent[s] = 0 /\ delivered[s] = << >>
  /\ In(wire[c], SYN1) => delivered[c] = << >>

\* A SYN0 is not behind a SYN2 or data, a SYN1 not behind data.
Opened(w) ==
  \A i, j \in 1 .. Len(w) : i < j =>
    /\ w[j] = SYN0 => w[i] # SYN2 /\ ~ IsDatum(w[i])
    /\ w[j] = SYN1 => ~ IsDatum(w[i])

\* Data are numbered from 0, and k packets have been written.
NumberedFrom0(w, k) ==
  \A i \in 1 .. Len(w) : IsDatum(w[i]) => w[i].seq = w[i].packet - 1 /\ w[i].packet <= k

\* The packets delivered are the first ones written.
Prefix(n) ==
  /\ \A i \in 1 .. Len(delivered[n]) : delivered[n][i] = i
  /\ Len(delivered[n]) <= sent[Peer(n)]

\* What arrives at n, until its connection is over.
Incoming(n) ==
  /\ rxSeq[n] = Len(delivered[n])
  /\ Opened(wire[n]) /\ NumberedFrom0(wire[n], sent[Peer(n)])

\* The NAKs of v ask for packets from lo to hi in order, and before a SYN1 or SYN2 for the first only.
Requests(v, lo, hi) ==
  /\ lo <= hi
  /\ \A i \in 1 .. Len(v) : v[i].type = "NAK" => lo <= v[i].seq /\ v[i].seq <= hi
  /\ \A i, j \in 1 .. Len(v) : i < j /\ v[i].type = "NAK" =>
       /\ v[j].type = "NAK" => v[i].seq <= v[j].seq
       /\ v[j] \in {SYN1, SYN2} => v[i].seq = 0
  /\ In(v, SYN1) \/ In(v, SYN2) => lo = 0

\* n can answer what it is asked.
Outgoing(n) ==
  /\ txSeq[n] = sent[n] /\ Len(history[n]) <= sent[n]
  /\ \A i \in 1 .. Len(history[n]) : history[n][i] = sent[n] - Len(history[n]) + i
  /\ Requests(wire[n], sent[n] - Len(history[n]), rxSeq[Peer(n)])

OneConnectionInv(c) ==
  /\ TypeOK /\ Roles(c)
  /\ \A n \in Nodes :
       /\ Prefix(n)
       /\ ~ Over(c, n) => Incoming(n)
       /\ ~ Over(c, n) /\ ~ Over(c, Peer(n)) => Outgoing(n)

\* Nothing of the invariant is lost, what is over stays over and what is open stays open.
OneKept(c) ==
  /\ OneConnectionInv(c)' /\ (Unopened(c)' => Unopened(c))
  /\ \A m \in Nodes : Over(c, m) => Over(c, m)'

\* n may write: it is connected, or has been and its peer would still be given the right number.
Ready(c, n) ==
  \/ connectState[n] = "CONNECTED"
  \/ Over(c, n) /\ (~ Over(c, Peer(n)) => txSeq[n] = sent[n])

-----------------------------------------------------------------------------
\* What is left of a wire whose first frame is taken or cut.
LEMMA CutHas ==
  ASSUME NEW w \in Seq(Frames), NEW z \in AfterReceiverReset(w)
  PROVE  /\ z \in Seq(Frames) /\ Len(z) \in Nat
         /\ \E d \in {0, 1} : \A i \in 1 .. Len(z) :
              z[i] = Remnant \/ (i + d \in 1 .. Len(w) /\ z[i] = w[i + d])
<1>1. z \in Seq(Frames) /\ Len(z) \in Nat
  BY ResetWire
<1>2. CASE z = w
  <2>1. \A i \in 1 .. Len(z) : i + 0 \in 1 .. Len(w) /\ z[i] = w[i + 0]
    BY <1>2
  <2> QED BY <1>1, <2>1
<1>3. CASE w # << >> /\ z = Tail(w)
  <2>1. \A i \in 1 .. Len(z) : i + 1 \in 1 .. Len(w) /\ z[i] = w[i + 1]
    BY <1>3, TailIndices
  <2> QED BY <1>1, <2>1
<1>4. CASE w # << >> /\ z = <<Remnant>> \o Tail(w)
  <2> DEFINE t == Tail(w)
  <2>1. /\ t \in Seq(Frames) /\ Len(w) \in Nat /\ Len(t) = Len(w) - 1
        /\ \A i \in 1 .. Len(t) : t[i] = w[i + 1]
    BY <1>4, TailIndices
  <2> HIDE DEF t
  <2>2. z = <<Remnant>> \o t /\ <<Remnant>> \in Seq(Frames)
    BY <1>4, FramesMade DEF t
  <2>3. Len(z) = Len(w) /\ z[1] = Remnant /\ \A i \in 1 .. Len(z) : i # 1 => z[i] = t[i - 1] /\ i - 1 \in 1 .. Len(t)
    BY <2>1, <2>2
  <2>4. \A i \in 1 .. Len(z) : z[i] = Remnant \/ (i + 0 \in 1 .. Len(w) /\ z[i] = w[i + 0])
    BY <2>1, <2>3
  <2> QED BY <1>1, <2>4
<1> QED BY <1>2, <1>3, <1>4 DEF AfterReceiverReset

\* Nothing that is said of all frames of a wire, or of two in this order, is lost.
LEMMA CutKeeps ==
  ASSUME NEW w \in Seq(Frames), NEW z \in AfterReceiverReset(w)
  PROVE  /\ \A f \in {SYN0, SYN1, SYN2} : In(z, f) => In(w, f)
         /\ Opened(w) => Opened(z)
         /\ \A k : NumberedFrom0(w, k) => NumberedFrom0(z, k)
         /\ \A lo, hi : Requests(w, lo, hi) => Requests(z, lo, hi)
<1>1. PICK d \in {0, 1} : \A i \in 1 .. Len(z) : z[i] = Remnant \/ (i + d \in 1 .. Len(w) /\ z[i] = w[i + d])
  BY CutHas
<1>2. /\ Remnant \notin {SYN0, SYN1, SYN2} /\ ~ IsDatum(Remnant) /\ Remnant.type # "NAK"
      /\ Len(w) \in Nat /\ Len(z) \in Nat
  BY SYNsDiffer, NoData, CutHas
<1>3. \A f \in {SYN0, SYN1, SYN2} : In(z, f) => In(w, f)
  BY <1>1, <1>2 DEF In
<1>4. \A i, j \in 1 .. Len(z) : i < j => i + d < j + d
  BY <1>2
<1>5. Opened(w) => Opened(z)
  BY <1>1, <1>2, <1>4 DEF Opened
<1>6. \A k : NumberedFrom0(w, k) => NumberedFrom0(z, k)
  BY <1>1, <1>2 DEF NumberedFrom0
<1>7. ASSUME NEW lo, NEW hi, Requests(w, lo, hi) PROVE Requests(z, lo, hi)
  <2>1. \A i \in 1 .. Len(z) : z[i].type = "NAK" => lo <= z[i].seq /\ z[i].seq <= hi
    BY <1>1, <1>2, <1>7 DEF Requests
  <2>2. ASSUME NEW i \in 1 .. Len(z), NEW j \in 1 .. Len(z), i < j, z[i].type = "NAK"
        PROVE  /\ z[j].type = "NAK" => z[i].seq <= z[j].seq
               /\ z[j] \in {SYN1, SYN2} => z[i].seq = 0
    <3>1. i + d \in 1 .. Len(w) /\ z[i] = w[i + d] /\ i + d < j + d
      BY <1>1, <1>2, <1>4, <2>2
    <3>2. CASE z[j] = Remnant
      BY <1>2, <3>2
    <3>3. CASE j + d \in 1 .. Len(w) /\ z[j] = w[j + d]
      BY <1>7, <2>2, <3>1, <3>3 DEF Requests
    <3> QED BY <1>1, <3>2, <3>3
  <2>3. In(z, SYN1) \/ In(z, SYN2) => lo = 0
    BY <1>3, <1>7 DEF Requests
  <2> QED BY <1>7, <2>1, <2>2, <2>3 DEF Requests
<1> QED BY <1>3, <1>5, <1>6, <1>7

\* What the first frame of a wire says of the others.
LEMMA FirstFrame ==
  ASSUME NEW w \in Seq(Frames), w # << >>
  PROVE  /\ Tail(w) \in AfterReceiverReset(w) /\ In(w, Head(w))
         /\ Opened(w) /\ Head(w) = SYN2 => ~ In(w, SYN0)
         /\ Opened(w) /\ IsDatum(Head(w)) => ~ In(w, SYN0) /\ ~ In(w, SYN1)
         /\ \A k : NumberedFrom0(w, k) /\ IsDatum(Head(w)) => Head(w).seq = Head(w).packet - 1 /\ Head(w).packet <= k
         /\ \A lo, hi : Requests(w, lo, hi) /\ Head(w).type = "NAK" =>
              /\ lo <= Head(w).seq /\ Head(w).seq <= hi
              /\ Requests(Tail(w), Head(w).seq, hi)
<1> DEFINE z == Tail(w)
           h == Head(w)
<1>1. /\ Len(w) \in Nat /\ Len(w) > 0 /\ Len(z) = Len(w) - 1 /\ h = w[1] /\ 1 \in 1 .. Len(w)
      /\ \A i \in 1 .. Len(z) : i + 1 \in 1 .. Len(w) /\ z[i] = w[i + 1]
      /\ \A i \in 1 .. Len(w) : i # 1 => i - 1 \in 1 .. Len(z) /\ z[i - 1] = w[i]
  BY TailIndices
<1>2. z \in AfterReceiverReset(w)
  BY DEF AfterReceiverReset
<1> HIDE DEF z, h
<1>3. In(w, h)
  BY <1>1 DEF In
<1>4. ASSUME Opened(w), NEW f \in {SYN0, SYN1}, In(w, f), (h = SYN2 /\ f = SYN0) \/ IsDatum(h) PROVE FALSE
  <2>1. PICK j \in 1 .. Len(w) : w[j] = f
    BY <1>4 DEF In
  <2>2. h # f
    BY <1>4, SYNsDiffer, NoData
  <2>3. 1 < j
    BY <1>1, <2>1, <2>2
  <2> QED BY <1>1, <1>4, <2>1, <2>3, SYNsDiffer DEF Opened
<1>5. \A k : NumberedFrom0(w, k) /\ IsDatum(h) => h.seq = h.packet - 1 /\ h.packet <= k
  BY <1>1 DEF NumberedFrom0
<1>6. ASSUME NEW lo, NEW hi, Requests(w, lo, hi), h.type = "NAK"
      PROVE  lo <= h.seq /\ h.seq <= hi /\ Requests(z, h.seq, hi)
  <2>1. lo <= h.seq /\ h.seq <= hi
    BY <1>1, <1>6 DEF Requests
  <2>2. \A j \in 1 .. Len(w) : 1 < j =>
          /\ w[j].type = "NAK" => h.seq <= w[j].seq
          /\ w[j] \in {SYN1, SYN2} => h.seq = 0
    BY <1>1, <1>6 DEF Requests
  <2>3. \A i \in 1 .. Len(z) :
          /\ z[i].type = "NAK" => h.seq <= z[i].seq
          /\ z[i] \in {SYN1, SYN2} => h.seq = 0
    <3> TAKE i \in 1 .. Len(z)
    <3>1. i + 1 \in 1 .. Len(w) /\ 1 < i + 1 /\ z[i] = w[i + 1]
      BY <1>1
    <3> QED BY <2>2, <3>1
  <2>4. Requests(z, lo, hi)
    BY <1>2, <1>6, CutKeeps
  <2> QED BY <2>1, <2>3, <2>4 DEF Requests, In
<1> QED BY <1>2, <1>3, <1>4, <1>5, <1>6 DEF z, h

\* Frames put on a wire.
LEMMA OpenedCat ==
  ASSUME NEW w \in Seq(Frames), NEW out \in Seq(Frames), Opened(w), Len(out) <= 1 \/ (~ In(out, SYN0) /\ ~ In(out, SYN1)),
         In(out, SYN0) => ~ In(w, SYN2) /\ DataFree(w),
         In(out, SYN1) => DataFree(w)
  PROVE  Opened(w \o out)
<1> DEFINE c == w \o out
<1>1. /\ Len(w) \in Nat /\ Len(out) \in Nat
      /\ \A i \in 1 .. Len(w) : i \in 1 .. Len(c) /\ c[i] = w[i]
      /\ \A i \in 1 .. Len(c) : i \in 1 .. Len(w) \/ (i > Len(w) /\ i - Len(w) \in 1 .. Len(out) /\ c[i] = out[i - Len(w)])
  BY CatIndices
<1> HIDE DEF c
<1>2. SUFFICES ASSUME NEW i \in 1 .. Len(c), NEW j \in 1 .. Len(c), i < j
               PROVE  /\ c[j] = SYN0 => c[i] # SYN2 /\ ~ IsDatum(c[i])
                      /\ c[j] = SYN1 => ~ IsDatum(c[i])
  BY DEF Opened, c
<1>3. CASE j \in 1 .. Len(w)
  <2>1. i \in 1 .. Len(w)
    BY <1>1, <1>2, <1>3
  <2> QED BY <1>1, <1>2, <1>3, <2>1 DEF Opened
<1>4. CASE j > Len(w) /\ j - Len(w) \in 1 .. Len(out) /\ c[j] = out[j - Len(w)]
  <2>1. c[j] \in {SYN0, SYN1} => In(out, c[j])
    BY <1>4 DEF In
  <2>2. c[j] \in {SYN0, SYN1} => i \in 1 .. Len(w)
    <3>1. c[j] \in {SYN0, SYN1} => Len(out) <= 1
      BY <2>1
    <3> QED BY <1>1, <1>2, <1>4, <3>1
  <2> QED BY <1>1, <2>1, <2>2 DEF DataFree, In
<1> QED BY <1>1, <1>3, <1>4

\* The numbers of what is on a wire stay good when more is written.
LEMMA NumberedCat ==
  ASSUME NEW w \in Seq(Frames), NEW out \in Seq(Frames), NEW k \in Nat, NEW l \in Nat, k <= l,
         NumberedFrom0(w, k), NumberedFrom0(out, l)
  PROVE  NumberedFrom0(w \o out, l)
<1> DEFINE c == w \o out
<1>1. \A i \in 1 .. Len(c) : (i \in 1 .. Len(w) /\ c[i] = w[i]) \/ \E j \in 1 .. Len(out) : c[i] = out[j]
  BY CatHas
<1>2. \A i \in 1 .. Len(w) : IsDatum(w[i]) => w[i].packet \in Nat
  <2>1. \A i \in 1 .. Len(w) : w[i] \in Frames
    OBVIOUS
  <2>2. Packets \subseteq Nat
    BY DEF Packets
  <2> QED BY <2>1, <2>2, DatumFields
<1> HIDE DEF c
<1> QED BY <1>1, <1>2 DEF NumberedFrom0, c

\* A receiver that has counted up to hi asks for hi; one that has not begun may send a SYN1 or SYN2.
LEMMA RequestsCat ==
  ASSUME NEW w \in Seq(Frames), NEW out \in Seq(Frames), NEW lo \in Nat, NEW hi \in Nat, Requests(w, lo, hi),
         \/ out = <<NAK(hi)>>
         \/ /\ \A i \in 1 .. Len(out) : out[i].type # "NAK"
            /\ In(out, SYN1) \/ In(out, SYN2) => hi = 0
  PROVE  Requests(w \o out, lo, hi)
<1> DEFINE c == w \o out
<1>1. /\ Len(w) \in Nat /\ Len(out) \in Nat
      /\ \A i \in 1 .. Len(w) : i \in 1 .. Len(c) /\ c[i] = w[i]
      /\ \A i \in 1 .. Len(c) : i \in 1 .. Len(w) \/ (i > Len(w) /\ i - Len(w) \in 1 .. Len(out) /\ c[i] = out[i - Len(w)])
      /\ \A f : In(c, f) <=> In(w, f) \/ In(out, f)
  BY CatIndices, CatHas
<1>2. /\ lo <= hi
      /\ \A i \in 1 .. Len(w) : w[i].type = "NAK" => lo <= w[i].seq /\ w[i].seq <= hi /\ w[i].seq \in Nat
  <2>1. \A i \in 1 .. Len(w) : w[i] \in Frames
    OBVIOUS
  <2>2. \A f \in Frames : f.type = "NAK" => f.seq \in Nat
    BY SYNsDiffer DEF Frames, Seqs
  <2> QED BY <2>1, <2>2 DEF Requests
<1> HIDE DEF c
<1>3. CASE out = <<NAK(hi)>>
  <2>1. /\ NAK(hi).type = "NAK" /\ NAK(hi).seq = hi /\ NAK(hi) \notin {SYN1, SYN2}
        /\ Len(out) = 1 /\ out[1] = NAK(hi)
    BY <1>3, SYNsDiffer DEF NAK
  <2>2. \A i \in 1 .. Len(c) : (i \in 1 .. Len(w) /\ c[i] = w[i]) \/ (i > Len(w) /\ i = Len(w) + 1 /\ c[i] = NAK(hi))
    BY <1>1, <2>1
  <2>3. \A i \in 1 .. Len(c) : c[i].type = "NAK" => lo <= c[i].seq /\ c[i].seq <= hi
    BY <1>2, <2>1, <2>2
  <2>4. ASSUME NEW i \in 1 .. Len(c), NEW j \in 1 .. Len(c), i < j, c[i].type = "NAK"
        PROVE  /\ c[j].type = "NAK" => c[i].seq <= c[j].seq
               /\ c[j] \in {SYN1, SYN2} => c[i].seq = 0
    <3> HIDE DEF c
    <3>0. j <= Len(w) + 1 /\ i < Len(w) + 1
      BY <1>1, <2>2, <2>4
    <3>1. i \in 1 .. Len(w) /\ c[i] = w[i]
      BY <1>1, <2>2, <2>4, <3>0
    <3>2. CASE j \in 1 .. Len(w) /\ c[j] = w[j]
      BY <2>4, <3>1, <3>2 DEF Requests
    <3>3. CASE c[j] = NAK(hi)
      BY <1>2, <2>1, <2>4, <3>1, <3>3
    <3> QED BY <2>2, <3>2, <3>3
  <2>5. In(c, SYN1) \/ In(c, SYN2) => lo = 0
    <3>1. ~ In(out, SYN1) /\ ~ In(out, SYN2)
      BY <2>1 DEF In
    <3> QED BY <1>1, <3>1 DEF Requests
  <2> QED BY <1>2, <2>3, <2>4, <2>5 DEF Requests, c
<1>4. CASE /\ \A i \in 1 .. Len(out) : out[i].type # "NAK"
           /\ In(out, SYN1) \/ In(out, SYN2) => hi = 0
  <2>1. \A i \in 1 .. Len(c) : c[i].type = "NAK" => i \in 1 .. Len(w) /\ c[i] = w[i]
    BY <1>1, <1>4
  <2>2. \A i \in 1 .. Len(c) : c[i].type = "NAK" => lo <= c[i].seq /\ c[i].seq <= hi
    BY <1>2, <2>1
  <2>3. ASSUME NEW i \in 1 .. Len(c), NEW j \in 1 .. Len(c), i < j, c[i].type = "NAK"
        PROVE  /\ c[j].type = "NAK" => c[i].seq <= c[j].seq
               /\ c[j] \in {SYN1, SYN2} => c[i].seq = 0
    <3>1. i \in 1 .. Len(w) /\ c[i] = w[i]
      BY <2>1, <2>3
    <3>2. CASE j \in 1 .. Len(w)
      BY <1>1, <2>3, <3>1, <3>2 DEF Requests
    <3>3. CASE j > Len(w) /\ j - Len(w) \in 1 .. Len(out) /\ c[j] = out[j - Len(w)]
      <4>1. c[j].type # "NAK" /\ (c[j] \in {SYN1, SYN2} => hi = 0)
        BY <1>4, <3>3 DEF In
      <4> QED BY <1>2, <2>3, <3>1, <4>1
    <3> QED BY <1>1, <3>2, <3>3
  <2>4. In(c, SYN1) \/ In(c, SYN2) => lo = 0
    BY <1>1, <1>2, <1>4 DEF Requests
  <2> QED BY <1>2, <2>2, <2>3, <2>4 DEF Requests, c
<1> QED BY <1>3, <1>4

\* A receiver that has counted further may still be asked for what it has asked for.
LEMMA RequestsMore ==
  ASSUME NEW w \in Seq(Frames), NEW lo \in Nat, NEW hi \in Nat, NEW more \in Nat, hi <= more, Requests(w, lo, hi)
  PROVE  Requests(w, lo, more)
<1>1. \A i \in 1 .. Len(w) : w[i].type = "NAK" => w[i].seq \in Nat
  <2>1. \A i \in 1 .. Len(w) : w[i] \in Frames
    OBVIOUS
  <2>2. \A f \in Frames : f.type = "NAK" => f.seq \in Nat
    BY SYNsDiffer DEF Frames, Seqs
  <2> QED BY <2>1, <2>2
<1> QED BY <1>1 DEF Requests

\* A single frame that is none of the handshake's and no data, or one that is.
LEMMA OneReply ==
  /\ \A f : Len(<<f>>) = 1 /\ (\A i \in 1 .. Len(<<f>>) : <<f>>[i] = f)
  /\ \A f, k : ~ IsDatum(f) => NumberedFrom0(<<f>>, k)
  /\ \A k : NumberedFrom0(<< >>, k) /\ Len(<< >>) = 0
<1>1. \A f : Len(<<f>>) = 1 /\ \A i \in 1 .. Len(<<f>>) : <<f>>[i] = f
  OBVIOUS
<1>2. \A f, k : ~ IsDatum(f) => NumberedFrom0(<<f>>, k)
  BY <1>1 DEF NumberedFrom0
<1>3. \A k : NumberedFrom0(<< >>, k) /\ Len(<< >>) = 0
  BY DEF NumberedFrom0
<1> QED BY <1>1, <1>2, <1>3

-----------------------------------------------------------------------------
\* n takes or cuts its first frame at most and transmits out; nothing else happens to the other end.
Turn(n, out) ==
  LET p == Peer(n) IN
  /\ wire'[n] \in AfterReceiverReset(wire[n]) /\ wire'[p] = wire[p] \o out
  /\ connectState'[p] = connectState[p] /\ connects'[p] = connects[p]
  /\ rxSeq'[p] = rxSeq[p] /\ txSeq'[p] = txSeq[p] /\ history'[p] = history[p]
  /\ sent'[p] = sent[p] /\ delivered'[p] = delivered[p]

\* A turn of n adds what it transmits to the wire of the other, and nothing to its own.
LEMMA TurnWires ==
  ASSUME TypeOK, NEW n \in Nodes, NEW out \in Seq(Frames), Turn(n, out)
  PROVE  /\ Peer(n) \in Nodes /\ wire[n] \in Seq(Frames) /\ wire[Peer(n)] \in Seq(Frames)
         /\ \A f \in {SYN0, SYN1, SYN2} : In(wire'[n], f) => In(wire[n], f)
         /\ \A f : In(wire'[Peer(n)], f) <=> In(wire[Peer(n)], f) \/ In(out, f)
<1>1. Peer(n) \in Nodes
  BY TwoNodes
<1>2. wire[n] \in Seq(Frames) /\ wire[Peer(n)] \in Seq(Frames)
  BY <1>1 DEF TypeOK
<1>3. wire'[n] \in AfterReceiverReset(wire[n]) /\ wire'[Peer(n)] = wire[Peer(n)] \o out
  BY DEF Turn
<1>4. \A f \in {SYN0, SYN1, SYN2} : In(wire'[n], f) => In(wire[n], f)
  BY <1>2, <1>3, CutKeeps
<1>5. \A f : In(wire'[Peer(n)], f) <=> In(wire[Peer(n)], f) \/ In(out, f)
  BY <1>2, <1>3, CatHas
<1> QED BY <1>1, <1>2, <1>4, <1>5

\* A turn of the end that opens the connection.
LEMMA OpenerRoles ==
  ASSUME NEW c \in Nodes, TypeOK, Roles(c), NEW out \in Seq(Frames), Turn(c, out),
         connectState'[c] # "SENT_SYN1", ~ In(out, SYN1),
         Unopened(c)' => Unopened(c),
         connects'[c] = 0 => connects[c] = 0 /\ connectState'[c] = "DISCONNECTED" /\ ~ In(out, SYN0),
         connects'[c] = 0 \/ connectState'[c] = "SENT_SYN0" =>
           sent'[c] = 0 /\ ~ In(out, SYN2) /\ ~ In(wire[Peer(c)], SYN2),
         In(wire'[c], SYN1) => delivered'[c] = << >>
  PROVE  Roles(c)'
<1> DEFINE s == Peer(c)
<1>1. /\ \A f \in {SYN0, SYN1, SYN2} : In(wire'[c], f) => In(wire[c], f)
      /\ \A f : In(wire'[s], f) <=> In(wire[s], f) \/ In(out, f)
  BY TurnWires
<1>2. /\ connectState'[s] = connectState[s] /\ sent'[s] = sent[s] /\ delivered'[s] = delivered[s]
  BY DEF Turn
<1> HIDE DEF s
<1>3. /\ connectState[s] # "SENT_SYN0"
      /\ ~ In(wire[c], SYN0) /\ ~ In(wire[c], SYN2) /\ ~ In(wire[s], SYN1)
      /\ connects[c] = 0 => connectState[s] = "DISCONNECTED" /\ ~ In(wire[s], SYN0) /\ ~ In(wire[c], SYN1)
      /\ Unopened(c) => connectState[s] # "CONNECTED"
      /\ Unopened(c) \/ connectState[s] = "SENT_SYN1" => sent[s] = 0 /\ delivered[s] = << >>
  BY DEF Roles, s
<1>4. /\ connectState'[s] # "SENT_SYN0"
      /\ ~ In(wire'[c], SYN0) /\ ~ In(wire'[c], SYN2) /\ ~ In(wire'[s], SYN1)
  BY <1>1, <1>2, <1>3
<1>5. connects'[c] = 0 =>
        /\ connectState'[c] = "DISCONNECTED" /\ connectState'[s] = "DISCONNECTED"
        /\ ~ In(wire'[s], SYN0) /\ ~ In(wire'[c], SYN1)
  BY <1>1, <1>2, <1>3
<1>6. connects'[c] = 0 \/ connectState'[c] = "SENT_SYN0" => sent'[c] = 0 /\ ~ In(wire'[s], SYN2)
  BY <1>1 DEF s
<1>7. /\ Unopened(c)' => connectState'[s] # "CONNECTED"
      /\ Unopened(c)' \/ connectState'[s] = "SENT_SYN1" => sent'[s] = 0 /\ delivered'[s] = << >>
  BY <1>2, <1>3
<1> QED BY <1>4, <1>5, <1>6, <1>7 DEF Roles, s

\* A turn of the end that waits for it.
LEMMA PeerRoles ==
  ASSUME NEW c \in Nodes, TypeOK, Roles(c), NEW out \in Seq(Frames), Turn(Peer(c), out),
         connectState'[Peer(c)] # "SENT_SYN0", ~ In(out, SYN0), ~ In(out, SYN2),
         connects[c] = 0 => connectState'[Peer(c)] = "DISCONNECTED" /\ ~ In(out, SYN1),
         Unopened(c)' => connectState'[Peer(c)] # "CONNECTED",
         Unopened(c)' \/ connectState'[Peer(c)] = "SENT_SYN1" => sent'[Peer(c)] = 0 /\ delivered'[Peer(c)] = << >>,
         In(out, SYN1) => delivered[c] = << >>
  PROVE  Roles(c)'
<1> DEFINE s == Peer(c)
<1>0. s \in Nodes /\ Peer(s) = c
  BY TwoNodes
<1>1. /\ \A f \in {SYN0, SYN1, SYN2} : In(wire'[s], f) => In(wire[s], f)
      /\ \A f : In(wire'[c], f) <=> In(wire[c], f) \/ In(out, f)
  BY <1>0, TurnWires
<1>2. /\ connectState'[c] = connectState[c] /\ connects'[c] = connects[c]
      /\ sent'[c] = sent[c] /\ delivered'[c] = delivered[c]
  BY <1>0 DEF Turn
<1> HIDE DEF s
<1>3. /\ connectState[c] # "SENT_SYN1"
      /\ ~ In(wire[c], SYN0) /\ ~ In(wire[c], SYN2) /\ ~ In(wire[s], SYN1)
      /\ connects[c] = 0 => connectState[c] = "DISCONNECTED" /\ ~ In(wire[s], SYN0) /\ ~ In(wire[c], SYN1)
      /\ connects[c] = 0 \/ connectState[c] = "SENT_SYN0" => sent[c] = 0 /\ ~ In(wire[s], SYN2)
      /\ In(wire[c], SYN1) => delivered[c] = << >>
  BY DEF Roles, s
<1>4. /\ connectState'[c] # "SENT_SYN1"
      /\ ~ In(wire'[c], SYN0) /\ ~ In(wire'[c], SYN2) /\ ~ In(wire'[s], SYN1)
      /\ In(wire'[c], SYN1) => delivered'[c] = << >>
  BY <1>1, <1>2, <1>3
<1>5. /\ connects'[c] = 0 =>
           /\ connectState'[c] = "DISCONNECTED" /\ connectState'[s] = "DISCONNECTED"
           /\ ~ In(wire'[s], SYN0) /\ ~ In(wire'[c], SYN1)
      /\ connects'[c] = 0 \/ connectState'[c] = "SENT_SYN0" => sent'[c] = 0 /\ ~ In(wire'[s], SYN2)
  BY <1>1, <1>2, <1>3 DEF s
<1> QED BY <1>4, <1>5 DEF Roles, s

\* The connection of the other end is over when it was, and open when it was.
LEMMA PeerUnopened ==
  ASSUME NEW c \in Nodes, TypeOK, NEW out \in Seq(Frames), Turn(Peer(c), out)
  PROVE  Unopened(c)' => Unopened(c)
<1> DEFINE s == Peer(c)
<1>0. s \in Nodes /\ Peer(s) = c
  BY TwoNodes
<1>1. In(wire'[s], SYN0) => In(wire[s], SYN0)
  BY <1>0, TurnWires
<1>2. connectState'[c] = connectState[c] /\ connects'[c] = connects[c]
  BY <1>0 DEF Turn
<1> QED BY <1>1, <1>2 DEF Unopened

\* What a turn of n must leave true.
LEMMA TurnKeeps ==
  ASSUME NEW c \in Nodes, OneConnectionInv(c), TypeOK', Roles(c)',
         NEW n \in Nodes, NEW out \in Seq(Frames), Turn(n, out),
         Unopened(c)' => Unopened(c), Over(c, n) => Over(c, n)',
         Prefix(n)', sent[n] <= sent'[n],
         ~ Over(c, n)' => rxSeq'[n] = Len(delivered'[n]),
         ~ Over(c, Peer(n)) => Opened(wire[Peer(n)] \o out) /\ NumberedFrom0(out, sent'[n]),
         ~ Over(c, n)' /\ ~ Over(c, Peer(n)) =>
           /\ Outgoing(n)' /\ rxSeq[n] <= rxSeq'[n]
           /\ \/ out = <<NAK(rxSeq'[n])>>
              \/ /\ \A i \in 1 .. Len(out) : out[i].type # "NAK"
                 /\ In(out, SYN1) \/ In(out, SYN2) => rxSeq'[n] = 0
  PROVE  OneKept(c)
<1> DEFINE p == Peer(n)
<1>1. /\ p \in Nodes /\ Peer(p) = n /\ \A m \in Nodes : m = n \/ m = p
      /\ p # n
  BY TwoNodes
<1>2. /\ wire'[n] \in AfterReceiverReset(wire[n]) /\ wire'[p] = wire[p] \o out
      /\ connectState'[p] = connectState[p] /\ connects'[p] = connects[p]
      /\ rxSeq'[p] = rxSeq[p] /\ txSeq'[p] = txSeq[p] /\ history'[p] = history[p]
      /\ sent'[p] = sent[p] /\ delivered'[p] = delivered[p]
  BY DEF Turn
<1>3. /\ \A m \in {n, p} : Prefix(m) /\ (~ Over(c, m) => Incoming(m))
      /\ ~ Over(c, n) /\ ~ Over(c, p) => Outgoing(p)
  BY <1>1 DEF OneConnectionInv
<1>4. /\ wire[n] \in Seq(Frames) /\ wire[p] \in Seq(Frames)
      /\ sent[n] \in Nat /\ sent'[n] \in Nat /\ sent[p] \in Nat
      /\ rxSeq[n] \in Nat /\ rxSeq'[n] \in Nat
      /\ Len(delivered[p]) \in Nat
      /\ Len(history[p]) \in Nat
  <2>1. \A x \in 0 .. MaxSent : x \in Nat
    BY BoundsAssumption
  <2>2. Seqs \subseteq Nat
    BY DEF Seqs
  <2>3. TypeOK
    BY DEF OneConnectionInv
  <2>4. /\ wire[n] \in Seq(Frames) /\ wire[p] \in Seq(Frames)
        /\ delivered[p] \in Seq(1 .. MaxSent) /\ history[p] \in Seq(1 .. MaxSent)
        /\ sent[n] \in 0 .. MaxSent /\ sent'[n] \in 0 .. MaxSent /\ sent[p] \in 0 .. MaxSent
        /\ rxSeq[n] \in Seqs /\ rxSeq'[n] \in Seqs
    BY <1>1, <2>3 DEF TypeOK
  <2> HIDE DEF p
  <2>5. Len(delivered[p]) \in Nat /\ Len(history[p]) \in Nat
    BY <2>4
  <2> QED BY <2>1, <2>2, <2>4, <2>5
<1>5. Over(c, p) => Over(c, p)'
  BY <1>2 DEF Over
<1> HIDE DEF p
<1>6. Prefix(p)'
  BY <1>1, <1>2, <1>3, <1>4 DEF Prefix
<1>7. ~ Over(c, n)' => Incoming(n)'
  <2> SUFFICES ASSUME ~ Over(c, n)' PROVE Incoming(n)'
    OBVIOUS
  <2>1. Opened(wire[n]) /\ NumberedFrom0(wire[n], sent[p])
    BY <1>3 DEF Incoming, p
  <2>2. Opened(wire'[n]) /\ NumberedFrom0(wire'[n], sent'[p])
    BY <1>2, <1>4, <2>1, CutKeeps
  <2> QED BY <2>2 DEF Incoming, p
<1>8. ~ Over(c, p)' => Incoming(p)'
  <2> SUFFICES ASSUME ~ Over(c, p)' PROVE Incoming(p)'
    OBVIOUS
  <2>0. ~ Over(c, p)
    BY <1>5
  <2>1. rxSeq[p] = Len(delivered[p]) /\ NumberedFrom0(wire[p], sent[n])
    BY <1>1, <1>3, <2>0 DEF Incoming
  <2>2. Opened(wire[p] \o out) /\ NumberedFrom0(out, sent'[n])
    BY <2>0 DEF p
  <2>3. NumberedFrom0(wire[p] \o out, sent'[n])
    BY <1>4, <2>1, <2>2, NumberedCat
  <2> QED BY <1>1, <1>2, <2>1, <2>2, <2>3 DEF Incoming
<1>9. ~ Over(c, n)' /\ ~ Over(c, p)' => Outgoing(p)'
  <2> SUFFICES ASSUME ~ Over(c, n)', ~ Over(c, p)' PROVE Outgoing(p)'
    OBVIOUS
  <2>0. ~ Over(c, p) /\ ~ Over(c, n)
    BY <1>5
  <2> DEFINE lo == sent[p] - Len(history[p])
  <2>1. /\ Outgoing(p) /\ Requests(wire[p], lo, rxSeq[n])
    BY <1>1, <1>3, <2>0 DEF Outgoing
  <2>2. lo \in Nat
    BY <1>4, <2>1 DEF Outgoing
  <2> HIDE DEF lo
  <2>3. /\ rxSeq[n] <= rxSeq'[n]
        /\ \/ out = <<NAK(rxSeq'[n])>>
           \/ /\ \A i \in 1 .. Len(out) : out[i].type # "NAK"
              /\ In(out, SYN1) \/ In(out, SYN2) => rxSeq'[n] = 0
    BY <2>0 DEF p
  <2>4. Requests(wire[p], lo, rxSeq'[n])
    BY <1>4, <2>1, <2>2, <2>3, RequestsMore
  <2>5. Requests(wire[p] \o out, lo, rxSeq'[n])
    BY <1>4, <2>2, <2>3, <2>4, RequestsCat
  <2> QED BY <1>1, <1>2, <2>1, <2>5 DEF Outgoing, lo
<1>10. ~ Over(c, n)' /\ ~ Over(c, p)' => Outgoing(n)'
  BY <1>5 DEF p
<1>11. ASSUME NEW m \in Nodes
       PROVE  /\ Prefix(m)'
              /\ ~ Over(c, m)' => Incoming(m)'
              /\ ~ Over(c, m)' /\ ~ Over(c, Peer(m))' => Outgoing(m)'
  <2>1. CASE m = n
    BY <1>7, <1>10, <2>1 DEF p
  <2>2. CASE m = p
    BY <1>1, <1>6, <1>8, <1>9, <2>2
  <2> QED BY <1>1, <2>1, <2>2
<1> QED BY <1>1, <1>5, <1>11 DEF OneConnectionInv, OneKept

-----------------------------------------------------------------------------
\* The types of what belongs to one end.
LEMMA OneTypes ==
  ASSUME TypeOK, NEW n \in Nodes
  PROVE  /\ wire[n] \in Seq(Frames) /\ connectState[n] \in ConnectStates
         /\ history[n] \in Seq(Packets) /\ delivered[n] \in Seq(Packets)
         /\ sent[n] \in Nat /\ sent[n] <= MaxSent
         /\ rxSeq[n] \in Seqs /\ txSeq[n] \in Seqs /\ rxSeq[n] \in Nat /\ txSeq[n] \in Nat
         /\ Len(delivered[n]) \in Nat /\ Len(history[n]) \in Nat /\ Len(history[n]) <= HistoryCapacity
         /\ connects[n] \in Nat
<1>1. \A x \in 0 .. MaxSent : x \in Nat /\ x <= MaxSent
  BY BoundsAssumption
<1>2. \A x \in 0 .. MaxConnects : x \in Nat
  BY BoundsAssumption
<1>3. Seqs \subseteq Nat
  BY DEF Seqs
<1>4. /\ wire[n] \in Seq(Frames) /\ connectState[n] \in ConnectStates
      /\ history[n] \in Seq(Packets) /\ delivered[n] \in Seq(Packets)
      /\ sent[n] \in 0 .. MaxSent /\ rxSeq[n] \in Seqs /\ txSeq[n] \in Seqs
      /\ Len(history[n]) <= HistoryCapacity /\ connects[n] \in 0 .. MaxConnects
  BY DEF TypeOK, Packets
<1>5. Len(delivered[n]) \in Nat /\ Len(history[n]) \in Nat
  BY <1>4
<1> QED BY <1>1, <1>2, <1>3, <1>4, <1>5

\* What an end that has not written anything implies.
LEMMA NothingSent ==
  ASSUME NEW c, OneConnectionInv(c), NEW n \in Nodes, sent[n] = 0
  PROVE  /\ delivered[Peer(n)] = << >>
         /\ ~ Over(c, Peer(n)) => DataFree(wire[Peer(n)]) /\ rxSeq[Peer(n)] = 0
         /\ ~ Over(c, n) /\ ~ Over(c, Peer(n)) => txSeq[n] = 0 /\ Len(history[n]) = 0
<1> DEFINE p == Peer(n)
<1>1. p \in Nodes /\ Peer(p) = n
  BY TwoNodes
<1>2. TypeOK /\ Prefix(p) /\ (~ Over(c, p) => Incoming(p)) /\ (~ Over(c, n) /\ ~ Over(c, p) => Outgoing(n))
  BY <1>1 DEF OneConnectionInv
<1>3. /\ delivered[p] \in Seq(Packets) /\ Len(delivered[p]) \in Nat /\ wire[p] \in Seq(Frames)
      /\ Len(history[n]) \in Nat
  BY <1>1, <1>2, OneTypes
<1> HIDE DEF p
<1>4. Len(delivered[p]) = 0
  BY <1>1, <1>2, <1>3 DEF Prefix
<1>5. delivered[p] = << >>
  BY <1>3, <1>4
<1>6. ASSUME ~ Over(c, p) PROVE DataFree(wire[p]) /\ rxSeq[p] = 0
  <2>1. NumberedFrom0(wire[p], 0) /\ rxSeq[p] = 0
    BY <1>1, <1>2, <1>4, <1>6 DEF Incoming
  <2>2. ASSUME NEW i \in 1 .. Len(wire[p]), IsDatum(wire[p][i]) PROVE FALSE
    <3>1. wire[p][i] \in Frames
      BY <1>3
    <3>2. wire[p][i].packet \in Packets /\ wire[p][i].packet <= 0
      BY <2>1, <2>2, <3>1, DatumFields DEF NumberedFrom0
    <3> QED BY <3>2, BoundsAssumption DEF Packets
  <2> QED BY <2>1, <2>2 DEF DataFree
<1>7. ~ Over(c, n) /\ ~ Over(c, p) => txSeq[n] = 0 /\ Len(history[n]) = 0
  BY <1>2, <1>3 DEF Outgoing
<1> QED BY <1>5, <1>6, <1>7 DEF p

\* Before the connection is open neither end has done anything.
LEMMA BeforeOpening ==
  ASSUME NEW c \in Nodes, OneConnectionInv(c)
  PROVE  /\ Unopened(c) \/ connectState[Peer(c)] = "SENT_SYN1" =>
              sent[Peer(c)] = 0 /\ delivered[Peer(c)] = << >> /\ delivered[c] = << >>
         /\ connects[c] = 0 \/ connectState[c] = "SENT_SYN0" =>
              Unopened(c) /\ sent[c] = 0 /\ ~ In(wire[Peer(c)], SYN2)
<1>1. /\ Unopened(c) \/ connectState[Peer(c)] = "SENT_SYN1" => sent[Peer(c)] = 0 /\ delivered[Peer(c)] = << >>
      /\ connects[c] = 0 \/ connectState[c] = "SENT_SYN0" => sent[c] = 0 /\ ~ In(wire[Peer(c)], SYN2)
  BY DEF OneConnectionInv, Roles
<1>2. Peer(c) \in Nodes /\ Peer(Peer(c)) = c
  BY TwoNodes
<1>3. sent[Peer(c)] = 0 => delivered[c] = << >>
  BY <1>2, NothingSent
<1> QED BY <1>1, <1>3 DEF Unopened

\* A call that at most answers or disconnects.
LEMMA ReplyKeeps ==
  ASSUME NEW c, OneOpener(c), OneConnectionInv(c), TypeOK', NEW n \in Nodes, NEW out \in Seq(Frames), Turn(n, out),
         connects'[n] = connects[n], sent'[n] = sent[n], delivered'[n] = delivered[n], history'[n] = history[n],
         connectState'[n] \in {connectState[n], "DISCONNECTED"},
         \/ rxSeq'[n] = rxSeq[n] /\ txSeq'[n] = txSeq[n]
         \/ rxSeq'[n] = 0 /\ txSeq'[n] = 0 /\ connectState'[n] = "DISCONNECTED",
         \/ out \in {<< >>, <<DIS>>, <<NAK(rxSeq'[n])>>}
         \/ out = <<SYN0>> /\ connectState[n] = "SENT_SYN0" /\ connectState'[n] = "SENT_SYN0"
         \/ out = <<SYN1>> /\ connectState[n] = "SENT_SYN1" /\ connectState'[n] = "SENT_SYN1"
  PROVE  OneKept(c)
<1> DEFINE s == Peer(c)
           p == Peer(n)
<1>0. /\ c \in Nodes /\ s \in Nodes /\ p \in Nodes /\ Peer(s) = c /\ Peer(p) = n
      /\ n = c \/ n = s
  BY TwoNodes DEF OneOpener
<1>1. /\ TypeOK /\ Roles(c) /\ Prefix(n) /\ Prefix(p)
      /\ ~ Over(c, n) => Incoming(n)
      /\ ~ Over(c, p) => Incoming(p)
      /\ ~ Over(c, n) /\ ~ Over(c, p) => Outgoing(n)
  BY <1>0 DEF OneConnectionInv
<1>2. /\ In(out, SYN0) => connectState[n] = "SENT_SYN0" /\ connectState'[n] = "SENT_SYN0"
      /\ In(out, SYN1) => connectState[n] = "SENT_SYN1" /\ connectState'[n] = "SENT_SYN1"
      /\ ~ In(out, SYN2)
  <2>1. \A x : NAK(x) # SYN0 /\ NAK(x) # SYN1 /\ NAK(x) # SYN2
    BY SYNsDiffer
  <2> QED BY <2>1, ShortWires, SYNsDiffer
<1>3. /\ Len(out) <= 1 /\ (\A k : NumberedFrom0(out, k))
      /\ out = <<NAK(rxSeq'[n])>> \/ \A i \in 1 .. Len(out) : out[i].type # "NAK"
  <2>1. CASE out = << >>
    BY <2>1, OneReply
  <2>2. CASE out \in {<<DIS>>, <<SYN0>>, <<SYN1>>}
    <3>1. PICK g \in {DIS, SYN0, SYN1} : out = <<g>>
      BY <2>2
    <3>2. g.type # "NAK" /\ ~ IsDatum(g)
      BY NoData, SYNsDiffer
    <3>3. Len(<<g>>) = 1 /\ (\A k : NumberedFrom0(<<g>>, k)) /\ \A i \in 1 .. Len(<<g>>) : <<g>>[i] = g
      BY <3>2, OneReply
    <3> QED BY <3>1, <3>2, <3>3
  <2>3. CASE out = <<NAK(rxSeq'[n])>>
    BY <2>3, OneReply, NoData
  <2> QED BY <2>1, <2>2, <2>3
<1>4. /\ connects'[c] = connects[c]
      /\ connectState'[p] = connectState[p]
      /\ delivered'[p] = delivered[p] /\ sent'[p] = sent[p] /\ rxSeq'[p] = rxSeq[p]
      /\ wire'[n] \in AfterReceiverReset(wire[n])
      /\ wire'[p] = wire[p] \o out
  BY <1>0 DEF Turn
<1>5. /\ \A f \in {SYN0, SYN1, SYN2} : In(wire'[n], f) => In(wire[n], f)
      /\ \A f : In(wire'[p], f) <=> In(wire[p], f) \/ In(out, f)
  BY <1>1, TurnWires
<1>6. /\ wire[n] \in Seq(Frames) /\ wire[p] \in Seq(Frames)
      /\ sent[n] \in Nat /\ sent[p] \in Nat /\ rxSeq[n] \in Nat /\ rxSeq'[n] \in Nat /\ Len(history[n]) \in Nat
  <2>1. rxSeq'[n] \in Seqs /\ Seqs \subseteq Nat
    BY DEF TypeOK, Seqs
  <2> QED BY <1>0, <1>1, <2>1, OneTypes
<1>7. /\ Unopened(c) \/ connectState[s] = "SENT_SYN1" => sent[s] = 0 /\ delivered[s] = << >> /\ delivered[c] = << >>
      /\ connects[c] = 0 \/ connectState[c] = "SENT_SYN0" => Unopened(c) /\ sent[c] = 0 /\ ~ In(wire[s], SYN2)
  BY <1>0, BeforeOpening
<1> HIDE DEF s, p
<1>8. Unopened(c)' => Unopened(c)
  <2>1. CASE n = c
    <3>1. p = s
      BY <2>1 DEF s, p
    <3>2. In(wire'[s], SYN0) => In(wire[s], SYN0) \/ connectState[c] = "SENT_SYN0"
      BY <1>2, <1>5, <2>1, <3>1
    <3> QED BY <1>4, <2>1, <3>2 DEF Unopened, s
  <2>2. CASE n = s
    BY <1>0, <1>1, <2>2, PeerUnopened DEF s
  <2> QED BY <1>0, <2>1, <2>2
<1>9. Roles(c)'
  <2>1. CASE n = c
    <3>1. p = s
      BY <2>1 DEF s, p
    <3>2. /\ connectState[c] # "SENT_SYN1"
          /\ connects[c] = 0 => connectState[c] = "DISCONNECTED"
          /\ In(wire[c], SYN1) => delivered[c] = << >>
      BY <1>1 DEF Roles
    <3>3. connectState'[c] # "SENT_SYN1" /\ ~ In(out, SYN1)
      BY <1>2, <2>1, <3>2
    <3>4. connects'[c] = 0 => connects[c] = 0 /\ connectState'[c] = "DISCONNECTED" /\ ~ In(out, SYN0)
      BY <1>2, <1>4, <2>1, <3>2
    <3>5. connects'[c] = 0 \/ connectState'[c] = "SENT_SYN0" =>
            sent'[c] = 0 /\ ~ In(out, SYN2) /\ ~ In(wire[s], SYN2)
      BY <1>2, <1>4, <1>7, <2>1
    <3>6. In(wire'[c], SYN1) => delivered'[c] = << >>
      BY <1>5, <2>1, <3>2
    <3> QED BY <1>0, <1>1, <1>8, <2>1, <3>3, <3>4, <3>5, <3>6, OpenerRoles DEF s
  <2>2. CASE n = s
    <3>1. p = c
      BY <1>0, <2>2 DEF p
    <3>2. /\ connectState[s] # "SENT_SYN0"
          /\ connects[c] = 0 => connectState[s] = "DISCONNECTED"
          /\ Unopened(c) => connectState[s] # "CONNECTED"
      BY <1>1 DEF Roles, s
    <3>3. connectState'[s] # "SENT_SYN0" /\ ~ In(out, SYN0) /\ ~ In(out, SYN2)
      BY <1>2, <2>2, <3>2
    <3>4. connects[c] = 0 => connectState'[s] = "DISCONNECTED" /\ ~ In(out, SYN1)
      BY <1>2, <2>2, <3>2
    <3>5. /\ Unopened(c)' => connectState'[s] # "CONNECTED"
          /\ Unopened(c)' \/ connectState'[s] = "SENT_SYN1" => sent'[s] = 0 /\ delivered'[s] = << >>
      BY <1>7, <1>8, <2>2, <3>2
    <3>6. In(out, SYN1) => delivered[c] = << >>
      BY <1>2, <1>7, <2>2
    <3> QED BY <1>0, <1>1, <2>2, <3>3, <3>4, <3>5, <3>6, PeerRoles DEF s
  <2> QED BY <1>0, <2>1, <2>2
<1>10. Over(c, n) => Over(c, n)'
  BY <1>4, <1>8 DEF Over
<1>11. Prefix(n)' /\ sent[n] <= sent'[n]
  BY <1>1, <1>4, <1>6 DEF Prefix, p
<1>12. ASSUME ~ Over(c, n)', rxSeq'[n] # rxSeq[n]
       PROVE  /\ rxSeq'[n] = 0 /\ txSeq'[n] = 0 /\ connectState'[n] = "DISCONNECTED"
              /\ delivered[n] = << >> /\ sent[n] = 0
  <2>1. rxSeq'[n] = 0 /\ txSeq'[n] = 0 /\ connectState'[n] = "DISCONNECTED"
    BY <1>12
  <2>2. CASE n = c
    <3>1. connects[c] = 0
      BY <1>4, <1>12, <2>1, <2>2 DEF Over
    <3> QED BY <1>7, <2>1, <2>2, <3>1
  <2>3. CASE n = s
    <3>1. Unopened(c)
      <4>1. CASE n = c
        <5>1. connects[c] = 0
          BY <1>4, <1>12, <2>1, <4>1 DEF Over
        <5> QED BY <1>7, <5>1
      <4>2. CASE n # c
        BY <1>8, <1>12, <2>1, <4>2 DEF Over
      <4> QED BY <4>1, <4>2
    <3> QED BY <1>7, <2>1, <2>3, <3>1
  <2> QED BY <1>0, <2>2, <2>3
<1>13. ~ Over(c, n)' => rxSeq'[n] = Len(delivered'[n])
  BY <1>1, <1>10, <1>12 DEF Incoming
<1>14. ~ Over(c, p) => Opened(wire[p] \o out) /\ NumberedFrom0(out, sent'[n])
  <2> SUFFICES ASSUME ~ Over(c, p) PROVE Opened(wire[p] \o out)
    BY <1>3
  <2>1. Opened(wire[p])
    BY <1>1 DEF Incoming
  <2>2. In(out, SYN0) => ~ In(wire[p], SYN2) /\ DataFree(wire[p])
    <3> SUFFICES ASSUME In(out, SYN0) PROVE ~ In(wire[p], SYN2) /\ DataFree(wire[p])
      OBVIOUS
    <3>1. n = c
      BY <1>0, <1>1, <1>2 DEF Roles, s
    <3>2. p = s
      BY <3>1 DEF s, p
    <3> QED BY <1>0, <1>2, <1>7, <3>1, <3>2, NothingSent DEF s
  <2>3. In(out, SYN1) => DataFree(wire[p])
    <3> SUFFICES ASSUME In(out, SYN1) PROVE DataFree(wire[p])
      OBVIOUS
    <3>1. n = s
      BY <1>0, <1>1, <1>2 DEF Roles
    <3>2. sent[n] = 0
      BY <1>2, <1>7, <3>1
    <3> QED BY <3>2, NothingSent DEF p
  <2> QED BY <1>3, <1>6, <2>1, <2>2, <2>3, OpenedCat
<1>15. ~ Over(c, n)' /\ ~ Over(c, p) =>
         /\ Outgoing(n)' /\ rxSeq[n] <= rxSeq'[n]
         /\ \/ out = <<NAK(rxSeq'[n])>>
            \/ /\ \A i \in 1 .. Len(out) : out[i].type # "NAK"
               /\ In(out, SYN1) \/ In(out, SYN2) => rxSeq'[n] = 0
  <2> SUFFICES ASSUME ~ Over(c, n)', ~ Over(c, p)
               PROVE  /\ Outgoing(n)' /\ rxSeq[n] <= rxSeq'[n]
                      /\ In(out, SYN1) \/ In(out, SYN2) => rxSeq'[n] = 0
    BY <1>3
  <2>1. Incoming(n) /\ Outgoing(n)
    BY <1>1, <1>10
  <2>2. rxSeq[n] <= rxSeq'[n] /\ txSeq'[n] = txSeq[n]
    <3>1. CASE rxSeq'[n] = rxSeq[n] /\ txSeq'[n] = txSeq[n]
      BY <1>6, <3>1
    <3>2. CASE rxSeq'[n] = rxSeq[n] /\ txSeq'[n] # txSeq[n]
      <4>1. /\ rxSeq'[n] = 0 /\ txSeq'[n] = 0 /\ connectState'[n] = "DISCONNECTED"
        BY <3>2
      <4>2. CASE n = c
        <5>1. connects[c] = 0
          BY <1>4, <4>1, <4>2 DEF Over
        <5> QED BY <1>6, <1>7, <2>1, <3>2, <4>1, <4>2, <5>1 DEF Outgoing
      <4>3. CASE n # c
        <5>1. Unopened(c) /\ n = s
          BY <1>0, <1>8, <4>1, <4>3 DEF Over
        <5> QED BY <1>6, <1>7, <2>1, <3>2, <4>1, <5>1 DEF Outgoing
      <4> QED BY <4>2, <4>3
    <3>3. CASE rxSeq'[n] # rxSeq[n]
      <4>1. rxSeq'[n] = 0 /\ txSeq'[n] = 0 /\ delivered[n] = << >> /\ sent[n] = 0
        BY <1>12, <3>3
      <4>2. rxSeq[n] = 0 /\ txSeq[n] = 0
        BY <2>1, <4>1 DEF Incoming, Outgoing
      <4> QED BY <4>1, <4>2
    <3> QED BY <3>1, <3>2, <3>3
  <2>3. Outgoing(n)'
    <3>1. Requests(wire[n], sent[n] - Len(history[n]), rxSeq[p])
      BY <2>1 DEF Outgoing, p
    <3>2. Requests(wire'[n], sent[n] - Len(history[n]), rxSeq[p])
      BY <1>4, <1>6, <3>1, CutKeeps
    <3> QED BY <1>4, <2>1, <2>2, <3>2 DEF Outgoing, p
  <2>4. In(out, SYN1) => rxSeq'[n] = 0
    <3> SUFFICES ASSUME In(out, SYN1) PROVE rxSeq'[n] = 0
      OBVIOUS
    <3>1. n = s
      BY <1>0, <1>1, <1>2 DEF Roles
    <3>2. delivered[n] = << >> /\ delivered'[n] = << >>
      BY <1>2, <1>7, <3>1
    <3> QED BY <1>13, <3>2
  <2> QED BY <1>2, <2>2, <2>3, <2>4
<1> QED BY <1>0, <1>8, <1>9, <1>10, <1>11, <1>13, <1>14, <1>15, TurnKeeps DEF p

\* Where in the history a packet is that is kept.
LEMMA KeptIndex ==
  ASSUME NEW k \in Nat, NEW l \in Nat, NEW j \in Nat, k - l <= j, j < k, NEW i \in 1 .. k - j
  PROVE  i + (j - (k - l)) \in 1 .. l /\ (k - l) + (i + (j - (k - l))) = j + i
  OBVIOUS

-----------------------------------------------------------------------------
\* What is retransmitted carries the numbers it had, because none has wrapped.
LEMMA Resends ==
  ASSUME NEW c, OneOpener(c), OneConnectionInv(c), NEW n \in Nodes, wire[n] # << >>, NEW out \in Seq(Frames),
         NEW j \in Seqs, ConsumeAndTransmitHistoryFrom(n, out, j),
         connectState'[Peer(n)] = connectState[Peer(n)], UNCHANGED <<sent, delivered, connects>>,
         ~ Over(c, n) /\ ~ Over(c, Peer(n)) =>
           /\ sent[n] - Len(history[n]) <= j /\ j < sent[n]
           /\ Requests(Tail(wire[n]), j, rxSeq[Peer(n)])
  PROVE  \E more \in Seq(Frames) :
           /\ Turn(n, out \o more) /\ rxSeq'[n] = rxSeq[n]
           /\ \A i \in 1 .. Len(more) : more[i].type = "RTX"
           /\ ~ Over(c, n) /\ ~ Over(c, Peer(n)) => NumberedFrom0(more, sent[n]) /\ Outgoing(n)'
<1> DEFINE p == Peer(n)
           h == history[n]
           kept == KeptHistory(h, txSeq[n], j)
           more == Retransmissions(kept, j)
<1>1. p \in Nodes /\ p # n
  BY TwoNodes
<1>2. TypeOK
  BY DEF OneConnectionInv
<1>3. /\ h \in Seq(Packets) /\ Len(h) \in Nat /\ Len(h) <= HistoryCapacity /\ txSeq[n] \in Seqs /\ txSeq[n] \in Int
      /\ sent[n] \in Nat /\ j \in Int /\ j \in Nat
      /\ wire[n] \in Seq(Frames) /\ wire[p] \in Seq(Frames)
  <2>1. j \in Nat
    BY DEF Seqs
  <2> QED BY <1>1, <1>2, <2>1, OneTypes
<1>4. /\ kept \in Seq(Packets) /\ SeqAfter(kept, j) \in Seqs /\ more \in Seq(Frames)
  BY <1>3, RetransmissionTypes
<1>5. /\ rxSeq' = rxSeq
      /\ history' = [history EXCEPT ![n] = kept] /\ txSeq' = [txSeq EXCEPT ![n] = SeqAfter(kept, j)]
      /\ Consume(n, out \o more)
  BY DEF ConsumeAndTransmitHistoryFrom
<1>6. /\ history'[n] = kept /\ txSeq'[n] = SeqAfter(kept, j)
      /\ history'[p] = history[p] /\ txSeq'[p] = txSeq[p]
  <2> HIDE DEF kept
  <2> QED BY <1>1, <1>2, <1>5 DEF TypeOK
<1>7. /\ wire'[n] = Tail(wire[n]) /\ wire'[p] = wire[p] \o (out \o more)
  <2>1. out \o more \in Seq(Frames)
    BY <1>4
  <2> HIDE DEF more
  <2> QED BY <1>2, <1>5, <2>1, ConsumeWires DEF TypeOK
<1>8. Turn(n, out \o more)
  <2>1. wire'[n] \in AfterReceiverReset(wire[n])
    BY <1>3, <1>7, FirstFrame
  <2> HIDE DEF more
  <2> QED BY <1>5, <1>6, <1>7, <2>1 DEF Turn
<1>9. \A i \in 1 .. Len(more) : more[i].type = "RTX"
  <2> HIDE DEF kept
  <2>1. more = [i \in 1 .. Len(kept) |-> DataFrame("RTX", (j + i - 1) % SeqRange, kept[i])] /\ Len(kept) \in Nat
    BY <1>4 DEF Retransmissions
  <2>2. Len(more) = Len(kept)
    BY <2>1
  <2> QED BY <2>1, <2>2, SYNsDiffer
<1>10. ASSUME ~ Over(c, n), ~ Over(c, p) PROVE NumberedFrom0(more, sent[n]) /\ Outgoing(n)'
  <2> DEFINE lo == sent[n] - Len(h)
  <2>1. /\ txSeq[n] = sent[n] /\ Len(h) <= sent[n] /\ \A i \in 1 .. Len(h) : h[i] = lo + i
    BY <1>10 DEF OneConnectionInv, Outgoing
  <2>2. lo <= j /\ j < sent[n] /\ Requests(Tail(wire[n]), j, rxSeq[p])
    BY <1>10
  <2>3. sent[n] % SeqRange = sent[n] /\ j % SeqRange = j
    BY <1>3, <2>1, ModSmall
  <2>4. Len(h) < SeqRange
    BY <1>3, HistoryAssumption, SeqRangePositive
  <2>5. FastForward(h, sent[n], j) = j - lo /\ ~ Underrun(h, sent[n], j)
    <3> HIDE DEF h
    <3> QED BY <1>3, <2>2, <2>3, <2>4, FastForwardValue
  <2>6. /\ Len(kept) = Len(h) - (j - lo)
        /\ \A i \in 1 .. Len(kept) : kept[i] = h[i + (j - lo)]
    <3> HIDE DEF h, lo
    <3> QED BY <1>3, <2>1, <2>5, KeptHistoryProperties
  <2>7. Len(kept) = sent[n] - j /\ Len(kept) \in Nat
    <3>1. sent[n] \in Nat /\ Len(h) \in Nat /\ j \in Nat /\ lo <= j /\ j < sent[n]
      BY <1>3, <2>2
    <3>2. Len(kept) = Len(h) - (j - lo)
      BY <2>6
    <3> HIDE DEF h, kept
    <3> QED BY <3>1, <3>2
  <2>8. ASSUME NEW i \in 1 .. Len(kept) PROVE kept[i] = j + i
    <3>1. i + (j - lo) \in 1 .. Len(h) /\ kept[i] = h[i + (j - lo)] /\ lo + (i + (j - lo)) = j + i
      <4>1. sent[n] \in Nat /\ Len(h) \in Nat /\ j \in Nat /\ lo <= j /\ j < sent[n]
        BY <1>3, <2>2
      <4>2. Len(kept) = sent[n] - j /\ i \in 1 .. Len(kept)
        BY <2>7
      <4>3. i + (j - lo) \in 1 .. Len(h) /\ lo + (i + (j - lo)) = j + i
        <5> HIDE DEF h, kept
        <5> QED BY <4>1, <4>2, KeptIndex
      <4> QED BY <2>6, <4>3
    <3> HIDE DEF h, kept, lo
    <3> QED BY <2>1, <3>1
  <2>9. ASSUME NEW i \in 1 .. Len(kept) PROVE (j + i - 1) % SeqRange = j + i - 1
    <3> HIDE DEF h, kept
    <3>1. j + i - 1 \in Nat /\ j + i - 1 < sent[n]
      BY <1>3, <2>2, <2>7
    <3>2. j + i - 1 \in Seqs
      BY <1>3, <2>1, <3>1, SeqRangePositive DEF Seqs
    <3> QED BY <3>2, ModSmall
  <2>10. /\ Len(more) = Len(kept)
         /\ \A i \in 1 .. Len(kept) : more[i].packet = kept[i] /\ more[i].seq = (j + i - 1) % SeqRange
    <3>1. more = [i \in 1 .. Len(kept) |-> DataFrame("RTX", (j + i - 1) % SeqRange, kept[i])]
      BY DEF Retransmissions
    <3> HIDE DEF kept, more
    <3>2. Len(more) = Len(kept)
      BY <2>7, <3>1
    <3>3. ASSUME NEW i \in 1 .. Len(kept) PROVE more[i].packet = kept[i] /\ more[i].seq = (j + i - 1) % SeqRange
      BY <3>1 DEF DataFrame
    <3> QED BY <3>2, <3>3
  <2> HIDE DEF more, kept
  <2>11. NumberedFrom0(more, sent[n])
    <3> SUFFICES ASSUME NEW i \in 1 .. Len(more)
                 PROVE  more[i].seq = more[i].packet - 1 /\ more[i].packet <= sent[n]
      BY DEF NumberedFrom0
    <3> HIDE DEF h, lo, p
    <3>1. i \in 1 .. Len(kept)
      BY <2>10
    <3>2. kept[i] = j + i /\ (j + i - 1) % SeqRange = j + i - 1
      BY <2>8, <2>9, <3>1
    <3>3. more[i].packet = j + i /\ more[i].seq = j + i - 1
      BY <2>10, <3>1, <3>2
    <3>4. i \in Int /\ i <= sent[n] - j /\ j \in Int /\ sent[n] \in Int
      BY <1>3, <2>7, <3>1
    <3>5. (j + i) - 1 = j + i - 1 /\ j + i <= sent[n]
      BY <3>4
    <3> QED BY <3>3, <3>5
  <2>12. SeqAfter(kept, j) = sent[n]
    <3>1. j + Len(kept) = sent[n]
      BY <1>3, <2>7
    <3> QED BY <2>3, <3>1 DEF SeqAfter
  <2>13. Outgoing(n)'
    <3>1. sent'[n] = sent[n] /\ Len(history'[n]) <= sent'[n] /\ sent'[n] - Len(history'[n]) = j
      <4>1. sent' = sent /\ Len(history'[n]) = sent[n] - j
        BY <1>6, <2>7
      <4>2. sent[n] \in Nat /\ j \in Nat
        BY <1>3
      <4> QED BY <4>1, <4>2
    <3>2. rxSeq'[p] = rxSeq[p] /\ wire'[n] = Tail(wire[n])
      BY <1>5, <1>7
    <3>3. txSeq'[n] = sent'[n] /\ \A i \in 1 .. Len(history'[n]) : history'[n][i] = j + i
      BY <1>6, <2>8, <2>12, <3>1
    <3> HIDE DEF p
    <3> QED BY <2>2, <3>1, <3>2, <3>3 DEF Outgoing, p
  <2> QED BY <2>11, <2>13
<1> HIDE DEF more
<1> QED BY <1>4, <1>5, <1>8, <1>9, <1>10

\* A connected end that answers a NAK, or an end that becomes connected.
LEMMA AnswerKeeps ==
  ASSUME NEW c, OneOpener(c), OneConnectionInv(c), TypeOK', NEW n \in Nodes,
         NEW out \in {<< >>, <<SYN2>>}, NEW more \in Seq(Frames), Turn(n, out \o more),
         \A i \in 1 .. Len(more) : more[i].type = "RTX",
         ~ Over(c, n) /\ ~ Over(c, Peer(n)) => NumberedFrom0(more, sent[n]) /\ Outgoing(n)',
         rxSeq'[n] = rxSeq[n], sent'[n] = sent[n], delivered'[n] = delivered[n], connects'[n] = connects[n],
         connectState[n] # "DISCONNECTED", connectState'[n] = "CONNECTED",
         n # c => ~ Unopened(c) /\ out = << >>,
         out = <<SYN2>> => delivered[n] = << >>
  PROVE  OneKept(c)
<1> DEFINE s == Peer(c)
           p == Peer(n)
           both == out \o more
<1>0. /\ c \in Nodes /\ s \in Nodes /\ p \in Nodes /\ Peer(s) = c /\ Peer(p) = n
      /\ n = c \/ n = s
  BY TwoNodes DEF OneOpener
<1>1. /\ TypeOK /\ Roles(c) /\ Prefix(n) /\ Prefix(p)
      /\ ~ Over(c, n) => Incoming(n)
      /\ ~ Over(c, p) => Incoming(p)
  BY <1>0 DEF OneConnectionInv
<1>2. /\ ~ Over(c, n) /\ ~ Over(c, n)'
  BY DEF Over
<1>3. /\ wire[n] \in Seq(Frames) /\ wire[p] \in Seq(Frames) /\ sent[n] \in Nat /\ rxSeq[n] \in Nat
  BY <1>0, <1>1, OneTypes
<1>4. /\ out \in Seq(Frames) /\ both \in Seq(Frames)
      /\ \A f : In(both, f) <=> In(out, f) \/ In(more, f)
      /\ \A i \in 1 .. Len(both) : (\E k \in 1 .. Len(out) : both[i] = out[k]) \/ \E k \in 1 .. Len(more) : both[i] = more[k]
  <2>1. out \in Seq(Frames)
    <3>1. << >> \in Seq(Frames) /\ <<SYN2>> \in Seq(Frames)
      BY FramesMade
    <3> QED BY <3>1
  <2>2. both \in Seq(Frames)
    BY <2>1
  <2>3. \A i \in 1 .. Len(both) : (i \in 1 .. Len(out) /\ both[i] = out[i]) \/ \E k \in 1 .. Len(more) : both[i] = more[k]
    BY <2>1, CatHas
  <2>4. \A f : In(both, f) <=> In(out, f) \/ In(more, f)
    BY <2>1, CatHas
  <2> HIDE DEF both
  <2> QED BY <2>1, <2>2, <2>3, <2>4
<1>5. /\ \A i \in 1 .. Len(out) : out[i].type = "SYN"
      /\ \A k : NumberedFrom0(out, k)
  <2>1. CASE out = << >>
    BY <2>1, OneReply
  <2>2. CASE out = <<SYN2>>
    BY <2>2, OneReply, NoData, SYNsDiffer
  <2> QED BY <2>1, <2>2
<1>6. /\ ~ In(both, SYN0) /\ ~ In(both, SYN1) /\ (In(both, SYN2) => out = <<SYN2>>)
      /\ \A i \in 1 .. Len(both) : both[i].type # "NAK"
  <2>1. \A f : In(more, f) => f.type = "RTX"
    BY DEF In
  <2>2. ~ In(out, SYN0) /\ ~ In(out, SYN1) /\ (In(out, SYN2) => out = <<SYN2>>)
    BY ShortWires, SYNsDiffer
  <2>3. \A i \in 1 .. Len(both) : both[i].type \in {"SYN", "RTX"}
    BY <1>4, <1>5
  <2> QED BY <1>4, <2>1, <2>2, <2>3, SYNsDiffer
<1>7. /\ connects'[c] = connects[c]
      /\ wire'[n] \in AfterReceiverReset(wire[n])
      /\ wire'[p] = wire[p] \o both
      /\ delivered'[p] = delivered[p] /\ sent'[p] = sent[p]
  BY <1>0 DEF Turn
<1> HIDE DEF both
<1>8. Turn(n, both)
  BY DEF both
<1>9. /\ \A f \in {SYN0, SYN1, SYN2} : In(wire'[n], f) => In(wire[n], f)
      /\ \A f : In(wire'[p], f) <=> In(wire[p], f) \/ In(both, f)
  BY <1>1, <1>4, <1>8, TurnWires
<1>10. Unopened(c)' => Unopened(c)
  <2>1. CASE n = c
    <3>1. In(wire'[s], SYN0) => In(wire[s], SYN0)
      BY <1>6, <1>9, <2>1
    <3> QED BY <1>7, <2>1, <3>1 DEF Unopened
  <2>2. CASE n = s
    BY <1>0, <1>1, <1>4, <1>8, <2>2, PeerUnopened
  <2> QED BY <1>0, <2>1, <2>2
<1>11. Roles(c)'
  <2>1. CASE n = c
    <3>1. connects[c] # 0 /\ (In(wire[c], SYN1) => delivered[c] = << >>)
      BY <1>1, <2>1 DEF Roles
    <3>2. In(wire'[c], SYN1) => delivered'[c] = << >>
      BY <1>9, <2>1, <3>1
    <3> QED BY <1>0, <1>1, <1>4, <1>6, <1>7, <1>8, <1>10, <2>1, <3>1, <3>2, OpenerRoles
  <2>2. CASE n = s
    <3>1. connects[c] # 0 /\ ~ Unopened(c)' /\ ~ In(both, SYN2)
      <4>1. ~ Unopened(c) /\ out = << >>
        BY <1>0, <2>2, TwoNodes
      <4> QED BY <1>6, <1>10, <4>1 DEF Unopened
    <3> QED BY <1>0, <1>1, <1>4, <1>6, <1>8, <2>2, <3>1, PeerRoles
  <2> QED BY <1>0, <2>1, <2>2
<1>12. Prefix(n)' /\ sent[n] <= sent'[n]
  BY <1>1, <1>3, <1>7 DEF Prefix
<1>13. rxSeq'[n] = Len(delivered'[n])
  BY <1>1, <1>2 DEF Incoming
<1>14. ~ Over(c, p) => Opened(wire[p] \o both) /\ NumberedFrom0(both, sent'[n])
  <2> SUFFICES ASSUME ~ Over(c, p) PROVE Opened(wire[p] \o both) /\ NumberedFrom0(both, sent'[n])
    OBVIOUS
  <2>1. Opened(wire[p] \o both)
    BY <1>1, <1>3, <1>4, <1>6, OpenedCat DEF Incoming
  <2>2. NumberedFrom0(both, sent[n])
    BY <1>2, <1>3, <1>4, <1>5, NumberedCat DEF both
  <2> QED BY <2>1, <2>2
<1>15. ~ Over(c, p) =>
         /\ Outgoing(n)' /\ rxSeq[n] <= rxSeq'[n]
         /\ \A i \in 1 .. Len(both) : both[i].type # "NAK"
         /\ In(both, SYN1) \/ In(both, SYN2) => rxSeq'[n] = 0
  <2>1. out = <<SYN2>> => rxSeq'[n] = 0
    <3> SUFFICES ASSUME out = <<SYN2>> PROVE rxSeq'[n] = 0
      OBVIOUS
    <3>1. delivered'[n] = << >>
      OBVIOUS
    <3> QED BY <1>13, <3>1
  <2> QED BY <1>2, <1>3, <1>6, <2>1
<1> QED BY <1>0, <1>2, <1>4, <1>8, <1>10, <1>11, <1>12, <1>13, <1>14, <1>15, TurnKeeps

-----------------------------------------------------------------------------
\* sfpHandleSYN1 and sfpHandleSYN2 retransmit the whole history or nothing.
LEMMA BecomeConnectedKeeps ==
  ASSUME NEW c, OneOpener(c), OneConnectionInv(c), TypeOK', NEW n \in Nodes, NEW out \in {<< >>, <<SYN2>>},
         wire[n] # << >>, BecomeConnected(n, out), connectState[n] # "DISCONNECTED",
         In(wire[n], SYN1) \/ In(wire[n], SYN2),
         n # c => ~ Unopened(c) /\ out = << >>,
         out = <<SYN2>> => delivered[n] = << >>
  PROVE  OneKept(c)
<1> DEFINE p == Peer(n)
<1>1. p \in Nodes /\ p # n
  BY TwoNodes
<1>2. TypeOK /\ (~ Over(c, n) /\ ~ Over(c, p) => Outgoing(n))
  BY DEF OneConnectionInv
<1>3. /\ wire[n] \in Seq(Frames) /\ wire[p] \in Seq(Frames) /\ sent[n] \in Nat
      /\ Len(history[n]) \in Nat /\ connectState \in [Nodes -> ConnectStates] /\ wire \in [Nodes -> Seq(Frames)]
  BY <1>1, <1>2, OneTypes DEF TypeOK
<1>4. /\ connectState'[n] = "CONNECTED" /\ connectState'[p] = connectState[p]
      /\ UNCHANGED <<sent, delivered, connects>>
  BY <1>1, <1>3 DEF BecomeConnected, Enter, users, budget
<1>5. ASSUME ~ Over(c, n), ~ Over(c, p) PROVE sent[n] - Len(history[n]) = 0 /\ Requests(Tail(wire[n]), 0, rxSeq[p])
  <2>1. Requests(wire[n], sent[n] - Len(history[n]), rxSeq[p])
    BY <1>2, <1>5 DEF Outgoing
  <2>2. sent[n] - Len(history[n]) = 0
    BY <2>1 DEF Requests
  <2>3. Tail(wire[n]) \in AfterReceiverReset(wire[n])
    BY <1>3, FirstFrame
  <2>4. Requests(Tail(wire[n]), sent[n] - Len(history[n]), rxSeq[p])
    BY <1>3, <2>1, <2>3, CutKeeps
  <2> QED BY <2>2, <2>4
<1>6. out \in Seq(Frames)
  <2>1. << >> \in Seq(Frames) /\ <<SYN2>> \in Seq(Frames)
    BY FramesMade
  <2> QED BY <2>1
<1>7. \E more \in Seq(Frames) :
        /\ Turn(n, out \o more) /\ rxSeq'[n] = rxSeq[n]
        /\ \A i \in 1 .. Len(more) : more[i].type = "RTX"
        /\ ~ Over(c, n) /\ ~ Over(c, p) => NumberedFrom0(more, sent[n]) /\ Outgoing(n)'
  <2>1. CASE txSeq[n] = InitialSeq
    <3>1. Consume(n, out) /\ UNCHANGED numbers
      BY <2>1 DEF BecomeConnected
    <3>2. wire'[n] = Tail(wire[n]) /\ wire'[p] = wire[p] \o out
      BY <1>3, <1>6, <3>1, ConsumeWires
    <3>3. out \o << >> = out /\ << >> \in Seq(Frames)
      BY <1>6
    <3>4. Turn(n, out \o << >>)
      <4>1. wire'[n] \in AfterReceiverReset(wire[n])
        BY <1>3, <3>2, FirstFrame
      <4> QED BY <1>4, <3>1, <3>2, <3>3, <4>1 DEF Turn, numbers
    <3>5. ~ Over(c, n) /\ ~ Over(c, p) => Outgoing(n)'
      <4> SUFFICES ASSUME ~ Over(c, n), ~ Over(c, p) PROVE Outgoing(n)'
        OBVIOUS
      <4>1. Outgoing(n) /\ Requests(wire'[n], sent[n] - Len(history[n]), rxSeq[p])
        BY <1>2, <1>5, <3>2
      <4> QED BY <1>4, <3>1, <4>1 DEF Outgoing, numbers
    <3>6. NumberedFrom0(<< >>, sent[n]) /\ \A i \in 1 .. Len(<< >>) : << >>[i].type = "RTX"
      BY OneReply
    <3>7. rxSeq'[n] = rxSeq[n]
      BY <3>1 DEF numbers
    <3> QED BY <3>3, <3>4, <3>5, <3>6, <3>7
  <2>2. CASE txSeq[n] # InitialSeq
    <3>1. ConsumeAndTransmitHistoryFrom(n, out, InitialSeq)
      BY <2>2 DEF BecomeConnected
    <3>2. InitialSeq = 0 /\ InitialSeq \in Seqs
      BY InitialSeqInRange DEF InitialSeq
    <3>3. ~ Over(c, n) /\ ~ Over(c, p) =>
            /\ sent[n] - Len(history[n]) <= InitialSeq /\ InitialSeq < sent[n]
            /\ Requests(Tail(wire[n]), InitialSeq, rxSeq[p])
      <4> SUFFICES ASSUME ~ Over(c, n), ~ Over(c, p)
                   PROVE  /\ sent[n] - Len(history[n]) <= InitialSeq /\ InitialSeq < sent[n]
                          /\ Requests(Tail(wire[n]), InitialSeq, rxSeq[p])
        OBVIOUS
      <4>1. txSeq[n] = sent[n]
        BY <1>2 DEF Outgoing
      <4>2. sent[n] - Len(history[n]) = 0 /\ Requests(Tail(wire[n]), 0, rxSeq[p])
        BY <1>5
      <4> HIDE DEF p
      <4>3. 0 < sent[n]
        BY <1>3, <2>2, <3>2, <4>1
      <4> QED BY <3>2, <4>2, <4>3
    <3> QED BY <1>4, <1>6, <3>1, <3>2, <3>3, Resends
  <2> QED BY <2>1, <2>2
<1> HIDE DEF p
<1>8. PICK more \in Seq(Frames) :
        /\ Turn(n, out \o more) /\ rxSeq'[n] = rxSeq[n]
        /\ \A i \in 1 .. Len(more) : more[i].type = "RTX"
        /\ ~ Over(c, n) /\ ~ Over(c, p) => NumberedFrom0(more, sent[n]) /\ Outgoing(n)'
  BY <1>7
<1> QED BY <1>4, <1>8, AnswerKeeps DEF p

\* The peer's SYN1 reaches the end that has sent SYN0.
LEMMA SYN1Keeps ==
  ASSUME NEW c, OneOpener(c), OneConnectionInv(c), TypeOK', NEW n \in Nodes, HandleSYN1(n)
  PROVE  OneKept(c)
<1>1. /\ wire[n] # << >> /\ Head(wire[n]) = SYN1 /\ connectState[n] # "DISCONNECTED" /\ BecomeConnected(n, <<SYN2>>)
  BY DEF HandleSYN1, ArrivesSYN
<1>2. TypeOK /\ Roles(c) /\ c \in Nodes
  BY DEF OneConnectionInv, OneOpener
<1>3. In(wire[n], SYN1)
  BY <1>1, <1>2, FirstFrame DEF TypeOK
<1>4. n = c /\ delivered[n] = << >>
  BY <1>2, <1>3, TwoNodes DEF Roles
<1> QED BY <1>1, <1>3, <1>4, BecomeConnectedKeeps

\* The SYN2 reaches the end that has answered.
LEMMA SYN2Keeps ==
  ASSUME NEW c, OneOpener(c), OneConnectionInv(c), TypeOK', NEW n \in Nodes, HandleSYN2(n)
  PROVE  OneKept(c)
<1>1. /\ wire[n] # << >> /\ Head(wire[n]) = SYN2 /\ connectState[n] # "DISCONNECTED" /\ BecomeConnected(n, << >>)
  BY DEF HandleSYN2, ArrivesSYN
<1>2. TypeOK /\ Roles(c) /\ c \in Nodes /\ (~ Over(c, n) => Incoming(n))
  BY DEF OneConnectionInv, OneOpener
<1>3. In(wire[n], SYN2) /\ wire[n] \in Seq(Frames)
  BY <1>1, <1>2, FirstFrame DEF TypeOK
<1>4. n = Peer(c) /\ n # c
  BY <1>2, <1>3, TwoNodes DEF Roles
<1>5. ~ In(wire[n], SYN0)
  BY <1>1, <1>2, <1>3, FirstFrame DEF Incoming, Over
<1>6. ~ Unopened(c)
  BY <1>2, <1>3, <1>4, <1>5 DEF Unopened, Roles
<1>7. << >> # <<SYN2>>
  OBVIOUS
<1> QED BY <1>1, <1>3, <1>4, <1>6, <1>7, BecomeConnectedKeeps

\* sfpHandleNAK of a connected end: what is asked for is in the history.
LEMMA AnswerNAKKeeps ==
  ASSUME NEW c, OneOpener(c), OneConnectionInv(c), TypeOK', NEW n \in Nodes, AnswerNAK(n)
  PROVE  OneKept(c)
<1> DEFINE p == Peer(n)
           j == Head(wire[n]).seq
<1>1. /\ wire[n] # << >> /\ Head(wire[n]).type = "NAK" /\ connectState[n] = "CONNECTED"
      /\ j # txSeq[n] /\ ConsumeAndTransmitHistoryFrom(n, << >>, j)
      /\ UNCHANGED <<connectState, sent, delivered, connects>>
  BY DEF AnswerNAK, Arrives, users, budget
<1>2. /\ TypeOK /\ Roles(c) /\ c \in Nodes /\ p \in Nodes /\ Peer(p) = n /\ (n = c \/ n = Peer(c))
      /\ Prefix(p) /\ (~ Over(c, p) => Incoming(p)) /\ (~ Over(c, n) /\ ~ Over(c, p) => Outgoing(n))
  BY TwoNodes DEF OneConnectionInv, OneOpener
<1>3. j \in Seqs /\ j \in Nat /\ wire[n] \in Seq(Frames) /\ rxSeq[p] \in Nat /\ sent[n] \in Nat
  <2>1. j \in Seqs
    BY <1>1, <1>2, ArrivingFrame DEF TypeOK
  <2>2. Seqs \subseteq Nat
    BY DEF Seqs
  <2> QED BY <1>2, <2>1, <2>2, OneTypes
<1>4. ~ Over(c, n) /\ ~ Over(c, p) =>
        /\ sent[n] - Len(history[n]) <= j /\ j < sent[n]
        /\ Requests(Tail(wire[n]), j, rxSeq[p])
  <2> SUFFICES ASSUME ~ Over(c, n), ~ Over(c, p)
               PROVE  /\ sent[n] - Len(history[n]) <= j /\ j < sent[n]
                      /\ Requests(Tail(wire[n]), j, rxSeq[p])
    OBVIOUS
  <2>1. /\ Requests(wire[n], sent[n] - Len(history[n]), rxSeq[p]) /\ txSeq[n] = sent[n]
        /\ rxSeq[p] = Len(delivered[p])
    BY <1>2 DEF Outgoing, Incoming
  <2>2. sent[n] - Len(history[n]) <= j /\ j <= rxSeq[p] /\ Requests(Tail(wire[n]), j, rxSeq[p])
    BY <1>1, <1>3, <2>1, FirstFrame
  <2>3. rxSeq[p] <= sent[n]
    BY <1>2, <2>1 DEF Prefix
  <2>4. j < sent[n]
    BY <1>1, <1>3, <2>1, <2>2, <2>3
  <2> QED BY <2>2, <2>4
<1>5. << >> \in Seq(Frames) /\ << >> # <<SYN2>>
  OBVIOUS
<1>6. \E more \in Seq(Frames) :
        /\ Turn(n, << >> \o more) /\ rxSeq'[n] = rxSeq[n]
        /\ \A i \in 1 .. Len(more) : more[i].type = "RTX"
        /\ ~ Over(c, n) /\ ~ Over(c, p) => NumberedFrom0(more, sent[n]) /\ Outgoing(n)'
  <2> HIDE DEF j
  <2> QED BY <1>1, <1>3, <1>4, <1>5, Resends
<1> HIDE DEF p, j
<1>7. PICK more \in Seq(Frames) :
        /\ Turn(n, << >> \o more) /\ rxSeq'[n] = rxSeq[n]
        /\ \A i \in 1 .. Len(more) : more[i].type = "RTX"
        /\ ~ Over(c, n) /\ ~ Over(c, p) => NumberedFrom0(more, sent[n]) /\ Outgoing(n)'
  BY <1>6
<1>8. n # c => ~ Unopened(c)
  BY <1>1, <1>2 DEF Roles
<1> QED BY <1>1, <1>5, <1>7, <1>8, AnswerKeeps DEF p

-----------------------------------------------------------------------------
\* A frame is consumed: that is half a turn.
LEMMA TurnTaken ==
  ASSUME TypeOK, NEW n \in Nodes, wire[n] # << >>, NEW out \in Seq(Frames), Consume(n, out)
  PROVE  wire'[n] \in AfterReceiverReset(wire[n]) /\ wire'[Peer(n)] = wire[Peer(n)] \o out
<1>1. wire \in [Nodes -> Seq(Frames)]
  BY DEF TypeOK
<1>2. wire'[n] = Tail(wire[n]) /\ wire'[Peer(n)] = wire[Peer(n)] \o out
  BY <1>1, ConsumeWires
<1> QED BY <1>1, <1>2, FirstFrame

\* The call changes nothing of the other end.
LEMMA OwnNumbers ==
  ASSUME TypeOK, NEW n \in Nodes
  PROVE  /\ Peer(n) \in Nodes /\ Peer(n) # n
         /\ \A t : Enter(n, t) => connectState'[n] = t /\ connectState'[Peer(n)] = connectState[Peer(n)]
         /\ ResetNumbers(n) =>
              /\ rxSeq'[n] = 0 /\ txSeq'[n] = 0 /\ history'[n] = << >>
              /\ rxSeq'[Peer(n)] = rxSeq[Peer(n)] /\ txSeq'[Peer(n)] = txSeq[Peer(n)]
              /\ history'[Peer(n)] = history[Peer(n)]
  BY TwoNodes DEF TypeOK, Enter, ResetNumbers, InitialSeq

\* sfpHandleDIS, the replies, and the faults of the medium.
LEMMA ReplyStepsKeep ==
  ASSUME NEW c, OneOpener(c), OneConnectionInv(c), TypeOK', NEW n \in Nodes,
         \/ HandleDIS(n) \/ SYNWhileDisconnected(n) \/ RebuffFrame(n) \/ IgnoreNAK(n)
         \/ RejectOutOfOrder(n) \/ IgnoreRetransmission(n) \/ RejectRemnant(n) \/ Fault(n)
  PROVE  OneKept(c)
<1> DEFINE p == Peer(n)
<1>1. /\ TypeOK /\ Roles(c) /\ c \in Nodes /\ p \in Nodes /\ p # n /\ (n = c \/ n = Peer(c))
      /\ connectState[n] \in ConnectStates /\ rxSeq[n] \in Seqs
      /\ wire \in [Nodes -> Seq(Frames)] /\ connectState \in [Nodes -> ConnectStates]
  BY TwoNodes DEF OneConnectionInv, OneOpener, TypeOK
<1>2. UNCHANGED <<rxSeq, txSeq, history, sent, delivered, connects>>
  BY DEF HandleDIS, SYNWhileDisconnected, RebuffFrame, IgnoreNAK, RejectOutOfOrder, IgnoreRetransmission,
     RejectRemnant, Fault, numbers, users, budget
<1>3. /\ connectState'[n] \in {connectState[n], "DISCONNECTED"} /\ connectState'[p] = connectState[p]
      /\ ~ HandleDIS(n) => connectState'[n] = connectState[n]
  <2>1. HandleDIS(n) => Enter(n, "DISCONNECTED")
    BY DEF HandleDIS
  <2>2. HandleDIS(n) \/ connectState' = connectState
    BY DEF SYNWhileDisconnected, RebuffFrame, IgnoreNAK, RejectOutOfOrder, IgnoreRetransmission, RejectRemnant, Fault
  <2> QED BY <1>1, <2>1, <2>2, OwnNumbers
<1>4. /\ << >> \in Seq(Frames) /\ <<SYN0>> \in Seq(Frames) /\ <<SYN1>> \in Seq(Frames)
      /\ <<DIS>> \in Seq(Frames) /\ <<NAK(rxSeq[n])>> \in Seq(Frames) /\ NAK(rxSeq[n]) \in Frames
  BY <1>1, FramesMade
<1> DEFINE Answer(out) ==
             \/ out \in {<< >>, <<DIS>>, <<NAK(rxSeq'[n])>>}
             \/ out = <<SYN0>> /\ connectState[n] = "SENT_SYN0" /\ connectState'[n] = "SENT_SYN0"
             \/ out = <<SYN1>> /\ connectState[n] = "SENT_SYN1" /\ connectState'[n] = "SENT_SYN1"
<1>5. \E out \in Seq(Frames) :
        /\ wire'[n] \in AfterReceiverReset(wire[n]) /\ wire'[p] = wire[p] \o out
        /\ Answer(out)
  <2>1. CASE HandleDIS(n) \/ IgnoreNAK(n) \/ IgnoreRetransmission(n)
    <3>1. wire[n] # << >> /\ Consume(n, << >>)
      BY <2>1 DEF HandleDIS, IgnoreNAK, IgnoreRetransmission, Arrives, ArrivesSYN
    <3>2. Answer(<< >>)
      OBVIOUS
    <3> HIDE DEF Answer
    <3> QED BY <1>1, <1>4, <3>1, <3>2, TurnTaken
  <2>2. CASE SYNWhileDisconnected(n)
    <3>1. wire[n] # << >> /\ Consume(n, <<DIS>>)
      BY <2>2 DEF SYNWhileDisconnected, ArrivesSYN
    <3>2. Answer(<<DIS>>)
      OBVIOUS
    <3> HIDE DEF Answer
    <3> QED BY <1>1, <1>4, <3>1, <3>2, TurnTaken
  <2>3. CASE RejectOutOfOrder(n) \/ RejectRemnant(n)
    <3>1. wire[n] # << >> /\ Consume(n, <<NAK(rxSeq[n])>>)
      BY <2>3 DEF RejectOutOfOrder, RejectRemnant, Arrives
    <3>2. Answer(<<NAK(rxSeq[n])>>)
      BY <1>2
    <3> HIDE DEF Answer
    <3> QED BY <1>1, <1>4, <3>1, <3>2, TurnTaken
  <2>4. CASE RebuffFrame(n)
    <3>1. wire[n] # << >> /\ Consume(n, <<Rebuff(connectState[n])>>) /\ connectState[n] # "CONNECTED"
          /\ connectState' = connectState
      BY <2>4 DEF RebuffFrame, Arrives
    <3>2. \/ connectState[n] = "DISCONNECTED" /\ Rebuff(connectState[n]) = DIS
          \/ connectState[n] = "SENT_SYN0" /\ Rebuff(connectState[n]) = SYN0
          \/ connectState[n] = "SENT_SYN1" /\ Rebuff(connectState[n]) = SYN1
      BY <1>1, <3>1 DEF Rebuff, ConnectStates
    <3>3. Answer(<<Rebuff(connectState[n])>>) /\ <<Rebuff(connectState[n])>> \in Seq(Frames)
      BY <1>4, <3>1, <3>2
    <3> HIDE DEF Answer
    <3> QED BY <1>1, <3>1, <3>3, TurnTaken
  <2>5. CASE Fault(n)
    <3>1. CASE wire[n] # << >> /\ Consume(n, << >>)
      <4>1. Answer(<< >>)
        OBVIOUS
      <4> HIDE DEF Answer
      <4> QED BY <1>1, <1>4, <3>1, <4>1, TurnTaken
    <3>2. Answer(<<NAK(rxSeq[n])>>)
      BY <1>2
    <3>3. CASE wire[n] # << >> /\ Consume(n, <<NAK(rxSeq[n])>>)
      <4> HIDE DEF Answer
      <4> QED BY <1>1, <1>4, <3>2, <3>3, TurnTaken
    <3>4. CASE wire' = [wire EXCEPT ![p] = Append(@, NAK(rxSeq[n]))]
      <4>1. wire'[n] = wire[n] /\ wire'[p] = Append(wire[p], NAK(rxSeq[n]))
        BY <1>1, <3>4
      <4>2. wire[p] \in Seq(Frames)
        BY <1>1
      <4>3. wire'[p] = wire[p] \o <<NAK(rxSeq[n])>>
        <5> HIDE DEF p
        <5> QED BY <1>4, <4>1, <4>2
      <4>4. wire'[n] \in AfterReceiverReset(wire[n])
        BY <4>1 DEF AfterReceiverReset
      <4> HIDE DEF Answer
      <4> QED BY <1>4, <3>2, <4>3, <4>4
    <3> QED BY <2>5, <3>1, <3>3, <3>4 DEF Fault
  <2> QED BY <2>1, <2>2, <2>3, <2>4, <2>5
<1>6. PICK out \in Seq(Frames) :
        /\ wire'[n] \in AfterReceiverReset(wire[n]) /\ wire'[p] = wire[p] \o out
        /\ Answer(out)
  BY <1>5
<1>7. Turn(n, out)
  BY <1>2, <1>3, <1>6 DEF Turn
<1> QED BY <1>2, <1>3, <1>6, <1>7, ReplyKeeps

\* sfpInit.
LEMMA ReinitKeeps ==
  ASSUME NEW c, OneOpener(c), OneConnectionInv(c), TypeOK', NEW n \in Nodes, Reinit(n)
  PROVE  OneKept(c)
<1> DEFINE p == Peer(n)
<1>1. /\ TypeOK /\ p \in Nodes /\ p # n
      /\ wire \in [Nodes -> Seq(Frames)] /\ rxSeq \in [Nodes -> Seqs] /\ txSeq \in [Nodes -> Seqs]
  BY TwoNodes DEF OneConnectionInv, TypeOK
<1>2. /\ connectState'[n] = "DISCONNECTED" /\ connectState'[p] = connectState[p]
      /\ UNCHANGED <<history, sent, delivered, connects>>
  BY <1>1, OwnNumbers DEF Reinit
<1>3. /\ rxSeq'[n] = 0 /\ txSeq'[n] = 0 /\ rxSeq'[p] = rxSeq[p] /\ txSeq'[p] = txSeq[p]
  BY <1>1 DEF Reinit, InitialSeq
<1>4. PICK w \in AfterReceiverReset(wire[n]) : wire' = [wire EXCEPT ![n] = w]
  BY DEF Reinit
<1>5. wire'[n] = w /\ wire'[p] = wire[p]
  BY <1>1, <1>4
<1>6. wire[p] \o << >> = wire[p] /\ << >> \in Seq(Frames)
  BY <1>1
<1>7. Turn(n, << >>)
  BY <1>2, <1>3, <1>5, <1>6 DEF Turn
<1> QED BY <1>2, <1>3, <1>6, <1>7, ReplyKeeps

-----------------------------------------------------------------------------
\* sfpConnect or sfpHandleSYN0 by an end that has neither written nor received anything.
LEMMA FreshStart ==
  ASSUME NEW c, OneConnectionInv(c), NEW n \in Nodes, NEW out \in Seq(Frames), Turn(n, out),
         sent[n] = 0, delivered[n] = << >>, ~ Over(c, n),
         ResetNumbers(n), UNCHANGED <<sent, delivered>>
  PROVE  /\ rxSeq'[n] = 0 /\ rxSeq'[n] = Len(delivered'[n]) /\ Prefix(n)' /\ sent[n] <= sent'[n]
         /\ ~ Over(c, Peer(n)) => Outgoing(n)' /\ rxSeq[n] <= rxSeq'[n]
<1> DEFINE p == Peer(n)
<1>1. TypeOK /\ p \in Nodes /\ Peer(p) = n /\ Prefix(n) /\ Incoming(n) /\ (~ Over(c, p) => Outgoing(n))
  BY TwoNodes DEF OneConnectionInv
<1>2. /\ wire[n] \in Seq(Frames) /\ rxSeq[n] \in Nat /\ Len(history[n]) \in Nat /\ sent[p] \in Nat
  BY <1>1, OneTypes
<1>3. rxSeq'[n] = 0 /\ txSeq'[n] = 0 /\ history'[n] = << >>
  BY <1>1, OwnNumbers
<1>4. rxSeq'[p] = rxSeq[p] /\ wire'[n] \in AfterReceiverReset(wire[n])
  BY DEF Turn
<1> HIDE DEF p
<1>5. rxSeq[n] = 0 /\ rxSeq'[n] = Len(delivered'[n])
  BY <1>1, <1>3 DEF Incoming
<1>6. Prefix(n)' /\ sent[n] <= sent'[n]
  BY <1>1, <1>2 DEF Prefix
<1>7. ASSUME ~ Over(c, p) PROVE Outgoing(n)'
  <2>1. Requests(wire[n], 0, rxSeq[p])
    <3>1. Len(history[n]) = 0 /\ sent[n] - Len(history[n]) = 0
      BY <1>1, <1>2, <1>7 DEF Outgoing
    <3> QED BY <1>1, <1>7, <3>1 DEF Outgoing, p
  <2>2. Requests(wire'[n], 0, rxSeq'[p])
    BY <1>2, <1>4, <2>1, CutKeeps
  <2>3. Len(history'[n]) = 0 /\ sent'[n] = 0 /\ sent'[n] - Len(history'[n]) = 0
    BY <1>3
  <2> QED BY <1>3, <2>2, <2>3 DEF Outgoing, p
<1> QED BY <1>3, <1>5, <1>6, <1>7 DEF p

\* sfpConnect: nothing has been written or delivered before.
LEMMA ConnectKeeps ==
  ASSUME NEW c, OneOpener(c), OneConnectionInv(c), TypeOK', NEW n \in Nodes, Connect(n)
  PROVE  OneKept(c)
<1> DEFINE s == Peer(c)
<1>1. /\ TypeOK /\ Roles(c) /\ c \in Nodes /\ s \in Nodes /\ s # c /\ Peer(s) = c
      /\ wire \in [Nodes -> Seq(Frames)] /\ connects \in [Nodes -> 0 .. MaxConnects]
  BY TwoNodes DEF OneConnectionInv, OneOpener, TypeOK
<1>2. n = c /\ connects[c] = 0 /\ connects'[c] # 0 /\ connects'[s] = connects[s]
  <2>1. n = c /\ connects[c] < MaxConnects /\ MaxConnects <= 1 /\ connects' = [connects EXCEPT ![c] = @ + 1]
    BY DEF Connect, OneOpener
  <2>2. connects[c] \in Nat /\ MaxConnects \in Nat
    BY <1>1, OneTypes, BoundsAssumption
  <2>3. connects[c] = 0
    BY <2>1, <2>2
  <2>4. connects'[c] = connects[c] + 1 /\ connects'[s] = connects[s]
    BY <1>1, <2>1
  <2> QED BY <2>1, <2>3, <2>4
<1>3. ResetNumbers(c) /\ Enter(c, "SENT_SYN0") /\ UNCHANGED <<sent, delivered>>
  BY <1>2 DEF Connect
<1>4. PICK w \in AfterReceiverReset(wire[c]) : wire' = [wire EXCEPT ![c] = w, ![s] = Append(@, SYN0)]
  BY <1>2 DEF Connect
<1>5. wire[c] \in Seq(Frames) /\ wire[s] \in Seq(Frames) /\ w \in Seq(Frames) /\ SYN0 \in Frames /\ <<SYN0>> \in Seq(Frames)
  BY <1>1, ResetWire, FramesMade
<1>6. wire'[c] = w /\ wire'[s] = wire[s] \o <<SYN0>>
  <2>1. wire'[c] = w /\ wire'[s] = Append(wire[s], SYN0)
    BY <1>1, <1>4, <1>5, SendWires
  <2> HIDE DEF s
  <2> QED BY <1>5, <2>1
<1>7. connectState'[c] = "SENT_SYN0" /\ connectState'[s] = connectState[s]
  BY <1>1, <1>3, OwnNumbers
<1>8. Turn(c, <<SYN0>>)
  BY <1>1, <1>2, <1>3, <1>6, <1>7, OwnNumbers DEF Turn
<1>9. /\ Unopened(c) /\ sent[s] = 0 /\ delivered[c] = << >> /\ sent[c] = 0 /\ ~ In(wire[s], SYN2)
      /\ ~ Over(c, c) /\ ~ Over(c, s)
  <2>1. /\ Unopened(c) /\ sent[s] = 0 /\ delivered[c] = << >> /\ sent[c] = 0 /\ ~ In(wire[s], SYN2)
    BY <1>1, <1>2, BeforeOpening DEF Unopened
  <2> QED BY <1>1, <1>2, <2>1 DEF Over
<1>10. /\ ~ In(<<SYN0>>, SYN1) /\ ~ In(<<SYN0>>, SYN2)
       /\ Len(<<SYN0>>) <= 1 /\ NumberedFrom0(<<SYN0>>, sent'[c])
       /\ \A i \in 1 .. Len(<<SYN0>>) : <<SYN0>>[i].type # "NAK"
  BY ShortWires, SYNsDiffer, OneReply, NoData
<1> HIDE DEF s
<1>11. Roles(c)'
  <2>1. In(wire'[c], SYN1) => delivered'[c] = << >>
    BY <1>3, <1>9
  <2> QED BY <1>1, <1>2, <1>3, <1>5, <1>7, <1>8, <1>9, <1>10, <2>1, OpenerRoles DEF s
<1>12. Opened(wire[s] \o <<SYN0>>)
  <2>1. Opened(wire[s])
    BY <1>1, <1>9 DEF OneConnectionInv, Incoming
  <2>2. DataFree(wire[s])
    BY <1>1, <1>9, NothingSent DEF s
  <2> QED BY <1>5, <1>9, <1>10, <2>1, <2>2, OpenedCat
<1>13. /\ rxSeq'[c] = 0 /\ rxSeq'[c] = Len(delivered'[c]) /\ Prefix(c)' /\ sent[c] <= sent'[c]
       /\ ~ Over(c, s) => Outgoing(c)' /\ rxSeq[c] <= rxSeq'[c]
  BY <1>1, <1>3, <1>5, <1>8, <1>9, FreshStart DEF s
<1> QED BY <1>1, <1>2, <1>5, <1>8, <1>9, <1>10, <1>11, <1>12, <1>13, TurnKeeps DEF s

\* sfpHandleSYN0: the other end has not written or received anything.
LEMMA SYN0Keeps ==
  ASSUME NEW c, OneOpener(c), OneConnectionInv(c), TypeOK', NEW n \in Nodes, HandleSYN0(n)
  PROVE  OneKept(c)
<1> DEFINE s == Peer(c)
<1>1. /\ TypeOK /\ Roles(c) /\ c \in Nodes /\ s \in Nodes /\ s # c /\ Peer(s) = c
  BY TwoNodes DEF OneConnectionInv, OneOpener
<1>2. /\ wire[n] # << >> /\ Head(wire[n]) = SYN0 /\ ResetNumbers(n) /\ Consume(n, <<SYN1>>) /\ Enter(n, "SENT_SYN1")
      /\ UNCHANGED <<sent, delivered, connects>>
  BY DEF HandleSYN0, ArrivesSYN, budget
<1>3. In(wire[n], SYN0)
  BY <1>1, <1>2, FirstFrame DEF TypeOK
<1>4. n = s
  BY <1>1, <1>3, TwoNodes DEF Roles
<1>5. <<SYN1>> \in Seq(Frames)
  BY FramesMade
<1>6. wire'[s] \in AfterReceiverReset(wire[s]) /\ wire'[c] = wire[c] \o <<SYN1>> /\ wire[c] \in Seq(Frames)
  BY <1>1, <1>2, <1>4, <1>5, TurnTaken DEF TypeOK
<1>7. connectState'[s] = "SENT_SYN1" /\ connectState'[c] = connectState[c]
  BY <1>1, <1>2, <1>4, OwnNumbers
<1>8. Turn(s, <<SYN1>>)
  BY <1>1, <1>2, <1>4, <1>6, <1>7, OwnNumbers DEF Turn
<1>9. /\ Unopened(c) /\ sent[s] = 0 /\ delivered[s] = << >> /\ delivered[c] = << >> /\ ~ Over(c, s) /\ connects[c] # 0
  <2>1. Unopened(c)
    BY <1>3, <1>4 DEF Unopened
  <2>2. sent[s] = 0 /\ delivered[s] = << >> /\ delivered[c] = << >>
    BY <1>1, <2>1, BeforeOpening
  <2>3. ~ Over(c, s)
    BY <1>1, <2>1 DEF Over
  <2>4. connects[c] # 0
    BY <1>1, <1>3, <1>4 DEF Roles
  <2> QED BY <2>1, <2>2, <2>3, <2>4
<1>10. /\ ~ In(<<SYN1>>, SYN0) /\ ~ In(<<SYN1>>, SYN2)
       /\ Len(<<SYN1>>) <= 1 /\ NumberedFrom0(<<SYN1>>, sent'[s])
       /\ \A i \in 1 .. Len(<<SYN1>>) : <<SYN1>>[i].type # "NAK"
  BY ShortWires, SYNsDiffer, OneReply, NoData
<1> HIDE DEF s
<1>11. Roles(c)'
  BY <1>1, <1>2, <1>5, <1>7, <1>8, <1>9, <1>10, PeerRoles DEF s
<1>12. Unopened(c)' => Unopened(c)
  BY <1>9
<1>13. ~ Over(c, c) => Opened(wire[c] \o <<SYN1>>)
  <2> SUFFICES ASSUME ~ Over(c, c) PROVE Opened(wire[c] \o <<SYN1>>)
    OBVIOUS
  <2>1. Opened(wire[c])
    BY <1>1 DEF OneConnectionInv, Incoming
  <2>2. DataFree(wire[c])
    BY <1>1, <1>9, NothingSent
  <2> QED BY <1>5, <1>6, <1>10, <2>1, <2>2, OpenedCat
<1>14. /\ rxSeq'[s] = 0 /\ rxSeq'[s] = Len(delivered'[s]) /\ Prefix(s)' /\ sent[s] <= sent'[s]
       /\ ~ Over(c, c) => Outgoing(s)' /\ rxSeq[s] <= rxSeq'[s]
  BY <1>1, <1>2, <1>4, <1>5, <1>8, <1>9, FreshStart
<1> QED BY <1>1, <1>5, <1>8, <1>9, <1>10, <1>11, <1>12, <1>13, <1>14, TurnKeeps

\* A call of an end that is or was connected that leaves its state and the handshake alone.
LEMMA ConnectedRoles ==
  ASSUME NEW c, OneOpener(c), OneConnectionInv(c), NEW n \in Nodes, NEW out \in Seq(Frames), Turn(n, out),
         connectState[n] = "CONNECTED" \/ Over(c, n), connectState'[n] = connectState[n], connects'[n] = connects[n],
         ~ In(out, SYN0), ~ In(out, SYN1), ~ In(out, SYN2),
         delivered'[n] = delivered[n] \/ ~ In(wire[n], SYN1)
  PROVE  Roles(c)' /\ (Unopened(c)' => Unopened(c)) /\ (Over(c, n)' <=> Over(c, n))
<1> DEFINE s == Peer(c)
<1>1. /\ TypeOK /\ Roles(c) /\ c \in Nodes /\ s \in Nodes /\ s # c /\ Peer(s) = c /\ (n = c \/ n = s)
  BY TwoNodes DEF OneConnectionInv, OneOpener
<1>2. connectState[n] \in {"CONNECTED", "DISCONNECTED"} /\ (connectState[n] = "CONNECTED" => ~ Over(c, n))
  BY DEF Over
<1>3. CASE n = c
  <2>1. /\ \A f \in {SYN0, SYN1, SYN2} : In(wire'[c], f) => In(wire[c], f)
        /\ In(wire'[s], SYN0) => In(wire[s], SYN0)
    BY <1>1, <1>3, TurnWires
  <2>2. Unopened(c)' => Unopened(c)
    BY <1>3, <2>1 DEF Unopened
  <2>3. connects[c] # 0 /\ (In(wire[c], SYN1) => delivered[c] = << >>)
    BY <1>1, <1>3 DEF Roles, Over
  <2>4. In(wire'[c], SYN1) => delivered'[c] = << >>
    BY <1>3, <2>1, <2>3
  <2>5. Over(c, n)' <=> Over(c, n)
    BY <1>3, <2>3 DEF Over
  <2> QED BY <1>1, <1>2, <1>3, <2>2, <2>3, <2>4, <2>5, OpenerRoles
<1>4. CASE n = s
  <2>1. Unopened(c)' => Unopened(c)
    BY <1>1, <1>4, PeerUnopened
  <2>2. ~ Unopened(c) /\ connects[c] # 0
    BY <1>1, <1>4 DEF Roles, Over, Unopened
  <2>3. Over(c, n)' <=> Over(c, n)
    BY <1>1, <1>4, <2>1, <2>2 DEF Over
  <2> QED BY <1>1, <1>2, <1>4, <2>1, <2>2, <2>3, PeerRoles
<1> QED BY <1>1, <1>3, <1>4

\* sfpHandleUSR delivers the packet that comes next, for its number has not wrapped.
LEMMA DeliverKeeps ==
  ASSUME NEW c, OneOpener(c), OneConnectionInv(c), TypeOK', NEW n \in Nodes, Deliver(n)
  PROVE  OneKept(c)
<1> DEFINE p == Peer(n)
           f == Head(wire[n])
           d == delivered[n]
<1>1. /\ TypeOK /\ p \in Nodes /\ p # n /\ Peer(p) = n /\ Prefix(n)
      /\ ~ Over(c, n) => Incoming(n)
      /\ ~ Over(c, p) => Incoming(p)
      /\ ~ Over(c, n) /\ ~ Over(c, p) => Outgoing(n)
  BY TwoNodes DEF OneConnectionInv
<1>2. /\ wire[n] # << >> /\ f.type \in {"USR", "RTX"} /\ connectState[n] = "CONNECTED" /\ f.seq = rxSeq[n]
      /\ delivered' = [delivered EXCEPT ![n] = Append(@, f.packet)]
      /\ rxSeq' = [rxSeq EXCEPT ![n] = nextSeq(@)]
      /\ Consume(n, << >>)
      /\ UNCHANGED <<connectState, txSeq, history, sent, connects>>
  BY DEF Deliver, Arrives, budget
<1>3. /\ delivered'[n] = Append(d, f.packet) /\ delivered'[p] = delivered[p]
      /\ rxSeq'[n] = nextSeq(rxSeq[n]) /\ rxSeq'[p] = rxSeq[p]
  BY <1>1, <1>2 DEF TypeOK
<1>4. /\ wire[n] \in Seq(Frames) /\ wire[p] \in Seq(Frames) /\ d \in Seq(Packets) /\ Len(d) \in Nat
      /\ sent[p] \in Nat /\ sent[p] <= MaxSent /\ sent[n] \in Nat /\ rxSeq[n] \in Nat
      /\ f.packet \in Packets
  BY <1>1, <1>2, OneTypes, ArrivingFrame DEF TypeOK
<1>5. << >> \in Seq(Frames) /\ \A g : ~ In(<< >>, g)
  BY ShortWires
<1>6. wire'[n] \in AfterReceiverReset(wire[n]) /\ wire'[p] = wire[p] \o << >>
  BY <1>1, <1>2, <1>5, TurnTaken
<1>7. Turn(n, << >>)
  BY <1>2, <1>3, <1>6 DEF Turn
<1>8. IsDatum(f)
  BY <1>2 DEF IsDatum, DataTypes
<1> HIDE DEF p, d
<1>9. ~ Over(c, n)
  BY <1>2 DEF Over
<1>10. ~ In(wire[n], SYN1) /\ f.seq = f.packet - 1 /\ f.packet <= sent[p] /\ rxSeq[n] = Len(d)
  BY <1>1, <1>2, <1>4, <1>8, <1>9, FirstFrame DEF Incoming, p, d
<1> HIDE DEF f
<1>11. f.packet = Len(d) + 1 /\ Len(d) + 1 <= sent[p]
  <2>1. f.packet \in Int
    BY <1>4 DEF Packets
  <2>2. f.packet - 1 = Len(d) /\ f.packet <= sent[p]
    BY <1>2, <1>10
  <2> QED BY <1>4, <2>1, <2>2
<1>12. rxSeq'[n] = Len(d) + 1
  <2>1. Len(d) + 1 \in Seqs
    <3>1. MaxSent <= HistoryCapacity /\ HistoryCapacity \in 1 .. (SeqRange - 1) /\ MaxSent \in Nat
      BY HistoryAssumption, BoundsAssumption DEF OneOpener
    <3> QED BY <1>4, <1>11, <3>1, SeqRangePositive DEF Seqs
  <2> QED BY <1>3, <1>10, <2>1, ModSmall DEF nextSeq
<1>13. /\ Len(delivered'[n]) = Len(d) + 1
       /\ \A i \in 1 .. Len(delivered'[n]) : delivered'[n][i] = i
  <2>1. /\ Len(delivered'[n]) = Len(d) + 1 /\ delivered'[n][Len(d) + 1] = f.packet
        /\ \A i \in 1 .. Len(d) : delivered'[n][i] = d[i]
    BY <1>3, <1>4
  <2>2. \A i \in 1 .. Len(d) : d[i] = i
    BY <1>1 DEF Prefix, d
  <2>3. \A i \in 1 .. Len(d) + 1 : i \in 1 .. Len(d) \/ i = Len(d) + 1
    BY <1>4
  <2> QED BY <1>11, <2>1, <2>2, <2>3
<1>14. Prefix(n)' /\ sent[n] <= sent'[n] /\ rxSeq'[n] = Len(delivered'[n])
  BY <1>2, <1>4, <1>11, <1>12, <1>13 DEF Prefix, p
<1>15. Roles(c)' /\ (Unopened(c)' => Unopened(c)) /\ ~ Over(c, n)'
  <2>1. connectState'[n] = connectState[n] /\ connects'[n] = connects[n]
    BY <1>2
  <2> QED BY <1>2, <1>5, <1>7, <1>9, <1>10, <2>1, ConnectedRoles
<1>16. ~ Over(c, p) => Opened(wire[p] \o << >>) /\ NumberedFrom0(<< >>, sent'[n])
  <2>1. wire[p] \o << >> = wire[p]
    BY <1>4
  <2> QED BY <1>1, <2>1, OneReply DEF Incoming
<1>17. ~ Over(c, p) =>
         /\ Outgoing(n)' /\ rxSeq[n] <= rxSeq'[n]
         /\ \A i \in 1 .. Len(<< >>) : << >>[i].type # "NAK"
         /\ ~ In(<< >>, SYN1) /\ ~ In(<< >>, SYN2)
  <2>1. \A i \in 1 .. Len(<< >>) : << >>[i].type # "NAK"
    OBVIOUS
  <2>2. rxSeq[n] <= rxSeq'[n]
    BY <1>4, <1>10, <1>12
  <2>3. ASSUME ~ Over(c, p) PROVE Outgoing(n)'
    <3>1. Outgoing(n) /\ Requests(wire[n], sent[n] - Len(history[n]), rxSeq[p])
      BY <1>1, <1>9, <2>3 DEF Outgoing, p
    <3>2. Requests(wire'[n], sent[n] - Len(history[n]), rxSeq[p])
      BY <1>4, <1>6, <3>1, CutKeeps
    <3> QED BY <1>2, <1>3, <3>1, <3>2 DEF Outgoing, p
  <2> QED BY <1>5, <2>1, <2>2, <2>3
<1> DEFINE out == << >>
<1>18. /\ out \in Seq(Frames) /\ Turn(n, out)
       /\ ~ Over(c, p) => Opened(wire[p] \o out) /\ NumberedFrom0(out, sent'[n])
       /\ ~ Over(c, p) =>
            /\ Outgoing(n)' /\ rxSeq[n] <= rxSeq'[n]
            /\ \A i \in 1 .. Len(out) : out[i].type # "NAK"
            /\ ~ In(out, SYN1) /\ ~ In(out, SYN2)
  BY <1>5, <1>7, <1>16, <1>17
<1> HIDE DEF out
<1> QED BY <1>9, <1>14, <1>15, <1>18, TurnKeeps DEF p, OneOpener

\* sfpWritePacket, by an end that may write.
LEMMA WriteKeeps ==
  ASSUME NEW c, OneOpener(c), OneConnectionInv(c), TypeOK', NEW n \in Nodes, WritePacket(n), Ready(c, n)
  PROVE  OneKept(c)
<1> DEFINE p == Peer(n)
           h == history[n]
           f == DataFrame("USR", txSeq[n], sent[n] + 1)
<1>1. /\ TypeOK /\ p \in Nodes /\ p # n /\ Peer(p) = n /\ Prefix(n)
      /\ ~ Over(c, n) => Incoming(n)
      /\ ~ Over(c, p) => Incoming(p)
      /\ ~ Over(c, n) /\ ~ Over(c, p) => Outgoing(n)
  BY TwoNodes DEF OneConnectionInv
<1>2. /\ sent[n] < MaxSent
      /\ sent' = [sent EXCEPT ![n] = @ + 1]
      /\ history' = [history EXCEPT ![n] = PushBack(@, sent[n] + 1)]
      /\ wire' = [wire EXCEPT ![p] = Append(@, f)]
      /\ txSeq' = [txSeq EXCEPT ![n] = nextSeq(@)]
      /\ UNCHANGED <<connectState, rxSeq, delivered, connects>>
  BY DEF WritePacket, budget
<1>3. /\ wire[n] \in Seq(Frames) /\ wire[p] \in Seq(Frames) /\ h \in Seq(Packets) /\ Len(h) \in Nat
      /\ sent[n] \in Nat /\ sent[p] \in Nat /\ rxSeq[n] \in Nat /\ txSeq[n] \in Seqs /\ Len(h) <= HistoryCapacity
      /\ MaxSent \in Nat /\ MaxSent <= HistoryCapacity /\ HistoryCapacity \in 1 .. (SeqRange - 1)
  BY <1>1, OneTypes, BoundsAssumption, HistoryAssumption DEF OneOpener
<1>4. f \in Frames
  <2>1. sent[n] + 1 \in Packets
    BY <1>2, <1>3 DEF Packets
  <2> QED BY <1>3, <2>1, FramesMade
<1> HIDE DEF f
<1>5. /\ sent'[n] = sent[n] + 1 /\ sent'[p] = sent[p]
      /\ history'[n] = PushBack(h, sent[n] + 1) /\ history'[p] = history[p]
      /\ txSeq'[n] = nextSeq(txSeq[n]) /\ txSeq'[p] = txSeq[p]
      /\ wire'[n] = wire[n] /\ wire'[p] = Append(wire[p], f)
  BY <1>1, <1>2 DEF TypeOK
<1> HIDE DEF p, h
<1>6. wire'[n] \in AfterReceiverReset(wire[n]) /\ wire'[p] = wire[p] \o <<f>> /\ <<f>> \in Seq(Frames)
  <2>1. wire'[n] \in AfterReceiverReset(wire[n])
    BY <1>5 DEF AfterReceiverReset
  <2>2. <<f>> \in Seq(Frames)
    BY <1>4
  <2>3. Append(wire[p], f) = wire[p] \o <<f>>
    BY <1>3, <1>4
  <2> QED BY <1>5, <2>1, <2>2, <2>3
<1>7. Turn(n, <<f>>)
  BY <1>2, <1>5, <1>6 DEF Turn, p
<1>8. /\ IsDatum(f) /\ f.type = "USR" /\ f.seq = txSeq[n] /\ f.packet = sent[n] + 1
      /\ f # SYN0 /\ f # SYN1 /\ f # SYN2
  <2>1. f.type = "USR" /\ f.seq = txSeq[n] /\ f.packet = sent[n] + 1
    BY DEF f, DataFrame
  <2> QED BY <2>1, SYNsDiffer DEF IsDatum, DataTypes
<1>9. ~ In(<<f>>, SYN0) /\ ~ In(<<f>>, SYN1) /\ ~ In(<<f>>, SYN2) /\ Len(<<f>>) <= 1
      /\ \A i \in 1 .. Len(<<f>>) : <<f>>[i].type # "NAK"
  BY <1>8, ShortWires, OneReply
<1>10. Roles(c)' /\ (Unopened(c)' => Unopened(c)) /\ (Over(c, n)' <=> Over(c, n))
  <2>1. connectState[n] = "CONNECTED" \/ Over(c, n)
    BY DEF Ready
  <2> QED BY <1>2, <1>6, <1>7, <1>9, <2>1, ConnectedRoles
<1>11. Prefix(n)' /\ sent[n] <= sent'[n] /\ (~ Over(c, n) => rxSeq'[n] = Len(delivered'[n]))
  BY <1>1, <1>2, <1>3, <1>5 DEF Prefix, Incoming, p
<1>12. ASSUME ~ Over(c, p)
       PROVE  Opened(wire[p] \o <<f>>) /\ NumberedFrom0(<<f>>, sent'[n])
  <2>1. Opened(wire[p] \o <<f>>)
    BY <1>1, <1>3, <1>6, <1>9, <1>12, OpenedCat DEF Incoming
  <2>2. txSeq[n] = sent[n]
    <3>1. ~ Over(c, n) => Outgoing(n)
      BY <1>1, <1>12
    <3> QED BY <1>12, <3>1 DEF Ready, Over, Outgoing, p
  <2>3. NumberedFrom0(<<f>>, sent'[n])
    <3>1. f.seq = f.packet - 1 /\ f.packet <= sent'[n]
      BY <1>3, <1>5, <1>8, <2>2
    <3> QED BY <3>1, OneReply DEF NumberedFrom0
  <2> QED BY <2>1, <2>3
<1>13. ASSUME ~ Over(c, n), ~ Over(c, p)
       PROVE  Outgoing(n)'
  <2>1. Outgoing(n)
    BY <1>1, <1>13
  <2>3. txSeq[n] = sent[n] /\ Len(h) <= sent[n]
    BY <2>1 DEF Outgoing, h
  <2>5. txSeq'[n] = sent'[n]
    <3>1. sent[n] + 1 \in Seqs
      BY <1>2, <1>3, SeqRangePositive DEF Seqs
    <3> QED BY <1>5, <2>3, <3>1, ModSmall DEF nextSeq
  <2>6. h \in Seq(Nat)
    <3>1. h \in [1 .. Len(h) -> Nat]
      <4>1. Packets \subseteq Nat
        BY DEF Packets
      <4>2. h \in [1 .. Len(h) -> Packets]
        BY <1>3, LenProperties
      <4> QED BY <4>1, <4>2
    <3> QED BY <1>3, <3>1, SeqDef
  <2> DEFINE g == history'[n]
             lo == sent[n] - Len(h)
  <2>7. Len(h) < HistoryCapacity /\ sent[n] + 1 \in Nat
    BY <1>2, <1>3, <2>3
  <2>8. /\ Len(g) = Len(h) + 1 /\ g[Len(g)] = sent[n] + 1
        /\ \A i \in 1 .. (Len(g) - 1) : g[i] = h[i + Len(h) + 1 - Len(g)]
    <3>1. g = PushBack(h, sent[n] + 1) /\ Len(h) <= HistoryCapacity
      BY <1>3, <1>5
    <3> HIDE DEF g
    <3> QED BY ONLY <2>6, <2>7, <3>1, PushBackProperties
  <2> HIDE DEF g
  <2>9. Len(g) <= sent'[n] /\ sent'[n] - Len(g) = lo
    BY <1>3, <1>5, <2>3, <2>8
  <2>10. ASSUME NEW i \in 1 .. Len(g) PROVE g[i] = lo + i
    <3>1. CASE i = Len(g)
      BY <1>3, <2>8, <3>1
    <3>2. CASE i # Len(g)
      <4>1. i \in 1 .. (Len(g) - 1) /\ i \in 1 .. Len(h) /\ i + Len(h) + 1 - Len(g) = i
        BY <1>3, <2>8, <3>2
      <4>2. h[i] = lo + i
        BY <2>1, <4>1 DEF Outgoing, h
      <4> QED BY <2>8, <4>1, <4>2
    <3> QED BY <3>1, <3>2
  <2>11. Requests(wire'[n], lo, rxSeq'[p])
    BY <1>2, <1>5, <2>1 DEF Outgoing, h, p
  <2> QED BY <2>5, <2>9, <2>10, <2>11 DEF Outgoing, g, p
<1>14. rxSeq[n] <= rxSeq'[n]
  BY <1>2, <1>3
<1> DEFINE out == <<f>>
<1>15. /\ out \in Seq(Frames) /\ Turn(n, out)
       /\ ~ Over(c, p) => Opened(wire[p] \o out) /\ NumberedFrom0(out, sent'[n])
       /\ \A i \in 1 .. Len(out) : out[i].type # "NAK"
       /\ ~ In(out, SYN1) /\ ~ In(out, SYN2)
  BY <1>6, <1>7, <1>9, <1>12
<1> HIDE DEF out
<1> QED BY <1>10, <1>11, <1>13, <1>14, <1>15, TurnKeeps DEF p, OneOpener

-----------------------------------------------------------------------------
\* OneConnectionInv is inductive, and the connection opens and closes once.
LEMMA NextOne ==
  ASSUME NEW c, OneOpener(c), OneConnectionInv(c), [Next]_vars,
         \A n \in Nodes : WritePacket(n) => Ready(c, n)
  PROVE  OneKept(c)
<1>1. TypeOK /\ TypeOK'
  BY NextTypes DEF OneConnectionInv
<1>2. CASE UNCHANGED vars
  <2>1. UNCHANGED <<connectState, rxSeq, txSeq, history, wire, sent, delivered, connects>>
    BY <1>2 DEF vars, numbers, users, budget
  <2>2. /\ Roles(c)'
        /\ \A n \in Nodes :
             /\ Prefix(n)'
             /\ ~ Over(c, n)' => Incoming(n)'
             /\ ~ Over(c, n)' /\ ~ Over(c, Peer(n))' => Outgoing(n)'
    BY <2>1 DEF OneConnectionInv, Roles, Unopened, Over, Prefix, Incoming, Outgoing
  <2>3. (Unopened(c)' => Unopened(c)) /\ \A m \in Nodes : Over(c, m) => Over(c, m)'
    BY <2>1 DEF Unopened, Over
  <2> QED BY <1>1, <2>2, <2>3 DEF OneConnectionInv, OneKept
<1>3. CASE Next
  <2>1. PICK n \in Nodes : HandleFrame(n) \/ UserCall(n) \/ Fault(n)
    BY <1>3 DEF Next
  <2>2. CASE Connect(n)
    BY <1>1, <2>2, ConnectKeeps
  <2>3. CASE Reinit(n)
    BY <1>1, <2>3, ReinitKeeps
  <2>4. CASE WritePacket(n)
    BY <1>1, <2>4, WriteKeeps
  <2>5. CASE HandleSYN0(n)
    BY <1>1, <2>5, SYN0Keeps
  <2>6. CASE HandleSYN1(n)
    BY <1>1, <2>6, SYN1Keeps
  <2>7. CASE HandleSYN2(n)
    BY <1>1, <2>7, SYN2Keeps
  <2>8. CASE SYN2AfterSYN0(n)
    <3>1. Roles(c) /\ c \in Nodes
      BY DEF OneConnectionInv, OneOpener
    <3>2. wire[n] # << >> /\ Head(wire[n]) = SYN2 /\ connectState[n] = "SENT_SYN0"
      BY <2>8 DEF SYN2AfterSYN0, ArrivesSYN
    <3>3. In(wire[n], SYN2)
      BY <1>1, <3>2, FirstFrame DEF TypeOK
    <3> QED BY <3>1, <3>2, <3>3, TwoNodes DEF Roles
  <2>9. CASE AnswerNAK(n)
    BY <1>1, <2>9, AnswerNAKKeeps
  <2>10. CASE Deliver(n)
    BY <1>1, <2>10, DeliverKeeps
  <2>11. CASE \/ HandleDIS(n) \/ SYNWhileDisconnected(n) \/ RebuffFrame(n) \/ IgnoreNAK(n)
              \/ RejectOutOfOrder(n) \/ IgnoreRetransmission(n) \/ RejectRemnant(n) \/ Fault(n)
    BY <1>1, <2>11, ReplyStepsKeep
  <2> QED BY <2>1, <2>2, <2>3, <2>4, <2>5, <2>6, <2>7, <2>8, <2>9, <2>10, <2>11
          DEF HandleFrame, HandleSYN, HandleNAK, HandleUSR, UserCall
<1> QED BY <1>2, <1>3

\* A step of one end changes nothing of the other but its wire.
LEMMA OtherEndStays ==
  ASSUME TypeOK, NEW m \in Nodes, HandleFrame(m) \/ UserCall(m) \/ Fault(m), NEW n \in Nodes, n # m
  PROVE  connectState'[n] = connectState[n] /\ txSeq'[n] = txSeq[n] /\ sent'[n] = sent[n]
<1>1. connectState' = connectState \/ \E t : Enter(m, t)
  BY DEF HandleFrame, HandleSYN, HandleNAK, HandleUSR, UserCall, Fault, Connect, Reinit, WritePacket,
     HandleSYN0, HandleSYN1, HandleSYN2, SYN2AfterSYN0, HandleDIS, SYNWhileDisconnected, IgnoreNAK, AnswerNAK,
     Deliver, RejectOutOfOrder, IgnoreRetransmission, RebuffFrame, RejectRemnant, BecomeConnected
<1>2. txSeq' = txSeq \/ \E s : txSeq' = [txSeq EXCEPT ![m] = s]
  <2>1. CASE UNCHANGED numbers \/ ResetNumbers(m)
    BY <2>1 DEF numbers, ResetNumbers
  <2>2. CASE \E out, s : ConsumeAndTransmitHistoryFrom(m, out, s)
    BY <2>2 DEF ConsumeAndTransmitHistoryFrom
  <2>3. CASE Deliver(m) \/ Reinit(m) \/ WritePacket(m)
    BY <2>3 DEF Deliver, Reinit, WritePacket
  <2> QED BY <2>1, <2>2, <2>3
        DEF HandleFrame, HandleSYN, HandleNAK, HandleUSR, UserCall, Fault, Connect,
            HandleSYN0, HandleSYN1, HandleSYN2, SYN2AfterSYN0, HandleDIS, SYNWhileDisconnected, IgnoreNAK, AnswerNAK,
            RejectOutOfOrder, IgnoreRetransmission, RebuffFrame, RejectRemnant, BecomeConnected
<1>3. sent' = sent \/ \E k : sent' = [sent EXCEPT ![m] = k]
  BY DEF HandleFrame, HandleSYN, HandleNAK, HandleUSR, UserCall, Fault, Connect, Reinit, WritePacket,
     HandleSYN0, HandleSYN1, HandleSYN2, SYN2AfterSYN0, HandleDIS, SYNWhileDisconnected, IgnoreNAK, AnswerNAK,
     Deliver, RejectOutOfOrder, IgnoreRetransmission, RebuffFrame, RejectRemnant, BecomeConnected, users
<1> QED BY <1>1, <1>2, <1>3 DEF TypeOK, Enter

\* An end that may write may do so until it is initialised anew.
LEMMA ReadyKept ==
  ASSUME NEW c, OneOpener(c), OneConnectionInv(c), [Next]_vars, NEW n \in Nodes,
         \A m \in Nodes : WritePacket(m) => Ready(c, m), Ready(c, n),
         Reinit(n) => Reinit(Peer(n))
  PROVE  Ready(c, n)'
<1> DEFINE p == Peer(n)
<1>1. /\ TypeOK /\ Roles(c) /\ c \in Nodes /\ p \in Nodes /\ p # n /\ Peer(p) = n
      /\ n = c \/ n = Peer(c)
      /\ ~ Over(c, n) /\ ~ Over(c, p) => Outgoing(n)
      /\ connectState \in [Nodes -> ConnectStates] /\ txSeq \in [Nodes -> Seqs]
      /\ history \in [Nodes -> Seq(Packets)] /\ wire \in [Nodes -> Seq(Frames)]
      /\ sent \in [Nodes -> 0 .. MaxSent]
  BY TwoNodes DEF OneConnectionInv, OneOpener, TypeOK, Packets
<1>2. OneKept(c)
  BY NextOne
<1>3. (Over(c, n) => Over(c, n)') /\ (Over(c, p) => Over(c, p)') /\ (Unopened(c)' => Unopened(c))
  BY <1>1, <1>2 DEF OneKept
<1>4. \/ connectState[n] = "CONNECTED" /\ ~ Over(c, n)
      \/ connectState[n] = "DISCONNECTED" /\ Over(c, n)
  BY DEF Ready, Over
<1>5. ~ Over(c, p) => txSeq[n] = sent[n]
  <2>1. CASE connectState[n] = "CONNECTED" /\ ~ Over(c, n)
    BY <1>1, <2>1 DEF Outgoing
  <2>2. CASE connectState[n] = "DISCONNECTED" /\ Over(c, n)
    BY <2>2 DEF Ready, p
  <2> QED BY <1>4, <2>1, <2>2
<1>6. CASE connectState'[n] = connectState[n] /\ txSeq'[n] = txSeq[n] /\ sent'[n] = sent[n]
  BY <1>3, <1>4, <1>5, <1>6 DEF Ready, p
<1>7. CASE connectState'[n] = "CONNECTED"
  BY <1>7 DEF Ready
<1> HIDE DEF p
<1>8. CASE HandleDIS(n)
  <2>1. UNCHANGED <<txSeq, sent, connects>> /\ Enter(n, "DISCONNECTED")
    BY <1>8 DEF HandleDIS, numbers, users, budget
  <2>2. connectState'[n] = "DISCONNECTED"
    BY <1>1, <2>1, OwnNumbers
  <2>3. Over(c, n)'
    <3>1. CASE Over(c, n)
      BY <1>3, <3>1
    <3>2. CASE connectState[n] = "CONNECTED"
      BY <1>1, <1>3, <2>1, <2>2, <3>2 DEF Roles, Over
    <3> QED BY <1>4, <3>1, <3>2
  <2> QED BY <1>3, <1>5, <2>1, <2>3 DEF Ready, p
<1>9. CASE WritePacket(n)
  <2>1. connectState'[n] = connectState[n] /\ txSeq'[n] = nextSeq(txSeq[n]) /\ sent'[n] = sent[n] + 1 /\ sent[n] < MaxSent
    BY <1>1, <1>9 DEF WritePacket
  <2>2. sent[n] \in Nat /\ sent[n] + 1 \in Seqs /\ MaxSent \in Nat
    <3>1. sent[n] \in Nat /\ MaxSent \in Nat /\ MaxSent <= HistoryCapacity /\ HistoryCapacity \in 1 .. (SeqRange - 1)
      BY <1>1, OneTypes, BoundsAssumption, HistoryAssumption DEF OneOpener
    <3> QED BY <2>1, <3>1, SeqRangePositive DEF Seqs
  <2>3. txSeq[n] = sent[n] => txSeq'[n] = sent'[n]
    BY <2>1, <2>2, ModSmall DEF nextSeq
  <2> QED BY <1>3, <1>4, <1>5, <2>1, <2>3 DEF Ready, p
<1>10. CASE Connect(n)
  <2>1. n = c /\ connects[c] = 0
    <3>1. n = c /\ connects[c] < MaxConnects /\ MaxConnects <= 1
      BY <1>10 DEF Connect, OneOpener
    <3>2. connects[c] \in Nat /\ MaxConnects \in Nat
      BY <1>1, OneTypes, BoundsAssumption
    <3> QED BY <3>1, <3>2
  <2> QED BY <1>1, <1>4, <2>1 DEF Roles, Over
<1>11. CASE HandleSYN0(n) \/ SYN2AfterSYN0(n)
  <2>1. CASE SYN2AfterSYN0(n)
    BY <1>4, <2>1 DEF SYN2AfterSYN0, ArrivesSYN
  <2>2. CASE HandleSYN0(n)
    <3>1. wire[n] # << >> /\ Head(wire[n]) = SYN0
      BY <2>2 DEF HandleSYN0, ArrivesSYN
    <3>2. In(wire[n], SYN0)
      BY <1>1, <3>1, FirstFrame
    <3>3. n = Peer(c)
      BY <1>1, <3>2 DEF Roles
    <3>4. Unopened(c)
      BY <3>2, <3>3 DEF Unopened
    <3>5. n # c
      BY <1>1, <3>3, TwoNodes
    <3> QED BY <1>1, <1>4, <3>3, <3>4, <3>5 DEF Roles, Over
  <2> QED BY <1>11, <2>1, <2>2
<1>12. CASE HandleSYN1(n) \/ HandleSYN2(n)
  <2>1. Enter(n, "CONNECTED")
    BY <1>12 DEF HandleSYN1, HandleSYN2, BecomeConnected
  <2> QED BY <1>1, <1>7, <2>1, OwnNumbers
<1>13. CASE AnswerNAK(n)
  BY <1>7, <1>13 DEF AnswerNAK, Arrives
<1>14. CASE \/ UNCHANGED vars
            \/ SYNWhileDisconnected(n) \/ RebuffFrame(n) \/ IgnoreNAK(n) \/ Deliver(n)
            \/ RejectOutOfOrder(n) \/ IgnoreRetransmission(n) \/ RejectRemnant(n) \/ Fault(n)
  <2>1. UNCHANGED <<connectState, txSeq, sent>>
    BY <1>14 DEF SYNWhileDisconnected, RebuffFrame, IgnoreNAK, RejectOutOfOrder, IgnoreRetransmission, Deliver,
       RejectRemnant, Fault, numbers, users, budget, vars
  <2> QED BY <1>6, <2>1
<1>15. CASE HandleFrame(p) \/ UserCall(p) \/ Fault(p)
  <2>1. connectState'[n] = connectState[n] /\ txSeq'[n] = txSeq[n] /\ sent'[n] = sent[n]
    BY <1>1, <1>15, OtherEndStays
  <2> QED BY <1>6, <2>1
<1>16. Next => \E m \in Nodes : HandleFrame(m) \/ UserCall(m) \/ Fault(m)
  BY DEF Next
<1>17. \A m \in Nodes : m = n \/ m = p
  BY TwoNodes DEF p
<1>18. Reinit(n) => UserCall(p)
  BY DEF UserCall, p
<1> QED BY <1>8, <1>9, <1>10, <1>11, <1>12, <1>13, <1>14, <1>15, <1>16, <1>17, <1>18
        DEF HandleFrame, HandleSYN, HandleNAK, HandleUSR, UserCall

\* It holds before anything is called.
LEMMA InitOne ==
  ASSUME NEW c, OneOpener(c), Init
  PROVE  OneConnectionInv(c)
<1>1. TypeOK
  BY InitTypes DEF Init, ConnectStates
<1>2. \A n \in Nodes :
        /\ connectState[n] = "DISCONNECTED" /\ rxSeq[n] = 0 /\ txSeq[n] = 0 /\ connects[n] = 0
        /\ history[n] = << >> /\ wire[n] = << >> /\ sent[n] = 0 /\ delivered[n] = << >>
  BY DEF Init, InitIn, InitialSeq
<1>3. c \in Nodes /\ Peer(c) \in Nodes
  BY TwoNodes DEF OneOpener
<1>4. Roles(c)
  BY <1>2, <1>3, ShortWires DEF Roles
<1>5. ASSUME NEW n \in Nodes PROVE Prefix(n) /\ Incoming(n) /\ Outgoing(n)
  <2>1. Peer(n) \in Nodes
    BY TwoNodes
  <2>2. Len(<< >>) = 0 /\ Opened(<< >>) /\ NumberedFrom0(<< >>, 0) /\ Requests(<< >>, 0, 0)
    BY ShortWires, OneReply DEF Opened, Requests
  <2> QED BY <1>2, <2>1, <2>2 DEF Prefix, Incoming, Outgoing
<1> QED BY <1>1, <1>4, <1>5 DEF OneConnectionInv

\* It says that the packets delivered are the first ones written.
LEMMA OneIsInOrder ==
  ASSUME NEW c, OneConnectionInv(c)
  PROVE  EchoesInOrder /\ AtMostOnceInOrder
<1>1. EchoesInOrder
  BY DEF OneConnectionInv, Prefix, EchoesInOrder
<1>2. AtMostOnceInOrder
  BY <1>1 DEF EchoesInOrder, AtMostOnceInOrder
<1> QED BY <1>1, <1>2

(***************************************************************************)
(* While only one end calls sfpConnect, and does so once, every packet is  *)
(* delivered at most once, in the order in which sfpWritePacket was given  *)
(* them and without a gap, as long as no more are written than the ring of *)
(* history holds: however many frames are lost, damaged or made up, and    *)
(* whenever either end is initialised anew.  So the retransmissions of a   *)
(* NAK, of a late SYN1 or of a repeated SYN2 are never taken for others.   *)
(***************************************************************************)
THEOREM OneConnectionInOrder ==
  ASSUME NEW c \in Nodes, Initiators \subseteq {c}, MaxConnects <= 1,
         MaxSent <= HistoryCapacity, WriteStates \subseteq {"CONNECTED"}
  PROVE  Spec \/ DisruptedSpec => [](EchoesInOrder /\ AtMostOnceInOrder)
<1>1. OneOpener(c)
  BY DEF OneOpener
<1>2. Init => OneConnectionInv(c)
  BY <1>1, InitOne
<1>3. OneConnectionInv(c) /\ [Next]_vars => OneConnectionInv(c)'
  <2>1. \A n \in Nodes : WritePacket(n) => Ready(c, n)
    BY DEF WritePacket, Ready
  <2> QED BY <1>1, <2>1, NextOne DEF OneKept
<1>4. OneConnectionInv(c) /\ [Next /\ OneDisruption]_vars => OneConnectionInv(c)'
  BY <1>3
<1>5. OneConnectionInv(c) => EchoesInOrder /\ AtMostOnceInOrder
  BY OneIsInOrder
<1> QED BY <1>2, <1>3, <1>4, <1>5, PTL DEF Spec, DisruptedSpec
=============================================================================
