----------------------------- MODULE SFPTransfer -----------------------------
(***************************************************************************)
(* One direction of a connected libsfp link: the transmitter of one        *)
(* endpoint, the receiver of the other, the frames in flight between them  *)
(* and the NAKs in flight back.  Both wires deliver in order; a frame may  *)
(* be lost or arrive damaged, and noise may look like a frame.  Damage     *)
(* that the CRC does not detect is left out.                               *)
(*                                                                         *)
(* The code puts no limit on how much a user writes.  The history holds    *)
(* HistoryCapacity packets, so the promise of MessageChannel can only be   *)
(* kept for a user who has at most Window packets outstanding; WindowOpen  *)
(* is that assumption about the user.  A user learns that packets arrived  *)
(* from answers of its peer's, and those follow in the reverse direction   *)
(* behind the NAKs the peer sent before, so what such a user knows to have *)
(* arrived is never beyond Confirmed.                                      *)
(***************************************************************************)
EXTENDS SFPTransmitter

CONSTANT Window
ASSUME WindowAssumption == Window \in 1 .. HistoryCapacity

VARIABLES txSeq,      \* tx.seq of the sending endpoint
          history,    \* tx.history of the sending endpoint
          rxSeq,      \* rx.seq of the receiving endpoint
          data,       \* USR and RTX frames in flight, oldest first
          naks,       \* NAK frames in flight back, oldest first
          sent,       \* packets written so far; the i-th packet is i
          delivered   \* packets handed to the deliver callback, in order

vars == <<txSeq, history, rxSeq, data, naks, sent, delivered>>

Init ==
  /\ txSeq = InitialSeq
  /\ history = << >>
  /\ rxSeq = InitialSeq
  /\ data = << >>
  /\ naks = << >>
  /\ sent = 0
  /\ delivered = << >>

-----------------------------------------------------------------------------
(***************************************************************************)
(* A NAK carries only seq.  at is how many packets had been delivered when *)
(* it was sent; no action's guard reads it but WindowOpen.                 *)
(***************************************************************************)
NakFrame == [seq |-> rxSeq, at |-> Len(delivered)]

Confirmed == IF naks = << >> THEN Len(delivered) ELSE Head(naks).at

WindowOpen == sent - Confirmed < Window

-----------------------------------------------------------------------------
(***************************************************************************)
(* The sending endpoint.                                                   *)
(***************************************************************************)
\* sfpWritePacket, sfpTransmitUSR
WritePacket ==
  /\ WindowOpen
  /\ sent' = sent + 1
  /\ history' = PushBack(history, sent + 1)
  /\ data' = Append(data, DataFrame("USR", txSeq, sent + 1))
  /\ txSeq' = nextSeq(txSeq)
  /\ UNCHANGED <<rxSeq, naks, delivered>>

\* sfpHandleNAK when the NAK asks for the packet to be written next
IgnoreNAK ==
  /\ naks # << >>
  /\ Head(naks).seq = txSeq
  /\ naks' = Tail(naks)
  /\ UNCHANGED <<txSeq, history, rxSeq, data, sent, delivered>>

\* sfpTransmitHistoryFromSeq(seq)
TransmitHistoryFromSeq(seq) ==
  LET kept == KeptHistory(history, txSeq, seq) IN
  /\ history' = kept
  /\ data' = data \o Retransmissions(kept, seq)
  /\ txSeq' = SeqAfter(kept, seq)

\* sfpHandleNAK otherwise
AnswerNAK ==
  /\ naks # << >>
  /\ Head(naks).seq # txSeq
  /\ TransmitHistoryFromSeq(Head(naks).seq)
  /\ naks' = Tail(naks)
  /\ UNCHANGED <<rxSeq, sent, delivered>>

-----------------------------------------------------------------------------
(***************************************************************************)
(* The receiving endpoint: sfpHandleUSR in the CONNECTED state.            *)
(***************************************************************************)
\* Variant: takes a retransmitted frame for the one it waits for.
DeliverAnyRetransmission ==
  /\ data # << >>
  /\ Head(data).seq = rxSeq \/ Head(data).type = "RTX"
  /\ delivered' = Append(delivered, Head(data).packet)
  /\ rxSeq' = nextSeq(Head(data).seq)
  /\ data' = Tail(data)
  /\ UNCHANGED <<txSeq, history, naks, sent>>

Deliver ==
  /\ data # << >>
  /\ Head(data).seq = rxSeq
  /\ delivered' = Append(delivered, Head(data).packet)
  /\ rxSeq' = nextSeq(rxSeq)
  /\ data' = Tail(data)
  /\ UNCHANGED <<txSeq, history, naks, sent>>

\* Variant: drops a frame out of order without a NAK.
DropOutOfOrder ==
  /\ data # << >>
  /\ Head(data).seq # rxSeq
  /\ Head(data).type = "USR"
  /\ data' = Tail(data)
  /\ UNCHANGED <<txSeq, history, rxSeq, naks, sent, delivered>>

RejectOutOfOrder ==
  /\ data # << >>
  /\ Head(data).seq # rxSeq
  /\ Head(data).type = "USR"
  /\ naks' = Append(naks, NakFrame)
  /\ data' = Tail(data)
  /\ UNCHANGED <<txSeq, history, rxSeq, sent, delivered>>

IgnoreRetransmission ==
  /\ data # << >>
  /\ Head(data).seq # rxSeq
  /\ Head(data).type = "RTX"
  /\ data' = Tail(data)
  /\ UNCHANGED <<txSeq, history, rxSeq, naks, sent, delivered>>

-----------------------------------------------------------------------------
(***************************************************************************)
(* The medium.  sfpHandleFrame answers a frame that is too short or fails  *)
(* the CRC with a NAK; such a frame is a damaged data frame, or it is one  *)
(* that carried no data of this direction (noise, a damaged NAK).          *)
(***************************************************************************)
LoseData ==
  /\ data # << >>
  /\ data' = Tail(data)
  /\ UNCHANGED <<txSeq, history, rxSeq, naks, sent, delivered>>

LoseNAK ==
  /\ naks # << >>
  /\ naks' = Tail(naks)
  /\ UNCHANGED <<txSeq, history, rxSeq, data, sent, delivered>>

RejectBadFrame ==
  /\ \/ data' = data
     \/ data # << >> /\ data' = Tail(data)
  /\ naks' = Append(naks, NakFrame)
  /\ UNCHANGED <<txSeq, history, rxSeq, sent, delivered>>

-----------------------------------------------------------------------------
HandleNAK == IgnoreNAK \/ AnswerNAK
HandleUSR == Deliver \/ RejectOutOfOrder \/ IgnoreRetransmission
Fault == LoseData \/ LoseNAK \/ RejectBadFrame

Next == WritePacket \/ HandleNAK \/ HandleUSR \/ Fault

Spec == Init /\ [][Next]_vars

-----------------------------------------------------------------------------
(***************************************************************************)
(* The type invariant: numbers stay in their range, the ring buffer never  *)
(* holds more than its capacity, frames are well formed.                   *)
(***************************************************************************)
Frames == [type : {"USR", "RTX"}, seq : Seqs, packet : Nat]
Naks == [seq : Seqs, at : Nat]

TypeOK ==
  /\ txSeq \in Seqs
  /\ rxSeq \in Seqs
  /\ history \in Seq(Nat) /\ Len(history) <= HistoryCapacity
  /\ data \in Seq(Frames)
  /\ naks \in Seq(Naks)
  /\ sent \in Nat
  /\ delivered \in Seq(Nat)

(***************************************************************************)
(* The inductive invariant, part by part.                                  *)
(***************************************************************************)
\* The two endpoints' numbers are their positions in the stream.
Numbering ==
  /\ txSeq = sent % SeqRange
  /\ rxSeq = Len(delivered) % SeqRange
  /\ Len(delivered) <= sent

\* What was delivered is what was written, in order.
DeliveredInOrder == \A i \in 1 .. Len(delivered) : delivered[i] = i

\* The history is the newest end of what was written, and reaches back far
\* enough for the oldest NAK that may still arrive.
HistoryCovers ==
  /\ Len(history) <= sent
  /\ \A i \in 1 .. Len(history) : history[i] = sent - Len(history) + i
  /\ sent - Len(history) <= Confirmed

\* The NAKs in flight name positions that grow from oldest to newest.
NaksOrdered ==
  /\ \A i \in 1 .. Len(naks) :
       /\ naks[i].seq = naks[i].at % SeqRange
       /\ naks[i].at <= Len(delivered)
  /\ \A i, j \in 1 .. Len(naks) : i <= j => naks[i].at <= naks[j].at

WindowKept == sent - Confirmed <= Window

\* A frame in flight is numbered by its packet's position, and neither the
\* receiver nor a frame ahead of it is a whole numbering cycle past it.
DataUnambiguous ==
  /\ \A i \in 1 .. Len(data) :
       /\ data[i].packet \in 1 .. sent
       /\ data[i].seq = (data[i].packet - 1) % SeqRange
       /\ Len(delivered) <= data[i].packet + SeqRange - 2
  /\ \A i, j \in 1 .. Len(data) :
       i < j => data[i].packet <= data[j].packet + SeqRange - 2

(***************************************************************************)
(* Why sequence numbers modulo SeqRange and a history of HistoryCapacity   *)
(* packets are enough while at most Window packets are outstanding, under  *)
(* loss, damage and NAKs that cross data: the conjunction of the parts.    *)
(***************************************************************************)
IndInv ==
  /\ TypeOK
  /\ Numbering
  /\ DeliveredInOrder
  /\ HistoryCovers
  /\ NaksOrdered
  /\ WindowKept
  /\ DataUnambiguous

(***************************************************************************)
(* sfpTransmitHistoryFromSeq never takes its "lost by history buffer       *)
(* underrun" branch, however stale the NAK it answers is.                  *)
(***************************************************************************)
NoUnderrun ==
  naks # << >> /\ Head(naks).seq # txSeq =>
    ~ Underrun(history, txSeq, Head(naks).seq)

(***************************************************************************)
(* sfpWritePacket and the deliver callback form a channel that neither     *)
(* loses, duplicates nor reorders: this protocol implements                *)
(* MessageChannel.                                                         *)
(***************************************************************************)
Channel == INSTANCE MessageChannel
ReliableInOrder == Channel!Spec
=============================================================================
