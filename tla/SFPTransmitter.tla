--------------------------- MODULE SFPTransmitter ---------------------------
(***************************************************************************)
(* The numbering and history part of libsfp's transmitter: the data of     *)
(* SFPtransmitter (seq, history) and the computations that                 *)
(* sfpTransmitFrameImpl, sfpTransmitHistoryFromSeq and sfpTransmitHistory  *)
(* do on it.  A frame on the wire is a record [type, seq, packet]; what a  *)
(* packet contains does not matter to the protocol, so it is left open.    *)
(***************************************************************************)
EXTENDS Integers, Sequences

CONSTANTS SeqRange,         \* SFP_SEQ_RANGE, 64 in the code
          HistoryCapacity   \* SFP_CONFIG_HISTORY_CAPACITY, 8 by default

(***************************************************************************)
(* A NAK names a position modulo SeqRange, so the history must be shorter  *)
(* than the numbering.  The code's values are 64 and 8.                    *)
(***************************************************************************)
ASSUME SeqRangeAssumption == SeqRange \in Nat
ASSUME HistoryAssumption == HistoryCapacity \in 1 .. (SeqRange - 1)

Seqs == 0 .. (SeqRange - 1)
InitialSeq == 0

nextSeqUnmasked(seq) == seq + 1   \* variant: forgets the mask
nextSeq(seq) == (seq + 1) % SeqRange

DataFrame(type, seq, packet) == [type |-> type, seq |-> seq, packet |-> packet]

(***************************************************************************)
(* util::PotRingbuffer::pushBack on a full ring drops the oldest packet.   *)
(***************************************************************************)
PushBackUnbounded(history, packet) == Append(history, packet)   \* variant

PushBack(history, packet) ==
  IF Len(history) < HistoryCapacity
    THEN Append(history, packet)
    ELSE Append(Tail(history), packet)

(***************************************************************************)
(* sfpTransmitHistoryFromSeq: how far seq lies beyond the oldest packet of *)
(* the history, whose own number is txSeq - Len(history).                  *)
(***************************************************************************)
FastForward(history, txSeq, seq) == (seq - (txSeq - Len(history))) % SeqRange

Underrun(history, txSeq, seq) == Len(history) <= FastForward(history, txSeq, seq)

\* Variant: also drops the packet that was asked for.
KeptAfter(history, txSeq, seq) ==
  IF Underrun(history, txSeq, seq)
    THEN history
    ELSE SubSeq(history, FastForward(history, txSeq, seq) + 2, Len(history))

(***************************************************************************)
(* The packets left in the history when it is fast-forwarded to seq.  On   *)
(* an underrun nothing is dropped, and the same packets are sent again     *)
(* under numbers that start at seq.                                        *)
(***************************************************************************)
KeptHistory(history, txSeq, seq) ==
  IF Underrun(history, txSeq, seq)
    THEN history
    ELSE SubSeq(history, FastForward(history, txSeq, seq) + 1, Len(history))

\* sfpTransmitHistory: the RTX frames for kept, numbered from seq on.
Retransmissions(kept, seq) ==
  [i \in 1 .. Len(kept) |-> DataFrame("RTX", (seq + i - 1) % SeqRange, kept[i])]

\* Variant: the retransmitted frames do not advance tx.seq.
SeqAfterNothing(kept, seq) == seq

\* The transmitter's number after it has retransmitted kept from seq on.
SeqAfter(kept, seq) == (seq + Len(kept)) % SeqRange
=============================================================================
