--------------------------- MODULE MCSFPTransfer ---------------------------
(***************************************************************************)
(* SFPTransfer on a finite instance: at most MaxSent packets are written   *)
(* and the medium misbehaves at most MaxFaults times.  With SeqRange       *)
(* smaller than MaxSent the numbering wraps around while frames and NAKs   *)
(* are in flight.                                                          *)
(***************************************************************************)
EXTENDS SFPTransfer

CONSTANTS MaxSent, MaxFaults

VARIABLE faults   \* faults so far

mcvars == <<vars, faults>>

MCInit == Init /\ faults = 0

BoundedWrite == sent < MaxSent /\ WritePacket /\ UNCHANGED faults
BoundedFault == faults < MaxFaults /\ Fault /\ faults' = faults + 1
Receive == HandleUSR /\ UNCHANGED faults
ReceiveNAK == HandleNAK /\ UNCHANGED faults

MCNext == BoundedWrite \/ BoundedFault \/ Receive \/ ReceiveNAK

(***************************************************************************)
(* Both endpoints read their wire for as long as there is something on it. *)
(* Nothing obliges the user to write or the medium to fail, and libsfp has *)
(* no timer.                                                               *)
(***************************************************************************)
MCSpec == MCInit /\ [][MCNext]_mcvars
Fairness == WF_mcvars(Receive) /\ WF_mcvars(ReceiveNAK)
FairSpec == MCSpec /\ Fairness

(***************************************************************************)
(* Any packet that arrives as a USR frame repairs every gap before it: if  *)
(* the medium does no further harm, everything up to that packet is        *)
(* delivered.  (sfpHandleUSR answers the gap with a NAK, sfpHandleNAK      *)
(* answers that from the history, and out-of-order retransmissions are     *)
(* ignored without another NAK.)                                           *)
(***************************************************************************)
USRArrives(i) ==
  data # << >> /\ Head(data).type = "USR" /\ Head(data).packet = i

GapRepaired ==
  \A i \in 1 .. MaxSent, k \in 0 .. MaxFaults :
    (USRArrives(i) /\ faults = k) ~> (Len(delivered) >= i \/ faults > k)
=============================================================================
