--------------------------- MODULE MessageChannel ---------------------------
(***************************************************************************)
(* What one direction of a connected libsfp link promises its user: the    *)
(* messages given to sfpWritePacket come out of the deliver callback in    *)
(* the order written, none twice and none left out.  The i-th message      *)
(* written is called i.                                                    *)
(***************************************************************************)
EXTENDS Naturals, Sequences

VARIABLES sent,       \* how many messages have been written
          delivered   \* the messages delivered, in order

Init == sent = 0 /\ delivered = << >>

Send == sent' = sent + 1 /\ UNCHANGED delivered

Deliver ==
  /\ Len(delivered) < sent
  /\ delivered' = Append(delivered, Len(delivered) + 1)
  /\ UNCHANGED sent

Next == Send \/ Deliver

Spec == Init /\ [][Next]_<<sent, delivered>>
=============================================================================
