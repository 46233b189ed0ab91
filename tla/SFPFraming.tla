----------------------------- MODULE SFPFraming -----------------------------
(***************************************************************************)
(* How libsfp puts frames on a line of octets and finds them again:        *)
(* sfpTransmitFrameWithHeader and its escaping on one side,                *)
(* sfpDeliverOctet, sfpBufferOctet and the checks of sfpHandleFrame on the *)
(* other, and between them a line that drops and garbles octets.           *)
(*                                                                         *)
(* A frame is the sequence of its header octet and its payload.  Octets    *)
(* are told apart by name; n and Flipped(n) differ by SFP_ESC_FLIP_BIT.    *)
(* The two CRC octets of a frame are octets that remember what they were   *)
(* computed from: the CRC is good exactly if they end the octets they      *)
(* belong to, so damage the CRC cannot see is left out.                    *)
(***************************************************************************)
EXTENDS Naturals, Sequences

CONSTANTS MaxPacket,    \* SFP_CONFIG_MAX_PACKET_SIZE, 256 by default
          Traffic,      \* the frames there are to transmit
          MaxFaults,    \* bound: octets dropped or garbled, receiver resets
          MaxKeepalives \* bound: heartbeat FLAG octets

ASSUME BoundsAssumption == MaxPacket \in Nat /\ MaxFaults \in Nat /\ MaxKeepalives \in Nat

CrcSize == 2            \* SFP_CRC_SIZE

Octet(name) == [name |-> name, of |-> << >>]
CrcOctet(name, content) == [name |-> name, of |-> content]

FLAG == Octet("FLAG")
ESC == Octet("ESC")

\* octet ^ SFP_ESC_FLIP_BIT
Flipped ==
  [ FLAG |-> "flag", flag |-> "FLAG", ESC |-> "esc", esc |-> "ESC",
    x |-> "X", X |-> "x", crcLow |-> "CRCLOW", CRCLOW |-> "crcLow",
    crcHigh |-> "CRCHIGH", CRCHIGH |-> "crcHigh" ]
Flip(o) == [o EXCEPT !.name = Flipped[@]]

\* A frame has a header at least, and no CRC octets of its own.
PlainOctets == [name : DOMAIN Flipped, of : {<< >>}]
ASSUME TrafficAssumption == Traffic \subseteq Seq(PlainOctets) \ {<< >>}

isReservedOctet(o) == o \in {FLAG, ESC}

VARIABLES line,      \* octets in flight, each with the number of its frame
          sent,      \* the frames transmitted, in order
          rx,        \* SFPreceiver: escapeState, frameState, header, packet, crc
          accepted,  \* the frames that passed sfpHandleFrame's checks, in order
          naks,      \* NAKs sfpHandleFrame has sent
          damaged,   \* numbers of the frames that a fault or a heartbeat broke
          keepalives, faults

vars == <<line, sent, rx, accepted, naks, damaged, keepalives, faults>>

-----------------------------------------------------------------------------
(***************************************************************************)
(* The transmitter.                                                        *)
(***************************************************************************)
\* sfpWriteNoCRC.  A CRC octet may have a reserved value; escape says if so.
Written(o, escape) == IF isReservedOctet(o) \/ escape THEN <<ESC, Flip(o)>> ELSE <<o>>

\* sfpWrite for each octet of content
WrittenAll(content) ==
  LET upTo[i \in 0 .. Len(content)] ==
        IF i = 0 THEN << >> ELSE upTo[i - 1] \o Written(content[i], FALSE)
  IN  upTo[Len(content)]

\* sfpTransmitFrameWithHeader; escapes: which CRC octets have reserved values
FrameOctets(content, escapes) ==
  <<FLAG>> \o WrittenAll(content)
    \o Written(CrcOctet("crcLow", content), "crcLow" \in escapes)
    \o Written(CrcOctet("crcHigh", content), "crcHigh" \in escapes)
    \o <<FLAG>>

Numbered(octets, frame) ==
  [i \in 1 .. Len(octets) |-> [octet |-> octets[i], frame |-> frame]]

\* One frame.  Frames are told apart by their content, so none is sent twice.
Transmit ==
  /\ \E f \in Traffic, escapes \in SUBSET {"crcLow", "crcHigh"} :
       /\ \A i \in 1 .. Len(sent) : sent[i] # f
       /\ sent' = Append(sent, f)
       /\ line' = line \o Numbered(FrameOctets(f, escapes), Len(sent'))
  /\ UNCHANGED <<rx, accepted, naks, damaged, keepalives, faults>>

\* A FLAG octet between frames, as the users of libsfp send it.
Keepalive ==
  /\ keepalives < MaxKeepalives
  /\ keepalives' = keepalives + 1
  /\ line' = line \o Numbered(<<FLAG>>, 0)
  /\ UNCHANGED <<sent, rx, accepted, naks, damaged, faults>>

(***************************************************************************)
(* A thread that sends heartbeats holds no lock of the transmitter, so a   *)
(* FLAG may get between the octets of a frame as well.  The line keeps the *)
(* order: the FLAG may as well join it when the octet behind it is next to *)
(* arrive.  It breaks the frame, unless that octet is one of the frame's   *)
(* FLAGs; right behind the opening FLAG it is as good as right before it.  *)
(***************************************************************************)
KeepaliveAtHead ==
  /\ line # << >> /\ keepalives < MaxKeepalives
  /\ keepalives' = keepalives + 1
  /\ line' = <<[Head(line) EXCEPT !.octet = FLAG]>> \o line
  /\ damaged' = IF Head(line).octet = FLAG THEN damaged
                                           ELSE damaged \cup {Head(line).frame}
  /\ UNCHANGED <<sent, rx, accepted, naks, faults>>

-----------------------------------------------------------------------------
(***************************************************************************)
(* The receiver.                                                           *)
(***************************************************************************)
\* Variant: leaves a pending escape.
ResetFrame(r) == [r EXCEPT !.crc = << >>, !.frameState = "NEW", !.packet = << >>]

\* sfpResetReceiver; the header keeps its old value until the next octet.
Reset(r) ==
  [r EXCEPT !.crc = << >>, !.escapeState = "NORMAL", !.frameState = "NEW",
            !.packet = << >>]

\* Variant: lets one octet too many in.
BufferOctetLate(r, o) ==
  IF Len(r.packet) > MaxPacket
    THEN Reset(r)
    ELSE [r EXCEPT !.packet = Append(@, o)]

\* sfpBufferOctet
BufferOctet(r, o) ==
  IF Len(r.packet) >= MaxPacket
    THEN Reset(r)
    ELSE [r EXCEPT !.packet = Append(@, o)]

\* crc = SFP_CRC_GOOD, when crc stands for the octets it was updated with
CrcGood(crc) ==
  LET content == SubSeq(crc, 1, Len(crc) - CrcSize) IN
  /\ Len(crc) > CrcSize
  /\ crc[Len(crc) - 1] = CrcOctet("crcLow", content)
  /\ crc[Len(crc)] = CrcOctet("crcHigh", content)

\* Variant: does not look at the CRC.
FrameLongEnough(r) == Len(r.packet) >= CrcSize

\* sfpHandleFrame up to its switch: is there a whole frame?
FrameGood(r) == Len(r.packet) >= CrcSize /\ CrcGood(r.crc)

ReceivedFrame(r) == <<r.header>> \o SubSeq(r.packet, 1, Len(r.packet) - CrcSize)

\* An octet other than FLAG and ESC, after undoing its escape
Unescaped(r, o) == IF r.escapeState = "ESCAPING" THEN Flip(o) ELSE o

ReceiveOctet(r, o) ==
  LET s == [r EXCEPT !.escapeState = "NORMAL", !.crc = Append(@, o)] IN
  IF r.frameState = "NEW"
    THEN [s EXCEPT !.header = o, !.frameState = "RECEIVING"]
    ELSE BufferOctet(s, o)

\* sfpDeliverOctet, with the state it leaves but for what sfpHandleFrame does
AfterOctet(r, o) ==
  CASE o = FLAG -> Reset(r)
    [] o = ESC -> [r EXCEPT !.escapeState = "ESCAPING"]
    [] OTHER -> ReceiveOctet(r, Unescaped(r, o))

\* Variant: takes two FLAG octets in a row for an empty frame.
AnyFlag(o) == o = FLAG

EndsFrame(o) == o = FLAG /\ rx.frameState = "RECEIVING"

DeliverOctet ==
  /\ line # << >>
  /\ LET o == Head(line).octet IN
     /\ rx' = AfterOctet(rx, o)
     /\ IF EndsFrame(o) /\ FrameGood(rx)
          THEN accepted' = Append(accepted, ReceivedFrame(rx))
          ELSE UNCHANGED accepted
     /\ naks' = IF EndsFrame(o) /\ ~ FrameGood(rx) THEN naks + 1 ELSE naks
  /\ line' = Tail(line)
  /\ UNCHANGED <<sent, damaged, keepalives, faults>>

-----------------------------------------------------------------------------
(***************************************************************************)
(* The line drops an octet or turns it into another; the user calls        *)
(* sfpConnect, which resets the receiver in the middle of whatever is      *)
(* arriving.                                                               *)
(***************************************************************************)
Garbled == {FLAG, ESC, Octet("x")}

Damage(frame) ==
  /\ faults < MaxFaults
  /\ faults' = faults + 1
  /\ damaged' = damaged \cup {frame}

DropOctet ==
  /\ line # << >> /\ Damage(Head(line).frame)
  /\ line' = Tail(line)
  /\ UNCHANGED <<sent, rx, accepted, naks, keepalives>>

GarbleOctet ==
  /\ line # << >> /\ Damage(Head(line).frame)
  /\ \E o \in Garbled \ {Head(line).octet} :
       line' = <<[Head(line) EXCEPT !.octet = o]>> \o Tail(line)
  /\ UNCHANGED <<sent, rx, accepted, naks, keepalives>>

ResetReceiver ==
  /\ line # << >> /\ Damage(Head(line).frame)
  /\ rx' = Reset(rx)
  /\ UNCHANGED <<line, sent, accepted, naks, keepalives>>

-----------------------------------------------------------------------------
Init ==
  /\ line = << >> /\ sent = << >> /\ accepted = << >>
  /\ rx = [escapeState |-> "NORMAL", frameState |-> "NEW",
           header |-> Octet("x"), packet |-> << >>, crc |-> << >>]
  /\ naks = 0 /\ damaged = {} /\ keepalives = 0 /\ faults = 0

Next ==
  \/ Transmit \/ Keepalive \/ KeepaliveAtHead
  \/ DeliverOctet \/ DropOctet \/ GarbleOctet \/ ResetReceiver

Spec == Init /\ [][Next]_vars

-----------------------------------------------------------------------------
(***************************************************************************)
(* The receiver's buffer never overflows, whatever arrives between two     *)
(* FLAG octets.                                                            *)
(***************************************************************************)
TypeOK ==
  /\ rx.escapeState \in {"NORMAL", "ESCAPING"}
  /\ rx.frameState \in {"NEW", "RECEIVING"}
  /\ Len(rx.packet) <= MaxPacket
  /\ naks \in Nat /\ damaged \subseteq 0 .. Len(sent)
  /\ faults \in 0 .. MaxFaults /\ keepalives \in 0 .. MaxKeepalives

(***************************************************************************)
(* The receiver accepts only frames that were transmitted, each at most    *)
(* once and in their order, whatever the line does to the octets.  So at   *)
(* the level of frames a medium loses and damages frames, and does nothing *)
(* else.                                                                   *)
(***************************************************************************)
AcceptsSubsequence ==
  \E at \in [1 .. Len(accepted) -> 1 .. Len(sent)] :
    /\ \A i, j \in 1 .. Len(accepted) : i < j => at[i] < at[j]
    /\ \A i \in 1 .. Len(accepted) : accepted[i] = sent[at[i]]

(***************************************************************************)
(* A frame all of whose octets arrive untouched is accepted, whatever      *)
(* garbage precedes it: its opening FLAG resynchronizes the receiver, also *)
(* in the middle of an escape or after an overrun of the buffer.  So a     *)
(* heartbeat FLAG inside a frame costs that frame and none behind it.      *)
(***************************************************************************)
Resynchronizes ==
  line = << >> =>
    \A i \in 1 .. Len(sent) \ damaged :
      \E j \in 1 .. Len(accepted) : accepted[j] = sent[i]

(***************************************************************************)
(* While no frame is broken none is answered with a NAK: heartbeat FLAG    *)
(* octets between frames, or next to the FLAG that opens or closes one, do *)
(* not count as frames.                                                    *)
(***************************************************************************)
CleanLineNoNAK == damaged = {} => naks = 0

(***************************************************************************)
(* sfpWritePacket (line 230) asserts that a packet of up to                *)
(* SFP_CONFIG_MAX_PACKET_SIZE octets can be sent: on a clean line it       *)
(* arrives.                                                                *)
(***************************************************************************)
PacketsUpToMaxArrive ==
  line = << >> /\ damaged = {} => accepted = sent
=============================================================================
