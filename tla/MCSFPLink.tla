------------------------------ MODULE MCSFPLink ------------------------------
(***************************************************************************)
(* What two endpoints promise each other, stated on small instances of     *)
(* SFPLink.                                                                *)
(***************************************************************************)
EXTENDS SFPLink

AllConnected == \A n \in Nodes : Connected(n)
AllDisconnected == \A n \in Nodes : connectState[n] = "DISCONNECTED"

WasDelivered(n, p) ==
  \E i \in 1 .. Len(delivered[Peer(n)]) : delivered[Peer(n)][i] = p

(***************************************************************************)
(* Either one fault of the medium or one end that is initialised anew, at  *)
(* any time; where nothing of the kind has happened the link is clean.     *)
(***************************************************************************)
OneDisruption == inits' + faults' <= 1

DisruptedSpec == Init /\ [][Next /\ OneDisruption]_vars /\ Fairness

Clean == inits + faults = 0

-----------------------------------------------------------------------------
(***************************************************************************)
(* On a medium without faults the two ends never disagree for good: once   *)
(* nothing is in flight, both are connected or both are not, however their *)
(* calls of sfpConnect and the SYN frames crossed.                         *)
(***************************************************************************)
QuietAgreement == Quiet /\ Clean => AllConnected \/ AllDisconnected

(***************************************************************************)
(* On a medium without faults, once both ends are connected and nothing is *)
(* in flight, each receiver expects what the other transmitter will send   *)
(* next, and has delivered everything written since that transmitter was   *)
(* last reset.  SYN1 and SYN2 frames that arrive late, when packets have   *)
(* been exchanged already, set the transmitter back to SFP_INITIAL_SEQ.    *)
(***************************************************************************)
QuietSync ==
  Quiet /\ Clean /\ AllConnected =>
    \A n \in Nodes :
      /\ rxSeq[Peer(n)] = txSeq[n]
      /\ \A p \in (base[n] + 1) .. sent[n] : WasDelivered(n, p)

(***************************************************************************)
(* On a medium without faults a connection that someone opens is made:     *)
(* sfpConnect leads to both ends being connected.                          *)
(***************************************************************************)
HandshakeCompletes ==
  \A n \in Nodes :
    (connectState[n] = "SENT_SYN0" /\ Clean) ~> (AllConnected \/ ~ Clean)

(***************************************************************************)
(* doc/handshake.txt, 29-33: what is written in the SENT_SYN0 or SENT_SYN1 *)
(* state is buffered in the history, so that the user can write right      *)
(* after sfpConnect: it is delivered once the connection is made.          *)
(***************************************************************************)
EarlyWritesArrive ==
  Quiet /\ AllConnected =>
    \A n \in Nodes : \A p \in 1 .. sent[n] : WasDelivered(n, p)

-----------------------------------------------------------------------------
(***************************************************************************)
(* No packet is delivered twice or out of order through a disruption, if   *)
(* packets are written only on a connected link and never more than the    *)
(* history holds: the SYN, NAK and data frames of before meet numbers that *)
(* were reset, and none of them makes sfpHandleUSR take an old packet      *)
(* again.  When both ends connect, two disruptions can do so.              *)
(***************************************************************************)
AtMostOnceInOrder ==
  \A n \in Nodes : \A i, j \in 1 .. Len(delivered[n]) :
    i < j => delivered[n][i] < delivered[n][j]

(***************************************************************************)
(* NAKs, SYNs and retransmissions answer each other, but the exchange      *)
(* always dies out: no two states of the ends keep each other busy.        *)
(***************************************************************************)
EventuallyQuiet == []<>Quiet

(***************************************************************************)
(* There is no timer that repeats a lost SYN.  Instead, any data or NAK    *)
(* that reaches an end in the middle of a handshake makes it repeat its    *)
(* SYN, which gets it out of the handshake, unless the medium fails again  *)
(* or a user resets an end again.                                          *)
(***************************************************************************)
Disruptions(n) == faults + inits + connects[n] + connects[Peer(n)]

HandshakeResumes ==
  \A n \in Nodes, k \in 0 .. (MaxFaults + MaxInits + 2 * MaxConnects) :
    ( /\ connectState[n] \in {"SENT_SYN0", "SENT_SYN1"}
      /\ Arrives(n, "USR") \/ Arrives(n, "RTX") \/ Arrives(n, "NAK")
      /\ Disruptions(n) = k )
    ~> (connectState[n] \in {"CONNECTED", "DISCONNECTED"} \/ Disruptions(n) > k)

-----------------------------------------------------------------------------
(***************************************************************************)
(* On a connected link, each direction by itself is SFPTransfer, although  *)
(* both share the wires and a damaged frame of one direction makes its     *)
(* receiver send a NAK about the other.  A NAK on a wire names one of the  *)
(* last SeqRange positions its sender has passed.                          *)
(***************************************************************************)
\* The frames of w that have one of types, in order.
Only(w, types) ==
  LET upTo[i \in 0 .. Len(w)] ==
        IF i = 0 THEN << >>
        ELSE IF w[i].type \in types THEN Append(upTo[i - 1], w[i])
        ELSE upTo[i - 1]
  IN  upTo[Len(w)]

DataFrom(n) == Only(wire[Peer(n)], {"USR", "RTX"})

NaksTo(n) ==
  LET naks == Only(wire[n], {"NAK"})
      At(seq) == Len(delivered[Peer(n)]) - ((rxSeq[Peer(n)] - seq) % SeqRange)
  IN  [i \in 1 .. Len(naks) |-> [seq |-> naks[i].seq, at |-> At(naks[i].seq)]]

Direction(n) == INSTANCE SFPTransfer WITH
  Window <- HistoryCapacity,
  txSeq <- txSeq[n],
  history <- history[n],
  rxSeq <- rxSeq[Peer(n)],
  data <- DataFrom(n),
  naks <- NaksTo(n),
  sent <- sent[n],
  delivered <- delivered[Peer(n)]

DirectionsAreTransfers ==
  /\ \A n \in Nodes : Direction(n)!Init
  /\ [][\A n \in Nodes :
          Direction(n)!Next \/ UNCHANGED Direction(n)!vars]_vars

(***************************************************************************)
(* A connected link whose users keep at most HistoryCapacity packets       *)
(* outstanding, as SFPTransfer assumes.                                    *)
(***************************************************************************)
UsersKeepWindow ==
  \A n \in Nodes : sent'[n] # sent[n] => Direction(n)!WindowOpen

WindowedSpec == InitIn("CONNECTED") /\ [][Next /\ UsersKeepWindow]_vars

-----------------------------------------------------------------------------
(***************************************************************************)
(* tests/sfp-echo.cpp, 79-103, run as sfp-echo-fuzzy (tests/CMakeLists.txt *)
(* line 33): a message that arrives is the oldest one not yet received, on *)
(* a medium that drops octets and with no limit on what is outstanding.    *)
(***************************************************************************)
EchoesInOrder ==
  \A n \in Nodes : \A i \in 1 .. Len(delivered[n]) : delivered[n][i] = i
=============================================================================
