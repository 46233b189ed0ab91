------------------------------- MODULE SFPLink -------------------------------
(***************************************************************************)
(* Two libsfp endpoints and the two wires between them: the handshake, the *)
(* data transfer in both directions and what happens when they overlap.    *)
(* Each endpoint is an SFPcontext driven by one thread; every action is    *)
(* one call into libsfp, run to its end: sfpInit, sfpConnect,              *)
(* sfpWritePacket, or the call of sfpDeliverOctet that hands it the        *)
(* closing FLAG of a frame.  A wire is the sequence of the frames on their *)
(* way to an endpoint.                                                     *)
(***************************************************************************)
EXTENDS SFPTransmitter

CONSTANTS Nodes,         \* the two endpoints
          Initiators,    \* the endpoints whose user calls sfpConnect
          WriteStates,   \* the connect states in which a user writes packets
          MaxConnects,   \* bound: calls of sfpConnect by each initiator
          MaxInits,      \* bound: calls of sfpInit after the first, by anyone
          MaxSent,       \* bound: packets written by each endpoint
          MaxFaults      \* bound: faults of the medium

ASSUME NodesAssumption == \E a, b \in Nodes : a # b /\ Nodes = {a, b}
ASSUME BoundsAssumption ==
  MaxConnects \in Nat /\ MaxInits \in Nat /\ MaxSent \in Nat /\ MaxFaults \in Nat

\* A SYN frame carries SYN0, SYN1, SYN2 or DIS in its sequence number bits.
ASSUME SynAssumption == SeqRange >= 4

SYN0 == [type |-> "SYN", seq |-> 0]
SYN1 == [type |-> "SYN", seq |-> 1]
SYN2 == [type |-> "SYN", seq |-> 2]
DIS  == [type |-> "SYN", seq |-> 3]

NAK(seq) == [type |-> "NAK", seq |-> seq]

\* What is left of a frame whose beginning the receiver has thrown away.
Remnant == [type |-> "BAD"]

ConnectStates == {"DISCONNECTED", "SENT_SYN0", "SENT_SYN1", "CONNECTED"}

VARIABLES connectState,   \* connectState of each endpoint
          rxSeq,          \* rx.seq
          txSeq,          \* tx.seq
          history,        \* tx.history
          wire,           \* frames on their way to each endpoint, oldest first
          sent,           \* packets written by each endpoint; the i-th is i
          delivered,      \* packets delivered to each endpoint's user, in order
          base,           \* sent, when the transmitter was last reset
          connects,       \* sfpConnect calls of each endpoint
          inits,          \* sfpInit calls after the first
          faults          \* faults of the medium

numbers == <<rxSeq, txSeq, history>>
users == <<sent, delivered, base>>
budget == <<connects, inits, faults>>
vars == <<connectState, numbers, wire, users, budget>>

Peer(n) == CHOOSE m \in Nodes : m # n

InitIn(state) ==
  /\ connectState = [n \in Nodes |-> state]
  /\ rxSeq = [n \in Nodes |-> InitialSeq]
  /\ txSeq = [n \in Nodes |-> InitialSeq]
  /\ history = [n \in Nodes |-> << >>]
  /\ wire = [n \in Nodes |-> << >>]
  /\ sent = [n \in Nodes |-> 0]
  /\ delivered = [n \in Nodes |-> << >>]
  /\ base = [n \in Nodes |-> 0]
  /\ connects = [n \in Nodes |-> 0]
  /\ inits = 0
  /\ faults = 0

Init == InitIn("DISCONNECTED")

-----------------------------------------------------------------------------
(***************************************************************************)
(* Steps shared by the handlers.                                           *)
(***************************************************************************)
\* n takes the next frame off its wire and transmits out.
Consume(n, out) ==
  wire' = [wire EXCEPT ![n] = Tail(@), ![Peer(n)] = @ \o out]

Enter(n, state) == connectState' = [connectState EXCEPT ![n] = state]

\* Variant: leaves the number the receiver waits for.
ResetTransmitter(n) ==
  /\ txSeq' = [txSeq EXCEPT ![n] = InitialSeq]
  /\ history' = [history EXCEPT ![n] = << >>]
  /\ base' = [base EXCEPT ![n] = sent[n]]
  /\ UNCHANGED rxSeq

\* The common part of sfpConnect and sfpHandleSYN0.
ResetNumbers(n) ==
  /\ rxSeq' = [rxSeq EXCEPT ![n] = InitialSeq]
  /\ txSeq' = [txSeq EXCEPT ![n] = InitialSeq]
  /\ history' = [history EXCEPT ![n] = << >>]
  /\ base' = [base EXCEPT ![n] = sent[n]]

\* n consumes a frame, transmits out and then its history from seq on.
ConsumeAndTransmitHistoryFrom(n, out, seq) ==
  LET kept == KeptHistory(history[n], txSeq[n], seq) IN
  /\ history' = [history EXCEPT ![n] = kept]
  /\ txSeq' = [txSeq EXCEPT ![n] = SeqAfter(kept, seq)]
  /\ Consume(n, out \o Retransmissions(kept, seq))
  /\ UNCHANGED rxSeq

\* The reply to data and NAKs by an endpoint that is not connected.
Rebuff(state) ==
  CASE state = "DISCONNECTED" -> DIS
    [] state = "SENT_SYN0" -> SYN0
    [] state = "SENT_SYN1" -> SYN1

Arrives(n, type) == wire[n] # << >> /\ Head(wire[n]).type = type
ArrivesSYN(n, syn) == wire[n] # << >> /\ Head(wire[n]) = syn

-----------------------------------------------------------------------------
(***************************************************************************)
(* Calls of the user.                                                      *)
(***************************************************************************)
(***************************************************************************)
(* sfpResetReceiver can strike while a frame is arriving.  The rest of the *)
(* frame is then nothing (only its closing FLAG was missing) or a remnant. *)
(***************************************************************************)
AfterReceiverReset(w) ==
  {w} \cup IF w = << >> THEN {} ELSE {Tail(w), <<Remnant>> \o Tail(w)}

\* sfpConnect
Connect(n) ==
  /\ n \in Initiators /\ connects[n] < MaxConnects
  /\ connects' = [connects EXCEPT ![n] = @ + 1]
  /\ ResetNumbers(n)
  /\ \E w \in AfterReceiverReset(wire[n]) :
       wire' = [wire EXCEPT ![n] = w, ![Peer(n)] = Append(@, SYN0)]
  /\ Enter(n, "SENT_SYN0")
  /\ UNCHANGED <<sent, delivered, inits, faults>>

\* sfpInit, called again by Context::initialize.  It leaves the history alone.
Reinit(n) ==
  /\ inits < MaxInits
  /\ inits' = inits + 1
  /\ Enter(n, "DISCONNECTED")
  /\ rxSeq' = [rxSeq EXCEPT ![n] = InitialSeq]
  /\ txSeq' = [txSeq EXCEPT ![n] = InitialSeq]
  /\ base' = [base EXCEPT ![n] = sent[n]]
  /\ \E w \in AfterReceiverReset(wire[n]) : wire' = [wire EXCEPT ![n] = w]
  /\ UNCHANGED <<history, sent, delivered, connects, faults>>

\* sfpWritePacket
WritePacket(n) ==
  /\ connectState[n] \in WriteStates /\ sent[n] < MaxSent
  /\ sent' = [sent EXCEPT ![n] = @ + 1]
  /\ history' = [history EXCEPT ![n] = PushBack(@, sent[n] + 1)]
  /\ wire' = [wire EXCEPT ![Peer(n)] =
                Append(@, DataFrame("USR", txSeq[n], sent[n] + 1))]
  /\ txSeq' = [txSeq EXCEPT ![n] = nextSeq(@)]
  /\ UNCHANGED <<connectState, rxSeq, delivered, base, budget>>

-----------------------------------------------------------------------------
(***************************************************************************)
(* Handlers of frames that arrive intact.                                  *)
(***************************************************************************)
\* Variant: an endpoint that has sent SYN0 itself waits for its SYN1.
AwaitSYN1(n) ==
  /\ ArrivesSYN(n, SYN0)
  /\ IF connectState[n] = "SENT_SYN0"
       THEN Consume(n, << >>) /\ UNCHANGED <<connectState, numbers, base>>
       ELSE ResetNumbers(n) /\ Consume(n, <<SYN1>>) /\ Enter(n, "SENT_SYN1")
  /\ UNCHANGED <<sent, delivered, budget>>

\* sfpHandleSYN0: all connect states do the same thing.
HandleSYN0(n) ==
  /\ ArrivesSYN(n, SYN0)
  /\ ResetNumbers(n)
  /\ Consume(n, <<SYN1>>)
  /\ Enter(n, "SENT_SYN1")
  /\ UNCHANGED <<sent, delivered, budget>>

\* A SYN1 or SYN2 that finds no connection being made.
SYNWhileDisconnected(n) ==
  /\ ArrivesSYN(n, SYN1) \/ ArrivesSYN(n, SYN2)
  /\ connectState[n] = "DISCONNECTED"
  /\ Consume(n, <<DIS>>)
  /\ UNCHANGED <<connectState, numbers, users, budget>>

\* The end of sfpHandleSYN1 and sfpHandleSYN2.
BecomeConnected(n, out) ==
  /\ IF txSeq[n] = InitialSeq
       THEN Consume(n, out) /\ UNCHANGED numbers
       ELSE ConsumeAndTransmitHistoryFrom(n, out, InitialSeq)
  /\ Enter(n, "CONNECTED")
  /\ UNCHANGED <<users, budget>>

\* Variant: forgets the SYN2.
ConnectSilently(n) ==
  /\ ArrivesSYN(n, SYN1)
  /\ connectState[n] # "DISCONNECTED"
  /\ BecomeConnected(n, << >>)

HandleSYN1(n) ==
  /\ ArrivesSYN(n, SYN1)
  /\ connectState[n] # "DISCONNECTED"
  /\ BecomeConnected(n, <<SYN2>>)

\* Variant: answers a SYN2 like a SYN1.
EchoSYN2(n) ==
  /\ ArrivesSYN(n, SYN2)
  /\ connectState[n] \in {"SENT_SYN1", "CONNECTED"}
  /\ BecomeConnected(n, <<SYN2>>)

HandleSYN2(n) ==
  /\ ArrivesSYN(n, SYN2)
  /\ connectState[n] \in {"SENT_SYN1", "CONNECTED"}
  /\ BecomeConnected(n, << >>)

SYN2AfterSYN0(n) ==
  /\ ArrivesSYN(n, SYN2)
  /\ connectState[n] = "SENT_SYN0"
  /\ Consume(n, <<SYN0>>)
  /\ UNCHANGED <<connectState, numbers, users, budget>>

HandleDIS(n) ==
  /\ ArrivesSYN(n, DIS)
  /\ Consume(n, << >>)
  /\ Enter(n, "DISCONNECTED")
  /\ UNCHANGED <<numbers, users, budget>>

\* Variant: an endpoint that is not connected drops frames.
DropFrame(n) ==
  /\ Arrives(n, "USR") \/ Arrives(n, "RTX") \/ Arrives(n, "NAK")
  /\ connectState[n] # "CONNECTED"
  /\ Consume(n, << >>)
  /\ UNCHANGED <<connectState, numbers, users, budget>>

\* sfpHandleUSR and sfpHandleNAK while not connected
RebuffFrame(n) ==
  /\ Arrives(n, "USR") \/ Arrives(n, "RTX") \/ Arrives(n, "NAK")
  /\ connectState[n] # "CONNECTED"
  /\ Consume(n, <<Rebuff(connectState[n])>>)
  /\ UNCHANGED <<connectState, numbers, users, budget>>

IgnoreNAK(n) ==
  /\ Arrives(n, "NAK") /\ connectState[n] = "CONNECTED"
  /\ Head(wire[n]).seq = txSeq[n]
  /\ Consume(n, << >>)
  /\ UNCHANGED <<connectState, numbers, users, budget>>

AnswerNAK(n) ==
  /\ Arrives(n, "NAK") /\ connectState[n] = "CONNECTED"
  /\ Head(wire[n]).seq # txSeq[n]
  /\ ConsumeAndTransmitHistoryFrom(n, << >>, Head(wire[n]).seq)
  /\ UNCHANGED <<connectState, users, budget>>

\* Variant: accepts data before the handshake is over.
DeliverInAnyState(n) ==
  /\ Arrives(n, "USR") \/ Arrives(n, "RTX")
  /\ Head(wire[n]).seq = rxSeq[n]
  /\ delivered' = [delivered EXCEPT ![n] = Append(@, Head(wire[n]).packet)]
  /\ rxSeq' = [rxSeq EXCEPT ![n] = nextSeq(@)]
  /\ Consume(n, << >>)
  /\ UNCHANGED <<connectState, txSeq, history, sent, base, budget>>

Deliver(n) ==
  /\ Arrives(n, "USR") \/ Arrives(n, "RTX")
  /\ connectState[n] = "CONNECTED"
  /\ Head(wire[n]).seq = rxSeq[n]
  /\ delivered' = [delivered EXCEPT ![n] = Append(@, Head(wire[n]).packet)]
  /\ rxSeq' = [rxSeq EXCEPT ![n] = nextSeq(@)]
  /\ Consume(n, << >>)
  /\ UNCHANGED <<connectState, txSeq, history, sent, base, budget>>

\* Variant: the NAK names the frame that came instead of the missing one.
RejectByItsNumber(n) ==
  /\ Arrives(n, "USR") /\ connectState[n] = "CONNECTED"
  /\ Head(wire[n]).seq # rxSeq[n]
  /\ Consume(n, <<NAK(Head(wire[n]).seq)>>)
  /\ UNCHANGED <<connectState, numbers, users, budget>>

RejectOutOfOrder(n) ==
  /\ Arrives(n, "USR") /\ connectState[n] = "CONNECTED"
  /\ Head(wire[n]).seq # rxSeq[n]
  /\ Consume(n, <<NAK(rxSeq[n])>>)
  /\ UNCHANGED <<connectState, numbers, users, budget>>

IgnoreRetransmission(n) ==
  /\ Arrives(n, "RTX") /\ connectState[n] = "CONNECTED"
  /\ Head(wire[n]).seq # rxSeq[n]
  /\ Consume(n, << >>)
  /\ UNCHANGED <<connectState, numbers, users, budget>>

\* sfpHandleFrame on a frame that is too short or fails the CRC, in any state
RejectRemnant(n) ==
  /\ Arrives(n, "BAD")
  /\ Consume(n, <<NAK(rxSeq[n])>>)
  /\ UNCHANGED <<connectState, numbers, users, budget>>

-----------------------------------------------------------------------------
(***************************************************************************)
(* The medium: a frame is lost, a frame arrives damaged, noise arrives.    *)
(***************************************************************************)
Fault(n) ==
  /\ faults < MaxFaults
  /\ faults' = faults + 1
  /\ \/ wire[n] # << >> /\ Consume(n, << >>)
     \/ wire[n] # << >> /\ Consume(n, <<NAK(rxSeq[n])>>)
     \/ wire' = [wire EXCEPT ![Peer(n)] = Append(@, NAK(rxSeq[n]))]
  /\ UNCHANGED <<connectState, numbers, users, connects, inits>>

-----------------------------------------------------------------------------
HandleSYN(n) ==
  \/ HandleSYN0(n) \/ HandleSYN1(n) \/ HandleSYN2(n) \/ SYN2AfterSYN0(n)
  \/ HandleDIS(n) \/ SYNWhileDisconnected(n)

HandleNAK(n) == IgnoreNAK(n) \/ AnswerNAK(n)

HandleUSR(n) == Deliver(n) \/ RejectOutOfOrder(n) \/ IgnoreRetransmission(n)

HandleFrame(n) ==
  HandleSYN(n) \/ HandleNAK(n) \/ HandleUSR(n) \/ RebuffFrame(n) \/ RejectRemnant(n)

UserCall(n) == Connect(n) \/ Reinit(n) \/ WritePacket(n)

Next == \E n \in Nodes : HandleFrame(n) \/ UserCall(n) \/ Fault(n)

(***************************************************************************)
(* Each endpoint keeps reading its wire; the users and the medium are not  *)
(* obliged to do anything, and libsfp has no timer.                        *)
(***************************************************************************)
Fairness == \A n \in Nodes : WF_vars(HandleFrame(n))

Spec == Init /\ [][Next]_vars
FairSpec == Spec /\ Fairness

\* A link whose handshake is done, as it looks before any packet is written.
ConnectedSpec == InitIn("CONNECTED") /\ [][Next]_vars

-----------------------------------------------------------------------------
Frames == [type : {"USR", "RTX"}, seq : Seqs, packet : 1 .. MaxSent]
            \cup [type : {"NAK"}, seq : Seqs]
            \cup {SYN0, SYN1, SYN2, DIS, Remnant}

(***************************************************************************)
(* The type invariant.                                                     *)
(***************************************************************************)
TypeOK ==
  /\ connectState \in [Nodes -> ConnectStates]
  /\ rxSeq \in [Nodes -> Seqs]
  /\ txSeq \in [Nodes -> Seqs]
  /\ history \in [Nodes -> Seq(1 .. MaxSent)]
  /\ \A n \in Nodes : Len(history[n]) <= HistoryCapacity
  /\ wire \in [Nodes -> Seq(Frames)]
  /\ sent \in [Nodes -> 0 .. MaxSent]
  /\ delivered \in [Nodes -> Seq(1 .. MaxSent)]
  /\ base \in [Nodes -> 0 .. MaxSent]
  /\ connects \in [Nodes -> 0 .. MaxConnects]
  /\ inits \in 0 .. MaxInits
  /\ faults \in 0 .. MaxFaults

Quiet == \A n \in Nodes : wire[n] = << >>

Connected(n) == connectState[n] = "CONNECTED"
=============================================================================
