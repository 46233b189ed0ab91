----------------------------- MODULE SFPThreads -----------------------------
(***************************************************************************)
(* sfp::Context with SFP_CONFIG_THREADSAFE: at each end one thread, the    *)
(* reader, hands what arrives to sfpDeliverOctet, while another, the user, *)
(* calls sfpConnect and sfpWritePacket; a mutex guards the transmitter.    *)
(* What a call does from one lock or unlock to the next, and the           *)
(* transmission of each frame, are steps of their own here.  SFPLink takes *)
(* every call as one step; this module shows that to be right.             *)
(*                                                                         *)
(* The users are those of tests/sfp-echo.cpp: one holds a mutex of its own *)
(* while it sends and takes it in its deliver callback, and the deliver    *)
(* callback of the other sends the message back.                           *)
(***************************************************************************)
EXTENDS SFPTransmitter

CONSTANTS Nodes,         \* the two endpoints
          Initiators,    \* the endpoints whose user calls sfpConnect
          Senders,       \* the endpoints whose user sends messages
          WriteStates,   \* the connect states in which it does
          Guarded,       \* those whose user has a mutex, messagesMutex
          Echoes,        \* those whose deliver callback sends the message back
          MaxConnects,   \* bound: calls of sfpConnect by each initiator
          MaxInits,      \* bound: calls of sfpInit after the first, by anyone
          MaxSent,       \* bound: packets written by each endpoint
          MaxFaults      \* bound: frames lost

ASSUME NodesAssumption == \E a, b \in Nodes : a # b /\ Nodes = {a, b}
ASSUME BoundsAssumption ==
  MaxConnects \in Nat /\ MaxInits \in Nat /\ MaxSent \in Nat /\ MaxFaults \in Nat

\* A SYN frame carries SYN0, SYN1, SYN2 or DIS in its sequence number bits.
ASSUME SynAssumption == SeqRange >= 4

VARIABLES connectState, rxSeq, txSeq, history,   \* the SFPcontext of each end
          wire, sent, delivered, base, connects, inits, faults,   \* as in SFPLink
          lock,       \* who holds mTransmitterMutex of each end, or "free"
          mutex,      \* who holds messagesMutex, or "free"
          at,         \* where each thread is in libsfp, or "idle"
          frame,      \* the frame the reader is about to act on, or NoFrame
          todo        \* what each thread is going to do before it unlocks

numbers == <<rxSeq, txSeq, history>>
users == <<sent, delivered, base>>
budget == <<connects, inits, faults>>
threads == <<lock, mutex, at, frame, todo>>
vars == <<connectState, numbers, wire, users, budget, threads>>

Threads == {"reader", "user"}
NoFrame == [type |-> "none"]

\* The frames of SFPLink, and what else a call does while it has the lock.
Entering(state) == [type |-> "enter", state |-> state]
Data(type, packet) == [type |-> type, packet |-> packet]
IsData(step) == step.type \in {"USR", "RTX"}

-----------------------------------------------------------------------------
(***************************************************************************)
(* The link as SFPLink sees it.  A call takes effect when it gets the lock *)
(* (what it is going to do counts as done), a delivery when the callback   *)
(* is called.                                                              *)
(***************************************************************************)
Pending(n) == todo[n]["reader"] \o todo[n]["user"]

\* What the transmitter of n is to a call that has the lock, and what it has
\* put on the line.
Transmitter(n) ==
  [state |-> connectState[n], txSeq |-> txSeq[n], history |-> history[n], out |-> << >>]

\* sfpTransmitFrameImpl and its like: one step.
Do(x, step) ==
  IF step.type = "enter" THEN [x EXCEPT !.state = step.state]
  ELSE IF IsData(step)
    THEN [x EXCEPT !.out = Append(@, DataFrame(step.type, x.txSeq, step.packet)),
                   !.txSeq = nextSeq(@),
                   !.history = IF step.type = "USR" THEN PushBack(@, step.packet) ELSE @]
  ELSE [x EXCEPT !.out = Append(@, step)]

DoAll(x, steps) ==
  LET after[i \in 0 .. Len(steps)] == IF i = 0 THEN x ELSE Do(after[i - 1], steps[i])
  IN  after[Len(steps)]

Promised(n) == DoAll(Transmitter(n), Pending(n))

Peer(n) == CHOOSE m \in Nodes : m # n

LinkConnectState == [n \in Nodes |-> Promised(n).state]
LinkTxSeq == [n \in Nodes |-> Promised(n).txSeq]
LinkHistory == [n \in Nodes |-> Promised(n).history]

LinkRxSeq ==
  [n \in Nodes |->
     IF at[n]["reader"] \in {"callback", "echo", "count"} THEN nextSeq(rxSeq[n]) ELSE rxSeq[n]]

LinkWire ==
  [n \in Nodes |->
     (IF frame[n] = NoFrame THEN << >> ELSE <<frame[n]>>) \o wire[n] \o Promised(Peer(n)).out]

Link == INSTANCE SFPLink WITH
  WriteStates <- {"DISCONNECTED", "SENT_SYN0", "SENT_SYN1", "CONNECTED"},
  connectState <- LinkConnectState, rxSeq <- LinkRxSeq, txSeq <- LinkTxSeq,
  history <- LinkHistory, wire <- LinkWire

SYN0 == Link!SYN0
SYN1 == Link!SYN1
SYN2 == Link!SYN2
DIS == Link!DIS
NAK(seq) == Link!NAK(seq)

-----------------------------------------------------------------------------
Init ==
  /\ connectState = [n \in Nodes |-> "DISCONNECTED"]
  /\ rxSeq = [n \in Nodes |-> InitialSeq]
  /\ txSeq = [n \in Nodes |-> InitialSeq]
  /\ history = [n \in Nodes |-> << >>]
  /\ wire = [n \in Nodes |-> << >>]
  /\ sent = [n \in Nodes |-> 0]
  /\ delivered = [n \in Nodes |-> << >>]
  /\ base = [n \in Nodes |-> 0]
  /\ connects = [n \in Nodes |-> 0]
  /\ inits = 0 /\ faults = 0
  /\ lock = [n \in Nodes |-> "free"]
  /\ mutex = [n \in Nodes |-> "free"]
  /\ at = [n \in Nodes |-> [t \in Threads |-> "idle"]]
  /\ frame = [n \in Nodes |-> NoFrame]
  /\ todo = [n \in Nodes |-> [t \in Threads |-> << >>]]

-----------------------------------------------------------------------------
(***************************************************************************)
(* TransmitterLock, and what is done while it is held.                     *)
(***************************************************************************)
\* Variant: does not wait.
LockAtOnce(n, t) == lock' = [lock EXCEPT ![n] = t]

\* sfpLockTransmitter
Lock(n, t) == lock[n] = "free" /\ lock' = [lock EXCEPT ![n] = t]

GoTo(n, t, place) == at' = [at EXCEPT ![n][t] = place]

\* Thread t gets the lock, for what it has to do then.
LockFor(n, t, place, steps) ==
  /\ Lock(n, t)
  /\ todo' = [todo EXCEPT ![n][t] = steps]
  /\ GoTo(n, t, place)

\* sfpResetReceiver and the like, once the lock is held.
ResetNumbers(n) ==
  /\ rxSeq' = [rxSeq EXCEPT ![n] = InitialSeq]
  /\ txSeq' = [txSeq EXCEPT ![n] = InitialSeq]
  /\ history' = [history EXCEPT ![n] = << >>]
  /\ base' = [base EXCEPT ![n] = sent[n]]

\* sfpTransmitHistoryFromSeq, as far as it goes before it transmits.
FastForwardTo(n, kept, seq) ==
  /\ history' = [history EXCEPT ![n] = kept]
  /\ txSeq' = [txSeq EXCEPT ![n] = seq]
  /\ UNCHANGED rxSeq

Retransmit(kept) == [i \in 1 .. Len(kept) |-> Data("RTX", kept[i])]

\* The next frame goes out, or connectState is assigned.
Proceed(n, t) ==
  /\ todo[n][t] # << >>
  /\ todo' = [todo EXCEPT ![n][t] = Tail(@)]
  /\ LET x == Do(Transmitter(n), Head(todo[n][t])) IN
     /\ connectState' = [connectState EXCEPT ![n] = x.state]
     /\ txSeq' = [txSeq EXCEPT ![n] = x.txSeq]
     /\ history' = [history EXCEPT ![n] = x.history]
     /\ wire' = [wire EXCEPT ![Peer(n)] = @ \o x.out]
  /\ UNCHANGED <<rxSeq, users, budget, lock, mutex, at, frame>>

\* The call unlocks the transmitter and, but for that of a callback, returns.
Unlock(n, t) ==
  /\ lock[n] = t /\ at[n][t] \in {"answer", "echo", "connect", "send"}
  /\ todo[n][t] = << >>
  /\ lock' = [lock EXCEPT ![n] = "free"]
  /\ mutex' = IF at[n][t] = "send" /\ n \in Guarded
                THEN [mutex EXCEPT ![n] = "free"] ELSE mutex
  /\ GoTo(n, t, IF at[n][t] = "echo" THEN "count" ELSE "idle")
  /\ UNCHANGED <<connectState, numbers, wire, users, budget, frame, todo>>

-----------------------------------------------------------------------------
(***************************************************************************)
(* The reader, in the sfpDeliverOctet that ends a frame.                   *)
(***************************************************************************)
\* The API asks that no octet is delivered while sfpConnect executes.
TakeFrame(n) ==
  /\ at[n]["reader"] = "idle" /\ at[n]["user"] # "connect"
  /\ wire[n] # << >>
  /\ frame' = [frame EXCEPT ![n] = Head(wire[n])]
  /\ wire' = [wire EXCEPT ![n] = Tail(@)]
  /\ GoTo(n, "reader", "handle")
  /\ UNCHANGED <<connectState, numbers, users, budget, lock, mutex, todo>>

Handles(n, place, type) == at[n]["reader"] = place /\ frame[n].type = type
Done(n) == frame' = [frame EXCEPT ![n] = NoFrame]

\* The reader answers its frame with steps, and does nothing else.
Answer(n, steps) ==
  /\ LockFor(n, "reader", "answer", steps) /\ Done(n)
  /\ UNCHANGED <<connectState, wire, sent, delivered, budget, mutex>>

Rebuff(n) == Answer(n, <<Link!Rebuff(connectState[n])>>) /\ UNCHANGED <<numbers, base>>

HandleSYN0(n) ==
  /\ Handles(n, "handle", "SYN") /\ frame[n] = SYN0
  /\ Answer(n, <<SYN1, Entering("SENT_SYN1")>>)
  /\ ResetNumbers(n)

\* The end of sfpHandleSYN1 and sfpHandleSYN2.
BecomeConnected(n, out) ==
  LET kept == KeptHistory(history[n], txSeq[n], InitialSeq) IN
  IF txSeq[n] = InitialSeq
    THEN Answer(n, out \o <<Entering("CONNECTED")>>) /\ UNCHANGED <<numbers, base>>
    ELSE /\ Answer(n, out \o Retransmit(kept) \o <<Entering("CONNECTED")>>)
         /\ FastForwardTo(n, kept, InitialSeq) /\ UNCHANGED base

HandleSYN1(n) ==
  /\ Handles(n, "handle", "SYN") /\ frame[n] = SYN1
  /\ IF connectState[n] = "DISCONNECTED" THEN Rebuff(n) ELSE BecomeConnected(n, <<SYN2>>)

HandleSYN2(n) ==
  /\ Handles(n, "handle", "SYN") /\ frame[n] = SYN2
  /\ IF connectState[n] \in {"DISCONNECTED", "SENT_SYN0"}
       THEN Rebuff(n) ELSE BecomeConnected(n, << >>)

HandleDIS(n) ==
  /\ Handles(n, "handle", "SYN") /\ frame[n] = DIS
  /\ Answer(n, <<Entering("DISCONNECTED")>>) /\ UNCHANGED <<numbers, base>>

HandleNAK(n) ==
  /\ Handles(n, "handle", "NAK")
  /\ LET seq == frame[n].seq
         kept == KeptHistory(history[n], txSeq[n], seq)
     IN  CASE connectState[n] # "CONNECTED" -> Rebuff(n)
           [] connectState[n] = "CONNECTED" /\ seq = txSeq[n] ->
                Answer(n, << >>) /\ UNCHANGED <<numbers, base>>
           [] OTHER -> /\ Answer(n, Retransmit(kept))
                       /\ FastForwardTo(n, kept, seq) /\ UNCHANGED base

\* sfpHandleFrame: too short, or the CRC is wrong.
HandleRemnant(n) ==
  /\ Handles(n, "handle", "BAD")
  /\ Answer(n, <<NAK(rxSeq[n])>>) /\ UNCHANGED <<numbers, base>>

\* Variant: keeps the lock until the message is delivered.
CheckAndKeepLock(n) ==
  /\ Handles(n, "handle", "USR") \/ Handles(n, "handle", "RTX")
  /\ IF connectState[n] # "CONNECTED"
       THEN Rebuff(n)
       ELSE /\ Lock(n, "reader") /\ GoTo(n, "reader", "compare")
            /\ UNCHANGED <<connectState, numbers, wire, users, budget, mutex, frame, todo>>

\* sfpHandleUSR, its first part: it has the lock to look at connectState.
HandleUSR(n) ==
  /\ Handles(n, "handle", "USR") \/ Handles(n, "handle", "RTX")
  /\ IF connectState[n] # "CONNECTED"
       THEN Rebuff(n)
       ELSE /\ lock[n] = "free" /\ GoTo(n, "reader", "compare")
            /\ UNCHANGED <<connectState, numbers, wire, users, budget, lock, mutex, frame, todo>>

RejectOutOfOrder(n) ==
  /\ Handles(n, "compare", "USR") /\ frame[n].seq # rxSeq[n]
  /\ Answer(n, <<NAK(rxSeq[n])>>) /\ UNCHANGED <<numbers, base>>

IgnoreRetransmission(n) ==
  /\ Handles(n, "compare", "RTX") /\ frame[n].seq # rxSeq[n]
  /\ Done(n) /\ GoTo(n, "reader", "idle")
  /\ UNCHANGED <<connectState, numbers, wire, users, budget, lock, mutex, todo>>

\* The frame is accepted: the callback is called, without the lock; that of a
\* guarded end has messagesMutex meanwhile.
DeliverIf(n, accepted) ==
  /\ at[n]["reader"] = "compare" /\ accepted
  /\ n \in Guarded => mutex[n] = "free"
  /\ delivered' = [delivered EXCEPT ![n] = Append(@, frame[n].packet)]
  /\ Done(n) /\ GoTo(n, "reader", IF n \in Echoes THEN "callback" ELSE "count")
  /\ UNCHANGED <<connectState, numbers, wire, sent, base, budget, lock, mutex, todo>>

\* Variant: takes retransmissions as they come.
DeliverRetransmissions(n) ==
  DeliverIf(n, frame[n].type = "RTX" \/ frame[n].seq = rxSeq[n])

Deliver(n) == DeliverIf(n, frame[n].seq = rxSeq[n])

\* sfpWritePacket gets the lock: what it writes is the next packet.
WritePacket(n, t, place) ==
  /\ sent[n] < MaxSent
  /\ LockFor(n, t, place, <<Data("USR", sent[n] + 1)>>)
  /\ sent' = [sent EXCEPT ![n] = @ + 1]
  /\ UNCHANGED <<connectState, numbers, wire, delivered, base, budget, mutex, frame>>

SendBack(n) == at[n]["reader"] = "callback" /\ WritePacket(n, "reader", "echo")

\* The callback has returned.
Count(n) ==
  /\ at[n]["reader"] = "count"
  /\ rxSeq' = [rxSeq EXCEPT ![n] = nextSeq(@)]
  /\ GoTo(n, "reader", "idle")
  /\ UNCHANGED <<connectState, txSeq, history, wire, users, budget, lock, mutex, frame, todo>>

-----------------------------------------------------------------------------
(***************************************************************************)
(* The user.                                                               *)
(***************************************************************************)
(***************************************************************************)
(* sfpConnect, which nobody may call while sfpDeliverOctet executes: so    *)
(* the lock is free, and its first part, without the lock, is no step of   *)
(* its own.                                                                *)
(***************************************************************************)
Connect(n) ==
  /\ n \in Initiators /\ connects[n] < MaxConnects
  /\ at[n]["user"] = "idle" /\ at[n]["reader"] = "idle"
  /\ connects' = [connects EXCEPT ![n] = @ + 1]
  /\ LockFor(n, "user", "connect", <<SYN0, Entering("SENT_SYN0")>>)
  /\ ResetNumbers(n)
  /\ \E w \in Link!AfterReceiverReset(wire[n]) : wire' = [wire EXCEPT ![n] = w]
  /\ UNCHANGED <<connectState, sent, delivered, inits, faults, mutex, frame>>

\* Context::initialize.  It leaves the history alone.
Reinit(n) ==
  /\ inits < MaxInits /\ \A t \in Threads : at[n][t] = "idle"
  /\ inits' = inits + 1
  /\ connectState' = [connectState EXCEPT ![n] = "DISCONNECTED"]
  /\ rxSeq' = [rxSeq EXCEPT ![n] = InitialSeq]
  /\ txSeq' = [txSeq EXCEPT ![n] = InitialSeq]
  /\ base' = [base EXCEPT ![n] = sent[n]]
  /\ \E w \in Link!AfterReceiverReset(wire[n]) : wire' = [wire EXCEPT ![n] = w]
  /\ UNCHANGED <<history, sent, delivered, connects, faults, threads>>

\* The user, which may have asked isConnected, sets out to send, under its
\* mutex.  The state it has found may be another by the time it gets the lock.
SetOut(n) ==
  /\ n \in Senders /\ at[n]["user"] = "idle"
  /\ connectState[n] \in WriteStates /\ sent[n] < MaxSent
  /\ n \in Guarded => mutex[n] = "free"
  /\ mutex' = IF n \in Guarded THEN [mutex EXCEPT ![n] = "user"] ELSE mutex
  /\ GoTo(n, "user", "call")
  /\ UNCHANGED <<connectState, numbers, wire, users, budget, lock, frame, todo>>

SendMessage(n) == at[n]["user"] = "call" /\ WritePacket(n, "user", "send")

-----------------------------------------------------------------------------
\* A frame is lost.
Fault(n) ==
  /\ faults < MaxFaults
  /\ frame[n] = NoFrame /\ wire[n] # << >>
  /\ faults' = faults + 1
  /\ wire' = [wire EXCEPT ![n] = Tail(@)]
  /\ UNCHANGED <<connectState, numbers, users, connects, inits, threads>>

HandleFrame(n) ==
  \/ HandleSYN0(n) \/ HandleSYN1(n) \/ HandleSYN2(n) \/ HandleDIS(n)
  \/ HandleNAK(n) \/ HandleRemnant(n)
  \/ HandleUSR(n) \/ RejectOutOfOrder(n) \/ IgnoreRetransmission(n)
  \/ Deliver(n) \/ SendBack(n) \/ Count(n)

Holding(n, t) == Proceed(n, t) \/ Unlock(n, t)

Next ==
  \E n \in Nodes :
    \/ TakeFrame(n) \/ HandleFrame(n)
    \/ Connect(n) \/ Reinit(n) \/ SetOut(n) \/ SendMessage(n)
    \/ \E t \in Threads : Holding(n, t)
    \/ Fault(n)

(***************************************************************************)
(* A call that has begun goes on when the locks let it.  A std::mutex is   *)
(* not fair; but with a bounded number of messages nobody is overtaken for *)
(* ever, and weak fairness is enough.                                      *)
(***************************************************************************)
Fairness ==
  \A n \in Nodes :
    /\ WF_vars(HandleFrame(n))
    /\ WF_vars(SendMessage(n))
    /\ \A t \in Threads : WF_vars(Holding(n, t))

Spec == Init /\ [][Next]_vars
FairSpec == Spec /\ Fairness

-----------------------------------------------------------------------------
(***************************************************************************)
(* The type invariant.                                                     *)
(***************************************************************************)
Steps == {SYN0, SYN1, SYN2, DIS}
           \cup {NAK(seq) : seq \in Seqs}
           \cup {Entering(s) : s \in Link!ConnectStates}
           \cup [type : {"USR", "RTX"}, packet : 1 .. MaxSent]

ReaderPlaces == {"idle", "handle", "answer", "compare", "callback", "echo", "count"}
UserPlaces == {"idle", "connect", "call", "send"}

TypeOK ==
  /\ connectState \in [Nodes -> Link!ConnectStates]
  /\ rxSeq \in [Nodes -> Seqs] /\ txSeq \in [Nodes -> Seqs]
  /\ history \in [Nodes -> Seq(1 .. MaxSent)]
  /\ wire \in [Nodes -> Seq(Link!Frames)]
  /\ sent \in [Nodes -> 0 .. MaxSent] /\ base \in [Nodes -> 0 .. MaxSent]
  /\ delivered \in [Nodes -> Seq(1 .. MaxSent)]
  /\ connects \in [Nodes -> 0 .. MaxConnects]
  /\ inits \in 0 .. MaxInits /\ faults \in 0 .. MaxFaults
  /\ lock \in [Nodes -> Threads \cup {"free"}]
  /\ mutex \in [Nodes -> {"free", "user"}]
  /\ at \in [Nodes -> [Threads -> ReaderPlaces \cup UserPlaces]]
  /\ \A n \in Nodes : at[n]["reader"] \in ReaderPlaces /\ at[n]["user"] \in UserPlaces
  /\ frame \in [Nodes -> Link!Frames \cup {NoFrame}]
  /\ todo \in [Nodes -> [Threads -> Seq(Steps)]]

(***************************************************************************)
(* Who has mTransmitterMutex does what the lock is for, and only the       *)
(* thread that has it has anything left to transmit or assign.  The reader *)
(* has a frame in hand until it has acted on it; while sfpHandleUSR        *)
(* compares a number, for which it has let go of the lock, nothing makes   *)
(* the end leave CONNECTED, since a user who sends only transmits data.    *)
(***************************************************************************)
Locking(n) ==
  /\ \A t \in Threads : todo[n][t] # << >> => lock[n] = t
  /\ lock[n] = "reader" <=> at[n]["reader"] \in {"answer", "echo"}
  /\ lock[n] = "user" <=> at[n]["user"] \in {"connect", "send"}

Reading(n) ==
  /\ frame[n] # NoFrame <=> at[n]["reader"] \in {"handle", "compare"}
  /\ at[n]["user"] = "connect" => at[n]["reader"] = "idle"
  /\ at[n]["reader"] = "compare" =>
       frame[n].type \in {"USR", "RTX"} /\ connectState[n] = "CONNECTED"

Writing(n) ==
  at[n]["user"] = "send" =>
    \A i \in 1 .. Len(todo[n]["user"]) : todo[n]["user"][i].type = "USR"

ThreadsInv == TypeOK /\ \A n \in Nodes : Locking(n) /\ Reading(n) /\ Writing(n)

(***************************************************************************)
(* Whatever the two threads of an end do at the same time, it looks to the *)
(* other end, and to the users, as if every call were one step of SFPLink. *)
(***************************************************************************)
CallsAreAtomic == Link!Spec

(***************************************************************************)
(* Every call returns: neither the message sent back from within the       *)
(* deliver callback nor the mutex that a user holds while it sends and     *)
(* takes in its callback can block the transmitter for good.               *)
(***************************************************************************)
CallsReturn ==
  \A n \in Nodes, t \in Threads : at[n][t] # "idle" ~> at[n][t] = "idle"

(***************************************************************************)
(* tests/sfp-echo.cpp, 83: with no more messages outstanding than the      *)
(* history holds, what comes back is in the order in which it was sent,    *)
(* and nothing twice, although a message is sent back before rx.seq counts *)
(* it.                                                                     *)
(***************************************************************************)
EchoesInOrder ==
  \A n \in Guarded : \A i, j \in 1 .. Len(delivered[n]) :
    LET echoed == delivered[Peer(n)] IN
    i < j => echoed[delivered[n][i]] < echoed[delivered[n][j]]
=============================================================================
