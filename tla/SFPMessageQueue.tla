--------------------------- MODULE SFPMessageQueue ---------------------------
(***************************************************************************)
(* sfp::asio::MessageQueueImpl, one end of a link over an asio stream.     *)
(* One thread runs the io_service; every action is one call of its user or *)
(* of asio into the queue, with everything it calls in turn: handlers are  *)
(* called inline, and go on with what the coroutines do next.              *)
(*                                                                         *)
(* q holds the members of the queue and what it has in hand with asio.  An *)
(* operator that takes and returns such a record is a function of the      *)
(* class, or a coroutine from one yield to the next.  The SFPcontext in it *)
(* is reduced to whether it is connected, and the octets on the stream to  *)
(* what they do to it; time is left out, so that a timer may fire at any   *)
(* moment, which covers its being cancelled.                               *)
(*                                                                         *)
(* Handlers of the user's that send again, with an error or without one,   *)
(* and handlers of receives that send or receive when given a message, are *)
(* part of the call they are made in.  Handlers that do other things are   *)
(* left out: those of receives called with an error do nothing (one that   *)
(* received again would keep voidReceives going), those of sends do not    *)
(* receive, and what the handler of a handshake or of a keepalive does,    *)
(* or of a receive given a message at once, the user does next.            *)
(***************************************************************************)
EXTENDS Integers, FiniteSets, SequencesExt

CONSTANTS MaxAttempts,     \* kSfpMaxHandshakeAttempts, 50 in the code
          \* what the handlers of the user do, called inline, if they may:
          ChainedSends,    \* of these sends: send again when there is no error
          RetriedSends,    \* of these sends: send again when there is one
          AnsweredReceives,\* of these receives: send when given a message
          ChainedReceives, \* of these receives: receive again when given one
          RehandshakeAlive,\* does a user shake hands with a keepalive running?
          MaxSends, MaxReceives, MaxHandshakes, MaxKeepalives, MaxReopens,
          MaxMessages      \* bound: messages received and not asked for

ASSUME BoundsAssumption ==
  /\ MaxAttempts \in Nat /\ MaxMessages \in Nat
  /\ MaxSends \in Nat /\ MaxReceives \in Nat

Errors == {"aborted", "down", "failed", "gave_up"}
Results == {"ok"} \cup Errors

Send(i) == [op |-> "send", id |-> i]
HANDSHAKE == [op |-> "handshake"]
KEEPALIVE == [op |-> "keepalive"]
PUMP == [op |-> "pump"]     \* what handleRead goes on with after its flush

VARIABLE q

Init ==
  q = [ open |-> TRUE,               \* stream().is_open()
        connected |-> FALSE,         \* sfpIsConnected(&mContext)
        handshakeComplete |-> FALSE,
        pumpRunning |-> FALSE,       \* mReadPumpRunning
        pumpError |-> "ok",          \* mReadPumpError
        outbox |-> << >>,            \* mOutbox: the handlers, each with its buffer
        writing |-> << >>,           \* async_writes under way, by their handlers
        reading |-> FALSE,           \* is an async_read_some under way?
        readCut |-> FALSE,           \* was the stream closed since it was begun?
        writeCut |-> FALSE,          \* was it since the last async_write was begun?
        waiting |-> << >>,           \* mReceiveQueue: receives without a message
        messages |-> 0,              \* mReceiveQueue: messages without a receive
        timers |-> {},               \* operations that wait for mSfpTimer
        handshake |-> "idle",        \* where HandshakeOperation is
        tries |-> 0,                 \* its nTries_
        keepalive |-> "idle",        \* where KeepaliveOperation is
        ready |-> FALSE,             \* did the last handshake on this stream succeed?
        nested |-> FALSE,            \* has a send's handler begun an async_write?
        undefined |-> FALSE,         \* has front() of an empty mOutbox been taken?
        sends |-> 0, receives |-> 0, handshakes |-> 0, keepalives |-> 0,
        reopens |-> 0,               \* calls so far
        sendCalls |-> [i \in 1 .. MaxSends |-> 0],
        receiveCalls |-> [i \in 1 .. MaxReceives |-> 0],
        handshakeCalls |-> 0, keepaliveCalls |-> 0 ]   \* handler calls so far

-----------------------------------------------------------------------------
(***************************************************************************)
(* Small steps.                                                            *)
(***************************************************************************)
\* getReadPumpError: its value, and the state it leaves
PumpError(s) ==
  IF s.pumpError = "ok" /\ ~ s.open THEN "down" ELSE s.pumpError
Asked(s) == [s EXCEPT !.pumpError = "ok"]

Close(s) ==
  [s EXCEPT !.open = FALSE, !.pumpError = "aborted", !.readCut = TRUE, !.writeCut = TRUE]

\* Call the handlers of the receives in w.
CallReceives(s, w) ==
  [s EXCEPT !.receiveCalls =
     [i \in 1 .. MaxReceives |-> @[i] + (IF Contains(w, i) THEN 1 ELSE 0)]]

VoidReceives(s) == [CallReceives(s, s.waiting) EXCEPT !.waiting = << >>, !.messages = 0]

\* Variant: keeps the error to itself.
StopQuietly(s, ec) ==
  LET voided == VoidReceives(s) IN
  [(IF ec = "aborted" THEN voided ELSE Close(voided)) EXCEPT
     !.pumpRunning = FALSE, !.pumpError = s.pumpError]

\* stopReadPump
StopReadPump(s, ec) ==
  LET voided == VoidReceives(s)
      closed == IF ec = "aborted" THEN voided ELSE Close(voided)
  IN  [closed EXCEPT !.pumpRunning = FALSE, !.pumpError = ec]

\* Variant: leaves the receives waiting.
ReadPumpOnly(s) ==
  IF s.open
    THEN [s EXCEPT !.reading = TRUE, !.readCut = FALSE]
    ELSE [s EXCEPT !.pumpRunning = FALSE, !.pumpError = "down"]

ReadPump(s) ==
  IF s.open
    THEN [s EXCEPT !.reading = TRUE, !.readCut = FALSE]
    ELSE [VoidReceives(s) EXCEPT !.pumpRunning = FALSE, !.pumpError = "down"]

\* Variant: does not ask whether it runs.
StartAnyReadPump(s) == ReadPump([s EXCEPT !.pumpRunning = TRUE, !.pumpError = "ok"])

StartReadPump(s) ==
  IF s.pumpRunning
    THEN s
    ELSE ReadPump([s EXCEPT !.pumpRunning = TRUE, !.pumpError = "ok"])

\* mSfpTimer.expires_from_now, async_wait
AwaitTimer(s, op) == [s EXCEPT !.timers = @ \cup {op}]

-----------------------------------------------------------------------------
(***************************************************************************)
(* HandshakeOperation and KeepaliveOperation resumed with ec.  Both ask    *)
(* for the read pump's error first, unless ec is an error of its own.      *)
(***************************************************************************)
Own(ec) == ec \notin {"ok", "aborted"}
OpError(s, ec) == IF Own(ec) THEN ec ELSE PumpError(s)
Resumed(s, ec) == IF Own(ec) THEN s ELSE Asked(s)

HandshakeEnds(s, rc) ==
  LET closed == IF rc \in {"ok", "aborted", "gave_up"} THEN s ELSE Close(s)
  IN  [closed EXCEPT !.handshake = "idle",
                     !.handshakeComplete = @ \/ rc = "ok",
                     !.ready = rc = "ok",
                     !.handshakeCalls = @ + 1]

\* After the flush of a SYN0.
HandshakeFlushed(s, ec) ==
  IF OpError(s, ec) # "ok"
    THEN HandshakeEnds(Resumed(s, ec), OpError(s, ec))
    ELSE AwaitTimer([Resumed(s, ec) EXCEPT !.handshake =
                       IF s.connected THEN "settle" ELSE "connect"], "handshake")

KeepaliveEnds(s) == [s EXCEPT !.keepalive = "idle", !.keepaliveCalls = @ + 1]

\* After the keepalive message has been sent.
KeepaliveSent(s, ec) ==
  IF OpError(s, ec) # "ok"
    THEN KeepaliveEnds(Resumed(s, ec))
    ELSE AwaitTimer([Resumed(s, ec) EXCEPT !.keepalive = "timer"], "keepalive")

-----------------------------------------------------------------------------
(***************************************************************************)
(* asyncSend and asyncReceive, by the user or one of the user's handlers.  *)
(***************************************************************************)
CallSend(s, i) == [s EXCEPT !.sendCalls[i] = @ + 1]

\* async_write of the front of the outbox
BeginWrite(s) == [s EXCEPT !.writing = Append(@, Head(s.outbox)), !.writeCut = FALSE]

\* The next send when getReadPumpError has returned nothing, on an open stream.
SendNext(s) ==
  LET i == s.sends + 1
      queued == [s EXCEPT !.sends = i, !.outbox = Append(@, Send(i))]
  IN  IF Len(queued.outbox) = 1 THEN BeginWrite(queued) ELSE queued

\* Does the handler of i, called with an error, send again?
Retries(i) == i \in RetriedSends /\ i < MaxSends

\* On a closed stream every send is refused, each begun by the handler of the
\* one before; the last of them, from i on.
LastRefused(i) == Min({j \in i .. MaxSends : ~ Retries(j)})

\* The handler of a send that is refused is called at once.
AsyncSend(s) ==
  LET i == s.sends + 1
      last == IF s.open THEN i ELSE LastRefused(i)
      refused == [Asked(s) EXCEPT
                    !.sends = last,
                    !.sendCalls = [j \in 1 .. MaxSends |->
                                     @[j] + (IF j \in i .. last THEN 1 ELSE 0)]]
  IN  IF PumpError(s) = "ok" THEN SendNext(Asked(s))
      ELSE IF s.open /\ Retries(i) THEN SendNext(refused)
      ELSE refused

AsyncReceive(s) ==
  LET i == s.receives + 1
      begun == [Asked(s) EXCEPT !.receives = i]
  IN  IF PumpError(s) # "ok" THEN CallReceives(begun, <<i>>)
      ELSE IF s.messages > 0
        THEN [CallReceives(begun, <<i>>) EXCEPT !.messages = @ - 1]
      ELSE [begun EXCEPT !.waiting = Append(@, i)]

\* When the user, or a handler, may send and receive: not before a handshake
\* has succeeded on the stream.
MaySend(s) == s.ready /\ s.sends < MaxSends
MayReceive(s) == s.ready /\ s.receives < MaxReceives

-----------------------------------------------------------------------------
(***************************************************************************)
(* The outbox.                                                             *)
(***************************************************************************)
\* asyncSend by the handler of a send: it may find the outbox empty, for the
\* handler is called between pop() and what handleWrite or voidOutbox do next.
SendAgain(s) ==
  LET sent == AsyncSend(s)
  IN  [sent EXCEPT !.nested = @ \/ sent.writing # s.writing]

\* A handler in the outbox called with an error; a user's may send again.
CallWithError(s, h, ec) ==
  CASE h.op = "send" ->
         LET called == CallSend(s, h.id) IN
         IF h.id \in RetriedSends /\ MaySend(s) THEN SendAgain(called) ELSE called
    [] h.op = "pump" -> StopReadPump(s, ec)
    [] h.op = "handshake" -> HandshakeFlushed(s, ec)
    [] h.op = "keepalive" -> KeepaliveSent(s, ec)

\* One turn of voidOutbox.
VoidFront(s, ec) ==
  IF s.outbox = << >> THEN s
  ELSE CallWithError([s EXCEPT !.outbox = Tail(@)], Head(s.outbox), ec)

VoidOutbox(s, ec) ==
  LET turns == Len(s.outbox) + (MaxSends - s.sends)
      after[n \in 0 .. turns] == IF n = 0 THEN s ELSE VoidFront(after[n - 1], ec)
  IN  after[turns]

\* Variant: on a closed stream, forgets the handlers.
WritePumpSilently(s) ==
  IF s.outbox = << >> THEN s
  ELSE IF s.open THEN BeginWrite(s)
  ELSE [s EXCEPT !.outbox = << >>]

WritePump(s) ==
  IF s.outbox = << >> THEN s
  ELSE IF s.open THEN BeginWrite(s)
  ELSE VoidOutbox(s, "down")

\* Variant: starts a write whatever is in the outbox.
FlushAtOnce(s, handler) == WritePump([s EXCEPT !.outbox = Append(@, handler)])

\* flushWriteBuffer when there is something to write
FlushWriteBuffer(s, handler) ==
  LET queued == [s EXCEPT !.outbox = Append(@, handler)]
  IN  IF Len(queued.outbox) = 1 THEN WritePump(queued) ELSE queued

\* A handler in the outbox called without an error; a user's may send again.
CallOK(s, h) ==
  CASE h.op = "send" ->
         LET called == CallSend(s, h.id) IN
         IF h.id \in ChainedSends /\ MaySend(s) THEN SendAgain(called) ELSE called
    [] h.op = "pump" -> ReadPump(s)
    [] h.op = "handshake" -> HandshakeFlushed(s, "ok")
    [] h.op = "keepalive" -> KeepaliveSent(s, "ok")

-----------------------------------------------------------------------------
(***************************************************************************)
(* HandshakeOperation's loop, entered at the top.                          *)
(***************************************************************************)
\* Variant: never gives up.
AttemptForEver(s) ==
  FlushWriteBuffer([s EXCEPT !.connected = FALSE, !.tries = @ + 1,
                             !.handshake = "flush"], HANDSHAKE)

Attempt(s) ==
  IF s.tries > MaxAttempts
    THEN HandshakeEnds(s, "gave_up")
    ELSE FlushWriteBuffer([s EXCEPT !.connected = FALSE, !.tries = @ + 1,
                                    !.handshake = "flush"], HANDSHAKE)

Settle(s) == AwaitTimer([s EXCEPT !.handshake = "settle"], "handshake")

HandshakeTimer(s) ==
  LET t == Asked(s) IN
  IF PumpError(s) # "ok" THEN HandshakeEnds(t, PumpError(s))
  ELSE IF ~ s.connected THEN Attempt(t)
  ELSE IF s.handshake = "connect" THEN Settle(t)
  ELSE HandshakeEnds(t, "ok")

KeepaliveTimer(s) ==
  IF PumpError(s) # "ok"
    THEN KeepaliveEnds(Asked(s))
    ELSE FlushWriteBuffer([Asked(s) EXCEPT !.keepalive = "send"], KEEPALIVE)

BeginHandshake(s) ==
  LET t == Asked(s)
      reset == [VoidReceives(t) EXCEPT !.handshakeComplete = FALSE,
                                       !.connected = FALSE, !.tries = 0]
  IN  IF PumpError(s) # "ok"
        THEN HandshakeEnds(t, PumpError(s))
        ELSE Attempt(StartReadPump(reset))

-----------------------------------------------------------------------------
(***************************************************************************)
(* Calls of the user, who waits for a handshake to succeed on the stream.  *)
(***************************************************************************)
UserSend == MaySend(q) /\ q' = AsyncSend(q)

UserReceive == MayReceive(q) /\ q' = AsyncReceive(q)

UserHandshake ==
  /\ q.handshake = "idle" /\ q.handshakes < MaxHandshakes
  /\ RehandshakeAlive \/ q.keepalive = "idle"
  /\ q' = BeginHandshake([q EXCEPT !.handshakes = @ + 1, !.ready = FALSE])

UserKeepalive ==
  /\ q.ready /\ q.keepalive = "idle" /\ q.keepalives < MaxKeepalives
  /\ q' = KeepaliveSent([q EXCEPT !.keepalives = @ + 1], "ok")

UserClose == q.open /\ q' = Close(q)

\* The user opens the stream again.
Reopen ==
  /\ ~ q.open /\ q.reopens < MaxReopens
  /\ q' = [q EXCEPT !.open = TRUE, !.ready = FALSE, !.reopens = @ + 1]

-----------------------------------------------------------------------------
(***************************************************************************)
(* Completions that asio delivers.  When the stream is closed, what was    *)
(* under way ends aborted, unless it was done before; its handler may run  *)
(* when the user has opened the stream again.                              *)
(***************************************************************************)
\* A message comes for the receive that has waited longest.
GiveMessage(s) ==
  LET i == Head(s.waiting)
      given == [CallReceives(s, <<i>>) EXCEPT !.waiting = Tail(@)]
      answered == IF i \in AnsweredReceives /\ MaySend(s) THEN AsyncSend(given) ELSE given
  IN  IF i \in ChainedReceives /\ MayReceive(s) THEN AsyncReceive(answered) ELSE answered

\* sfpDeliverOctet for each octet read: the connection may come or go, a
\* message may arrive, and there may be something to reply.
HandleRead ==
  /\ q.reading
  /\ \E connected, message, reply \in BOOLEAN :
       /\ message => connected /\ (q.waiting # << >> \/ q.messages < MaxMessages)
       /\ LET taken == IF ~ message THEN q
                       ELSE IF q.waiting # << >> THEN GiveMessage(q)
                       ELSE [q EXCEPT !.messages = @ + 1]
              read == [taken EXCEPT !.reading = FALSE, !.connected = connected]
          IN  q' = IF reply THEN FlushWriteBuffer(read, PUMP) ELSE CallOK(read, PUMP)

HandleReadError ==
  /\ q.reading
  /\ \E ec \in IF q.readCut THEN {"failed", "aborted"} ELSE {"failed"} :
       q' = StopReadPump([q EXCEPT !.reading = FALSE], ec)

\* handleWrite; the oldest async_write ends first.  What follows front() of an
\* empty outbox is undefined, and nothing is said of it.
HandleWrite ==
  /\ q.writing # << >>
  /\ \/ q.outbox = << >> /\ q' = [q EXCEPT !.undefined = TRUE]
     \/ /\ q.outbox # << >>
        /\ LET popped == [q EXCEPT !.writing = Tail(@), !.outbox = Tail(@)]
           IN  q' = WritePump(CallOK(popped, Head(q.outbox)))

\* With two async_writes under way it is not kept which of them were cut.
HandleWriteError ==
  /\ q.writing # << >>
  /\ \E ec \in IF q.writeCut \/ Len(q.writing) > 1
              THEN {"failed", "aborted"} ELSE {"failed"} :
       LET voided == VoidOutbox([q EXCEPT !.writing = Tail(@)], ec)
       IN  q' = IF ec = "aborted" THEN voided ELSE Close(voided)

HandleTimer ==
  \E op \in q.timers :
    LET s == [q EXCEPT !.timers = @ \ {op}] IN
    \/ op = "handshake" /\ q' = HandshakeTimer(s)
    \/ op = "keepalive" /\ q' = KeepaliveTimer(s)

-----------------------------------------------------------------------------
Next ==
  /\ ~ q.undefined
  /\ \/ UserSend \/ UserReceive \/ UserHandshake \/ UserKeepalive \/ UserClose \/ Reopen
     \/ HandleRead \/ HandleReadError \/ HandleWrite \/ HandleWriteError \/ HandleTimer

Spec == Init /\ [][Next]_q

(***************************************************************************)
(* Timers fire, and what was under way on a stream when it was closed      *)
(* ends; asio promises both.  On an open stream a read or a write may take *)
(* for ever.                                                               *)
(***************************************************************************)
Fairness ==
  /\ WF_q(HandleTimer)
  /\ WF_q(q.readCut /\ (HandleRead \/ HandleReadError))
  /\ WF_q(q.writeCut /\ (HandleWrite \/ HandleWriteError))

FairSpec == Spec /\ Fairness

-----------------------------------------------------------------------------
(***************************************************************************)
(* The type invariant.                                                     *)
(***************************************************************************)
TypeOK ==
  /\ q.pumpError \in Results
  /\ q.handshake \in {"idle", "flush", "connect", "settle"}
  /\ q.keepalive \in {"idle", "timer", "send"}
  /\ q.timers \subseteq {"handshake", "keepalive"}
  /\ q.tries \in 0 .. (MaxAttempts + 1)
  /\ q.messages \in 0 .. MaxMessages
  /\ q.waiting = << >> \/ q.messages = 0

(***************************************************************************)
(* Every handler is called exactly once, and until then it is held in      *)
(* exactly one place, whatever failed, was closed or was restarted: sends  *)
(* in the outbox, receives in the receive queue, the two operations in the *)
(* outbox or with the timer.                                               *)
(***************************************************************************)
Count(seq, x) == Cardinality({k \in 1 .. Len(seq) : seq[k] = x})
InOutbox(h) == Count(q.outbox, h)
InTimers(op) == IF op \in q.timers THEN 1 ELSE 0

HandlersCalledOnce ==
  /\ \A i \in 1 .. MaxSends :
       q.sendCalls[i] + InOutbox(Send(i)) = IF i <= q.sends THEN 1 ELSE 0
  /\ \A i \in 1 .. MaxReceives :
       q.receiveCalls[i] + Count(q.waiting, i) = IF i <= q.receives THEN 1 ELSE 0
  /\ q.handshakeCalls + InOutbox(HANDSHAKE) + InTimers("handshake") = q.handshakes
  /\ q.keepaliveCalls + InOutbox(KEEPALIVE) + InTimers("keepalive") = q.keepalives

(***************************************************************************)
(* While the outbox has something in it there is one async_write under     *)
(* way, which is all that asio allows, and it is of the front; otherwise   *)
(* there is none.  So nothing in the outbox is written twice or left.      *)
(* That is so until the handler of a send, called by handleWrite or by     *)
(* voidOutbox, sends when it finds the outbox empty.                       *)
(***************************************************************************)
WritesFront ==
  ~ q.nested => q.writing = IF q.outbox = << >> THEN << >> ELSE <<Head(q.outbox)>>

(***************************************************************************)
(* messagequeue.hpp, 337, asserted when a write has ended: the buffer that *)
(* was written is the front of the outbox.                                 *)
(***************************************************************************)
WrittenIsFront ==
  q.writing # << >> => q.outbox # << >> /\ Head(q.outbox) = Head(q.writing)

(***************************************************************************)
(* There is one read pump: it reads, or waits for its replies to be        *)
(* written, exactly while mReadPumpRunning.                                *)
(***************************************************************************)
OneReadPump ==
  (IF q.reading THEN 1 ELSE 0) + InOutbox(PUMP) = IF q.pumpRunning THEN 1 ELSE 0

(***************************************************************************)
(* A user who has shaken hands on an open stream is never left listening   *)
(* to a dead read pump, although a handshake on a stream that was opened   *)
(* again may begin with the read and the write of the old one under way,   *)
(* and their end stops the pump.  That the handshake then finds            *)
(* mReadPumpError relies on nobody's asking before: getReadPumpError       *)
(* clears what it returns.  So this fails when a keepalive runs beside a   *)
(* new handshake.  It is said until the handler of a send has begun a      *)
(* write: with two async_writes under way, nothing ties an old one's end   *)
(* to the stream it was begun on.                                          *)
(***************************************************************************)
ReadyMeansListening == ~ q.nested /\ q.ready /\ q.open => q.pumpRunning

(***************************************************************************)
(* close() ends everything: every operation in hand, and every one begun   *)
(* on the closed stream, has its handler called, unless the stream is      *)
(* opened again, or the handler of a send has begun a write, after which   *)
(* a write may not be of the front.                                        *)
(***************************************************************************)
Idle ==
  /\ q.outbox = << >> /\ q.waiting = << >> /\ q.timers = {}
  /\ q.handshake = "idle" /\ q.keepalive = "idle"

CloseEndsAll == ~ q.open ~> (Idle \/ q.open \/ q.nested)

(***************************************************************************)
(* messagequeue.hpp, 185: asyncSend is called only after a handshake has   *)
(* succeeded, also by the queue's own KeepaliveOperation.                  *)
(***************************************************************************)
KeepaliveAfterHandshake ==
  [][q.keepalive = "timer" /\ q'.keepalive = "send" => q.handshakeComplete]_q
=============================================================================
