------------------------------ MODULE SFPStream ------------------------------
(***************************************************************************)
(* sfp::stream, one end of a link over an asio stream: its three           *)
(* operations are coroutines, and every action runs one of them from one   *)
(* yield to the next.  A handshake has the stream to itself; afterwards    *)
(* one read and any number of writes run side by side and share the        *)
(* SFPcontext and the write buffer, which they take in turn through        *)
(* write_phaser.                                                           *)
(*                                                                         *)
(* The SFPcontext is reduced to its connect state, to whether it answers a *)
(* frame and to the messages it delivers.  What it has transmitted at one  *)
(* go is a unit in the write buffer; units are numbered.  An error of the  *)
(* layer below may come at any time, which covers cancel().                *)
(***************************************************************************)
EXTENDS Integers, SequencesExt

CONSTANTS Writers,        \* the calls of async_write
          MaxHandshakes,  \* bound: calls of async_handshake
          MaxFrames,      \* bound: frames from the peer
          MaxChunk        \* bound: frames in what one async_read_some reads

\* No writer has the name of another operation.
ASSUME WritersAssumption == Writers \cap {"none", "read", "handshake"} = {}

ASSUME BoundsAssumption ==
  MaxHandshakes \in Nat /\ MaxFrames \in Nat /\ MaxChunk \in Nat

\* A SYN2 that makes the received be retransmitted counts as SYN1, a USR
\* frame out of order as NAK; a NAK that is not answered changes nothing.
Frames == {"SYN0", "SYN1", "SYN2", "DIS", "NAK", "USR", "EMPTY"}
ConnectStates == {"DISCONNECTED", "SENT_SYN0", "SENT_SYN1", "CONNECTED"}
Chunks == SeqOf(Frames, MaxChunk) \ {<< >>}

VARIABLES connectState,   \* sfp_context.connectState
          packet,         \* sfp_packet: the number of its message, 0 if len = 0
          readBuffer,     \* read_buffer: frames not given to the context yet
          writeBuffer,    \* write_buffer: units, oldest first
          holder,         \* who has the work guard of write_phaser
          queue,          \* who waits for the phaser
          writing,        \* async_writes under way: who, and what was passed
          handshake,      \* where handshake_op is
          reader,         \* where read_op is
          writer,         \* where each write_op is
          ready,          \* has the last handshake succeeded?
          accepted,       \* messages the context has delivered since it began
          received,       \* those that reads have returned
          units,          \* units transmitted so far
          online,         \* those that have reached the line as a whole
          handshakes, frames   \* calls and frames so far

context == <<connectState, packet, readBuffer, accepted>>
output == <<writeBuffer, writing, units, online>>
phaser == <<holder, queue>>
operations == <<handshake, reader, writer, ready>>
vars == <<context, output, phaser, operations, received, handshakes, frames>>

HandshakePlaces ==
  {"flush", "connect_read", "connect_flush", "settle_read", "settle_flush"}

Idle(w) == writer[w] \in {"none", "ok", "failed"}
Connected == connectState = "CONNECTED"

Init ==
  /\ connectState = "DISCONNECTED" /\ packet = 0
  /\ readBuffer = << >> /\ writeBuffer = << >>
  /\ holder = "none" /\ queue = << >> /\ writing = {}
  /\ handshake = "idle" /\ reader = "idle"
  /\ writer = [w \in Writers |-> "none"]
  /\ ready = FALSE /\ accepted = 0 /\ received = << >>
  /\ units = 0 /\ online = {}
  /\ handshakes = 0 /\ frames = 0

-----------------------------------------------------------------------------
(***************************************************************************)
(* The write buffer.                                                       *)
(***************************************************************************)
\* on_sfp_write: the context transmits one more unit.
Transmitted == Append(writeBuffer, units + 1)

\* async_write(next_layer_, write_buffer.data(), ...)
BeginWrite(op, buffer) == writing' = writing \cup {[op |-> op, units |-> buffer]}

\* The write of op ends after n units have gone out as a whole.
Written(op, n) ==
  /\ \E w \in writing :
       /\ w.op = op /\ n \in 0 .. Len(w.units)
       /\ writing' = writing \ {w}
       /\ online' = online \cup {w.units[i] : i \in 1 .. n}

WrittenAll(op) == \E w \in writing : w.op = op /\ Written(op, Len(w.units))
WrittenSome(op) == \E n \in 0 .. units : Written(op, n)

\* write_buffer.consume(write_buffer.size())
ConsumeAll == writeBuffer' = << >>

-----------------------------------------------------------------------------
(***************************************************************************)
(* deliver_input_sequence: the context gets one frame after the other,     *)
(* until it delivers a message that is not empty.                          *)
(***************************************************************************)
Feed(c, f) ==
  CASE f = "SYN0" -> [c EXCEPT !.state = "SENT_SYN1", !.answered = TRUE]
    [] f = "SYN1" ->
         [c EXCEPT !.state = IF @ = "DISCONNECTED" THEN @ ELSE "CONNECTED",
                   !.answered = TRUE]
    [] f = "SYN2" /\ c.state \in {"SENT_SYN1", "CONNECTED"} ->
         [c EXCEPT !.state = "CONNECTED"]
    [] f = "DIS" -> [c EXCEPT !.state = "DISCONNECTED"]
    [] f = "USR" /\ c.state = "CONNECTED" ->
         [c EXCEPT !.packet = c.accepted + 1, !.accepted = @ + 1]
    [] f = "EMPTY" /\ c.state = "CONNECTED" -> c
    [] OTHER -> [c EXCEPT !.answered = TRUE]

\* Variant: goes on after a message.
FeedToTheEnd(c, f) == Feed(c, f)

FeedUntilMessage(c, f) ==
  IF c.packet # 0 THEN [c EXCEPT !.rest = Append(@, f)] ELSE Feed(c, f)

FeedAll(input) ==
  LET fed[i \in 0 .. Len(input)] ==
        IF i = 0 THEN [state |-> connectState, packet |-> 0, accepted |-> accepted,
                       answered |-> FALSE, rest |-> << >>]
                 ELSE FeedUntilMessage(fed[i - 1], input[i])
  IN  fed[Len(input)]

\* Variant: what has been delivered stays in read_buffer.
FedAgain(input) == [FeedAll(input) EXCEPT !.rest = input]

Fed(input) == FeedAll(input)

\* Its effect on the context, and on the write buffer.
DeliverInput(input) ==
  LET c == Fed(input) IN
  /\ connectState' = c.state /\ packet' = c.packet
  /\ readBuffer' = c.rest /\ accepted' = c.accepted
  /\ writeBuffer' = IF c.answered THEN Transmitted ELSE writeBuffer
  /\ units' = IF c.answered THEN units + 1 ELSE units

-----------------------------------------------------------------------------
(***************************************************************************)
(* handshake_op, with read_until_connected_op and read_until_delivery_op.  *)
(***************************************************************************)
\* sfpInit, sfpConnect, and the write of the SYN0.
BeginHandshake ==
  /\ handshake = "idle" /\ reader = "idle" /\ \A w \in Writers : Idle(w)
  /\ handshakes < MaxHandshakes
  /\ handshakes' = handshakes + 1
  /\ handshake' = "flush" /\ ready' = FALSE
  /\ connectState' = "SENT_SYN0"
  /\ writeBuffer' = Transmitted /\ units' = units + 1
  /\ BeginWrite("handshake", writeBuffer')
  /\ accepted' = 0 /\ received' = << >>
  /\ UNCHANGED <<packet, readBuffer, phaser, reader, writer, online, frames>>

\* The last part of handshake_op, when its loops have left the state so.
HandshakeSucceeds == handshake' = "idle" /\ ready' = TRUE
HandshakeFails == handshake' = "idle" /\ UNCHANGED ready

\* The write of the SYN0 is done: the first turn of read_until_connected_op.  It
\* throws away what a message of an earlier connection left in read_buffer.
HandshakeFlushed ==
  /\ handshake = "flush"
  /\ WrittenAll("handshake") /\ ConsumeAll
  /\ handshake' = "connect_read" /\ readBuffer' = << >>
  /\ UNCHANGED <<connectState, packet, accepted, units, phaser,
                 reader, writer, ready, received, handshakes, frames>>

\* async_read_some completes in one of the two loops.
HandshakeReads(chunk) ==
  /\ handshake \in {"connect_read", "settle_read"}
  /\ frames' = frames + Len(chunk)
  /\ DeliverInput(chunk)
  /\ BeginWrite("handshake", writeBuffer')
  /\ handshake' = IF handshake = "connect_read" THEN "connect_flush" ELSE "settle_flush"
  /\ UNCHANGED <<online, phaser, reader, writer, ready, received, handshakes>>

\* The answers are written: the next turn of the loop, or what comes after it.
HandshakeAnswered ==
  /\ handshake \in {"connect_flush", "settle_flush"}
  /\ WrittenAll("handshake") /\ ConsumeAll
  /\ IF packet # 0 /\ (handshake = "settle_flush" \/ Connected)
       THEN HandshakeSucceeds /\ UNCHANGED readBuffer
       ELSE /\ handshake' = IF handshake = "connect_flush" /\ ~ Connected
                              THEN "connect_read" ELSE "settle_read"
            /\ readBuffer' = << >>
            /\ UNCHANGED ready
  /\ UNCHANGED <<connectState, packet, accepted, units, phaser,
                 reader, writer, received, handshakes, frames>>

\* What is under way at one of the places ends with an error or by a timer,
\* a write after a part of it; if settled, that is a success.
EndsAt(places, settled) ==
  /\ handshake \in places
  /\ IF handshake \in {"connect_read", "settle_read"}
       THEN UNCHANGED <<writing, online>>
       ELSE WrittenSome("handshake")
  /\ IF settled THEN HandshakeSucceeds ELSE HandshakeFails
  /\ UNCHANGED <<context, writeBuffer, units, phaser, reader, writer,
                 received, handshakes, frames>>

Settling == handshake \in {"settle_read", "settle_flush"}

\* An operation of the layer below fails.
HandshakeError == EndsAt(HandshakePlaces, FALSE)

\* Variant: takes the end of the settle time for a success in any case.
SettleAnyway == EndsAt(HandshakePlaces, Settling)

\* Variant: the time limit is on the writes only, and on the settling.
TimeoutOfWrites ==
  EndsAt(HandshakePlaces \ {"connect_read"}, Settling /\ Connected)

\* kSfpConnectTimeout, on the whole of connecting and on each write, or
\* kSfpSettleTimeout, on the settling.
HandshakeTimeout == EndsAt(HandshakePlaces, Settling /\ Connected)

-----------------------------------------------------------------------------
(***************************************************************************)
(* write_phaser: its operations run in the order they ask, each when the   *)
(* one before has given up its work guard.                                 *)
(***************************************************************************)
Enqueue(op) == queue' = Append(queue, op)

\* Variant: does not wait for the work guard.
PhaserRunsAtOnce(op) ==
  queue # << >> /\ Head(queue) = op /\ queue' = Tail(queue)

PhaserRuns(op) ==
  holder = "none" /\ queue # << >> /\ Head(queue) = op /\ queue' = Tail(queue)

-----------------------------------------------------------------------------
(***************************************************************************)
(* read_op.                                                                *)
(***************************************************************************)
\* The head of its loop, and, if there is a message, its end.
ReadLoop(message) ==
  IF message = 0
    THEN /\ reader' = "reading" /\ readBuffer' = << >>
         /\ UNCHANGED <<packet, received>>
    ELSE /\ reader' = "idle" /\ packet' = 0
         /\ received' = Append(received, message)
         /\ UNCHANGED readBuffer

\* Variant: leaves what has been read undelivered.
AsyncReadWithoutDrain ==
  /\ ready /\ reader = "idle" /\ handshake = "idle"
  /\ ReadLoop(packet)
  /\ UNCHANGED <<connectState, accepted, output, phaser, handshake, writer, ready,
                 handshakes, frames>>

AsyncRead ==
  /\ ready /\ reader = "idle" /\ handshake = "idle"
  /\ IF packet = 0 /\ readBuffer # << >>
       THEN /\ reader' = "drain" /\ Enqueue("read")
            /\ UNCHANGED <<packet, readBuffer, received, holder>>
       ELSE ReadLoop(packet) /\ UNCHANGED phaser
  /\ UNCHANGED <<connectState, accepted, output, handshake, writer, ready,
                 handshakes, frames>>

\* async_read_some completes.
ReadCompletes(chunk) ==
  /\ reader = "reading"
  /\ frames' = frames + Len(chunk)
  /\ readBuffer' = readBuffer \o chunk
  /\ reader' = "deliver" /\ Enqueue("read")
  /\ UNCHANGED <<connectState, packet, accepted, output, holder, handshake, writer,
                 ready, received, handshakes>>

ReadError ==
  /\ reader = "reading" /\ reader' = "idle"
  /\ UNCHANGED <<context, output, phaser, handshake, writer, ready, received,
                 handshakes, frames>>

\* The phaser runs it: feed the context, and flush if there is anything to.
ReadDelivers ==
  /\ reader \in {"drain", "deliver"} /\ PhaserRuns("read")
  /\ DeliverInput(readBuffer) /\ UNCHANGED received
  /\ IF writeBuffer' # << >>
       THEN BeginWrite("read", writeBuffer') /\ reader' = "flush" /\ holder' = "read"
       ELSE reader' = "delivered" /\ UNCHANGED <<writing, holder>>
  /\ UNCHANGED <<online, handshake, writer, ready, handshakes, frames>>

\* Nothing to flush: on to the loop.
ReadGoesOn ==
  /\ reader = "delivered" /\ ReadLoop(packet)
  /\ UNCHANGED <<connectState, accepted, output, phaser, handshake, writer, ready,
                 handshakes, frames>>

ReadFlushed ==
  /\ reader = "flush" /\ WrittenAll("read") /\ ConsumeAll
  /\ holder' = "none" /\ ReadLoop(packet)
  /\ UNCHANGED <<connectState, accepted, units, queue, handshake, writer,
                 ready, handshakes, frames>>

\* The flush fails: its units are consumed all the same, and the read ends
\* with the error, and with the message if there is one.
ReadFlushError ==
  /\ reader = "flush" /\ WrittenSome("read") /\ ConsumeAll
  /\ holder' = "none" /\ reader' = "idle" /\ packet' = 0
  /\ received' = IF packet = 0 THEN received ELSE Append(received, packet)
  /\ UNCHANGED <<connectState, readBuffer, accepted, units, queue, handshake, writer,
                 ready, handshakes, frames>>

-----------------------------------------------------------------------------
(***************************************************************************)
(* write_op.                                                               *)
(***************************************************************************)
AsyncWrite(w) ==
  /\ ready /\ handshake = "idle" /\ writer[w] = "none"
  /\ writer' = [writer EXCEPT ![w] = "waiting"] /\ Enqueue(w)
  /\ UNCHANGED <<context, output, holder, handshake, reader, ready, received,
                 handshakes, frames>>

\* The phaser runs it: sfpWritePacket, and the write of all there is.
WriteBegins(w) ==
  /\ writer[w] = "waiting" /\ PhaserRuns(w) /\ holder' = w
  /\ writeBuffer' = Transmitted /\ units' = units + 1
  /\ BeginWrite(w, writeBuffer')
  /\ writer' = [writer EXCEPT ![w] = "writing"]
  /\ UNCHANGED <<context, online, handshake, reader, ready, received,
                 handshakes, frames>>

WriteEnds(w) ==
  /\ writer[w] = "writing" /\ WrittenAll(w) /\ ConsumeAll
  /\ holder' = "none" /\ writer' = [writer EXCEPT ![w] = "ok"]
  /\ UNCHANGED <<context, units, queue, handshake, reader, ready, received,
                 handshakes, frames>>

\* The write fails, and leaves this in the buffer and the phaser to next.
WriteFails(w, buffer, next) ==
  /\ writer[w] = "writing" /\ WrittenSome(w)
  /\ writeBuffer' = buffer /\ holder' = next
  /\ writer' = [writer EXCEPT ![w] = "failed"]
  /\ UNCHANGED <<context, units, queue, handshake, reader, ready, received,
                 handshakes, frames>>

\* Variant: throws away what has not been written.
WriteErrorConsumes(w) == WriteFails(w, << >>, "none")

\* Variant: the work guard survives the operation.
WriteErrorKeepsWork(w) == WriteFails(w, writeBuffer, w)

\* All of it stays in the buffer, for the next write to send.
WriteError(w) == WriteFails(w, writeBuffer, "none")

-----------------------------------------------------------------------------
HandshakeStep ==
  \/ BeginHandshake \/ HandshakeFlushed \/ HandshakeAnswered
  \/ HandshakeError \/ HandshakeTimeout

ReadStep ==
  \/ AsyncRead \/ ReadError \/ ReadDelivers \/ ReadGoesOn
  \/ ReadFlushed \/ ReadFlushError

WriteStep(w) == AsyncWrite(w) \/ WriteBegins(w) \/ WriteEnds(w) \/ WriteError(w)

Input(chunk) ==
  /\ frames + Len(chunk) <= MaxFrames
  /\ HandshakeReads(chunk) \/ ReadCompletes(chunk)

Next ==
  \/ HandshakeStep \/ ReadStep
  \/ \E w \in Writers : WriteStep(w)
  \/ \E chunk \in Chunks : Input(chunk)

(***************************************************************************)
(* The timers of a handshake expire; a write outside of one has no timer,  *)
(* so the line must take octets or fail; the phaser runs what is queued.   *)
(* Neither the peer nor the user has to do anything.                       *)
(***************************************************************************)
Fairness ==
  /\ WF_vars(HandshakeTimeout)
  /\ WF_vars(ReadDelivers \/ \E w \in Writers : WriteBegins(w))
  /\ WF_vars(ReadGoesOn)
  /\ WF_vars(ReadFlushed \/ ReadFlushError)
  /\ \A w \in Writers : WF_vars(WriteEnds(w) \/ WriteError(w))

Spec == Init /\ [][Next]_vars
FairSpec == Spec /\ Fairness

-----------------------------------------------------------------------------
(***************************************************************************)
(* The type invariant.                                                     *)
(***************************************************************************)
Operations == Writers \cup {"handshake", "read"}
Units == Seq(1 .. units)

TypeOK ==
  /\ connectState \in ConnectStates
  /\ packet \in 0 .. MaxFrames /\ accepted \in 0 .. MaxFrames
  /\ readBuffer \in Seq(Frames) /\ Len(readBuffer) <= MaxChunk
  /\ writeBuffer \in Units
  /\ holder \in Writers \cup {"none", "read"}
  /\ queue \in Seq(Writers \cup {"read"})
  /\ \A w \in writing : w.op \in Operations /\ w.units \in Units
  /\ handshake \in HandshakePlaces \cup {"idle"}
  /\ reader \in {"idle", "drain", "reading", "deliver", "delivered", "flush"}
  /\ writer \in [Writers -> {"none", "waiting", "writing", "ok", "failed"}]
  /\ ready \in BOOLEAN
  /\ received \in Seq(1 .. MaxFrames)
  /\ units \in Nat /\ online \subseteq 1 .. units
  /\ handshakes \in 0 .. MaxHandshakes /\ frames \in 0 .. MaxFrames

(***************************************************************************)
(* The layer below is never given a second async_write while one is under  *)
(* way, and the buffer of that one neither grows nor is consumed before it *)
(* ends, although reads and writes all transmit into write_buffer.         *)
(***************************************************************************)
BufferStable ==
  \A w \in writing : writing = {w} /\ writeBuffer = w.units

(***************************************************************************)
(* What sfpWritePacket and the handlers of frames have transmitted stays   *)
(* in write_buffer until it has gone out as a whole, whatever write fails  *)
(* or times out, except when the flush of a read fails.                    *)
(***************************************************************************)
LeavesOnline ==
  [][ToSet(writeBuffer) \ ToSet(writeBuffer') \subseteq online' \/ ReadFlushError]_vars

(***************************************************************************)
(* The single slot sfp_packet loses nothing: the messages the context has  *)
(* delivered since the handshake began are those that reads have returned, *)
(* in order, and the one in the slot.                                      *)
(***************************************************************************)
NothingLost ==
  ready => received \o (IF packet = 0 THEN << >> ELSE <<packet>>)
             = [i \in 1 .. accepted |-> i]

(***************************************************************************)
(* What has been read gets to the context: only deliver_input_sequence     *)
(* takes frames out of read_buffer.  Wherever else a loop empties it for   *)
(* the next async_read_some, there is nothing in it, also when a handshake *)
(* ended or a message broke off deliver_input_sequence in the middle of    *)
(* it; except that a later handshake throws away what is left from an      *)
(* earlier connection.                                                     *)
(***************************************************************************)
NoInputDiscarded ==
  [][Len(readBuffer') < Len(readBuffer)
       => ReadDelivers \/ (HandshakeFlushed /\ handshakes > 1)]_vars

(***************************************************************************)
(* stream.hpp, 202: a handshake that ends as a success leaves the context  *)
(* connected, also if the settle time ends it in the middle of an answer.  *)
(***************************************************************************)
ConnectedWhenReady == [][ready' /\ ~ ready => connectState' = "CONNECTED"]_vars

(***************************************************************************)
(* A handshake ends, one way or the other, on a line that takes nothing or *)
(* with a peer that says nothing or never the right thing.                 *)
(***************************************************************************)
HandshakeEnds == handshake # "idle" ~> handshake = "idle"

(***************************************************************************)
(* Every async_write ends, whatever operations before it have failed.      *)
(***************************************************************************)
WritesEnd == \A w \in Writers : writer[w] = "waiting" ~> writer[w] \in {"ok", "failed"}
=============================================================================
