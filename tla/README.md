# libsfp in TLA+

`libsfp` is a small reliable, message-oriented protocol for one serial line
between two endpoints. This directory holds its specification: what the code
does, what it promises, which of the promises TLC has checked on small instances
and which are proved for every instance.

Paths below are relative to the repository; `sfp.cpp` stands for
`src/serial_framing_protocol.cpp` and `sfp.h` for
`include/sfp/serial_framing_protocol.h`.

## 1. Inventory

| Component | State | Operations | Talks to |
|---|---|---|---|
| Framing (`sfp.cpp` 181-221, 343-372, 669-687, 693-720, 783-869) | `rx.escapeState`, `rx.frameState`, `rx.header`, `rx.packet`, both `crc`s, the write buffer | `sfpDeliverOctet`, `sfpBufferOctet`, `sfpResetReceiver`, `sfpTransmitFrameWithHeader` | the line, through `write` and `sfpDeliverOctet`; hands whole frames to the handlers |
| Transmitter and history (`sfp.cpp` 224-243, 595-639, 757-781) | `tx.seq`, `tx.history` (a ring buffer of 8 packets) | `sfpWritePacket`, `sfpTransmitHistoryFromSeq`, `sfpTransmitHistory`, `sfpClearHistory` | the peer's `sfpHandleUSR`, by USR and RTX frames |
| Receiver (`sfp.cpp` 350-413, 428-481, 528-556) | `rx.seq` | `sfpHandleFrame`, `sfpHandleUSR`, `sfpHandleNAK` | the deliver callback; the peer's transmitter, by NAK frames |
| Connection (`sfp.cpp` 93-145, 483-526, 558-581) | `connectState` | `sfpInit`, `sfpConnect`, `sfpHandleSYN0/1/2`, DIS | the peer's, by SYN frames; resets transmitter and receiver |
| `Context` (`include/sfp/context.hpp`) | an `SFPcontext`, a mutex | `initialize`, `input`, `sendMessage`, `connect` | wraps all of the above; with `SFP_CONFIG_THREADSAFE` several threads call it |
| `MessageQueue` (`include/sfp/asio/messagequeue.hpp`) | outbox, receive queue, read pump flag and error, timer | `asyncHandshake`, `asyncSend`, `asyncReceive`, `asyncKeepalive`, `close`, the two pumps | an `SFPcontext`, an asio stream, completion handlers |
| `stream` (`include/sfp/stream.hpp`) | read and write buffers, the slot for one packet, the write phaser | `async_handshake`, `async_read`, `async_write`, `cancel` | an `SFPcontext`, an asio stream, timers |
| status and error codes, logging, debug names | none | none | none |

What makes each of them correct, and what is hard about it:

* Framing. Only frames that were sent are accepted, in order, and a frame that
  arrives whole is always accepted, whatever garbage came before: the receiver
  may be in the middle of an escape, of a frame, or past the end of its buffer.
* Data transfer. What `sfpWritePacket` is given comes out of the deliver callback
  once and in order. Hard because numbers wrap at 64, the history holds 8
  packets, several NAKs for the same packet may be in flight while their answers
  are, and an answer uses the history as it is when the NAK arrives.
* Connection. Both ends agree on being connected and on each other's numbers.
  Hard because either or both may call `sfpConnect` at any time, SYN frames
  cross, late ones arrive after data, and there is no timer.
* `Context`. What two threads do to one `SFPcontext` looks like one call after the other.
  Hard because the lock covers the transmitter only: `connectState` and the receiver are
  not under it, frames go out one by one, and the deliver callback runs between two locks and may send.
* `MessageQueue`. Every operation completes exactly once, at most one
  write is under way, and errors leave the queues consistent. Hard
  because completion handlers run inline and call back into the queue.
* `stream`. As the queue, with timeouts on top. A read and many writes
  share one write buffer; what an operation leaves in a buffer when it fails is what
  the next one starts from.

`PROJECT.json` lists the hazards one by one, with their lines and the properties
aimed at them.

## 2. Modules

```
 MessageChannel                 what a user is promised
      ^ refined by
 SFPTransfer ---- EXTENDS ---- SFPTransmitter      (tx.seq, history, retransmission)
      ^ refined by, each direction      ^
 SFPLink ------------- EXTENDS ---------+          (two endpoints, handshake + data)
      ^ refined by                      |
 SFPThreads ---------- EXTENDS ---------+          (two threads at each endpoint)
 SFPFraming                                        (octets <-> frames; justifies the
                                                    medium the others assume)
 SFPMessageQueue, SFPStream                        (one end over an asio stream; the
                                                    SFPcontext in it reduced to what
                                                    they see of it)
```

`MCSFPTransfer`, `MCSFPLink` and `MCSFPFraming` hold the properties and definitions that only the
runs use. Proofs are in `SFPTransmitterProofs`, `SFPTransferProofs`,
`SFPLinkProofs`, `SFPFramingProofs`, `SFPMessageQueueProofs`, `SFPStreamProofs` and
`SFPThreadsProofs`; `SetInduction` is what the inductions of the last five rest on.

`SFPTransmitter` has no variables. It holds the arithmetic of
`sfpTransmitFrameImpl` and `sfpTransmitHistoryFromSeq` as operators:
`FastForward` is the masked subtraction of lines 600-603, `Underrun` the test of
605, `KeptHistory` what the loop at 607 leaves, `Retransmissions` the RTX frames
`sfpTransmitHistory` sends and `SeqAfter` the value of `tx.seq` afterwards.
`PushBack` is `util::PotRingbuffer::pushBack`, which is not in the repository: a
full ring loses its oldest element, as lines 616-617 of `sfp.cpp` presuppose.

`SFPTransfer` is one direction of a connected link. `WritePacket`, `IgnoreNAK` and
`AnswerNAK` are the sending endpoint; `Deliver`, `RejectOutOfOrder` and
`IgnoreRetransmission` are the branches of `sfpHandleUSR`; `LoseData`, `LoseNAK` and
`RejectBadFrame` are the medium together with the checks of `sfpHandleFrame`.
`RejectBadFrame` covers a damaged data frame and also noise, and a damaged frame of
the other direction, for which the receiver sends a NAK too.

`SFPLink` has both endpoints, with all connect states, both directions of data on
the same wires, `sfpInit` and `sfpConnect` at any moment. One action is one call
into the library run to its end; a call of `sfpDeliverOctet` that does not close a
frame changes nothing at this level. `sfpConnect` resets the receiver in the middle of what
is arriving, so `Connect` may turn the first frame on the wire into a remnant that
fails the CRC, or, if only its closing FLAG was missing, into nothing
(`AfterReceiverReset`). A SYN1 and a SYN2 end in the same steps, `BecomeConnected`.
The handlers of the connected state are written out again for two endpoints, and
the run `link_connected` checks that they are those of `SFPTransfer`.

`SFPFraming` has the line of octets. An octet is a name; a CRC octet
also remembers the octets it was computed from, and `CrcGood` asks whether the last two
octets are the CRC of those before. CRC octets can have reserved values, in
which case they are escaped: `Transmit` chooses. Frames differ by content. A heartbeat FLAG is put behind what is on the
line (`Keepalive`) or anywhere between two octets of it (`KeepaliveAtHead`), as the threads of `tests/sfp-echo.cpp` 110-119 and
158 do, which hold no lock of the transmitter. Inside a frame it breaks that frame; the model puts it before the octet that is
next to arrive, which is enough since the line keeps the order.

`SFPMessageQueue` is `MessageQueueImpl` of one end. Its one variable `q` is a record of
the class's members and of what is in hand with asio: the `async_write`s under way,
whether a read is, and who waits for the timer. An operator from such a record to such a record is
a function of the class, or a coroutine from one `yield` to the next: `WritePump` is
`writePump`, `HandshakeFlushed` is `HandshakeOperation` resumed when its SYN0 has been
flushed. Handlers run inline in the code, so they are part of the step here: a
failed write (`HandleWriteError`) calls every handler in the outbox, one of which may stop the
read pump, another end the handshake and close the stream. What the peer does is a choice:
a read may connect or disconnect, bring a message, and call for a reply. Of what the user's handlers
may do inside these steps there is: handlers of sends that send again when called without an error (`ChainedSends`) or with one
(`RetriedSends`), also from within `voidOutbox`, and handlers of receives that, given a message, send
(`AnsweredReceives`) or receive again (`ChainedReceives`). `nested` says that the handler of a send has begun an `async_write`,
since it found the outbox empty between `pop()` and what follows; `undefined` that `front()` of an empty outbox
was taken, after which nothing is said. Left out are handlers of receives that act when called with an error (one that received again would keep `voidReceives`
going for ever), handlers of sends that receive, and what the handlers of a handshake, of a keepalive, or of a receive that finds
its message there, do before they return: the user does it next. Time is left out. A timer may
fire at any moment after it was armed, which covers its being cancelled, since both
coroutines take `operation_aborted` for no error. `readCut` and `writeCut` say that the
stream was closed after the operation was begun, which may then end aborted; the call
counters are history.

`SFPStream` is `sfp::stream` of one end. Each action runs one of its coroutines from one
`yield` to the next: `HandshakeReads` is `handshake_op` in `read_until_delivery_op`
or `read_until_connected_op` when `async_read_some` completes, `ReadDelivers` is `read_op` when the
phaser runs it, and so on. A handshake has the stream to itself, as the code's user must see to;
afterwards one read and several writes run side by side. The
`SFPcontext` is reduced to its connect state, to whether it answers a frame and to the
messages it delivers (`Feed`). What it transmits in one go is a numbered unit in
`writeBuffer`, and a write that fails has put some whole units on the line, and perhaps a part of another. `PhaserRuns` is
`composed::phaser`, a queue with a work guard, and the timeouts are `composed::timed`; both
are in a library that is not in the repository, and are modelled from how `stream.hpp` uses them.
An error may come at any time, which covers `cancel()`.

`SFPThreads` takes the calls of `SFPLink` apart. At each end a reader thread is in
`sfpDeliverOctet` and a user thread calls `sfpConnect` and `sfpWritePacket`; `lock` is
`mTransmitterMutex`. `Lock` and `Unlock` are `sfpLockTransmitter` and `sfpUnlockTransmitter`, and
between them every frame that goes out is a step (`Proceed`): `todo` holds what a thread
has still to do before it unlocks. `sfpHandleUSR` has three parts, as in the code: it looks at `connectState`
(`HandleUSR`), it calls the deliver callback (`Deliver`), and it counts (`Count`). The users are those of
`tests/sfp-echo.cpp`: one has a mutex that it holds while it sends and takes in its callback, the
other's callback sends the message back. `CallsAreAtomic` maps all of
this to `SFPLink`: what a thread that has the lock is going to do counts as done, and a message as
counted once its callback has been called. `Do` says what one of these things makes of a transmitter; `Proceed`
does one, and `Promised` is what all that are left will have made of it.

Correspondence of names: variables and operators keep the source's names
(`txSeq` is `tx.seq`, `rxSeq` is `rx.seq`, `HandleSYN0` is `sfpHandleSYN0`).
`sent`, `delivered`, `base` and the `at` of a NAK are history variables. None of
the first three occurs in a guard apart from the bound on `sent` and the window, `at`
only in the window.

Definitions marked as variants (`PushBackUnbounded`, `AwaitSYN1`, ...) are used by
no action. Each is a plausible mistake in the definition that
follows it, and exchanging the two makes TLC report the property named with it in
`PROJECT.json`: that is how we know each property can tell right code from wrong.

## 3. What is assumed

* **The wire keeps order.** It is a serial line. Octets may be dropped, flipped or,
  in the shape of whole noise frames, appear. Damage that the CRC does not notice is
  left out of every model.
* **Frames.** `SFPTransfer` and `SFPLink` see frames, not octets. `SFPFraming` is the
  reason they may: its `AcceptsSubsequence` says that what octet faults do to a
  sequence of frames is to remove some, never to reorder, repeat or invent any.
* **The window** (`SFPTransfer`, and the run `link_connected`). The code lets a user
  write any number of packets, and repairs a loss only if the packets are still in
  the history. So the promise of `MessageChannel` holds only for users who keep
  at most `Window <= HistoryCapacity` packets outstanding. Outstanding is
  counted from `Confirmed`, which is the position of the oldest NAK in flight, or
  the receiver's if there is none. A user cannot see it, but a user who
  counts its peer's answers stays behind it, because an answer travels behind the
  NAKs that were sent before it. Without this assumption the code loses messages
  silently; the run `echo_in_order` shows it.
* **Traffic** (`SFPFraming`). Frames are not empty and are made of octets that are not part of a CRC
  (`TrafficAssumption`), and differ in content.
* **Who may call when.** `SFPLink` takes calls into one `SFPcontext` as steps that do not overlap.
  `SFPThreads` is proved to implement `SFPLink` (section 6), so that is right for a reader and a user with
  `SFP_CONFIG_THREADSAFE`, on one condition: `sfpConnect` and `initialize` are
  not called while `sfpDeliverOctet` executes, as the comment at `sfp.cpp` 132 asks. If
  they are, a reset of `rx.seq` may fall between the callback and the increment, so that the
  receiver expects 1 and the first message of the new connection is lost without a trace, or it falls
  in the middle of the receiver's other fields. The coroutines of one `MessageQueue` or `stream` run
  on one thread of its `io_service`; neither class has a lock.
* **Users of a `stream`** have one handshake or, after it has succeeded, one read and any number
  of writes at a time. The stream's assertions that the link is connected are not assumed: see section 5.
* **Users of a `MessageQueue`** send, receive and start a keepalive only when a handshake has
  succeeded on the stream as it is open now, as the assertions of lines 170, 185 and 208 of
  `messagequeue.hpp` ask, and have one handshake and one keepalive at a time. The run
  `message_queue` assumes that nobody shakes hands while a keepalive runs (`RehandshakeAlive`);
  the run `queue_keepalive` shows what happens otherwise. Handlers of sends may send again. Once one has begun a write
  itself (`nested`), `WritesFront`, `ReadyMeansListening` and `CloseEndsAll` say nothing more: the run `queue_chained_send` shows why.
  `HandlersCalledOnce` and `OneReadPump` have no such exception.

**Fairness.** Each endpoint keeps reading what arrives: weak fairness of
`HandleFrame(n)` in `SFPLink`, of `Receive` and `ReceiveNAK` in `MCSFPTransfer`. Every
caller of `sfpDeliverOctet` in the repository is a loop that reads a line for as long as
it is open. No fairness is assumed of users or of the medium, and there is no timer
in the C library to be fair about. In `SFPMessageQueue` timers fire, and a read or a write that was under way
when the stream was closed ends; asio promises both. A read or a write on an open stream
may take for ever: no action of the peer is fair. In `SFPStream` the timers of a handshake expire, which is
all that `HandshakeEnds` rests on. A write outside of a handshake has no timer, so `WritesEnd` needs the
line to take octets or to fail; the phaser runs what is queued. In `SFPThreads` a call that has begun
goes on when the locks let it: a `std::mutex` is not fair, but with a bounded number of messages
nobody is overtaken for ever, so weak fairness is enough. Liveness properties are therefore conditional: on no
further fault (`GapRepaired`, `HandshakeResumes`), on a clean medium
(`HandshakeCompletes`), on the number of user calls and faults being bounded
(`EventuallyQuiet`), or on the stream staying closed (`CloseEndsAll`).

## 4. Runs

| Run | Instance | Shows |
|---|---|---|
| `transfer` | `SeqRange` 4, history and window 3, 8 packets, 3 faults | `ReliableInOrder` (refines `MessageChannel`), `NoUnderrun`, the inductive invariant `IndInv`, `GapRepaired` |
| `link` | both ends may connect once, 2 packets each, and one disruption: a fault or an `sfpInit` | on the clean link `QuietAgreement`, `QuietSync`, `HandshakeCompletes`; in any case `AtMostOnceInOrder`, `EventuallyQuiet`, `HandshakeResumes` |
| `link_connected` | connected, history and window 2, 5 packets each way, 2 faults | `DirectionsAreTransfers`, `TypeOK` |
| `threads` | two threads at each end, one end connects and sends 2 messages that come back, 1 `sfpInit`, 2 losses | `CallsAreAtomic` (refines `SFPLink`), `CallsReturn`, `EchoesInOrder`, `ThreadsInv` (with `TypeOK`) |
| `framing_lossy` | buffer of 4 octets, 3 frames, 1 heartbeat between or inside frames, 2 octet faults | `AcceptsSubsequence`, `Resynchronizes`, `CleanLineNoNAK`, `TypeOK` |
| `message_queue` | `MaxAttempts` 1, 2 sends, 2 receives, 2 handshakes, 1 keepalive, 1 reopening, 1 message nobody waits for; the first send's handler sends again, with an error or without, the first receive's sends and receives | `HandlersCalledOnce`, `WritesFront`, `OneReadPump`, `ReadyMeansListening`, `CloseEndsAll`, `TypeOK` |
| `stream` | 2 writers, 2 handshakes, 4 frames from the peer, up to 2 in one read | `BufferStable`, `LeavesOnline`, `NothingLost`, `NoInputDiscarded`, `ConnectedWhenReady`, `HandshakeEnds`, `WritesEnd`, `TypeOK` |
| `early_write` | both ends connect and write before being connected | violates `EarlyWritesArrive` |
| `echo_in_order` | connected, history 2, 5 packets each way, 1 fault | violates `EchoesInOrder` |
| `framing_max_packet` | payloads of `MaxPacket` and `MaxPacket - 1` | violates `PacketsUpToMaxArrive` |
| `queue_chained_send` | as `message_queue`, but of the handlers only the first send's does anything: it sends again when there is no error | violates `WrittenIsFront` |
| `queue_keepalive` | as `message_queue`, handlers do nothing, a handshake may begin while a keepalive runs | violates `KeepaliveAfterHandshake` |

Why these bounds are enough to be interesting:

* `SeqRange` 4 stands for 64. It is the least the four SYN numbers allow and makes 8
  packets wrap the numbering twice, with frames and NAKs of different cycles in
  flight. History 3 in `transfer` is the largest the assumption
  `HistoryCapacity < SeqRange` allows, where an error of one would show. That the values do not
  matter is what the proofs of section 6 say.
* Three faults in `transfer` give two NAKs for one gap and a loss among the
  retransmissions that answer them.
* One disruption in `link` may come at any moment of the opening, of the data or of what an
  end does about it. An `sfpInit` is the restart of an end, in which the other finds out
  from its first frame. The bound is not only for the number of states: with two
  disruptions `AtMostOnceInOrder` is false if both ends connect (section 5). It holds with
  any number of them if one end connects, once (`OneConnectionInOrder`).
* In `link` the packets written fit the history (2). With
  three, `QuietSync` fails without any fault when both ends connect at once: the SYN2 that
  arrives late makes `sfpTransmitHistoryFromSeq(0)` renumber a history whose oldest packet
  is gone; and `AtMostOnceInOrder` fails with a fault, for the reason `echo_in_order`
  shows. Both are the unbounded window again. `QuietSync` also fails,
  with the same cause, if both ends connect twice or if users write before being
  connected.
* In `framing_lossy` two faults are enough to lose a FLAG and garble an octet inside
  what has become one long frame, which fills the buffer of 4 octets; two of the three frames
  have reserved octets in header or payload, and CRC octets may be reserved. The heartbeat meets every octet of a frame, escapes
  included, and every fault before or behind it.
* In `message_queue` two sends, a keepalive, a handshake's SYN0 and a reply of the read pump can be in the
  outbox together, in every order, when a write fails. Two handshakes and one reopening let the
  second handshake begin while the first stream's read and write are still to be
  handled. Two sends and two receives are the least for which a handler can begin another. `MaxAttempts` 1, for 50, gives up after two attempts: the test is `>`.
* In `stream` two writers are the least for which one waits for the phaser while another writes and a
  read wants to flush. Two frames in one read let a message break off the input in the middle; four let
  a handshake connect, settle and be followed by a read of two. The second handshake begins with whatever the
  operations after the first have left in the buffers. `NoInputDiscarded` excepts it: its first read empties `read_buffer` (line 237) also of what a
  message broke off in the connection before, and TLC finds that happen. In the same way a message that is still in the slot then is
  lost (line 128), so that `NothingLost` counts from the beginning of the last handshake. `MaxFrames` bounds the peer, so `HandshakeEnds` says that
  the timers stay armed wherever a handshake waits, and nothing of a peer that never stops.
* In `threads` two messages and two losses make the retransmission of one end meet the user of the other. The
  history holds both, so that `EchoesInOrder` is not the violation of `echo_in_order`.

Deadlock is not checked: a user need not write, so every model may stop.

## 5. Findings

1. `sfpWritePacket` accepts packets of up to `SFP_CONFIG_MAX_PACKET_SIZE` octets, but the
   receiver stores the CRC in a buffer of that size: the two longest
   never arrive (`framing_max_packet`).
2. `doc/handshake.txt` 29-32 promises that packets written right after `sfpConnect`
   are buffered until the connection is made. If the peer connects as well,
   its SYN0 clears them (`early_write`). When only one end connects they arrive. The asio
   handshakes call `sfpConnect` on both ends, so both connecting is the
   usual case there; they do not write early.
3. `tests/sfp-echo.cpp` sends 100 messages without waiting and requires them back in
   order on a line that drops octets. With 8 packets of history this does not hold
   (`echo_in_order`). The test sets `SFP_CONFIG_HISTORY_BUFFER_CAPACITY`; the header reads
   `SFP_CONFIG_HISTORY_CAPACITY`, and the test would have to set it for the library too.
4. `MessageQueue` may write the same buffer twice. `handleWrite` pops the outbox, calls the
   handler and then pumps. A handler that sends finds the outbox empty and starts a write
   itself; the pump starts a second one of the same buffer, and asio allows one at a time. When
   the first ends, the assertion of line 337 looks at the front of an empty outbox or at another
   buffer (`queue_chained_send`). A coroutine that sends twice in a row is such a
   handler.
5. A second `asyncHandshake` beside a running keepalive fails the assertion of line 185: the
   keepalive goes on sending while `mHandshakeComplete` is false, and the handshake
   itself wakes it by rearming the timer they share (`queue_keepalive`).

Smaller things, which no run is about. The transition table of `doc/handshake.txt` (8-13)
differs from the code in two entries, where the code's choice is the one that works.
The handshake of `MessageQueue` makes 51 attempts, not `kSfpMaxHandshakeAttempts`. And
`getReadPumpError` clears the error it returns, so that
`ReadyMeansListening` holds only while a handshake is alone to ask: TLC finds it false on a reopened stream when a
keepalive runs beside the new handshake, or when a handler of a send has begun a write. A handler that answers an error by sending again
keeps `voidOutbox` (365-371) turning while the stream is open, each turn popping a buffer whose `async_write` has just begun.

Of `stream`. The assertions of `stream.hpp` 90 and 96, "SFP handshake not yet completed", fail when the
peer reconnects or disconnects after a handshake that succeeded, and a user has no way
to ask. `write_buffer` is created with a capacity of 1024 octets, which a retransmission of 8 long
packets does not fit. After a failed write everything in it is sent
again, also what had reached the line (`WriteError`), and after the failed flush of a read everything
in it is dropped (`ReadFlushError`, the exception in `LeavesOnline`); the protocol gets over both, by numbers and NAKs.

When both ends have called `sfpConnect`, two disruptions can make a packet arrive twice, though
the history holds all that was written. TLC found it with two faults, four packets from one
end and `HistoryCapacity` 4. A NAK for noise makes the end that waits for a SYN1 repeat its SYN0,
which resets the other while its own SYN0 and data are under way; a NAK for more noise is answered before the late
SYN2, which then renumbers the history from 0; and a NAK sent under the old numbers
makes it send a packet again, under the number the receiver waits for. It also happens when `sfpConnect` is called twice at
each end and one frame is lost, or with one caller and two calls under two faults and an `sfpInit`. The numbers of a connection
say nothing of which connection they belong to, and nothing in the repository promises that they do.

`doc/handshake.txt` 22-23 also says that `sfpInit` empties the history. It does not
touch it; `Reinit` follows the code. Both ways out of `DISCONNECTED` clear it.

## 6. Proofs

**Data transfer.** `SFPTransmitterProofs` proves what the operators of `SFPTransmitter` return;
`SFPTransferProofs` proves, of every behaviour of `SFPTransfer`:

* `Invariance`: `Spec => []IndInv`
* `TypeCorrectness`: `Spec => []TypeOK`
* `HistoryNeverUnderruns`: `Spec => []NoUnderrun`
* `Refinement`: `Spec => ReliableInOrder`, that is, `SFPTransfer` implements `MessageChannel`

for every `SeqRange`, every `HistoryCapacity` in `1 .. SeqRange - 1`, every `Window` in
`1 .. HistoryCapacity`, any number of packets and of faults. The code's 64 and 8 satisfy these
assumptions. The third theorem is about the line "lost by history buffer underrun":
a user who keeps the window never sees it.

The argument. That what is delivered is what was written says nothing about frames in
flight, so it is not inductive. `IndInv` adds:

* `Numbering`: `txSeq` and `rxSeq` are positions in the stream modulo `SeqRange`.
* `HistoryCovers`: the history is the newest end of what was written and
  reaches back to `Confirmed`.
* `NaksOrdered`: NAKs in flight name positions that only grow, none beyond the receiver,
  so that the oldest one bounds them all.
* `WindowKept`: at most `Window` packets are beyond `Confirmed`.
* `DataUnambiguous`: a frame is numbered by its packet's position, and neither the receiver nor
  any frame ahead of it is a full cycle past it.

The last is the heart of it. Equal numbers then mean equal positions
(`SameNumberSamePosition`), so the receiver accepts only the next packet (`AcceptedIsNext`). It
survives a retransmission because what is retransmitted starts at a position not
before `Confirmed`, and nothing in flight is beyond `sent`, less than a cycle
later (`AnswerNAKInv`, where `FastForwardValue` shows that the masked subtraction
gives the number of packets between). `Confirmed` never goes back
(`NAKLeaves`, `NAKSent`), which is where the order of the wire is used.

**Link.** `SFPLinkProofs` proves, for every numbering range, every history capacity, any number of calls, packets and faults:

* `LinkTypes`: `TypeOK`, of links that begin before a handshake or after one.
* `Agreement`: `QuietAgreement`, with `sfpConnect` called by either end or both, any number of times, in
  any state, and with writes in any state.
* `Synchronized`: `QuietSync`, with `sfpConnect` called once by either end or by both, at any time and in any state, if users write
  only when connected (`WriteStates \subseteq {"CONNECTED"}`) and no more than the history holds (`MaxSent <= HistoryCapacity`).
* `OpeningInOrder`: `Clean => AtMostOnceInOrder`, under the assumptions of `Synchronized`: until there is a fault or an `sfpInit`, no packet is
  delivered twice or out of order, with both ends connecting.
* `LinkImplementsTransfers`: `DirectionsAreTransfers`, for a connected link whose users keep the window (`WindowedSpec`) if
  nobody connects anew (`Initiators = {}`, `MaxInits = 0`).
* `WindowedInOrder` and `WindowedNeverUnderruns`, of the same links: `EchoesInOrder`, which `echo_in_order` shows to be false without the
  window, and `NoUnderrun` of each direction.
* `OneConnectionInOrder`: `AtMostOnceInOrder`, and more, that the packets delivered are the first ones written (`EchoesInOrder`), if one
  end calls `sfpConnect`, once, and users write only when connected and no more than the history holds; with any number of
  faults, and with either end initialised anew any number of times.

That the ends agree when nothing is in flight is not inductive: it must be said what is in flight when they do not agree.
`AgreementInv` says it of each end: while it is in SENT_SYN0 there is a SYN0 on its way to or from it or the SYN1 that answers it
(`SYN0Pending`); in SENT_SYN1 its SYN1 or something that ends the wait (`SYN1Pending`); and while it is not disconnected and the other is,
something that the other will answer with a DIS, or the DIS itself, or a new SYN0 (`DisconnectionPending`). What makes these stay
true when frames cross is the order of the wire: a DIS sent before an end began to connect has that end's SYN frame behind it (`DISOvertaken`),
and only the first frame can be the remnant of a reset (`RemnantFirst`).

For `QuietSync` the invariant, `SyncInv`, must say what everything that is in flight is going to do to the numbers of both ends. The
frames on a wire belong to several connections, parted by SYN0 frames, and the invariant speaks of one direction at a time:

* `Settled`: from one SYN0 to the next the data come in order, though some may come again (`Ordered`); those behind the last SYN0 are,
  with nothing missing, what the transmitter's history holds (`Current`); if no SYN0 is left, what came before them has been
  delivered (`Received`); and data reach a receiver that is connected, or will be by a SYN1 or SYN2 before them (`Admitting`).
* `Resetting`: this need not be so while the transmitter is itself going to be reset by a SYN0 of the other end (`Pending`). Then nothing it has
  sent is going to be accepted: the other end waits for a SYN1, and the data come before one.
* `Crossing` says where SYN1, SYN2, NAK and damaged frames can be while two handshakes cross: a SYN1 that is overtaken by a SYN0 of its
  sender is the first frame, and its receiver has asked for it; a SYN2 is never overtaken; a NAK can only be the answer to the
  remnant of a reset, and comes behind the SYN0 of that reset, where nobody is connected.
* `Opening`, until an end calls `sfpConnect`, lists the stages of the opening that the other one has begun: this is what that call can meet.
* `Numbered`: the history holds all that was written since the reset, under the numbers from 0, so that a late SYN1 or SYN2, which makes
  `sfpTransmitHistoryFromSeq(0)` send it all again, changes no number. This is where a history that has lost a packet, or a packet written
  before the connection is made, would do harm.

There is a lemma for each way in which a step changes a direction (`SendingConnected`, `ReceivingConnected`, `SendingAfterSYN0`, ...), over
lemmas about taking the first frame of a wire and putting others behind it (`StreamTail`, `StreamBlock`, `CrossingCat`, ...), and one for
each handler and call, which says that both ends stay in step (`SYN0InStep`, `ConnectedInStep`, `DataInStep`, `ConnectInStep`, ...).

`OpeningInOrder` says more than `Synchronized`, which is about quiet links: what is accepted by its number meanwhile is new. A SYN0 resets
a receiver that has delivered, and a history that has been sent is sent again from 0, so numbers and packets both come twice. `CleanInv`, which is
`SyncInv` and `OnceInOrder` of both directions, compares the data that are going to be accepted with what has been delivered:

* `Newer`: each datum whose number has not been passed when it is taken, by the number that the receiver waits for then, is newer than all it has delivered.
* `Growing`: between two SYN0 frames packets differ as their numbers do, and those of one connection are newer than those of the one before,
  so that delivering one datum leaves those behind it `Newer`.
* `Older`: what was delivered or is on the way from before the transmitter was last reset is older than what it writes now, so that a new
  packet, and a history that is sent again, are `Growing` and `Newer`.

As in `Resetting`, nothing of this need be so while the transmitter is going to be reset itself (`Pending`); what is under way then is refused, and
when the SYN0 or the SYN1 that ends this has been taken there are no data left (`OnceAfterSYN0`, `OnceTaken`). For each way a wire
changes there is a lemma (`SequelTail`, `SequelDeliver`, `SequelCat`, `SequelSYN0`), and for each handler and call one that puts them together (`SYN0Once`, `ConnectedOnce`, ...).

`OneConnectionInOrder` is about a medium that loses, damages and makes up frames, in the middle of the handshake too, and about ends
that restart. Its invariant, `OneConnectionInv`, is of another kind than `SyncInv`: with one opener there is one numbering, in which packet `k`
has number `k - 1` for ever, and what has to be shown is that nothing begins a second one while the first is in use.

* `Roles`: only the end that connected sends SYN0 and SYN2, the other SYN1, and each state of one end excludes what cannot be on the
  wires with it; so a SYN0 that is repeated, because a NAK for noise asked for it, finds nobody who has received data.
* `Prefix`: what an end has been given is `1, 2, ..` up to what the other has written.
* `Incoming`: `rxSeq` is the number of packets delivered; a datum carries its own number; and a SYN0, which would reset the
  receiver, is not behind a SYN2 or a datum (`Opened`).
* `Outgoing`: `txSeq` is the number of packets written, the history is the newest end of them, and the NAKs on the way ask, in order, for
  packets it still has. A late SYN1 or SYN2, which resends the history from 0, therefore resends it under the same numbers: while one is under
  way, no NAK has asked for more than the first packet (`Requests`), and the history has not lost one.
* `Over`: an end that is disconnected after its connection, by a DIS or an `sfpInit`, never takes part again, so nothing more is said of it than
  `Prefix`. Its peer may go on writing; nobody takes what it writes.

For the directions, `DirectionsInv` is `IndInv` of `SFPTransfer` in both, on wires that carry nothing but data and NAKs. `Only` takes a
wire apart, and each handler of `SFPLink` becomes a step of one direction, of the other or of both, or a stutter
of one. A NAK has no position in `SFPLink`; it gets one from `rxSeq`, and that this one does not change when the receiver moves on
is `NaksRecent`: no NAK on the wire is a whole cycle old. The lemmas of `SFPTransferProofs` are used through two instances, `First` and
`Second`, since a theorem of an instance with a parameter cannot be cited.

**Framing.** `SFPFramingProofs` proves `TypeOK`, whose point is that the packet buffer never
overruns, and `AcceptsSubsequence`, for every buffer size, any traffic, and any number of faults
and receiver resets. The invariant `FramingInv` follows the octets that end a CRC, through the line,
the CRC the receiver is computing and the frames it has accepted: each names the frame it was computed
from, and these names are in the order of transmission everywhere (`Order`). Faults, escapes
and resets only take octets away. A frame is accepted only with such an octet at its end, which is
then gone, so the next one accepted was transmitted later. What `WrittenAll` puts on the line is
computed by recursion; `SetInduction`, from the well-foundedness of the naturals, gives the lemmas about it.

The other direction, that what is not damaged does arrive, is `UndamagedFramesArrive` (`Resynchronizes`), `NoNAKOnCleanLine`
(`CleanLineNoNAK`) and `ShorterPacketsArrive`. They hold under
`\A f \in Traffic : Len(f) + 1 <= MaxPacket`. A frame is its header and its payload, so payloads have at most `MaxPacket - 2` octets: the packet
buffer, which also takes the two of the CRC, has room for no more. The bound is sharp: `ShorterPacketsArrive` is `PacketsUpToMaxArrive`, which the run
`framing_max_packet` finds violated with a payload of `MaxPacket - 1`. A heartbeat next to a frame's FLAG does no harm, and one inside a frame
makes it one of the `damaged`. The invariant `ArrivalInv` says of each undamaged frame that it waits whole on the line, is arriving, or has arrived. Arriving
means that reading the rest of it takes the receiver from the state it is in now to the end of that frame (`Reads`, `Ready`),
whatever it was in the middle of when the frame's FLAG came: the FLAG makes it idle, in an escape too. While no frame is damaged all that is on the line
reads in this way, without a NAK (`CleanLineReads`).

**Message queue.** `SFPMessageQueueProofs` proves `HandlersCalledOnce` and `OneReadPump`, for any number of
calls and any choice of the handlers of section 2 that send or receive, and `WritesFront` until a handler of a send has begun
a write: `queue_chained_send` shows what becomes of it then. Each step of the
queue calls handlers in the middle of itself, so the invariant is stated of a record and of the set of
handlers that are still to be called, those in the outbox and the one in hand:

* `Counted`: each handler has been called once, or is in that set, or is with the
  timer or among the waiting receives, and in one of them only; the read pump runs if it reads or is in the set.
* `Placed`: an operation that is idle waits for nothing.
* `Whole`: both, for the handlers in the outbox, which are all different.

`Goes` says that a function called with a handler in hand leaves the same without it. There is one such lemma for
each function, and `VoidOutboxGoes` puts them together for an outbox that is
voided, by induction on its length. That this holds for nested calls, where the handler of one
operation stops the read pump and that of another closes the stream, is what the set in hand is needed for.

`ReadyUsersListen` is `ReadyMeansListening`: after a handshake that succeeded, as long as the stream stays open, the read pump
runs. A stream that was closed and opened again still has to handle the aborted read and write of the old one, and either
stops the pump, perhaps after the new handshake has begun. Three facts show that it does not happen after the handshake
has ended:

* `HandshakeIsTold`: during a handshake nobody else asks for `mReadPumpError`. So if it is clear the pump has not stopped; and
  if the link is connected, the old read is over, since a read has told so.
* `FreshWrite`: while a handshake waits for its timer, the write under way is not one of the old stream, since the
  handshake itself has been written after those, and an old write that fails takes everything in the outbox with it.
* `UserIsHeard`: the handshake that succeeds hands both to the user, and only a close, after which the
  user must shake hands again, makes the read and the write old.

`QueueTypes` proves `TypeOK` in the same manner, of a record (`Typed`), and bounds the attempts of a handshake by `MaxAttempts + 1`.

`ReadyMeansListening` holds for any number of calls and reopenings, under `~ RehandshakeAlive` and until `nested`; both are needed.

**Stream.** `SFPStreamProofs` proves `BufferStable` and `LeavesOnline` for any number of writers, calls
and frames. `OwnerInv` says who has the write buffer: the handshake while it writes, otherwise the holder of the
phaser's work guard; nobody else has a write under way, and the buffer is what was passed to it.

It also proves `NothingLost`, `NoInputDiscarded` and `ConnectedWhenReady`. The stream has one slot for a message,
which `deliver_input_sequence` clears without looking, and several coroutines that call it. `InputInv` says why
the slot is empty whenever one of them does: in a handshake it holds at most
the first message, which ends the handshake and leaves the link connected; a read begins with what is in the
slot, and feeds the context or reads on only with the slot empty, and reads on only with the buffer empty too
(`HandshakeInput`, `ReaderInput`). Before the first handshake there is nothing in the buffer (`FirstHandshake`); a later one may find something
and throws it away, which is the exception in `NoInputDiscarded`, and `NothingLost` is about the current handshake and what follows it. `AllAccounted` then counts the messages: those returned and the one
in the slot. `FedProperties` is what one call of `deliver_input_sequence` does with a buffer, however many frames
are in it: it stops after the first that delivers. It is proved by induction on the frames consumed.

`StreamTypes` proves `TypeOK`. Its bounds come from `FramesCounted`: a frame is in `read_buffer` or has been fed, and then made one message at most.

**Threads.** `SFPThreadsProofs` proves, for any number of packets, calls, resets and lost frames, and any size of the history:

* `LocksSuffice`: `ThreadsInv`, the inductive invariant, which the run `threads` checks too.
* `CallsLookAtomic`: `CallsAreAtomic`, that `SFPThreads` implements `SFPLink`.
* `EchoesStayInOrder`: `EchoesInOrder`, if one end calls `sfpConnect`, once, users write only when connected and no more than
  the history holds, and who is sent echoes sends to one who sends nothing else.
* `ThreadsAgree`: what `Agreement` says of `SFPLink`, of two ends with two threads each: once nothing is in flight and nobody has
  a lock, both are connected or both are not.

`ThreadsInv` has three parts besides the types. `Locking`: only the thread that holds the lock has something left to do, so there
is one sequence of promised steps at each end. `Reading`: a frame is in hand until the reader has acted on it; `sfpConnect` never
overlaps with the reader; and while the reader compares sequence numbers, which it does without the lock, the state is still CONNECTED.
`Writing`: a user who sends has only data to transmit. A step of `SFPThreads` is then one of three:

* a call that gets the lock is the whole call of `SFPLink` (`AnswerConsumes`, `WriteMaps`, `ConnectMaps`), since the lock is free before
  and so nothing else is promised;
* a frame that goes out is a stutter (`ProceedUnseen`): it goes from what is promised to what is on the line, and what was to come
  after it does the same to the transmitter as before (`DoAllAfter`);
* a callback that is called is `Deliver` of `SFPLink`, although the lock is not held: the user may be sending meanwhile, but
  only data, which leave the state CONNECTED (`ComparesConnected`). Were the lock kept for `sfpHandleUSR` as a whole, this would be
  simple, but `CallsReturn` would fail.

What is said of a sequence of promised steps is proved by induction on the steps, with `SetInduction`.

`EchoesStayInOrder` is what the program of `tests/sfp-echo.cpp` is after: that messages sent back by the other end's callback
arrive in the order in which they were sent, with frames lost, ends initialised anew, and two threads at each
end, under the assumptions of `OneConnectionInOrder`. It does not follow from that theorem and `CallsAreAtomic` alone, since the `Deliver` of `SFPLink` and the
`sfpWritePacket` that sends the message back are two steps, and the end may have been disconnected between them, where the guard of `WritePacket`
would not let it write. `EchoInv` is `OneConnectionInv` of the link that is seen, and:

* an end that is connected, is about to be, or has passed the test of `WritePacket` (`MayWrite`) is one whose write would still be right (`Ready`): it is
  connected, or its connection is over and its number is not one its peer could take for another;
* an end that sends nothing of its own has sent no more than it has been given (`OnlyEchoes`).

`EchoStep` is what one step of `SFPThreads` does for the last two; there is a lemma for each action, and `StepEchoes` puts it together with `NextOne`, the
step of `OneConnectionInv` in `SFPLinkProofs`, where the two modules meet.

**What is assumed** is only the named `ASSUME`s of the modules on their constants, which TLC evaluates in the runs, and what
the statement of a theorem assumes: `~ RehandshakeAlive` for `ReadyUsersListen`; room in the packet buffer for the three theorems above; nobody who connects anew for those about directions; and for
`Synchronized` and `OpeningInOrder` one call of `sfpConnect` at each end and the two limits on what is written, with one caller in all for
`OneConnectionInOrder` and `EchoesStayInOrder`, which also assumes that nobody sends messages of its own to an end whose echoes are counted. All
are needed, since TLC finds what is stated violated without any of them (sections 4 and 5), with two exceptions. If somebody may connect
anew, the link need not be connected, and there are no directions to speak of. `OpeningInOrder` has the assumptions of `SyncInv`, which it rests on and
which is false without them; itself, TLC finds it false of users who write more than the history holds (five packets, `HistoryCapacity` 2,
`SeqRange` 4), but found nothing with two calls of `sfpConnect` at each end and three packets, or with early writes and four.

**Only checked by TLC**: `AtMostOnceInOrder` of a link both ends of which connect, from a fault or an `sfpInit` on, in the run `link`;
and all liveness, `CallsReturn` of the threads included, since the prover does no liveness under fairness and no ENABLED.

## 7. Plan

Done: all components that have state are modelled, `SFPThreads` is proved to implement `SFPLink`, each direction of
a connected `SFPLink` to implement `SFPTransfer`, this to implement `MessageChannel`, and the safety properties of `SFPFraming`, `SFPMessageQueue` and `SFPStream` are proved.

What would come next: `AtMostOnceInOrder` with both ends connecting and one disruption, which `OpeningInOrder` proves up to the disruption. It has to follow a lost SYN frame, and the frames of an end that
was initialised anew, as `SyncInv` follows those of a clean link, and to count disruptions, since it is false with two.

Not modelled, and not planned:

* `sfpConnect` or `initialize` during `sfpDeliverOctet`: the API forbids it, and nothing is promised of it.
* Calls of one `MessageQueue` or `stream` from several threads: the classes have no lock.
* The CRC polynomial: damage that is noticed is all a model can say something about.
* The texts of errors and statuses, logging, debug names: they have no state.
* The batching of octets in the C library's write buffer: it changes how octets are grouped, not their order.
* 8-bit widths other than the sequence numbers'.
* The delays and capacities of the tests' simulated medium: a wire in the models may be slow and holds what is sent.
