-------------------------- MODULE SFPStreamProofs ---------------------------
(***************************************************************************)
(* That the operations of SFPStream share one write buffer safely, and     *)
(* that they return every message the context delivers, for any number of  *)
(* writers, calls and frames.                                              *)
(***************************************************************************)
EXTENDS SFPStream, SequenceTheorems, SetInduction, TLAPS

(***************************************************************************)
(* Who has the write buffer, and with it the layer below: the handshake    *)
(* while it writes, otherwise the holder of the phaser's work guard.       *)
(***************************************************************************)
Flushing == handshake \in {"flush", "connect_flush", "settle_flush"}

Write(op) == [op |-> op, units |-> writeBuffer]

WritesOfOwner ==
  writing = IF Flushing THEN {Write("handshake")}
            ELSE IF holder = "none" THEN {} ELSE {Write(holder)}

HolderIsAtWork ==
  /\ holder \in Writers \cup {"none", "read"}
  /\ holder = "read" <=> reader = "flush"
  /\ \A w \in Writers : holder = w <=> writer[w] = "writing"

HandshakeAlone ==
  handshake # "idle" => reader = "idle" /\ \A w \in Writers : Idle(w)

BufferTypes ==
  /\ writeBuffer \in Seq(Nat) /\ units \in Nat
  /\ writer \in [Writers -> {"none", "waiting", "writing", "ok", "failed"}]

OwnerInv == BufferTypes /\ HolderIsAtWork /\ HandshakeAlone /\ WritesOfOwner

-----------------------------------------------------------------------------
(***************************************************************************)
(* A write that ends is the only one under way, and none is left.          *)
(***************************************************************************)
LEMMA OnlyWriteEnds ==
  ASSUME NEW op, NEW n, NEW b, writing = {[op |-> op, units |-> b]}, Written(op, n)
  PROVE  /\ writing' = {}
         /\ online' = online \cup {b[i] : i \in 1 .. n}
BY DEF Written

(***************************************************************************)
(* Where nobody writes, nobody has the phaser.                               *)
(***************************************************************************)
LEMMA NobodyHolds ==
  OwnerInv /\ reader # "flush" /\ (\A w \in Writers : Idle(w)) => holder = "none"
BY DEF OwnerInv, HolderIsAtWork, Idle

(***************************************************************************)
(* What deliver_input_sequence does to the write buffer.                   *)
(***************************************************************************)
LEMMA InputTypes ==
  ASSUME NEW input, BufferTypes, DeliverInput(input)
  PROVE  writeBuffer' \in Seq(Nat) /\ units' \in Nat
<1>1. units + 1 \in Nat /\ Append(writeBuffer, units + 1) \in Seq(Nat)
  BY DEF BufferTypes
<1>2. /\ writeBuffer' = IF Fed(input).answered THEN Append(writeBuffer, units + 1) ELSE writeBuffer
      /\ units' = IF Fed(input).answered THEN units + 1 ELSE units
  BY DEF DeliverInput, Transmitted
<1> QED  BY <1>1, <1>2 DEF BufferTypes

LEMMA EmptyBuffer ==
  BufferTypes /\ writeBuffer' = << >> /\ UNCHANGED <<units, writer>> => BufferTypes'
BY DEF BufferTypes

LEMMA OwnerInit == Init => OwnerInv
BY WritersAssumption
   DEF Init, OwnerInv, BufferTypes, HolderIsAtWork, HandshakeAlone, WritesOfOwner, Flushing

-----------------------------------------------------------------------------
(***************************************************************************)
(* One lemma for each kind of step.                                        *)
(***************************************************************************)
LEMMA BeginHandshakeOwner == OwnerInv /\ BeginHandshake => OwnerInv'
<1> SUFFICES ASSUME OwnerInv, BeginHandshake PROVE OwnerInv'
  OBVIOUS
<1>1. holder = "none" /\ writing = {}
  BY NobodyHolds DEF BeginHandshake, OwnerInv, WritesOfOwner, Flushing
<1>2. BufferTypes'
  <2>1. units + 1 \in Nat /\ Append(writeBuffer, units + 1) \in Seq(Nat)
    BY DEF OwnerInv, BufferTypes
  <2> QED  BY <2>1 DEF BeginHandshake, Transmitted, OwnerInv, BufferTypes
<1>3. HolderIsAtWork' /\ HandshakeAlone'
  BY DEF BeginHandshake, phaser, OwnerInv, HolderIsAtWork, HandshakeAlone, Idle
<1>4. WritesOfOwner'
  BY <1>1 DEF BeginHandshake, BeginWrite, WritesOfOwner, Flushing, Write
<1> QED  BY <1>2, <1>3, <1>4 DEF OwnerInv

(***************************************************************************)
(* A step of a handshake that leaves the others and the phaser alone: what *)
(* it has to show is its own.                                              *)
(***************************************************************************)
LEMMA HandshakeOwner ==
  ASSUME OwnerInv, handshake # "idle", BufferTypes',
         UNCHANGED <<phaser, reader, writer>>,
         writing' = IF Flushing' THEN {Write("handshake")'} ELSE {}
  PROVE  OwnerInv'
<1>1. reader = "idle" /\ \A w \in Writers : Idle(w)
  BY DEF OwnerInv, HandshakeAlone
<1>2. holder = "none"
  BY <1>1, NobodyHolds
<1>3. HolderIsAtWork'
  BY DEF OwnerInv, HolderIsAtWork, phaser
<1>4. HandshakeAlone'
  BY <1>1 DEF HandshakeAlone, Idle
<1>5. WritesOfOwner'
  BY <1>2 DEF WritesOfOwner, phaser
<1> QED  BY <1>3, <1>4, <1>5 DEF OwnerInv

LEMMA HandshakeWrites ==
  OwnerInv /\ handshake # "idle" =>
    writing = IF Flushing THEN {Write("handshake")} ELSE {}
<1> SUFFICES ASSUME OwnerInv, handshake # "idle"
             PROVE  ~ Flushing => writing = {}
  BY DEF OwnerInv, WritesOfOwner
<1>1. reader = "idle" /\ \A w \in Writers : Idle(w)
  BY DEF OwnerInv, HandshakeAlone
<1>2. holder = "none"
  BY <1>1, NobodyHolds
<1> QED  BY <1>2 DEF OwnerInv, WritesOfOwner

(***************************************************************************)
(* The write of the handshake has ended, and the buffer is consumed.       *)
(***************************************************************************)
LEMMA HandshakeConsumes ==
  ASSUME OwnerInv, HandshakeFlushed \/ HandshakeAnswered
  PROVE  OwnerInv'
<1>1. Flushing /\ handshake # "idle"
  BY DEF HandshakeFlushed, HandshakeAnswered, Flushing
<1>2. writing = {Write("handshake")}
  BY <1>1 DEF OwnerInv, WritesOfOwner
<1>3. PICK n : Written("handshake", n)
  BY DEF HandshakeFlushed, HandshakeAnswered, WrittenAll
<1>4. writing' = {}
  BY <1>2, <1>3, OnlyWriteEnds DEF Write
<1>5. ~ Flushing'
  BY DEF HandshakeFlushed, HandshakeAnswered, HandshakeSucceeds, Flushing
<1>6. writeBuffer' = << >> /\ UNCHANGED <<units, phaser, reader, writer>>
  BY DEF HandshakeFlushed, HandshakeAnswered, ConsumeAll
<1>7. BufferTypes'
  BY <1>6, EmptyBuffer DEF OwnerInv
<1> QED  BY <1>1, <1>4, <1>5, <1>6, <1>7, HandshakeOwner

LEMMA HandshakeReadsOwner ==
  ASSUME OwnerInv, NEW chunk, HandshakeReads(chunk)
  PROVE  OwnerInv'
<1>1. handshake # "idle" /\ ~ Flushing
  BY DEF HandshakeReads, Flushing
<1>2. writing = {}
  BY <1>1, HandshakeWrites
<1>3. writing' = {Write("handshake")'} /\ Flushing'
  BY <1>2 DEF HandshakeReads, BeginWrite, Write, Flushing
<1>4. BufferTypes'
  BY InputTypes DEF HandshakeReads, OwnerInv, BufferTypes
<1> QED  BY <1>1, <1>3, <1>4, HandshakeOwner DEF HandshakeReads

(***************************************************************************)
(* An error or a timer ends it, whichever it is.                           *)
(***************************************************************************)
LEMMA EndsAtOwner ==
  ASSUME OwnerInv, NEW places \in SUBSET HandshakePlaces, NEW settled,
         EndsAt(places, settled)
  PROVE  OwnerInv'
<1>1. handshake # "idle" /\ ~ Flushing'
  BY DEF EndsAt, HandshakePlaces, HandshakeSucceeds, HandshakeFails, Flushing
<1>2. writing' = {}
  <2>1. CASE handshake \in {"connect_read", "settle_read"}
    <3>1. ~ Flushing
      BY <2>1 DEF Flushing
    <3>2. writing = {}
      BY <1>1, <3>1, HandshakeWrites
    <3> QED  BY <2>1, <3>2 DEF EndsAt
  <2>2. CASE handshake \notin {"connect_read", "settle_read"}
    <3>1. Flushing
      BY <2>2 DEF EndsAt, HandshakePlaces, Flushing
    <3>2. writing = {Write("handshake")}
      BY <3>1 DEF OwnerInv, WritesOfOwner
    <3>3. PICK n : Written("handshake", n)
      BY <2>2 DEF EndsAt, WrittenSome
    <3> QED  BY <3>2, <3>3, OnlyWriteEnds DEF Write
  <2> QED  BY <2>1, <2>2
<1>3. BufferTypes'
  BY DEF EndsAt, OwnerInv, BufferTypes
<1>4. UNCHANGED <<phaser, reader, writer>>
  BY DEF EndsAt
<1> QED  BY <1>1, <1>2, <1>3, <1>4, HandshakeOwner

(***************************************************************************)
(* A step after the handshake: reads and writes share the phaser.          *)
(***************************************************************************)
LEMMA SharersOwner ==
  ASSUME OwnerInv, handshake = "idle", handshake' = "idle", BufferTypes',
         HolderIsAtWork',
         writing' = IF holder' = "none" THEN {} ELSE {[op |-> holder', units |-> writeBuffer']}
  PROVE  OwnerInv'
<1>1. ~ Flushing'
  BY DEF Flushing
<1>2. WritesOfOwner'
  BY <1>1 DEF WritesOfOwner, Write
<1>3. HandshakeAlone'
  BY DEF HandshakeAlone
<1> QED  BY <1>2, <1>3 DEF OwnerInv

LEMMA SharersWrite ==
  OwnerInv /\ handshake = "idle" =>
    writing = IF holder = "none" THEN {} ELSE {Write(holder)}
BY DEF OwnerInv, WritesOfOwner, Flushing

(***************************************************************************)
(* A step that neither begins nor ends a write nor transmits, and leaves   *)
(* who is writing as it is.                                                *)
(***************************************************************************)
LEMMA QuietOwner ==
  ASSUME OwnerInv, handshake = "idle", handshake' = "idle", BufferTypes',
         HolderIsAtWork', UNCHANGED <<output, holder>>
  PROVE  OwnerInv'
<1>1. writing' = writing /\ writeBuffer' = writeBuffer /\ holder' = holder
  BY DEF output
<1>2. writing' = IF holder' = "none" THEN {} ELSE {[op |-> holder', units |-> writeBuffer']}
  BY <1>1, SharersWrite DEF Write
<1> QED  BY <1>2, SharersOwner

LEMMA QuietReadOwner ==
  ASSUME OwnerInv,
         \/ AsyncRead \/ ReadError \/ ReadGoesOn
         \/ \E chunk \in Chunks : ReadCompletes(chunk)
  PROVE  OwnerInv'
<1>1. UNCHANGED <<output, holder, handshake, writer>> /\ reader # "flush" /\ reader' # "flush"
  BY DEF AsyncRead, ReadError, ReadGoesOn, ReadCompletes, ReadLoop, phaser, Enqueue
<1>2. handshake = "idle"
  BY DEF AsyncRead, ReadError, ReadGoesOn, ReadCompletes, OwnerInv, HandshakeAlone
<1>3. BufferTypes'
  BY <1>1 DEF output, OwnerInv, BufferTypes
<1>4. HolderIsAtWork'
  BY <1>1 DEF OwnerInv, HolderIsAtWork
<1> QED  BY <1>1, <1>2, <1>3, <1>4, QuietOwner

LEMMA ReadDeliversOwner == OwnerInv /\ ReadDelivers => OwnerInv'
<1> SUFFICES ASSUME OwnerInv, ReadDelivers PROVE OwnerInv'
  OBVIOUS
<1>1. handshake = "idle" /\ handshake' = "idle" /\ UNCHANGED writer
  BY DEF ReadDelivers, OwnerInv, HandshakeAlone
<1>2. holder = "none" /\ writing = {}
  BY <1>1, SharersWrite DEF ReadDelivers, PhaserRuns
<1>3. BufferTypes'
  BY <1>1, InputTypes DEF ReadDelivers, OwnerInv, BufferTypes
<1>4. CASE writeBuffer' # << >>
  <2>1. holder' = "read" /\ reader' = "flush" /\ writing' = {[op |-> "read", units |-> writeBuffer']}
    BY <1>2, <1>4 DEF ReadDelivers, BeginWrite
  <2>2. HolderIsAtWork'
    BY <1>1, <1>2, <2>1, WritersAssumption DEF OwnerInv, HolderIsAtWork
  <2> QED  BY <1>1, <1>3, <2>1, <2>2, SharersOwner
<1>5. CASE writeBuffer' = << >>
  <2>1. holder' = "none" /\ reader' = "delivered" /\ writing' = {}
    BY <1>2, <1>5 DEF ReadDelivers
  <2>2. HolderIsAtWork'
    BY <1>1, <1>2, <2>1 DEF OwnerInv, HolderIsAtWork, ReadDelivers
  <2> QED  BY <1>1, <1>3, <2>1, <2>2, SharersOwner
<1> QED  BY <1>4, <1>5

LEMMA ReadFlushOwner == OwnerInv /\ (ReadFlushed \/ ReadFlushError) => OwnerInv'
<1> SUFFICES ASSUME OwnerInv, ReadFlushed \/ ReadFlushError PROVE OwnerInv'
  OBVIOUS
<1>1. handshake = "idle" /\ handshake' = "idle" /\ UNCHANGED <<units, writer>>
  BY DEF ReadFlushed, ReadFlushError, OwnerInv, HandshakeAlone
<1>2. holder = "read" /\ holder' = "none" /\ reader' # "flush" /\ writeBuffer' = << >>
  BY DEF ReadFlushed, ReadFlushError, ReadLoop, ConsumeAll, OwnerInv, HolderIsAtWork
<1>3. writing = {Write("read")}
  BY <1>1, <1>2, SharersWrite
<1>4. PICK n : Written("read", n)
  BY DEF ReadFlushed, ReadFlushError, WrittenAll, WrittenSome
<1>5. writing' = {}
  BY <1>3, <1>4, OnlyWriteEnds DEF Write
<1>6. BufferTypes'
  BY <1>1, <1>2, EmptyBuffer DEF OwnerInv
<1>7. HolderIsAtWork'
  BY <1>1, <1>2, WritersAssumption DEF OwnerInv, HolderIsAtWork
<1> QED  BY <1>1, <1>2, <1>5, <1>6, <1>7, SharersOwner

(***************************************************************************)
(* What a writer that goes on changes.                                     *)
(***************************************************************************)
LEMMA WriterMoves ==
  ASSUME BufferTypes, NEW w \in Writers,
         NEW place \in {"none", "waiting", "writing", "ok", "failed"},
         writer' = [writer EXCEPT ![w] = place]
  PROVE  /\ writer' \in [Writers -> {"none", "waiting", "writing", "ok", "failed"}]
         /\ \A v \in Writers : writer'[v] = IF v = w THEN place ELSE writer[v]
BY DEF BufferTypes

LEMMA AsyncWriteOwner ==
  ASSUME OwnerInv, NEW w \in Writers, AsyncWrite(w)
  PROVE  OwnerInv'
<1>1. /\ handshake = "idle" /\ handshake' = "idle"
      /\ UNCHANGED <<output, holder>> /\ UNCHANGED <<writeBuffer, units, reader>>
  BY DEF AsyncWrite, output
<1>2. writer[w] = "none" /\ writer' = [writer EXCEPT ![w] = "waiting"]
  BY DEF AsyncWrite
<1>3. /\ writer' \in [Writers -> {"none", "waiting", "writing", "ok", "failed"}]
      /\ \A v \in Writers : writer'[v] = IF v = w THEN "waiting" ELSE writer[v]
  BY <1>2, WriterMoves DEF OwnerInv
<1>4. BufferTypes'
  BY <1>1, <1>3 DEF OwnerInv, BufferTypes
<1>5. HolderIsAtWork'
  BY <1>1, <1>2, <1>3 DEF OwnerInv, HolderIsAtWork
<1> QED  BY <1>1, <1>4, <1>5, QuietOwner

LEMMA WriteBeginsOwner ==
  ASSUME OwnerInv, NEW w \in Writers, WriteBegins(w)
  PROVE  OwnerInv'
<1>1. /\ writer[w] = "waiting" /\ writer' = [writer EXCEPT ![w] = "writing"]
      /\ handshake' = handshake /\ reader' = reader /\ holder' = w
  BY DEF WriteBegins
<1>2. handshake = "idle"
  BY <1>1 DEF OwnerInv, HandshakeAlone, Idle
<1>3. holder = "none" /\ writing = {}
  BY <1>2, SharersWrite DEF WriteBegins, PhaserRuns
<1>4. /\ writer' \in [Writers -> {"none", "waiting", "writing", "ok", "failed"}]
      /\ \A v \in Writers : writer'[v] = IF v = w THEN "writing" ELSE writer[v]
  BY <1>1, WriterMoves DEF OwnerInv
<1>5. BufferTypes'
  <2>1. units + 1 \in Nat /\ Append(writeBuffer, units + 1) \in Seq(Nat)
    BY DEF OwnerInv, BufferTypes
  <2>2. writeBuffer' \in Seq(Nat) /\ units' \in Nat
    BY <2>1 DEF WriteBegins, Transmitted
  <2> QED  BY <1>4, <2>2 DEF BufferTypes
<1>6. w # "none" /\ w # "read"
  BY WritersAssumption
<1>7. HolderIsAtWork'
  <2>1. reader # "flush" /\ \A v \in Writers : writer[v] # "writing"
    BY <1>3, WritersAssumption DEF OwnerInv, HolderIsAtWork
  <2> QED  BY <1>1, <1>4, <1>6, <2>1 DEF HolderIsAtWork
<1>8. writing' = {[op |-> holder', units |-> writeBuffer']}
  BY <1>1, <1>3 DEF WriteBegins, BeginWrite
<1> QED  BY <1>1, <1>2, <1>5, <1>6, <1>7, <1>8, SharersOwner

LEMMA WriteStopsOwner ==
  ASSUME OwnerInv, NEW w \in Writers, WriteEnds(w) \/ WriteError(w)
  PROVE  OwnerInv'
<1>1. /\ writer[w] = "writing" /\ holder' = "none"
      /\ UNCHANGED <<handshake, reader, units>>
      /\ writeBuffer' = << >> \/ writeBuffer' = writeBuffer
  BY DEF WriteEnds, WriteError, WriteFails, ConsumeAll
<1>2. PICK place \in {"ok", "failed"} : writer' = [writer EXCEPT ![w] = place]
  BY DEF WriteEnds, WriteError, WriteFails
<1>3. handshake = "idle" /\ handshake' = "idle"
  BY <1>1 DEF OwnerInv, HandshakeAlone, Idle
<1>4. holder = w /\ w # "none" /\ w # "read"
  BY <1>1, WritersAssumption DEF OwnerInv, HolderIsAtWork
<1>5. writing = {Write(w)}
  BY <1>3, <1>4, SharersWrite
<1>6. PICK n : Written(w, n)
  BY DEF WriteEnds, WriteError, WriteFails, WrittenAll, WrittenSome
<1>7. writing' = {}
  BY <1>5, <1>6, OnlyWriteEnds DEF Write
<1>8. /\ writer' \in [Writers -> {"none", "waiting", "writing", "ok", "failed"}]
      /\ \A v \in Writers : writer'[v] = IF v = w THEN place ELSE writer[v]
  BY <1>2, WriterMoves DEF OwnerInv
<1>9. BufferTypes'
  <2>1. writeBuffer' \in Seq(Nat)
    <3>1. << >> \in Seq(Nat) /\ writeBuffer \in Seq(Nat)
      BY DEF OwnerInv, BufferTypes
    <3> QED  BY <1>1, <3>1
  <2>2. units' \in Nat
    BY <1>1 DEF OwnerInv, BufferTypes
  <2> QED  BY <1>8, <2>1, <2>2 DEF BufferTypes
<1>10. HolderIsAtWork'
  <2>1. reader # "flush" /\ \A v \in Writers : v # w => writer[v] # "writing"
    BY <1>4 DEF OwnerInv, HolderIsAtWork
  <2>2. \A v \in Writers : writer'[v] # "writing"
    BY <1>2, <1>8, <2>1
  <2> QED  BY <1>1, <2>1, <2>2, WritersAssumption DEF HolderIsAtWork
<1> QED  BY <1>1, <1>3, <1>7, <1>9, <1>10, SharersOwner

LEMMA OwnerStep == OwnerInv /\ [Next]_vars => OwnerInv'
<1> SUFFICES ASSUME OwnerInv, [Next]_vars PROVE OwnerInv'
  OBVIOUS
<1>1. CASE HandshakeStep
  <2>1. CASE HandshakeError
    BY <2>1, EndsAtOwner DEF HandshakeError
  <2>2. CASE HandshakeTimeout
    <3>1. HandshakePlaces \in SUBSET HandshakePlaces
      OBVIOUS
    <3> QED  BY <2>2, <3>1, EndsAtOwner DEF HandshakeTimeout
  <2> QED  BY <1>1, <2>1, <2>2, BeginHandshakeOwner, HandshakeConsumes DEF HandshakeStep
<1>2. CASE ReadStep
  BY <1>2, QuietReadOwner, ReadDeliversOwner, ReadFlushOwner DEF ReadStep
<1>3. CASE \E w \in Writers : WriteStep(w)
  BY <1>3, AsyncWriteOwner, WriteBeginsOwner, WriteStopsOwner DEF WriteStep
<1>4. CASE \E chunk \in Chunks : Input(chunk)
  BY <1>4, HandshakeReadsOwner, QuietReadOwner DEF Input
<1>5. CASE UNCHANGED vars
  <2>1. UNCHANGED <<writeBuffer, writing, units, holder, handshake, reader, writer>>
    BY <1>5 DEF vars, output, phaser, operations
  <2>2. BufferTypes' /\ HolderIsAtWork' /\ HandshakeAlone'
    BY <2>1 DEF OwnerInv, BufferTypes, HolderIsAtWork, HandshakeAlone, Idle
  <2>3. WritesOfOwner'
    BY <2>1 DEF OwnerInv, WritesOfOwner, Flushing, Write
  <2> QED  BY <2>2, <2>3 DEF OwnerInv
<1> QED  BY <1>1, <1>2, <1>3, <1>4, <1>5 DEF Next

(***************************************************************************)
(* In every state exactly the one who has the buffer is writing it.        *)
(***************************************************************************)
THEOREM Ownership == Spec => []OwnerInv
<1> QED  BY OwnerInit, OwnerStep, PTL DEF Spec

(***************************************************************************)
(* One async_write at a time, and the buffer it was given does not change  *)
(* under it.                                                               *)
(***************************************************************************)
THEOREM OneStableBuffer == Spec => []BufferStable
<1>1. OwnerInv => BufferStable
  BY DEF OwnerInv, WritesOfOwner, BufferStable, Write
<1> QED  BY <1>1, Ownership, PTL

-----------------------------------------------------------------------------
(***************************************************************************)
(* What leaves the buffer.                                                 *)
(***************************************************************************)
Kept == ToSet(writeBuffer) \ ToSet(writeBuffer') \subseteq online'

\* A buffer that stays or grows gives nothing up.
LEMMA GrowingKeeps ==
  ASSUME BufferTypes, \/ writeBuffer' = writeBuffer
                      \/ writeBuffer' = Transmitted
  PROVE  Kept
<1>1. CASE writeBuffer' = writeBuffer
  BY <1>1 DEF Kept
<1>2. CASE writeBuffer' = Transmitted
  <2>1. /\ DOMAIN writeBuffer = 1 .. Len(writeBuffer)
        /\ DOMAIN Transmitted = 1 .. Len(writeBuffer) + 1
        /\ \A i \in 1 .. Len(writeBuffer) : Transmitted[i] = writeBuffer[i]
        /\ Len(writeBuffer) \in Nat
    BY DEF BufferTypes, Transmitted
  <2>2. \A i \in DOMAIN writeBuffer : i \in DOMAIN Transmitted /\ Transmitted[i] = writeBuffer[i]
    BY <2>1
  <2>3. ToSet(writeBuffer) \subseteq ToSet(Transmitted)
    BY <2>2 DEF ToSet
  <2> QED  BY <1>2, <2>3 DEF Kept
<1> QED  BY <1>1, <1>2

\* A write that ends without error has put all of it on the line.
LEMMA WrittenAllKeeps ==
  ASSUME BufferTypes, NEW op, writing = {Write(op)}, WrittenAll(op)
  PROVE  Kept
<1>1. Written(op, Len(writeBuffer))
  BY DEF WrittenAll, Write
<1>2. online' = online \cup {writeBuffer[i] : i \in 1 .. Len(writeBuffer)}
  BY <1>1, OnlyWriteEnds DEF Write
<1>3. DOMAIN writeBuffer = 1 .. Len(writeBuffer)
  BY DEF BufferTypes
<1>4. ToSet(writeBuffer) \subseteq online'
  BY <1>2, <1>3 DEF ToSet
<1> QED  BY <1>4 DEF Kept

LEMMA HandshakeKeeps == OwnerInv /\ HandshakeStep => Kept
<1> SUFFICES ASSUME OwnerInv, HandshakeStep PROVE Kept
  OBVIOUS
<1>1. CASE HandshakeFlushed \/ HandshakeAnswered
  <2>1. Flushing /\ WrittenAll("handshake")
    BY <1>1 DEF HandshakeFlushed, HandshakeAnswered, Flushing
  <2>2. writing = {Write("handshake")}
    BY <2>1 DEF OwnerInv, WritesOfOwner
  <2> QED  BY <2>1, <2>2, WrittenAllKeeps DEF OwnerInv
<1>2. CASE BeginHandshake \/ HandshakeError \/ HandshakeTimeout
  <2>1. writeBuffer' = writeBuffer \/ writeBuffer' = Transmitted
    BY <1>2 DEF BeginHandshake, HandshakeError, HandshakeTimeout, EndsAt
  <2> QED  BY <2>1, GrowingKeeps DEF OwnerInv
<1> QED  BY <1>1, <1>2 DEF HandshakeStep

LEMMA ReadKeeps == OwnerInv /\ ReadStep => Kept \/ ReadFlushError
<1> SUFFICES ASSUME OwnerInv, ReadStep, ~ ReadFlushError PROVE Kept
  OBVIOUS
<1>1. CASE ReadFlushed
  <2>1. holder = "read" /\ handshake = "idle" /\ WrittenAll("read")
    BY <1>1 DEF ReadFlushed, OwnerInv, HolderIsAtWork, HandshakeAlone
  <2>2. writing = {Write("read")}
    BY <2>1, SharersWrite
  <2> QED  BY <2>1, <2>2, WrittenAllKeeps DEF OwnerInv
<1>2. CASE AsyncRead \/ ReadError \/ ReadDelivers \/ ReadGoesOn
  <2>1. writeBuffer' = writeBuffer \/ writeBuffer' = Transmitted
    BY <1>2 DEF AsyncRead, ReadError, ReadDelivers, ReadGoesOn, DeliverInput, output
  <2> QED  BY <2>1, GrowingKeeps DEF OwnerInv
<1> QED  BY <1>1, <1>2 DEF ReadStep

LEMMA WriteKeeps ==
  ASSUME OwnerInv, NEW w \in Writers, WriteStep(w)
  PROVE  Kept
<1>1. CASE WriteEnds(w)
  <2>1. holder = w /\ handshake = "idle" /\ WrittenAll(w)
    BY <1>1 DEF WriteEnds, OwnerInv, HolderIsAtWork, HandshakeAlone, Idle
  <2>2. writing = {Write(w)}
    BY <2>1, SharersWrite, WritersAssumption
  <2> QED  BY <2>1, <2>2, WrittenAllKeeps DEF OwnerInv
<1>2. CASE AsyncWrite(w) \/ WriteBegins(w) \/ WriteError(w)
  <2>1. writeBuffer' = writeBuffer \/ writeBuffer' = Transmitted
    BY <1>2 DEF AsyncWrite, WriteBegins, WriteError, WriteFails, output
  <2> QED  BY <2>1, GrowingKeeps DEF OwnerInv
<1> QED  BY <1>1, <1>2 DEF WriteStep

LEMMA InputKeeps ==
  ASSUME OwnerInv, NEW chunk, HandshakeReads(chunk) \/ ReadCompletes(chunk)
  PROVE  Kept
<1>1. writeBuffer' = writeBuffer \/ writeBuffer' = Transmitted
  BY DEF HandshakeReads, ReadCompletes, DeliverInput, output
<1> QED  BY <1>1, GrowingKeeps DEF OwnerInv

(***************************************************************************)
(* A unit leaves the write buffer only by reaching the line, or in the     *)
(* flush of a read that fails.                                             *)
(***************************************************************************)
THEOREM UnitsReachTheLine == Spec => LeavesOnline
<1>1. OwnerInv /\ [Next]_vars => [Kept \/ ReadFlushError]_vars
  BY HandshakeKeeps, ReadKeeps, WriteKeeps, InputKeeps DEF Next, Input
<1>2. [Kept \/ ReadFlushError]_vars
        <=> [ToSet(writeBuffer) \ ToSet(writeBuffer') \subseteq online' \/ ReadFlushError]_vars
  BY DEF Kept
<1> QED  BY <1>1, <1>2, Ownership, PTL DEF Spec, LeavesOnline

-----------------------------------------------------------------------------
(***************************************************************************)
(* deliver_input_sequence, one frame after the other: it stops only at a   *)
(* message, which is then in the slot and comes from a connected context.  *)
(***************************************************************************)
Unfed == [state |-> connectState, packet |-> 0, accepted |-> accepted,
          answered |-> FALSE, rest |-> << >>]

FedUpTo(input, g, n) ==
  g = [i \in 0 .. n |-> IF i = 0 THEN Unfed ELSE FeedUntilMessage(g[i - 1], input[i])]

LEMMA FedUpToExists ==
  ASSUME NEW input
  PROVE  \A n \in Nat : \E g : FedUpTo(input, g, n)
<1> DEFINE T == {n \in Nat : \E g : FedUpTo(input, g, n)}
<1>1. 0 \in T
  <2>1. FedUpTo(input, [i \in 0 .. 0 |-> Unfed], 0)
    BY DEF FedUpTo
  <2> QED  BY <2>1
<1>2. ASSUME NEW n \in Nat, n \in T PROVE n + 1 \in T
  <2>1. PICK g : FedUpTo(input, g, n)
    BY <1>2
  <2> DEFINE h == [i \in 0 .. n + 1 |->
                     IF i <= n THEN g[i] ELSE FeedUntilMessage(g[n], input[n + 1])]
  <2>2. \A i \in 0 .. n :
          g[i] = IF i = 0 THEN Unfed ELSE FeedUntilMessage(g[i - 1], input[i])
    BY <2>1 DEF FedUpTo
  <2>3. \A i \in 0 .. n + 1 :
          h[i] = IF i = 0 THEN Unfed ELSE FeedUntilMessage(h[i - 1], input[i])
    <3> TAKE i \in 0 .. n + 1
    <3>1. CASE i = 0
      BY <3>1, <2>2
    <3>2. CASE i \in 1 .. n
      <4>1. h[i] = g[i] /\ h[i - 1] = g[i - 1]
        BY <3>2
      <4> QED  BY <3>2, <4>1, <2>2
    <3>3. CASE i = n + 1
      <4>1. h[i] = FeedUntilMessage(g[n], input[i]) /\ h[i - 1] = g[n]
        BY <3>3
      <4> QED  BY <3>3, <4>1
    <3> QED  BY <3>1, <3>2, <3>3
  <2>4. FedUpTo(input, h, n + 1)
    BY <2>3 DEF FedUpTo
  <2> QED  BY <2>4
<1>3. Nat \subseteq T
  <2> HIDE DEF T
  <2> QED  BY <1>1, <1>2, SetInduction
<1> QED  BY <1>3

\* What one frame does, if the context has c.
FedState(c) ==
  /\ c \in [state : ConnectStates, packet : Nat, accepted : Nat,
            answered : BOOLEAN, rest : Seq(Frames)]
  /\ IF c.packet = 0
       THEN c.accepted = accepted /\ c.rest = << >>
       ELSE c.packet = accepted + 1 /\ c.accepted = accepted + 1 /\ c.state = "CONNECTED"

LEMMA FeedOne ==
  ASSUME NEW c, FedState(c), NEW f \in Frames, accepted \in Nat
  PROVE  FedState(FeedUntilMessage(c, f))
<1>1. CASE c.packet # 0
  <2>1. Append(c.rest, f) \in Seq(Frames)
    BY DEF FedState
  <2> QED  BY <1>1, <2>1 DEF FedState, FeedUntilMessage
<1>2. CASE c.packet = 0
  <2>1. SUFFICES FedState(Feed(c, f))
    BY <1>2 DEF FeedUntilMessage
  <2>2. ASSUME NEW state \in ConnectStates
        PROVE  /\ FedState([c EXCEPT !.state = state])
               /\ FedState([c EXCEPT !.state = state, !.answered = TRUE])
    BY <1>2 DEF FedState
  <2>3. FedState([c EXCEPT !.answered = TRUE])
    BY <1>2 DEF FedState
  <2>4. ASSUME c.state = "CONNECTED"
        PROVE  FedState([c EXCEPT !.packet = c.accepted + 1, !.accepted = @ + 1])
    <3> DEFINE n == accepted + 1
               d == [c EXCEPT !.packet = n, !.accepted = n]
    <3>1. n \in Nat /\ n # 0 /\ c.accepted = accepted
      BY <1>2 DEF FedState
    <3> HIDE DEF n
    <3>2. d \in [state : ConnectStates, packet : Nat, accepted : Nat,
                 answered : BOOLEAN, rest : Seq(Frames)]
      BY <3>1 DEF FedState
    <3>3. d.packet = n /\ d.accepted = n /\ d.state = "CONNECTED"
      BY <2>4 DEF FedState
    <3>4. FedState(d)
      BY <3>1, <3>2, <3>3 DEF FedState, n
    <3> QED  BY <3>1, <3>4 DEF n
  <2>5. c.state \in ConnectStates /\ {"SENT_SYN1", "CONNECTED", "DISCONNECTED"} \subseteq ConnectStates
    BY DEF FedState, ConnectStates
  <2>6. CASE f = "SYN0"
    BY <2>2, <2>5, <2>6 DEF Feed
  <2>7. CASE f = "SYN1"
    <3>1. Feed(c, f) = [c EXCEPT !.state = IF c.state = "DISCONNECTED" THEN c.state ELSE "CONNECTED",
                                 !.answered = TRUE]
      BY <2>7 DEF Feed
    <3> QED  BY <2>2, <2>5, <3>1
  <2>8. CASE f = "SYN2"
    BY <2>2, <2>3, <2>5, <2>8 DEF Feed
  <2>9. CASE f = "DIS"
    BY <2>2, <2>5, <2>9 DEF Feed
  <2>10. CASE f = "USR"
    BY <2>3, <2>4, <2>10 DEF Feed
  <2>11. CASE f \in {"NAK", "EMPTY"}
    BY <2>3, <2>11 DEF Feed
  <2> QED  BY <2>6, <2>7, <2>8, <2>9, <2>10, <2>11 DEF Frames
<1> QED  BY <1>1, <1>2

LEMMA FedProperties ==
  ASSUME NEW input \in Seq(Frames), connectState \in ConnectStates, accepted \in Nat
  PROVE  FedState(Fed(input))
<1> DEFINE last == Len(input)
           g == CHOOSE f : FedUpTo(input, f, last)
           T == {n \in Nat : n <= last => FedState(g[n])}
<1>1. last \in Nat
  BY LenProperties
<1>2. FedUpTo(input, g, last)
  BY <1>1, FedUpToExists
<1>3. Fed(input) = g[last]
  BY DEF Fed, FeedAll, FedUpTo, Unfed
<1> HIDE DEF g
<1>4. \A i \in 0 .. last :
        g[i] = IF i = 0 THEN Unfed ELSE FeedUntilMessage(g[i - 1], input[i])
  BY <1>2 DEF FedUpTo
<1>5. 0 \in T
  <2>1. g[0] = Unfed
    BY <1>1, <1>4
  <2>2. FedState(Unfed)
    BY DEF FedState, Unfed
  <2> QED  BY <2>1, <2>2
<1>6. ASSUME NEW n \in Nat, n \in T PROVE n + 1 \in T
  <2> SUFFICES ASSUME n + 1 <= last PROVE FedState(g[n + 1])
    OBVIOUS
  <2>1. FedState(g[n]) /\ n + 1 \in 1 .. last /\ (n + 1) - 1 = n
    BY <1>1, <1>6
  <2>2. g[n + 1] = FeedUntilMessage(g[n], input[n + 1])
    BY <1>1, <1>4, <2>1
  <2>3. input[n + 1] \in Frames
    BY <2>1, ElementOfSeq
  <2> QED  BY <2>1, <2>2, <2>3, FeedOne
<1>7. Nat \subseteq T
  <2> HIDE DEF T
  <2> QED  BY <1>5, <1>6, SetInduction
<1> QED  BY <1>1, <1>3, <1>7

-----------------------------------------------------------------------------
(***************************************************************************)
(* The inductive invariant of the input: in a handshake the slot holds at  *)
(* most the one message that ends it; a read begins with an empty slot,    *)
(* and goes on reading only with an empty slot and an empty buffer.        *)
(***************************************************************************)
ContextTypes ==
  /\ connectState \in ConnectStates /\ packet \in Nat /\ accepted \in Nat
  /\ readBuffer \in Seq(Frames) /\ received \in Seq(Nat)

AllAccounted ==
  /\ Len(received) + (IF packet = 0 THEN 0 ELSE 1) = accepted
  /\ \A i \in 1 .. Len(received) : received[i] = i
  /\ packet # 0 => packet = accepted

FirstOrNone ==
  IF packet = 0 THEN accepted = 0 /\ readBuffer = << >>
                ELSE packet = 1 /\ accepted = 1 /\ Connected

HandshakeInput ==
  /\ handshake # "idle" => ready = FALSE /\ received = << >>
  /\ handshake \in {"flush", "connect_read", "settle_read"} => accepted = 0
  /\ handshake = "settle_read" => packet = 0
  /\ handshake \in {"connect_read", "settle_read"} => readBuffer = << >>
  /\ handshake \in {"connect_flush", "settle_flush"} => FirstOrNone

ReaderInput ==
  /\ reader \in {"drain", "reading", "deliver"} => packet = 0
  /\ reader = "reading" => readBuffer = << >>
  /\ reader \in {"delivered", "flush"} /\ packet = 0 => readBuffer = << >>

InputInv ==
  ContextTypes /\ HandshakeInput /\ ReaderInput /\ (ready => AllAccounted)

LEMMA DeliverEffect ==
  ASSUME ContextTypes, NEW input \in Seq(Frames), DeliverInput(input)
  PROVE  /\ connectState' \in ConnectStates /\ packet' \in Nat /\ accepted' \in Nat
         /\ readBuffer' \in Seq(Frames)
         /\ IF packet' = 0
              THEN accepted' = accepted /\ readBuffer' = << >>
              ELSE packet' = accepted + 1 /\ accepted' = accepted + 1 /\ Connected'
<1> DEFINE c == Fed(input)
<1>1. /\ connectState' = c.state /\ packet' = c.packet
      /\ readBuffer' = c.rest /\ accepted' = c.accepted
  BY DEF DeliverInput
<1>2. FedState(c)
  BY FedProperties DEF ContextTypes
<1> HIDE DEF c
<1> QED  BY <1>1, <1>2 DEF FedState, Connected

LEMMA ChunkFrames == \A chunk \in Chunks : chunk \in Seq(Frames)
BY DEF Chunks, SeqOf

\* Nothing has been returned yet.
LEMMA NoneReturned ==
  ASSUME received = << >>, FirstOrNone \/ (packet = 0 /\ accepted = 0)
  PROVE  AllAccounted
<1>1. Len(received) = 0
  BY EmptySeq
<1> QED  BY <1>1 DEF FirstOrNone, AllAccounted

LEMMA InputInit == Init => InputInv
<1> SUFFICES ASSUME Init PROVE InputInv
  OBVIOUS
<1>1. << >> \in Seq(Frames) /\ << >> \in Seq(Nat)
  OBVIOUS
<1> QED  BY <1>1 DEF Init, InputInv, ContextTypes, HandshakeInput, ReaderInput, ConnectStates

LEMMA HandshakeInputStep ==
  ASSUME OwnerInv, InputInv, HandshakeStep
  PROVE  InputInv'
<1>1. CASE BeginHandshake
  <2>1. /\ reader = "idle" /\ reader' = "idle" /\ handshake' = "flush" /\ ready' = FALSE
        /\ connectState' = "SENT_SYN0" /\ accepted' = 0 /\ received' = << >>
        /\ UNCHANGED <<packet, readBuffer>>
    BY <1>1 DEF BeginHandshake
  <2>2. received' \in Seq(Nat)
    BY <2>1, EmptySeq
  <2> QED  BY <2>1, <2>2
           DEF InputInv, ContextTypes, HandshakeInput, ReaderInput, ConnectStates
<1>2. CASE HandshakeFlushed
  <2>1. /\ handshake = "flush" /\ handshake' = "connect_read" /\ readBuffer' = << >>
        /\ UNCHANGED <<connectState, packet, accepted, reader, ready, received>>
    BY <1>2 DEF HandshakeFlushed
  <2>2. reader = "idle"
    BY <2>1 DEF OwnerInv, HandshakeAlone
  <2>3. readBuffer' \in Seq(Frames)
    BY <2>1, EmptySeq
  <2> QED  BY <2>1, <2>2, <2>3 DEF InputInv, ContextTypes, HandshakeInput, ReaderInput
<1>3. CASE HandshakeAnswered
  <2>1. /\ handshake \in {"connect_flush", "settle_flush"}
        /\ UNCHANGED <<connectState, packet, accepted, reader, received>>
    BY <1>3 DEF HandshakeAnswered
  <2>2. reader = "idle" /\ received = << >> /\ FirstOrNone /\ ready = FALSE
    BY <2>1 DEF OwnerInv, HandshakeAlone, InputInv, HandshakeInput
  <2>3. CASE packet # 0
    <3>1. handshake' = "idle" /\ UNCHANGED readBuffer
      BY <1>3, <2>1, <2>2, <2>3 DEF HandshakeAnswered, HandshakeSucceeds, FirstOrNone
    <3>2. AllAccounted
      BY <2>2, NoneReturned
    <3>3. AllAccounted'
      BY <2>1, <3>2 DEF AllAccounted
    <3> QED  BY <2>1, <2>2, <3>1, <3>3
             DEF InputInv, ContextTypes, HandshakeInput, ReaderInput
  <2>4. CASE packet = 0
    <3>1. /\ handshake' \in {"connect_read", "settle_read"} /\ readBuffer' = << >>
          /\ ready' = ready
      BY <1>3, <2>4 DEF HandshakeAnswered
    <3>2. accepted = 0
      BY <2>2, <2>4, <3>1 DEF FirstOrNone, InputInv, ContextTypes
    <3>3. readBuffer' \in Seq(Frames)
      BY <3>1, EmptySeq
    <3> QED  BY <2>1, <2>2, <2>4, <3>1, <3>2, <3>3
             DEF InputInv, ContextTypes, HandshakeInput, ReaderInput
  <2> QED  BY <2>3, <2>4
<1>4. CASE HandshakeError \/ HandshakeTimeout
  <2>1. /\ handshake \in HandshakePlaces /\ handshake' = "idle"
        /\ UNCHANGED <<connectState, packet, accepted, readBuffer, reader, received>>
        /\ ready' => ready \/ (Settling /\ Connected)
    BY <1>4 DEF HandshakeError, HandshakeTimeout, EndsAt, HandshakeSucceeds, HandshakeFails,
       context
  <2>2. handshake # "idle" /\ ready = FALSE /\ received = << >> /\ reader = "idle"
    BY <2>1 DEF HandshakePlaces, OwnerInv, HandshakeAlone, InputInv, HandshakeInput
  <2>3. ready' => AllAccounted'
    <3> SUFFICES ASSUME ready' PROVE AllAccounted'
      OBVIOUS
    <3>1. FirstOrNone \/ (packet = 0 /\ accepted = 0)
      BY <2>1, <2>2 DEF Settling, InputInv, HandshakeInput
    <3>2. AllAccounted
      BY <2>2, <3>1, NoneReturned
    <3> QED  BY <2>1, <3>2 DEF AllAccounted
  <2> QED  BY <2>1, <2>2, <2>3 DEF InputInv, ContextTypes, HandshakeInput, ReaderInput
<1> QED  BY <1>1, <1>2, <1>3, <1>4 DEF HandshakeStep

LEMMA HandshakeReadsInput ==
  ASSUME OwnerInv, InputInv, NEW chunk \in Chunks, HandshakeReads(chunk)
  PROVE  InputInv'
<1>1. /\ handshake \in {"connect_read", "settle_read"}
      /\ handshake' \in {"connect_flush", "settle_flush"}
      /\ DeliverInput(chunk) /\ UNCHANGED <<reader, ready, received>>
  BY DEF HandshakeReads
<1>2. reader = "idle" /\ ready = FALSE /\ received = << >> /\ accepted = 0
  BY <1>1 DEF OwnerInv, HandshakeAlone, InputInv, HandshakeInput
<1>3. /\ connectState' \in ConnectStates /\ packet' \in Nat /\ accepted' \in Nat
      /\ readBuffer' \in Seq(Frames)
      /\ IF packet' = 0
           THEN accepted' = accepted /\ readBuffer' = << >>
           ELSE packet' = accepted + 1 /\ accepted' = accepted + 1 /\ Connected'
  BY <1>1, ChunkFrames, DeliverEffect DEF InputInv
<1>4. FirstOrNone'
  BY <1>2, <1>3 DEF FirstOrNone
<1> QED  BY <1>1, <1>2, <1>3, <1>4 DEF InputInv, ContextTypes, HandshakeInput, ReaderInput

\* The message in the slot is returned.
LEMMA ReturnedAccounted ==
  ASSUME ContextTypes, ready => AllAccounted, packet # 0, packet' = 0,
         received' = Append(received, packet), accepted' = accepted, ready' = ready
  PROVE  ready' => AllAccounted'
<1> SUFFICES ASSUME ready PROVE AllAccounted'
  OBVIOUS
<1>1. /\ Len(received) + 1 = accepted /\ packet = accepted
      /\ \A i \in 1 .. Len(received) : received[i] = i
  BY DEF AllAccounted
<1>2. /\ Len(received') = Len(received) + 1 /\ Len(received) \in Nat
      /\ \A i \in 1 .. Len(received) : received'[i] = received[i]
      /\ received'[Len(received) + 1] = packet
  BY AppendProperties, LenProperties DEF ContextTypes
<1>3. \A i \in 1 .. Len(received') : i \in 1 .. Len(received) \/ i = Len(received) + 1
  BY <1>2
<1>4. \A i \in 1 .. Len(received') : received'[i] = i
  BY <1>1, <1>2, <1>3
<1> QED  BY <1>1, <1>2, <1>4 DEF AllAccounted

(***************************************************************************)
(* A read or write: the handshake is over.                                 *)
(***************************************************************************)
LEMMA LoopInput ==
  ASSUME ContextTypes, ready => AllAccounted, handshake' = "idle", ready' = ready,
         UNCHANGED <<connectState, accepted>>,
         packet = 0 => readBuffer = << >>, ReadLoop(packet)
  PROVE  InputInv'
<1>1. CASE packet = 0
  <2>1. /\ reader' = "reading" /\ readBuffer' = << >>
        /\ UNCHANGED <<packet, received>>
    BY <1>1 DEF ReadLoop, ContextTypes
  <2>2. readBuffer' \in Seq(Frames)
    BY <2>1, EmptySeq
  <2>3. ready' => AllAccounted'
    BY <2>1 DEF AllAccounted
  <2> QED  BY <1>1, <2>1, <2>2, <2>3 DEF InputInv, ContextTypes, HandshakeInput, ReaderInput
<1>2. CASE packet # 0
  <2>1. /\ reader' = "idle" /\ packet' = 0 /\ received' = Append(received, packet)
        /\ UNCHANGED readBuffer
    BY <1>2 DEF ReadLoop
  <2>2. ready' => AllAccounted'
    BY <1>2, <2>1, ReturnedAccounted
  <2>3. received' \in Seq(Nat)
    BY <2>1, AppendProperties DEF ContextTypes
  <2> QED  BY <2>1, <2>2, <2>3 DEF InputInv, ContextTypes, HandshakeInput, ReaderInput
<1> QED  BY <1>1, <1>2

LEMMA ReadInputStep ==
  ASSUME OwnerInv, InputInv, ReadStep
  PROVE  InputInv'
<1>1. CASE AsyncRead
  <2>1. /\ handshake' = "idle" /\ ready' = ready /\ reader = "idle"
        /\ UNCHANGED <<connectState, accepted>>
    BY <1>1 DEF AsyncRead
  <2>2. CASE packet = 0 /\ readBuffer # << >>
    <3>1. reader' = "drain" /\ UNCHANGED <<packet, readBuffer, received>>
      BY <1>1, <2>2 DEF AsyncRead
    <3>2. ready' => AllAccounted'
      BY <2>1, <3>1 DEF InputInv, AllAccounted
    <3> QED  BY <2>1, <2>2, <3>1, <3>2 DEF InputInv, ContextTypes, HandshakeInput, ReaderInput
  <2>3. CASE ~ (packet = 0 /\ readBuffer # << >>)
    <3>1. ReadLoop(packet)
      BY <1>1, <2>3 DEF AsyncRead
    <3> QED  BY <2>1, <2>3, <3>1, LoopInput DEF InputInv
  <2> QED  BY <2>2, <2>3
<1>2. CASE ReadGoesOn \/ ReadFlushed
  <2>1. /\ reader \in {"delivered", "flush"} /\ ReadLoop(packet)
        /\ UNCHANGED <<connectState, accepted, handshake, ready>>
    BY <1>2 DEF ReadGoesOn, ReadFlushed
  <2>2. handshake = "idle" /\ (packet = 0 => readBuffer = << >>)
    BY <2>1 DEF OwnerInv, HandshakeAlone, InputInv, ReaderInput
  <2> QED  BY <2>1, <2>2, LoopInput DEF InputInv
<1>3. CASE ReadError
  <2>1. /\ reader = "reading" /\ reader' = "idle"
        /\ UNCHANGED <<context, handshake, ready, received>>
    BY <1>3 DEF ReadError
  <2>2. handshake = "idle"
    BY <2>1 DEF OwnerInv, HandshakeAlone
  <2>3. ready' => AllAccounted'
    BY <2>1 DEF context, InputInv, AllAccounted
  <2> QED  BY <2>1, <2>2, <2>3
           DEF context, InputInv, ContextTypes, HandshakeInput, ReaderInput
<1>4. CASE ReadDelivers
  <2>1. /\ reader \in {"drain", "deliver"} /\ reader' \in {"flush", "delivered"}
        /\ DeliverInput(readBuffer) /\ UNCHANGED <<received, handshake, ready>>
    BY <1>4 DEF ReadDelivers
  <2>2. packet = 0 /\ handshake = "idle"
    BY <2>1 DEF OwnerInv, HandshakeAlone, InputInv, ReaderInput
  <2>3. /\ connectState' \in ConnectStates /\ packet' \in Nat /\ accepted' \in Nat
        /\ readBuffer' \in Seq(Frames)
        /\ IF packet' = 0
             THEN accepted' = accepted /\ readBuffer' = << >>
             ELSE packet' = accepted + 1 /\ accepted' = accepted + 1 /\ Connected'
    BY <2>1, DeliverEffect DEF InputInv, ContextTypes
  <2>4. ready' => AllAccounted'
    <3>1. accepted \in Nat /\ Len(received) \in Nat
      BY LenProperties DEF InputInv, ContextTypes
    <3> QED  BY <2>1, <2>2, <2>3, <3>1 DEF InputInv, AllAccounted
  <2> QED  BY <2>1, <2>2, <2>3, <2>4
           DEF InputInv, ContextTypes, HandshakeInput, ReaderInput
<1>5. CASE ReadFlushError
  <2>1. /\ reader = "flush" /\ reader' = "idle" /\ packet' = 0
        /\ received' = IF packet = 0 THEN received ELSE Append(received, packet)
        /\ UNCHANGED <<connectState, readBuffer, accepted, handshake, ready>>
    BY <1>5 DEF ReadFlushError
  <2>2. handshake = "idle"
    BY <2>1 DEF OwnerInv, HandshakeAlone
  <2>3. received' \in Seq(Nat)
    BY <2>1, AppendProperties DEF InputInv, ContextTypes
  <2>4. ready' => AllAccounted'
    <3>1. CASE packet = 0
      BY <2>1, <3>1 DEF InputInv, AllAccounted
    <3>2. CASE packet # 0
      BY <2>1, <3>2, ReturnedAccounted DEF InputInv
    <3> QED  BY <3>1, <3>2
  <2> QED  BY <2>1, <2>2, <2>3, <2>4
           DEF InputInv, ContextTypes, HandshakeInput, ReaderInput
<1> QED  BY <1>1, <1>2, <1>3, <1>4, <1>5 DEF ReadStep

LEMMA ReadCompletesInput ==
  ASSUME OwnerInv, InputInv, NEW chunk \in Chunks, ReadCompletes(chunk)
  PROVE  InputInv'
<1>1. /\ reader = "reading" /\ reader' = "deliver" /\ readBuffer' = readBuffer \o chunk
      /\ UNCHANGED <<connectState, packet, accepted, handshake, ready, received>>
  BY DEF ReadCompletes
<1>2. handshake = "idle" /\ packet = 0
  BY <1>1 DEF OwnerInv, HandshakeAlone, InputInv, ReaderInput
<1>3. readBuffer' \in Seq(Frames)
  BY <1>1, ChunkFrames, ConcatProperties DEF InputInv, ContextTypes
<1>4. ready' => AllAccounted'
  BY <1>1 DEF InputInv, AllAccounted
<1> QED  BY <1>1, <1>2, <1>3, <1>4 DEF InputInv, ContextTypes, HandshakeInput, ReaderInput

LEMMA SameInput ==
  ASSUME InputInv, UNCHANGED <<context, received, handshake, reader, ready>>
  PROVE  InputInv'
<1>1. ready' => AllAccounted'
  BY DEF context, InputInv, AllAccounted
<1> QED  BY <1>1 DEF context, InputInv, ContextTypes, HandshakeInput, ReaderInput,
            FirstOrNone, Connected

LEMMA InputStep == OwnerInv /\ InputInv /\ [Next]_vars => InputInv'
<1> SUFFICES ASSUME OwnerInv, InputInv, [Next]_vars PROVE InputInv'
  OBVIOUS
<1>1. CASE HandshakeStep
  BY <1>1, HandshakeInputStep
<1>2. CASE ReadStep
  BY <1>2, ReadInputStep
<1>3. CASE \E w \in Writers : WriteStep(w)
  <2>1. UNCHANGED <<context, received, handshake, reader, ready>>
    BY <1>3 DEF WriteStep, AsyncWrite, WriteBegins, WriteEnds, WriteError, WriteFails
  <2> QED  BY <2>1, SameInput
<1>4. CASE \E chunk \in Chunks : Input(chunk)
  BY <1>4, HandshakeReadsInput, ReadCompletesInput DEF Input
<1>5. CASE UNCHANGED vars
  BY <1>5, SameInput DEF vars, operations
<1> QED  BY <1>1, <1>2, <1>3, <1>4, <1>5 DEF Next

THEOREM InputInvariant == Spec => []InputInv
<1> QED  BY InputInit, InputStep, Ownership, PTL DEF Spec

(***************************************************************************)
(* A sequence whose elements are their own places is the numbering of its  *)
(* domain.                                                                 *)
(***************************************************************************)
LEMMA NumberedSequence ==
  ASSUME NEW out \in Seq(Nat), NEW n \in Nat, DOMAIN out = 1 .. n,
         \A i \in 1 .. n : out[i] = i
  PROVE  out = [i \in 1 .. n |-> i]
<1>1. out = [i \in 1 .. n |-> out[i]]
  OBVIOUS
<1> QED  BY <1>1

(***************************************************************************)
(* Every message the context delivers is returned by a read, in order: the *)
(* slot is never overwritten, although it is filled by whatever frame      *)
(* comes and by reads and handshakes alike.  This is of the messages since *)
(* the last handshake began: what is in the slot when another begins is    *)
(* lost.                                                                   *)
(***************************************************************************)
THEOREM MessagesReturned == Spec => []NothingLost
<1>1. InputInv => NothingLost
  <2> SUFFICES ASSUME InputInv, ready PROVE
                 received \o (IF packet = 0 THEN << >> ELSE <<packet>>)
                   = [i \in 1 .. accepted |-> i]
    BY DEF NothingLost
  <2> DEFINE slot == IF packet = 0 THEN << >> ELSE <<packet>>
             all == [i \in 1 .. accepted |-> i]
  <2>1. received \in Seq(Nat) /\ Len(received) \in Nat /\ accepted \in Nat /\ packet \in Nat
    BY LenProperties DEF InputInv, ContextTypes
  <2>2. /\ Len(received) + (IF packet = 0 THEN 0 ELSE 1) = accepted
        /\ \A i \in 1 .. Len(received) : received[i] = i
        /\ packet # 0 => packet = accepted
    BY DEF InputInv, AllAccounted
  <2>3. CASE packet = 0
    <3>1. received \o << >> = received
      BY <2>1
    <3>2. received = [i \in 1 .. Len(received) |-> received[i]]
      BY <2>1
    <3> QED  BY <2>2, <2>3, <3>1, <3>2, <2>1
  <2>4. CASE packet # 0
    <3>1. received \o <<packet>> = Append(received, packet)
      BY <2>1
    <3>2. /\ Append(received, packet) \in Seq(Nat)
          /\ Len(Append(received, packet)) = accepted
          /\ \A i \in 1 .. accepted : Append(received, packet)[i] = i
      <4>1. /\ Append(received, packet) \in Seq(Nat)
            /\ Len(Append(received, packet)) = Len(received) + 1
            /\ \A i \in 1 .. Len(received) : Append(received, packet)[i] = received[i]
            /\ Append(received, packet)[Len(received) + 1] = packet
        BY <2>1, AppendProperties
      <4>2. Len(received) + 1 = accepted /\ packet = accepted
        BY <2>2, <2>4
      <4>3. \A i \in 1 .. accepted : i \in 1 .. Len(received) \/ i = accepted
        BY <2>1, <4>2
      <4> QED  BY <2>2, <4>1, <4>2, <4>3
    <3>3. DOMAIN Append(received, packet) = 1 .. accepted
      BY <3>2, LenProperties
    <3> QED  BY <2>4, <3>1, <3>2, <3>3, NumberedSequence
  <2> QED  BY <2>3, <2>4
<1> QED  BY <1>1, InputInvariant, PTL

\* The first handshake finds nothing in read_buffer.
FirstHandshake ==
  /\ handshakes \in Nat
  /\ handshakes = 0 =>
       handshake = "idle" /\ reader = "idle" /\ ready = FALSE /\ readBuffer = << >>
  /\ handshakes = 1 /\ handshake = "flush" => readBuffer = << >>

LEMMA FirstHandshakeStep ==
  OwnerInv /\ FirstHandshake /\ [Next]_vars => FirstHandshake'
<1> SUFFICES ASSUME OwnerInv, FirstHandshake, [Next]_vars PROVE FirstHandshake'
  OBVIOUS
<1>1. CASE HandshakeStep
  <2>1. CASE BeginHandshake
    BY <2>1 DEF BeginHandshake, FirstHandshake
  <2>2. CASE ~ BeginHandshake
    <3>1. handshake # "idle" /\ handshake' # "flush" /\ handshakes' = handshakes
      BY <1>1, <2>2 DEF HandshakeStep, HandshakeFlushed, HandshakeAnswered, HandshakeError,
         HandshakeTimeout, EndsAt, HandshakePlaces, HandshakeSucceeds, HandshakeFails
    <3> QED  BY <3>1 DEF FirstHandshake
  <2> QED  BY <2>1, <2>2
<1>2. CASE ReadStep
  <2>1. handshake = "idle" /\ handshake' = "idle" /\ handshakes' = handshakes
    BY <1>2 DEF ReadStep, AsyncRead, ReadError, ReadDelivers, ReadGoesOn, ReadFlushed,
       ReadFlushError, OwnerInv, HandshakeAlone
  <2>2. ready \/ reader # "idle"
    BY <1>2 DEF ReadStep, AsyncRead, ReadError, ReadDelivers, ReadGoesOn, ReadFlushed,
       ReadFlushError
  <2> QED  BY <2>1, <2>2 DEF FirstHandshake
<1>3. CASE \E w \in Writers : WriteStep(w)
  <2>1. UNCHANGED <<context, handshake, reader, ready, handshakes>>
    BY <1>3 DEF WriteStep, AsyncWrite, WriteBegins, WriteEnds, WriteError, WriteFails
  <2> QED  BY <2>1 DEF context, FirstHandshake
<1>4. CASE \E chunk \in Chunks : Input(chunk)
  <2>1. /\ handshakes' = handshakes /\ (handshake # "idle" \/ reader # "idle")
        /\ handshake' # "flush"
    BY <1>4 DEF Input, HandshakeReads, ReadCompletes, OwnerInv, HandshakeAlone
  <2> QED  BY <2>1 DEF FirstHandshake
<1>5. CASE UNCHANGED vars
  BY <1>5 DEF vars, context, operations, FirstHandshake
<1> QED  BY <1>1, <1>2, <1>3, <1>4, <1>5 DEF Next

LEMMA LoopDiscardsNothing ==
  ASSUME packet = 0 => readBuffer = << >>, ReadLoop(packet)
  PROVE  readBuffer' = readBuffer
BY DEF ReadLoop

LEMMA StepDiscardsNothing ==
  ASSUME OwnerInv, InputInv, FirstHandshake, Next, Len(readBuffer') < Len(readBuffer)
  PROVE  ReadDelivers \/ (HandshakeFlushed /\ handshakes > 1)
<1>0. readBuffer # << >> /\ readBuffer' # readBuffer /\ Len(readBuffer) \in Nat
  <2>1. Len(readBuffer) \in Nat
    BY LenProperties DEF InputInv, ContextTypes
  <2>2. readBuffer # << >>
    <3> SUFFICES ASSUME readBuffer = << >> PROVE FALSE
      OBVIOUS
    <3>1. Len(readBuffer) = 0
      OBVIOUS
    <3>2. readBuffer' \in Seq(Frames)
      BY InputStep DEF InputInv, ContextTypes
    <3> QED  BY <3>1, <3>2, LenProperties
  <2> QED  BY <2>1, <2>2
<1>1. CASE HandshakeStep
  <2>1. CASE HandshakeFlushed
    <3>1. handshakes \in Nat /\ handshakes # 0 /\ handshakes # 1
      BY <1>0, <2>1 DEF HandshakeFlushed, FirstHandshake
    <3> QED  BY <2>1, <3>1
  <2>2. CASE HandshakeAnswered
    <3>1. handshake \in {"connect_flush", "settle_flush"} /\ packet # 0 /\ Connected
      BY <1>0, <2>2 DEF HandshakeAnswered, InputInv, HandshakeInput, FirstOrNone
    <3> QED  BY <1>0, <2>2, <3>1 DEF HandshakeAnswered
  <2>3. CASE BeginHandshake \/ HandshakeError \/ HandshakeTimeout
    BY <1>0, <2>3 DEF BeginHandshake, HandshakeError, HandshakeTimeout, EndsAt, context
  <2> QED  BY <1>1, <2>1, <2>2, <2>3 DEF HandshakeStep
<1>2. CASE ReadStep
  <2>1. CASE AsyncRead
    <3>1. CASE packet = 0 /\ readBuffer # << >>
      BY <1>0, <2>1, <3>1 DEF AsyncRead
    <3>2. CASE ~ (packet = 0 /\ readBuffer # << >>)
      BY <1>0, <2>1, <3>2, LoopDiscardsNothing DEF AsyncRead
    <3> QED  BY <3>1, <3>2
  <2>2. CASE ReadGoesOn \/ ReadFlushed
    <3>1. (packet = 0 => readBuffer = << >>) /\ ReadLoop(packet)
      BY <2>2 DEF ReadGoesOn, ReadFlushed, InputInv, ReaderInput
    <3> QED  BY <1>0, <3>1, LoopDiscardsNothing
  <2>3. CASE ReadError \/ ReadFlushError
    BY <1>0, <2>3 DEF ReadError, ReadFlushError, context
  <2> QED  BY <1>2, <2>1, <2>2, <2>3 DEF ReadStep
<1>3. CASE \E w \in Writers : WriteStep(w)
  <2>1. UNCHANGED context
    BY <1>3 DEF WriteStep, AsyncWrite, WriteBegins, WriteEnds, WriteError, WriteFails
  <2> QED  BY <1>0, <2>1 DEF context
<1>4. ASSUME NEW chunk \in Chunks, Input(chunk) PROVE FALSE
  <2>1. CASE HandshakeReads(chunk)
    BY <1>0, <2>1 DEF HandshakeReads, InputInv, HandshakeInput
  <2>2. CASE ReadCompletes(chunk)
    <3>1. readBuffer' = readBuffer \o chunk
      BY <2>2 DEF ReadCompletes
    <3>2. reader = "reading"
      BY <2>2 DEF ReadCompletes
    <3> QED  BY <1>0, <3>2 DEF InputInv, ReaderInput
  <2> QED  BY <1>4, <2>1, <2>2 DEF Input
<1> QED  BY <1>1, <1>2, <1>3, <1>4 DEF Next

(***************************************************************************)
(* Only deliver_input_sequence takes frames out of read_buffer: it is      *)
(* never emptied of frames the context has not been given, although every  *)
(* loop empties it before it reads; except when another handshake begins   *)
(* to read, which throws away what is left from the connection before.     *)
(***************************************************************************)
THEOREM InputReachesTheContext == Spec => NoInputDiscarded
<1>1. Init => FirstHandshake
  BY DEF Init, FirstHandshake
<1>2. OwnerInv /\ InputInv /\ FirstHandshake /\ [Next]_vars
        => [Len(readBuffer') < Len(readBuffer)
              => ReadDelivers \/ (HandshakeFlushed /\ handshakes > 1)]_vars
  BY StepDiscardsNothing
<1> QED  BY <1>1, <1>2, FirstHandshakeStep, Ownership, InputInvariant, PTL
         DEF Spec, NoInputDiscarded

(***************************************************************************)
(* stream.hpp, 202: a handshake that succeeds has connected the context.   *)
(* It ends with a message, which only a connected context delivers, or     *)
(* with the settle time, when the code asks.                               *)
(***************************************************************************)
THEOREM HandshakeConnects == Spec => ConnectedWhenReady
<1>1. OwnerInv /\ InputInv /\ [Next]_vars
        => [ready' /\ ~ ready => connectState' = "CONNECTED"]_vars
  <2> SUFFICES ASSUME OwnerInv, InputInv, [Next]_vars, ready', ~ ready
               PROVE  connectState' = "CONNECTED"
    OBVIOUS
  <2>1. ready' # ready
    OBVIOUS
  <2>2. CASE HandshakeStep
    <3>1. CASE HandshakeAnswered
      <4>1. handshake \in {"connect_flush", "settle_flush"} /\ connectState' = connectState
        BY <3>1 DEF HandshakeAnswered
      <4>2. packet # 0
        BY <2>1, <3>1 DEF HandshakeAnswered
      <4> QED  BY <4>1, <4>2 DEF InputInv, HandshakeInput, FirstOrNone, Connected
    <3>2. CASE HandshakeTimeout
      <4>1. Settling /\ Connected /\ connectState' = connectState
        BY <2>1, <3>2 DEF HandshakeTimeout, EndsAt, HandshakeFails, context
      <4> QED  BY <4>1 DEF Connected
    <3>3. CASE BeginHandshake \/ HandshakeFlushed \/ HandshakeError
      BY <2>1, <3>3 DEF BeginHandshake, HandshakeFlushed, HandshakeError, EndsAt, HandshakeFails
    <3> QED  BY <2>2, <3>1, <3>2, <3>3 DEF HandshakeStep
  <2>3. CASE ReadStep
    BY <2>1, <2>3 DEF ReadStep, AsyncRead, ReadError, ReadDelivers, ReadGoesOn, ReadFlushed,
       ReadFlushError
  <2>4. CASE \E w \in Writers : WriteStep(w)
    BY <2>1, <2>4 DEF WriteStep, AsyncWrite, WriteBegins, WriteEnds, WriteError, WriteFails
  <2>5. CASE \E chunk \in Chunks : Input(chunk)
    BY <2>1, <2>5 DEF Input, HandshakeReads, ReadCompletes
  <2>6. CASE UNCHANGED vars
    BY <2>1, <2>6 DEF vars, operations
  <2> QED  BY <2>2, <2>3, <2>4, <2>5, <2>6 DEF Next
<1> QED  BY <1>1, Ownership, InputInvariant, PTL DEF Spec, ConnectedWhenReady

-----------------------------------------------------------------------------
(***************************************************************************)
(* Types.  What bounds the messages and the buffer is where they come      *)
(* from: a frame is in read_buffer, or has been fed, and is then one       *)
(* message at most; a message in the slot may be of an earlier connection. *)
(***************************************************************************)
FramesCounted ==
  /\ frames \in 0 .. MaxFrames /\ packet \in 0 .. frames
  /\ Len(readBuffer) <= MaxChunk /\ accepted + Len(readBuffer) <= frames

PlaceTypes ==
  /\ handshake \in HandshakePlaces \cup {"idle"}
  /\ reader \in {"idle", "drain", "reading", "deliver", "delivered", "flush"}
  /\ ready \in BOOLEAN

OutputTypes == writeBuffer \in Units /\ queue \in Seq(Writers \cup {"read"})

ResultTypes ==
  /\ received \in Seq(1 .. MaxFrames) /\ online \subseteq 1 .. units
  /\ handshakes \in 0 .. MaxHandshakes

\* What the context has made of n frames.
FedCount(c, n) == Len(c.rest) <= n /\ c.accepted + Len(c.rest) <= accepted + n

LEMMA FeedCounts ==
  ASSUME NEW c, FedState(c), NEW n \in Nat, FedCount(c, n), NEW f \in Frames, accepted \in Nat
  PROVE  FedCount(FeedUntilMessage(c, f), n + 1)
<1>1. Len(c.rest) \in Nat /\ c.accepted \in Nat
  BY LenProperties DEF FedState
<1>2. CASE c.packet # 0
  <2>1. Len(Append(c.rest, f)) = Len(c.rest) + 1
    BY AppendProperties DEF FedState
  <2>2. /\ FeedUntilMessage(c, f).rest = Append(c.rest, f)
        /\ FeedUntilMessage(c, f).accepted = c.accepted
    BY <1>2 DEF FeedUntilMessage, FedState
  <2> QED  BY <1>1, <2>1, <2>2 DEF FedCount
<1>3. CASE c.packet = 0
  <2>1. /\ Feed(c, f).rest = c.rest
        /\ Feed(c, f).accepted \in {c.accepted, c.accepted + 1}
    BY DEF Feed, FedState
  <2>2. FeedUntilMessage(c, f) = Feed(c, f)
    BY <1>3 DEF FeedUntilMessage
  <2> QED  BY <1>1, <2>1, <2>2 DEF FedCount
<1> QED  BY <1>2, <1>3

LEMMA FedCounts ==
  ASSUME NEW input \in Seq(Frames), connectState \in ConnectStates, accepted \in Nat
  PROVE  FedCount(Fed(input), Len(input))
<1> DEFINE last == Len(input)
           g == CHOOSE f : FedUpTo(input, f, last)
           T == {n \in Nat : n <= last => FedState(g[n]) /\ FedCount(g[n], n)}
<1>1. last \in Nat
  BY LenProperties
<1>2. FedUpTo(input, g, last)
  BY <1>1, FedUpToExists
<1>3. Fed(input) = g[last]
  BY DEF Fed, FeedAll, FedUpTo, Unfed
<1> HIDE DEF g
<1>4. \A i \in 0 .. last :
        g[i] = IF i = 0 THEN Unfed ELSE FeedUntilMessage(g[i - 1], input[i])
  BY <1>2 DEF FedUpTo
<1>5. 0 \in T
  <2>1. g[0] = Unfed
    BY <1>1, <1>4
  <2>2. FedState(Unfed)
    BY DEF FedState, Unfed
  <2>3. FedCount(Unfed, 0)
    <3>1. Len(<< >>) = 0
      BY EmptySeq
    <3> QED  BY <3>1 DEF FedCount, Unfed
  <2> QED  BY <2>1, <2>2, <2>3
<1>6. ASSUME NEW n \in Nat, n \in T PROVE n + 1 \in T
  <2> SUFFICES ASSUME n + 1 <= last PROVE FedState(g[n + 1]) /\ FedCount(g[n + 1], n + 1)
    OBVIOUS
  <2>1. FedState(g[n]) /\ FedCount(g[n], n) /\ n + 1 \in 1 .. last /\ (n + 1) - 1 = n
    BY <1>1, <1>6
  <2>2. g[n + 1] = FeedUntilMessage(g[n], input[n + 1])
    BY <1>1, <1>4, <2>1
  <2>3. input[n + 1] \in Frames
    BY <2>1, ElementOfSeq
  <2> QED  BY <2>1, <2>2, <2>3, FeedOne, FeedCounts
<1>7. Nat \subseteq T
  <2> HIDE DEF T
  <2> QED  BY <1>5, <1>6, SetInduction
<1> QED  BY <1>1, <1>3, <1>7

LEMMA DeliverCounts ==
  ASSUME ContextTypes, NEW input \in Seq(Frames), DeliverInput(input)
  PROVE  /\ Len(readBuffer') <= Len(input) /\ Len(readBuffer') \in Nat
         /\ accepted' + Len(readBuffer') <= accepted + Len(input)
         /\ accepted' \in Nat /\ packet' \in 0 .. accepted'
<1>1. /\ readBuffer' \in Seq(Frames) /\ accepted' \in Nat /\ packet' \in Nat
      /\ packet' = 0 \/ packet' = accepted'
  <2>1. /\ packet' \in Nat /\ accepted' \in Nat /\ readBuffer' \in Seq(Frames)
        /\ IF packet' = 0
             THEN accepted' = accepted /\ readBuffer' = << >>
             ELSE packet' = accepted + 1 /\ accepted' = accepted + 1 /\ Connected'
    BY DeliverEffect
  <2> QED  BY <2>1
<1>2. FedCount(Fed(input), Len(input))
  BY FedCounts DEF ContextTypes
<1>3. readBuffer' = Fed(input).rest /\ accepted' = Fed(input).accepted
  BY DEF DeliverInput
<1> QED  BY <1>1, <1>2, <1>3, LenProperties DEF FedCount

LEMMA ChunkLength == \A chunk \in Chunks : Len(chunk) \in Nat /\ Len(chunk) <= MaxChunk
BY BoundsAssumption DEF Chunks, SeqOf

-----------------------------------------------------------------------------
(***************************************************************************)
(* The counts.                                                             *)
(***************************************************************************)
\* Nothing is fed, and nothing enters the buffer.
LEMMA CountsKept ==
  ASSUME FramesCounted, ContextTypes, frames' = frames, accepted' \in {0, accepted},
         packet' \in {0, packet}, readBuffer' \in {<< >>, readBuffer}
  PROVE  FramesCounted'
<1>1. Len(<< >>) = 0 /\ Len(readBuffer) \in Nat /\ accepted \in Nat
  BY EmptySeq, LenProperties DEF ContextTypes
<1>2. Len(readBuffer') \in {0, Len(readBuffer)}
  BY <1>1
<1> QED  BY <1>1, <1>2, BoundsAssumption DEF FramesCounted

LEMMA CountsStep == OwnerInv /\ InputInv /\ FramesCounted /\ [Next]_vars => FramesCounted'
<1> SUFFICES ASSUME OwnerInv, InputInv, FramesCounted, [Next]_vars PROVE FramesCounted'
  OBVIOUS
<1>0. ContextTypes /\ Len(readBuffer) \in Nat
  BY LenProperties DEF InputInv, ContextTypes
<1>1. CASE HandshakeStep
  <2>1. /\ frames' = frames /\ accepted' \in {0, accepted} /\ packet' = packet
        /\ readBuffer' \in {<< >>, readBuffer}
    BY <1>1 DEF HandshakeStep, BeginHandshake, HandshakeFlushed, HandshakeAnswered,
       HandshakeSucceeds, HandshakeError, HandshakeTimeout, EndsAt, context
  <2> QED  BY <1>0, <2>1, CountsKept
<1>2. CASE ReadStep /\ ~ ReadDelivers
  <2>1. /\ frames' = frames /\ accepted' = accepted /\ packet' \in {0, packet}
        /\ readBuffer' \in {<< >>, readBuffer}
    BY <1>2 DEF ReadStep, AsyncRead, ReadError, ReadGoesOn, ReadFlushed, ReadFlushError,
       ReadLoop, context
  <2> QED  BY <1>0, <2>1, CountsKept
<1>3. CASE ReadDelivers
  <2>1. DeliverInput(readBuffer) /\ frames' = frames
    BY <1>3 DEF ReadDelivers
  <2>2. /\ Len(readBuffer') <= Len(readBuffer) /\ Len(readBuffer') \in Nat
        /\ accepted' + Len(readBuffer') <= accepted + Len(readBuffer)
        /\ accepted' \in Nat /\ packet' \in 0 .. accepted'
    BY <1>0, <2>1, DeliverCounts DEF ContextTypes
  <2> QED  BY <1>0, <2>1, <2>2, BoundsAssumption DEF FramesCounted, ContextTypes
<1>4. CASE \E w \in Writers : WriteStep(w)
  <2>1. UNCHANGED <<context, frames>>
    BY <1>4 DEF WriteStep, AsyncWrite, WriteBegins, WriteEnds, WriteError, WriteFails
  <2> QED  BY <1>0, <2>1, CountsKept DEF context
<1>5. ASSUME NEW chunk \in Chunks, Input(chunk) PROVE FramesCounted'
  <2>1. chunk \in Seq(Frames) /\ Len(chunk) \in Nat /\ Len(chunk) <= MaxChunk
    BY ChunkFrames, ChunkLength
  <2>2. frames + Len(chunk) <= MaxFrames
    BY <1>5 DEF Input
  <2>3. CASE HandshakeReads(chunk)
    <3>1. frames' = frames + Len(chunk) /\ DeliverInput(chunk)
      BY <2>3 DEF HandshakeReads
    <3>2. /\ Len(readBuffer') <= Len(chunk) /\ Len(readBuffer') \in Nat
          /\ accepted' + Len(readBuffer') <= accepted + Len(chunk)
          /\ accepted' \in Nat /\ packet' \in 0 .. accepted'
      BY <1>0, <2>1, <3>1, DeliverCounts
    <3> QED  BY <1>0, <2>1, <2>2, <3>1, <3>2, BoundsAssumption DEF FramesCounted, ContextTypes
  <2>4. CASE ReadCompletes(chunk)
    <3>1. /\ frames' = frames + Len(chunk) /\ readBuffer' = readBuffer \o chunk
          /\ UNCHANGED <<packet, accepted>> /\ reader = "reading"
      BY <2>4 DEF ReadCompletes
    <3>2. readBuffer = << >>
      BY <3>1 DEF InputInv, ReaderInput
    <3>3. Len(readBuffer') = Len(chunk) /\ Len(readBuffer) = 0
      BY <2>1, <3>1, <3>2
    <3> QED  BY <2>1, <2>2, <3>1, <3>3, <1>0, BoundsAssumption DEF FramesCounted, ContextTypes
  <2> QED  BY <1>5, <2>3, <2>4 DEF Input
<1>6. CASE UNCHANGED vars
  BY <1>0, <1>6, CountsKept DEF vars, context
<1> QED  BY <1>1, <1>2, <1>3, <1>4, <1>5, <1>6 DEF Next

-----------------------------------------------------------------------------
(***************************************************************************)
(* The places of the operations.                                           *)
(***************************************************************************)
LEMMA PlacesStep == PlaceTypes /\ [Next]_vars => PlaceTypes'
<1> SUFFICES ASSUME PlaceTypes, [Next]_vars PROVE PlaceTypes'
  OBVIOUS
<1>1. CASE HandshakeStep
  BY <1>1 DEF HandshakeStep, BeginHandshake, HandshakeFlushed, HandshakeAnswered,
     HandshakeSucceeds, HandshakeFails, HandshakeError, HandshakeTimeout, EndsAt,
     PlaceTypes, HandshakePlaces
<1>2. CASE ReadStep
  BY <1>2 DEF ReadStep, AsyncRead, ReadError, ReadDelivers, ReadGoesOn, ReadFlushed,
     ReadFlushError, ReadLoop, PlaceTypes
<1>3. CASE \E w \in Writers : WriteStep(w)
  BY <1>3 DEF WriteStep, AsyncWrite, WriteBegins, WriteEnds, WriteError, WriteFails,
     PlaceTypes
<1>4. CASE \E chunk \in Chunks : Input(chunk)
  BY <1>4 DEF Input, HandshakeReads, ReadCompletes, PlaceTypes, HandshakePlaces
<1>5. CASE UNCHANGED vars
  BY <1>5 DEF vars, operations, PlaceTypes
<1> QED  BY <1>1, <1>2, <1>3, <1>4, <1>5 DEF Next

-----------------------------------------------------------------------------
(***************************************************************************)
(* The write buffer and the phaser.                                        *)
(***************************************************************************)
\* What may become of the buffer: nothing, one unit more, or all of it gone.
LEMMA WiderSeq ==
  ASSUME NEW S, NEW T, S \subseteq T, NEW seq \in Seq(S)
  PROVE  seq \in Seq(T)
<1>1. PICK n \in Nat : seq \in [1 .. n -> S]
  BY SeqDef
<1>2. seq \in [1 .. n -> T]
  BY <1>1
<1> QED  BY <1>2, SeqDef

LEMMA UnitsTyped ==
  ASSUME BufferTypes, writeBuffer \in Units,
         \/ UNCHANGED <<writeBuffer, units>>
         \/ writeBuffer' = Transmitted /\ units' = units + 1
         \/ writeBuffer' = << >> /\ units' = units
  PROVE  writeBuffer' \in Units'
<1>1. CASE UNCHANGED <<writeBuffer, units>>
  BY <1>1 DEF Units
<1>2. CASE writeBuffer' = Transmitted /\ units' = units + 1
  <2>1. units + 1 \in 1 .. (units + 1) /\ 1 .. units \subseteq 1 .. (units + 1)
    BY DEF BufferTypes
  <2>2. writeBuffer \in Seq(1 .. (units + 1))
    BY <2>1, WiderSeq DEF Units
  <2>3. Append(writeBuffer, units + 1) \in Seq(1 .. (units + 1))
    BY <2>1, <2>2, AppendProperties
  <2> QED  BY <1>2, <2>3 DEF Units, Transmitted
<1>3. CASE writeBuffer' = << >> /\ units' = units
  BY <1>3, EmptySeq DEF Units
<1> QED  BY <1>1, <1>2, <1>3

LEMMA QueueTyped ==
  ASSUME queue \in Seq(Writers \cup {"read"}), NEW op \in Writers \cup {"read"},
         queue' = queue \/ Enqueue(op) \/ PhaserRuns(op)
  PROVE  queue' \in Seq(Writers \cup {"read"})
BY AppendProperties, HeadTailProperties DEF Enqueue, PhaserRuns

LEMMA DeliverOutput ==
  ASSUME NEW input, DeliverInput(input)
  PROVE  \/ UNCHANGED <<writeBuffer, units>>
         \/ writeBuffer' = Transmitted /\ units' = units + 1
BY DEF DeliverInput

LEMMA OutputStep == OwnerInv /\ OutputTypes /\ [Next]_vars => OutputTypes'
<1> SUFFICES ASSUME OwnerInv, OutputTypes, [Next]_vars PROVE OutputTypes'
  OBVIOUS
<1> DEFINE Grown == writeBuffer' = Transmitted /\ units' = units + 1
           Gone == writeBuffer' = << >> /\ units' = units
<1>0. /\ BufferTypes /\ writeBuffer \in Units /\ queue \in Seq(Writers \cup {"read"})
      /\ "read" \in Writers \cup {"read"}
  BY DEF OwnerInv, OutputTypes
<1>1. CASE HandshakeStep
  <2>1. (UNCHANGED <<writeBuffer, units>> \/ Grown \/ Gone) /\ queue' = queue
    BY <1>1 DEF HandshakeStep, BeginHandshake, HandshakeFlushed, HandshakeAnswered,
       HandshakeError, HandshakeTimeout, EndsAt, ConsumeAll, phaser
  <2> QED  BY <1>0, <2>1, UnitsTyped DEF OutputTypes
<1>2. CASE ReadStep
  <2>1. UNCHANGED <<writeBuffer, units>> \/ Grown \/ Gone
    BY <1>2, DeliverOutput DEF ReadStep, AsyncRead, ReadError, ReadDelivers, ReadGoesOn,
       ReadFlushed, ReadFlushError, ConsumeAll, output
  <2>2. queue' = queue \/ Enqueue("read") \/ PhaserRuns("read")
    BY <1>2 DEF ReadStep, AsyncRead, ReadError, ReadDelivers, ReadGoesOn, ReadFlushed,
       ReadFlushError, phaser
  <2> QED  BY <1>0, <2>1, <2>2, UnitsTyped, QueueTyped DEF OutputTypes
<1>3. ASSUME NEW w \in Writers, WriteStep(w) PROVE OutputTypes'
  <2>1. UNCHANGED <<writeBuffer, units>> \/ Grown \/ Gone
    BY <1>3 DEF WriteStep, AsyncWrite, WriteBegins, WriteEnds, WriteError, WriteFails,
       ConsumeAll, output
  <2>2. queue' = queue \/ Enqueue(w) \/ PhaserRuns(w)
    BY <1>3 DEF WriteStep, AsyncWrite, WriteBegins, WriteEnds, WriteError, WriteFails
  <2>3. w \in Writers \cup {"read"}
    OBVIOUS
  <2> QED  BY <1>0, <2>1, <2>2, <2>3, UnitsTyped, QueueTyped DEF OutputTypes
<1>4. ASSUME NEW chunk \in Chunks, Input(chunk) PROVE OutputTypes'
  <2>1. UNCHANGED <<writeBuffer, units>> \/ Grown
    BY <1>4, DeliverOutput DEF Input, HandshakeReads, ReadCompletes, output
  <2>2. queue' = queue \/ Enqueue("read")
    BY <1>4 DEF Input, HandshakeReads, ReadCompletes, phaser
  <2> QED  BY <1>0, <2>1, <2>2, UnitsTyped, QueueTyped DEF OutputTypes
<1>5. CASE UNCHANGED vars
  BY <1>0, <1>5, UnitsTyped DEF vars, output, phaser, OutputTypes
<1> QED  BY <1>1, <1>2, <1>3, <1>4, <1>5 DEF Next

-----------------------------------------------------------------------------
(***************************************************************************)
(* What the reads have returned and what has reached the line.             *)
(***************************************************************************)
LEMMA OnlineTyped ==
  ASSUME OwnerInv, OutputTypes, online \subseteq 1 .. units, units' \in {units, units + 1},
         online' = online \/ \E op, n : Written(op, n)
  PROVE  online' \subseteq 1 .. units'
<1>1. units \in Nat /\ 1 .. units \subseteq 1 .. units'
  BY DEF OwnerInv, BufferTypes
<1>2. CASE online' = online
  BY <1>1, <1>2
<1>3. ASSUME NEW op, NEW n, Written(op, n) PROVE online' \subseteq 1 .. units'
  <2>1. PICK w \in writing :
          /\ n \in 0 .. Len(w.units)
          /\ online' = online \cup {w.units[i] : i \in 1 .. n}
    BY <1>3 DEF Written
  <2>2. w.units \in Seq(1 .. units)
    BY DEF OwnerInv, WritesOfOwner, Write, OutputTypes, Units
  <2>3. ASSUME NEW i \in 1 .. n PROVE w.units[i] \in 1 .. units
    <3>1. i \in 1 .. Len(w.units)
      BY <2>1, <2>2, LenProperties
    <3> QED  BY <2>2, <3>1, ElementOfSeq
  <2> QED  BY <1>1, <2>1, <2>3
<1> QED  BY <1>2, <1>3

LEMMA ReceivedTyped ==
  ASSUME InputInv, FramesCounted, received \in Seq(1 .. MaxFrames),
         \/ received' = received
         \/ received' = << >>
         \/ packet # 0 /\ received' = Append(received, packet)
  PROVE  received' \in Seq(1 .. MaxFrames)
<1>1. packet # 0 => packet \in 1 .. MaxFrames
  BY BoundsAssumption DEF FramesCounted
<1>2. << >> \in Seq(1 .. MaxFrames)
  BY EmptySeq
<1>3. CASE packet # 0 /\ received' = Append(received, packet)
  BY <1>1, <1>3, AppendProperties
<1> QED  BY <1>2, <1>3

LEMMA ResultsStep ==
  OwnerInv /\ InputInv /\ FramesCounted /\ OutputTypes /\ ResultTypes /\ [Next]_vars
    => ResultTypes'
<1> SUFFICES ASSUME OwnerInv, InputInv, FramesCounted, OutputTypes, ResultTypes, [Next]_vars
             PROVE  ResultTypes'
  OBVIOUS
<1> DEFINE Returned == \/ received' = received
                       \/ received' = << >>
                       \/ packet # 0 /\ received' = Append(received, packet)
           OnLine == online' = online \/ \E op, n : Written(op, n)
           Started == \/ handshakes' = handshakes
                      \/ handshakes < MaxHandshakes /\ handshakes' = handshakes + 1
           Unit == units' \in {units, units + 1}
<1>1. CASE HandshakeStep
  <2>1. Returned /\ Started
    BY <1>1 DEF HandshakeStep, BeginHandshake, HandshakeFlushed, HandshakeAnswered,
       HandshakeError, HandshakeTimeout, EndsAt
  <2>2. OnLine /\ Unit
    BY <1>1 DEF HandshakeStep, BeginHandshake, HandshakeFlushed, HandshakeAnswered,
       HandshakeError, HandshakeTimeout, EndsAt, WrittenAll, WrittenSome
  <2>3. received' \in Seq(1 .. MaxFrames)
    BY <2>1, ReceivedTyped DEF ResultTypes
  <2>4. online' \subseteq 1 .. units'
    BY <2>2, OnlineTyped DEF ResultTypes
  <2> QED  BY <2>1, <2>3, <2>4, BoundsAssumption DEF ResultTypes
<1>2. CASE ReadStep
  <2>0. Started
    BY <1>2 DEF ReadStep, AsyncRead, ReadError, ReadDelivers, ReadGoesOn, ReadFlushed,
       ReadFlushError
  <2>1. Returned
    <3>1. CASE AsyncRead \/ ReadGoesOn \/ ReadFlushed
      BY <1>2, <3>1 DEF AsyncRead, ReadGoesOn, ReadFlushed, ReadLoop
    <3>2. CASE ReadError \/ ReadDelivers \/ ReadFlushError
      BY <3>2 DEF ReadError, ReadDelivers, ReadFlushError
    <3> QED  BY <1>2, <3>1, <3>2 DEF ReadStep
  <2>2. Unit
    BY <1>2, DeliverOutput DEF ReadStep, AsyncRead, ReadError, ReadDelivers, ReadGoesOn,
       ReadFlushed, ReadFlushError, output
  <2>3. OnLine
    BY <1>2 DEF ReadStep, AsyncRead, ReadError, ReadDelivers, ReadGoesOn, ReadFlushed,
       ReadFlushError, output, WrittenAll, WrittenSome
  <2>4. received' \in Seq(1 .. MaxFrames)
    BY <2>1, ReceivedTyped DEF ResultTypes
  <2>5. online' \subseteq 1 .. units'
    BY <2>2, <2>3, OnlineTyped DEF ResultTypes
  <2> QED  BY <2>0, <2>4, <2>5, BoundsAssumption DEF ResultTypes
<1>3. ASSUME NEW w \in Writers, WriteStep(w) PROVE ResultTypes'
  <2>1. UNCHANGED <<received, handshakes>> /\ Unit
    BY <1>3 DEF WriteStep, AsyncWrite, WriteBegins, WriteEnds, WriteError, WriteFails, output
  <2>2. OnLine
    BY <1>3 DEF WriteStep, AsyncWrite, WriteBegins, WriteEnds, WriteError, WriteFails,
       output, WrittenAll, WrittenSome
  <2> QED  BY <2>1, <2>2, OnlineTyped DEF ResultTypes
<1>4. ASSUME NEW chunk \in Chunks, Input(chunk) PROVE ResultTypes'
  <2>1. UNCHANGED <<received, handshakes, online>> /\ Unit
    BY <1>4, DeliverOutput DEF Input, HandshakeReads, ReadCompletes, output
  <2> QED  BY <2>1, OnlineTyped DEF ResultTypes
<1>5. CASE UNCHANGED vars
  BY <1>5 DEF vars, output, ResultTypes
<1> QED  BY <1>1, <1>2, <1>3, <1>4, <1>5 DEF Next

(***************************************************************************)
(* The type invariant: there is never more in read_buffer than one         *)
(* async_read_some has read, nor a message that no frame has brought.      *)
(***************************************************************************)
THEOREM StreamTypes == Spec => []TypeOK
<1>1. Init => FramesCounted /\ PlaceTypes /\ OutputTypes /\ ResultTypes
  <2> SUFFICES ASSUME Init PROVE FramesCounted /\ PlaceTypes /\ OutputTypes /\ ResultTypes
    OBVIOUS
  <2>1. /\ Len(<< >>) = 0 /\ << >> \in Units /\ << >> \in Seq(Writers \cup {"read"})
        /\ << >> \in Seq(1 .. MaxFrames)
    BY EmptySeq DEF Units
  <2>2. FramesCounted
    BY <2>1, BoundsAssumption DEF Init, FramesCounted
  <2>3. PlaceTypes
    BY DEF Init, PlaceTypes
  <2>4. OutputTypes /\ ResultTypes
    BY <2>1, BoundsAssumption DEF Init, OutputTypes, ResultTypes
  <2> QED  BY <2>2, <2>3, <2>4
<1>2. OwnerInv /\ InputInv /\ FramesCounted /\ PlaceTypes /\ OutputTypes /\ ResultTypes
        => TypeOK
  <2> SUFFICES ASSUME OwnerInv, InputInv, FramesCounted, PlaceTypes, OutputTypes, ResultTypes
               PROVE  TypeOK
    OBVIOUS
  <2>1. packet \in 0 .. MaxFrames /\ accepted \in 0 .. MaxFrames
    BY LenProperties, BoundsAssumption DEF FramesCounted, InputInv, ContextTypes
  <2>2. \A w \in writing : w.op \in Operations /\ w.units \in Units
    BY DEF OwnerInv, WritesOfOwner, HolderIsAtWork, Write, Operations, OutputTypes
  <2> QED  BY <2>1, <2>2
           DEF TypeOK, OwnerInv, HolderIsAtWork, BufferTypes, InputInv, ContextTypes,
               FramesCounted, PlaceTypes, OutputTypes, ResultTypes
<1> QED  BY <1>1, <1>2, CountsStep, PlacesStep, OutputStep, ResultsStep, Ownership,
         InputInvariant, PTL DEF Spec
=============================================================================
