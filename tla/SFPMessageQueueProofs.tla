------------------------ MODULE SFPMessageQueueProofs ------------------------
(***************************************************************************)
(* That SFPMessageQueue calls every handler exactly once and has one read  *)
(* pump, for any number of calls, and with any of its user's sends sending *)
(* again in their handlers and any of the user's receives sending or       *)
(* receiving when given a message; and, until a handler of a send has      *)
(* begun a write, that it writes the front of its outbox and that a user   *)
(* who is ready has a read pump.                                           *)
(***************************************************************************)
EXTENDS SFPMessageQueue, SequenceTheorems, FiniteSetTheorems, SetInduction, TLAPS

(***************************************************************************)
(* The inductive invariant, for a record s as q holds it and the set H of  *)
(* the handlers that are still to be called: those in the outbox, and in   *)
(* the middle of a step also the one in hand, or those of an outbox that   *)
(* is being voided.                                                        *)
(***************************************************************************)
Handlers == {Send(i) : i \in 1 .. MaxSends} \cup {HANDSHAKE, KEEPALIVE, PUMP}

HasFields(s) ==
  { "open", "connected", "handshakeComplete", "pumpRunning", "pumpError", "outbox",
    "writing", "reading", "readCut", "writeCut", "waiting", "messages", "timers",
    "handshake", "tries", "keepalive", "ready", "nested", "undefined", "sends",
    "receives", "handshakes",
    "keepalives", "reopens", "sendCalls", "receiveCalls", "handshakeCalls",
    "keepaliveCalls" } \subseteq DOMAIN s

SendsCounted(s, H) ==
  /\ s.sends \in 0 .. MaxSends
  /\ s.sendCalls \in [1 .. MaxSends -> Nat]
  /\ \A i \in 1 .. MaxSends :
       /\ Send(i) \in H => i <= s.sends
       /\ s.sendCalls[i] = IF i <= s.sends /\ Send(i) \notin H THEN 1 ELSE 0

Waits(s, i) == \E k \in 1 .. Len(s.waiting) : s.waiting[k] = i

ReceivesCounted(s) ==
  /\ s.receives \in 0 .. MaxReceives
  /\ s.waiting \in Seq(1 .. s.receives)
  /\ \A k, l \in 1 .. Len(s.waiting) : s.waiting[k] = s.waiting[l] => k = l
  /\ s.receiveCalls \in [1 .. MaxReceives -> Nat]
  /\ \A i \in 1 .. MaxReceives :
       s.receiveCalls[i] = IF i <= s.receives /\ ~ Waits(s, i) THEN 1 ELSE 0

HandshakesCounted(s, H) ==
  /\ s.handshakes \in Nat /\ s.handshakeCalls \in Nat
  /\ ~ (HANDSHAKE \in H /\ "handshake" \in s.timers)
  /\ s.handshakes
       = s.handshakeCalls
           + (IF HANDSHAKE \in H \/ "handshake" \in s.timers THEN 1 ELSE 0)

KeepalivesCounted(s, H) ==
  /\ s.keepalives \in Nat /\ s.keepaliveCalls \in Nat
  /\ ~ (KEEPALIVE \in H /\ "keepalive" \in s.timers)
  /\ s.keepalives
       = s.keepaliveCalls
           + (IF KEEPALIVE \in H \/ "keepalive" \in s.timers THEN 1 ELSE 0)

PumpCounted(s, H) ==
  /\ s.reading \in BOOLEAN /\ s.pumpRunning \in BOOLEAN
  /\ ~ (s.reading /\ PUMP \in H)
  /\ s.pumpRunning <=> s.reading \/ PUMP \in H

Counted(s, H) ==
  /\ HasFields(s) /\ SendsCounted(s, H) /\ ReceivesCounted(s)
  /\ HandshakesCounted(s, H) /\ KeepalivesCounted(s, H) /\ PumpCounted(s, H)

\* An operation that is idle waits for nothing.
Placed(s, H) ==
  /\ s.handshake = "idle" => HANDSHAKE \notin H /\ "handshake" \notin s.timers
  /\ s.keepalive = "idle" => KEEPALIVE \notin H /\ "keepalive" \notin s.timers

Outbox(s) ==
  /\ s.outbox \in Seq(Handlers)
  /\ \A i, j \in 1 .. Len(s.outbox) : s.outbox[i] = s.outbox[j] => i = j

Held(s) == {s.outbox[i] : i \in 1 .. Len(s.outbox)}

Whole(s) == Outbox(s) /\ Counted(s, Held(s)) /\ Placed(s, Held(s))

AtFront(s) ==
  s.nested \/ s.writing = IF s.outbox = << >> THEN << >> ELSE <<Head(s.outbox)>>

Keeps(s, t) == (s.nested => t.nested) /\ (AtFront(s) => AtFront(t))

-----------------------------------------------------------------------------
(***************************************************************************)
(* What does not touch the outbox.                                         *)
(***************************************************************************)
SameOutput(s, t) ==
  t.outbox = s.outbox /\ t.writing = s.writing /\ t.nested = s.nested

\* t is as s in all that is counted.
SameCounts(s, t) ==
  /\ HasFields(t)
  /\ t.sends = s.sends /\ t.sendCalls = s.sendCalls
  /\ t.receives = s.receives /\ t.waiting = s.waiting /\ t.receiveCalls = s.receiveCalls
  /\ t.timers = s.timers
  /\ t.handshakes = s.handshakes /\ t.handshakeCalls = s.handshakeCalls
  /\ t.keepalives = s.keepalives /\ t.keepaliveCalls = s.keepaliveCalls
  /\ t.reading = s.reading /\ t.pumpRunning = s.pumpRunning
  /\ t.handshake = s.handshake /\ t.keepalive = s.keepalive

Same(s, t) == SameCounts(s, t) /\ SameOutput(s, t)

SameReads(s, t) == t.reading = s.reading /\ t.receives = s.receives

\* From s to t the handlers in hand become H.
Goes(s, t, H) ==
  Counted(t, H) /\ (Placed(s, H) => Placed(t, H)) /\ SameOutput(s, t) /\ t.sends = s.sends

LEMMA ReceivesSame ==
  ASSUME NEW s, NEW t, ReceivesCounted(s),
         t.receives = s.receives, t.waiting = s.waiting, t.receiveCalls = s.receiveCalls
  PROVE  ReceivesCounted(t)
BY DEF ReceivesCounted, Waits

LEMMA SameCountsKeep ==
  ASSUME NEW s, NEW t, SameCounts(s, t)
  PROVE  /\ \A H : Counted(s, H) => Counted(t, H)
         /\ \A H : Placed(s, H) => Placed(t, H)
<1>1. ASSUME NEW H, Counted(s, H) PROVE Counted(t, H)
  <2>1. SendsCounted(t, H)
    BY <1>1 DEF Counted, SameCounts, SendsCounted
  <2>2. ReceivesCounted(t)
    BY <1>1, ReceivesSame DEF Counted, SameCounts
  <2>3. HandshakesCounted(t, H) /\ KeepalivesCounted(t, H)
    BY <1>1 DEF Counted, SameCounts, HandshakesCounted, KeepalivesCounted
  <2>4. PumpCounted(t, H)
    BY <1>1 DEF Counted, SameCounts, PumpCounted
  <2> QED  BY <2>1, <2>2, <2>3, <2>4 DEF SameCounts, Counted
<1>2. ASSUME NEW H, Placed(s, H) PROVE Placed(t, H)
  BY <1>2 DEF SameCounts, Placed
<1> QED  BY <1>1, <1>2

LEMMA SameGoes ==
  ASSUME NEW s, NEW t, NEW H, Counted(s, H), Same(s, t)
  PROVE  Goes(s, t, H)
BY SameCountsKeep DEF Same, SameCounts, Goes

LEMMA CloseSame ==
  ASSUME NEW s, HasFields(s)
  PROVE  Same(s, Close(s))
BY DEF HasFields, Close, Same, SameCounts, SameOutput

LEMMA AskedSame ==
  ASSUME NEW s, NEW ec, HasFields(s)
  PROVE  Same(s, Asked(s)) /\ Same(s, Resumed(s, ec))
BY DEF HasFields, Asked, Resumed, Same, SameCounts, SameOutput

LEMMA VoidReceivesGoes ==
  ASSUME NEW s, NEW H, Counted(s, H)
  PROVE  /\ Goes(s, VoidReceives(s), H)
         /\ \A K : Placed(s, K) => Placed(VoidReceives(s), K)
         /\ VoidReceives(s).handshake = s.handshake
         /\ VoidReceives(s).handshakes = s.handshakes
         /\ VoidReceives(s).handshakeCalls = s.handshakeCalls
         /\ VoidReceives(s).timers = s.timers
<1> DEFINE t == VoidReceives(s)
           calls == [i \in 1 .. MaxReceives |->
                       s.receiveCalls[i] + (IF Contains(s.waiting, i) THEN 1 ELSE 0)]
<1>1. HasFields(s) /\ ReceivesCounted(s)
  BY DEF Counted
<1>2. t = [[s EXCEPT !.receiveCalls = calls] EXCEPT !.waiting = << >>, !.messages = 0]
  BY DEF VoidReceives, CallReceives
<1> HIDE DEF calls, t
<1>3. /\ HasFields(t) /\ SameOutput(s, t)
      /\ t.waiting = << >> /\ t.receiveCalls = calls
      /\ t.sends = s.sends /\ t.sendCalls = s.sendCalls /\ t.receives = s.receives
      /\ t.timers = s.timers /\ t.reading = s.reading /\ t.pumpRunning = s.pumpRunning
      /\ t.handshakes = s.handshakes /\ t.handshakeCalls = s.handshakeCalls
      /\ t.keepalives = s.keepalives /\ t.keepaliveCalls = s.keepaliveCalls
      /\ t.handshake = s.handshake /\ t.keepalive = s.keepalive
  BY <1>1, <1>2 DEF HasFields, SameOutput
<1>4. \A i \in 1 .. MaxReceives : Contains(s.waiting, i) <=> Waits(s, i)
  BY DEF Contains, Waits
<1>5. /\ calls \in [1 .. MaxReceives -> Nat]
      /\ \A i \in 1 .. MaxReceives : calls[i] = IF i <= s.receives THEN 1 ELSE 0
  <2>1. ASSUME NEW i \in 1 .. MaxReceives
        PROVE  /\ calls[i] = IF i <= s.receives THEN 1 ELSE 0
               /\ s.receiveCalls[i] + (IF Contains(s.waiting, i) THEN 1 ELSE 0) \in Nat
    <3>1. s.receiveCalls[i] = IF i <= s.receives /\ ~ Waits(s, i) THEN 1 ELSE 0
      BY <1>1 DEF ReceivesCounted
    <3>2. Waits(s, i) => i <= s.receives
      BY <1>1, ElementOfSeq DEF ReceivesCounted, Waits
    <3> QED  BY <1>4, <3>1, <3>2 DEF calls
  <2> QED  BY <2>1 DEF calls
<1>6. ReceivesCounted(t)
  <2>1. t.waiting \in Seq(1 .. t.receives) /\ Len(t.waiting) = 0
    BY <1>3, EmptySeq
  <2>2. \A i : ~ Waits(t, i)
    BY <2>1 DEF Waits
  <2> QED  BY <1>1, <1>3, <1>5, <2>1, <2>2 DEF ReceivesCounted
<1>7. SendsCounted(t, H)
  BY <1>3 DEF Counted, SendsCounted
<1>8. HandshakesCounted(t, H) /\ KeepalivesCounted(t, H)
  BY <1>3 DEF Counted, HandshakesCounted, KeepalivesCounted
<1>9. PumpCounted(t, H)
  BY <1>3 DEF Counted, PumpCounted
<1>10. \A K : Placed(s, K) => Placed(t, K)
  BY <1>3 DEF Placed
<1> QED  BY <1>3, <1>6, <1>7, <1>8, <1>9, <1>10 DEF Goes, Counted, t

(***************************************************************************)
(* The read pump.                                                          *)
(***************************************************************************)
\* The pump has ended, or goes on reading.
LEMMA PumpGoes ==
  ASSUME NEW s, NEW t, NEW H, Counted(s, H), PUMP \in H,
         Same([s EXCEPT !.reading = t.reading, !.pumpRunning = t.pumpRunning], t),
         t.reading \in BOOLEAN, t.pumpRunning = t.reading
  PROVE  Goes(s, t, H \ {PUMP})
<1> DEFINE K == H \ {PUMP}
<1>1. HasFields(s) /\ HasFields(t)
  BY DEF Counted, Same, SameCounts
<1>2. /\ SameOutput(s, t)
      /\ t.sends = s.sends /\ t.sendCalls = s.sendCalls
      /\ t.receives = s.receives /\ t.waiting = s.waiting
      /\ t.receiveCalls = s.receiveCalls
      /\ t.timers = s.timers
      /\ t.handshakes = s.handshakes /\ t.handshakeCalls = s.handshakeCalls
      /\ t.keepalives = s.keepalives /\ t.keepaliveCalls = s.keepaliveCalls
      /\ t.handshake = s.handshake /\ t.keepalive = s.keepalive
  BY <1>1 DEF Same, SameCounts, SameOutput, HasFields
<1>3. /\ \A i : Send(i) \in K <=> Send(i) \in H
      /\ HANDSHAKE \in K <=> HANDSHAKE \in H
      /\ KEEPALIVE \in K <=> KEEPALIVE \in H
      /\ PUMP \notin K
  BY DEF Send, HANDSHAKE, KEEPALIVE, PUMP
<1> HIDE DEF K
<1>4. SendsCounted(t, K)
  BY <1>2, <1>3 DEF Counted, SendsCounted
<1>5. ReceivesCounted(t)
  BY <1>2, ReceivesSame DEF Counted
<1>6. HandshakesCounted(t, K) /\ KeepalivesCounted(t, K)
  BY <1>2, <1>3 DEF Counted, HandshakesCounted, KeepalivesCounted
<1>7. PumpCounted(t, K)
  BY <1>3 DEF PumpCounted
<1>8. Placed(s, K) => Placed(t, K)
  BY <1>2 DEF Placed
<1> QED  BY <1>1, <1>2, <1>4, <1>5, <1>6, <1>7, <1>8 DEF Goes, Counted, K

LEMMA StopReadPumpGoes ==
  ASSUME NEW s, NEW H, NEW ec, Counted(s, H), PUMP \in H
  PROVE  /\ Goes(s, StopReadPump(s, ec), H \ {PUMP})
         /\ \A K : Placed(s, K) => Placed(StopReadPump(s, ec), K)
<1> DEFINE voided == VoidReceives(s)
           closed == IF ec = "aborted" THEN voided ELSE Close(voided)
           t == [closed EXCEPT !.pumpRunning = FALSE, !.pumpError = ec]
<1>1. t = StopReadPump(s, ec)
  BY DEF StopReadPump
<1>2. /\ Counted(voided, H) /\ SameOutput(s, voided) /\ voided.sends = s.sends
      /\ \A K : Placed(s, K) => Placed(voided, K)
  BY VoidReceivesGoes DEF Goes
<1> HIDE DEF voided
<1>3. HasFields(voided)
  BY <1>2 DEF Counted
<1>4. Same(voided, closed)
  BY <1>3, CloseSame DEF Same, SameCounts, SameOutput
<1>5. Counted(closed, H) /\ SameOutput(voided, closed) /\ closed.sends = voided.sends
  BY <1>2, <1>4, SameGoes DEF Goes
<1>6. \A K : Placed(voided, K) => Placed(closed, K)
  BY <1>4 DEF Same, SameCounts, Placed
<1> HIDE DEF closed
<1>7. HasFields(closed) /\ ~ closed.reading /\ closed.reading \in BOOLEAN
  BY <1>5 DEF Counted, PumpCounted
<1>8. t.pumpRunning = FALSE /\ t.reading = closed.reading
  BY <1>7 DEF HasFields
<1>9. Same([closed EXCEPT !.reading = t.reading, !.pumpRunning = t.pumpRunning], t)
  BY <1>7 DEF Same, SameCounts, SameOutput, HasFields
<1> HIDE DEF t
<1>10. Goes(closed, t, H \ {PUMP})
  BY <1>5, <1>7, <1>8, <1>9, PumpGoes
<1>11. \A K : Placed(closed, K) => Placed(t, K)
  BY <1>7, <1>9 DEF Same, SameCounts, SameOutput, Placed, HasFields
<1> QED  BY <1>1, <1>2, <1>5, <1>6, <1>10, <1>11 DEF Goes, SameOutput

LEMMA ReadPumpGoes ==
  ASSUME NEW s, NEW H, Counted(s, H), PUMP \in H
  PROVE  /\ Goes(s, ReadPump(s), H \ {PUMP})
         /\ \A K : Placed(s, K) => Placed(ReadPump(s), K)
<1>1. HasFields(s) /\ ~ s.reading /\ s.reading \in BOOLEAN /\ s.pumpRunning = TRUE
  BY DEF Counted, PumpCounted
<1>2. CASE s.open
  <2> DEFINE t == [s EXCEPT !.reading = TRUE, !.readCut = FALSE]
  <2>1. t = ReadPump(s)
    BY <1>2 DEF ReadPump
  <2>2. t.reading = TRUE /\ t.pumpRunning = TRUE
    BY <1>1 DEF HasFields
  <2>3. Same([s EXCEPT !.reading = t.reading, !.pumpRunning = t.pumpRunning], t)
    BY <1>1 DEF Same, SameCounts, SameOutput, HasFields
  <2> HIDE DEF t
  <2>4. \A K : Placed(s, K) => Placed(t, K)
    BY <1>1, <2>3 DEF Same, SameCounts, SameOutput, Placed, HasFields
  <2> QED  BY <2>1, <2>2, <2>3, <2>4, PumpGoes
<1>3. CASE ~ s.open
  <2> DEFINE voided == VoidReceives(s)
             t == [voided EXCEPT !.pumpRunning = FALSE, !.pumpError = "down"]
  <2>1. t = ReadPump(s)
    BY <1>3 DEF ReadPump
  <2>2. /\ Counted(voided, H) /\ SameOutput(s, voided) /\ voided.sends = s.sends
        /\ \A K : Placed(s, K) => Placed(voided, K)
    BY VoidReceivesGoes DEF Goes
  <2> HIDE DEF voided
  <2>3. HasFields(voided) /\ ~ voided.reading /\ voided.reading \in BOOLEAN
    BY <2>2 DEF Counted, PumpCounted
  <2>4. t.pumpRunning = FALSE /\ t.reading = voided.reading
    BY <2>3 DEF HasFields
  <2>5. Same([voided EXCEPT !.reading = t.reading, !.pumpRunning = t.pumpRunning], t)
    BY <2>3 DEF Same, SameCounts, SameOutput, HasFields
  <2> HIDE DEF t
  <2>6. Goes(voided, t, H \ {PUMP})
    BY <2>2, <2>3, <2>4, <2>5, PumpGoes
  <2>7. \A K : Placed(voided, K) => Placed(t, K)
    BY <2>3, <2>5 DEF Same, SameCounts, SameOutput, Placed, HasFields
  <2> QED  BY <2>1, <2>2, <2>6, <2>7 DEF Goes, SameOutput
<1> QED  BY <1>2, <1>3

\* A pump that is started when there is none, and has PUMP in hand.
LEMMA StartReadPumpGoes ==
  ASSUME NEW s, NEW H, Counted(s, H)
  PROVE  /\ Goes(s, StartReadPump(s), H)
         /\ \A K : Placed(s, K) => Placed(StartReadPump(s), K)
<1>1. CASE s.pumpRunning
  BY <1>1 DEF StartReadPump, Goes, SameOutput
<1>2. CASE ~ s.pumpRunning
  <2> DEFINE t == [s EXCEPT !.pumpRunning = TRUE, !.pumpError = "ok"]
             K == H \cup {PUMP}
  <2>1. HasFields(s) /\ s.reading = FALSE /\ PUMP \notin H
    BY <1>2 DEF Counted, PumpCounted
  <2>2. /\ HasFields(t) /\ SameOutput(s, t)
        /\ t.sends = s.sends /\ t.sendCalls = s.sendCalls
        /\ t.receives = s.receives /\ t.waiting = s.waiting
        /\ t.receiveCalls = s.receiveCalls
        /\ t.timers = s.timers
        /\ t.handshakes = s.handshakes /\ t.handshakeCalls = s.handshakeCalls
        /\ t.keepalives = s.keepalives /\ t.keepaliveCalls = s.keepaliveCalls
        /\ t.handshake = s.handshake /\ t.keepalive = s.keepalive
        /\ t.reading = FALSE /\ t.pumpRunning = TRUE
    BY <2>1 DEF SameOutput, HasFields
  <2>3. /\ \A i : Send(i) \in K <=> Send(i) \in H
        /\ HANDSHAKE \in K <=> HANDSHAKE \in H
        /\ KEEPALIVE \in K <=> KEEPALIVE \in H
        /\ PUMP \in K /\ K \ {PUMP} = H
    BY <2>1 DEF Send, HANDSHAKE, KEEPALIVE, PUMP
  <2>4. StartReadPump(s) = ReadPump(t)
    BY <1>2 DEF StartReadPump
  <2> HIDE DEF t, K
  <2>5. SendsCounted(t, K)
    BY <2>2, <2>3 DEF Counted, SendsCounted
  <2>6. ReceivesCounted(t)
    BY <2>2, ReceivesSame DEF Counted
  <2>7. HandshakesCounted(t, K) /\ KeepalivesCounted(t, K)
    BY <2>2, <2>3 DEF Counted, HandshakesCounted, KeepalivesCounted
  <2>8. PumpCounted(t, K)
    BY <2>2, <2>3 DEF PumpCounted
  <2>9. Counted(t, K)
    BY <2>2, <2>5, <2>6, <2>7, <2>8 DEF Counted
  <2>10. \A L : Placed(s, L) => Placed(t, L)
    BY <2>2 DEF Placed
  <2>11. Goes(t, ReadPump(t), H) /\ \A L : Placed(t, L) => Placed(ReadPump(t), L)
    BY <2>3, <2>9, ReadPumpGoes
  <2> QED  BY <2>2, <2>4, <2>10, <2>11 DEF Goes, SameOutput
<1> QED  BY <1>1, <1>2

(***************************************************************************)
(* Sends, and the two operations resumed.                                  *)
(***************************************************************************)
LEMMA CallSendGoes ==
  ASSUME NEW s, NEW H, NEW i \in 1 .. MaxSends, Counted(s, H), Send(i) \in H
  PROVE  Goes(s, CallSend(s, i), H \ {Send(i)})
<1> DEFINE K == H \ {Send(i)}
           t == CallSend(s, i)
<1>1. /\ HasFields(s) /\ s.sendCalls \in [1 .. MaxSends -> Nat]
      /\ i <= s.sends /\ s.sendCalls[i] = 0
  BY DEF Counted, SendsCounted
<1>2. /\ HasFields(t) /\ SameOutput(s, t)
      /\ t.sends = s.sends /\ t.sendCalls = [s.sendCalls EXCEPT ![i] = s.sendCalls[i] + 1]
      /\ t.receives = s.receives /\ t.waiting = s.waiting
      /\ t.receiveCalls = s.receiveCalls
      /\ t.timers = s.timers
      /\ t.handshakes = s.handshakes /\ t.handshakeCalls = s.handshakeCalls
      /\ t.keepalives = s.keepalives /\ t.keepaliveCalls = s.keepaliveCalls
      /\ t.handshake = s.handshake /\ t.keepalive = s.keepalive
      /\ t.reading = s.reading /\ t.pumpRunning = s.pumpRunning
  BY <1>1 DEF CallSend, SameOutput, HasFields
<1>3. /\ \A j : Send(j) \in K <=> Send(j) \in H /\ j # i
      /\ HANDSHAKE \in K <=> HANDSHAKE \in H
      /\ KEEPALIVE \in K <=> KEEPALIVE \in H
      /\ PUMP \in K <=> PUMP \in H
  BY DEF Send, HANDSHAKE, KEEPALIVE, PUMP
<1> HIDE DEF t, K
<1>4. SendsCounted(t, K)
  <2>1. t.sendCalls \in [1 .. MaxSends -> Nat]
    BY <1>1, <1>2
  <2>2. ASSUME NEW j \in 1 .. MaxSends
        PROVE  /\ Send(j) \in K => j <= t.sends
               /\ t.sendCalls[j] = IF j <= t.sends /\ Send(j) \notin K THEN 1 ELSE 0
    <3>1. t.sendCalls[j] = IF j = i THEN s.sendCalls[i] + 1 ELSE s.sendCalls[j]
      BY <1>1, <1>2
    <3>2. CASE j = i
      <4>1. Send(j) \notin K /\ j <= t.sends /\ t.sendCalls[j] = 1
        BY <1>1, <1>2, <1>3, <3>1, <3>2
      <4> QED  BY <4>1
    <3>3. CASE j # i
      <4>1. /\ Send(j) \in H => j <= s.sends
            /\ s.sendCalls[j] = IF j <= s.sends /\ Send(j) \notin H THEN 1 ELSE 0
        BY DEF Counted, SendsCounted
      <4> QED  BY <1>2, <1>3, <3>1, <3>3, <4>1
    <3> QED  BY <3>2, <3>3
  <2>3. t.sends \in 0 .. MaxSends
    BY <1>2 DEF Counted, SendsCounted
  <2> QED  BY <2>1, <2>2, <2>3 DEF SendsCounted
<1>5. ReceivesCounted(t)
  BY <1>2, ReceivesSame DEF Counted
<1>6. HandshakesCounted(t, K) /\ KeepalivesCounted(t, K)
  BY <1>2, <1>3 DEF Counted, HandshakesCounted, KeepalivesCounted
<1>7. PumpCounted(t, K)
  BY <1>2, <1>3 DEF Counted, PumpCounted
<1>8. Placed(s, K) => Placed(t, K)
  BY <1>2 DEF Placed
<1> QED  BY <1>2, <1>4, <1>5, <1>6, <1>7, <1>8 DEF Goes, Counted, t, K

\* The handshake has ended, or waits for its timer.
LEMMA HandshakeGoes ==
  ASSUME NEW s, NEW t, NEW H, Counted(s, H), HANDSHAKE \in H,
         Same([s EXCEPT !.timers = t.timers, !.handshakeCalls = t.handshakeCalls,
                        !.handshake = t.handshake], t),
         \/ /\ t.timers = s.timers /\ t.handshakeCalls = s.handshakeCalls + 1
         \/ /\ t.timers = s.timers \cup {"handshake"}
            /\ t.handshakeCalls = s.handshakeCalls /\ t.handshake # "idle"
  PROVE  Goes(s, t, H \ {HANDSHAKE})
<1> DEFINE K == H \ {HANDSHAKE}
<1>1. HasFields(s) /\ HasFields(t)
  BY DEF Counted, Same, SameCounts
<1>2. /\ SameOutput(s, t)
      /\ t.sends = s.sends /\ t.sendCalls = s.sendCalls
      /\ t.receives = s.receives /\ t.waiting = s.waiting
      /\ t.receiveCalls = s.receiveCalls
      /\ t.handshakes = s.handshakes
      /\ t.keepalives = s.keepalives /\ t.keepaliveCalls = s.keepaliveCalls
      /\ t.keepalive = s.keepalive
      /\ t.reading = s.reading /\ t.pumpRunning = s.pumpRunning
  BY <1>1 DEF Same, SameCounts, SameOutput, HasFields
<1>3. /\ \A i : Send(i) \in K <=> Send(i) \in H
      /\ HANDSHAKE \notin K
      /\ KEEPALIVE \in K <=> KEEPALIVE \in H
      /\ PUMP \in K <=> PUMP \in H
  BY DEF Send, HANDSHAKE, KEEPALIVE, PUMP
<1>4. "keepalive" \in t.timers <=> "keepalive" \in s.timers
  OBVIOUS
<1>5. HandshakesCounted(s, H) /\ "handshake" \notin s.timers
  BY DEF Counted, HandshakesCounted
<1> HIDE DEF K
<1>6. SendsCounted(t, K)
  BY <1>2, <1>3 DEF Counted, SendsCounted
<1>7. ReceivesCounted(t)
  BY <1>2, ReceivesSame DEF Counted
<1>8. HandshakesCounted(t, K)
  BY <1>2, <1>3, <1>5 DEF HandshakesCounted
<1>9. KeepalivesCounted(t, K)
  BY <1>2, <1>3, <1>4 DEF Counted, KeepalivesCounted
<1>10. PumpCounted(t, K)
  BY <1>2, <1>3 DEF Counted, PumpCounted
<1>11. Placed(s, K) => Placed(t, K)
  BY <1>2, <1>3, <1>4, <1>5 DEF Placed
<1> QED  BY <1>1, <1>2, <1>6, <1>7, <1>8, <1>9, <1>10, <1>11 DEF Goes, Counted, K

\* The same for the keepalive.
LEMMA KeepaliveGoes ==
  ASSUME NEW s, NEW t, NEW H, Counted(s, H), KEEPALIVE \in H,
         Same([s EXCEPT !.timers = t.timers, !.keepaliveCalls = t.keepaliveCalls,
                        !.keepalive = t.keepalive], t),
         \/ /\ t.timers = s.timers /\ t.keepaliveCalls = s.keepaliveCalls + 1
         \/ /\ t.timers = s.timers \cup {"keepalive"}
            /\ t.keepaliveCalls = s.keepaliveCalls /\ t.keepalive # "idle"
  PROVE  Goes(s, t, H \ {KEEPALIVE})
<1> DEFINE K == H \ {KEEPALIVE}
<1>1. HasFields(s) /\ HasFields(t)
  BY DEF Counted, Same, SameCounts
<1>2. /\ SameOutput(s, t)
      /\ t.sends = s.sends /\ t.sendCalls = s.sendCalls
      /\ t.receives = s.receives /\ t.waiting = s.waiting
      /\ t.receiveCalls = s.receiveCalls
      /\ t.handshakes = s.handshakes /\ t.handshakeCalls = s.handshakeCalls
      /\ t.keepalives = s.keepalives
      /\ t.handshake = s.handshake
      /\ t.reading = s.reading /\ t.pumpRunning = s.pumpRunning
  BY <1>1 DEF Same, SameCounts, SameOutput, HasFields
<1>3. /\ \A i : Send(i) \in K <=> Send(i) \in H
      /\ HANDSHAKE \in K <=> HANDSHAKE \in H
      /\ KEEPALIVE \notin K
      /\ PUMP \in K <=> PUMP \in H
  BY DEF Send, HANDSHAKE, KEEPALIVE, PUMP
<1>4. "handshake" \in t.timers <=> "handshake" \in s.timers
  OBVIOUS
<1>5. KeepalivesCounted(s, H) /\ "keepalive" \notin s.timers
  BY DEF Counted, KeepalivesCounted
<1> HIDE DEF K
<1>6. SendsCounted(t, K)
  BY <1>2, <1>3 DEF Counted, SendsCounted
<1>7. ReceivesCounted(t)
  BY <1>2, ReceivesSame DEF Counted
<1>8. HandshakesCounted(t, K)
  BY <1>2, <1>3, <1>4 DEF Counted, HandshakesCounted
<1>9. KeepalivesCounted(t, K)
  BY <1>2, <1>3, <1>5 DEF KeepalivesCounted
<1>10. PumpCounted(t, K)
  BY <1>2, <1>3 DEF Counted, PumpCounted
<1>11. Placed(s, K) => Placed(t, K)
  BY <1>2, <1>3, <1>4, <1>5 DEF Placed
<1> QED  BY <1>1, <1>2, <1>6, <1>7, <1>8, <1>9, <1>10, <1>11 DEF Goes, Counted, K

LEMMA HandshakeEndsGoes ==
  ASSUME NEW s, NEW H, NEW rc, Counted(s, H), HANDSHAKE \in H
  PROVE  Goes(s, HandshakeEnds(s, rc), H \ {HANDSHAKE})
<1> DEFINE closed == IF rc \in {"ok", "aborted", "gave_up"} THEN s ELSE Close(s)
           t == [closed EXCEPT !.handshake = "idle",
                               !.handshakeComplete = @ \/ rc = "ok",
                               !.ready = rc = "ok",
                               !.handshakeCalls = @ + 1]
<1>1. t = HandshakeEnds(s, rc)
  BY DEF HandshakeEnds
<1>2. HasFields(s) /\ Same(s, closed)
  BY CloseSame DEF Counted, Same, SameCounts, SameOutput
<1> HIDE DEF closed
<1>3. /\ HasFields(closed) /\ HasFields(t) /\ Same(s, closed)
      /\ SameOutput(closed, t)
      /\ t.timers = s.timers /\ t.handshakeCalls = s.handshakeCalls + 1
  BY <1>2 DEF Same, SameCounts, SameOutput, HasFields
<1>4. Same([s EXCEPT !.timers = t.timers, !.handshakeCalls = t.handshakeCalls,
                     !.handshake = t.handshake], t)
  BY <1>2, <1>3 DEF Same, SameCounts, SameOutput, HasFields
<1> HIDE DEF t
<1> QED  BY <1>1, <1>3, <1>4, HandshakeGoes

\* The operation waits for its timer at p.
LEMMA AwaitHandshakeGoes ==
  ASSUME NEW s, NEW H, NEW p, Counted(s, H), HANDSHAKE \in H, p # "idle"
  PROVE  Goes(s, AwaitTimer([s EXCEPT !.handshake = p], "handshake"), H \ {HANDSHAKE})
<1> DEFINE t == AwaitTimer([s EXCEPT !.handshake = p], "handshake")
<1>1. HasFields(s)
  BY DEF Counted
<1>2. /\ t.timers = s.timers \cup {"handshake"}
      /\ t.handshakeCalls = s.handshakeCalls /\ t.handshake # "idle"
  BY <1>1 DEF AwaitTimer, HasFields
<1>3. Same([s EXCEPT !.timers = t.timers, !.handshakeCalls = t.handshakeCalls,
                     !.handshake = t.handshake], t)
  BY <1>1 DEF AwaitTimer, Same, SameCounts, SameOutput, HasFields
<1> HIDE DEF t
<1> QED  BY <1>2, <1>3, HandshakeGoes DEF t

LEMMA HandshakeFlushedGoes ==
  ASSUME NEW s, NEW H, NEW ec, Counted(s, H), HANDSHAKE \in H
  PROVE  Goes(s, HandshakeFlushed(s, ec), H \ {HANDSHAKE})
<1> DEFINE r == Resumed(s, ec)
           p == IF s.connected THEN "settle" ELSE "connect"
           K == H \ {HANDSHAKE}
<1>1. Same(s, r) /\ Counted(r, H)
  BY AskedSame, SameGoes DEF Counted, Goes
<1>2. SameOutput(s, r) /\ r.sends = s.sends /\ (Placed(s, K) => Placed(r, K))
  BY <1>1 DEF Same, SameCounts, Placed
<1> HIDE DEF r, K
<1>3. CASE OpError(s, ec) # "ok"
  <2>1. HandshakeFlushed(s, ec) = HandshakeEnds(r, OpError(s, ec))
    BY <1>3 DEF HandshakeFlushed, r
  <2>2. Goes(r, HandshakeEnds(r, OpError(s, ec)), K)
    BY <1>1, HandshakeEndsGoes DEF K
  <2> QED  BY <1>2, <2>1, <2>2 DEF Goes, SameOutput, K
<1>4. CASE OpError(s, ec) = "ok"
  <2>1. HandshakeFlushed(s, ec) = AwaitTimer([r EXCEPT !.handshake = p], "handshake")
    BY <1>4 DEF HandshakeFlushed, r
  <2>2. Goes(r, AwaitTimer([r EXCEPT !.handshake = p], "handshake"), K)
    BY <1>1, AwaitHandshakeGoes DEF K
  <2> QED  BY <1>2, <2>1, <2>2 DEF Goes, SameOutput, K
<1> QED  BY <1>3, <1>4

LEMMA KeepaliveEndsGoes ==
  ASSUME NEW s, NEW H, Counted(s, H), KEEPALIVE \in H
  PROVE  Goes(s, KeepaliveEnds(s), H \ {KEEPALIVE})
<1> DEFINE t == KeepaliveEnds(s)
<1>1. HasFields(s)
  BY DEF Counted
<1>2. t.timers = s.timers /\ t.keepaliveCalls = s.keepaliveCalls + 1
  BY <1>1 DEF KeepaliveEnds, HasFields
<1>3. Same([s EXCEPT !.timers = t.timers, !.keepaliveCalls = t.keepaliveCalls,
                     !.keepalive = t.keepalive], t)
  BY <1>1 DEF KeepaliveEnds, Same, SameCounts, SameOutput, HasFields
<1> HIDE DEF t
<1> QED  BY <1>2, <1>3, KeepaliveGoes DEF t

LEMMA KeepaliveSentGoes ==
  ASSUME NEW s, NEW H, NEW ec, Counted(s, H), KEEPALIVE \in H
  PROVE  Goes(s, KeepaliveSent(s, ec), H \ {KEEPALIVE})
<1> DEFINE r == Resumed(s, ec)
           K == H \ {KEEPALIVE}
<1>1. Same(s, r) /\ Counted(r, H)
  BY AskedSame, SameGoes DEF Counted, Goes
<1>2. SameOutput(s, r) /\ r.sends = s.sends /\ (Placed(s, K) => Placed(r, K))
  BY <1>1 DEF Same, SameCounts, Placed
<1> HIDE DEF r, K
<1>3. CASE OpError(s, ec) # "ok"
  <2>1. KeepaliveSent(s, ec) = KeepaliveEnds(r)
    BY <1>3 DEF KeepaliveSent, r
  <2>2. Goes(r, KeepaliveEnds(r), K)
    BY <1>1, KeepaliveEndsGoes DEF K
  <2> QED  BY <1>2, <2>1, <2>2 DEF Goes, SameOutput, K
<1>4. CASE OpError(s, ec) = "ok"
  <2> DEFINE t == AwaitTimer([r EXCEPT !.keepalive = "timer"], "keepalive")
  <2>1. KeepaliveSent(s, ec) = t
    BY <1>4 DEF KeepaliveSent, r
  <2>2. HasFields(r)
    BY <1>1 DEF Counted
  <2>3. /\ t.timers = r.timers \cup {"keepalive"}
        /\ t.keepaliveCalls = r.keepaliveCalls /\ t.keepalive # "idle"
    BY <2>2 DEF AwaitTimer, HasFields
  <2>4. Same([r EXCEPT !.timers = t.timers, !.keepaliveCalls = t.keepaliveCalls,
                       !.keepalive = t.keepalive], t)
    BY <2>2 DEF AwaitTimer, Same, SameCounts, SameOutput, HasFields
  <2> HIDE DEF t
  <2>5. Goes(r, t, K)
    BY <1>1, <2>3, <2>4, KeepaliveGoes DEF K
  <2> QED  BY <1>2, <2>1, <2>5 DEF Goes, SameOutput, K
<1> QED  BY <1>3, <1>4

(***************************************************************************)
(* What goes through the outbox.  A handler in hand is not in it.          *)
(***************************************************************************)
LEMMA HandlerKinds ==
  ASSUME NEW h \in Handlers
  PROVE  \/ \E i \in 1 .. MaxSends : h = Send(i) /\ h.op = "send" /\ h.id = i
         \/ h = HANDSHAKE /\ h.op = "handshake"
         \/ h = KEEPALIVE /\ h.op = "keepalive"
         \/ h = PUMP /\ h.op = "pump"
BY DEF Handlers, Send, HANDSHAKE, KEEPALIVE, PUMP

InHand(s, h) ==
  /\ Outbox(s) /\ h \notin Held(s)
  /\ Counted(s, Held(s) \cup {h}) /\ Placed(s, Held(s))

\* The handlers that may still be in the outbox, now or later.
Room(s) == Len(s.outbox) + (MaxSends - s.sends)

LEMMA WholeRoom ==
  ASSUME NEW s, Whole(s)
  PROVE  Len(s.outbox) \in Nat /\ s.sends \in 0 .. MaxSends /\ Room(s) \in Nat
<1>1. Len(s.outbox) \in Nat
  BY LenProperties DEF Whole, Outbox
<1>2. s.sends \in 0 .. MaxSends
  BY DEF Whole, Counted, SendsCounted
<1> QED  BY <1>1, <1>2, BoundsAssumption DEF Room

LEMMA GoesWhole ==
  ASSUME NEW s, NEW t, Outbox(s), Placed(s, Held(s)), Goes(s, t, Held(s))
  PROVE  Whole(t) /\ Keeps(s, t)
BY DEF Goes, SameOutput, Whole, Outbox, Held, AtFront, Keeps

LEMMA SameInHand ==
  ASSUME NEW s, NEW t, NEW h, InHand(s, h), Same(s, t)
  PROVE  InHand(t, h) /\ Held(t) = Held(s) /\ Keeps(s, t)
<1>1. Held(t) = Held(s) /\ Outbox(t) /\ Keeps(s, t)
  BY DEF InHand, Same, SameOutput, Held, Outbox, AtFront, Keeps
<1>2. Counted(t, Held(s) \cup {h}) /\ Placed(t, Held(s))
  BY SameCountsKeep DEF InHand, Same
<1> QED  BY <1>1, <1>2 DEF InHand

LEMMA SameWhole ==
  ASSUME NEW s, NEW t, Whole(s), Same(s, t)
  PROVE  Whole(t) /\ Keeps(s, t)
<1>1. Held(t) = Held(s) /\ Outbox(t) /\ Keeps(s, t)
  BY DEF Whole, Same, SameOutput, Held, Outbox, AtFront, Keeps
<1>2. Counted(t, Held(s)) /\ Placed(t, Held(s))
  BY SameCountsKeep DEF Whole, Same
<1> QED  BY <1>1, <1>2 DEF Whole

\* The handler in hand is called, or put away, and nothing else.
LEMMA GoesFromHand ==
  ASSUME NEW s, NEW t, NEW h, InHand(s, h), Goes(s, t, (Held(s) \cup {h}) \ {h})
  PROVE  Whole(t) /\ SameOutput(s, t) /\ t.sends = s.sends /\ Keeps(s, t)
<1>1. (Held(s) \cup {h}) \ {h} = Held(s)
  BY DEF InHand
<1>2. Goes(s, t, Held(s))
  BY <1>1
<1> QED  BY <1>2, GoesWhole DEF InHand, Goes

LEMMA KeepsInHand ==
  ASSUME NEW s, NEW t, NEW h, InHand(s, h), Goes(s, t, Held(s) \cup {h}),
         \A K : Placed(s, K) => Placed(t, K)
  PROVE  InHand(t, h) /\ Held(t) = Held(s) /\ Keeps(s, t)
BY DEF InHand, Goes, SameOutput, Held, Outbox, AtFront, Keeps

\* t is s with the handler in hand at the end of the outbox.
Queued(s, t, h) ==
  /\ SameCounts(s, t) /\ t.outbox = Append(s.outbox, h)
  /\ t.writing = s.writing /\ t.nested = s.nested

LEMMA QueuedWhole ==
  ASSUME NEW s, NEW t, NEW h \in Handlers, InHand(s, h), Placed(s, Held(s) \cup {h}),
         Queued(s, t, h)
  PROVE  /\ Whole(t) /\ Len(t.outbox) = Len(s.outbox) + 1 /\ t.outbox # << >>
         /\ Len(t.outbox) # 1 => Keeps(s, t)
         /\ Len(t.outbox) = 1 /\ AtFront(s) => t.nested \/ t.writing = << >>
<1>1. s.outbox \in Seq(Handlers) /\ Len(s.outbox) \in Nat
  BY LenProperties DEF InHand, Outbox
<1>2. /\ t.outbox \in Seq(Handlers) /\ Len(t.outbox) = Len(s.outbox) + 1
      /\ \A i \in 1 .. Len(s.outbox) : t.outbox[i] = s.outbox[i]
      /\ t.outbox[Len(s.outbox) + 1] = h
  BY <1>1, AppendProperties DEF Queued
<1>3. Held(t) = Held(s) \cup {h}
  <2>1. ASSUME NEW i \in 1 .. Len(t.outbox)
        PROVE  t.outbox[i] \in Held(s) \cup {h}
    <3>1. i \in 1 .. Len(s.outbox) \/ i = Len(s.outbox) + 1
      BY <1>1, <1>2
    <3> QED  BY <1>2, <3>1 DEF Held
  <2>2. \A i \in 1 .. Len(s.outbox) :
          i \in 1 .. Len(t.outbox) /\ t.outbox[i] = s.outbox[i]
    BY <1>1, <1>2
  <2>3. Len(s.outbox) + 1 \in 1 .. Len(t.outbox)
    BY <1>1, <1>2
  <2> QED  BY <1>2, <2>1, <2>2, <2>3 DEF Held
<1>4. ASSUME NEW i \in 1 .. Len(t.outbox), NEW j \in 1 .. Len(t.outbox),
             t.outbox[i] = t.outbox[j]
      PROVE  i = j
  <2>1. /\ i \in 1 .. Len(s.outbox) \/ i = Len(s.outbox) + 1
        /\ j \in 1 .. Len(s.outbox) \/ j = Len(s.outbox) + 1
    BY <1>1, <1>2
  <2>2. \A k \in 1 .. Len(s.outbox) : s.outbox[k] # h
    BY DEF InHand, Held
  <2>3. CASE i \in 1 .. Len(s.outbox) /\ j \in 1 .. Len(s.outbox)
    BY <1>2, <1>4, <2>3 DEF InHand, Outbox
  <2> QED  BY <1>2, <1>4, <2>1, <2>2, <2>3
<1>5. Counted(t, Held(t)) /\ Placed(t, Held(t))
  BY <1>3, SameCountsKeep DEF InHand, Queued
<1>6. Whole(t)
  BY <1>2, <1>4, <1>5 DEF Whole, Outbox
<1>7. t.outbox # << >>
  BY <1>1, <1>2
<1>8. ASSUME Len(t.outbox) # 1 PROVE Keeps(s, t)
  <2>1. s.outbox # << >>
    BY <1>1, <1>2, <1>8, EmptySeq
  <2>2. Head(t.outbox) = Head(s.outbox)
    BY <1>1, <1>2, <2>1
  <2> QED  BY <1>7, <2>1, <2>2 DEF Queued, AtFront, Keeps
<1>9. ASSUME Len(t.outbox) = 1, AtFront(s) PROVE t.nested \/ t.writing = << >>
  <2>1. s.outbox = << >>
    BY <1>1, <1>2, <1>9, EmptySeq
  <2> QED  BY <1>9, <2>1 DEF Queued, AtFront
<1> QED  BY <1>2, <1>6, <1>7, <1>8, <1>9

LEMMA BeginWriteWhole ==
  ASSUME NEW s, Whole(s), s.outbox # << >>
  PROVE  LET t == BeginWrite(s) IN
         /\ Whole(t) /\ SameCounts(s, t) /\ t.outbox = s.outbox /\ t.nested = s.nested
         /\ s.nested \/ s.writing = << >> => AtFront(t)
<1> DEFINE t == BeginWrite(s)
<1>1. HasFields(s)
  BY DEF Whole, Counted
<1>2. /\ SameCounts(s, t) /\ t.outbox = s.outbox /\ t.nested = s.nested
      /\ t.writing = Append(s.writing, Head(s.outbox))
  BY <1>1 DEF BeginWrite, SameCounts, HasFields
<1> HIDE DEF t
<1>3. Counted(t, Held(s)) /\ Placed(t, Held(s))
  BY <1>2, SameCountsKeep DEF Whole
<1>4. Held(t) = Held(s) /\ Outbox(t)
  BY <1>2 DEF Whole, Held, Outbox
<1>5. s.writing = << >> => t.writing = <<Head(s.outbox)>>
  BY <1>2
<1> QED  BY <1>2, <1>3, <1>4, <1>5 DEF Whole, AtFront, t

(***************************************************************************)
(* Sends.                                                                  *)
(***************************************************************************)
\* The next send in hand.
LEMMA NextSendInHand ==
  ASSUME NEW s, Whole(s), s.sends < MaxSends
  PROVE  LET i == s.sends + 1
             t == [s EXCEPT !.sends = i]
         IN  /\ i \in 1 .. MaxSends /\ Send(i) \in Handlers /\ HasFields(t) /\ SameOutput(s, t)
             /\ InHand(t, Send(i)) /\ Placed(t, Held(t) \cup {Send(i)}) /\ Keeps(s, t)
<1> DEFINE i == s.sends + 1
           begun == [s EXCEPT !.sends = i]
           h == Send(i)
           K == Held(s) \cup {h}
<1>1. /\ HasFields(s) /\ s.sends \in 0 .. MaxSends
      /\ s.sendCalls \in [1 .. MaxSends -> Nat]
  BY DEF Whole, Counted, SendsCounted
<1>2. i \in 1 .. MaxSends /\ h \in Handlers
  BY <1>1, BoundsAssumption DEF Handlers
<1>3. /\ HasFields(begun) /\ SameOutput(s, begun)
      /\ begun.sends = i /\ begun.sendCalls = s.sendCalls
      /\ begun.receives = s.receives /\ begun.waiting = s.waiting
      /\ begun.receiveCalls = s.receiveCalls
      /\ begun.timers = s.timers
      /\ begun.handshakes = s.handshakes /\ begun.handshakeCalls = s.handshakeCalls
      /\ begun.keepalives = s.keepalives /\ begun.keepaliveCalls = s.keepaliveCalls
      /\ begun.reading = s.reading /\ begun.pumpRunning = s.pumpRunning
      /\ begun.handshake = s.handshake /\ begun.keepalive = s.keepalive
  BY <1>1 DEF SameOutput, HasFields
<1>4. h \notin Held(s)
  BY <1>1, <1>2 DEF Whole, Counted, SendsCounted
<1>5. /\ \A j : Send(j) \in K <=> Send(j) \in Held(s) \/ j = i
      /\ HANDSHAKE \in K <=> HANDSHAKE \in Held(s)
      /\ KEEPALIVE \in K <=> KEEPALIVE \in Held(s)
      /\ PUMP \in K <=> PUMP \in Held(s)
  BY DEF Send, HANDSHAKE, KEEPALIVE, PUMP
<1> HIDE DEF begun, K, h
<1>6. SendsCounted(begun, K)
  <2>1. ASSUME NEW j \in 1 .. MaxSends
        PROVE  /\ Send(j) \in K => j <= i
               /\ s.sendCalls[j] = IF j <= i /\ Send(j) \notin K THEN 1 ELSE 0
    <3>1. /\ Send(j) \in Held(s) => j <= s.sends
          /\ s.sendCalls[j] = IF j <= s.sends /\ Send(j) \notin Held(s) THEN 1 ELSE 0
      BY DEF Whole, Counted, SendsCounted
    <3> QED  BY <1>1, <1>5, <3>1
  <2> QED  BY <1>1, <1>2, <1>3, <2>1 DEF SendsCounted
<1>7. ReceivesCounted(begun)
  BY <1>3, ReceivesSame DEF Whole, Counted
<1>8. HandshakesCounted(begun, K) /\ KeepalivesCounted(begun, K)
  BY <1>3, <1>5 DEF Whole, Counted, HandshakesCounted, KeepalivesCounted
<1>9. PumpCounted(begun, K)
  BY <1>3, <1>5 DEF Whole, Counted, PumpCounted
<1>10. Held(begun) = Held(s) /\ Keeps(s, begun)
  BY <1>3 DEF SameOutput, Held, AtFront, Keeps
<1>11. Counted(begun, K)
  BY <1>3, <1>6, <1>7, <1>8, <1>9 DEF Counted
<1>12. InHand(begun, h) /\ Placed(begun, K)
  BY <1>3, <1>4, <1>5, <1>10, <1>11 DEF InHand, Whole, Outbox, SameOutput, Placed, K
<1> QED  BY <1>2, <1>3, <1>10, <1>12 DEF begun, h, K

LEMMA SendNextWhole ==
  ASSUME NEW s, Whole(s), s.sends < MaxSends
  PROVE  LET t == SendNext(s) IN
         /\ Whole(t) /\ Keeps(s, t) /\ t.nested = s.nested
         /\ Room(t) = Room(s) /\ SameReads(s, t)
<1> DEFINE i == s.sends + 1
           begun == [s EXCEPT !.sends = i]
           queued == [s EXCEPT !.sends = i, !.outbox = Append(@, Send(i))]
           t == SendNext(s)
<1>1. HasFields(s)
  BY DEF Whole, Counted
<1>2. Queued(begun, queued, Send(i))
  BY <1>1 DEF Queued, SameCounts, HasFields
<1>3. queued.sends = i /\ queued.nested = s.nested /\ SameReads(s, queued)
  BY <1>1 DEF HasFields, SameReads
<1>4. t = IF Len(queued.outbox) = 1 THEN BeginWrite(queued) ELSE queued
  BY DEF SendNext
<1> HIDE DEF queued, t
<1>5. /\ Send(i) \in Handlers /\ SameOutput(s, begun)
      /\ InHand(begun, Send(i)) /\ Placed(begun, Held(begun) \cup {Send(i)}) /\ Keeps(s, begun)
  BY NextSendInHand
<1> HIDE DEF begun
<1>6. /\ Whole(queued) /\ Len(queued.outbox) = Len(s.outbox) + 1 /\ queued.outbox # << >>
      /\ Len(queued.outbox) # 1 => Keeps(s, queued)
      /\ Len(queued.outbox) = 1 /\ AtFront(s) => queued.nested \/ queued.writing = << >>
  <2> HIDE DEF i
  <2> QED  BY <1>2, <1>5, QueuedWhole DEF Keeps, SameOutput
<1>7. Room(queued) = Room(s)
  <2>1. s.sends \in 0 .. MaxSends /\ Len(s.outbox) \in Nat
    BY WholeRoom
  <2> QED  BY <1>3, <1>6, <2>1, BoundsAssumption, SMTT(30) DEF Room
<1>8. CASE Len(queued.outbox) = 1
  <2>1. t = BeginWrite(queued)
    BY <1>4, <1>8
  <2>2. /\ Whole(t) /\ SameCounts(queued, t) /\ t.outbox = queued.outbox
        /\ t.nested = queued.nested
        /\ queued.nested \/ queued.writing = << >> => AtFront(t)
    BY <1>6, <2>1, BeginWriteWhole
  <2>3. SameReads(s, t) /\ Room(t) = Room(s)
    BY <1>3, <1>7, <2>2 DEF SameCounts, SameReads, Room
  <2> QED  BY <1>3, <1>6, <1>8, <2>2, <2>3 DEF Keeps, t
<1>9. CASE Len(queued.outbox) # 1
  BY <1>3, <1>4, <1>6, <1>7, <1>9 DEF t
<1> QED  BY <1>8, <1>9

LEMMA LastRefusedFollows ==
  ASSUME NEW i \in 1 .. MaxSends
  PROVE  LastRefused(i) \in i .. MaxSends
<1> DEFINE S == {j \in i .. MaxSends : ~ Retries(j)}
<1>1. MaxSends \in S /\ S \subseteq Nat
  BY BoundsAssumption DEF Retries
<1> HIDE DEF S
<1>2. PICK x \in S : \A y \in S : ~ (<<y, x>> \in OpToRel(<, Nat))
  BY <1>1, WFMin, NatLessThanWellFounded
<1>3. \A y \in S : ~ (y < x)
  BY <1>1, <1>2 DEF OpToRel
<1>4. \A y \in S : x <= y
  BY <1>1, <1>3
<1>5. Min(S) \in S
  BY <1>4 DEF Min
<1> QED  BY <1>5 DEF LastRefused, S

\* The next sends, as far as last, have been refused.
Refused(s, last) ==
  [Asked(s) EXCEPT
     !.sends = last,
     !.sendCalls = [j \in 1 .. MaxSends |->
                      @[j] + (IF j \in s.sends + 1 .. last THEN 1 ELSE 0)]]

LEMMA RefusedWhole ==
  ASSUME NEW s, Whole(s), s.sends < MaxSends, NEW last \in s.sends + 1 .. MaxSends
  PROVE  LET t == Refused(s, last) IN
         /\ Whole(t) /\ SameOutput(s, t) /\ t.sends = last /\ SameReads(s, t)
<1> DEFINE H == Held(s)
           calls == [j \in 1 .. MaxSends |->
                       s.sendCalls[j] + (IF j \in s.sends + 1 .. last THEN 1 ELSE 0)]
           t == Refused(s, last)
<1>1. /\ HasFields(s) /\ s.sends \in 0 .. MaxSends
      /\ s.sendCalls \in [1 .. MaxSends -> Nat]
  BY DEF Whole, Counted, SendsCounted
<1>2. /\ HasFields(t) /\ SameOutput(s, t)
      /\ t.sends = last /\ t.sendCalls = calls
      /\ t.receives = s.receives /\ t.waiting = s.waiting
      /\ t.receiveCalls = s.receiveCalls
      /\ t.timers = s.timers
      /\ t.handshakes = s.handshakes /\ t.handshakeCalls = s.handshakeCalls
      /\ t.keepalives = s.keepalives /\ t.keepaliveCalls = s.keepaliveCalls
      /\ t.reading = s.reading /\ t.pumpRunning = s.pumpRunning
      /\ t.handshake = s.handshake /\ t.keepalive = s.keepalive
  BY <1>1 DEF Refused, Asked, SameOutput, HasFields
<1> HIDE DEF t
<1>3. SendsCounted(t, H)
  <2>1. ASSUME NEW j \in 1 .. MaxSends
        PROVE  /\ Send(j) \in H => j <= last
               /\ calls[j] \in Nat
               /\ calls[j] = IF j <= last /\ Send(j) \notin H THEN 1 ELSE 0
    <3>1. /\ Send(j) \in H => j <= s.sends
          /\ s.sendCalls[j] = IF j <= s.sends /\ Send(j) \notin H THEN 1 ELSE 0
      BY DEF Whole, Counted, SendsCounted
    <3>2. calls[j] = s.sendCalls[j] + (IF j \in s.sends + 1 .. last THEN 1 ELSE 0)
      OBVIOUS
    <3> HIDE DEF calls, H
    <3>3. CASE j <= s.sends
      BY <1>1, <3>1, <3>2, <3>3
    <3>4. CASE j > s.sends
      BY <1>1, <3>1, <3>2, <3>4
    <3> QED  BY <1>1, <3>3, <3>4
  <2>2. calls \in [1 .. MaxSends -> Nat]
    BY <2>1
  <2>3. last \in 0 .. MaxSends
    BY <1>1
  <2> HIDE DEF calls, H
  <2> QED  BY <1>2, <2>1, <2>2, <2>3 DEF SendsCounted
<1>4. ReceivesCounted(t)
  BY <1>2, ReceivesSame DEF Whole, Counted
<1>5. HandshakesCounted(t, H) /\ KeepalivesCounted(t, H)
  BY <1>2 DEF Whole, Counted, HandshakesCounted, KeepalivesCounted
<1>6. PumpCounted(t, H)
  BY <1>2 DEF Whole, Counted, PumpCounted
<1>7. Placed(t, H) /\ Held(t) = H /\ Outbox(t)
  BY <1>2 DEF Whole, Placed, SameOutput, Held, Outbox
<1> QED  BY <1>2, <1>3, <1>4, <1>5, <1>6, <1>7 DEF Whole, Counted, SameReads, t

LEMMA AsyncSendWhole ==
  ASSUME NEW s, Whole(s), s.sends < MaxSends
  PROVE  LET t == AsyncSend(s) IN
         /\ Whole(t) /\ Keeps(s, t) /\ t.nested = s.nested
         /\ Room(t) <= Room(s) /\ SameReads(s, t)
<1> DEFINE i == s.sends + 1
           last == IF s.open THEN i ELSE LastRefused(i)
           asked == Asked(s)
           refused == Refused(s, last)
<1>1. AsyncSend(s) = IF PumpError(s) = "ok" THEN SendNext(asked)
                     ELSE IF s.open /\ Retries(i) THEN SendNext(refused)
                     ELSE refused
  BY DEF AsyncSend, Refused
<1>2. /\ HasFields(s) /\ s.sends \in 0 .. MaxSends /\ Room(s) \in Nat
      /\ Len(s.outbox) \in Nat
  BY WholeRoom DEF Whole, Counted
<1>3. i \in 1 .. MaxSends
  BY <1>2, BoundsAssumption
<1>4. last \in s.sends + 1 .. MaxSends
  BY <1>3, LastRefusedFollows
<1>5. /\ Whole(asked) /\ Keeps(s, asked) /\ asked.sends = s.sends /\ asked.nested = s.nested
      /\ Room(asked) = Room(s) /\ SameReads(s, asked)
  <2>1. Same(s, asked)
    BY <1>2, AskedSame
  <2> HIDE DEF asked
  <2> QED  BY <2>1, SameWhole DEF Same, SameCounts, SameOutput, SameReads, Room
<1> HIDE DEF asked
<1>6. Whole(refused) /\ SameOutput(s, refused) /\ refused.sends = last
        /\ SameReads(s, refused)
  BY <1>4, RefusedWhole
<1>7. s.open => refused.sends = i
  BY <1>6
<1>8. Retries(i) => i < MaxSends
  BY DEF Retries
<1> HIDE DEF refused, last
<1>9. Keeps(s, refused) /\ Room(refused) <= Room(s) /\ refused.nested = s.nested
  <2>1. Room(refused) <= Room(s)
    BY <1>2, <1>4, <1>6, BoundsAssumption DEF SameOutput, Room
  <2> QED  BY <1>6, <2>1 DEF SameOutput, Keeps, AtFront
<1>10. CASE PumpError(s) = "ok"
  <2>1. LET t == SendNext(asked) IN
        /\ Whole(t) /\ Keeps(asked, t) /\ t.nested = asked.nested
        /\ Room(t) = Room(asked) /\ SameReads(asked, t)
    BY <1>5, SendNextWhole
  <2> QED  BY <1>1, <1>2, <1>5, <1>10, <2>1 DEF Keeps, SameReads
<1>11. CASE PumpError(s) # "ok" /\ s.open /\ Retries(i)
  <2>1. refused.sends < MaxSends
    BY <1>7, <1>8, <1>11
  <2>2. LET t == SendNext(refused) IN
        /\ Whole(t) /\ Keeps(refused, t) /\ t.nested = refused.nested
        /\ Room(t) = Room(refused) /\ SameReads(refused, t)
    BY <1>6, <2>1, SendNextWhole
  <2> QED  BY <1>1, <1>6, <1>9, <1>11, <2>2 DEF Keeps, SameReads
<1>12. CASE PumpError(s) # "ok" /\ ~ (s.open /\ Retries(i))
  BY <1>1, <1>6, <1>9, <1>12
<1> QED  BY <1>10, <1>11, <1>12

(***************************************************************************)
(* The handler in hand is called.  One that sends does so with nested set, *)
(* or begins no async_write.                                               *)
(***************************************************************************)
\* What calling handlers leaves of nested, writing and Room.
Calls(s, t) ==
  /\ s.nested => t.nested
  /\ t.nested \/ t.writing = s.writing
  /\ Room(t) <= Room(s)

LEMMA SendAgainWhole ==
  ASSUME NEW s, Whole(s), s.sends < MaxSends
  PROVE  LET t == SendAgain(s) IN Whole(t) /\ Calls(s, t)
<1> DEFINE sent == AsyncSend(s)
           t == SendAgain(s)
<1>1. /\ Whole(sent) /\ sent.nested = s.nested
      /\ Room(sent) <= Room(s)
  BY AsyncSendWhole
<1>2. t = [sent EXCEPT !.nested = @ \/ sent.writing # s.writing]
  BY DEF SendAgain
<1> HIDE DEF sent, t
<1>3. HasFields(sent)
  BY <1>1 DEF Whole, Counted
<1>4. /\ SameCounts(sent, t) /\ t.outbox = sent.outbox /\ t.writing = sent.writing
      /\ t.nested = (sent.nested \/ sent.writing # s.writing)
  BY <1>2, <1>3 DEF SameCounts, HasFields
<1>5. Held(t) = Held(sent) /\ Outbox(t)
  BY <1>1, <1>4 DEF Whole, Held, Outbox
<1>6. Counted(t, Held(t)) /\ Placed(t, Held(t))
  BY <1>1, <1>4, <1>5, SameCountsKeep DEF Whole
<1>7. Room(t) = Room(sent)
  BY <1>4 DEF Room, SameCounts
<1> QED  BY <1>1, <1>4, <1>5, <1>6, <1>7 DEF Whole, Calls, t

\* The handler of a send, which may send again.
LEMMA CallSendWhole ==
  ASSUME NEW s, NEW i \in 1 .. MaxSends, NEW Again, InHand(s, Send(i))
  PROVE  LET called == CallSend(s, i)
             t == IF i \in Again /\ MaySend(s) THEN SendAgain(called) ELSE called
         IN  Whole(t) /\ Calls(s, t)
<1> DEFINE called == CallSend(s, i)
           h == Send(i)
           K == Held(s) \cup {h}
           t == IF i \in Again /\ MaySend(s) THEN SendAgain(called) ELSE called
<1>1. Counted(s, K) /\ h \in K
  BY DEF InHand
<1>2. Goes(s, called, K \ {h})
  BY <1>1, CallSendGoes
<1>3. Whole(called) /\ SameOutput(s, called) /\ called.sends = s.sends
  BY <1>2, GoesFromHand
<1> HIDE DEF called, h, K
<1>4. MaySend(s) => called.sends < MaxSends
  BY <1>3 DEF MaySend
<1>5. Room(called) = Room(s) /\ Room(s) \in Nat
  BY <1>3, WholeRoom DEF SameOutput, Room
<1>6. CASE i \in Again /\ MaySend(s)
  <2>1. Whole(t) /\ Calls(called, t)
    BY <1>3, <1>4, <1>6, SendAgainWhole
  <2> QED  BY <1>3, <1>5, <2>1 DEF Calls, SameOutput, called
<1>7. CASE ~ (i \in Again /\ MaySend(s))
  BY <1>3, <1>5, <1>7 DEF Calls, SameOutput, called
<1> QED  BY <1>6, <1>7

\* A handler of the queue's own.
LEMMA OwnWhole ==
  ASSUME NEW s, NEW t, NEW h, InHand(s, h), Goes(s, t, (Held(s) \cup {h}) \ {h})
  PROVE  Whole(t) /\ Calls(s, t) /\ SameOutput(s, t)
<1>1. Whole(t) /\ SameOutput(s, t) /\ t.sends = s.sends
  BY GoesFromHand
<1>2. Room(t) = Room(s) /\ Room(t) \in Nat
  BY <1>1, WholeRoom DEF SameOutput, Room
<1> QED  BY <1>1, <1>2 DEF Calls, SameOutput

\* A handler called with an error.
LEMMA CallWithErrorWhole ==
  ASSUME NEW s, NEW ec, NEW h \in Handlers, InHand(s, h)
  PROVE  LET t == CallWithError(s, h, ec) IN Whole(t) /\ Calls(s, t)
<1> DEFINE K == Held(s) \cup {h}
           t == CallWithError(s, h, ec)
<1>1. Counted(s, K) /\ h \in K
  BY DEF InHand
<1> HIDE DEF K
<1>2. CASE h.op = "send"
  <2>1. PICK i \in 1 .. MaxSends : h = Send(i) /\ h.id = i
    BY <1>2, HandlerKinds
  <2>2. t = LET called == CallSend(s, i) IN
            IF i \in RetriedSends /\ MaySend(s) THEN SendAgain(called) ELSE called
    BY <1>2, <2>1 DEF CallWithError
  <2> HIDE DEF t
  <2> QED  BY <2>1, <2>2, CallSendWhole DEF t
<1>3. CASE h.op = "pump"
  <2>1. h = PUMP /\ t = StopReadPump(s, ec)
    BY <1>3, HandlerKinds DEF CallWithError
  <2>2. Goes(s, t, K \ {h})
    BY <1>1, <2>1, StopReadPumpGoes
  <2> HIDE DEF t
  <2> QED  BY <2>2, OwnWhole DEF K, t
<1>4. CASE h.op = "handshake"
  <2>1. h = HANDSHAKE /\ t = HandshakeFlushed(s, ec)
    BY <1>4, HandlerKinds DEF CallWithError
  <2>2. Goes(s, t, K \ {h})
    BY <1>1, <2>1, HandshakeFlushedGoes
  <2> HIDE DEF t
  <2> QED  BY <2>2, OwnWhole DEF K, t
<1>5. CASE h.op = "keepalive"
  <2>1. h = KEEPALIVE /\ t = KeepaliveSent(s, ec)
    BY <1>5, HandlerKinds DEF CallWithError
  <2>2. Goes(s, t, K \ {h})
    BY <1>1, <2>1, KeepaliveSentGoes
  <2> HIDE DEF t
  <2> QED  BY <2>2, OwnWhole DEF K, t
<1> QED  BY <1>2, <1>3, <1>4, <1>5, HandlerKinds

\* A handler called without an error.
LEMMA CallOKWhole ==
  ASSUME NEW s, NEW h \in Handlers, InHand(s, h)
  PROVE  LET t == CallOK(s, h) IN
         Whole(t) /\ Calls(s, t) /\ (h = PUMP => SameOutput(s, t))
<1> DEFINE K == Held(s) \cup {h}
           t == CallOK(s, h)
<1>1. Counted(s, K) /\ h \in K
  BY DEF InHand
<1> HIDE DEF K
<1>2. CASE h.op = "send"
  <2>1. PICK i \in 1 .. MaxSends : h = Send(i) /\ h.id = i
    BY <1>2, HandlerKinds
  <2>2. t = LET called == CallSend(s, i) IN
            IF i \in ChainedSends /\ MaySend(s) THEN SendAgain(called) ELSE called
    BY <1>2, <2>1 DEF CallOK
  <2>3. h # PUMP
    BY <2>1 DEF Send, PUMP
  <2> HIDE DEF t
  <2> QED  BY <2>1, <2>2, <2>3, CallSendWhole DEF t
<1>3. CASE h.op = "pump"
  <2>1. h = PUMP /\ t = ReadPump(s)
    BY <1>3, HandlerKinds DEF CallOK
  <2>2. Goes(s, t, K \ {h})
    BY <1>1, <2>1, ReadPumpGoes
  <2> HIDE DEF t
  <2> QED  BY <2>2, OwnWhole DEF K, t
<1>4. CASE h.op = "handshake"
  <2>1. h = HANDSHAKE /\ t = HandshakeFlushed(s, "ok")
    BY <1>4, HandlerKinds DEF CallOK
  <2>2. Goes(s, t, K \ {h})
    BY <1>1, <2>1, HandshakeFlushedGoes
  <2> HIDE DEF t
  <2> QED  BY <2>2, OwnWhole DEF K, t
<1>5. CASE h.op = "keepalive"
  <2>1. h = KEEPALIVE /\ t = KeepaliveSent(s, "ok")
    BY <1>5, HandlerKinds DEF CallOK
  <2>2. Goes(s, t, K \ {h})
    BY <1>1, <2>1, KeepaliveSentGoes
  <2> HIDE DEF t
  <2> QED  BY <2>2, OwnWhole DEF K, t
<1> QED  BY <1>2, <1>3, <1>4, <1>5, HandlerKinds

(***************************************************************************)
(* The front is taken from the outbox, and voidOutbox takes all there is.  *)
(***************************************************************************)
\* t is s without the front of its outbox.
Popped(s, t) == SameCounts(s, t) /\ t.outbox = Tail(s.outbox) /\ t.nested = s.nested

LEMMA PoppedInHand ==
  ASSUME NEW s, NEW t, Whole(s), s.outbox # << >>, Popped(s, t)
  PROVE  LET h == Head(s.outbox) IN
         /\ InHand(t, h) /\ h \in Handlers /\ h \in Held(s)
         /\ Placed(t, Held(t) \cup {h})
         /\ Len(t.outbox) = Len(s.outbox) - 1
<1> DEFINE h == Head(s.outbox)
<1>1. /\ h = s.outbox[1] /\ h \in Handlers /\ 1 \in 1 .. Len(s.outbox)
      /\ Tail(s.outbox) \in Seq(Handlers) /\ Len(s.outbox) \in Nat
      /\ Len(Tail(s.outbox)) = Len(s.outbox) - 1
      /\ \A k \in 1 .. Len(Tail(s.outbox)) : Tail(s.outbox)[k] = s.outbox[k + 1]
  <2>1. s.outbox \in Seq(Handlers)
    BY DEF Whole, Outbox
  <2>2. Len(s.outbox) \in Nat /\ Len(s.outbox) # 0
    BY <2>1, EmptySeq, LenProperties
  <2>3. /\ h \in Handlers /\ Tail(s.outbox) \in Seq(Handlers)
        /\ Len(Tail(s.outbox)) = Len(s.outbox) - 1
        /\ \A k \in 1 .. Len(Tail(s.outbox)) : Tail(s.outbox)[k] = s.outbox[k + 1]
    BY <2>1, HeadTailProperties
  <2>4. h = s.outbox[1]
    BY <2>1
  <2> QED  BY <2>2, <2>3, <2>4
<1> HIDE DEF h
<1>2. \A k \in 1 .. Len(Tail(s.outbox)) : k + 1 \in 1 .. Len(s.outbox) /\ k + 1 # 1
  BY <1>1
<1>3. \A i, j \in 1 .. Len(s.outbox) : s.outbox[i] = s.outbox[j] => i = j
  BY DEF Whole, Outbox
<1>4. Outbox(t)
  <2>1. ASSUME NEW i \in 1 .. Len(Tail(s.outbox)), NEW j \in 1 .. Len(Tail(s.outbox)),
               Tail(s.outbox)[i] = Tail(s.outbox)[j]
        PROVE  i = j
    <3>1. i + 1 = j + 1
      BY <1>1, <1>2, <1>3, <2>1
    <3> QED  BY <3>1
  <2> QED  BY <1>1, <2>1 DEF Outbox, Popped
<1>5. h \notin Held(t) /\ Held(t) \cup {h} = Held(s)
  <2>1. h \notin Held(t)
    BY <1>1, <1>2, <1>3 DEF Held, Popped
  <2>2. Held(t) \subseteq Held(s) /\ h \in Held(s)
    BY <1>1, <1>2 DEF Held, Popped
  <2>3. ASSUME NEW g \in Held(s) PROVE g \in Held(t) \/ g = h
    <3>1. PICK k \in 1 .. Len(s.outbox) : s.outbox[k] = g
      BY DEF Held
    <3>2. CASE k = 1
      BY <1>1, <3>1, <3>2
    <3>3. CASE k # 1
      <4>1. k - 1 \in 1 .. Len(Tail(s.outbox)) /\ (k - 1) + 1 = k
        BY <1>1, <3>3
      <4>2. Tail(s.outbox)[k - 1] = g
        BY <1>1, <3>1, <4>1
      <4> QED  BY <4>1, <4>2 DEF Held, Popped
    <3> QED  BY <3>2, <3>3
  <2> QED  BY <2>1, <2>2, <2>3
<1>6. InHand(t, h) /\ Placed(t, Held(s))
  <2>1. Counted(t, Held(s)) /\ Placed(t, Held(s))
    BY SameCountsKeep DEF Whole, Popped
  <2>2. Placed(t, Held(t))
    BY <1>5, <2>1 DEF Placed
  <2> QED  BY <1>4, <1>5, <2>1, <2>2 DEF InHand
<1> QED  BY <1>1, <1>5, <1>6 DEF h, Popped

LEMMA VoidFrontWhole ==
  ASSUME NEW s, NEW ec, Whole(s)
  PROVE  LET t == VoidFront(s, ec) IN
         /\ Whole(t) /\ Calls(s, t)
         /\ t.outbox = << >> \/ Room(t) + 1 <= Room(s)
<1> DEFINE t == VoidFront(s, ec)
<1>1. CASE s.outbox = << >>
  <2>1. t = s
    BY <1>1 DEF VoidFront
  <2> QED  BY <1>1, <2>1, WholeRoom DEF Calls
<1>2. CASE s.outbox # << >>
  <2> DEFINE popped == [s EXCEPT !.outbox = Tail(@)]
             h == Head(s.outbox)
  <2>1. t = CallWithError(popped, h, ec)
    BY <1>2 DEF VoidFront
  <2>2. Popped(s, popped) /\ popped.writing = s.writing /\ popped.sends = s.sends
    BY DEF Whole, Counted, Popped, SameCounts, HasFields
  <2> HIDE DEF popped, t
  <2>3. InHand(popped, h) /\ h \in Handlers /\ Len(popped.outbox) = Len(s.outbox) - 1
    BY <1>2, <2>2, PoppedInHand
  <2> HIDE DEF h
  <2>4. Whole(t) /\ Calls(popped, t)
    BY <2>1, <2>3, CallWithErrorWhole
  <2>5. Room(popped) + 1 = Room(s) /\ Room(popped) \in Int /\ Room(t) \in Nat
    <3>1. Len(s.outbox) \in Nat /\ s.sends \in 0 .. MaxSends
      BY WholeRoom
    <3>2. Room(t) \in Nat
      BY <2>4, WholeRoom
    <3> QED  BY <2>2, <2>3, <3>1, <3>2, BoundsAssumption DEF Room
  <2> QED  BY <2>2, <2>4, <2>5 DEF Calls, Popped, t
<1> QED  BY <1>1, <1>2

TurnsTo(s, ec, g, n) ==
  g = [i \in 0 .. n |-> IF i = 0 THEN s ELSE VoidFront(g[i - 1], ec)]

LEMMA TurnsToExists ==
  ASSUME NEW s, NEW ec
  PROVE  \A n \in Nat : \E g : TurnsTo(s, ec, g, n)
<1> DEFINE T == {n \in Nat : \E g : TurnsTo(s, ec, g, n)}
<1>1. 0 \in T
  <2>1. TurnsTo(s, ec, [i \in 0 .. 0 |-> s], 0)
    BY DEF TurnsTo
  <2> QED  BY <2>1
<1>2. ASSUME NEW n \in Nat, n \in T PROVE n + 1 \in T
  <2>1. PICK g : TurnsTo(s, ec, g, n)
    BY <1>2
  <2> DEFINE h == [i \in 0 .. n + 1 |-> IF i <= n THEN g[i] ELSE VoidFront(g[n], ec)]
  <2>2. \A i \in 0 .. n : g[i] = IF i = 0 THEN s ELSE VoidFront(g[i - 1], ec)
    BY <2>1 DEF TurnsTo
  <2>3. \A i \in 0 .. n + 1 : h[i] = IF i = 0 THEN s ELSE VoidFront(h[i - 1], ec)
    <3> TAKE i \in 0 .. n + 1
    <3>1. CASE i = 0
      BY <3>1, <2>2
    <3>2. CASE i \in 1 .. n
      <4>1. h[i] = g[i] /\ h[i - 1] = g[i - 1]
        BY <3>2
      <4> QED  BY <3>2, <4>1, <2>2
    <3>3. CASE i = n + 1
      <4>1. h[i] = VoidFront(g[n], ec) /\ h[i - 1] = g[n]
        BY <3>3
      <4> QED  BY <3>3, <4>1
    <3> QED  BY <3>1, <3>2, <3>3
  <2>4. TurnsTo(s, ec, h, n + 1)
    BY <2>3 DEF TurnsTo
  <2> QED  BY <2>4
<1>3. Nat \subseteq T
  <2> HIDE DEF T
  <2> QED  BY <1>1, <1>2, SetInduction
<1> QED  BY <1>3

LEMMA VoidOutboxTurns ==
  ASSUME NEW s, NEW ec, Room(s) \in Nat
  PROVE  \E g :
           /\ g[0] = s
           /\ \A n \in 1 .. Room(s) : g[n] = VoidFront(g[n - 1], ec)
           /\ VoidOutbox(s, ec) = g[Room(s)]
<1> DEFINE turns == Room(s)
           g == CHOOSE f : TurnsTo(s, ec, f, turns)
<1>1. TurnsTo(s, ec, g, turns)
  BY TurnsToExists
<1>2. VoidOutbox(s, ec) = g[turns]
  BY DEF VoidOutbox, TurnsTo, Room
<1> HIDE DEF g, turns
<1>3. turns \in Nat
  BY DEF turns
<1>4. \A i \in 0 .. turns : g[i] = IF i = 0 THEN s ELSE VoidFront(g[i - 1], ec)
  BY <1>1 DEF TurnsTo
<1>5. g[0] = s /\ \A n \in 1 .. turns : g[n] = VoidFront(g[n - 1], ec)
  BY <1>3, <1>4
<1> QED  BY <1>2, <1>5 DEF turns

\* Whatever the handlers send, the outbox is empty in the end.
LEMMA VoidOutboxWhole ==
  ASSUME NEW s, NEW ec, Whole(s)
  PROVE  LET t == VoidOutbox(s, ec) IN
         Whole(t) /\ Calls(s, t) /\ t.outbox = << >>
<1> DEFINE turns == Room(s)
<1>1. turns \in Nat
  BY WholeRoom
<1> HIDE DEF turns
<1>2. PICK g :
        /\ g[0] = s
        /\ \A n \in 1 .. turns : g[n] = VoidFront(g[n - 1], ec)
        /\ VoidOutbox(s, ec) = g[turns]
  BY <1>1, VoidOutboxTurns DEF turns
<1> DEFINE Now(n) == /\ Whole(g[n]) /\ Calls(s, g[n])
                     /\ g[n].outbox = << >> \/ Room(g[n]) <= turns - n
           T == {n \in Nat : n <= turns => Now(n)}
<1>3. 0 \in T
  BY <1>1, <1>2 DEF Calls, turns
<1>4. ASSUME NEW n \in Nat, n \in T PROVE n + 1 \in T
  <2> SUFFICES ASSUME n + 1 <= turns PROVE Now(n + 1)
    OBVIOUS
  <2> DEFINE f == g[n]
             t == g[n + 1]
  <2>1. Now(n) /\ n + 1 \in 1 .. turns /\ (n + 1) - 1 = n
    BY <1>1, <1>4
  <2>2. t = VoidFront(f, ec)
    BY <1>2, <2>1
  <2>3. Whole(f) /\ Calls(s, f) /\ (f.outbox = << >> \/ Room(f) <= turns - n)
    BY <2>1
  <2> HIDE DEF f, t
  <2>4. Whole(t) /\ Calls(f, t) /\ (t.outbox = << >> \/ Room(t) + 1 <= Room(f))
    BY <2>2, <2>3, VoidFrontWhole
  <2>5. Room(s) \in Nat /\ Room(f) \in Nat /\ Room(t) \in Nat
    BY <2>3, <2>4, WholeRoom
  <2>6. Calls(s, t)
    BY <2>3, <2>4, <2>5 DEF Calls
  <2>7. t.outbox = << >> \/ Room(t) <= turns - (n + 1)
    <3>1. CASE f.outbox = << >>
      BY <2>2, <3>1 DEF VoidFront
    <3>2. CASE f.outbox # << >>
      BY <1>1, <2>3, <2>4, <2>5, <3>2
    <3> QED  BY <3>1, <3>2
  <2> QED  BY <2>4, <2>6, <2>7 DEF t
<1>5. Nat \subseteq T
  <2> HIDE DEF T
  <2> QED  BY <1>3, <1>4, SetInduction
<1>6. Now(turns)
  BY <1>1, <1>5
<1>7. g[turns].outbox = << >>
  <2> DEFINE t == g[turns]
  <2>1. Whole(t) /\ (t.outbox = << >> \/ Room(t) <= 0)
    BY <1>1, <1>6
  <2> HIDE DEF t
  <2>2. Len(t.outbox) = 0 \/ t.outbox = << >>
    BY <2>1, WholeRoom, BoundsAssumption DEF Room
  <2>3. t.outbox \in Seq(Handlers)
    BY <2>1 DEF Whole, Outbox
  <2> QED  BY <2>2, <2>3, EmptySeq DEF t
<1> QED  BY <1>2, <1>6, <1>7

LEMMA WritePumpWhole ==
  ASSUME NEW s, Whole(s)
  PROVE  LET t == WritePump(s) IN
         /\ Whole(t) /\ (s.nested => t.nested)
         /\ s.nested \/ s.writing = << >> => AtFront(t)
<1> DEFINE t == WritePump(s)
<1>1. CASE s.outbox = << >>
  BY <1>1 DEF WritePump, AtFront
<1>2. CASE s.outbox # << >> /\ s.open
  <2>1. t = BeginWrite(s)
    BY <1>2 DEF WritePump
  <2> QED  BY <1>2, <2>1, BeginWriteWhole
<1>3. CASE s.outbox # << >> /\ ~ s.open
  <2>1. t = VoidOutbox(s, "down")
    BY <1>3 DEF WritePump
  <2> HIDE DEF t
  <2>2. Whole(t) /\ Calls(s, t) /\ t.outbox = << >>
    BY <2>1, VoidOutboxWhole
  <2> QED  BY <2>2 DEF Calls, AtFront, t
<1> QED  BY <1>1, <1>2, <1>3

LEMMA FlushWhole ==
  ASSUME NEW s, NEW h \in Handlers, InHand(s, h), Placed(s, Held(s) \cup {h})
  PROVE  LET t == FlushWriteBuffer(s, h) IN Whole(t) /\ Keeps(s, t)
<1> DEFINE queued == [s EXCEPT !.outbox = Append(@, h)]
           t == FlushWriteBuffer(s, h)
<1>1. t = IF Len(queued.outbox) = 1 THEN WritePump(queued) ELSE queued
  BY DEF FlushWriteBuffer
<1>2. Queued(s, queued, h)
  BY DEF InHand, Counted, Queued, SameCounts, HasFields
<1> HIDE DEF queued, t
<1>3. /\ Whole(queued) /\ queued.nested = s.nested
      /\ Len(queued.outbox) # 1 => Keeps(s, queued)
      /\ Len(queued.outbox) = 1 /\ AtFront(s) => queued.nested \/ queued.writing = << >>
  BY <1>2, QueuedWhole DEF Queued
<1>4. CASE Len(queued.outbox) = 1
  <2>1. t = WritePump(queued)
    BY <1>1, <1>4
  <2>2. /\ Whole(t) /\ (queued.nested => t.nested)
        /\ queued.nested \/ queued.writing = << >> => AtFront(t)
    BY <1>3, <2>1, WritePumpWhole
  <2> QED  BY <1>3, <1>4, <2>2 DEF Keeps, t
<1>5. CASE Len(queued.outbox) # 1
  BY <1>1, <1>3, <1>5 DEF t
<1> QED  BY <1>4, <1>5

(***************************************************************************)
(* The operations in hand.                                                 *)
(***************************************************************************)
LEMMA AttemptWhole ==
  ASSUME NEW s, InHand(s, HANDSHAKE)
  PROVE  LET t == Attempt(s) IN Whole(t) /\ Keeps(s, t)
<1> DEFINE begun == [s EXCEPT !.connected = FALSE, !.tries = @ + 1, !.handshake = "flush"]
<1>1. HasFields(s) /\ Counted(s, Held(s) \cup {HANDSHAKE})
  BY DEF InHand, Counted
<1>2. CASE s.tries > MaxAttempts
  <2>1. Attempt(s) = HandshakeEnds(s, "gave_up")
    BY <1>2 DEF Attempt
  <2>2. Goes(s, HandshakeEnds(s, "gave_up"), (Held(s) \cup {HANDSHAKE}) \ {HANDSHAKE})
    BY <1>1, HandshakeEndsGoes
  <2> QED  BY <2>1, <2>2, GoesFromHand
<1>3. CASE ~ (s.tries > MaxAttempts)
  <2>1. Attempt(s) = FlushWriteBuffer(begun, HANDSHAKE)
    BY <1>3 DEF Attempt
  <2>2. /\ HasFields(begun) /\ SameOutput(s, begun)
        /\ begun.sends = s.sends /\ begun.sendCalls = s.sendCalls
        /\ begun.receives = s.receives /\ begun.waiting = s.waiting
        /\ begun.receiveCalls = s.receiveCalls
        /\ begun.timers = s.timers
        /\ begun.handshakes = s.handshakes /\ begun.handshakeCalls = s.handshakeCalls
        /\ begun.keepalives = s.keepalives /\ begun.keepaliveCalls = s.keepaliveCalls
        /\ begun.reading = s.reading /\ begun.pumpRunning = s.pumpRunning
        /\ begun.handshake = "flush" /\ begun.keepalive = s.keepalive
    BY <1>1 DEF SameOutput, HasFields
  <2> HIDE DEF begun
  <2>3. Held(begun) = Held(s) /\ Outbox(begun) /\ Keeps(s, begun)
    BY <2>2 DEF InHand, SameOutput, Held, Outbox, AtFront, Keeps
  <2> DEFINE K == Held(s) \cup {HANDSHAKE}
  <2>4. KEEPALIVE \in K <=> KEEPALIVE \in Held(s)
    BY DEF HANDSHAKE, KEEPALIVE
  <2>5. Placed(begun, K) /\ Placed(begun, Held(s))
    BY <2>2, <2>4 DEF InHand, Placed
  <2> HIDE DEF K
  <2>6. Counted(begun, K)
    <3>1. SendsCounted(begun, K)
      BY <1>1, <2>2 DEF Counted, SendsCounted, K
    <3>2. ReceivesCounted(begun)
      BY <1>1, <2>2, ReceivesSame DEF Counted
    <3>3. HandshakesCounted(begun, K) /\ KeepalivesCounted(begun, K)
      BY <1>1, <2>2 DEF Counted, HandshakesCounted, KeepalivesCounted, K
    <3>4. PumpCounted(begun, K)
      BY <1>1, <2>2 DEF Counted, PumpCounted, K
    <3> QED  BY <2>2, <3>1, <3>2, <3>3, <3>4 DEF Counted
  <2>7. InHand(begun, HANDSHAKE)
    BY <2>3, <2>5, <2>6 DEF InHand, K
  <2>8. HANDSHAKE \in Handlers
    BY DEF Handlers
  <2> QED  BY <2>1, <2>3, <2>5, <2>7, <2>8, FlushWhole DEF K, Keeps
<1> QED  BY <1>2, <1>3

LEMMA BeginHandshakeWhole ==
  ASSUME NEW s, InHand(s, HANDSHAKE)
  PROVE  LET t == BeginHandshake(s) IN Whole(t) /\ Keeps(s, t)
<1> DEFINE t == Asked(s)
           voided == VoidReceives(t)
           reset == [voided EXCEPT !.handshakeComplete = FALSE, !.connected = FALSE,
                                   !.tries = 0]
           started == StartReadPump(reset)
<1>1. Same(s, t)
  BY AskedSame DEF InHand, Counted
<1>2. BeginHandshake(s) = IF PumpError(s) # "ok" THEN HandshakeEnds(t, PumpError(s))
                                                 ELSE Attempt(started)
  BY DEF BeginHandshake
<1> HIDE DEF t
<1>3. InHand(t, HANDSHAKE) /\ Held(t) = Held(s) /\ Keeps(s, t)
  BY <1>1, SameInHand
<1>4. Goes(t, HandshakeEnds(t, PumpError(s)), (Held(t) \cup {HANDSHAKE}) \ {HANDSHAKE})
  BY <1>3, HandshakeEndsGoes DEF InHand
<1>5. LET u == HandshakeEnds(t, PumpError(s)) IN Whole(u) /\ Keeps(t, u)
  BY <1>3, <1>4, GoesFromHand
<1> HIDE DEF voided
<1>6. InHand(voided, HANDSHAKE) /\ Keeps(t, voided)
  BY <1>3, VoidReceivesGoes, KeepsInHand DEF InHand, voided
<1>7. Same(voided, reset)
  <2>1. HasFields(voided)
    BY <1>6 DEF InHand, Counted
  <2> QED  BY <2>1 DEF Same, SameCounts, SameOutput, HasFields
<1> HIDE DEF reset
<1>8. InHand(reset, HANDSHAKE) /\ Keeps(voided, reset)
  BY <1>6, <1>7, SameInHand
<1>9. InHand(started, HANDSHAKE) /\ Keeps(reset, started)
  BY <1>8, StartReadPumpGoes, KeepsInHand DEF InHand
<1> HIDE DEF started
<1>10. LET u == Attempt(started) IN Whole(u) /\ Keeps(started, u)
  BY <1>9, AttemptWhole
<1> QED  BY <1>2, <1>3, <1>5, <1>6, <1>8, <1>9, <1>10 DEF Keeps

LEMMA HandshakeTimerWhole ==
  ASSUME NEW s, InHand(s, HANDSHAKE)
  PROVE  LET t == HandshakeTimer(s) IN Whole(t) /\ Keeps(s, t)
<1> DEFINE t == Asked(s)
           settled == AwaitTimer([t EXCEPT !.handshake = "settle"], "handshake")
<1>1. InHand(t, HANDSHAKE) /\ Held(t) = Held(s) /\ Keeps(s, t)
  BY AskedSame, SameInHand DEF InHand, Counted
<1>2. \/ \E rc : HandshakeTimer(s) = HandshakeEnds(t, rc)
      \/ HandshakeTimer(s) = Attempt(t)
      \/ HandshakeTimer(s) = settled
  BY DEF HandshakeTimer, Settle
<1> HIDE DEF t
<1>3. ASSUME NEW rc
      PROVE  LET u == HandshakeEnds(t, rc) IN Whole(u) /\ Keeps(t, u)
  <2>1. Goes(t, HandshakeEnds(t, rc), (Held(t) \cup {HANDSHAKE}) \ {HANDSHAKE})
    BY <1>1, HandshakeEndsGoes DEF InHand
  <2> QED  BY <1>1, <2>1, GoesFromHand
<1>4. LET u == Attempt(t) IN Whole(u) /\ Keeps(t, u)
  BY <1>1, AttemptWhole
<1>5. Whole(settled) /\ Keeps(t, settled)
  <2>1. Goes(t, settled, (Held(t) \cup {HANDSHAKE}) \ {HANDSHAKE})
    BY <1>1, AwaitHandshakeGoes DEF InHand
  <2> HIDE DEF settled
  <2> QED  BY <1>1, <2>1, GoesFromHand
<1> HIDE DEF settled
<1> QED  BY <1>1, <1>2, <1>3, <1>4, <1>5 DEF Keeps

LEMMA KeepaliveTimerWhole ==
  ASSUME NEW s, InHand(s, KEEPALIVE)
  PROVE  LET t == KeepaliveTimer(s) IN Whole(t) /\ Keeps(s, t)
<1> DEFINE t == Asked(s)
           begun == [t EXCEPT !.keepalive = "send"]
           K == Held(t) \cup {KEEPALIVE}
<1>1. InHand(t, KEEPALIVE) /\ Held(t) = Held(s) /\ Keeps(s, t)
  BY AskedSame, SameInHand DEF InHand, Counted
<1>2. KeepaliveTimer(s) = IF PumpError(s) # "ok" THEN KeepaliveEnds(t)
                                                 ELSE FlushWriteBuffer(begun, KEEPALIVE)
  BY DEF KeepaliveTimer
<1> HIDE DEF t
<1>3. Whole(KeepaliveEnds(t)) /\ Keeps(t, KeepaliveEnds(t))
  <2>1. Goes(t, KeepaliveEnds(t), K \ {KEEPALIVE})
    BY <1>1, KeepaliveEndsGoes DEF InHand
  <2> QED  BY <1>1, <2>1, GoesFromHand
<1>4. HasFields(t) /\ Counted(t, K)
  BY <1>1 DEF InHand, Counted
<1>5. /\ HasFields(begun) /\ SameOutput(t, begun)
      /\ begun.sends = t.sends /\ begun.sendCalls = t.sendCalls
      /\ begun.receives = t.receives /\ begun.waiting = t.waiting
      /\ begun.receiveCalls = t.receiveCalls
      /\ begun.timers = t.timers
      /\ begun.handshakes = t.handshakes /\ begun.handshakeCalls = t.handshakeCalls
      /\ begun.keepalives = t.keepalives /\ begun.keepaliveCalls = t.keepaliveCalls
      /\ begun.reading = t.reading /\ begun.pumpRunning = t.pumpRunning
      /\ begun.handshake = t.handshake /\ begun.keepalive = "send"
  BY <1>4 DEF SameOutput, HasFields
<1> HIDE DEF begun
<1>6. Held(begun) = Held(t) /\ Outbox(begun) /\ Keeps(t, begun)
  BY <1>1, <1>5 DEF InHand, SameOutput, Held, Outbox, AtFront, Keeps
<1>7. HANDSHAKE \in K <=> HANDSHAKE \in Held(t)
  BY DEF HANDSHAKE, KEEPALIVE
<1>8. Placed(begun, K) /\ Placed(begun, Held(t))
  BY <1>1, <1>5, <1>7 DEF InHand, Placed
<1> HIDE DEF K
<1>9. Counted(begun, K)
  <2>1. SendsCounted(begun, K)
    BY <1>4, <1>5 DEF Counted, SendsCounted
  <2>2. ReceivesCounted(begun)
    BY <1>4, <1>5, ReceivesSame DEF Counted
  <2>3. HandshakesCounted(begun, K) /\ KeepalivesCounted(begun, K)
    BY <1>4, <1>5 DEF Counted, HandshakesCounted, KeepalivesCounted
  <2>4. PumpCounted(begun, K)
    BY <1>4, <1>5 DEF Counted, PumpCounted
  <2> QED  BY <1>5, <2>1, <2>2, <2>3, <2>4 DEF Counted
<1>10. InHand(begun, KEEPALIVE)
  BY <1>1, <1>6, <1>8, <1>9 DEF InHand, K
<1>11. KEEPALIVE \in Handlers
  BY DEF Handlers
<1>12. LET u == FlushWriteBuffer(begun, KEEPALIVE) IN Whole(u) /\ Keeps(begun, u)
  BY <1>6, <1>8, <1>10, <1>11, FlushWhole DEF K
<1> QED  BY <1>1, <1>2, <1>3, <1>6, <1>12 DEF Keeps

-----------------------------------------------------------------------------
(***************************************************************************)
(* Receives.                                                               *)
(***************************************************************************)
\* t differs from s in its receives only.
OnlyReceives(s, t) ==
  /\ HasFields(t) /\ SameOutput(s, t)
  /\ t.sends = s.sends /\ t.sendCalls = s.sendCalls
  /\ t.timers = s.timers
  /\ t.handshakes = s.handshakes /\ t.handshakeCalls = s.handshakeCalls
  /\ t.keepalives = s.keepalives /\ t.keepaliveCalls = s.keepaliveCalls
  /\ t.reading = s.reading /\ t.pumpRunning = s.pumpRunning
  /\ t.handshake = s.handshake /\ t.keepalive = s.keepalive

LEMMA OnlyReceivesGoes ==
  ASSUME NEW s, NEW t, OnlyReceives(s, t), ReceivesCounted(t)
  PROVE  /\ \A H : Counted(s, H) => Goes(s, t, H)
         /\ \A H : Placed(s, H) => Placed(t, H)
<1>1. ASSUME NEW H, Counted(s, H) PROVE Counted(t, H)
  <2>1. SendsCounted(t, H)
    BY <1>1 DEF Counted, OnlyReceives, SendsCounted
  <2>2. HandshakesCounted(t, H) /\ KeepalivesCounted(t, H)
    BY <1>1 DEF Counted, OnlyReceives, HandshakesCounted, KeepalivesCounted
  <2>3. PumpCounted(t, H)
    BY <1>1 DEF Counted, OnlyReceives, PumpCounted
  <2> QED  BY <2>1, <2>2, <2>3 DEF OnlyReceives, Counted
<1>2. \A H : Placed(s, H) => Placed(t, H)
  BY DEF OnlyReceives, Placed
<1> QED  BY <1>1, <1>2 DEF Goes, OnlyReceives

\* The next receive: it waits, or its handler is called at once.
LEMMA NextReceiveCounted ==
  ASSUME NEW s, NEW t, ReceivesCounted(s), s.receives < MaxReceives,
         t.receives = s.receives + 1,
         \/ /\ t.waiting = Append(s.waiting, s.receives + 1)
            /\ t.receiveCalls = s.receiveCalls
         \/ /\ t.waiting = s.waiting
            /\ t.receiveCalls =
                 [i \in 1 .. MaxReceives |->
                    s.receiveCalls[i] + (IF Contains(<<s.receives + 1>>, i) THEN 1 ELSE 0)]
  PROVE  ReceivesCounted(t)
<1> DEFINE r == s.receives + 1
<1>1. /\ s.receives \in 0 .. MaxReceives /\ r \in 1 .. MaxReceives /\ r \in 1 .. r
      /\ s.receives \in Nat
  BY BoundsAssumption DEF ReceivesCounted
<1>2. /\ s.waiting \in Seq(1 .. s.receives) /\ Len(s.waiting) \in Nat
      /\ \A k \in 1 .. Len(s.waiting) : s.waiting[k] \in 1 .. s.receives
  BY LenProperties, ElementOfSeq DEF ReceivesCounted
<1>3. ~ Waits(s, r) /\ s.receiveCalls[r] = 0
  <2>1. ~ Waits(s, r)
    BY <1>1, <1>2 DEF Waits
  <2> QED  BY <1>1, <2>1 DEF ReceivesCounted
<1>4. s.waiting \in Seq(1 .. r)
  <2>1. 1 .. s.receives \subseteq 1 .. r
    BY <1>1
  <2> QED  BY <1>2, <2>1, SeqMonotonic
<1>5. s.receiveCalls \in [1 .. MaxReceives -> Nat]
  BY DEF ReceivesCounted
<1>6. ASSUME NEW i \in 1 .. MaxReceives, i # r
      PROVE  s.receiveCalls[i] = IF i <= r /\ ~ Waits(s, i) THEN 1 ELSE 0
  <2>1. i <= r <=> i <= s.receives
    BY <1>1, <1>6
  <2> QED  BY <2>1 DEF ReceivesCounted
<1>7. CASE /\ t.waiting = Append(s.waiting, r)
           /\ t.receiveCalls = s.receiveCalls
  <2>1. /\ t.waiting \in Seq(1 .. r) /\ Len(t.waiting) = Len(s.waiting) + 1
        /\ \A k \in 1 .. Len(s.waiting) : t.waiting[k] = s.waiting[k]
        /\ t.waiting[Len(s.waiting) + 1] = r
    BY <1>1, <1>4, <1>7, AppendProperties
  <2>2. ASSUME NEW k \in 1 .. Len(t.waiting), NEW l \in 1 .. Len(t.waiting),
               t.waiting[k] = t.waiting[l]
        PROVE  k = l
    <3>1. /\ k \in 1 .. Len(s.waiting) \/ k = Len(s.waiting) + 1
          /\ l \in 1 .. Len(s.waiting) \/ l = Len(s.waiting) + 1
      BY <1>2, <2>1
    <3>2. \A m \in 1 .. Len(s.waiting) : s.waiting[m] # r
      BY <1>3 DEF Waits
    <3>3. CASE k \in 1 .. Len(s.waiting) /\ l \in 1 .. Len(s.waiting)
      BY <2>1, <2>2, <3>3 DEF ReceivesCounted
    <3> QED  BY <2>1, <2>2, <3>1, <3>2, <3>3
  <2>3. \A i : Waits(t, i) <=> Waits(s, i) \/ i = r
    <3>1. Len(s.waiting) + 1 \in 1 .. Len(t.waiting)
      BY <1>2, <2>1
    <3>2. \A k \in 1 .. Len(t.waiting) : k \in 1 .. Len(s.waiting) \/ k = Len(s.waiting) + 1
      BY <1>2, <2>1
    <3>3. \A k \in 1 .. Len(s.waiting) : k \in 1 .. Len(t.waiting)
      BY <1>2, <2>1
    <3> QED  BY <2>1, <3>1, <3>2, <3>3 DEF Waits
  <2>4. ASSUME NEW i \in 1 .. MaxReceives
        PROVE  t.receiveCalls[i] = IF i <= r /\ ~ Waits(t, i) THEN 1 ELSE 0
    BY <1>3, <1>6, <1>7, <2>3
  <2>5. /\ t.receives = r /\ t.receives \in 0 .. MaxReceives
        /\ t.waiting \in Seq(1 .. t.receives)
        /\ t.receiveCalls \in [1 .. MaxReceives -> Nat]
    BY <1>1, <1>5, <1>7, <2>1
  <2> HIDE DEF r
  <2> QED  BY <2>2, <2>4, <2>5 DEF ReceivesCounted
<1>8. CASE /\ t.waiting = s.waiting
           /\ t.receiveCalls =
                [i \in 1 .. MaxReceives |->
                   s.receiveCalls[i] + (IF Contains(<<r>>, i) THEN 1 ELSE 0)]
  <2>1. \A i : Contains(<<r>>, i) <=> i = r
    BY DEF Contains
  <2>2. t.receiveCalls =
          [i \in 1 .. MaxReceives |-> s.receiveCalls[i] + (IF i = r THEN 1 ELSE 0)]
    BY <1>8, <2>1
  <2>3. t.receiveCalls \in [1 .. MaxReceives -> Nat]
    <3>1. ASSUME NEW i \in 1 .. MaxReceives
          PROVE  s.receiveCalls[i] + (IF i = r THEN 1 ELSE 0) \in Nat
      <4>1. s.receiveCalls[i] \in Nat
        BY <1>5
      <4> QED  BY <4>1
    <3> HIDE DEF r
    <3> QED  BY <2>2, <3>1
  <2>4. ASSUME NEW i \in 1 .. MaxReceives
        PROVE  t.receiveCalls[i] = IF i <= r /\ ~ Waits(t, i) THEN 1 ELSE 0
    <3>1. Waits(t, i) <=> Waits(s, i)
      BY <1>8 DEF Waits
    <3>2. t.receiveCalls[i] = s.receiveCalls[i] + (IF i = r THEN 1 ELSE 0)
      BY <2>2
    <3>3. CASE i = r
      BY <1>1, <1>3, <3>1, <3>2, <3>3
    <3>4. CASE i # r
      BY <1>5, <1>6, <3>1, <3>2, <3>4
    <3> QED  BY <3>3, <3>4
  <2>5. \A k, l \in 1 .. Len(t.waiting) : t.waiting[k] = t.waiting[l] => k = l
    BY <1>8 DEF ReceivesCounted
  <2>6. /\ t.receives = r /\ t.receives \in 0 .. MaxReceives
        /\ t.waiting \in Seq(1 .. t.receives)
    BY <1>1, <1>4, <1>8
  <2> HIDE DEF r
  <2> QED  BY <2>3, <2>4, <2>5, <2>6 DEF ReceivesCounted
<1> QED  BY <1>7, <1>8

\* A message comes for the receive that has waited longest.
LEMMA ServedCounted ==
  ASSUME NEW s, NEW t, ReceivesCounted(s), s.waiting # << >>,
         t.receives = s.receives, t.waiting = Tail(s.waiting),
         t.receiveCalls =
           [i \in 1 .. MaxReceives |->
              s.receiveCalls[i] + (IF Contains(<<Head(s.waiting)>>, i) THEN 1 ELSE 0)]
  PROVE  ReceivesCounted(t)
<1> DEFINE h == Head(s.waiting)
<1>1. /\ s.waiting \in Seq(1 .. s.receives) /\ Len(s.waiting) \in Nat /\ s.receives \in 0 .. MaxReceives
      /\ s.receiveCalls \in [1 .. MaxReceives -> Nat]
  BY LenProperties DEF ReceivesCounted
<1>2. /\ h = s.waiting[1] /\ h \in 1 .. s.receives /\ 1 \in 1 .. Len(s.waiting)
      /\ t.waiting \in Seq(1 .. s.receives) /\ Len(t.waiting) = Len(s.waiting) - 1
      /\ \A k \in 1 .. Len(t.waiting) : t.waiting[k] = s.waiting[k + 1]
  <2>1. h \in 1 .. s.receives /\ Tail(s.waiting) \in Seq(1 .. s.receives)
        /\ Len(Tail(s.waiting)) = Len(s.waiting) - 1
        /\ \A k \in 1 .. Len(Tail(s.waiting)) : Tail(s.waiting)[k] = s.waiting[k + 1]
    BY <1>1, HeadTailProperties
  <2>2. 1 \in 1 .. Len(s.waiting) /\ h = s.waiting[1]
    BY <1>1, EmptySeq
  <2> QED  BY <2>1, <2>2
<1> HIDE DEF h
<1>3. \A k \in 1 .. Len(t.waiting) : k + 1 \in 1 .. Len(s.waiting) /\ k + 1 # 1
  BY <1>1, <1>2
<1>4. \A k, l \in 1 .. Len(s.waiting) : s.waiting[k] = s.waiting[l] => k = l
  BY DEF ReceivesCounted
<1>5. \A k, l \in 1 .. Len(t.waiting) : t.waiting[k] = t.waiting[l] => k = l
  <2> TAKE k, l \in 1 .. Len(t.waiting)
  <2>1. t.waiting[k] = t.waiting[l] => k + 1 = l + 1
    BY <1>2, <1>3, <1>4
  <2> QED  BY <2>1
<1>6. \A i : Waits(t, i) <=> Waits(s, i) /\ i # h
  <2> TAKE i
  <2>1. ASSUME Waits(t, i) PROVE Waits(s, i) /\ i # h
    BY <1>2, <1>3, <1>4, <2>1 DEF Waits
  <2>2. ASSUME Waits(s, i), i # h PROVE Waits(t, i)
    <3>1. PICK k \in 1 .. Len(s.waiting) : s.waiting[k] = i
      BY <2>2 DEF Waits
    <3>2. k # 1
      BY <1>2, <2>2, <3>1
    <3>3. k - 1 \in 1 .. Len(t.waiting) /\ (k - 1) + 1 = k
      BY <1>1, <1>2, <3>2
    <3> QED  BY <1>2, <3>1, <3>3 DEF Waits
  <2> QED  BY <2>1, <2>2
<1>7. \A i : Contains(<<h>>, i) <=> i = h
  BY DEF Contains
<1>8. t.receiveCalls =
        [i \in 1 .. MaxReceives |-> s.receiveCalls[i] + (IF i = h THEN 1 ELSE 0)]
  BY <1>7 DEF h
<1>9. ASSUME NEW i \in 1 .. MaxReceives
      PROVE  t.receiveCalls[i] = IF i <= t.receives /\ ~ Waits(t, i) THEN 1 ELSE 0
  <2>1. t.receiveCalls[i] = s.receiveCalls[i] + (IF i = h THEN 1 ELSE 0)
    BY <1>8
  <2>2. s.receiveCalls[i] = IF i <= s.receives /\ ~ Waits(s, i) THEN 1 ELSE 0
    BY DEF ReceivesCounted
  <2>3. i = h => Waits(s, i) /\ i <= s.receives
    BY <1>2 DEF Waits
  <2>4. CASE i = h
    BY <1>6, <2>1, <2>2, <2>3, <2>4
  <2>5. CASE i # h
    <3>1. t.receiveCalls[i] = s.receiveCalls[i]
      <4>1. s.receiveCalls[i] \in Nat
        BY <1>1
      <4> QED  BY <2>1, <2>5, <4>1
    <3> QED  BY <1>6, <2>2, <2>5, <3>1
  <2> QED  BY <2>4, <2>5
<1>10. t.receiveCalls \in [1 .. MaxReceives -> Nat]
  <2>1. ASSUME NEW i \in 1 .. MaxReceives
        PROVE  s.receiveCalls[i] + (IF i = h THEN 1 ELSE 0) \in Nat
    <3>1. s.receiveCalls[i] \in Nat
      BY <1>1
    <3> QED  BY <3>1
  <2> QED  BY <1>8, <2>1
<1> QED  BY <1>1, <1>2, <1>5, <1>9, <1>10 DEF ReceivesCounted

\* asyncReceive: the receive waits, or its handler is called at once.
LEMMA AsyncReceiveWhole ==
  ASSUME NEW s, Whole(s), s.receives < MaxReceives
  PROVE  LET t == AsyncReceive(s) IN Whole(t) /\ Keeps(s, t) /\ t.reading = s.reading
<1> DEFINE i == s.receives + 1
           asked == Asked(s)
           begun == [asked EXCEPT !.receives = i]
           calls == [j \in 1 .. MaxReceives |->
                       s.receiveCalls[j] + (IF Contains(<<i>>, j) THEN 1 ELSE 0)]
           called == CallReceives(begun, <<i>>)
           taken == [called EXCEPT !.messages = @ - 1]
           waits == [begun EXCEPT !.waiting = Append(@, i)]
           t == AsyncReceive(s)
<1>1. t \in {called, taken, waits}
  BY DEF AsyncReceive
<1> HIDE DEF t
<1>2. HasFields(s) /\ ReceivesCounted(s)
  BY DEF Whole, Counted
<1>3. Same(s, asked)
  BY <1>2, AskedSame
<1> HIDE DEF asked
<1>4. /\ OnlyReceives(s, begun)
      /\ begun.receives = i /\ begun.waiting = s.waiting
      /\ begun.receiveCalls = s.receiveCalls
  BY <1>3 DEF Same, SameCounts, SameOutput, OnlyReceives, HasFields
<1> HIDE DEF begun
<1>5. /\ OnlyReceives(s, called)
      /\ called.receives = i /\ called.waiting = s.waiting
      /\ called.receiveCalls = calls
  BY <1>4 DEF OnlyReceives, SameOutput, HasFields, CallReceives
<1> HIDE DEF called, calls
<1>6. /\ OnlyReceives(s, taken)
      /\ taken.receives = i /\ taken.waiting = s.waiting
      /\ taken.receiveCalls = calls
  BY <1>5 DEF OnlyReceives, SameOutput, HasFields
<1>7. /\ OnlyReceives(s, waits)
      /\ waits.receives = i /\ waits.waiting = Append(s.waiting, i)
      /\ waits.receiveCalls = s.receiveCalls
  BY <1>4 DEF OnlyReceives, SameOutput, HasFields
<1> HIDE DEF taken, waits
<1>8. OnlyReceives(s, t) /\ ReceivesCounted(t)
  <2>1. ReceivesCounted(called) /\ ReceivesCounted(taken)
    BY <1>2, <1>5, <1>6, NextReceiveCounted DEF calls
  <2>2. ReceivesCounted(waits)
    BY <1>2, <1>7, NextReceiveCounted
  <2> QED  BY <1>1, <1>5, <1>6, <1>7, <2>1, <2>2
<1>9. Goes(s, t, Held(s))
  BY <1>8, OnlyReceivesGoes DEF Whole
<1> QED  BY <1>8, <1>9, GoesWhole DEF Whole, OnlyReceives, t

\* Its handler may send, and receive again.
LEMMA GiveMessageWhole ==
  ASSUME NEW s, Whole(s), s.waiting # << >>
  PROVE  LET t == GiveMessage(s) IN Whole(t) /\ Keeps(s, t) /\ t.reading = s.reading
<1> DEFINE i == Head(s.waiting)
           calls == [j \in 1 .. MaxReceives |->
                       s.receiveCalls[j] + (IF Contains(<<i>>, j) THEN 1 ELSE 0)]
           given == [CallReceives(s, <<i>>) EXCEPT !.waiting = Tail(@)]
           answered == IF i \in AnsweredReceives /\ MaySend(s) THEN AsyncSend(given)
                                                              ELSE given
           t == GiveMessage(s)
<1>1. t = IF i \in ChainedReceives /\ MayReceive(s) THEN AsyncReceive(answered) ELSE answered
  BY DEF GiveMessage
<1> HIDE DEF t
<1>2. HasFields(s) /\ ReceivesCounted(s)
  BY DEF Whole, Counted
<1>3. /\ OnlyReceives(s, given)
      /\ given.receives = s.receives /\ given.waiting = Tail(s.waiting)
      /\ given.receiveCalls = calls
  BY <1>2 DEF OnlyReceives, SameOutput, HasFields, CallReceives
<1> HIDE DEF given
<1>4. ReceivesCounted(given)
  BY <1>2, <1>3, ServedCounted
<1> HIDE DEF calls
<1>5. Goes(s, given, Held(s))
  BY <1>3, <1>4, OnlyReceivesGoes DEF Whole
<1>6. Whole(given) /\ Keeps(s, given)
  BY <1>5, GoesWhole DEF Whole
<1>7. /\ Whole(answered) /\ Keeps(s, answered)
      /\ answered.receives = s.receives /\ answered.reading = s.reading
  <2>1. CASE i \in AnsweredReceives /\ MaySend(s)
    <3>1. given.sends < MaxSends
      BY <1>3, <2>1 DEF OnlyReceives, MaySend
    <3>2. Whole(answered) /\ Keeps(given, answered) /\ SameReads(given, answered)
      BY <1>6, <2>1, <3>1, AsyncSendWhole
    <3> HIDE DEF answered
    <3> QED  BY <1>3, <1>6, <3>2 DEF Keeps, SameReads, OnlyReceives
  <2>2. CASE ~ (i \in AnsweredReceives /\ MaySend(s))
    BY <1>3, <1>6, <2>2 DEF OnlyReceives
  <2> QED  BY <2>1, <2>2
<1> HIDE DEF answered
<1>8. MayReceive(s) => answered.receives < MaxReceives
  BY <1>7 DEF MayReceive
<1> QED  BY <1>1, <1>7, <1>8, AsyncReceiveWhole DEF Keeps, t

-----------------------------------------------------------------------------
(***************************************************************************)
(* Every action keeps the invariant, one lemma each.                       *)
(***************************************************************************)
WholeStep == Whole(q') /\ Keeps(q, q')

LEMMA UserSendInv == Whole(q) /\ UserSend => WholeStep
BY AsyncSendWhole DEF UserSend, MaySend, WholeStep

LEMMA UserCloseInv == Whole(q) /\ UserClose => WholeStep
<1> SUFFICES ASSUME Whole(q), UserClose PROVE WholeStep
  OBVIOUS
<1>1. q' = Close(q) /\ HasFields(q)
  BY DEF UserClose, Whole, Counted
<1> QED  BY <1>1, CloseSame, SameWhole DEF WholeStep

LEMMA ReopenInv == Whole(q) /\ Reopen => WholeStep
<1> SUFFICES ASSUME Whole(q), Reopen PROVE WholeStep
  OBVIOUS
<1> DEFINE t == [q EXCEPT !.open = TRUE, !.ready = FALSE, !.reopens = @ + 1]
<1>1. q' = t /\ HasFields(q)
  BY DEF Reopen, Whole, Counted
<1>2. Same(q, t)
  BY <1>1 DEF Same, SameCounts, SameOutput, HasFields
<1> HIDE DEF t
<1> QED  BY <1>1, <1>2, SameWhole DEF WholeStep

LEMMA UserReceiveInv == Whole(q) /\ UserReceive => WholeStep
BY AsyncReceiveWhole DEF UserReceive, MayReceive, WholeStep

\* An operation that is idle is taken in hand.
LEMMA UserHandshakeInv == Whole(q) /\ UserHandshake => WholeStep
<1> SUFFICES ASSUME Whole(q), UserHandshake PROVE WholeStep
  OBVIOUS
<1> DEFINE t == [q EXCEPT !.handshakes = @ + 1, !.ready = FALSE]
           K == Held(q) \cup {HANDSHAKE}
<1>1. q' = BeginHandshake(t) /\ q.handshake = "idle"
  BY DEF UserHandshake
<1>2. HasFields(q)
  BY DEF Whole, Counted
<1>3. /\ HasFields(t) /\ SameOutput(q, t)
      /\ t.sends = q.sends /\ t.sendCalls = q.sendCalls
      /\ t.receives = q.receives /\ t.waiting = q.waiting
      /\ t.receiveCalls = q.receiveCalls
      /\ t.timers = q.timers
      /\ t.handshakes = q.handshakes + 1 /\ t.handshakeCalls = q.handshakeCalls
      /\ t.keepalives = q.keepalives /\ t.keepaliveCalls = q.keepaliveCalls
      /\ t.reading = q.reading /\ t.pumpRunning = q.pumpRunning
      /\ t.handshake = q.handshake /\ t.keepalive = q.keepalive
  BY <1>2 DEF SameOutput, HasFields
<1> HIDE DEF t
<1>4. HANDSHAKE \notin Held(q) /\ "handshake" \notin q.timers
  BY <1>1 DEF Whole, Placed
<1>5. /\ \A i : Send(i) \in K <=> Send(i) \in Held(q)
      /\ HANDSHAKE \in K
      /\ KEEPALIVE \in K <=> KEEPALIVE \in Held(q)
      /\ PUMP \in K <=> PUMP \in Held(q)
  BY DEF Send, HANDSHAKE, KEEPALIVE, PUMP
<1> HIDE DEF K
<1>6. Counted(t, K)
  <2>1. SendsCounted(t, K)
    BY <1>3, <1>5 DEF Whole, Counted, SendsCounted
  <2>2. ReceivesCounted(t)
    BY <1>3, ReceivesSame DEF Whole, Counted
  <2>3. HandshakesCounted(t, K)
    BY <1>3, <1>4, <1>5 DEF Whole, Counted, HandshakesCounted
  <2>4. KeepalivesCounted(t, K)
    BY <1>3, <1>5 DEF Whole, Counted, KeepalivesCounted
  <2>5. PumpCounted(t, K)
    BY <1>3, <1>5 DEF Whole, Counted, PumpCounted
  <2> QED  BY <1>3, <2>1, <2>2, <2>3, <2>4, <2>5 DEF Counted
<1>7. Held(t) = Held(q) /\ Outbox(t) /\ Placed(t, Held(t)) /\ Keeps(q, t)
  BY <1>3 DEF Whole, SameOutput, Held, Outbox, Placed, AtFront, Keeps
<1>8. InHand(t, HANDSHAKE)
  BY <1>4, <1>6, <1>7 DEF InHand, K
<1> QED  BY <1>1, <1>7, <1>8, BeginHandshakeWhole DEF WholeStep, Keeps

LEMMA UserKeepaliveInv == Whole(q) /\ UserKeepalive => WholeStep
<1> SUFFICES ASSUME Whole(q), UserKeepalive PROVE WholeStep
  OBVIOUS
<1> DEFINE t == [q EXCEPT !.keepalives = @ + 1]
           K == Held(q) \cup {KEEPALIVE}
<1>1. q' = KeepaliveSent(t, "ok") /\ q.keepalive = "idle"
  BY DEF UserKeepalive
<1>2. HasFields(q)
  BY DEF Whole, Counted
<1>3. /\ HasFields(t) /\ SameOutput(q, t)
      /\ t.sends = q.sends /\ t.sendCalls = q.sendCalls
      /\ t.receives = q.receives /\ t.waiting = q.waiting
      /\ t.receiveCalls = q.receiveCalls
      /\ t.timers = q.timers
      /\ t.handshakes = q.handshakes /\ t.handshakeCalls = q.handshakeCalls
      /\ t.keepalives = q.keepalives + 1 /\ t.keepaliveCalls = q.keepaliveCalls
      /\ t.reading = q.reading /\ t.pumpRunning = q.pumpRunning
      /\ t.handshake = q.handshake /\ t.keepalive = q.keepalive
  BY <1>2 DEF SameOutput, HasFields
<1> HIDE DEF t
<1>4. KEEPALIVE \notin Held(q) /\ "keepalive" \notin q.timers
  BY <1>1 DEF Whole, Placed
<1>5. /\ \A i : Send(i) \in K <=> Send(i) \in Held(q)
      /\ HANDSHAKE \in K <=> HANDSHAKE \in Held(q)
      /\ KEEPALIVE \in K
      /\ PUMP \in K <=> PUMP \in Held(q)
  BY DEF Send, HANDSHAKE, KEEPALIVE, PUMP
<1> HIDE DEF K
<1>6. Counted(t, K)
  <2>1. SendsCounted(t, K)
    BY <1>3, <1>5 DEF Whole, Counted, SendsCounted
  <2>2. ReceivesCounted(t)
    BY <1>3, ReceivesSame DEF Whole, Counted
  <2>3. HandshakesCounted(t, K)
    BY <1>3, <1>5 DEF Whole, Counted, HandshakesCounted
  <2>4. KeepalivesCounted(t, K)
    BY <1>3, <1>4, <1>5 DEF Whole, Counted, KeepalivesCounted
  <2>5. PumpCounted(t, K)
    BY <1>3, <1>5 DEF Whole, Counted, PumpCounted
  <2> QED  BY <1>3, <2>1, <2>2, <2>3, <2>4, <2>5 DEF Counted
<1>7. Held(t) = Held(q) /\ Outbox(t) /\ Placed(t, Held(t)) /\ Keeps(q, t)
  BY <1>3 DEF Whole, SameOutput, Held, Outbox, Placed, AtFront, Keeps
<1>8. InHand(t, KEEPALIVE)
  BY <1>4, <1>6, <1>7 DEF InHand, K
<1>9. Goes(t, KeepaliveSent(t, "ok"), (Held(t) \cup {KEEPALIVE}) \ {KEEPALIVE})
  BY <1>8, KeepaliveSentGoes DEF InHand
<1> QED  BY <1>1, <1>7, <1>8, <1>9, GoesFromHand DEF WholeStep, Keeps

LEMMA HandleTimerInv == Whole(q) /\ HandleTimer => WholeStep
<1> SUFFICES ASSUME Whole(q), NEW op \in q.timers,
                    LET s == [q EXCEPT !.timers = @ \ {op}] IN
                    \/ op = "handshake" /\ q' = HandshakeTimer(s)
                    \/ op = "keepalive" /\ q' = KeepaliveTimer(s)
             PROVE  WholeStep
  BY DEF HandleTimer
<1> DEFINE s == [q EXCEPT !.timers = @ \ {op}]
           h == IF op = "handshake" THEN HANDSHAKE ELSE KEEPALIVE
           K == Held(q) \cup {h}
<1>1. HasFields(q)
  BY DEF Whole, Counted
<1>2. /\ HasFields(s) /\ SameOutput(q, s)
      /\ s.sends = q.sends /\ s.sendCalls = q.sendCalls
      /\ s.receives = q.receives /\ s.waiting = q.waiting
      /\ s.receiveCalls = q.receiveCalls
      /\ s.timers = q.timers \ {op}
      /\ s.handshakes = q.handshakes /\ s.handshakeCalls = q.handshakeCalls
      /\ s.keepalives = q.keepalives /\ s.keepaliveCalls = q.keepaliveCalls
      /\ s.reading = q.reading /\ s.pumpRunning = q.pumpRunning
      /\ s.handshake = q.handshake /\ s.keepalive = q.keepalive
  BY <1>1 DEF SameOutput, HasFields
<1>3. \/ op = "handshake" /\ q' = HandshakeTimer(s)
      \/ op = "keepalive" /\ q' = KeepaliveTimer(s)
  OBVIOUS
<1> HIDE DEF s
<1>4. /\ (h = HANDSHAKE /\ op = "handshake") \/ (h = KEEPALIVE /\ op = "keepalive")
      /\ HANDSHAKE # KEEPALIVE
      /\ \A i : Send(i) # h
      /\ PUMP # h
  BY <1>3 DEF Send, HANDSHAKE, KEEPALIVE, PUMP
<1> HIDE DEF h
<1>5. h \notin Held(q)
  BY <1>4 DEF Whole, Counted, HandshakesCounted, KeepalivesCounted
<1>6. \A g : g \in K <=> g \in Held(q) \/ g = h
  OBVIOUS
<1> HIDE DEF K
<1>7. Counted(s, K)
  <2>1. SendsCounted(s, K)
    BY <1>2, <1>4, <1>6 DEF Whole, Counted, SendsCounted
  <2>2. ReceivesCounted(s)
    BY <1>2, ReceivesSame DEF Whole, Counted
  <2>3. HandshakesCounted(s, K)
    BY <1>2, <1>4, <1>6 DEF Whole, Counted, HandshakesCounted
  <2>4. KeepalivesCounted(s, K)
    BY <1>2, <1>4, <1>6 DEF Whole, Counted, KeepalivesCounted
  <2>5. PumpCounted(s, K)
    BY <1>2, <1>4, <1>6 DEF Whole, Counted, PumpCounted
  <2> QED  BY <1>2, <2>1, <2>2, <2>3, <2>4, <2>5 DEF Counted
<1>8. Held(s) = Held(q) /\ Outbox(s) /\ Placed(s, Held(s)) /\ Keeps(q, s)
  BY <1>2 DEF Whole, SameOutput, Held, Outbox, Placed, AtFront, Keeps
<1>9. InHand(s, h)
  BY <1>5, <1>7, <1>8 DEF InHand, K
<1> QED  BY <1>3, <1>4, <1>8, <1>9, HandshakeTimerWhole, KeepaliveTimerWhole
     DEF WholeStep, Keeps

\* A read has ended, with the pump in hand.
TakenInHand(s, t) ==
  /\ HasFields(t) /\ SameOutput(s, t)
  /\ t.sends = s.sends /\ t.sendCalls = s.sendCalls
  /\ t.receives = s.receives /\ t.waiting = s.waiting /\ t.receiveCalls = s.receiveCalls
  /\ t.timers = s.timers
  /\ t.handshakes = s.handshakes /\ t.handshakeCalls = s.handshakeCalls
  /\ t.keepalives = s.keepalives /\ t.keepaliveCalls = s.keepaliveCalls
  /\ t.reading = FALSE /\ t.pumpRunning = s.pumpRunning
  /\ t.handshake = s.handshake /\ t.keepalive = s.keepalive
  /\ t.open = s.open /\ t.pumpError = s.pumpError /\ t.ready = s.ready
  /\ t.readCut = s.readCut /\ t.writeCut = s.writeCut
  /\ t.tries = s.tries /\ t.messages = s.messages

LEMMA ReadInHand ==
  ASSUME NEW s, Whole(s), s.reading, NEW t, TakenInHand(s, t)
  PROVE  /\ InHand(t, PUMP) /\ Held(t) = Held(s)
         /\ Placed(t, Held(t) \cup {PUMP}) /\ Keeps(s, t)
<1> DEFINE K == Held(s) \cup {PUMP}
<1>1. PUMP \notin Held(s) /\ s.pumpRunning = TRUE
  BY DEF Whole, Counted, PumpCounted
<1>2. /\ \A i : Send(i) \in K <=> Send(i) \in Held(s)
      /\ HANDSHAKE \in K <=> HANDSHAKE \in Held(s)
      /\ KEEPALIVE \in K <=> KEEPALIVE \in Held(s)
      /\ PUMP \in K
  BY DEF Send, HANDSHAKE, KEEPALIVE, PUMP
<1> HIDE DEF K
<1>3. Counted(t, K)
  <2>1. SendsCounted(t, K)
    BY <1>2 DEF TakenInHand, Whole, Counted, SendsCounted
  <2>2. ReceivesCounted(t)
    BY ReceivesSame DEF TakenInHand, Whole, Counted
  <2>3. HandshakesCounted(t, K) /\ KeepalivesCounted(t, K)
    BY <1>2 DEF TakenInHand, Whole, Counted, HandshakesCounted, KeepalivesCounted
  <2>4. PumpCounted(t, K)
    BY <1>1, <1>2 DEF TakenInHand, PumpCounted
  <2> QED  BY <2>1, <2>2, <2>3, <2>4 DEF Counted, TakenInHand
<1>4. Placed(t, Held(s)) /\ Placed(t, K)
  BY <1>2 DEF TakenInHand, Whole, Placed
<1>5. Held(t) = Held(s) /\ Outbox(t) /\ Keeps(s, t)
  BY DEF TakenInHand, Whole, SameOutput, Held, Outbox, AtFront, Keeps
<1> QED  BY <1>1, <1>3, <1>4, <1>5 DEF InHand, K

LEMMA HandleReadErrorInv == Whole(q) /\ HandleReadError => WholeStep
<1> SUFFICES ASSUME Whole(q), q.reading,
                    NEW ec, q' = StopReadPump([q EXCEPT !.reading = FALSE], ec)
             PROVE  WholeStep
  BY DEF HandleReadError
<1> DEFINE read == [q EXCEPT !.reading = FALSE]
<1>1. HasFields(q)
  BY DEF Whole, Counted
<1>2. TakenInHand(q, read)
  BY <1>1 DEF TakenInHand, SameOutput, HasFields
<1>3. q' = StopReadPump(read, ec)
  OBVIOUS
<1> HIDE DEF read
<1>4. InHand(read, PUMP) /\ Held(read) = Held(q) /\ Keeps(q, read)
  BY <1>2, ReadInHand
<1>5. Goes(read, q', (Held(read) \cup {PUMP}) \ {PUMP})
  BY <1>3, <1>4, StopReadPumpGoes DEF InHand
<1> QED  BY <1>4, <1>5, GoesFromHand DEF WholeStep, Keeps

\* What a read may bring the queue.
Receives(g) ==
  \/ g = q
  \/ q.waiting # << >> /\ g = GiveMessage(q)
  \/ /\ q.waiting = << >> /\ q.messages < MaxMessages
     /\ g = [q EXCEPT !.messages = @ + 1]

LEMMA ReadIsTaken ==
  ASSUME HandleRead
  PROVE  \E g : /\ Receives(g)
                /\ \E connected :
                     LET t == [g EXCEPT !.reading = FALSE, !.connected = connected] IN
                     q' = FlushWriteBuffer(t, PUMP) \/ q' = CallOK(t, PUMP)
<1> SUFFICES ASSUME NEW connected \in BOOLEAN, NEW message \in BOOLEAN,
                    NEW reply \in BOOLEAN,
                    message => connected /\ (q.waiting # << >> \/ q.messages < MaxMessages),
                    LET taken == IF ~ message THEN q
                                 ELSE IF q.waiting # << >> THEN GiveMessage(q)
                                 ELSE [q EXCEPT !.messages = @ + 1]
                        read == [taken EXCEPT !.reading = FALSE, !.connected = connected]
                    IN  q' = IF reply THEN FlushWriteBuffer(read, PUMP)
                                      ELSE CallOK(read, PUMP)
             PROVE  \E g : /\ Receives(g)
                           /\ \E c :
                                LET t == [g EXCEPT !.reading = FALSE, !.connected = c] IN
                                q' = FlushWriteBuffer(t, PUMP) \/ q' = CallOK(t, PUMP)
  BY DEF HandleRead
<1> DEFINE taken == IF ~ message THEN q
                    ELSE IF q.waiting # << >> THEN GiveMessage(q)
                    ELSE [q EXCEPT !.messages = @ + 1]
           read == [taken EXCEPT !.reading = FALSE, !.connected = connected]
<1>1. q' = IF reply THEN FlushWriteBuffer(read, PUMP) ELSE CallOK(read, PUMP)
  OBVIOUS
<1>2. Receives(taken)
  BY DEF Receives
<1> HIDE DEF taken
<1>3. q' = FlushWriteBuffer(read, PUMP) \/ q' = CallOK(read, PUMP)
  BY <1>1
<1> QED  BY <1>2, <1>3

LEMMA ReceivesWhole ==
  ASSUME Whole(q), NEW g, Receives(g)
  PROVE  Whole(g) /\ Keeps(q, g) /\ g.reading = q.reading
<1>1. CASE g = q
  BY <1>1 DEF Keeps
<1>2. CASE q.waiting # << >> /\ g = GiveMessage(q)
  BY <1>2, GiveMessageWhole
<1>3. CASE g = [q EXCEPT !.messages = @ + 1]
  <2>1. Same(q, g)
    BY <1>3 DEF Whole, Counted, Same, SameCounts, SameOutput, HasFields
  <2> QED  BY <2>1, SameWhole DEF Same, SameCounts
<1> QED  BY <1>1, <1>2, <1>3 DEF Receives

LEMMA HandleReadInv == Whole(q) /\ HandleRead => WholeStep
<1> SUFFICES ASSUME Whole(q), HandleRead PROVE WholeStep
  OBVIOUS
<1>1. PICK g, connected :
        /\ Receives(g)
        /\ LET t == [g EXCEPT !.reading = FALSE, !.connected = connected] IN
           q' = FlushWriteBuffer(t, PUMP) \/ q' = CallOK(t, PUMP)
  BY ReadIsTaken
<1> DEFINE t == [g EXCEPT !.reading = FALSE, !.connected = connected]
<1>2. Whole(g) /\ Keeps(q, g) /\ g.reading
  BY <1>1, ReceivesWhole DEF HandleRead
<1>3. TakenInHand(g, t)
  BY <1>2 DEF Whole, Counted, TakenInHand, SameOutput, HasFields
<1>4. q' = FlushWriteBuffer(t, PUMP) \/ q' = CallOK(t, PUMP)
  BY <1>1
<1> HIDE DEF t
<1>5. InHand(t, PUMP) /\ Placed(t, Held(t) \cup {PUMP}) /\ Keeps(q, t)
  BY <1>2, <1>3, ReadInHand DEF Keeps
<1>6. PUMP \in Handlers
  BY DEF Handlers
<1>7. CASE q' = FlushWriteBuffer(t, PUMP)
  BY <1>5, <1>6, <1>7, FlushWhole DEF WholeStep, Keeps
<1>8. CASE q' = CallOK(t, PUMP)
  <2>1. Whole(q') /\ SameOutput(t, q')
    BY <1>5, <1>6, <1>8, CallOKWhole
  <2> QED  BY <1>5, <2>1 DEF WholeStep, SameOutput, AtFront, Keeps
<1> QED  BY <1>4, <1>7, <1>8

\* The async_write that is under way, alone, ends.
LEMMA WriteEnds ==
  ASSUME AtFront(q), q.writing # << >>
  PROVE  q.nested \/ Tail(q.writing) = << >>
<1>1. Tail(<<Head(q.outbox)>>) = << >>
  OBVIOUS
<1> QED  BY <1>1 DEF AtFront

LEMMA HandleWriteErrorInv == Whole(q) /\ HandleWriteError => WholeStep
<1> SUFFICES ASSUME Whole(q), q.writing # << >>, NEW ec,
                    LET voided == VoidOutbox([q EXCEPT !.writing = Tail(@)], ec)
                    IN  q' = IF ec = "aborted" THEN voided ELSE Close(voided)
             PROVE  WholeStep
  BY DEF HandleWriteError
<1> DEFINE s == [q EXCEPT !.writing = Tail(@)]
           voided == VoidOutbox(s, ec)
<1>1. q' = voided \/ q' = Close(voided)
  OBVIOUS
<1>2. /\ SameCounts(q, s) /\ s.outbox = q.outbox /\ s.writing = Tail(q.writing)
      /\ s.nested = q.nested
  BY DEF Whole, Counted, SameCounts, HasFields
<1> HIDE DEF s
<1>3. Held(s) = Held(q) /\ Outbox(s)
  BY <1>2 DEF Held, Outbox, Whole
<1>4. Whole(s)
  BY <1>2, <1>3, SameCountsKeep DEF Whole
<1>5. Whole(voided) /\ Calls(s, voided) /\ voided.outbox = << >>
  BY <1>4, VoidOutboxWhole
<1> HIDE DEF voided
<1>6. Keeps(q, voided)
  BY <1>2, <1>5, WriteEnds DEF Calls, AtFront, Keeps
<1>7. Whole(Close(voided)) /\ Keeps(voided, Close(voided))
  <2>1. Same(voided, Close(voided))
    BY <1>5, CloseSame DEF Whole, Counted
  <2> QED  BY <1>5, <2>1, SameWhole
<1> QED  BY <1>1, <1>5, <1>6, <1>7 DEF WholeStep, Keeps

\* With an empty outbox nothing is said but that.
LEMMA HandleWriteInv == Whole(q) /\ HandleWrite => WholeStep
<1> SUFFICES ASSUME Whole(q), HandleWrite PROVE WholeStep
  OBVIOUS
<1>1. CASE q.outbox = << >> /\ q' = [q EXCEPT !.undefined = TRUE]
  <2> DEFINE t == [q EXCEPT !.undefined = TRUE]
  <2>1. Same(q, t)
    BY DEF Whole, Counted, Same, SameCounts, SameOutput, HasFields
  <2> HIDE DEF t
  <2> QED  BY <1>1, <2>1, SameWhole DEF WholeStep, t
<1>2. CASE /\ q.outbox # << >>
           /\ LET popped == [q EXCEPT !.writing = Tail(@), !.outbox = Tail(@)]
              IN  q' = WritePump(CallOK(popped, Head(q.outbox)))
  <2> DEFINE popped == [q EXCEPT !.writing = Tail(@), !.outbox = Tail(@)]
             h == Head(q.outbox)
             called == CallOK(popped, h)
  <2>1. q' = WritePump(called)
    BY <1>2
  <2>2. Popped(q, popped) /\ popped.writing = Tail(q.writing)
    BY DEF Whole, Counted, Popped, SameCounts, HasFields
  <2> HIDE DEF popped
  <2>3. InHand(popped, h) /\ h \in Handlers
    BY <1>2, <2>2, PoppedInHand
  <2> HIDE DEF h
  <2>4. Whole(called) /\ Calls(popped, called)
    BY <2>3, CallOKWhole
  <2> HIDE DEF called
  <2>5. /\ Whole(q') /\ (called.nested => q'.nested)
        /\ called.nested \/ called.writing = << >> => AtFront(q')
    BY <2>1, <2>4, WritePumpWhole
  <2>6. AtFront(q) => popped.nested \/ popped.writing = << >>
    BY <2>2, WriteEnds DEF HandleWrite, Popped
  <2> QED  BY <2>2, <2>4, <2>5, <2>6 DEF Popped, Calls, Keeps, WholeStep
<1> QED  BY <1>1, <1>2 DEF HandleWrite

LEMMA InitWhole == Init => Whole(q) /\ AtFront(q)
<1> SUFFICES ASSUME Init PROVE Whole(q) /\ AtFront(q)
  OBVIOUS
<1>1. /\ HasFields(q)
      /\ q.outbox = << >> /\ q.writing = << >> /\ q.waiting = << >>
      /\ q.timers = {} /\ q.reading = FALSE /\ q.pumpRunning = FALSE
      /\ q.sends = 0 /\ q.receives = 0 /\ q.handshakes = 0 /\ q.keepalives = 0
      /\ q.sendCalls = [i \in 1 .. MaxSends |-> 0]
      /\ q.receiveCalls = [i \in 1 .. MaxReceives |-> 0]
      /\ q.handshakeCalls = 0 /\ q.keepaliveCalls = 0
  BY DEF Init, HasFields
<1>2. Len(q.outbox) = 0 /\ q.outbox \in Seq(Handlers)
  BY <1>1, EmptySeq
<1>3. Len(q.waiting) = 0 /\ q.waiting \in Seq(1 .. 0)
  BY <1>1, EmptySeq
<1>4. Held(q) = {} /\ Outbox(q)
  BY <1>2 DEF Held, Outbox
<1>5. SendsCounted(q, {})
  BY <1>1, BoundsAssumption DEF SendsCounted
<1>6. ReceivesCounted(q)
  <2>1. \A i : ~ Waits(q, i)
    BY <1>3 DEF Waits
  <2> QED  BY <1>1, <1>3, <2>1, BoundsAssumption DEF ReceivesCounted
<1>7. HandshakesCounted(q, {}) /\ KeepalivesCounted(q, {}) /\ PumpCounted(q, {})
  <2>1. HandshakesCounted(q, {})
    BY <1>1 DEF HandshakesCounted
  <2>2. KeepalivesCounted(q, {})
    BY <1>1 DEF KeepalivesCounted
  <2>3. PumpCounted(q, {})
    BY <1>1 DEF PumpCounted
  <2> QED  BY <2>1, <2>2, <2>3
<1>8. Placed(q, {}) /\ AtFront(q)
  BY <1>1 DEF Placed, AtFront, Keeps
<1> QED  BY <1>1, <1>4, <1>5, <1>6, <1>7, <1>8 DEF Whole, Counted

LEMMA NextWhole == Whole(q) /\ [Next]_q => WholeStep
<1> SUFFICES ASSUME Whole(q), [Next]_q PROVE WholeStep
  OBVIOUS
<1>1. CASE UserSend \/ UserReceive \/ UserHandshake \/ UserKeepalive \/ UserClose \/ Reopen
  BY <1>1, UserSendInv, UserReceiveInv, UserHandshakeInv, UserKeepaliveInv, UserCloseInv,
     ReopenInv
<1>2. CASE HandleRead \/ HandleReadError \/ HandleWrite \/ HandleWriteError \/ HandleTimer
  BY <1>2, HandleReadInv, HandleReadErrorInv, HandleWriteInv, HandleWriteErrorInv,
     HandleTimerInv
<1>3. CASE UNCHANGED q
  BY <1>3 DEF WholeStep, Keeps
<1> QED  BY <1>1, <1>2, <1>3 DEF Next

THEOREM WholeInvariant == Spec => []Whole(q)
<1>1. Init => Whole(q)
  BY InitWhole
<1>2. Whole(q) /\ [Next]_q => Whole(q)'
  BY NextWhole DEF WholeStep, Whole, Outbox, Held, Counted, Placed, HasFields, SendsCounted,
     ReceivesCounted, Waits, HandshakesCounted, KeepalivesCounted, PumpCounted
<1> QED  BY <1>1, <1>2, PTL DEF Spec

-----------------------------------------------------------------------------
(***************************************************************************)
(* What the invariant says of the properties.                              *)
(***************************************************************************)
LEMMA CountOfDistinct ==
  ASSUME NEW seq, Len(seq) \in Nat, NEW x,
         \A i, j \in 1 .. Len(seq) : seq[i] = seq[j] => i = j
  PROVE  Count(seq, x) = IF \E k \in 1 .. Len(seq) : seq[k] = x THEN 1 ELSE 0
<1> DEFINE places == {k \in 1 .. Len(seq) : seq[k] = x}
<1>1. Count(seq, x) = Cardinality(places)
  BY DEF Count
<1>2. CASE \E k \in 1 .. Len(seq) : seq[k] = x
  <2>1. PICK k \in 1 .. Len(seq) : seq[k] = x
    BY <1>2
  <2>2. places = {k}
    BY <2>1
  <2>3. Cardinality({k}) = 1
    BY FS_Singleton
  <2> QED  BY <1>1, <1>2, <2>2, <2>3
<1>3. CASE ~ \E k \in 1 .. Len(seq) : seq[k] = x
  <2>1. places = {}
    BY <1>3
  <2> QED  BY <1>1, <1>3, <2>1, FS_EmptySet
<1> QED  BY <1>2, <1>3

LEMMA InOutboxIsHeld ==
  ASSUME Outbox(q), NEW h
  PROVE  InOutbox(h) = IF h \in Held(q) THEN 1 ELSE 0
<1>1. Len(q.outbox) \in Nat
  BY LenProperties DEF Outbox
<1>2. Count(q.outbox, h) = IF \E k \in 1 .. Len(q.outbox) : q.outbox[k] = h THEN 1 ELSE 0
  BY <1>1, CountOfDistinct DEF Outbox
<1> QED  BY <1>2 DEF InOutbox, Held

(***************************************************************************)
(* Every handler the user passes in is called exactly once: a second call  *)
(* of a handler, or one that is lost when the stream fails, is what        *)
(* voidOutbox, voidReceives and stopReadPump are there to prevent.  It     *)
(* holds for every choice of the sends whose handlers send again, after an *)
(* error or without one, and of the receives whose handlers, given a       *)
(* message, send or receive; of other things handlers may do, it says      *)
(* nothing.                                                                *)
(***************************************************************************)
THEOREM CallsOnce == Spec => []HandlersCalledOnce
<1>1. Whole(q) => HandlersCalledOnce
  <2> SUFFICES ASSUME Whole(q) PROVE HandlersCalledOnce
    OBVIOUS
  <2>1. \A h : InOutbox(h) = IF h \in Held(q) THEN 1 ELSE 0
    BY InOutboxIsHeld DEF Whole
  <2>2. ASSUME NEW i \in 1 .. MaxSends
        PROVE  q.sendCalls[i] + InOutbox(Send(i)) = IF i <= q.sends THEN 1 ELSE 0
    <3>1. /\ Send(i) \in Held(q) => i <= q.sends
          /\ q.sendCalls[i] = IF i <= q.sends /\ Send(i) \notin Held(q) THEN 1 ELSE 0
      BY DEF Whole, Counted, SendsCounted
    <3> QED  BY <2>1, <3>1
  <2>3. ASSUME NEW i \in 1 .. MaxReceives
        PROVE  q.receiveCalls[i] + Count(q.waiting, i) = IF i <= q.receives THEN 1 ELSE 0
    <3>1. ReceivesCounted(q)
      BY DEF Whole, Counted
    <3>2. Count(q.waiting, i) = IF Waits(q, i) THEN 1 ELSE 0
      <4>1. Len(q.waiting) \in Nat
        BY <3>1, LenProperties DEF ReceivesCounted
      <4>2. \A k, l \in 1 .. Len(q.waiting) : q.waiting[k] = q.waiting[l] => k = l
        BY <3>1 DEF ReceivesCounted
      <4> QED  BY <4>1, <4>2, CountOfDistinct DEF Waits
    <3>3. Waits(q, i) => i <= q.receives
      BY <3>1, ElementOfSeq DEF ReceivesCounted, Waits
    <3>4. q.receiveCalls[i] = IF i <= q.receives /\ ~ Waits(q, i) THEN 1 ELSE 0
      BY <3>1 DEF ReceivesCounted
    <3> QED  BY <3>2, <3>3, <3>4
  <2>4. q.handshakeCalls + InOutbox(HANDSHAKE) + InTimers("handshake") = q.handshakes
    BY <2>1 DEF Whole, Counted, HandshakesCounted, InTimers
  <2>5. q.keepaliveCalls + InOutbox(KEEPALIVE) + InTimers("keepalive") = q.keepalives
    BY <2>1 DEF Whole, Counted, KeepalivesCounted, InTimers
  <2> QED  BY <2>2, <2>3, <2>4, <2>5 DEF HandlersCalledOnce
<1> QED  BY <1>1, WholeInvariant, PTL

(***************************************************************************)
(* mReadPumpRunning is kept by hand at each place where the read pump      *)
(* starts, waits for a flush or ends; there never are two of it, or none   *)
(* that it says runs, also when receives and sends are begun by the        *)
(* handlers of CallsOnce.                                                  *)
(***************************************************************************)
THEOREM OnePump == Spec => []OneReadPump
<1>1. Whole(q) => OneReadPump
  <2> SUFFICES ASSUME Whole(q) PROVE OneReadPump
    OBVIOUS
  <2>1. InOutbox(PUMP) = IF PUMP \in Held(q) THEN 1 ELSE 0
    BY InOutboxIsHeld DEF Whole
  <2>2. PumpCounted(q, Held(q))
    BY DEF Whole, Counted
  <2> QED  BY <2>1, <2>2 DEF OneReadPump, PumpCounted
<1> QED  BY <1>1, WholeInvariant, PTL

(***************************************************************************)
(* One async_write is under way, of the front of the outbox, unless the    *)
(* handler of a send has sent when it found the outbox empty: handleWrite  *)
(* calls the handler after it has popped the outbox and before its own     *)
(* writePump, so that a send in it starts a write, and handleWrite         *)
(* another; and voidOutbox pops what such a send has begun to write.       *)
(***************************************************************************)
THEOREM OneWriteOfTheFront == Spec => []WritesFront
<1>1. AtFront(q) <=> WritesFront
  BY DEF AtFront, WritesFront
<1>2. Init => Whole(q) /\ WritesFront
  BY <1>1, InitWhole
<1>3. (Whole(q) /\ WritesFront) /\ [Next]_q => (Whole(q) /\ WritesFront)'
  <2> SUFFICES ASSUME Whole(q), WritesFront, [Next]_q PROVE (Whole(q) /\ WritesFront)'
    OBVIOUS
  <2>1. Whole(q') /\ AtFront(q')
    BY <1>1, NextWhole DEF WholeStep, Keeps
  <2>2. WritesFront'
    BY <2>1 DEF AtFront, WritesFront
  <2>3. Whole(q)'
    BY <2>1 DEF Whole, Outbox, Held, Counted, Placed, HasFields, SendsCounted,
       ReceivesCounted, Waits, HandshakesCounted, KeepalivesCounted, PumpCounted
  <2> QED  BY <2>2, <2>3
<1> QED  BY <1>2, <1>3, PTL DEF Spec

-----------------------------------------------------------------------------
(***************************************************************************)
(* Types, of a record s as q holds it.                                     *)
(***************************************************************************)
Typed(s) ==
  /\ HasFields(s)
  /\ s.pumpError \in Results
  /\ s.handshake \in {"idle", "flush", "connect", "settle"}
  /\ s.keepalive \in {"idle", "timer", "send"}
  /\ s.timers \subseteq {"handshake", "keepalive"}
  /\ s.tries \in 0 .. (MaxAttempts + 1)
  /\ s.messages \in 0 .. MaxMessages
  /\ s.waiting = << >> \/ s.messages = 0
  /\ s.outbox \in Seq(Handlers) /\ s.sends \in 0 .. MaxSends

\* t differs from s in what has no type only.
SameTyped(s, t) ==
  /\ HasFields(t)
  /\ t.pumpError \in Results
  /\ t.handshake = s.handshake /\ t.keepalive = s.keepalive /\ t.timers = s.timers
  /\ t.tries = s.tries /\ t.messages = s.messages /\ t.waiting = s.waiting
  /\ t.outbox = s.outbox /\ t.sends = s.sends

LEMMA SameTypedKeep ==
  ASSUME NEW s, NEW t, Typed(s), SameTyped(s, t)
  PROVE  Typed(t)
BY DEF Typed, SameTyped

LEMMA SmallTyped ==
  ASSUME NEW s, Typed(s)
  PROVE  /\ PumpError(s) \in Results
         /\ Typed(Asked(s)) /\ SameTyped(s, Asked(s))
         /\ \A ec : Typed(Resumed(s, ec)) /\ SameTyped(s, Resumed(s, ec))
         /\ Typed(Close(s)) /\ SameTyped(s, Close(s))
         /\ \A i : Typed(CallSend(s, i)) /\ SameTyped(s, CallSend(s, i))
         /\ \A w : Typed(CallReceives(s, w)) /\ SameTyped(s, CallReceives(s, w))
<1>1. PumpError(s) \in Results
  BY DEF PumpError, Typed, Results, Errors
<1>2. SameTyped(s, Asked(s)) /\ \A ec : SameTyped(s, Resumed(s, ec))
  <2>1. SameTyped(s, Asked(s)) /\ SameTyped(s, s)
    BY DEF Typed, SameTyped, HasFields, Asked, Results
  <2> QED  BY <2>1 DEF Resumed
<1>3. SameTyped(s, Close(s))
  BY DEF Typed, SameTyped, HasFields, Close, Results, Errors
<1>4. ASSUME NEW i PROVE SameTyped(s, CallSend(s, i))
  BY DEF Typed, SameTyped, HasFields, CallSend
<1>5. ASSUME NEW w PROVE SameTyped(s, CallReceives(s, w))
  BY DEF Typed, SameTyped, HasFields, CallReceives
<1> QED  BY <1>1, <1>2, <1>3, <1>4, <1>5, SameTypedKeep

LEMMA PumpTyped ==
  ASSUME NEW s, Typed(s)
  PROVE  /\ Typed(VoidReceives(s)) /\ VoidReceives(s).outbox = s.outbox
         /\ VoidReceives(s).pumpError = s.pumpError
         /\ \A ec \in Errors : Typed(StopReadPump(s, ec))
         /\ Typed(ReadPump(s)) /\ Typed(StartReadPump(s))
<1>1. \A t : Typed(t) =>
        Typed(VoidReceives(t)) /\ VoidReceives(t).outbox = t.outbox
          /\ VoidReceives(t).pumpError = t.pumpError
  <2> SUFFICES ASSUME NEW t, Typed(t)
               PROVE  Typed(VoidReceives(t)) /\ VoidReceives(t).outbox = t.outbox
                        /\ VoidReceives(t).pumpError = t.pumpError
    OBVIOUS
  <2> DEFINE c == CallReceives(t, t.waiting)
             v == [c EXCEPT !.waiting = << >>, !.messages = 0]
  <2>1. Typed(c) /\ c.outbox = t.outbox
    BY SmallTyped DEF SameTyped
  <2>2. c.pumpError = t.pumpError
    BY DEF Typed, HasFields, CallReceives
  <2> HIDE DEF c
  <2>3. Typed(v) /\ v.outbox = c.outbox /\ v.pumpError = c.pumpError
    BY <2>1, BoundsAssumption DEF Typed, HasFields
  <2>4. VoidReceives(t) = v
    BY DEF VoidReceives, c
  <2> QED  BY <2>1, <2>2, <2>3, <2>4
<1>2. ASSUME NEW ec \in Errors PROVE Typed(StopReadPump(s, ec))
  <2> DEFINE voided == VoidReceives(s)
             closed == IF ec = "aborted" THEN voided ELSE Close(voided)
  <2>1. Typed(closed)
    BY <1>1, SmallTyped
  <2> HIDE DEF closed
  <2>2. Typed([closed EXCEPT !.pumpRunning = FALSE, !.pumpError = ec])
    BY <2>1 DEF Typed, HasFields, Results
  <2> QED  BY <2>2 DEF StopReadPump, closed
<1>3. ASSUME NEW t, Typed(t) PROVE Typed(ReadPump(t))
  <2>1. CASE t.open
    <3>1. Typed([t EXCEPT !.reading = TRUE, !.readCut = FALSE])
      BY <1>3 DEF Typed, HasFields
    <3> QED  BY <2>1, <3>1 DEF ReadPump
  <2>2. CASE ~ t.open
    <3> DEFINE v == VoidReceives(t)
    <3>1. Typed(v)
      BY <1>1, <1>3
    <3> HIDE DEF v
    <3>2. Typed([v EXCEPT !.pumpRunning = FALSE, !.pumpError = "down"])
      BY <3>1 DEF Typed, HasFields, Results, Errors
    <3> QED  BY <2>2, <3>2 DEF ReadPump, v
  <2> QED  BY <2>1, <2>2
<1>4. Typed(StartReadPump(s))
  <2>1. Typed([s EXCEPT !.pumpRunning = TRUE, !.pumpError = "ok"])
    BY DEF Typed, HasFields, Results
  <2> QED  BY <1>3, <2>1 DEF StartReadPump
<1> QED  BY <1>1, <1>2, <1>3, <1>4

LEMMA OperationsTyped ==
  ASSUME NEW s, Typed(s), NEW ec
  PROVE  /\ Typed(HandshakeEnds(s, ec)) /\ Typed(HandshakeFlushed(s, ec))
         /\ Typed(KeepaliveEnds(s)) /\ Typed(KeepaliveSent(s, ec))
<1>1. \A t, rc : Typed(t) => Typed(HandshakeEnds(t, rc))
  <2> SUFFICES ASSUME NEW t, NEW rc, Typed(t) PROVE Typed(HandshakeEnds(t, rc))
    OBVIOUS
  <2> DEFINE closed == IF rc \in {"ok", "aborted", "gave_up"} THEN t ELSE Close(t)
  <2>1. Typed(closed)
    BY SmallTyped
  <2> HIDE DEF closed
  <2>2. Typed([closed EXCEPT !.handshake = "idle", !.handshakeComplete = @ \/ rc = "ok",
                             !.ready = rc = "ok", !.handshakeCalls = @ + 1])
    BY <2>1 DEF Typed, HasFields
  <2> QED  BY <2>2 DEF HandshakeEnds, closed
<1>2. \A t : Typed(t) => Typed(KeepaliveEnds(t))
  BY DEF Typed, HasFields, KeepaliveEnds
<1> DEFINE r == Resumed(s, ec)
<1>3. Typed(r)
  BY SmallTyped
<1>4. Typed(HandshakeFlushed(s, ec))
  <2> DEFINE place == IF s.connected THEN "settle" ELSE "connect"
             t == [r EXCEPT !.handshake = place]
  <2>1. place \in {"settle", "connect"}
    OBVIOUS
  <2> HIDE DEF r, place
  <2>2. Typed(t)
    BY <1>3, <2>1 DEF Typed, HasFields
  <2> HIDE DEF t
  <2>3. Typed(AwaitTimer(t, "handshake"))
    BY <2>2 DEF Typed, HasFields, AwaitTimer
  <2> QED  BY <1>1, <1>3, <2>3 DEF HandshakeFlushed, r, t, place
<1>5. Typed(KeepaliveSent(s, ec))
  <2> DEFINE t == [r EXCEPT !.keepalive = "timer"]
  <2> HIDE DEF r
  <2>1. Typed(t)
    BY <1>3 DEF Typed, HasFields
  <2> HIDE DEF t
  <2>2. Typed(AwaitTimer(t, "keepalive"))
    BY <2>1 DEF Typed, HasFields, AwaitTimer
  <2> QED  BY <1>2, <1>3, <2>2 DEF KeepaliveSent, r, t
<1> QED  BY <1>1, <1>2, <1>4, <1>5

LEMMA BeginWriteTyped ==
  ASSUME NEW s, Typed(s)
  PROVE  Typed(BeginWrite(s))
BY DEF Typed, HasFields, BeginWrite

LEMMA AsyncSendTyped ==
  ASSUME NEW s, Typed(s), s.sends < MaxSends
  PROVE  Typed(AsyncSend(s)) /\ Typed(SendAgain(s))
<1>1. ASSUME NEW t, Typed(t), t.sends < MaxSends PROVE Typed(SendNext(t))
  <2> DEFINE i == t.sends + 1
             queued == [t EXCEPT !.sends = i, !.outbox = Append(@, Send(i))]
  <2>1. i \in 1 .. MaxSends /\ Send(i) \in Handlers
    <3>1. i \in 1 .. MaxSends
      BY <1>1, BoundsAssumption DEF Typed
    <3> QED  BY <3>1 DEF Handlers
  <2>2. Append(t.outbox, Send(i)) \in Seq(Handlers)
    BY <1>1, <2>1, AppendProperties DEF Typed
  <2>3. Typed(queued)
    <3>1. i \in 0 .. MaxSends
      BY <2>1
    <3> HIDE DEF i
    <3> QED  BY <1>1, <2>2, <3>1 DEF Typed, HasFields
  <2> HIDE DEF queued
  <2> QED  BY <2>3, BeginWriteTyped DEF SendNext, queued
<1> DEFINE i == s.sends + 1
           last == IF s.open THEN i ELSE LastRefused(i)
           asked == Asked(s)
           refused == Refused(s, last)
<1>2. AsyncSend(s) = IF PumpError(s) = "ok" THEN SendNext(asked)
                     ELSE IF s.open /\ Retries(i) THEN SendNext(refused)
                     ELSE refused
  BY DEF AsyncSend, Refused
<1>3. i \in 1 .. MaxSends
  BY BoundsAssumption DEF Typed
<1>4. last \in i .. MaxSends /\ (s.open => last = i)
  BY <1>3, LastRefusedFollows
<1>5. Typed(asked) /\ asked.sends = s.sends
  BY SmallTyped DEF SameTyped
<1> HIDE DEF asked, last
<1>6. Typed(refused) /\ refused.sends = last
  <2>1. last \in 0 .. MaxSends
    BY <1>3, <1>4
  <2> QED  BY <1>5, <2>1 DEF Typed, HasFields, Refused, asked
<1> HIDE DEF refused
<1>7. Typed(AsyncSend(s))
  <2>1. Typed(SendNext(asked))
    BY <1>1, <1>5
  <2>2. s.open /\ Retries(i) => refused.sends < MaxSends
    BY <1>4, <1>6 DEF Retries
  <2> QED  BY <1>1, <1>2, <1>6, <2>1, <2>2
<1>8. Typed(SendAgain(s))
  <2> DEFINE sent == AsyncSend(s)
             t == [sent EXCEPT !.nested = @ \/ sent.writing # s.writing]
  <2>1. SendAgain(s) = t
    BY DEF SendAgain
  <2> HIDE DEF sent
  <2> QED  BY <1>7, <2>1 DEF Typed, HasFields, sent
<1> QED  BY <1>7, <1>8

\* A handler in hand is called, with an error or without.
LEMMA CallTyped ==
  ASSUME NEW s, Typed(s), NEW h \in Handlers
  PROVE  /\ Typed(CallOK(s, h))
         /\ \A ec \in Errors : Typed(CallWithError(s, h, ec))
<1> DEFINE called == CallSend(s, h.id)
<1>1. Typed(called) /\ (MaySend(s) => Typed(SendAgain(called)))
  <2>1. Typed(called) /\ called.sends = s.sends
    BY SmallTyped DEF SameTyped
  <2> HIDE DEF called
  <2> QED  BY <2>1, AsyncSendTyped DEF MaySend
<1>2. CASE h.op = "send"
  <2> HIDE DEF called
  <2> QED  BY <1>1, <1>2 DEF CallOK, CallWithError, called
<1>3. CASE h.op = "pump"
  BY <1>3, PumpTyped DEF CallOK, CallWithError
<1>4. CASE h.op = "handshake"
  BY <1>4, OperationsTyped DEF CallOK, CallWithError
<1>5. CASE h.op = "keepalive"
  BY <1>5, OperationsTyped DEF CallOK, CallWithError
<1> QED  BY <1>2, <1>3, <1>4, <1>5, HandlerKinds

LEMMA VoidOutboxTyped ==
  ASSUME NEW s, Typed(s), NEW ec \in Errors
  PROVE  Typed(VoidOutbox(s, ec))
<1>1. ASSUME NEW t, Typed(t) PROVE Typed(VoidFront(t, ec))
  <2>1. CASE t.outbox = << >>
    BY <1>1, <2>1 DEF VoidFront
  <2>2. CASE t.outbox # << >>
    <3> DEFINE popped == [t EXCEPT !.outbox = Tail(@)]
    <3>1. Head(t.outbox) \in Handlers /\ Tail(t.outbox) \in Seq(Handlers)
      BY <1>1, <2>2, HeadTailProperties DEF Typed
    <3>2. Typed(popped)
      BY <1>1, <3>1 DEF Typed, HasFields
    <3> HIDE DEF popped
    <3> QED  BY <2>2, <3>1, <3>2, CallTyped DEF VoidFront, popped
  <2> QED  BY <2>1, <2>2
<1> DEFINE turns == Room(s)
<1>2. turns \in Nat
  <2>1. Len(s.outbox) \in Nat
    BY LenProperties DEF Typed
  <2> QED  BY <2>1, BoundsAssumption DEF Typed, Room
<1> HIDE DEF turns
<1>3. PICK g :
        /\ g[0] = s
        /\ \A n \in 1 .. turns : g[n] = VoidFront(g[n - 1], ec)
        /\ VoidOutbox(s, ec) = g[turns]
  BY <1>2, VoidOutboxTurns DEF turns
<1> DEFINE T == {n \in Nat : n <= turns => Typed(g[n])}
<1>4. 0 \in T
  BY <1>3
<1>5. ASSUME NEW n \in Nat, n \in T PROVE n + 1 \in T
  <2> SUFFICES ASSUME n + 1 <= turns PROVE Typed(g[n + 1])
    OBVIOUS
  <2>1. n + 1 \in 1 .. turns /\ (n + 1) - 1 = n /\ Typed(g[n])
    BY <1>2, <1>5
  <2>2. g[n + 1] = VoidFront(g[n], ec)
    BY <1>3, <2>1
  <2> QED  BY <1>1, <2>1, <2>2
<1>6. Nat \subseteq T
  <2> HIDE DEF T
  <2> QED  BY <1>4, <1>5, SetInduction
<1>7. Typed(g[turns])
  BY <1>2, <1>6
<1> QED  BY <1>3, <1>7

LEMMA OutputTyped ==
  ASSUME NEW s, Typed(s)
  PROVE  /\ Typed(WritePump(s))
         /\ \A h \in Handlers : Typed(FlushWriteBuffer(s, h))
<1>1. ASSUME NEW t, Typed(t) PROVE Typed(WritePump(t))
  <2>1. "down" \in Errors
    BY DEF Errors
  <2> QED  BY <1>1, <2>1, BeginWriteTyped, VoidOutboxTyped DEF WritePump
<1>2. ASSUME NEW h \in Handlers PROVE Typed(FlushWriteBuffer(s, h))
  <2> DEFINE queued == [s EXCEPT !.outbox = Append(@, h)]
  <2>1. Append(s.outbox, h) \in Seq(Handlers)
    BY AppendProperties DEF Typed
  <2>2. Typed(queued)
    BY <2>1 DEF Typed, HasFields
  <2> HIDE DEF queued
  <2> QED  BY <1>1, <2>2 DEF FlushWriteBuffer, queued
<1> QED  BY <1>1, <1>2

LEMMA AsyncReceiveTyped ==
  ASSUME NEW s, Typed(s)
  PROVE  Typed(AsyncReceive(s))
<1> DEFINE i == s.receives + 1
           a == Asked(s)
           begun == [a EXCEPT !.receives = i]
           called == CallReceives(begun, <<i>>)
<1>1. Typed(a) /\ SameTyped(s, a)
  BY SmallTyped
<1> HIDE DEF a
<1>2. Typed(begun) /\ begun.messages = s.messages /\ begun.waiting = s.waiting
  BY <1>1 DEF Typed, SameTyped, HasFields
<1> HIDE DEF begun
<1>3. Typed(called) /\ called.messages = s.messages /\ called.waiting = s.waiting
  <2>1. \A w : Typed(CallReceives(begun, w)) /\ SameTyped(begun, CallReceives(begun, w))
    BY <1>2, SmallTyped
  <2>2. Typed(called) /\ SameTyped(begun, called)
    <3> HIDE DEF i
    <3> QED  BY <2>1
  <2> QED  BY <1>2, <2>2 DEF SameTyped
<1> HIDE DEF called
<1>4. ASSUME s.messages > 0 PROVE Typed([called EXCEPT !.messages = @ - 1])
  <2>1. called.messages - 1 \in 0 .. MaxMessages /\ called.waiting = << >>
    BY <1>3, <1>4, BoundsAssumption DEF Typed
  <2> QED  BY <1>3, <2>1 DEF Typed, HasFields
<1>5. ~ s.messages > 0 => Typed([begun EXCEPT !.waiting = Append(@, i)])
  BY <1>2, BoundsAssumption DEF Typed, HasFields
<1> QED  BY <1>3, <1>4, <1>5 DEF AsyncReceive, a, begun, called

LEMMA GiveMessageTyped ==
  ASSUME NEW s, Typed(s), s.waiting # << >>
  PROVE  Typed(GiveMessage(s))
<1> DEFINE i == Head(s.waiting)
           called == CallReceives(s, <<i>>)
           given == [called EXCEPT !.waiting = Tail(@)]
           answered == IF i \in AnsweredReceives /\ MaySend(s) THEN AsyncSend(given)
                                                              ELSE given
<1>1. /\ Typed(called) /\ called.messages = s.messages /\ called.waiting = s.waiting
      /\ called.sends = s.sends
  BY SmallTyped DEF SameTyped
<1>2. GiveMessage(s)
        = IF i \in ChainedReceives /\ MayReceive(s) THEN AsyncReceive(answered) ELSE answered
  BY DEF GiveMessage
<1> HIDE DEF called
<1>3. Typed(given) /\ given.sends = s.sends
  <2>1. called.messages = 0
    BY <1>1 DEF Typed
  <2> QED  BY <1>1, <2>1 DEF Typed, HasFields
<1> HIDE DEF given
<1>4. Typed(answered)
  BY <1>3, AsyncSendTyped DEF MaySend
<1> HIDE DEF answered
<1> QED  BY <1>2, <1>4, AsyncReceiveTyped

LEMMA HandshakesTyped ==
  ASSUME NEW s, Typed(s)
  PROVE  Typed(HandshakeTimer(s)) /\ Typed(KeepaliveTimer(s)) /\ Typed(BeginHandshake(s))
<1>0. HANDSHAKE \in Handlers /\ KEEPALIVE \in Handlers
  BY DEF Handlers
<1>1. ASSUME NEW t, Typed(t) PROVE Typed(Attempt(t))
  <2> DEFINE u == [t EXCEPT !.connected = FALSE, !.tries = @ + 1, !.handshake = "flush"]
  <2>1. CASE t.tries > MaxAttempts
    BY <1>1, <2>1, OperationsTyped DEF Attempt
  <2>2. CASE ~ t.tries > MaxAttempts
    <3>1. t.tries + 1 \in 0 .. (MaxAttempts + 1)
      BY <1>1, <2>2, BoundsAssumption DEF Typed
    <3>2. Typed(u)
      BY <1>1, <3>1 DEF Typed, HasFields
    <3> HIDE DEF u
    <3>3. Typed(FlushWriteBuffer(u, HANDSHAKE))
      BY <1>0, <3>2, OutputTyped
    <3> QED  BY <2>2, <3>3 DEF Attempt, u
  <2> QED  BY <2>1, <2>2
<1>2. ASSUME NEW t, Typed(t) PROVE Typed(Settle(t))
  BY <1>2 DEF Typed, HasFields, Settle, AwaitTimer
<1> DEFINE a == Asked(s)
<1>3. Typed(a)
  BY SmallTyped
<1> HIDE DEF a
<1>4. Typed(HandshakeTimer(s))
  BY <1>1, <1>2, <1>3, OperationsTyped DEF HandshakeTimer, a
<1>5. Typed(KeepaliveTimer(s))
  <2> DEFINE t == [a EXCEPT !.keepalive = "send"]
  <2>1. Typed(t)
    BY <1>3 DEF Typed, HasFields
  <2> HIDE DEF t
  <2>2. Typed(FlushWriteBuffer(t, KEEPALIVE)) /\ Typed(KeepaliveEnds(a))
    BY <1>0, <1>3, <2>1, OutputTyped, OperationsTyped
  <2> QED  BY <2>2 DEF KeepaliveTimer, a, t
<1>6. Typed(BeginHandshake(s))
  <2> DEFINE v == VoidReceives(a)
             reset == [v EXCEPT !.handshakeComplete = FALSE, !.connected = FALSE, !.tries = 0]
  <2>1. Typed(v)
    BY <1>3, PumpTyped
  <2> HIDE DEF v
  <2>2. Typed(reset)
    BY <2>1, BoundsAssumption DEF Typed, HasFields
  <2> HIDE DEF reset
  <2>3. Typed(Attempt(StartReadPump(reset)))
    BY <1>1, <2>2, PumpTyped
  <2>4. Typed(HandshakeEnds(a, PumpError(s)))
    BY <1>3, OperationsTyped
  <2> QED  BY <2>3, <2>4 DEF BeginHandshake, a, v, reset
<1> QED  BY <1>4, <1>5, <1>6

LEMMA UsersTyped ==
  ASSUME Typed(q),
         UserSend \/ UserReceive \/ UserHandshake \/ UserKeepalive \/ UserClose \/ Reopen
  PROVE  Typed(q')
<1>1. CASE UserSend
  BY <1>1, AsyncSendTyped DEF UserSend, MaySend
<1>2. CASE UserReceive
  BY <1>2, AsyncReceiveTyped DEF UserReceive
<1>3. CASE UserHandshake
  <2> DEFINE t == [q EXCEPT !.handshakes = @ + 1, !.ready = FALSE]
  <2>1. Typed(t)
    BY DEF Typed, HasFields
  <2> HIDE DEF t
  <2> QED  BY <1>3, <2>1, HandshakesTyped DEF UserHandshake, t
<1>4. CASE UserKeepalive
  <2> DEFINE t == [q EXCEPT !.keepalives = @ + 1]
  <2>1. Typed(t)
    BY DEF Typed, HasFields
  <2> HIDE DEF t
  <2> QED  BY <1>4, <2>1, OperationsTyped DEF UserKeepalive, t
<1>5. CASE UserClose
  BY <1>5, SmallTyped DEF UserClose
<1>6. CASE Reopen
  <2>1. Typed([q EXCEPT !.open = TRUE, !.ready = FALSE, !.reopens = @ + 1])
    BY DEF Typed, HasFields
  <2> QED  BY <1>6, <2>1 DEF Reopen
<1> QED  BY <1>1, <1>2, <1>3, <1>4, <1>5, <1>6

LEMMA HandleReadTyped == Typed(q) /\ HandleRead => Typed(q')
<1> SUFFICES ASSUME Typed(q), HandleRead PROVE Typed(q')
  OBVIOUS
<1>1. PICK g, connected :
        /\ Receives(g)
        /\ LET t == [g EXCEPT !.reading = FALSE, !.connected = connected] IN
           q' = FlushWriteBuffer(t, PUMP) \/ q' = CallOK(t, PUMP)
  BY ReadIsTaken
<1> DEFINE t == [g EXCEPT !.reading = FALSE, !.connected = connected]
<1>2. Typed(g)
  <2>1. CASE g = q
    BY <2>1
  <2>2. CASE q.waiting # << >> /\ g = GiveMessage(q)
    BY <2>2, GiveMessageTyped
  <2>3. CASE /\ q.waiting = << >> /\ q.messages < MaxMessages
             /\ g = [q EXCEPT !.messages = @ + 1]
    <3>1. q.messages + 1 \in 0 .. MaxMessages
      BY <2>3, BoundsAssumption DEF Typed
    <3> QED  BY <2>3, <3>1 DEF Typed, HasFields
  <2> QED  BY <1>1, <2>1, <2>2, <2>3 DEF Receives
<1>3. Typed(t)
  BY <1>2 DEF Typed, HasFields
<1>4. q' = FlushWriteBuffer(t, PUMP) \/ q' = CallOK(t, PUMP)
  BY <1>1
<1> HIDE DEF t
<1>5. PUMP \in Handlers
  BY DEF Handlers
<1> QED  BY <1>3, <1>4, <1>5, OutputTyped, CallTyped

LEMMA CompletionsTyped ==
  ASSUME Typed(q), HandleReadError \/ HandleWrite \/ HandleWriteError \/ HandleTimer
  PROVE  Typed(q')
<1>1. CASE HandleReadError
  <2> DEFINE t == [q EXCEPT !.reading = FALSE]
  <2>1. Typed(t)
    BY DEF Typed, HasFields
  <2> HIDE DEF t
  <2>2. PICK ec \in Errors : q' = StopReadPump(t, ec)
    BY <1>1 DEF HandleReadError, Errors, t
  <2> QED  BY <2>1, <2>2, PumpTyped
<1>2. CASE HandleWrite
  <2>1. CASE q.outbox = << >> /\ q' = [q EXCEPT !.undefined = TRUE]
    BY <2>1 DEF Typed, HasFields
  <2>2. CASE /\ q.outbox # << >>
             /\ LET popped == [q EXCEPT !.writing = Tail(@), !.outbox = Tail(@)]
                IN  q' = WritePump(CallOK(popped, Head(q.outbox)))
    <3> DEFINE popped == [q EXCEPT !.writing = Tail(@), !.outbox = Tail(@)]
    <3>1. q' = WritePump(CallOK(popped, Head(q.outbox)))
      BY <2>2
    <3>2. Head(q.outbox) \in Handlers /\ Tail(q.outbox) \in Seq(Handlers)
      BY <2>2, HeadTailProperties DEF Typed
    <3>3. Typed(popped)
      BY <3>2 DEF Typed, HasFields
    <3> HIDE DEF popped
    <3> QED  BY <3>1, <3>2, <3>3, CallTyped, OutputTyped
  <2> QED  BY <1>2, <2>1, <2>2 DEF HandleWrite
<1>3. CASE HandleWriteError
  <2> DEFINE t == [q EXCEPT !.writing = Tail(@)]
  <2>1. Typed(t)
    BY DEF Typed, HasFields
  <2> HIDE DEF t
  <2>2. PICK ec \in Errors : q' = IF ec = "aborted" THEN VoidOutbox(t, ec)
                                                  ELSE Close(VoidOutbox(t, ec))
    BY <1>3 DEF HandleWriteError, Errors, t
  <2> QED  BY <2>1, <2>2, VoidOutboxTyped, SmallTyped
<1>4. CASE HandleTimer
  <2>1. PICK op \in q.timers :
          LET s == [q EXCEPT !.timers = @ \ {op}] IN
          \/ op = "handshake" /\ q' = HandshakeTimer(s)
          \/ op = "keepalive" /\ q' = KeepaliveTimer(s)
    BY <1>4 DEF HandleTimer
  <2> DEFINE s == [q EXCEPT !.timers = @ \ {op}]
  <2>2. Typed(s)
    BY DEF Typed, HasFields
  <2>3. q' = HandshakeTimer(s) \/ q' = KeepaliveTimer(s)
    BY <2>1
  <2> HIDE DEF s
  <2> QED  BY <2>2, <2>3, HandshakesTyped
<1> QED  BY <1>1, <1>2, <1>3, <1>4

(***************************************************************************)
(* The type invariant: a handshake gives up when it has written its SYN0   *)
(* MaxAttempts + 1 times, and no receive waits while there is a message,   *)
(* also when receives and sends are begun by the handlers of CallsOnce.    *)
(***************************************************************************)
THEOREM QueueTypes == Spec => []TypeOK
<1>1. Init => Typed(q)
  <2>1. << >> \in Seq(Handlers)
    BY EmptySeq
  <2> QED  BY <2>1, BoundsAssumption DEF Init, Typed, HasFields, Results
<1>2. Typed(q) /\ [Next]_q => Typed(q)'
  BY UsersTyped, HandleReadTyped, CompletionsTyped DEF Next
<1>3. Typed(q) => TypeOK
  BY DEF Typed, TypeOK
<1> QED  BY <1>1, <1>2, <1>3, PTL DEF Spec

-----------------------------------------------------------------------------
(***************************************************************************)
(* A user of the message queue who has shaken hands on an open stream has  *)
(* a read pump, if no keepalive runs beside a new handshake and until the  *)
(* handler of a send has begun a write.  The invariant that is inductive   *)
(* as long, of a record s as q holds it.                                   *)
(***************************************************************************)
\* A handshake is alone to ask for mReadPumpError, so that the error of a
\* read pump that has stopped is still there when it next asks; and what it
\* has heard, it has heard from a read of the stream as it is now.
HandshakeIsTold(s) ==
  s.handshake # "idle" =>
    /\ s.keepalive = "idle" /\ ~ s.ready
    /\ s.pumpError = "ok" =>
         s.open /\ s.pumpRunning /\ (s.connected /\ s.reading => ~ s.readCut)

\* The read of a user who is ready is of the stream as it is now.
UserIsHeard(s) ==
  s.ready /\ s.open => s.pumpRunning /\ (s.reading => ~ s.readCut)

\* So is the write; a handshake that waits for its timer relies on it too.
FreshWrite(s) ==
  s.outbox # << >>
    /\ ((s.ready /\ s.open) \/ ("handshake" \in s.timers /\ s.pumpError = "ok"))
      => ~ s.writeCut

Heard(s) == HasFields(s) /\ HandshakeIsTold(s) /\ UserIsHeard(s)
Listens(s) == Heard(s) /\ FreshWrite(s)

-----------------------------------------------------------------------------
(***************************************************************************)
(* What the small steps leave as it was.                                   *)
(***************************************************************************)
SameLine(s, t) ==
  /\ HasFields(t)
  /\ t.open = s.open /\ t.connected = s.connected /\ t.pumpRunning = s.pumpRunning
  /\ t.reading = s.reading /\ t.readCut = s.readCut /\ t.writeCut = s.writeCut
  /\ t.outbox = s.outbox /\ t.writing = s.writing /\ t.timers = s.timers
  /\ t.handshake = s.handshake /\ t.keepalive = s.keepalive /\ t.ready = s.ready

LEMMA AskedSameLine ==
  ASSUME NEW s, HasFields(s), NEW ec
  PROVE  /\ SameLine(s, Asked(s)) /\ Asked(s).pumpError = "ok"
         /\ SameLine(s, Resumed(s, ec))
         /\ Resumed(s, ec).pumpError = IF Own(ec) THEN s.pumpError ELSE "ok"
BY DEF HasFields, Asked, Resumed, SameLine

LEMMA CallsSameLine ==
  ASSUME NEW s, HasFields(s), NEW i, NEW w
  PROVE  /\ SameLine(s, CallSend(s, i)) /\ CallSend(s, i).pumpError = s.pumpError
         /\ SameLine(s, CallReceives(s, w)) /\ CallReceives(s, w).pumpError = s.pumpError
         /\ SameLine(s, VoidReceives(s)) /\ VoidReceives(s).pumpError = s.pumpError
BY DEF HasFields, CallSend, CallReceives, VoidReceives, SameLine

\* A send may also begin a write, and then of the stream as it is now.
SameEar(s, t) ==
  /\ HasFields(t)
  /\ t.open = s.open /\ t.connected = s.connected /\ t.pumpRunning = s.pumpRunning
  /\ t.reading = s.reading /\ t.readCut = s.readCut /\ t.timers = s.timers
  /\ t.handshake = s.handshake /\ t.keepalive = s.keepalive /\ t.ready = s.ready

Written(s, t) ==
  t.outbox # << >> => ~ t.writeCut \/ (s.outbox # << >> /\ t.writeCut = s.writeCut)

LEMMA PumpErrorIsOK ==
  ASSUME NEW s
  PROVE  PumpError(s) = "ok" <=> s.pumpError = "ok" /\ s.open
BY DEF PumpError

LEMMA SameLineListens ==
  ASSUME NEW s, NEW t, SameLine(s, t),
         t.pumpError = s.pumpError \/ (s.handshake = "idle" /\ "handshake" \notin s.timers)
  PROVE  (Heard(s) => Heard(t)) /\ (Listens(s) => Listens(t))
BY DEF SameLine, Heard, Listens, HandshakeIsTold, UserIsHeard, FreshWrite

LEMMA SameEarListens ==
  ASSUME NEW s, NEW t, SameEar(s, t), s.handshake = "idle", "handshake" \notin s.timers
  PROVE  /\ Heard(s) => Heard(t)
         /\ Written(s, t) /\ Listens(s) => Listens(t)
BY DEF SameEar, Written, Heard, Listens, HandshakeIsTold, UserIsHeard, FreshWrite

LEMMA ReadyIsIdle ==
  ASSUME NEW s, Whole(s), HandshakeIsTold(s), s.ready
  PROVE  s.handshake = "idle" /\ "handshake" \notin s.timers
BY DEF Whole, Placed, HandshakeIsTold

LEMMA ClosedListens ==
  ASSUME NEW s, HasFields(s), s.handshake # "idle" => s.keepalive = "idle" /\ ~ s.ready
  PROVE  Listens(Close(s))
BY DEF HasFields, Close, Listens, Heard, HandshakeIsTold, UserIsHeard, FreshWrite

-----------------------------------------------------------------------------
(***************************************************************************)
(* Sends and receives of a user who is ready, or of the user's handlers.   *)
(***************************************************************************)
LEMMA SendNextHears ==
  ASSUME NEW s, HasFields(s)
  PROVE  SameEar(s, SendNext(s)) /\ Written(s, SendNext(s))
<1> DEFINE i == s.sends + 1
           queued == [s EXCEPT !.sends = i, !.outbox = Append(@, Send(i))]
           t == SendNext(s)
<1>1. /\ SameEar(s, queued) /\ queued.writeCut = s.writeCut
      /\ queued.outbox = Append(s.outbox, Send(i))
  BY DEF SameEar, HasFields
<1>2. t = IF Len(queued.outbox) = 1 THEN BeginWrite(queued) ELSE queued
  BY DEF SendNext
<1> HIDE DEF queued, t
<1>3. CASE Len(queued.outbox) = 1
  <2>1. SameEar(queued, t) /\ ~ t.writeCut
    BY <1>1, <1>2, <1>3 DEF SameEar, HasFields, BeginWrite
  <2> QED  BY <1>1, <2>1 DEF SameEar, Written, t
<1>4. CASE Len(queued.outbox) # 1
  <2>1. s.outbox # << >>
    BY <1>1, <1>4
  <2> QED  BY <1>1, <1>2, <1>4, <2>1 DEF Written, t
<1> QED  BY <1>3, <1>4

LEMMA AsyncSendHears ==
  ASSUME NEW s, HasFields(s)
  PROVE  SameEar(s, AsyncSend(s)) /\ Written(s, AsyncSend(s))
<1> DEFINE i == s.sends + 1
           last == IF s.open THEN i ELSE LastRefused(i)
           asked == Asked(s)
           calls == [j \in 1 .. MaxSends |->
                       asked.sendCalls[j] + (IF j \in i .. last THEN 1 ELSE 0)]
           refused == [asked EXCEPT !.sends = last, !.sendCalls = calls]
           t == AsyncSend(s)
<1>1. t \in {SendNext(asked), SendNext(refused), refused}
  BY DEF AsyncSend
<1>2. SameLine(s, asked)
  BY AskedSameLine
<1> HIDE DEF asked, t
<1>3. SameLine(s, refused)
  BY <1>2 DEF SameLine, HasFields
<1> HIDE DEF refused
<1>4. ASSUME NEW u, SameLine(s, u)
      PROVE  /\ SameEar(s, u) /\ Written(s, u)
             /\ SameEar(s, SendNext(u)) /\ Written(s, SendNext(u))
  <2>1. SameEar(u, SendNext(u)) /\ Written(u, SendNext(u))
    BY <1>4, SendNextHears DEF SameLine
  <2> QED  BY <1>4, <2>1 DEF SameLine, SameEar, Written
<1> QED  BY <1>1, <1>2, <1>3, <1>4 DEF t

LEMMA AsyncSendListens ==
  ASSUME NEW s, Whole(s), Listens(s), s.ready
  PROVE  Listens(AsyncSend(s)) /\ SameEar(s, AsyncSend(s))
<1>1. s.handshake = "idle" /\ "handshake" \notin s.timers
  BY ReadyIsIdle DEF Listens, Heard
<1>2. SameEar(s, AsyncSend(s)) /\ Written(s, AsyncSend(s))
  BY AsyncSendHears DEF Listens, Heard
<1> QED  BY <1>1, <1>2, SameEarListens

LEMMA SendAgainHears ==
  ASSUME NEW s, HasFields(s)
  PROVE  SameEar(s, SendAgain(s))
<1> DEFINE sent == AsyncSend(s)
           t == SendAgain(s)
<1>1. SameEar(s, sent)
  BY AsyncSendHears
<1>2. t = [sent EXCEPT !.nested = @ \/ sent.writing # s.writing]
  BY DEF SendAgain
<1> HIDE DEF sent, t
<1>3. SameEar(s, t)
  BY <1>1, <1>2 DEF SameEar, HasFields
<1> QED  BY <1>3 DEF t

LEMMA AsyncReceiveListens ==
  ASSUME NEW s, Listens(s), s.handshake = "idle", "handshake" \notin s.timers
  PROVE  Listens(AsyncReceive(s))
<1> DEFINE i == s.receives + 1
           asked == Asked(s)
           begun == [asked EXCEPT !.receives = i]
           called == CallReceives(begun, <<i>>)
           taken == [called EXCEPT !.messages = @ - 1]
           waits == [begun EXCEPT !.waiting = Append(@, i)]
           t == AsyncReceive(s)
<1>1. t \in {called, taken, waits}
  BY DEF AsyncReceive
<1> HIDE DEF t
<1>2. SameLine(s, asked)
  BY AskedSameLine DEF Listens, Heard
<1> HIDE DEF asked
<1>3. SameLine(s, begun)
  BY <1>2 DEF SameLine, HasFields
<1> HIDE DEF begun
<1>4. SameLine(s, called)
  <2>1. HasFields(begun)
    BY <1>3 DEF SameLine
  <2>2. SameLine(begun, called)
    BY <2>1, CallsSameLine
  <2> HIDE DEF called
  <2> QED  BY <1>3, <2>2 DEF SameLine
<1> HIDE DEF called
<1>5. SameLine(s, taken) /\ SameLine(s, waits)
  BY <1>3, <1>4 DEF SameLine, HasFields
<1> HIDE DEF taken, waits
<1>6. SameLine(s, t)
  BY <1>1, <1>4, <1>5
<1> QED  BY <1>6, SameLineListens DEF t

LEMMA GiveMessageListens ==
  ASSUME NEW s, Whole(s), Listens(s), s.waiting # << >>
  PROVE  Listens(GiveMessage(s))
<1> DEFINE i == Head(s.waiting)
           called == CallReceives(s, <<i>>)
           given == [called EXCEPT !.waiting = Tail(@)]
           answered == IF i \in AnsweredReceives /\ MaySend(s) THEN AsyncSend(given)
                                                              ELSE given
           t == GiveMessage(s)
<1>1. t = IF i \in ChainedReceives /\ MayReceive(s) THEN AsyncReceive(answered) ELSE answered
  BY DEF GiveMessage
<1> HIDE DEF t
<1>2. SameLine(s, called) /\ called.pumpError = s.pumpError
  BY CallsSameLine DEF Listens, Heard
<1> HIDE DEF called
<1>3. SameLine(s, given) /\ given.pumpError = s.pumpError
  BY <1>2 DEF SameLine, HasFields
<1> HIDE DEF given
<1>4. Listens(given) /\ SameEar(s, given)
  BY <1>3, SameLineListens DEF SameLine, SameEar
<1>5. s.ready => s.handshake = "idle" /\ "handshake" \notin s.timers
  BY ReadyIsIdle DEF Listens, Heard
<1>6. Listens(answered) /\ SameEar(s, answered)
  <2>1. CASE i \in AnsweredReceives /\ MaySend(s)
    <3>1. given.handshake = "idle" /\ "handshake" \notin given.timers
      BY <1>4, <1>5, <2>1 DEF SameEar, MaySend
    <3>2. SameEar(given, AsyncSend(given)) /\ Written(given, AsyncSend(given))
      BY <1>4, AsyncSendHears DEF SameEar
    <3>3. Listens(AsyncSend(given))
      BY <1>4, <3>1, <3>2, SameEarListens
    <3> QED  BY <1>4, <2>1, <3>2, <3>3 DEF SameEar
  <2>2. CASE ~ (i \in AnsweredReceives /\ MaySend(s))
    BY <1>4, <2>2
  <2> QED  BY <2>1, <2>2
<1> HIDE DEF answered
<1>7. MayReceive(s) => Listens(AsyncReceive(answered))
  BY <1>5, <1>6, AsyncReceiveListens DEF MayReceive, SameEar
<1> QED  BY <1>1, <1>6, <1>7 DEF t

-----------------------------------------------------------------------------
(***************************************************************************)
(* The handlers of the queue, called without an error or with one.         *)
(***************************************************************************)
\* However stopReadPump is called, whoever asks next is told.
LEMMA StopReadPumpTells ==
  ASSUME NEW s, NEW ec, HasFields(s), ec # "ok"
  PROVE  LET t == StopReadPump(s, ec) IN
         /\ HasFields(t) /\ t.pumpError # "ok"
         /\ t.open => s.open /\ ec = "aborted"
         /\ t.handshake = s.handshake /\ t.keepalive = s.keepalive /\ t.ready = s.ready
         /\ t.timers = s.timers /\ t.outbox = s.outbox
<1> DEFINE voided == VoidReceives(s)
<1>1. SameLine(s, voided)
  BY CallsSameLine
<1> HIDE DEF voided
<1>2. StopReadPump(s, ec)
        = [(IF ec = "aborted" THEN voided ELSE Close(voided)) EXCEPT
             !.pumpRunning = FALSE, !.pumpError = ec]
  BY DEF StopReadPump, voided
<1>3. CASE ec = "aborted"
  BY <1>1, <1>2, <1>3 DEF SameLine, HasFields
<1>4. CASE ec # "aborted"
  BY <1>1, <1>2, <1>4 DEF SameLine, HasFields, Close
<1> QED  BY <1>3, <1>4

LEMMA ReadPumpHears ==
  ASSUME NEW s, Heard(s), ~ s.reading
  PROVE  LET t == ReadPump(s) IN
         /\ Heard(t) /\ (Listens(s) => Listens(t))
         /\ s.open => /\ t.pumpRunning = s.pumpRunning /\ ~ t.readCut
                      /\ t.pumpError = s.pumpError /\ t.open
<1> DEFINE voided == VoidReceives(s)
           t == ReadPump(s)
<1>1. SameLine(s, voided) /\ HasFields(s)
  BY CallsSameLine DEF Heard
<1> HIDE DEF voided
<1>2. CASE s.open
  <2>1. t = [s EXCEPT !.reading = TRUE, !.readCut = FALSE]
    BY <1>2 DEF ReadPump
  <2> QED
    BY <1>1, <1>2, <2>1
    DEF HasFields, Heard, Listens, HandshakeIsTold, UserIsHeard, FreshWrite
<1>3. CASE ~ s.open
  <2>1. t = [voided EXCEPT !.pumpRunning = FALSE, !.pumpError = "down"]
    BY <1>3 DEF ReadPump, voided
  <2> QED
    BY <1>1, <1>3, <2>1
    DEF SameLine, HasFields, Heard, Listens, HandshakeIsTold, UserIsHeard, FreshWrite
<1> QED  BY <1>2, <1>3

LEMMA HandshakeEndsHears ==
  ASSUME NEW s, NEW rc, HasFields(s), "handshake" \notin s.timers, rc # "ok"
  PROVE  LET t == HandshakeEnds(s, rc) IN
         /\ Listens(t) /\ t.handshake = "idle" /\ ~ t.ready /\ (t.open => s.open)
<1> DEFINE closed == IF rc \in {"ok", "aborted", "gave_up"} THEN s ELSE Close(s)
           t == HandshakeEnds(s, rc)
<1>1. /\ HasFields(closed) /\ closed.timers = s.timers /\ (closed.open => s.open)
  BY DEF Close, HasFields
<1>2. t = [closed EXCEPT !.handshake = "idle",
                         !.handshakeComplete = @ \/ rc = "ok",
                         !.ready = rc = "ok",
                         !.handshakeCalls = @ + 1]
  BY DEF HandshakeEnds
<1> HIDE DEF closed
<1>3. /\ HasFields(t) /\ t.handshake = "idle" /\ ~ t.ready /\ (t.open => s.open)
      /\ t.timers = s.timers
  BY <1>1, <1>2 DEF HasFields
<1> QED  BY <1>3 DEF Listens, Heard, HandshakeIsTold, UserIsHeard, FreshWrite

LEMMA HandshakeFlushedHears ==
  ASSUME NEW s, NEW ec, Heard(s), s.handshake # "idle", "handshake" \notin s.timers
  PROVE  LET t == HandshakeFlushed(s, ec) IN Heard(t) /\ ~ t.ready /\ (t.open => s.open)
<1> DEFINE r == Resumed(s, ec)
           t == HandshakeFlushed(s, ec)
<1>1. /\ SameLine(s, r) /\ HasFields(s)
      /\ r.pumpError = IF Own(ec) THEN s.pumpError ELSE "ok"
  BY AskedSameLine DEF Heard
<1> HIDE DEF r
<1>2. CASE OpError(s, ec) # "ok"
  <2>1. t = HandshakeEnds(r, OpError(s, ec))
    BY <1>2 DEF HandshakeFlushed, r
  <2>2. HasFields(r) /\ "handshake" \notin r.timers /\ r.open = s.open
    BY <1>1 DEF SameLine
  <2> QED  BY <1>2, <2>1, <2>2, HandshakeEndsHears DEF Listens
<1>3. CASE OpError(s, ec) = "ok"
  <2>1. ~ Own(ec) /\ s.pumpError = "ok" /\ s.open
    BY <1>3, PumpErrorIsOK DEF OpError, Own
  <2> DEFINE p == IF s.connected THEN "settle" ELSE "connect"
  <2>2. t = [[r EXCEPT !.handshake = p] EXCEPT !.timers = @ \cup {"handshake"}]
    BY <1>3 DEF HandshakeFlushed, AwaitTimer, r
  <2>3. /\ HasFields(t) /\ t.open = s.open /\ t.pumpRunning = s.pumpRunning
        /\ t.connected = s.connected /\ t.reading = s.reading /\ t.readCut = s.readCut
        /\ t.keepalive = s.keepalive /\ t.ready = s.ready /\ t.handshake = p
    BY <1>1, <2>2 DEF SameLine, HasFields
  <2> HIDE DEF t
  <2> QED  BY <2>1, <2>3 DEF Heard, HandshakeIsTold, UserIsHeard, t
<1> QED  BY <1>2, <1>3

LEMMA KeepaliveSentHears ==
  ASSUME NEW s, NEW ec, HasFields(s), s.handshake = "idle"
  PROVE  LET t == KeepaliveSent(s, ec) IN
         /\ HasFields(t) /\ HandshakeIsTold(t) /\ (UserIsHeard(s) => UserIsHeard(t))
         /\ t.ready = s.ready /\ t.open = s.open /\ t.handshake = "idle"
         /\ t.outbox = s.outbox /\ t.writeCut = s.writeCut
         /\ "handshake" \in t.timers <=> "handshake" \in s.timers
<1> DEFINE r == Resumed(s, ec)
           t == KeepaliveSent(s, ec)
<1>1. SameLine(s, r)
  BY AskedSameLine
<1> HIDE DEF r
<1>2. \/ t = [r EXCEPT !.keepalive = "idle", !.keepaliveCalls = @ + 1]
      \/ t = [[r EXCEPT !.keepalive = "timer"] EXCEPT !.timers = @ \cup {"keepalive"}]
  BY DEF KeepaliveSent, KeepaliveEnds, AwaitTimer, r
<1>3. /\ HasFields(t) /\ t.open = s.open /\ t.pumpRunning = s.pumpRunning
      /\ t.reading = s.reading /\ t.readCut = s.readCut
      /\ t.handshake = s.handshake /\ t.ready = s.ready
      /\ t.outbox = s.outbox /\ t.writeCut = s.writeCut
      /\ "handshake" \in t.timers <=> "handshake" \in s.timers
  <2>1. CASE t = [r EXCEPT !.keepalive = "idle", !.keepaliveCalls = @ + 1]
    BY <1>1, <2>1 DEF SameLine, HasFields
  <2>2. CASE t = [[r EXCEPT !.keepalive = "timer"] EXCEPT !.timers = @ \cup {"keepalive"}]
    <3> DEFINE moved == [r EXCEPT !.keepalive = "timer"]
    <3>1. HasFields(moved)
      BY <1>1 DEF SameLine, HasFields
    <3>2. /\ moved.open = s.open /\ moved.pumpRunning = s.pumpRunning
          /\ moved.reading = s.reading /\ moved.readCut = s.readCut
          /\ moved.handshake = s.handshake /\ moved.ready = s.ready
          /\ moved.outbox = s.outbox /\ moved.writeCut = s.writeCut
          /\ moved.timers = s.timers
      BY <1>1 DEF SameLine, HasFields
    <3>3. t = [moved EXCEPT !.timers = @ \cup {"keepalive"}]
      BY <2>2
    <3> HIDE DEF moved, t
    <3>4. t.timers = s.timers \cup {"keepalive"}
      BY <3>1, <3>2, <3>3 DEF HasFields
    <3> QED  BY <3>1, <3>2, <3>3, <3>4 DEF HasFields
  <2> QED  BY <1>2, <2>1, <2>2
<1> HIDE DEF t
<1> QED  BY <1>3 DEF HandshakeIsTold, UserIsHeard, t

\* A handler that sends leaves the rest as it was.
LEMMA CallSendHears ==
  ASSUME NEW s, NEW i, NEW Again, HasFields(s), HandshakeIsTold(s)
  PROVE  LET called == CallSend(s, i)
             t == IF i \in Again /\ MaySend(s) THEN SendAgain(called) ELSE called
         IN  SameEar(s, t) /\ HandshakeIsTold(t)
<1> DEFINE called == CallSend(s, i)
           t == IF i \in Again /\ MaySend(s) THEN SendAgain(called) ELSE called
<1>1. SameLine(s, called) /\ called.pumpError = s.pumpError
  BY CallsSameLine
<1> HIDE DEF called
<1>2. SameEar(s, called) /\ HandshakeIsTold(called)
  BY <1>1 DEF SameLine, SameEar, HandshakeIsTold
<1>3. CASE i \in Again /\ MaySend(s)
  <2>1. SameEar(s, SendAgain(called))
    BY <1>2, SendAgainHears DEF SameEar
  <2>2. s.handshake = "idle"
    BY <1>3 DEF MaySend, HandshakeIsTold
  <2>3. t = SendAgain(called)
    BY <1>3
  <2> HIDE DEF t
  <2> QED  BY <2>1, <2>2, <2>3 DEF SameEar, HandshakeIsTold, t, called
<1>4. CASE ~ (i \in Again /\ MaySend(s))
  BY <1>2, <1>4 DEF called
<1> QED  BY <1>3, <1>4

\* What is left when handlers are called with an error.
Told(s, t) ==
  HasFields(t) /\ HandshakeIsTold(t) /\ (t.open => s.open) /\ (t.ready => s.ready)

LEMMA CallWithErrorTells ==
  ASSUME NEW s, NEW ec, NEW h \in Handlers, ec # "ok",
         InHand(s, h), Placed(s, Held(s) \cup {h}), HandshakeIsTold(s)
  PROVE  Told(s, CallWithError(s, h, ec))
<1> DEFINE t == CallWithError(s, h, ec)
           K == Held(s) \cup {h}
<1>1. HasFields(s) /\ Counted(s, K) /\ h \in K /\ Placed(s, K)
  BY DEF InHand, Counted
<1> HIDE DEF K
<1>2. CASE h.op = "send"
  <2>1. t = LET called == CallSend(s, h.id) IN
            IF h.id \in RetriedSends /\ MaySend(s) THEN SendAgain(called) ELSE called
    BY <1>2 DEF CallWithError
  <2> HIDE DEF t
  <2>2. SameEar(s, t) /\ HandshakeIsTold(t)
    BY <1>1, <2>1, CallSendHears
  <2> QED  BY <2>2 DEF SameEar, Told, t
<1>3. CASE h.op = "pump"
  <2>1. t = StopReadPump(s, ec)
    BY <1>3 DEF CallWithError
  <2> HIDE DEF t
  <2>2. /\ HasFields(t) /\ t.pumpError # "ok" /\ (t.open => s.open)
        /\ t.handshake = s.handshake /\ t.keepalive = s.keepalive /\ t.ready = s.ready
    BY <1>1, <2>1, StopReadPumpTells
  <2> QED  BY <2>2 DEF HandshakeIsTold, Told, t
<1>4. CASE h.op = "handshake"
  <2>1. h = HANDSHAKE /\ t = HandshakeFlushed(s, ec)
    BY <1>4, HandlerKinds DEF CallWithError
  <2>2. s.handshake # "idle" /\ "handshake" \notin s.timers
    BY <1>1, <2>1 DEF Placed, Counted, HandshakesCounted
  <2>3. Heard(s)
    BY <1>1, <2>2 DEF Heard, HandshakeIsTold, UserIsHeard
  <2> HIDE DEF t
  <2>4. Heard(t) /\ ~ t.ready /\ (t.open => s.open)
    BY <2>1, <2>2, <2>3, HandshakeFlushedHears
  <2> QED  BY <2>4 DEF Heard, Told, t
<1>5. CASE h.op = "keepalive"
  <2>1. h = KEEPALIVE /\ t = KeepaliveSent(s, ec)
    BY <1>5, HandlerKinds DEF CallWithError
  <2>2. s.handshake = "idle"
    BY <1>1, <2>1 DEF Placed, HandshakeIsTold
  <2> HIDE DEF t
  <2> QED  BY <1>1, <2>1, <2>2, KeepaliveSentHears DEF Told, t
<1> QED  BY <1>2, <1>3, <1>4, <1>5, HandlerKinds

LEMMA VoidFrontTells ==
  ASSUME NEW s, NEW ec, ec # "ok", Whole(s), HandshakeIsTold(s)
  PROVE  Told(s, VoidFront(s, ec))
<1> DEFINE popped == [s EXCEPT !.outbox = Tail(@)]
           h == Head(s.outbox)
           t == VoidFront(s, ec)
<1>1. HasFields(s)
  BY DEF Whole, Counted
<1>2. CASE s.outbox = << >>
  BY <1>1, <1>2 DEF VoidFront, Told
<1>3. CASE s.outbox # << >>
  <2>1. t = CallWithError(popped, h, ec)
    BY <1>3 DEF VoidFront
  <2>2. /\ Popped(s, popped) /\ HandshakeIsTold(popped)
        /\ popped.open = s.open /\ popped.ready = s.ready
    BY <1>1 DEF Popped, SameCounts, HasFields, HandshakeIsTold
  <2> HIDE DEF popped, t
  <2>3. InHand(popped, h) /\ h \in Handlers /\ Placed(popped, Held(popped) \cup {h})
    BY <1>3, <2>2, PoppedInHand
  <2> HIDE DEF h
  <2>4. Told(popped, t)
    BY <2>1, <2>2, <2>3, CallWithErrorTells
  <2> QED  BY <2>2, <2>4 DEF Told, t
<1> QED  BY <1>2, <1>3

LEMMA VoidOutboxTells ==
  ASSUME NEW s, NEW ec, ec # "ok", Whole(s), HandshakeIsTold(s)
  PROVE  Told(s, VoidOutbox(s, ec)) /\ VoidOutbox(s, ec).outbox = << >>
<1> DEFINE turns == Room(s)
<1>1. turns \in Nat
  BY WholeRoom
<1> HIDE DEF turns
<1>2. PICK g :
        /\ g[0] = s
        /\ \A n \in 1 .. turns : g[n] = VoidFront(g[n - 1], ec)
        /\ VoidOutbox(s, ec) = g[turns]
  BY <1>1, VoidOutboxTurns DEF turns
<1> DEFINE Now(n) == Whole(g[n]) /\ Told(s, g[n])
           T == {n \in Nat : n <= turns => Now(n)}
<1>3. 0 \in T
  BY <1>1, <1>2 DEF Told, Whole, Counted
<1>4. ASSUME NEW n \in Nat, n \in T PROVE n + 1 \in T
  <2> SUFFICES ASSUME n + 1 <= turns PROVE Now(n + 1)
    OBVIOUS
  <2> DEFINE f == g[n]
             t == g[n + 1]
  <2>1. Now(n) /\ n + 1 \in 1 .. turns /\ (n + 1) - 1 = n
    BY <1>1, <1>4
  <2>2. t = VoidFront(f, ec)
    BY <1>2, <2>1
  <2>3. Whole(f) /\ Told(s, f)
    BY <2>1
  <2> HIDE DEF f, t
  <2>4. Whole(t) /\ Told(f, t)
    BY <2>2, <2>3, VoidFrontWhole, VoidFrontTells DEF Told
  <2> QED  BY <2>3, <2>4 DEF Told, t
<1>5. Nat \subseteq T
  <2> HIDE DEF T
  <2> QED  BY <1>3, <1>4, SetInduction
<1>6. Now(turns)
  BY <1>1, <1>5
<1> QED  BY <1>2, <1>6, VoidOutboxWhole

-----------------------------------------------------------------------------
(***************************************************************************)
(* What goes through the outbox.                                           *)
(***************************************************************************)
LEMMA WriteBegunListens ==
  ASSUME NEW s, Heard(s), s.open
  PROVE  Listens(WritePump(s))
<1> DEFINE t == [s EXCEPT !.writing = Append(@, Head(s.outbox)), !.writeCut = FALSE]
<1>1. CASE s.outbox = << >>
  BY <1>1 DEF WritePump, Listens, FreshWrite
<1>2. CASE s.outbox # << >>
  <2>1. WritePump(s) = t
    BY <1>2 DEF WritePump, BeginWrite
  <2>2. Listens(t)
    BY DEF HasFields, Heard, Listens, HandshakeIsTold, UserIsHeard, FreshWrite
  <2> QED  BY <2>1, <2>2
<1> QED  BY <1>1, <1>2

LEMMA WritePumpListens ==
  ASSUME NEW s, Whole(s), Heard(s)
  PROVE  Listens(WritePump(s))
<1>1. CASE s.open
  BY <1>1, WriteBegunListens
<1>2. CASE s.outbox = << >>
  BY <1>2 DEF WritePump, Listens, FreshWrite
<1>3. CASE s.outbox # << >> /\ ~ s.open
  <2> DEFINE t == VoidOutbox(s, "down")
  <2>1. WritePump(s) = t
    BY <1>3 DEF WritePump
  <2>2. /\ HasFields(t) /\ HandshakeIsTold(t) /\ t.outbox = << >>
        /\ (t.open => s.open) /\ (t.ready => s.ready)
    BY VoidOutboxTells DEF Told, Heard
  <2> HIDE DEF t
  <2> QED  BY <1>3, <2>1, <2>2 DEF Listens, Heard, UserIsHeard, FreshWrite
<1> QED  BY <1>1, <1>2, <1>3

\* Whether it is written at once or waits behind others.
LEMMA QueuedListens ==
  ASSUME NEW s, NEW h, Listens(s),
         LET queued == [s EXCEPT !.outbox = Append(@, h)] IN
           Heard(queued) => Listens(WritePump(queued))
  PROVE  Listens(FlushWriteBuffer(s, h))
<1> DEFINE queued == [s EXCEPT !.outbox = Append(@, h)]
<1>1. /\ HasFields(queued) /\ queued.outbox = Append(s.outbox, h)
      /\ queued.open = s.open /\ queued.connected = s.connected
      /\ queued.pumpRunning = s.pumpRunning /\ queued.pumpError = s.pumpError
      /\ queued.reading = s.reading /\ queued.readCut = s.readCut
      /\ queued.writeCut = s.writeCut /\ queued.timers = s.timers
      /\ queued.handshake = s.handshake /\ queued.keepalive = s.keepalive
      /\ queued.ready = s.ready
  BY DEF Listens, Heard, HasFields
<1>2. FlushWriteBuffer(s, h)
        = IF Len(queued.outbox) = 1 THEN WritePump(queued) ELSE queued
  BY DEF FlushWriteBuffer
<1>3. Heard(queued) => Listens(WritePump(queued))
  OBVIOUS
<1> HIDE DEF queued
<1>4. Heard(queued)
  BY <1>1 DEF Listens, Heard, HandshakeIsTold, UserIsHeard
<1>5. CASE Len(queued.outbox) # 1
  <2>1. s.outbox # << >>
    BY <1>1, <1>5
  <2>2. FreshWrite(queued)
    BY <1>1, <2>1 DEF Listens, FreshWrite
  <2> QED  BY <1>2, <1>4, <1>5, <2>2 DEF Listens
<1> QED  BY <1>2, <1>3, <1>4, <1>5

LEMMA FlushOpenListens ==
  ASSUME NEW s, NEW h, Listens(s), s.open
  PROVE  Listens(FlushWriteBuffer(s, h))
<1> DEFINE queued == [s EXCEPT !.outbox = Append(@, h)]
<1>1. queued.open
  BY DEF Listens, Heard, HasFields
<1> HIDE DEF queued
<1>2. Heard(queued) => Listens(WritePump(queued))
  BY <1>1, WriteBegunListens
<1> QED  BY <1>2, QueuedListens DEF queued

LEMMA FlushListens ==
  ASSUME NEW s, NEW h \in Handlers, InHand(s, h), Placed(s, Held(s) \cup {h}), Listens(s)
  PROVE  Listens(FlushWriteBuffer(s, h))
<1> DEFINE queued == [s EXCEPT !.outbox = Append(@, h)]
<1>1. Queued(s, queued, h)
  BY DEF Listens, Heard, Queued, SameCounts, HasFields
<1> HIDE DEF queued
<1>2. Whole(queued)
  BY <1>1, QueuedWhole
<1>3. Heard(queued) => Listens(WritePump(queued))
  BY <1>2, WritePumpListens
<1> QED  BY <1>3, QueuedListens DEF queued

-----------------------------------------------------------------------------
(***************************************************************************)
(* The user.                                                               *)
(***************************************************************************)
LEMMA UserSendListens == Whole(q) /\ Listens(q) /\ UserSend => Listens(q')
BY AsyncSendListens DEF UserSend, MaySend

LEMMA UserReceiveListens == Whole(q) /\ Listens(q) /\ UserReceive => Listens(q')
BY ReadyIsIdle, AsyncReceiveListens DEF UserReceive, MayReceive, Listens, Heard

LEMMA AttemptListens ==
  ASSUME NEW s, HasFields(s), s.open, s.pumpRunning, s.keepalive = "idle", ~ s.ready,
         "handshake" \notin s.timers
  PROVE  Listens(Attempt(s))
<1> DEFINE begun == [s EXCEPT !.connected = FALSE, !.tries = @ + 1, !.handshake = "flush"]
<1>1. CASE s.tries > MaxAttempts
  <2>1. Attempt(s) = HandshakeEnds(s, "gave_up")
    BY <1>1 DEF Attempt
  <2> QED  BY <2>1, HandshakeEndsHears
<1>2. CASE ~ (s.tries > MaxAttempts)
  <2>1. Attempt(s) = FlushWriteBuffer(begun, HANDSHAKE)
    BY <1>2 DEF Attempt
  <2>2. /\ HasFields(begun) /\ begun.open = s.open /\ begun.pumpRunning = s.pumpRunning
        /\ begun.keepalive = s.keepalive /\ begun.ready = s.ready
        /\ begun.timers = s.timers /\ begun.connected = FALSE
    BY DEF HasFields
  <2> HIDE DEF begun
  <2>3. Listens(begun)
    BY <2>2 DEF Listens, Heard, HandshakeIsTold, UserIsHeard, FreshWrite
  <2> QED  BY <2>1, <2>2, <2>3, FlushOpenListens
<1> QED  BY <1>1, <1>2

LEMMA UserHandshakeListens ==
  ASSUME ~ RehandshakeAlive, Whole(q), Listens(q), UserHandshake
  PROVE  Listens(q')
<1> DEFINE s == [q EXCEPT !.handshakes = @ + 1, !.ready = FALSE]
           t == Asked(s)
           voided == VoidReceives(t)
           reset == [voided EXCEPT !.handshakeComplete = FALSE, !.connected = FALSE,
                                   !.tries = 0]
           started == StartReadPump(reset)
<1>1. /\ q.handshake = "idle" /\ q.keepalive = "idle"
      /\ q' = BeginHandshake(s)
  BY DEF UserHandshake
<1>2. "handshake" \notin q.timers
  BY <1>1 DEF Whole, Placed
<1>3. /\ HasFields(s) /\ s.open = q.open /\ s.pumpError = q.pumpError
      /\ s.handshake = "idle" /\ s.keepalive = "idle" /\ ~ s.ready /\ s.timers = q.timers
  BY <1>1 DEF Listens, Heard, HasFields
<1>4. q' = IF PumpError(s) # "ok" THEN HandshakeEnds(t, PumpError(s)) ELSE Attempt(started)
  BY <1>1 DEF BeginHandshake
<1> HIDE DEF s
<1>5. SameLine(s, t) /\ t.pumpError = "ok"
  BY <1>3, AskedSameLine
<1> HIDE DEF t
<1>6. CASE PumpError(s) # "ok"
  BY <1>2, <1>3, <1>4, <1>5, <1>6, HandshakeEndsHears DEF SameLine
<1>7. CASE PumpError(s) = "ok"
  <2>1. s.open
    BY <1>7, PumpErrorIsOK
  <2>2. SameLine(t, voided)
    BY <1>5, CallsSameLine DEF SameLine
  <2> HIDE DEF voided
  <2>3. /\ HasFields(reset) /\ reset.open /\ reset.keepalive = "idle" /\ ~ reset.ready
        /\ reset.timers = q.timers
    BY <1>3, <1>5, <2>1, <2>2 DEF SameLine, HasFields
  <2> HIDE DEF reset
  <2>4. /\ HasFields(started) /\ started.open /\ started.pumpRunning
        /\ started.keepalive = "idle" /\ ~ started.ready /\ started.timers = q.timers
    <3>1. CASE reset.pumpRunning
      BY <2>3, <3>1 DEF StartReadPump
    <3>2. CASE ~ reset.pumpRunning
      <4> DEFINE u == [reset EXCEPT !.pumpRunning = TRUE, !.pumpError = "ok"]
      <4>1. /\ HasFields(u) /\ u.open /\ u.pumpRunning /\ u.keepalive = "idle"
            /\ ~ u.ready /\ u.timers = q.timers
        BY <2>3 DEF HasFields
      <4>2. started = ReadPump(u)
        BY <3>2 DEF StartReadPump
      <4> HIDE DEF u, started
      <4>3. started = [u EXCEPT !.reading = TRUE, !.readCut = FALSE]
        BY <4>1, <4>2 DEF ReadPump
      <4> QED  BY <4>1, <4>3 DEF HasFields
    <3> QED  BY <3>1, <3>2
  <2> HIDE DEF started
  <2> QED  BY <1>2, <1>4, <1>7, <2>4, AttemptListens
<1> QED  BY <1>6, <1>7

LEMMA UserKeepaliveListens == Whole(q) /\ Listens(q) /\ UserKeepalive => Listens(q')
<1> SUFFICES ASSUME Whole(q), Listens(q), UserKeepalive PROVE Listens(q')
  OBVIOUS
<1> DEFINE s == [q EXCEPT !.keepalives = @ + 1]
<1>1. q' = KeepaliveSent(s, "ok") /\ q.ready
  BY DEF UserKeepalive
<1>2. SameLine(q, s) /\ s.pumpError = q.pumpError
  BY DEF Listens, Heard, HasFields, SameLine
<1> HIDE DEF s
<1>3. Listens(s) /\ HasFields(s) /\ s.handshake = "idle"
  BY <1>1, <1>2, SameLineListens DEF Listens, Heard, HandshakeIsTold, SameLine
<1>4. LET t == KeepaliveSent(s, "ok") IN
      /\ HasFields(t) /\ HandshakeIsTold(t) /\ (UserIsHeard(s) => UserIsHeard(t))
      /\ t.ready = s.ready /\ t.open = s.open /\ t.handshake = "idle"
      /\ t.outbox = s.outbox /\ t.writeCut = s.writeCut
      /\ "handshake" \in t.timers <=> "handshake" \in s.timers
  BY <1>3, KeepaliveSentHears
<1>5. /\ HasFields(q') /\ HandshakeIsTold(q') /\ UserIsHeard(q')
      /\ q'.ready = s.ready /\ q'.open = s.open /\ "handshake" \notin q'.timers
      /\ q'.outbox = s.outbox /\ q'.writeCut = s.writeCut
  <2>1. "handshake" \notin s.timers
    BY <1>1, <1>2, ReadyIsIdle DEF SameLine, Listens, Heard
  <2> QED  BY <1>1, <1>3, <1>4, <2>1 DEF Listens, Heard
<1>6. FreshWrite(q')
  BY <1>3, <1>5 DEF Listens, FreshWrite
<1> QED  BY <1>5, <1>6 DEF Listens, Heard

LEMMA UserCloseListens == Listens(q) /\ UserClose => Listens(q')
BY ClosedListens DEF UserClose, Listens, Heard, HandshakeIsTold

LEMMA ReopenListens == Listens(q) /\ Reopen => Listens(q')
<1> SUFFICES ASSUME Listens(q), Reopen PROVE Listens(q')
  OBVIOUS
<1> DEFINE t == [q EXCEPT !.open = TRUE, !.ready = FALSE, !.reopens = @ + 1]
<1>1. q' = t /\ ~ q.open
  BY DEF Reopen
<1>2. Listens(t)
  BY <1>1 DEF HasFields, Listens, Heard, HandshakeIsTold, UserIsHeard, FreshWrite
<1> QED  BY <1>1, <1>2

-----------------------------------------------------------------------------
(***************************************************************************)
(* Completions.                                                            *)
(***************************************************************************)
\* A handshake that succeeds hands what it has heard to the user.
LEMMA HandshakeSucceeds ==
  ASSUME NEW s, HasFields(s), "handshake" \notin s.timers,
         s.pumpRunning, s.reading => ~ s.readCut, s.outbox # << >> => ~ s.writeCut
  PROVE  Listens(HandshakeEnds(s, "ok"))
<1> DEFINE t == [s EXCEPT !.handshake = "idle",
                          !.handshakeComplete = @ \/ "ok" = "ok",
                          !.ready = "ok" = "ok",
                          !.handshakeCalls = @ + 1]
<1>1. HandshakeEnds(s, "ok") = t
  BY DEF HandshakeEnds
<1>2. /\ HasFields(t) /\ t.handshake = "idle" /\ t.timers = s.timers
      /\ t.pumpRunning = s.pumpRunning /\ t.reading = s.reading /\ t.readCut = s.readCut
      /\ t.outbox = s.outbox /\ t.writeCut = s.writeCut
  BY DEF HasFields
<1> HIDE DEF t
<1>3. Listens(t)
  BY <1>2 DEF Listens, Heard, HandshakeIsTold, UserIsHeard, FreshWrite
<1> QED  BY <1>1, <1>3

LEMMA HandshakeTimerListens ==
  ASSUME Whole(q), Listens(q), "handshake" \in q.timers
  PROVE  Listens(HandshakeTimer([q EXCEPT !.timers = @ \ {"handshake"}]))
<1> DEFINE s == [q EXCEPT !.timers = @ \ {"handshake"}]
           t == Asked(s)
           waits == [t EXCEPT !.handshake = "settle"]
           settled == [waits EXCEPT !.timers = @ \cup {"handshake"}]
           u == HandshakeTimer(s)
<1>1. q.handshake # "idle"
  BY DEF Whole, Placed
<1>2. /\ HasFields(s) /\ "handshake" \notin s.timers
      /\ s.open = q.open /\ s.connected = q.connected /\ s.pumpRunning = q.pumpRunning
      /\ s.pumpError = q.pumpError /\ s.reading = q.reading /\ s.readCut = q.readCut
      /\ s.writeCut = q.writeCut /\ s.outbox = q.outbox
      /\ s.keepalive = q.keepalive /\ s.ready = q.ready
  BY DEF Listens, Heard, HasFields
<1>3. /\ PumpError(s) # "ok" => u = HandshakeEnds(t, PumpError(s))
      /\ PumpError(s) = "ok" =>
           /\ ~ s.connected => u = Attempt(t)
           /\ s.connected => u = settled \/ u = HandshakeEnds(t, "ok")
  BY DEF HandshakeTimer, Settle, AwaitTimer
<1> HIDE DEF s
<1>4. SameLine(s, t) /\ t.pumpError = "ok"
  BY <1>2, AskedSameLine
<1> HIDE DEF t, u
<1>5. CASE PumpError(s) # "ok"
  BY <1>2, <1>3, <1>4, <1>5, HandshakeEndsHears DEF SameLine, u, s
<1>6. CASE PumpError(s) = "ok"
  <2>1. s.pumpError = "ok" /\ s.open
    BY <1>6, PumpErrorIsOK
  <2>2. /\ HasFields(t) /\ t.open /\ t.pumpRunning /\ t.keepalive = "idle" /\ ~ t.ready
        /\ "handshake" \notin t.timers
        /\ s.connected => (t.reading => ~ t.readCut)
        /\ t.outbox # << >> => ~ t.writeCut
    BY <1>1, <1>2, <1>4, <2>1 DEF SameLine, Listens, Heard, HandshakeIsTold, FreshWrite
  <2>3. CASE ~ s.connected
    BY <1>3, <1>6, <2>2, <2>3, AttemptListens DEF u, s
  <2>4. CASE s.connected
    <3>1. Listens(HandshakeEnds(t, "ok"))
      BY <2>2, <2>4, HandshakeSucceeds
    <3>2. Listens(settled)
      <4>1. /\ HasFields(waits) /\ waits.open /\ waits.pumpRunning
            /\ waits.keepalive = "idle" /\ ~ waits.ready
            /\ waits.reading => ~ waits.readCut
            /\ waits.outbox # << >> => ~ waits.writeCut
        BY <2>2, <2>4 DEF HasFields
      <4> HIDE DEF waits
      <4>2. /\ HasFields(settled) /\ settled.open /\ settled.pumpRunning
            /\ settled.keepalive = "idle" /\ ~ settled.ready
            /\ settled.reading => ~ settled.readCut
            /\ settled.outbox # << >> => ~ settled.writeCut
        BY <4>1 DEF HasFields
      <4> HIDE DEF settled
      <4> QED  BY <4>2 DEF Listens, Heard, HandshakeIsTold, UserIsHeard, FreshWrite
    <3> QED  BY <1>3, <1>6, <2>4, <3>1, <3>2 DEF u, s
  <2> QED  BY <2>3, <2>4
<1> QED  BY <1>5, <1>6

LEMMA KeepaliveTimerListens ==
  ASSUME Whole(q), Listens(q), "keepalive" \in q.timers
  PROVE  Listens(KeepaliveTimer([q EXCEPT !.timers = @ \ {"keepalive"}]))
<1> DEFINE s == [q EXCEPT !.timers = @ \ {"keepalive"}]
           t == Asked(s)
           ends == KeepaliveEnds(t)
           begun == [t EXCEPT !.keepalive = "send"]
<1>1. q.handshake = "idle" /\ "handshake" \notin q.timers
  BY DEF Whole, Placed, Listens, Heard, HandshakeIsTold
<1>2. /\ Listens(s) /\ HasFields(s) /\ s.handshake = "idle" /\ "handshake" \notin s.timers
  <2>1. /\ HasFields(s) /\ s.timers \subseteq q.timers
        /\ s.open = q.open /\ s.pumpRunning = q.pumpRunning
        /\ s.reading = q.reading /\ s.readCut = q.readCut
        /\ s.writeCut = q.writeCut /\ s.outbox = q.outbox
        /\ s.handshake = q.handshake /\ s.ready = q.ready
    BY DEF Listens, Heard, HasFields
  <2> HIDE DEF s
  <2> QED  BY <1>1, <2>1 DEF Listens, Heard, HandshakeIsTold, UserIsHeard, FreshWrite
<1>3. KeepaliveTimer(s) = IF PumpError(s) # "ok" THEN ends
                                                 ELSE FlushWriteBuffer(begun, KEEPALIVE)
  BY DEF KeepaliveTimer
<1> HIDE DEF s
<1>4. SameLine(s, t)
  BY <1>2, AskedSameLine
<1> HIDE DEF t
<1>5. Listens(t) /\ t.handshake = "idle" /\ "handshake" \notin t.timers
  BY <1>2, <1>4, SameLineListens DEF SameLine
<1>6. Listens(ends)
  BY <1>5
  DEF KeepaliveEnds, HasFields, Listens, Heard, HandshakeIsTold, UserIsHeard, FreshWrite
<1>7. Listens(begun) /\ begun.open = t.open
  BY <1>5 DEF HasFields, Listens, Heard, HandshakeIsTold, UserIsHeard, FreshWrite
<1> HIDE DEF ends, begun
<1>8. PumpError(s) = "ok" => Listens(FlushWriteBuffer(begun, KEEPALIVE))
  BY <1>4, <1>7, PumpErrorIsOK, FlushOpenListens DEF SameLine
<1> QED  BY <1>3, <1>6, <1>8 DEF s

LEMMA HandleTimerListens == Whole(q) /\ Listens(q) /\ HandleTimer => Listens(q')
BY HandshakeTimerListens, KeepaliveTimerListens DEF HandleTimer

LEMMA HandleReadListens == Whole(q) /\ Listens(q) /\ HandleRead => Listens(q')
<1> SUFFICES ASSUME Whole(q), Listens(q), HandleRead PROVE Listens(q')
  OBVIOUS
<1>1. PICK g, connected :
        /\ Receives(g)
        /\ LET t == [g EXCEPT !.reading = FALSE, !.connected = connected] IN
           q' = FlushWriteBuffer(t, PUMP) \/ q' = CallOK(t, PUMP)
  BY ReadIsTaken
<1> DEFINE t == [g EXCEPT !.reading = FALSE, !.connected = connected]
<1>2. Whole(g) /\ g.reading
  BY <1>1, ReceivesWhole DEF HandleRead
<1>3. Listens(g)
  <2>1. CASE q.waiting # << >> /\ g = GiveMessage(q)
    BY <2>1, GiveMessageListens
  <2>2. CASE g = [q EXCEPT !.messages = @ + 1]
    <3>1. SameLine(q, g) /\ g.pumpError = q.pumpError
      BY <2>2 DEF Listens, Heard, SameLine, HasFields
    <3> QED  BY <3>1, SameLineListens
  <2> QED  BY <1>1, <2>1, <2>2 DEF Receives
<1>4. TakenInHand(g, t)
  BY <1>2 DEF Whole, Counted, TakenInHand, SameOutput, HasFields
<1>5. Listens(t) /\ ~ t.reading
  BY <1>3 DEF HasFields, Listens, Heard, HandshakeIsTold, UserIsHeard, FreshWrite
<1>6. q' = FlushWriteBuffer(t, PUMP) \/ q' = CallOK(t, PUMP)
  BY <1>1
<1> HIDE DEF t
<1>7. CASE q' = FlushWriteBuffer(t, PUMP)
  <2>1. InHand(t, PUMP) /\ Placed(t, Held(t) \cup {PUMP})
    BY <1>2, <1>4, ReadInHand
  <2>2. PUMP \in Handlers
    BY DEF Handlers
  <2> QED  BY <1>5, <1>7, <2>1, <2>2, FlushListens
<1>8. CASE q' = CallOK(t, PUMP)
  <2>1. q' = ReadPump(t)
    BY <1>8 DEF CallOK, PUMP
  <2> QED  BY <1>5, <2>1, ReadPumpHears DEF Listens
<1> QED  BY <1>6, <1>7, <1>8

LEMMA HandleReadErrorListens == Listens(q) /\ HandleReadError => Listens(q')
<1> SUFFICES ASSUME Listens(q), HandleReadError PROVE Listens(q')
  OBVIOUS
<1> DEFINE read == [q EXCEPT !.reading = FALSE]
<1>1. PICK ec \in {"failed", "aborted"} :
        (ec = "aborted" => q.readCut) /\ q' = StopReadPump(read, ec)
  BY DEF HandleReadError
<1>2. q.reading
  BY DEF HandleReadError
<1>3. /\ HasFields(read) /\ read.open = q.open /\ read.handshake = q.handshake
      /\ read.keepalive = q.keepalive /\ read.ready = q.ready
  BY DEF Listens, Heard, HasFields
<1> HIDE DEF read
<1>4. /\ HasFields(q') /\ q'.pumpError # "ok"
      /\ q'.open => q.open /\ ec = "aborted"
      /\ q'.handshake = q.handshake /\ q'.keepalive = q.keepalive /\ q'.ready = q.ready
  BY <1>1, <1>3, StopReadPumpTells
<1>5. ~ (q'.ready /\ q'.open)
  BY <1>1, <1>2, <1>4 DEF Listens, Heard, UserIsHeard
<1> QED  BY <1>4, <1>5 DEF Listens, Heard, HandshakeIsTold, UserIsHeard, FreshWrite

\* What is under way when a write ends, with a handler in hand.
LEMMA CallOKHears ==
  ASSUME NEW s, NEW h \in Handlers, InHand(s, h), Placed(s, Held(s) \cup {h}), Heard(s)
  PROVE  Heard(CallOK(s, h))
<1> DEFINE called == CallOK(s, h)
           K == Held(s) \cup {h}
<1>1. HasFields(s) /\ Counted(s, K) /\ h \in K /\ Placed(s, K)
  BY DEF InHand, Counted
<1> HIDE DEF K
<1>2. CASE h.op = "send"
  <2>1. called = LET t == CallSend(s, h.id) IN
                 IF h.id \in ChainedSends /\ MaySend(s) THEN SendAgain(t) ELSE t
    BY <1>2 DEF CallOK
  <2> HIDE DEF called
  <2>2. SameEar(s, called) /\ HandshakeIsTold(called)
    BY <1>1, <2>1, CallSendHears DEF Heard
  <2> QED  BY <2>2 DEF SameEar, Heard, UserIsHeard, called
<1>3. CASE h.op = "pump"
  <2>1. h = PUMP /\ called = ReadPump(s)
    BY <1>3, HandlerKinds DEF CallOK
  <2>2. ~ s.reading
    BY <1>1, <2>1 DEF Counted, PumpCounted
  <2> HIDE DEF called
  <2> QED  BY <2>1, <2>2, ReadPumpHears DEF called
<1>4. CASE h.op = "handshake"
  <2>1. h = HANDSHAKE /\ called = HandshakeFlushed(s, "ok")
    BY <1>4, HandlerKinds DEF CallOK
  <2>2. s.handshake # "idle" /\ "handshake" \notin s.timers
    BY <1>1, <2>1 DEF Placed, Counted, HandshakesCounted
  <2> HIDE DEF called
  <2> QED  BY <2>1, <2>2, HandshakeFlushedHears DEF called
<1>5. CASE h.op = "keepalive"
  <2>1. h = KEEPALIVE /\ called = KeepaliveSent(s, "ok")
    BY <1>5, HandlerKinds DEF CallOK
  <2>2. s.handshake = "idle"
    BY <1>1, <2>1 DEF Placed, Heard, HandshakeIsTold
  <2> HIDE DEF called
  <2> QED  BY <1>1, <2>1, <2>2, KeepaliveSentHears DEF Heard, called
<1> QED  BY <1>2, <1>3, <1>4, <1>5, HandlerKinds

LEMMA HandleWriteListens == Whole(q) /\ Listens(q) /\ HandleWrite => Listens(q')
<1> SUFFICES ASSUME Whole(q), Listens(q), HandleWrite PROVE Listens(q')
  OBVIOUS
<1>1. CASE q.outbox = << >> /\ q' = [q EXCEPT !.undefined = TRUE]
  <2> DEFINE t == [q EXCEPT !.undefined = TRUE]
  <2>1. SameLine(q, t) /\ t.pumpError = q.pumpError
    BY DEF Listens, Heard, SameLine, HasFields
  <2> HIDE DEF t
  <2> QED  BY <1>1, <2>1, SameLineListens DEF t
<1>2. CASE /\ q.outbox # << >>
           /\ LET popped == [q EXCEPT !.writing = Tail(@), !.outbox = Tail(@)]
              IN  q' = WritePump(CallOK(popped, Head(q.outbox)))
  <2> DEFINE popped == [q EXCEPT !.writing = Tail(@), !.outbox = Tail(@)]
             h == Head(q.outbox)
             called == CallOK(popped, h)
  <2>1. q' = WritePump(called)
    BY <1>2
  <2>2. Popped(q, popped)
    BY DEF Whole, Counted, Popped, SameCounts, HasFields
  <2>3. Heard(popped)
    BY DEF HasFields, Listens, Heard, HandshakeIsTold, UserIsHeard
  <2> HIDE DEF popped
  <2>4. InHand(popped, h) /\ h \in Handlers /\ Placed(popped, Held(popped) \cup {h})
    BY <1>2, <2>2, PoppedInHand
  <2> HIDE DEF h
  <2>5. Whole(called) /\ Heard(called)
    BY <2>3, <2>4, CallOKWhole, CallOKHears
  <2> HIDE DEF called
  <2> QED  BY <2>1, <2>5, WritePumpListens
<1> QED  BY <1>1, <1>2 DEF HandleWrite

\* The one write that is under way is of the stream as it is now.
LEMMA HandleWriteErrorListens ==
  ASSUME Whole(q), AtFront(q), ~ q.nested, Listens(q), HandleWriteError
  PROVE  Listens(q')
<1> DEFINE s == [q EXCEPT !.writing = Tail(@)]
<1>1. q.outbox # << >> /\ q.writing = <<Head(q.outbox)>>
  BY DEF HandleWriteError, AtFront
<1>2. PICK ec \in {"failed", "aborted"} :
        /\ ec = "aborted" => q.writeCut
        /\ q' = IF ec = "aborted" THEN VoidOutbox(s, ec) ELSE Close(VoidOutbox(s, ec))
  <2>1. ~ (Len(q.writing) > 1)
    BY <1>1
  <2> QED  BY <2>1 DEF HandleWriteError
<1>3. HasFields(q)
  BY DEF Listens, Heard
<1>4. /\ SameCounts(q, s) /\ s.outbox = q.outbox /\ s.open = q.open /\ s.ready = q.ready
      /\ s.connected = q.connected /\ s.readCut = q.readCut /\ s.pumpError = q.pumpError
  BY <1>3 DEF SameCounts, HasFields
<1> HIDE DEF s
<1>5. Whole(s)
  <2>1. Held(s) = Held(q) /\ Outbox(s)
    BY <1>4 DEF Held, Outbox, Whole
  <2> QED  BY <1>4, <2>1, SameCountsKeep DEF Whole
<1>6. HandshakeIsTold(s)
  BY <1>4 DEF SameCounts, Listens, Heard, HandshakeIsTold
<1> DEFINE t == VoidOutbox(s, ec)
<1>7. /\ HasFields(t) /\ HandshakeIsTold(t) /\ t.outbox = << >>
      /\ (t.open => q.open) /\ (t.ready => q.ready)
  BY <1>4, <1>5, <1>6, VoidOutboxTells DEF Told
<1>8. q' = IF ec = "aborted" THEN t ELSE Close(t)
  BY <1>2
<1> HIDE DEF t
<1>9. CASE ec = "aborted"
  <2>1. ~ (t.ready /\ t.open)
    BY <1>1, <1>2, <1>7, <1>9 DEF Listens, FreshWrite
  <2>2. Listens(t)
    BY <1>7, <2>1 DEF Listens, Heard, UserIsHeard, FreshWrite
  <2> QED  BY <1>8, <1>9, <2>2
<1>10. CASE ec # "aborted"
  <2>1. Listens(Close(t))
    BY <1>7, ClosedListens DEF HandshakeIsTold
  <2> QED  BY <1>8, <1>10, <2>1
<1> QED  BY <1>9, <1>10

-----------------------------------------------------------------------------
LEMMA InitListens == Init => Listens(q)
BY DEF Init, HasFields, Listens, Heard, HandshakeIsTold, UserIsHeard, FreshWrite

LEMMA NextListens ==
  ASSUME ~ RehandshakeAlive, Whole(q), AtFront(q), ~ q.nested, Listens(q), [Next]_q
  PROVE  Listens(q')
<1>1. CASE UserSend \/ UserReceive \/ UserHandshake \/ UserKeepalive \/ UserClose \/ Reopen
  BY <1>1, UserSendListens, UserReceiveListens, UserHandshakeListens, UserKeepaliveListens,
     UserCloseListens, ReopenListens
<1>2. CASE HandleRead \/ HandleReadError \/ HandleWrite \/ HandleWriteError \/ HandleTimer
  BY <1>2, HandleReadListens, HandleReadErrorListens, HandleWriteListens,
     HandleWriteErrorListens, HandleTimerListens
<1>3. CASE UNCHANGED q
  BY <1>3
<1> QED  BY <1>1, <1>2, <1>3 DEF Next

(***************************************************************************)
(* A user who has shaken hands on an open stream has a read pump: the read *)
(* and the write of a stream that was closed under them cannot stop it     *)
(* later without the handshake's having been told, since the handshake has *)
(* heard the peer by a newer read, and was itself written by a newer       *)
(* write.  It takes that nobody else asks for mReadPumpError, that is, no  *)
(* keepalive runs beside the handshake; and it is said until the handler   *)
(* of a send has begun an async_write, since when two of these are under   *)
(* way the end of the older one stops the pump of the newer.               *)
(***************************************************************************)
THEOREM ReadyUsersListen ==
  ASSUME ~ RehandshakeAlive
  PROVE  Spec => []ReadyMeansListening
<1> DEFINE Good == Whole(q) /\ AtFront(q) /\ (q.nested \/ Listens(q))
<1>1. Init => Good
  BY InitWhole, InitListens
<1>2. Good /\ [Next]_q => Good'
  <2> SUFFICES ASSUME Good, [Next]_q PROVE Good'
    OBVIOUS
  <2>1. Whole(q') /\ AtFront(q') /\ (q.nested => q'.nested)
    BY NextWhole DEF WholeStep, Keeps
  <2>2. q'.nested \/ Listens(q')
    BY <2>1, NextListens
  <2> QED  BY <2>1, <2>2
<1>3. Good => ReadyMeansListening
  BY DEF Listens, Heard, UserIsHeard, ReadyMeansListening
<1> QED  BY <1>1, <1>2, <1>3, PTL DEF Spec
=============================================================================
