-------------------------- MODULE SFPFramingProofs --------------------------
(***************************************************************************)
(* That the receiver of SFPFraming accepts what was transmitted, in order  *)
(* and at most once, and never overruns its buffer: for every buffer size, *)
(* any traffic and any number of faults.  And, if frames leave one octet   *)
(* of the buffer free, that it accepts every frame that is not damaged.    *)
(***************************************************************************)
EXTENDS SFPFraming, SequenceTheorems, SetInduction, TLAPS

(***************************************************************************)
(* The inductive invariant.  Every octet belongs to the CRC of a frame     *)
(* that was transmitted or to none.  The last octet of a good CRC names    *)
(* the frame; it is enough to follow those.                                *)
(***************************************************************************)
SentFrames == {sent[k] : k \in 1 .. Len(sent)}
Contents == {<< >>} \cup SentFrames
OctetsOf(contents) == [name : DOMAIN Flipped, of : contents]

Ending(o) == o.of # << >> /\ o.name \in {"crcHigh", "CRCHIGH"}

\* The frame with content c was transmitted before that with content d.
Before(c, d) ==
  \E i, j \in 1 .. Len(sent) : i < j /\ sent[i] = c /\ sent[j] = d

LineTypes ==
  /\ sent \in Seq(Traffic)
  /\ \A i, j \in 1 .. Len(sent) : sent[i] = sent[j] => i = j
  /\ line \in Seq([octet : OctetsOf(Contents), frame : 0 .. Len(sent)])

\* A receiver, whose CRC is computed from header and packet.
Receivers ==
  [ escapeState : {"NORMAL", "ESCAPING"}, frameState : {"NEW", "RECEIVING"},
    header : OctetsOf(Contents), packet : Seq(OctetsOf(Contents)),
    crc : Seq(OctetsOf(Contents)) ]

Receiver(r) ==
  /\ r \in Receivers /\ Len(r.packet) <= MaxPacket
  /\ IF r.frameState = "NEW" THEN r.crc = << >> /\ r.packet = << >>
                             ELSE r.crc = <<r.header>> \o r.packet

CounterTypes ==
  /\ accepted \in Seq(SentFrames)
  /\ naks \in Nat /\ damaged \subseteq 0 .. Len(sent)
  /\ faults \in 0 .. MaxFaults /\ keepalives \in 0 .. MaxKeepalives

\* What is accepted, what is being received and what is on the line follow
\* each other in the order of transmission.
LineOrdered ==
  \A i, j \in 1 .. Len(line) :
    i < j /\ Ending(line[i].octet) /\ Ending(line[j].octet)
      => Before(line[i].octet.of, line[j].octet.of)

ReceivedFirst ==
  \A i \in 1 .. Len(rx.crc), j \in 1 .. Len(line) :
    Ending(rx.crc[i]) /\ Ending(line[j].octet)
      => Before(rx.crc[i].of, line[j].octet.of)

AcceptedFirst ==
  \A k \in 1 .. Len(accepted) :
    /\ \A i \in 1 .. Len(rx.crc) :
         Ending(rx.crc[i]) => Before(accepted[k], rx.crc[i].of)
    /\ \A j \in 1 .. Len(line) :
         Ending(line[j].octet) => Before(accepted[k], line[j].octet.of)

AcceptedOrdered ==
  \A k, l \in 1 .. Len(accepted) : k < l => Before(accepted[k], accepted[l])

Order == LineOrdered /\ ReceivedFirst /\ AcceptedFirst /\ AcceptedOrdered

FramingInv == LineTypes /\ Receiver(rx) /\ CounterTypes /\ Order

-----------------------------------------------------------------------------
(***************************************************************************)
(* Octets.                                                                 *)
(***************************************************************************)
LEMMA FlipKeeps ==
  ASSUME NEW contents, NEW o \in OctetsOf(contents)
  PROVE  /\ Flip(o) \in OctetsOf(contents)
         /\ Flip(o).of = o.of
         /\ Ending(Flip(o)) <=> Ending(o)
<1>1. Flip(o) = [name |-> Flipped[o.name], of |-> o.of]
  BY DEF Flip, OctetsOf
<1>2. Flipped[o.name] \in DOMAIN Flipped
  BY DEF OctetsOf, Flipped
<1>3. Flipped[o.name] \in {"crcHigh", "CRCHIGH"} <=> o.name \in {"crcHigh", "CRCHIGH"}
  BY DEF OctetsOf, Flipped
<1> QED  BY <1>1, <1>2, <1>3 DEF OctetsOf, Ending

LEMMA NamedOctets ==
  ASSUME NEW contents, NEW c \in contents, << >> \in contents
  PROVE  /\ {FLAG, ESC, Octet("x")} \subseteq OctetsOf(contents)
         /\ {CrcOctet("crcLow", c), CrcOctet("crcHigh", c)} \subseteq OctetsOf(contents)
         /\ \A o \in {FLAG, ESC, Octet("x"), CrcOctet("crcLow", c)} : ~ Ending(o)
BY DEF FLAG, ESC, Octet, CrcOctet, OctetsOf, Flipped, Ending

(***************************************************************************)
(* The recursion of WrittenAll: it is defined, and escapes octet by octet. *)
(***************************************************************************)
Continued(octets, content, i) == octets \o Written(content[i], FALSE)

WrittenUpTo(content, g, n) ==
  g = [i \in 0 .. n |-> IF i = 0 THEN << >> ELSE Continued(g[i - 1], content, i)]

LEMMA WrittenUpToExists ==
  ASSUME NEW content
  PROVE  \A n \in Nat : \E g : WrittenUpTo(content, g, n)
<1> DEFINE T == {n \in Nat : \E g : WrittenUpTo(content, g, n)}
<1>1. 0 \in T
  <2>1. WrittenUpTo(content, [i \in 0 .. 0 |-> << >>], 0)
    BY DEF WrittenUpTo
  <2> QED  BY <2>1
<1>2. ASSUME NEW n \in Nat, n \in T PROVE n + 1 \in T
  <2>1. PICK g : WrittenUpTo(content, g, n)
    BY <1>2
  <2> DEFINE h == [i \in 0 .. n + 1 |->
                     IF i <= n THEN g[i] ELSE Continued(g[n], content, n + 1)]
  <2>2. \A i \in 0 .. n : g[i] = IF i = 0 THEN << >> ELSE Continued(g[i - 1], content, i)
    BY <2>1 DEF WrittenUpTo
  <2>3. \A i \in 0 .. n + 1 :
          h[i] = IF i = 0 THEN << >> ELSE Continued(h[i - 1], content, i)
    <3> TAKE i \in 0 .. n + 1
    <3>1. CASE i = 0
      BY <3>1, <2>2
    <3>2. CASE i \in 1 .. n
      <4>1. h[i] = g[i] /\ h[i - 1] = g[i - 1]
        BY <3>2
      <4> QED  BY <3>2, <4>1, <2>2
    <3>3. CASE i = n + 1
      <4>1. h[i] = Continued(g[n], content, i) /\ h[i - 1] = g[n]
        BY <3>3
      <4> QED  BY <3>3, <4>1
    <3> QED  BY <3>1, <3>2, <3>3
  <2>4. WrittenUpTo(content, h, n + 1)
    BY <2>3 DEF WrittenUpTo
  <2> QED  BY <2>4
<1>3. Nat \subseteq T
  <2> HIDE DEF T
  <2> QED  BY <1>1, <1>2, SetInduction
<1> QED  BY <1>3

LEMMA WrittenAllPlain ==
  ASSUME NEW content \in Seq(PlainOctets)
  PROVE  WrittenAll(content) \in Seq(PlainOctets)
<1> DEFINE h == CHOOSE g : WrittenUpTo(content, g, Len(content))
<1>1. Len(content) \in Nat
  OBVIOUS
<1>2. WrittenUpTo(content, h, Len(content))
  BY <1>1, WrittenUpToExists
<1>3. WrittenAll(content) = h[Len(content)]
  BY DEF WrittenAll, WrittenUpTo, Continued
<1>4. \A i \in 1 .. Len(content) : Written(content[i], FALSE) \in Seq(PlainOctets)
  <2> TAKE i \in 1 .. Len(content)
  <2>1. content[i] \in PlainOctets
    OBVIOUS
  <2>2. PlainOctets = OctetsOf({<< >>})
    BY DEF PlainOctets, OctetsOf
  <2>3. Flip(content[i]) \in PlainOctets /\ ESC \in PlainOctets
    BY <2>1, <2>2, FlipKeeps, NamedOctets
  <2> QED  BY <2>1, <2>3 DEF Written
<1> DEFINE T == {n \in Nat : n <= Len(content) => h[n] \in Seq(PlainOctets)}
<1> HIDE DEF h
<1>5. \A i \in 0 .. Len(content) :
        h[i] = IF i = 0 THEN << >> ELSE Continued(h[i - 1], content, i)
  BY <1>2 DEF WrittenUpTo
<1>6. 0 \in T
  <2>1. 0 \in 0 .. Len(content)
    BY <1>1
  <2>2. h[0] = << >>
    BY <1>5, <2>1
  <2> QED  BY <2>2, EmptySeq
<1>7. ASSUME NEW n \in Nat, n \in T PROVE n + 1 \in T
  <2> SUFFICES ASSUME n + 1 <= Len(content) PROVE h[n + 1] \in Seq(PlainOctets)
    OBVIOUS
  <2>1. h[n] \in Seq(PlainOctets)
    BY <1>1, <1>7
  <2>2. n + 1 \in 1 .. Len(content)
    BY <1>1
  <2>3. h[n + 1] = Continued(h[n], content, n + 1)
    BY <1>5, <2>2
  <2>4. h[n] \o Written(content[n + 1], FALSE) \in Seq(PlainOctets)
    BY <1>4, <2>1, <2>2, ConcatProperties
  <2> QED  BY <2>3, <2>4 DEF Continued
<1>8. Nat \subseteq T
  <2> HIDE DEF T
  <2> QED  BY <1>6, <1>7, SetInduction
<1> QED  BY <1>1, <1>3, <1>8

(***************************************************************************)
(* A frame on the line: there is one octet in it that ends its CRC.        *)
(***************************************************************************)
NoEnding(octets) == \A i \in 1 .. Len(octets) : ~ Ending(octets[i])

OneEnding(octets) ==
  \A i, j \in 1 .. Len(octets) : Ending(octets[i]) /\ Ending(octets[j]) => i = j

LEMMA NoEndingConcat ==
  ASSUME NEW S, NEW s \in Seq(S), NEW t \in Seq(S), NoEnding(s), NoEnding(t)
  PROVE  s \o t \in Seq(S) /\ NoEnding(s \o t)
<1> DEFINE u == s \o t
<1>1. /\ u \in Seq(S) /\ Len(u) = Len(s) + Len(t)
      /\ \A i \in 1 .. Len(u) : u[i] = IF i <= Len(s) THEN s[i] ELSE t[i - Len(s)]
  BY ConcatProperties
<1>2. Len(s) \in Nat /\ Len(t) \in Nat
  OBVIOUS
<1> HIDE DEF u
<1>3. ASSUME NEW i \in 1 .. Len(u) PROVE ~ Ending(u[i])
  <2>1. CASE i <= Len(s)
    BY <1>1, <2>1 DEF NoEnding
  <2>2. CASE ~ i <= Len(s)
    <3>1. i - Len(s) \in 1 .. Len(t) /\ u[i] = t[i - Len(s)]
      BY <1>1, <1>2, <2>2
    <3> QED  BY <3>1 DEF NoEnding
  <2> QED  BY <2>1, <2>2
<1> QED  BY <1>1, <1>3 DEF NoEnding, u

LEMMA OneEndingConcat ==
  ASSUME NEW S, NEW s \in Seq(S), NEW t \in Seq(S),
         (NoEnding(s) /\ OneEnding(t)) \/ (OneEnding(s) /\ NoEnding(t))
  PROVE  s \o t \in Seq(S) /\ OneEnding(s \o t)
<1> DEFINE u == s \o t
<1>1. /\ u \in Seq(S) /\ Len(u) = Len(s) + Len(t)
      /\ \A i \in 1 .. Len(u) : u[i] = IF i <= Len(s) THEN s[i] ELSE t[i - Len(s)]
  BY ConcatProperties
<1>2. Len(s) \in Nat /\ Len(t) \in Nat
  OBVIOUS
<1> HIDE DEF u
<1>3. ASSUME NEW i \in 1 .. Len(u), NEW j \in 1 .. Len(u), Ending(u[i]), Ending(u[j])
      PROVE  i = j
  <2>1. CASE NoEnding(s) /\ OneEnding(t)
    <3>1. ASSUME NEW k \in 1 .. Len(u), Ending(u[k])
          PROVE  k - Len(s) \in 1 .. Len(t) /\ Ending(t[k - Len(s)])
      <4>1. ~ k <= Len(s)
        BY <1>1, <2>1, <3>1 DEF NoEnding
      <4> QED  BY <1>1, <1>2, <3>1, <4>1
    <3>2. i - Len(s) = j - Len(s)
      BY <1>3, <2>1, <3>1 DEF OneEnding
    <3> QED  BY <1>2, <3>2
  <2>2. CASE OneEnding(s) /\ NoEnding(t)
    <3>1. ASSUME NEW k \in 1 .. Len(u), Ending(u[k])
          PROVE  k \in 1 .. Len(s) /\ Ending(s[k])
      <4>1. CASE k <= Len(s)
        BY <1>1, <1>2, <3>1, <4>1
      <4>2. CASE ~ k <= Len(s)
        <5>1. k - Len(s) \in 1 .. Len(t) /\ u[k] = t[k - Len(s)]
          BY <1>1, <1>2, <4>2
        <5> QED  BY <2>2, <3>1, <5>1 DEF NoEnding
      <4> QED  BY <4>1, <4>2
    <3> QED  BY <1>3, <2>2, <3>1 DEF OneEnding
  <2> QED  BY <2>1, <2>2
<1> QED  BY <1>1, <1>3 DEF OneEnding, u

LEMMA WrittenShape ==
  ASSUME NEW S, NEW o \in S, ESC \in S, Flip(o) \in S, Ending(Flip(o)) <=> Ending(o),
         NEW escape
  PROVE  /\ Written(o, escape) \in Seq(S) /\ OneEnding(Written(o, escape))
         /\ ~ Ending(o) => NoEnding(Written(o, escape))
<1>1. ~ Ending(ESC)
  BY DEF ESC, Octet, Ending
<1>2. CASE Written(o, escape) = <<o>>
  BY <1>2 DEF OneEnding, NoEnding
<1>3. CASE Written(o, escape) = <<ESC, Flip(o)>>
  <2>1. Written(o, escape)[1] = ESC /\ Written(o, escape)[2] = Flip(o)
        /\ Len(Written(o, escape)) = 2 /\ Written(o, escape) \in Seq(S)
    BY <1>3
  <2>2. \A i \in 1 .. 2 : i = 1 \/ i = 2
    OBVIOUS
  <2> QED  BY <1>1, <2>1, <2>2 DEF OneEnding, NoEnding
<1> QED  BY <1>2, <1>3 DEF Written

LEMMA FrameShape ==
  ASSUME NEW f \in Traffic, NEW escapes
  PROVE  /\ FrameOctets(f, escapes) \in Seq(OctetsOf({<< >>, f}))
         /\ OneEnding(FrameOctets(f, escapes))
<1> DEFINE S == OctetsOf({<< >>, f})
           low == CrcOctet("crcLow", f)
           high == CrcOctet("crcHigh", f)
           W == WrittenAll(f)
           L == Written(low, "crcLow" \in escapes)
           H == Written(high, "crcHigh" \in escapes)
<1>1. FLAG \in S /\ ESC \in S /\ low \in S /\ high \in S
      /\ ~ Ending(FLAG) /\ ~ Ending(low)
  BY NamedOctets
<1>2. W \in Seq(S) /\ NoEnding(W)
  <2>1. W \in Seq(PlainOctets)
    BY WrittenAllPlain, TrafficAssumption
  <2>2. PlainOctets \subseteq S
    BY DEF PlainOctets, OctetsOf
  <2>3. \A o \in PlainOctets : ~ Ending(o)
    BY DEF PlainOctets, Ending
  <2>4. W \in Seq(S)
    BY <2>1, <2>2, SeqMonotonic
  <2>5. \A i \in 1 .. Len(W) : W[i] \in PlainOctets
    BY <2>1, ElementOfSeq
  <2> QED  BY <2>3, <2>4, <2>5 DEF NoEnding
<1>3. L \in Seq(S) /\ NoEnding(L)
  <2>1. Flip(low) \in S /\ (Ending(Flip(low)) <=> Ending(low))
    BY <1>1, FlipKeeps
  <2> HIDE DEF S, low
  <2> QED  BY <1>1, <2>1, WrittenShape
<1>4. H \in Seq(S) /\ OneEnding(H)
  <2>1. Flip(high) \in S /\ (Ending(Flip(high)) <=> Ending(high))
    BY <1>1, FlipKeeps
  <2> HIDE DEF S, high
  <2> QED  BY <1>1, <2>1, WrittenShape
<1>5. <<FLAG>> \in Seq(S) /\ NoEnding(<<FLAG>>)
  <2>1. <<FLAG>> \in Seq(S)
    BY <1>1
  <2> QED  BY <1>1, <2>1 DEF NoEnding
<1> HIDE DEF S, W, L, H
<1>6. <<FLAG>> \o W \in Seq(S) /\ NoEnding(<<FLAG>> \o W)
  BY <1>2, <1>5, NoEndingConcat
<1>7. <<FLAG>> \o W \o L \in Seq(S) /\ NoEnding(<<FLAG>> \o W \o L)
  BY <1>3, <1>6, NoEndingConcat
<1>8. <<FLAG>> \o W \o L \o H \in Seq(S) /\ OneEnding(<<FLAG>> \o W \o L \o H)
  BY <1>4, <1>7, OneEndingConcat
<1>9. <<FLAG>> \o W \o L \o H \o <<FLAG>> \in Seq(S)
      /\ OneEnding(<<FLAG>> \o W \o L \o H \o <<FLAG>>)
  BY <1>5, <1>8, OneEndingConcat
<1>10. FrameOctets(f, escapes) = <<FLAG>> \o W \o L \o H \o <<FLAG>>
  BY DEF FrameOctets, W, L, H
<1> QED  BY <1>9, <1>10 DEF S

-----------------------------------------------------------------------------
(***************************************************************************)
(* The order is kept where nothing is transmitted or accepted: each octet  *)
(* that ends a CRC was there before, on the line d places further back,    *)
(* or among those received, or is the one that has just been read.         *)
(***************************************************************************)
LEMMA OrderKept ==
  ASSUME Order, UNCHANGED <<sent, accepted>>, NEW d \in {0 - 1, 0, 1},
         \A j \in 1 .. Len(line') :
           Ending(line'[j].octet) =>
             /\ j + d \in 1 .. Len(line) /\ Ending(line[j + d].octet)
             /\ line'[j].octet.of = line[j + d].octet.of,
         \A i \in 1 .. Len(rx'.crc) :
           Ending(rx'.crc[i]) =>
             \/ \E h \in 1 .. Len(rx.crc) :
                  Ending(rx.crc[h]) /\ rx'.crc[i].of = rx.crc[h].of
             \/ /\ d = 1 /\ 1 \in 1 .. Len(line) /\ Ending(line[1].octet)
                /\ rx'.crc[i].of = line[1].octet.of,
         Len(line') \in Nat, Len(line) \in Nat
  PROVE  Order'
<1>1. \A c, e : Before(c, e)' = Before(c, e)
  BY DEF Before
<1>2. LineOrdered'
  <2> SUFFICES ASSUME NEW i \in 1 .. Len(line'), NEW j \in 1 .. Len(line'), i < j,
                      Ending(line'[i].octet), Ending(line'[j].octet)
               PROVE  Before(line'[i].octet.of, line'[j].octet.of)
    BY <1>1 DEF LineOrdered, Ending
  <2>1. i + d < j + d
    OBVIOUS
  <2> QED  BY <2>1 DEF Order, LineOrdered
<1>3. ReceivedFirst'
  <2> SUFFICES ASSUME NEW i \in 1 .. Len(rx'.crc), NEW j \in 1 .. Len(line'),
                      Ending(rx'.crc[i]), Ending(line'[j].octet)
               PROVE  Before(rx'.crc[i].of, line'[j].octet.of)
    BY <1>1 DEF ReceivedFirst, Ending
  <2>1. CASE \E h \in 1 .. Len(rx.crc) : Ending(rx.crc[h]) /\ rx'.crc[i].of = rx.crc[h].of
    BY <2>1 DEF Order, ReceivedFirst
  <2>2. CASE /\ d = 1 /\ 1 \in 1 .. Len(line) /\ Ending(line[1].octet)
             /\ rx'.crc[i].of = line[1].octet.of
    <3>1. 1 < j + d
      BY <2>2
    <3> QED  BY <2>2, <3>1 DEF Order, LineOrdered
  <2> QED  BY <2>1, <2>2
<1>4. AcceptedFirst'
  <2> SUFFICES ASSUME NEW k \in 1 .. Len(accepted)
               PROVE  /\ \A i \in 1 .. Len(rx'.crc) :
                           Ending(rx'.crc[i]) => Before(accepted[k], rx'.crc[i].of)
                      /\ \A j \in 1 .. Len(line') :
                           Ending(line'[j].octet) => Before(accepted[k], line'[j].octet.of)
    BY <1>1 DEF AcceptedFirst, Ending
  <2> QED  BY DEF Order, AcceptedFirst
<1>5. AcceptedOrdered'
  BY <1>1 DEF Order, AcceptedOrdered
<1> QED  BY <1>2, <1>3, <1>4, <1>5 DEF Order

(***************************************************************************)
(* Types that hold as long as nothing is transmitted.                      *)
(***************************************************************************)
LEMMA TailOfLine ==
  ASSUME LineTypes, line # << >>
  PROVE  /\ Head(line) \in [octet : OctetsOf(Contents), frame : 0 .. Len(sent)]
         /\ Head(line) = line[1] /\ 1 \in 1 .. Len(line) /\ Len(line) \in Nat
         /\ Tail(line) \in Seq([octet : OctetsOf(Contents), frame : 0 .. Len(sent)])
         /\ Len(Tail(line)) \in Nat
         /\ \A j \in 1 .. Len(Tail(line)) :
              j + 1 \in 1 .. Len(line) /\ Tail(line)[j] = line[j + 1]
<1> DEFINE S == [octet : OctetsOf(Contents), frame : 0 .. Len(sent)]
<1>1. line \in Seq(S)
  BY DEF LineTypes
<1> HIDE DEF S
<1>2. Head(line) \in S /\ Tail(line) \in Seq(S) /\ Len(line) \in Nat \ {0}
      /\ Len(Tail(line)) = Len(line) - 1
      /\ \A j \in 1 .. Len(Tail(line)) : Tail(line)[j] = line[j + 1]
  BY <1>1, HeadTailProperties, LenProperties, EmptySeq
<1>3. Head(line) = line[1]
  BY <1>1
<1> QED  BY <1>2, <1>3 DEF S

(***************************************************************************)
(* What an octet does to the receiver.                                     *)
(***************************************************************************)
LEMMA ResetReceiverOK ==
  ASSUME NEW r, Receiver(r)
  PROVE  Receiver(Reset(r)) /\ Reset(r).crc = << >>
<1>1. Reset(r) \in Receivers
  <2>1. << >> \in Seq(OctetsOf(Contents))
    BY EmptySeq
  <2> HIDE DEF OctetsOf
  <2> QED  BY <2>1 DEF Receiver, Receivers, Reset
<1>2. /\ Reset(r).crc = << >> /\ Reset(r).packet = << >>
      /\ Reset(r).frameState = "NEW"
  BY DEF Receiver, Receivers, Reset
<1>3. Len(Reset(r).packet) <= MaxPacket
  BY <1>2, BoundsAssumption
<1> QED  BY <1>1, <1>2, <1>3 DEF Receiver

LEMMA ReceiveOctetOK ==
  ASSUME NEW r, Receiver(r), NEW o \in OctetsOf(Contents)
  PROVE  /\ Receiver(ReceiveOctet(r, o))
         /\ ReceiveOctet(r, o).crc = << >> \/ ReceiveOctet(r, o).crc = Append(r.crc, o)
<1> DEFINE s == [r EXCEPT !.escapeState = "NORMAL", !.crc = Append(@, o)]
<1>1. /\ s.escapeState = "NORMAL" /\ s.crc = Append(r.crc, o)
      /\ s.frameState = r.frameState /\ s.header = r.header /\ s.packet = r.packet
      /\ r.crc \in Seq(OctetsOf(Contents)) /\ r.packet \in Seq(OctetsOf(Contents))
      /\ Append(r.crc, o) \in Seq(OctetsOf(Contents))
  BY AppendProperties DEF Receiver, Receivers
<1>2. s \in Receivers
  BY <1>1 DEF Receiver, Receivers
<1>3. CASE r.frameState = "NEW"
  <2> DEFINE t == [s EXCEPT !.header = o, !.frameState = "RECEIVING"]
  <2>1. ReceiveOctet(r, o) = t
    BY <1>3 DEF ReceiveOctet
  <2>2. /\ t \in Receivers /\ t.header = o /\ t.frameState = "RECEIVING"
        /\ t.crc = Append(r.crc, o) /\ t.packet = r.packet
    BY <1>1, <1>2 DEF Receivers
  <2>3. r.crc = << >> /\ r.packet = << >>
    BY <1>3 DEF Receiver
  <2>4. t.crc = <<t.header>> \o t.packet
    BY <2>2, <2>3
  <2>5. Len(t.packet) <= MaxPacket
    BY <2>2 DEF Receiver
  <2> HIDE DEF t
  <2> QED  BY <2>1, <2>2, <2>4, <2>5 DEF Receiver
<1>4. CASE r.frameState # "NEW"
  <2>1. ReceiveOctet(r, o) = BufferOctet(s, o)
    BY <1>4 DEF ReceiveOctet
  <2>2. CASE Len(s.packet) >= MaxPacket
    <3>1. BufferOctet(s, o) = Reset(s)
      BY <2>2 DEF BufferOctet
    <3>2. Reset(s) \in Receivers /\ Reset(s).crc = << >> /\ Reset(s).packet = << >>
          /\ Reset(s).frameState = "NEW"
      BY <1>2, EmptySeq DEF Receivers, Reset
    <3>3. Len(Reset(s).packet) <= MaxPacket
      BY <3>2, BoundsAssumption
    <3> QED  BY <2>1, <3>1, <3>2, <3>3 DEF Receiver
  <2>3. CASE ~ Len(s.packet) >= MaxPacket
    <3> DEFINE t == [s EXCEPT !.packet = Append(@, o)]
    <3>1. BufferOctet(s, o) = t
      BY <2>3 DEF BufferOctet
    <3>2. /\ Append(r.packet, o) \in Seq(OctetsOf(Contents))
          /\ Len(Append(r.packet, o)) = Len(r.packet) + 1 /\ Len(r.packet) \in Nat
      BY <1>1, AppendProperties, LenProperties
    <3>3. /\ t \in Receivers /\ t.header = r.header /\ t.frameState = r.frameState
          /\ t.crc = Append(r.crc, o) /\ t.packet = Append(r.packet, o)
      BY <1>1, <1>2, <3>2 DEF Receivers
    <3>4. Len(t.packet) <= MaxPacket
      BY <1>1, <2>3, <3>2, <3>3, BoundsAssumption
    <3>5. Append(r.crc, o) = <<r.header>> \o Append(r.packet, o)
      <4>1. r.crc = <<r.header>> \o r.packet /\ r.header \in OctetsOf(Contents)
        BY <1>4 DEF Receiver, Receivers
      <4>2. <<r.header>> \in Seq(OctetsOf(Contents)) /\ <<o>> \in Seq(OctetsOf(Contents))
        BY <4>1
      <4>3. Append(r.crc, o) = (<<r.header>> \o r.packet) \o <<o>>
        BY <1>1, <4>1, AppendIsConcat
      <4>4. Append(r.packet, o) = r.packet \o <<o>>
        BY <1>1, AppendIsConcat
      <4>5. r.packet \in Seq(OctetsOf(Contents))
        BY <1>1
      <4>6. (<<r.header>> \o r.packet) \o <<o>> = <<r.header>> \o (r.packet \o <<o>>)
        <5> DEFINE S == Seq(OctetsOf(Contents))
        <5>1. \A x, y, z \in S : (x \o y) \o z = x \o (y \o z)
          BY ConcatAssociative
        <5> HIDE DEF S
        <5> QED  BY <4>2, <4>5, <5>1 DEF S
      <4> QED  BY <4>3, <4>4, <4>6
    <3> HIDE DEF t
    <3> QED  BY <1>4, <2>1, <3>1, <3>3, <3>4, <3>5 DEF Receiver
  <2> QED  BY <2>2, <2>3
<1> QED  BY <1>3, <1>4

LEMMA FLAGisNotESC == FLAG # ESC
BY DEF FLAG, ESC, Octet

(***************************************************************************)
(* sfpDeliverOctet: the CRC starts anew, stays, or takes in the octet,     *)
(* which is the one on the line but for its escape.                        *)
(***************************************************************************)
LEMMA AfterOctetOK ==
  ASSUME NEW r, Receiver(r), NEW o \in OctetsOf(Contents)
  PROVE  /\ Receiver(AfterOctet(r, o))
         /\ \/ AfterOctet(r, o).crc = << >>
            \/ AfterOctet(r, o).crc = r.crc
            \/ \E u :
                 /\ AfterOctet(r, o).crc = Append(r.crc, u)
                 /\ u.of = o.of
                 /\ Ending(u) <=> Ending(o)
<1>1. CASE o = FLAG
  <2>1. AfterOctet(r, o) = Reset(r)
    BY <1>1, FLAGisNotESC DEF AfterOctet
  <2> QED  BY <2>1, ResetReceiverOK
<1>2. CASE o # FLAG /\ o = ESC
  <2> DEFINE t == [r EXCEPT !.escapeState = "ESCAPING"]
  <2>1. AfterOctet(r, o) = t
    BY <1>2 DEF AfterOctet
  <2>2. /\ t \in Receivers /\ t.crc = r.crc /\ t.packet = r.packet
        /\ t.header = r.header /\ t.frameState = r.frameState
    BY DEF Receiver, Receivers
  <2> HIDE DEF t
  <2> QED  BY <2>1, <2>2 DEF Receiver
<1>3. CASE o # FLAG /\ o # ESC
  <2> DEFINE u == Unescaped(r, o)
  <2>1. AfterOctet(r, o) = ReceiveOctet(r, u)
    BY <1>3 DEF AfterOctet
  <2>2. /\ u \in OctetsOf(Contents) /\ u.of = o.of
        /\ Ending(u) <=> Ending(o)
    BY FlipKeeps DEF Unescaped
  <2> HIDE DEF u
  <2>3. /\ Receiver(ReceiveOctet(r, u))
        /\ ReceiveOctet(r, u).crc = << >> \/ ReceiveOctet(r, u).crc = Append(r.crc, u)
    BY <2>2, ReceiveOctetOK
  <2> QED  BY <2>1, <2>2, <2>3
<1> QED  BY <1>1, <1>2, <1>3

(***************************************************************************)
(* A frame that passes the checks is the one that its last octet names.    *)
(***************************************************************************)
LEMMA GoodFrame ==
  ASSUME NEW r, Receiver(r), r.frameState = "RECEIVING", FrameGood(r)
  PROVE  /\ Len(r.crc) \in 1 .. Len(r.crc) /\ Ending(r.crc[Len(r.crc)])
         /\ ReceivedFrame(r) = r.crc[Len(r.crc)].of
         /\ ReceivedFrame(r) \in SentFrames
<1> DEFINE S == OctetsOf(Contents)
           n == Len(r.packet)
           content == SubSeq(r.crc, 1, Len(r.crc) - CrcSize)
           last == r.crc[Len(r.crc)]
<1>1. /\ r.header \in S /\ r.packet \in Seq(S) /\ r.crc \in Seq(S)
      /\ r.crc = <<r.header>> \o r.packet
  BY DEF Receiver, Receivers
<1> HIDE DEF S
<1>2. n \in Nat /\ n >= 2 /\ n - CrcSize \in Nat /\ n - CrcSize = n - 2
  BY <1>1, LenProperties DEF FrameGood, CrcSize
<1>3. /\ Len(r.crc) = n + 1 /\ r.crc[1] = r.header
      /\ \A i \in 1 .. n : r.crc[i + 1] = r.packet[i]
  <2>1. <<r.header>> \in Seq(S) /\ Len(<<r.header>>) = 1 /\ <<r.header>>[1] = r.header
    BY <1>1
  <2>2. /\ Len(<<r.header>> \o r.packet) = 1 + n
        /\ \A i \in 1 .. 1 + n : (<<r.header>> \o r.packet)[i] =
             IF i <= 1 THEN <<r.header>>[i] ELSE r.packet[i - 1]
    BY <1>1, <2>1, ConcatProperties
  <2> QED  BY <1>1, <1>2, <2>1, <2>2
<1>4. /\ content \in Seq(S) /\ Len(content) = n - 1
      /\ \A i \in 1 .. n - 1 : content[i] = r.crc[i]
  <2>1. Len(r.crc) - CrcSize = n - 1 /\ n - 1 \in Nat
    BY <1>2, <1>3 DEF CrcSize
  <2>2. \A i \in 1 .. n - 1 : r.crc[i] \in S
    BY <1>1, <1>2, <1>3, ElementOfSeq
  <2> QED  BY <2>1, <2>2, <1>2, SubSeqProperties
<1>5. last = CrcOctet("crcHigh", content) /\ content # << >>
  <2>1. last = CrcOctet("crcHigh", content)
    BY DEF FrameGood, CrcGood
  <2>2. content # << >>
    <3>1. Len(content) # 0
      BY <1>2, <1>4
    <3> HIDE DEF content
    <3> QED  BY <3>1
  <2> QED  BY <2>1, <2>2
<1>6. Ending(last) /\ last.of = content
  <2> HIDE DEF last, content
  <2> QED  BY <1>5 DEF Ending, CrcOctet
<1>7. content \in SentFrames
  <2>1. last \in S
    BY <1>1, <1>2, <1>3, ElementOfSeq
  <2> QED  BY <1>5, <1>6, <2>1 DEF S, OctetsOf, Contents
<1>8. ReceivedFrame(r) = content
  <2> DEFINE body == SubSeq(r.packet, 1, n - CrcSize)
  <2>1. /\ body \in Seq(S) /\ Len(body) = n - 2
        /\ \A i \in 1 .. n - 2 : body[i] = r.packet[i]
    <3>1. \A i \in 1 .. n - 2 : r.packet[i] \in S
      BY <1>1, <1>2, ElementOfSeq
    <3> QED  BY <1>2, <3>1, SubSeqProperties
  <2> HIDE DEF body
  <2>2. <<r.header>> \in Seq(S) /\ Len(<<r.header>>) = 1 /\ <<r.header>>[1] = r.header
    BY <1>1
  <2>3. /\ <<r.header>> \o body \in Seq(S) /\ Len(<<r.header>> \o body) = n - 1
        /\ \A i \in 1 .. n - 1 : (<<r.header>> \o body)[i] =
             IF i <= 1 THEN r.header ELSE body[i - 1]
    BY <1>2, <2>1, <2>2, ConcatProperties
  <2> HIDE DEF content
  <2>4. \A i \in 1 .. n - 1 : (<<r.header>> \o body)[i] = content[i]
    <3> TAKE i \in 1 .. n - 1
    <3>1. CASE i = 1
      BY <1>2, <1>3, <1>4, <2>3, <3>1
    <3>2. CASE i # 1
      <4>1. i - 1 \in 1 .. n - 2 /\ i - 1 \in 1 .. n /\ (i - 1) + 1 = i
        BY <1>2, <3>2
      <4>2. body[i - 1] = r.packet[i - 1] /\ r.crc[i] = r.packet[i - 1]
        BY <1>3, <2>1, <4>1
      <4> QED  BY <1>2, <1>4, <2>3, <3>2, <4>2
    <3> QED  BY <3>1, <3>2
  <2>5. <<r.header>> \o body = content
    BY <1>4, <2>3, <2>4, SeqEqual
  <2> QED  BY <2>5 DEF ReceivedFrame, body
<1> QED  BY <1>2, <1>3, <1>6, <1>7, <1>8

-----------------------------------------------------------------------------
(***************************************************************************)
(* The steps.                                                              *)
(***************************************************************************)
LEMMA InitFraming == Init => FramingInv
<1> SUFFICES ASSUME Init PROVE FramingInv
  OBVIOUS
<1>1. LineTypes /\ CounterTypes /\ Order
  BY BoundsAssumption
     DEF Init, LineTypes, CounterTypes, Order, LineOrdered, ReceivedFirst, AcceptedFirst,
         AcceptedOrdered
<1>2. Receiver(rx)
  <2>1. Octet("x") \in OctetsOf(Contents)
    BY NamedOctets DEF Contents
  <2>2. rx \in Receivers
    BY <2>1, EmptySeq DEF Init, Receivers
  <2>3. Len(rx.packet) <= MaxPacket
    BY BoundsAssumption DEF Init
  <2> QED  BY <2>2, <2>3 DEF Init, Receiver
<1> QED  BY <1>1, <1>2 DEF FramingInv

\* What is sent decides about the types of the rest.
LEMMA SameContents ==
  UNCHANGED sent => UNCHANGED <<SentFrames, Contents, OctetsOf(Contents), Receivers>>
BY DEF SentFrames, Contents, OctetsOf, Receivers

LEMMA DeliverOctetInv == FramingInv /\ DeliverOctet => FramingInv'
<1> SUFFICES ASSUME FramingInv, DeliverOctet PROVE FramingInv'
  OBVIOUS
<1> DEFINE o == Head(line).octet
<1>1. /\ line # << >> /\ line' = Tail(line) /\ rx' = AfterOctet(rx, o)
      /\ UNCHANGED <<sent, damaged, keepalives, faults>>
  BY DEF DeliverOctet
<1>2. /\ Head(line) \in [octet : OctetsOf(Contents), frame : 0 .. Len(sent)]
      /\ Head(line) = line[1] /\ 1 \in 1 .. Len(line) /\ Len(line) \in Nat
      /\ line' \in Seq([octet : OctetsOf(Contents), frame : 0 .. Len(sent)])
      /\ Len(line') \in Nat
      /\ \A j \in 1 .. Len(line') : j + 1 \in 1 .. Len(line) /\ line'[j] = line[j + 1]
  BY <1>1, TailOfLine DEF FramingInv
<1>3. o \in OctetsOf(Contents) /\ o = line[1].octet
  BY <1>2
<1> HIDE DEF o
<1>4. LineTypes'
  BY <1>1, <1>2, SameContents DEF FramingInv, LineTypes
<1>5. /\ Receiver(AfterOctet(rx, o))
      /\ \/ rx'.crc = << >>
         \/ rx'.crc = rx.crc
         \/ \E u :
              /\ rx'.crc = Append(rx.crc, u)
              /\ u.of = o.of
              /\ Ending(u) <=> Ending(o)
  BY <1>1, <1>3, AfterOctetOK DEF FramingInv
<1>6. Receiver(rx)'
  BY <1>1, <1>5, SameContents DEF Receiver
<1>7. rx.crc \in Seq(OctetsOf(Contents)) /\ Len(rx.crc) \in Nat
  BY DEF FramingInv, Receiver, Receivers
<1>8. CASE UNCHANGED accepted
  <2>1. CounterTypes'
    BY <1>1, <1>8, SameContents DEF FramingInv, CounterTypes, DeliverOctet
  <2>2. ASSUME NEW i \in 1 .. Len(rx'.crc), Ending(rx'.crc[i])
        PROVE  \/ \E h \in 1 .. Len(rx.crc) :
                    Ending(rx.crc[h]) /\ rx'.crc[i].of = rx.crc[h].of
               \/ Ending(line[1].octet) /\ rx'.crc[i].of = line[1].octet.of
    <3>1. CASE rx'.crc = << >>
      BY <2>2, <3>1
    <3>2. CASE rx'.crc = rx.crc
      BY <2>2, <3>2
    <3>3. ASSUME NEW u, rx'.crc = Append(rx.crc, u), u.of = o.of, Ending(u) <=> Ending(o)
          PROVE  \/ \E h \in 1 .. Len(rx.crc) :
                      Ending(rx.crc[h]) /\ rx'.crc[i].of = rx.crc[h].of
                 \/ Ending(line[1].octet) /\ rx'.crc[i].of = line[1].octet.of
      <4>1. (i \in 1 .. Len(rx.crc) /\ rx'.crc[i] = rx.crc[i]) \/ rx'.crc[i] = u
        BY <1>7, <2>2, <3>3
      <4> QED  BY <1>3, <2>2, <3>3, <4>1
    <3> QED  BY <1>5, <3>1, <3>2, <3>3
  <2>3. Order'
    <3>1. \A j \in 1 .. Len(line') :
            Ending(line'[j].octet) =>
              /\ j + 1 \in 1 .. Len(line) /\ Ending(line[j + 1].octet)
              /\ line'[j].octet.of = line[j + 1].octet.of
      BY <1>2
    <3> QED  BY <1>1, <1>2, <1>8, <2>2, <3>1, OrderKept DEF FramingInv
  <2> QED  BY <1>4, <1>6, <2>1, <2>3 DEF FramingInv
<1>9. CASE EndsFrame(o) /\ FrameGood(rx) /\ accepted' = Append(accepted, ReceivedFrame(rx))
  <2> DEFINE last == rx.crc[Len(rx.crc)]
             c == ReceivedFrame(rx)
  <2>1. /\ Len(rx.crc) \in 1 .. Len(rx.crc) /\ Ending(last)
        /\ c = last.of /\ c \in SentFrames
    BY <1>9, GoodFrame DEF FramingInv, EndsFrame
  <2>2. rx'.crc = << >>
    <3>1. AfterOctet(rx, o) = Reset(rx)
      BY <1>9, FLAGisNotESC DEF AfterOctet, EndsFrame
    <3> QED  BY <1>1, <3>1, ResetReceiverOK DEF FramingInv
  <2>3. accepted \in Seq(SentFrames) /\ accepted' = Append(accepted, c)
    BY <1>9 DEF FramingInv, CounterTypes
  <2> HIDE DEF last, c
  <2>4. /\ accepted' \in Seq(SentFrames) /\ Len(accepted') = Len(accepted) + 1
        /\ Len(accepted) \in Nat /\ accepted'[Len(accepted) + 1] = c
        /\ \A k \in 1 .. Len(accepted) : accepted'[k] = accepted[k]
    BY <2>1, <2>3, AppendProperties, LenProperties
  <2>5. CounterTypes'
    <3>1. naks' \in Nat
      BY DEF FramingInv, CounterTypes, DeliverOctet
    <3> QED  BY <1>1, <2>4, <3>1, SameContents DEF FramingInv, CounterTypes
  <2>6. \A a, b : Before(a, b)' = Before(a, b)
    BY <1>1 DEF Before
  <2>7. LineOrdered'
    <3> SUFFICES ASSUME NEW i \in 1 .. Len(line'), NEW j \in 1 .. Len(line'), i < j,
                        Ending(line'[i].octet), Ending(line'[j].octet)
                 PROVE  Before(line'[i].octet.of, line'[j].octet.of)
      BY <2>6 DEF LineOrdered, Ending
    <3>1. i + 1 < j + 1
      OBVIOUS
    <3> QED  BY <1>2, <3>1 DEF FramingInv, Order, LineOrdered
  <2>8. ReceivedFirst'
    BY <2>2 DEF ReceivedFirst
  <2>9. \A k \in 1 .. Len(accepted) : Before(accepted[k], c)
    BY <2>1 DEF FramingInv, Order, AcceptedFirst, last
  <2>10. \A j \in 1 .. Len(line') :
           Ending(line'[j].octet) => Before(c, line'[j].octet.of)
    BY <1>2, <2>1 DEF FramingInv, Order, ReceivedFirst, last
  <2>11. AcceptedFirst'
    <3> SUFFICES ASSUME NEW k \in 1 .. Len(accepted'), NEW j \in 1 .. Len(line'),
                        Ending(line'[j].octet)
                 PROVE  Before(accepted'[k], line'[j].octet.of)
      BY <2>2, <2>6 DEF AcceptedFirst, Ending
    <3>1. CASE k \in 1 .. Len(accepted)
      BY <1>2, <2>4, <3>1 DEF FramingInv, Order, AcceptedFirst
    <3>2. CASE k = Len(accepted) + 1
      BY <2>4, <2>10, <3>2
    <3> QED  BY <2>4, <3>1, <3>2
  <2>12. AcceptedOrdered'
    <3> SUFFICES ASSUME NEW k \in 1 .. Len(accepted'), NEW l \in 1 .. Len(accepted'), k < l
                 PROVE  Before(accepted'[k], accepted'[l])
      BY <2>6 DEF AcceptedOrdered
    <3>1. k \in 1 .. Len(accepted)
      BY <2>4
    <3>2. CASE l \in 1 .. Len(accepted)
      BY <2>4, <3>1, <3>2 DEF FramingInv, Order, AcceptedOrdered
    <3>3. CASE l = Len(accepted) + 1
      BY <2>4, <2>9, <3>1, <3>3
    <3> QED  BY <2>4, <3>2, <3>3
  <2> QED  BY <1>4, <1>6, <2>5, <2>7, <2>8, <2>11, <2>12 DEF FramingInv, Order
<1> QED  BY <1>8, <1>9 DEF DeliverOctet, o

(***************************************************************************)
(* Octets that are appended to the line: none that ends a CRC, or one that *)
(* ends that of a frame transmitted after all the others.                  *)
(***************************************************************************)
LEMMA AppendedLine ==
  ASSUME NEW octets, NEW frame, LineTypes,
         octets \in Seq(OctetsOf(Contents')), frame \in 0 .. Len(sent'),
         OctetsOf(Contents) \subseteq OctetsOf(Contents'), Len(sent) <= Len(sent'),
         Len(sent') \in Nat, line' = line \o Numbered(octets, frame)
  PROVE  /\ line' \in Seq([octet : OctetsOf(Contents'), frame : 0 .. Len(sent')])
         /\ Len(line) \in Nat /\ Len(octets) \in Nat
         /\ Len(line') = Len(line) + Len(octets)
         /\ \A j \in 1 .. Len(line) : line'[j] = line[j]
         /\ \A j \in 1 .. Len(octets) : line'[Len(line) + j].octet = octets[j]
<1> DEFINE S == [octet : OctetsOf(Contents'), frame : 0 .. Len(sent')]
           N == Numbered(octets, frame)
<1>1. line \in Seq(S)
  <2>1. 0 .. Len(sent) \subseteq 0 .. Len(sent')
    <3>1. Len(sent) \in Nat
      BY LenProperties DEF LineTypes
    <3> QED  BY <3>1
  <2>2. [octet : OctetsOf(Contents), frame : 0 .. Len(sent)] \subseteq S
    BY <2>1
  <2> HIDE DEF S
  <2> QED  BY <2>2, SeqMonotonic DEF LineTypes
<1>2. Len(octets) \in Nat /\ \A j \in 1 .. Len(octets) : octets[j] \in OctetsOf(Contents')
  BY ElementOfSeq, LenProperties
<1>3. /\ N \in Seq(S) /\ Len(N) = Len(octets)
      /\ \A j \in 1 .. Len(octets) : N[j].octet = octets[j]
  <2>1. N = [j \in 1 .. Len(octets) |-> [octet |-> octets[j], frame |-> frame]]
    BY DEF Numbered
  <2>2. \A j \in 1 .. Len(octets) : [octet |-> octets[j], frame |-> frame] \in S
    BY <1>2
  <2> HIDE DEF S
  <2>3. N \in Seq(S) /\ Len(N) = Len(octets)
    BY <1>2, <2>1, <2>2, IsASeq
  <2> QED  BY <2>1, <2>3
<1> HIDE DEF S, N
<1>4. /\ line \o N \in Seq(S) /\ Len(line \o N) = Len(line) + Len(N) /\ Len(line) \in Nat
      /\ \A j \in 1 .. Len(line) + Len(N) :
           (line \o N)[j] = IF j <= Len(line) THEN line[j] ELSE N[j - Len(line)]
  <2>1. line \in Seq(S) /\ N \in Seq(S)
    BY <1>1, <1>3
  <2>2. Len(line) \in Nat
    BY <2>1, LenProperties
  <2> QED  BY <2>1, <2>2, ConcatProperties
<1>5. line' = line \o N
  BY DEF N
<1>6. \A j \in 1 .. Len(line) : line'[j] = line[j]
  BY <1>2, <1>3, <1>4, <1>5
<1>7. ASSUME NEW j \in 1 .. Len(octets) PROVE line'[Len(line) + j].octet = octets[j]
  <2>1. /\ Len(line) + j \in 1 .. Len(line) + Len(N) /\ ~ Len(line) + j <= Len(line)
        /\ (Len(line) + j) - Len(line) = j
    BY <1>2, <1>3, <1>4
  <2> QED  BY <1>3, <1>4, <1>5, <2>1
<1> QED  BY <1>2, <1>3, <1>4, <1>5, <1>6, <1>7 DEF S

LEMMA KeepaliveInv == FramingInv /\ Keepalive => FramingInv'
<1> SUFFICES ASSUME FramingInv, Keepalive PROVE FramingInv'
  OBVIOUS
<1>1. /\ line' = line \o Numbered(<<FLAG>>, 0)
      /\ keepalives < MaxKeepalives /\ keepalives' = keepalives + 1
      /\ UNCHANGED <<sent, rx, accepted, naks, damaged, faults>>
  BY DEF Keepalive
<1>2. <<FLAG>> \in Seq(OctetsOf(Contents')) /\ ~ Ending(FLAG)
      /\ Len(<<FLAG>>) = 1 /\ <<FLAG>>[1] = FLAG
  <2>1. FLAG \in OctetsOf(Contents') /\ ~ Ending(FLAG)
    BY NamedOctets DEF Contents
  <2> HIDE DEF OctetsOf
  <2> QED  BY <2>1
<1>3. sent \in Seq(Traffic) /\ Len(sent) \in Nat
  BY LenProperties DEF FramingInv, LineTypes
<1>4. /\ line' \in Seq([octet : OctetsOf(Contents'), frame : 0 .. Len(sent')])
      /\ Len(line) \in Nat
      /\ Len(line') = Len(line) + 1
      /\ \A j \in 1 .. Len(line) : line'[j] = line[j]
      /\ line'[Len(line) + 1].octet = FLAG
  <2>1. 0 \in 0 .. Len(sent')
    BY <1>1, <1>3
  <2>2. OctetsOf(Contents) \subseteq OctetsOf(Contents') /\ Len(sent) <= Len(sent')
        /\ Len(sent') \in Nat
    <3>1. OctetsOf(Contents') = OctetsOf(Contents)
      BY <1>1, SameContents
    <3> QED  BY <1>1, <1>3, <3>1
  <2> DEFINE octets == <<FLAG>>
  <2> HIDE DEF octets
  <2>3. octets \in Seq(OctetsOf(Contents')) /\ line' = line \o Numbered(octets, 0)
        /\ Len(octets) = 1 /\ octets[1] = FLAG
    BY <1>1, <1>2 DEF octets
  <2>4. /\ line' \in Seq([octet : OctetsOf(Contents'), frame : 0 .. Len(sent')])
        /\ Len(line) \in Nat
        /\ Len(line') = Len(line) + Len(octets)
        /\ \A j \in 1 .. Len(line) : line'[j] = line[j]
        /\ \A j \in 1 .. Len(octets) : line'[Len(line) + j].octet = octets[j]
    BY <2>1, <2>2, <2>3, AppendedLine DEF FramingInv
  <2> QED  BY <2>3, <2>4
<1>5. LineTypes'
  BY <1>1, <1>4 DEF FramingInv, LineTypes
<1>6. Receiver(rx)'
  BY <1>1, SameContents DEF FramingInv, Receiver
<1>7. CounterTypes'
  BY <1>1, SameContents, BoundsAssumption DEF FramingInv, CounterTypes
<1>8. Order'
  <2>1. \A j \in 1 .. Len(line') :
          Ending(line'[j].octet) =>
            /\ j + 0 \in 1 .. Len(line) /\ Ending(line[j + 0].octet)
            /\ line'[j].octet.of = line[j + 0].octet.of
    <3> TAKE j \in 1 .. Len(line')
    <3>1. CASE j \in 1 .. Len(line)
      BY <1>4, <3>1
    <3>2. CASE j = Len(line) + 1
      BY <1>2, <1>4, <3>2
    <3> QED  BY <1>4, <3>1, <3>2
  <2>2. Len(line') \in Nat
    BY <1>4
  <2> QED  BY <1>1, <1>4, <2>1, <2>2, OrderKept DEF FramingInv
<1> QED  BY <1>5, <1>6, <1>7, <1>8 DEF FramingInv

\* An octet in front of the line
LEMMA OctetAtHead ==
  ASSUME NEW S, line \in Seq(S), NEW e \in S, line' = <<e>> \o line
  PROVE  /\ line' \in Seq(S) /\ Len(line) \in Nat /\ Len(line') = Len(line) + 1
         /\ line'[1] = e /\ \A j \in 1 .. Len(line) : line'[j + 1] = line[j]
<1>1. <<e>> \in Seq(S) /\ Len(<<e>>) = 1 /\ <<e>>[1] = e /\ Len(line) \in Nat
  BY LenProperties
<1>2. /\ line' \in Seq(S) /\ Len(line') = 1 + Len(line)
      /\ \A j \in 1 .. 1 + Len(line) :
           line'[j] = IF j <= 1 THEN <<e>>[j] ELSE line[j - 1]
  BY <1>1, ConcatProperties
<1>3. ASSUME NEW j \in 1 .. Len(line) PROVE line'[j + 1] = line[j]
  <2>1. j + 1 \in 1 .. 1 + Len(line) /\ ~ j + 1 <= 1 /\ (j + 1) - 1 = j
    BY <1>1
  <2> QED  BY <1>2, <2>1
<1> QED  BY <1>1, <1>2, <1>3

LEMMA KeepaliveAtHeadInv == FramingInv /\ KeepaliveAtHead => FramingInv'
<1> SUFFICES ASSUME FramingInv, KeepaliveAtHead PROVE FramingInv'
  OBVIOUS
<1> DEFINE S == [octet : OctetsOf(Contents), frame : 0 .. Len(sent)]
           e == [Head(line) EXCEPT !.octet = FLAG]
<1>1. /\ line # << >> /\ line' = <<e>> \o line
      /\ keepalives < MaxKeepalives /\ keepalives' = keepalives + 1
      /\ damaged' \subseteq damaged \cup {Head(line).frame}
      /\ UNCHANGED <<sent, rx, accepted, naks, faults>>
  BY DEF KeepaliveAtHead
<1>2. FLAG \in OctetsOf(Contents) /\ ~ Ending(FLAG)
  BY NamedOctets DEF Contents
<1>3. line \in Seq(S) /\ Head(line) \in S
  BY <1>1, TailOfLine DEF FramingInv, LineTypes
<1>4. e \in S /\ e.octet = FLAG
  BY <1>2, <1>3
<1>5. Head(line).frame \in 0 .. Len(sent)
  BY <1>3
<1> HIDE DEF S, e
<1>6. /\ line' \in Seq(S) /\ Len(line) \in Nat /\ Len(line') = Len(line) + 1
      /\ line'[1] = e /\ \A j \in 1 .. Len(line) : line'[j + 1] = line[j]
  BY <1>1, <1>3, <1>4, OctetAtHead
<1>7. LineTypes'
  BY <1>1, <1>6, SameContents DEF FramingInv, LineTypes, S
<1>8. Receiver(rx)'
  BY <1>1, SameContents DEF FramingInv, Receiver
<1>9. CounterTypes'
  BY <1>1, <1>5, SameContents, BoundsAssumption DEF FramingInv, CounterTypes
<1>10. Order'
  <2>1. ASSUME NEW j \in 1 .. Len(line'), Ending(line'[j].octet)
        PROVE  /\ j + (0 - 1) \in 1 .. Len(line) /\ Ending(line[j + (0 - 1)].octet)
               /\ line'[j].octet.of = line[j + (0 - 1)].octet.of
    <3>1. j # 1
      BY <1>2, <1>4, <1>6, <2>1
    <3>2. j + (0 - 1) \in 1 .. Len(line) /\ (j + (0 - 1)) + 1 = j
      BY <1>6, <3>1
    <3> QED  BY <1>6, <2>1, <3>2
  <2>2. Len(line') \in Nat
    BY <1>6
  <2> QED  BY <1>1, <1>6, <2>1, <2>2, OrderKept DEF FramingInv
<1> QED  BY <1>7, <1>8, <1>9, <1>10 DEF FramingInv

LEMMA DamageCounts ==
  ASSUME FramingInv, line # << >>, Damage(Head(line).frame),
         UNCHANGED <<sent, accepted, naks, keepalives>>
  PROVE  CounterTypes'
<1>1. Head(line).frame \in 0 .. Len(sent)
  BY TailOfLine DEF FramingInv
<1>2. faults' \in 0 .. MaxFaults
  BY BoundsAssumption DEF FramingInv, CounterTypes, Damage
<1>3. damaged' \subseteq 0 .. Len(sent')
  BY <1>1 DEF FramingInv, CounterTypes, Damage
<1>4. accepted' \in Seq(SentFrames')
  BY SameContents DEF FramingInv, CounterTypes
<1> QED  BY <1>2, <1>3, <1>4 DEF FramingInv, CounterTypes

LEMMA DamageInv == FramingInv /\ (DropOctet \/ GarbleOctet \/ ResetReceiver) => FramingInv'
<1> SUFFICES ASSUME FramingInv, DropOctet \/ GarbleOctet \/ ResetReceiver PROVE FramingInv'
  OBVIOUS
<1>1. /\ line # << >> /\ Damage(Head(line).frame)
      /\ UNCHANGED <<sent, accepted, naks, keepalives>>
      /\ rx' = rx \/ rx' = Reset(rx)
  BY DEF DropOctet, GarbleOctet, ResetReceiver
<1>2. CounterTypes'
  BY <1>1, DamageCounts
<1>3. Receiver(rx)' /\ (rx'.crc = rx.crc \/ rx'.crc = << >>)
  <2>1. Receiver(rx) /\ Receiver(Reset(rx)) /\ Reset(rx).crc = << >>
    BY ResetReceiverOK DEF FramingInv
  <2> QED  BY <1>1, <2>1, SameContents DEF Receiver
<1>4. \A i \in 1 .. Len(rx'.crc) :
        Ending(rx'.crc[i]) =>
          \E h \in 1 .. Len(rx.crc) : Ending(rx.crc[h]) /\ rx'.crc[i].of = rx.crc[h].of
  BY <1>3
<1> DEFINE S == [octet : OctetsOf(Contents), frame : 0 .. Len(sent)]
<1>5. /\ Head(line) \in S /\ Head(line) = line[1] /\ 1 \in 1 .. Len(line)
      /\ Len(line) \in Nat /\ Tail(line) \in Seq(S) /\ Len(Tail(line)) \in Nat
      /\ \A j \in 1 .. Len(Tail(line)) :
           j + 1 \in 1 .. Len(line) /\ Tail(line)[j] = line[j + 1]
  BY <1>1, TailOfLine DEF FramingInv
<1>6. PICK d \in {0, 1} :
        /\ line' \in Seq(S) /\ Len(line') \in Nat
        /\ \A j \in 1 .. Len(line') :
             Ending(line'[j].octet) =>
               /\ j + d \in 1 .. Len(line) /\ Ending(line[j + d].octet)
               /\ line'[j].octet.of = line[j + d].octet.of
  <2>1. CASE DropOctet
    <3>1. line' = Tail(line)
      BY <2>1 DEF DropOctet
    <3> QED  BY <1>5, <3>1
  <2>2. CASE GarbleOctet
    <3>1. PICK g \in Garbled : line' = <<[Head(line) EXCEPT !.octet = g]>> \o Tail(line)
      BY <2>2 DEF GarbleOctet
    <3> DEFINE e == [Head(line) EXCEPT !.octet = g]
    <3>2. g \in OctetsOf(Contents) /\ ~ Ending(g)
      BY NamedOctets DEF Contents, Garbled
    <3>3. e \in S /\ e.octet = g
      BY <1>5, <3>2
    <3>4. line \in Seq(S) /\ Len(Tail(line)) = Len(line) - 1
      BY <1>1, HeadTailProperties DEF FramingInv, LineTypes
    <3> HIDE DEF S, e
    <3>5. <<e>> \in Seq(S) /\ Len(<<e>>) = 1 /\ <<e>>[1] = e
      BY <3>3
    <3>6. /\ <<e>> \o Tail(line) \in Seq(S) /\ Len(<<e>> \o Tail(line)) = Len(line)
          /\ \A j \in 1 .. Len(line) :
               (<<e>> \o Tail(line))[j] = IF j <= 1 THEN <<e>>[j] ELSE Tail(line)[j - 1]
      BY <1>5, <3>4, <3>5, ConcatProperties
    <3>7. line' = <<e>> \o Tail(line)
      BY <3>1 DEF e
    <3>8. ASSUME NEW j \in 1 .. Len(line'), Ending(line'[j].octet)
          PROVE  j \in 1 .. Len(line) /\ line'[j] = line[j]
      <4>1. j # 1
        BY <1>5, <3>2, <3>3, <3>5, <3>6, <3>7, <3>8
      <4>2. j - 1 \in 1 .. Len(Tail(line)) /\ (j - 1) + 1 = j /\ ~ j <= 1
        BY <1>5, <3>4, <3>6, <3>7, <4>1
      <4> QED  BY <1>5, <3>6, <3>7, <4>2
    <3>9. \A j \in 1 .. Len(line') :
            Ending(line'[j].octet) =>
              /\ j + 0 \in 1 .. Len(line) /\ Ending(line[j + 0].octet)
              /\ line'[j].octet.of = line[j + 0].octet.of
      BY <3>8
    <3> QED  BY <1>5, <3>6, <3>7, <3>9
  <2>3. CASE ResetReceiver
    <3>1. line' = line
      BY <2>3 DEF ResetReceiver
    <3>2. line \in Seq(S)
      BY DEF FramingInv, LineTypes
    <3> QED  BY <1>5, <3>1, <3>2
  <2> QED  BY <1>1, <2>1, <2>2, <2>3
<1>7. LineTypes'
  BY <1>1, <1>6, SameContents DEF FramingInv, LineTypes
<1>8. Order'
  BY <1>1, <1>4, <1>5, <1>6, OrderKept DEF FramingInv
<1> QED  BY <1>2, <1>3, <1>7, <1>8 DEF FramingInv

(***************************************************************************)
(* A frame that is transmitted comes after all the others, and its octets  *)
(* after those on the line.                                                *)
(***************************************************************************)
LEMMA TransmitInv == FramingInv /\ Transmit => FramingInv'
<1> SUFFICES ASSUME FramingInv, Transmit PROVE FramingInv'
  OBVIOUS
<1>1. PICK f \in Traffic, escapes \in SUBSET {"crcLow", "crcHigh"} :
        /\ \A i \in 1 .. Len(sent) : sent[i] # f
        /\ sent' = Append(sent, f)
        /\ line' = line \o Numbered(FrameOctets(f, escapes), Len(sent'))
  BY DEF Transmit
<1>2. UNCHANGED <<rx, accepted, naks, damaged, keepalives, faults>>
  BY DEF Transmit
<1>3. /\ sent \in Seq(Traffic) /\ Len(sent) \in Nat
      /\ sent' \in Seq(Traffic) /\ Len(sent') = Len(sent) + 1
      /\ \A i \in 1 .. Len(sent) : sent'[i] = sent[i]
      /\ sent'[Len(sent) + 1] = f
  <2>1. sent \in Seq(Traffic)
    BY DEF FramingInv, LineTypes
  <2> QED  BY <1>1, <2>1, AppendProperties, LenProperties
<1>4. /\ SentFrames \subseteq SentFrames' /\ f \in SentFrames'
      /\ Contents \subseteq Contents' /\ OctetsOf(Contents) \subseteq OctetsOf(Contents')
  <2>1. SentFrames \subseteq SentFrames' /\ f \in SentFrames'
    BY <1>3 DEF SentFrames
  <2>2. Contents \subseteq Contents'
    BY <2>1 DEF Contents
  <2> QED  BY <2>1, <2>2 DEF OctetsOf
<1>5. \A i, j \in 1 .. Len(sent') : sent'[i] = sent'[j] => i = j
  <2> TAKE i, j \in 1 .. Len(sent')
  <2>1. CASE i \in 1 .. Len(sent) /\ j \in 1 .. Len(sent)
    BY <1>3, <2>1 DEF FramingInv, LineTypes
  <2>2. CASE i = Len(sent) + 1 \/ j = Len(sent) + 1
    BY <1>1, <1>3, <2>2
  <2> QED  BY <1>3, <2>1, <2>2
<1> DEFINE octets == FrameOctets(f, escapes)
<1>6. octets \in Seq(OctetsOf(Contents')) /\ OneEnding(octets)
      /\ \A j \in 1 .. Len(octets) : Ending(octets[j]) => octets[j].of = f
  <2>1. octets \in Seq(OctetsOf({<< >>, f})) /\ OneEnding(octets)
    BY FrameShape
  <2>2. OctetsOf({<< >>, f}) \subseteq OctetsOf(Contents')
    BY <1>4 DEF OctetsOf, Contents
  <2>3. \A o \in OctetsOf({<< >>, f}) : Ending(o) => o.of = f
    BY DEF OctetsOf, Ending
  <2> HIDE DEF octets
  <2>4. octets \in Seq(OctetsOf(Contents'))
    BY <2>1, <2>2, SeqMonotonic
  <2>5. \A j \in 1 .. Len(octets) : octets[j] \in OctetsOf({<< >>, f})
    BY <2>1, ElementOfSeq
  <2> QED  BY <2>1, <2>3, <2>4, <2>5
<1>7. line' = line \o Numbered(octets, Len(sent'))
  BY <1>1
<1> HIDE DEF octets
<1>8. /\ line' \in Seq([octet : OctetsOf(Contents'), frame : 0 .. Len(sent')])
      /\ Len(line) \in Nat /\ Len(octets) \in Nat
      /\ Len(line') = Len(line) + Len(octets)
      /\ \A j \in 1 .. Len(line) : line'[j] = line[j]
      /\ \A j \in 1 .. Len(octets) : line'[Len(line) + j].octet = octets[j]
  <2>1. Len(sent') \in 0 .. Len(sent') /\ Len(sent) <= Len(sent') /\ Len(sent') \in Nat
    BY <1>3
  <2>2. LineTypes
    BY DEF FramingInv
  <2> QED  BY <1>4, <1>6, <1>7, <2>1, <2>2, AppendedLine
<1>9. LineTypes'
  BY <1>3, <1>5, <1>8 DEF LineTypes
<1>10. Receiver(rx)'
  <2>1. rx \in Receivers'
    <3>1. Seq(OctetsOf(Contents)) \subseteq Seq(OctetsOf(Contents'))
      BY <1>4, SeqMonotonic
    <3>2. Receivers \subseteq Receivers'
      BY <1>4, <3>1 DEF Receivers
    <3> QED  BY <3>2 DEF FramingInv, Receiver
  <2> QED  BY <1>2, <2>1 DEF FramingInv, Receiver
<1>11. CounterTypes'
  <2>1. accepted' \in Seq(SentFrames')
    BY <1>2, <1>4, SeqMonotonic DEF FramingInv, CounterTypes
  <2>2. damaged' \subseteq 0 .. Len(sent')
    BY <1>2, <1>3 DEF FramingInv, CounterTypes
  <2> QED  BY <1>2, <2>1, <2>2 DEF FramingInv, CounterTypes
<1> DEFINE Later(c, e) ==
      \E i, j \in 1 .. Len(sent') : i < j /\ sent'[i] = c /\ sent'[j] = e
<1>12. \A c, e : Before(c, e) => Later(c, e)
  BY <1>3 DEF Before
<1>13. \A c \in SentFrames : Later(c, f)
  <2> TAKE c \in SentFrames
  <2>1. PICK i \in 1 .. Len(sent) : sent[i] = c
    BY DEF SentFrames
  <2>2. /\ i \in 1 .. Len(sent') /\ Len(sent) + 1 \in 1 .. Len(sent') /\ i < Len(sent) + 1
        /\ sent'[i] = c /\ sent'[Len(sent) + 1] = f
    BY <1>3, <2>1
  <2> QED  BY <2>2
<1> HIDE DEF Later
\* An octet that ends a CRC on the new line is an old one or that of f.
<1>14. ASSUME NEW j \in 1 .. Len(line'), Ending(line'[j].octet)
       PROVE  \/ j \in 1 .. Len(line) /\ line'[j] = line[j]
              \/ j > Len(line) /\ line'[j].octet.of = f
  <2>1. CASE j <= Len(line)
    BY <1>8, <2>1
  <2>2. CASE ~ j <= Len(line)
    <3>1. j - Len(line) \in 1 .. Len(octets) /\ Len(line) + (j - Len(line)) = j
      BY <1>8, <2>2
    <3>2. line'[j].octet = octets[j - Len(line)]
      BY <1>8, <3>1
    <3> QED  BY <1>6, <1>8, <1>14, <2>2, <3>1, <3>2
  <2> QED  BY <2>1, <2>2
<1>15. ASSUME NEW j \in 1 .. Len(line), Ending(line[j].octet)
       PROVE  line[j].octet.of \in SentFrames
  <2>1. line[j] \in [octet : OctetsOf(Contents), frame : 0 .. Len(sent)]
    BY ElementOfSeq DEF FramingInv, LineTypes
  <2>2. line[j].octet \in OctetsOf(Contents)
    BY <2>1
  <2> QED  BY <1>15, <2>2 DEF OctetsOf, Contents, Ending
<1>16. ASSUME NEW i \in 1 .. Len(rx.crc), Ending(rx.crc[i])
       PROVE  rx.crc[i].of \in SentFrames
  <2>1. rx.crc[i] \in OctetsOf(Contents)
    BY ElementOfSeq DEF FramingInv, Receiver, Receivers
  <2> QED  BY <1>16, <2>1 DEF OctetsOf, Contents, Ending
<1>17. ASSUME NEW i \in 1 .. Len(line'), NEW j \in 1 .. Len(line'), i < j,
              Ending(line'[i].octet), Ending(line'[j].octet)
       PROVE  Later(line'[i].octet.of, line'[j].octet.of)
  <2>1. CASE j \in 1 .. Len(line) /\ line'[j] = line[j]
    <3>1. i \in 1 .. Len(line) /\ line'[i] = line[i]
      BY <1>8, <1>17, <2>1
    <3>2. Before(line[i].octet.of, line[j].octet.of)
      BY <1>17, <2>1, <3>1 DEF FramingInv, Order, LineOrdered
    <3> QED  BY <1>12, <2>1, <3>1, <3>2
  <2>2. CASE j > Len(line) /\ line'[j].octet.of = f
    <3>1. i \in 1 .. Len(line)
      <4>1. ASSUME i > Len(line) PROVE FALSE
        <5>1. /\ i - Len(line) \in 1 .. Len(octets) /\ Len(line) + (i - Len(line)) = i
              /\ j - Len(line) \in 1 .. Len(octets) /\ Len(line) + (j - Len(line)) = j
              /\ i - Len(line) # j - Len(line)
          BY <1>8, <1>17, <2>2, <4>1
        <5>2. Ending(octets[i - Len(line)]) /\ Ending(octets[j - Len(line)])
          BY <1>8, <1>17, <5>1
        <5> QED  BY <1>6, <5>1, <5>2 DEF OneEnding
      <4> QED  BY <1>8, <4>1
    <3>2. line'[i] = line[i]
      BY <1>8, <3>1
    <3>3. line[i].octet.of \in SentFrames
      BY <1>15, <1>17, <3>1, <3>2
    <3> QED  BY <1>13, <2>2, <3>2, <3>3
  <2> QED  BY <1>14, <1>17, <2>1, <2>2
<1>18. ASSUME NEW i \in 1 .. Len(rx.crc), NEW j \in 1 .. Len(line'),
              Ending(rx.crc[i]), Ending(line'[j].octet)
       PROVE  Later(rx.crc[i].of, line'[j].octet.of)
  <2>1. CASE j \in 1 .. Len(line) /\ line'[j] = line[j]
    <3>1. Before(rx.crc[i].of, line[j].octet.of)
      BY <1>18, <2>1 DEF FramingInv, Order, ReceivedFirst
    <3> QED  BY <1>12, <2>1, <3>1
  <2>2. CASE line'[j].octet.of = f
    BY <1>13, <1>16, <1>18, <2>2
  <2> QED  BY <1>14, <1>18, <2>1, <2>2
<1>19. ASSUME NEW k \in 1 .. Len(accepted)
       PROVE  /\ \A i \in 1 .. Len(rx.crc) :
                   Ending(rx.crc[i]) => Later(accepted[k], rx.crc[i].of)
              /\ \A j \in 1 .. Len(line') :
                   Ending(line'[j].octet) => Later(accepted[k], line'[j].octet.of)
  <2>1. accepted[k] \in SentFrames
    BY ElementOfSeq DEF FramingInv, CounterTypes
  <2>2. ASSUME NEW i \in 1 .. Len(rx.crc), Ending(rx.crc[i])
        PROVE  Later(accepted[k], rx.crc[i].of)
    <3>1. Before(accepted[k], rx.crc[i].of)
      BY <2>2 DEF FramingInv, Order, AcceptedFirst
    <3> QED  BY <1>12, <3>1
  <2>3. ASSUME NEW j \in 1 .. Len(line'), Ending(line'[j].octet)
        PROVE  Later(accepted[k], line'[j].octet.of)
    <3>1. CASE j \in 1 .. Len(line) /\ line'[j] = line[j]
      <4>1. Before(accepted[k], line[j].octet.of)
        BY <2>3, <3>1 DEF FramingInv, Order, AcceptedFirst
      <4> QED  BY <1>12, <3>1, <4>1
    <3>2. CASE line'[j].octet.of = f
      BY <1>13, <2>1, <3>2
    <3> QED  BY <1>14, <2>3, <3>1, <3>2
  <2> QED  BY <2>2, <2>3
<1>20. \A k, l \in 1 .. Len(accepted) : k < l => Later(accepted[k], accepted[l])
  BY <1>12 DEF FramingInv, Order, AcceptedOrdered
<1>21. \A c, e : Before(c, e)' = Later(c, e)
  BY DEF Before, Later
<1>22. LineOrdered' /\ ReceivedFirst'
  <2>1. LineOrdered'
    BY <1>17, <1>21 DEF LineOrdered, Ending
  <2>2. ReceivedFirst'
    BY <1>2, <1>18, <1>21 DEF ReceivedFirst, Ending
  <2> QED  BY <2>1, <2>2
<1>23. AcceptedFirst'
  <2> SUFFICES ASSUME NEW k \in 1 .. Len(accepted)
               PROVE  /\ \A i \in 1 .. Len(rx.crc) :
                           Ending(rx.crc[i]) => Later(accepted[k], rx.crc[i].of)
                      /\ \A j \in 1 .. Len(line') :
                           Ending(line'[j].octet) => Later(accepted[k], line'[j].octet.of)
    BY <1>2, <1>21 DEF AcceptedFirst, Ending
  <2> QED  BY <1>19
<1>24. AcceptedOrdered'
  BY <1>2, <1>20, <1>21 DEF AcceptedOrdered
<1> QED  BY <1>9, <1>10, <1>11, <1>22, <1>23, <1>24 DEF FramingInv, Order

LEMMA NextFraming == FramingInv /\ [Next]_vars => FramingInv'
<1>1. ASSUME FramingInv, UNCHANGED vars PROVE FramingInv'
  <2>1. UNCHANGED <<line, sent, rx, accepted, naks, damaged, keepalives, faults>>
    BY <1>1 DEF vars
  <2>2. LineTypes' /\ CounterTypes'
    BY <1>1, <2>1, SameContents DEF FramingInv, LineTypes, CounterTypes
  <2>3. Receiver(rx)'
    BY <1>1, <2>1, SameContents DEF FramingInv, Receiver
  <2>4. Order'
    <3>1. Order /\ Len(line) \in Nat
      BY <1>1, LenProperties DEF FramingInv, LineTypes
    <3>2. UNCHANGED <<sent, accepted>> /\ line' = line /\ rx'.crc = rx.crc
      BY <2>1
    <3>3. \A j \in 1 .. Len(line') : j + 0 = j
      BY <3>1, <3>2
    <3> QED  BY <3>1, <3>2, <3>3, OrderKept
  <2> QED  BY <2>2, <2>3, <2>4 DEF FramingInv
<1> QED  BY <1>1, TransmitInv, KeepaliveInv, KeepaliveAtHeadInv, DeliverOctetInv,
             DamageInv DEF Next

THEOREM FramingInvariance == Spec => []FramingInv
<1> QED  BY InitFraming, NextFraming, PTL DEF Spec

(***************************************************************************)
(* The receiver never writes beyond its buffer, whatever the line brings.  *)
(***************************************************************************)
THEOREM FramingTypes == Spec => []TypeOK
<1>1. FramingInv => TypeOK
  BY DEF FramingInv, Receiver, Receivers, CounterTypes, TypeOK
<1> QED  BY <1>1, FramingInvariance, PTL

(***************************************************************************)
(* Only frames that were transmitted are accepted, in order and at most    *)
(* once: this is what SFPTransfer and SFPLink assume of their medium.      *)
(***************************************************************************)
THEOREM AcceptedAreSent == Spec => []AcceptsSubsequence
<1>1. FramingInv => AcceptsSubsequence
  <2> SUFFICES ASSUME FramingInv PROVE AcceptsSubsequence
    OBVIOUS
  <2> DEFINE at == [k \in 1 .. Len(accepted) |->
                      CHOOSE i \in 1 .. Len(sent) : sent[i] = accepted[k]]
  <2>1. ASSUME NEW k \in 1 .. Len(accepted)
        PROVE  at[k] \in 1 .. Len(sent) /\ sent[at[k]] = accepted[k]
    <3>1. accepted[k] \in SentFrames
      BY ElementOfSeq DEF FramingInv, CounterTypes
    <3> QED  BY <3>1 DEF SentFrames
  <2>2. at \in [1 .. Len(accepted) -> 1 .. Len(sent)]
    BY <2>1
  <2>3. ASSUME NEW k \in 1 .. Len(accepted), NEW l \in 1 .. Len(accepted), k < l
        PROVE  at[k] < at[l]
    <3>1. PICK i, j \in 1 .. Len(sent) : i < j /\ sent[i] = accepted[k] /\ sent[j] = accepted[l]
      BY <2>3 DEF FramingInv, Order, AcceptedOrdered, Before
    <3>2. at[k] = i /\ at[l] = j
      BY <2>1, <3>1 DEF FramingInv, LineTypes
    <3> QED  BY <3>1, <3>2
  <2> HIDE DEF at
  <2> QED  BY <2>1, <2>2, <2>3 DEF AcceptsSubsequence
<1> QED  BY <1>1, FramingInvariance, PTL

-----------------------------------------------------------------------------
(***************************************************************************)
(* What becomes of a frame that is not damaged.  U are the octets that the *)
(* receiver has taken in of the frame it is reading, their escapes undone. *)
(***************************************************************************)
AllOctets == OctetsOf({<< >>} \cup Traffic)

Reading(r, U) ==
  /\ r \in [ escapeState : {"NORMAL", "ESCAPING"}, frameState : {"NEW", "RECEIVING"},
             header : AllOctets, packet : Seq(AllOctets), crc : Seq(AllOctets) ]
  /\ r.crc = U
  /\ IF U = << >> THEN r.frameState = "NEW" /\ r.packet = << >>
                  ELSE r.frameState = "RECEIVING" /\ U = <<r.header>> \o r.packet

Idle(r) == Reading(r, << >>) /\ r.escapeState = "NORMAL"

\* Reading the octets Z leads from r to t, and no frame in them is answered
\* with a NAK.
Reads(r, Z, t) ==
  \E R :
    /\ R[0] = r /\ R[Len(Z)] = t
    /\ \A k \in 1 .. Len(Z) :
         /\ R[k] = AfterOctet(R[k - 1], Z[k])
         /\ Z[k] = FLAG /\ R[k - 1].frameState = "RECEIVING" => FrameGood(R[k - 1])

LEMMA ReadsNothing == \A r : Reads(r, << >>, r)
<1> TAKE r
<1> DEFINE R == [k \in {0} |-> r]
<1>1. R[0] = r /\ Len(<< >>) = 0
  OBVIOUS
<1>2. \A k \in 1 .. 0 : FALSE
  OBVIOUS
<1> HIDE DEF R
<1> QED  BY <1>1, <1>2 DEF Reads

LEMMA ReadsConcat ==
  ASSUME NEW S, NEW Y \in Seq(S), NEW Z \in Seq(S), NEW r, NEW s, NEW t,
         Reads(r, Y, s), Reads(s, Z, t)
  PROVE  Reads(r, Y \o Z, t)
<1>1. PICK P :
        /\ P[0] = r /\ P[Len(Y)] = s
        /\ \A k \in 1 .. Len(Y) :
             /\ P[k] = AfterOctet(P[k - 1], Y[k])
             /\ Y[k] = FLAG /\ P[k - 1].frameState = "RECEIVING" => FrameGood(P[k - 1])
  BY DEF Reads
<1>2. PICK Q :
        /\ Q[0] = s /\ Q[Len(Z)] = t
        /\ \A k \in 1 .. Len(Z) :
             /\ Q[k] = AfterOctet(Q[k - 1], Z[k])
             /\ Z[k] = FLAG /\ Q[k - 1].frameState = "RECEIVING" => FrameGood(Q[k - 1])
  BY DEF Reads
<1> DEFINE m == Len(Y)
           n == Len(Z)
           W == Y \o Z
           R == [k \in 0 .. m + n |-> IF k <= m THEN P[k] ELSE Q[k - m]]
<1>3. /\ m \in Nat /\ n \in Nat /\ Len(W) = m + n
      /\ \A k \in 1 .. m + n : W[k] = IF k <= m THEN Y[k] ELSE Z[k - m]
  BY LenProperties, ConcatProperties
<1> HIDE DEF W, m, n
<1>4. /\ \A k \in 0 .. m : R[k] = P[k]
      /\ \A k \in 0 .. n : R[m + k] = Q[k]
  <2>1. \A k \in 0 .. m : R[k] = P[k]
    BY <1>3
  <2>2. ASSUME NEW k \in 0 .. n PROVE R[m + k] = Q[k]
    <3>1. m + k \in 0 .. m + n /\ (m + k) - m = k
      BY <1>3
    <3>2. CASE k = 0
      BY <1>1, <1>2, <1>3, <3>1, <3>2 DEF m
    <3>3. CASE k # 0
      <4>1. ~ (m + k <= m)
        BY <1>3, <3>3
      <4> QED  BY <3>1, <4>1
    <3> QED  BY <3>2, <3>3
  <2> QED  BY <2>1, <2>2
<1> HIDE DEF R
<1>5. R[0] = r /\ R[m + n] = t
  <2>1. 0 \in 0 .. m /\ n \in 0 .. n
    BY <1>3
  <2> QED  BY <1>1, <1>2, <1>4, <2>1 DEF n
<1>6. ASSUME NEW k \in 1 .. m + n
      PROVE  /\ R[k] = AfterOctet(R[k - 1], W[k])
             /\ W[k] = FLAG /\ R[k - 1].frameState = "RECEIVING" => FrameGood(R[k - 1])
  <2>1. CASE k <= m
    <3>1. k \in 1 .. m /\ k \in 0 .. m /\ k - 1 \in 0 .. m
      BY <1>3, <2>1
    <3>2. R[k] = P[k] /\ R[k - 1] = P[k - 1] /\ W[k] = Y[k]
      BY <1>3, <1>4, <2>1, <3>1
    <3> QED  BY <1>1, <3>1, <3>2 DEF m
  <2>2. CASE ~ k <= m
    <3>1. k - m \in 1 .. n /\ k - m \in 0 .. n /\ (k - m) - 1 \in 0 .. n
          /\ m + (k - m) = k /\ m + ((k - m) - 1) = k - 1
      BY <1>3, <2>2
    <3>2. R[k] = Q[k - m] /\ R[k - 1] = Q[(k - m) - 1] /\ W[k] = Z[k - m]
      BY <1>3, <1>4, <2>2, <3>1
    <3> QED  BY <1>2, <3>1, <3>2 DEF n
  <2> QED  BY <2>1, <2>2
<1>7. Reads(r, W, t)
  BY <1>3, <1>5, <1>6 DEF Reads
<1> QED  BY <1>7 DEF W

LEMMA ReadsOne ==
  ASSUME NEW r, NEW o, o = FLAG /\ r.frameState = "RECEIVING" => FrameGood(r)
  PROVE  Reads(r, <<o>>, AfterOctet(r, o))
<1> DEFINE R == [k \in 0 .. 1 |-> IF k = 0 THEN r ELSE AfterOctet(r, o)]
<1>1. R[0] = r /\ R[1] = AfterOctet(r, o)
  OBVIOUS
<1> HIDE DEF R
<1>2. Len(<<o>>) = 1 /\ <<o>>[1] = o
  OBVIOUS
<1>3. \A k \in 1 .. 1 : k = 1 /\ k - 1 = 0
  OBVIOUS
<1> QED  BY <1>1, <1>2, <1>3 DEF Reads

\* The first octet first.
LEMMA ReadsFirst ==
  ASSUME NEW S, NEW Z \in Seq(S), Z # << >>, NEW r, NEW t, Reads(r, Z, t)
  PROVE  /\ Reads(AfterOctet(r, Z[1]), Tail(Z), t)
         /\ Z[1] = FLAG /\ r.frameState = "RECEIVING" => FrameGood(r)
<1>1. PICK P :
        /\ P[0] = r /\ P[Len(Z)] = t
        /\ \A k \in 1 .. Len(Z) :
             /\ P[k] = AfterOctet(P[k - 1], Z[k])
             /\ Z[k] = FLAG /\ P[k - 1].frameState = "RECEIVING" => FrameGood(P[k - 1])
  BY DEF Reads
<1> DEFINE n == Len(Tail(Z))
           R == [k \in 0 .. n |-> P[k + 1]]
<1>2. /\ n \in Nat /\ Len(Z) = n + 1
      /\ \A k \in 1 .. n : Tail(Z)[k] = Z[k + 1]
  BY HeadTailProperties, LenProperties, EmptySeq
<1> HIDE DEF n
<1>3. 1 \in 1 .. Len(Z) /\ 1 - 1 = 0
  BY <1>2
<1>4. P[1] = AfterOctet(r, Z[1]) /\ (Z[1] = FLAG /\ r.frameState = "RECEIVING" => FrameGood(r))
  BY <1>1, <1>3
<1>5. R[0] = AfterOctet(r, Z[1]) /\ R[n] = t
  BY <1>1, <1>2, <1>4
<1>6. ASSUME NEW k \in 1 .. n
      PROVE  /\ R[k] = AfterOctet(R[k - 1], Tail(Z)[k])
             /\ Tail(Z)[k] = FLAG /\ R[k - 1].frameState = "RECEIVING" => FrameGood(R[k - 1])
  <2>1. k + 1 \in 1 .. Len(Z) /\ (k + 1) - 1 = k /\ (k - 1) + 1 = k
        /\ k \in 0 .. n /\ k - 1 \in 0 .. n
    BY <1>2
  <2>2. R[k] = P[k + 1] /\ R[k - 1] = P[k] /\ Tail(Z)[k] = Z[k + 1]
    BY <1>2, <2>1
  <2> HIDE DEF R
  <2> QED  BY <1>1, <2>1, <2>2
<1> HIDE DEF R
<1>7. Reads(AfterOctet(r, Z[1]), Tail(Z), t)
  BY <1>5, <1>6 DEF Reads, n
<1> QED  BY <1>4, <1>7

(***************************************************************************)
(* An octet that is not damaged: the receiver takes in what was written,   *)
(* escaped or not, and has room for it.                                    *)
(***************************************************************************)
LEMMA ReadingOctet ==
  ASSUME NEW r, NEW U \in Seq(AllOctets), Reading(r, U), Len(U) <= MaxPacket,
         NEW o \in AllOctets
  PROVE  /\ Reading(ReceiveOctet(r, o), Append(U, o))
         /\ ReceiveOctet(r, o).escapeState = "NORMAL"
<1> DEFINE s == [r EXCEPT !.escapeState = "NORMAL", !.crc = Append(@, o)]
<1>1. /\ s.escapeState = "NORMAL" /\ s.crc = Append(U, o)
      /\ s.frameState = r.frameState /\ s.header = r.header /\ s.packet = r.packet
      /\ Append(U, o) \in Seq(AllOctets) /\ Append(U, o) # << >>
      /\ r.packet \in Seq(AllOctets) /\ r.header \in AllOctets
  <2>1. Append(U, o) \in Seq(AllOctets) /\ Len(Append(U, o)) = Len(U) + 1 /\ Len(U) \in Nat
    BY AppendProperties, LenProperties
  <2>2. Append(U, o) # << >>
    BY <2>1
  <2> HIDE DEF AllOctets
  <2> QED  BY <2>1, <2>2 DEF Reading
<1> DEFINE T == [ escapeState : {"NORMAL", "ESCAPING"}, frameState : {"NEW", "RECEIVING"},
                  header : AllOctets, packet : Seq(AllOctets), crc : Seq(AllOctets) ]
<1>2. s \in T
  BY <1>1 DEF Reading
<1>3. CASE U = << >>
  <2> DEFINE t == [s EXCEPT !.header = o, !.frameState = "RECEIVING"]
  <2>1. ReceiveOctet(r, o) = t
    BY <1>3 DEF ReceiveOctet, Reading
  <2>2. /\ t \in T /\ t.header = o /\ t.frameState = "RECEIVING"
        /\ t.crc = Append(U, o) /\ t.packet = r.packet /\ t.escapeState = "NORMAL"
    BY <1>1, <1>2
  <2>3. r.packet = << >>
    BY <1>3 DEF Reading
  <2>4. Append(U, o) = <<t.header>> \o t.packet
    BY <1>3, <2>2, <2>3
  <2> HIDE DEF t
  <2> QED  BY <1>1, <2>1, <2>2, <2>4 DEF Reading
<1>4. CASE U # << >>
  <2> DEFINE t == [s EXCEPT !.packet = Append(@, o)]
  <2>1. r.frameState = "RECEIVING" /\ U = <<r.header>> \o r.packet
    BY <1>4 DEF Reading
  <2>2. <<r.header>> \in Seq(AllOctets) /\ Len(<<r.header>>) = 1 /\ <<o>> \in Seq(AllOctets)
    BY <1>1
  <2>3. Len(U) = 1 + Len(r.packet) /\ Len(r.packet) \in Nat
    BY <1>1, <2>1, <2>2, ConcatProperties, LenProperties
  <2>4. ~ Len(s.packet) >= MaxPacket
    BY <1>1, <2>3, BoundsAssumption
  <2>5. ReceiveOctet(r, o) = t
    BY <2>1, <2>4 DEF ReceiveOctet, BufferOctet
  <2>6. Append(r.packet, o) \in Seq(AllOctets)
    BY <1>1, AppendProperties
  <2>7. /\ t \in T /\ t.header = r.header /\ t.frameState = "RECEIVING"
        /\ t.crc = Append(U, o) /\ t.packet = Append(r.packet, o) /\ t.escapeState = "NORMAL"
    BY <1>1, <1>2, <2>1, <2>6
  <2>8. Append(U, o) = <<r.header>> \o Append(r.packet, o)
    <3> DEFINE S == Seq(AllOctets)
    <3>1. \A x, y, z \in S : (x \o y) \o z = x \o (y \o z)
      BY ConcatAssociative, SMTT(20)
    <3>2. Append(U, o) = U \o <<o>> /\ Append(r.packet, o) = r.packet \o <<o>>
      BY <1>1, AppendIsConcat
    <3>3. <<r.header>> \in S /\ r.packet \in S /\ <<o>> \in S
      BY <1>1, <2>2
    <3> HIDE DEF S
    <3>4. (<<r.header>> \o r.packet) \o <<o>> = <<r.header>> \o (r.packet \o <<o>>)
      BY <3>1, <3>3
    <3> QED  BY <2>1, <3>2, <3>4
  <2> HIDE DEF t
  <2> QED  BY <1>1, <2>5, <2>7, <2>8 DEF Reading
<1> QED  BY <1>3, <1>4

\* The octets Z transcribe U: whatever the receiver has kept of earlier frames,
\* it takes U from them.
NoFlag(Z) == \A k \in 1 .. Len(Z) : Z[k] # FLAG

Transcribes(Z, U) ==
  /\ Z \in Seq(AllOctets) /\ U \in Seq(AllOctets) /\ NoFlag(Z)
  /\ \A r : Idle(r) => \E t : Reads(r, Z, t) /\ Reading(t, U) /\ t.escapeState = "NORMAL"

LEMMA EscapeOctet ==
  ASSUME NEW o \in AllOctets, o \in {FLAG, ESC} \/ o.name \in {"crcLow", "crcHigh"}
  PROVE  /\ Flip(o) \in AllOctets /\ Flip(o) \notin {FLAG, ESC}
         /\ Flip(Flip(o)) = o
<1>1. o = [name |-> o.name, of |-> o.of] /\ o.name \in DOMAIN Flipped
  BY DEF AllOctets, OctetsOf
<1>2. Flip(o) = [name |-> Flipped[o.name], of |-> o.of]
  BY <1>1 DEF Flip
<1>3. Flip(o) \in AllOctets
  BY FlipKeeps DEF AllOctets
<1>4. Flip(Flip(o)) = [name |-> Flipped[Flipped[o.name]], of |-> o.of]
  <2>1. \A q : Flip(q) = [q EXCEPT !.name = Flipped[@]]
    BY DEF Flip
  <2>2. \A n, c : LET q == [name |-> n, of |-> c]
                 IN  [q EXCEPT !.name = Flipped[@]] = [name |-> Flipped[n], of |-> c]
    OBVIOUS
  <2> QED  BY <1>2, <2>1, <2>2
<1>5. o.name \in {"FLAG", "ESC", "crcLow", "crcHigh"}
  BY DEF FLAG, ESC, Octet
<1>6. Flipped[Flipped[o.name]] = o.name /\ Flipped[o.name] \notin {"FLAG", "ESC"}
  BY <1>5 DEF Flipped
<1>7. Flip(o) \notin {FLAG, ESC}
  BY <1>2, <1>6 DEF FLAG, ESC, Octet
<1> QED  BY <1>1, <1>3, <1>4, <1>6, <1>7

LEMMA TranscribesWritten ==
  ASSUME NEW Z, NEW U, Transcribes(Z, U), Len(U) <= MaxPacket,
         NEW o \in AllOctets, NEW escape \in BOOLEAN,
         escape => o.name \in {"crcLow", "crcHigh"}
  PROVE  Transcribes(Z \o Written(o, escape), Append(U, o))
<1> DEFINE W == Written(o, escape)
<1>1. Z \in Seq(AllOctets) /\ U \in Seq(AllOctets) /\ NoFlag(Z)
  BY DEF Transcribes
<1>2. ESC \in AllOctets
  BY NamedOctets DEF AllOctets
<1>3. /\ W \in Seq(AllOctets) /\ NoFlag(W)
      /\ \A r : Reading(r, U) /\ r.escapeState = "NORMAL" =>
           \E t : Reads(r, W, t) /\ Reading(t, Append(U, o)) /\ t.escapeState = "NORMAL"
  <2>1. CASE ~ (isReservedOctet(o) \/ escape)
    <3>1. W = <<o>> /\ o \notin {FLAG, ESC}
      BY <2>1 DEF Written, isReservedOctet
    <3> HIDE DEF W
    <3>2. W \in Seq(AllOctets) /\ NoFlag(W)
      BY <3>1 DEF NoFlag
    <3>3. ASSUME NEW r, Reading(r, U), r.escapeState = "NORMAL"
          PROVE  \E t : Reads(r, W, t) /\ Reading(t, Append(U, o)) /\ t.escapeState = "NORMAL"
      <4>1. AfterOctet(r, o) = ReceiveOctet(r, o)
        BY <3>1, <3>3 DEF AfterOctet, Unescaped
      <4>2. Reads(r, <<o>>, AfterOctet(r, o))
        BY <3>1, ReadsOne
      <4> QED  BY <1>1, <3>1, <3>3, <4>1, <4>2, ReadingOctet
    <3> QED  BY <3>2, <3>3
  <2>2. CASE isReservedOctet(o) \/ escape
    <3> DEFINE q == Flip(o)
    <3>1. q \in AllOctets /\ q \notin {FLAG, ESC} /\ Flip(q) = o
      BY <2>2, EscapeOctet DEF isReservedOctet
    <3>2. W = <<ESC, q>>
      BY <2>2 DEF Written
    <3> HIDE DEF W, q
    <3>3. W \in Seq(AllOctets) /\ Len(W) = 2 /\ W[1] = ESC /\ W[2] = q
      BY <1>2, <3>1, <3>2
    <3>4. NoFlag(W)
      <4>1. \A k \in 1 .. 2 : k = 1 \/ k = 2
        OBVIOUS
      <4> QED  BY <3>1, <3>3, <4>1, FLAGisNotESC DEF NoFlag
    <3>5. ASSUME NEW r, Reading(r, U), r.escapeState = "NORMAL"
          PROVE  \E t : Reads(r, W, t) /\ Reading(t, Append(U, o)) /\ t.escapeState = "NORMAL"
      <4> DEFINE e == [r EXCEPT !.escapeState = "ESCAPING"]
      <4>1. AfterOctet(r, ESC) = e
        BY FLAGisNotESC DEF AfterOctet
      <4>2. Reading(e, U) /\ e.escapeState = "ESCAPING"
        BY <3>5 DEF Reading
      <4> HIDE DEF e
      <4>3. AfterOctet(e, q) = ReceiveOctet(e, o)
        BY <3>1, <4>2 DEF AfterOctet, Unescaped
      <4>4. Reads(r, <<ESC>>, e) /\ Reads(e, <<q>>, ReceiveOctet(e, o))
        <5>1. Reads(r, <<ESC>>, AfterOctet(r, ESC))
          BY FLAGisNotESC, ReadsOne
        <5>2. Reads(e, <<q>>, AfterOctet(e, q))
          BY <3>1, ReadsOne
        <5> QED  BY <4>1, <4>3, <5>1, <5>2
      <4>5. <<ESC>> \in Seq(AllOctets) /\ <<q>> \in Seq(AllOctets)
        BY <1>2, <3>1
      <4>6. Reads(r, <<ESC>> \o <<q>>, ReceiveOctet(e, o))
        BY <4>4, <4>5, ReadsConcat
      <4>7. <<ESC>> \o <<q>> = <<ESC, q>>
        <5>1. /\ <<ESC>> \o <<q>> \in Seq(AllOctets) /\ Len(<<ESC>> \o <<q>>) = 2
              /\ \A k \in 1 .. 2 : (<<ESC>> \o <<q>>)[k] = IF k <= 1 THEN <<ESC>>[k] ELSE <<q>>[k - 1]
          <6>1. Len(<<ESC>>) = 1 /\ Len(<<q>>) = 1
            OBVIOUS
          <6> QED  BY <4>5, <6>1, ConcatProperties
        <5>2. <<ESC, q>> \in Seq(AllOctets) /\ Len(<<ESC, q>>) = 2
          BY <1>2, <3>1
        <5>3. \A k \in 1 .. 2 : (<<ESC>> \o <<q>>)[k] = <<ESC, q>>[k]
          <6>1. \A k \in 1 .. 2 : k = 1 \/ (k = 2 /\ ~ 2 <= 1 /\ 2 - 1 = 1)
            OBVIOUS
          <6>2. <<ESC>>[1] = ESC /\ <<q>>[1] = q /\ <<ESC, q>>[1] = ESC /\ <<ESC, q>>[2] = q
            OBVIOUS
          <6> QED  BY <5>1, <6>1, <6>2
        <5> QED  BY <5>1, <5>2, <5>3, SeqEqual
      <4> QED  BY <1>1, <3>2, <4>2, <4>6, <4>7, ReadingOctet
    <3> QED  BY <3>3, <3>4, <3>5
  <2> QED  BY <2>1, <2>2
<1> HIDE DEF W
<1>4. Z \o W \in Seq(AllOctets) /\ NoFlag(Z \o W)
  <2>1. /\ Z \o W \in Seq(AllOctets) /\ Len(Z \o W) = Len(Z) + Len(W)
        /\ \A k \in 1 .. Len(Z) + Len(W) :
             (Z \o W)[k] = IF k <= Len(Z) THEN Z[k] ELSE W[k - Len(Z)]
        /\ Len(Z) \in Nat /\ Len(W) \in Nat
    BY <1>1, <1>3, ConcatProperties, LenProperties
  <2> DEFINE V == Z \o W
  <2> HIDE DEF V
  <2>2. ASSUME NEW k \in 1 .. Len(V) PROVE V[k] # FLAG
    <3>1. CASE k <= Len(Z)
      <4>1. k \in 1 .. Len(Z) /\ k \in 1 .. Len(Z) + Len(W)
        BY <2>1, <3>1
      <4> QED  BY <1>1, <2>1, <3>1, <4>1 DEF NoFlag, V
    <3>2. CASE ~ k <= Len(Z)
      <4>1. k - Len(Z) \in 1 .. Len(W) /\ k \in 1 .. Len(Z) + Len(W)
        BY <2>1, <3>2 DEF V
      <4> QED  BY <1>3, <2>1, <3>2, <4>1 DEF NoFlag, V
    <3> QED  BY <3>1, <3>2
  <2> QED  BY <2>1, <2>2 DEF NoFlag, V
<1>5. Append(U, o) \in Seq(AllOctets)
  BY <1>1, AppendProperties
<1>6. ASSUME NEW r, Idle(r)
      PROVE  \E t : Reads(r, Z \o W, t) /\ Reading(t, Append(U, o)) /\ t.escapeState = "NORMAL"
  <2>1. PICK s : Reads(r, Z, s) /\ Reading(s, U) /\ s.escapeState = "NORMAL"
    BY <1>6 DEF Transcribes
  <2>2. PICK t : Reads(s, W, t) /\ Reading(t, Append(U, o)) /\ t.escapeState = "NORMAL"
    BY <1>3, <2>1
  <2>3. Reads(r, Z \o W, t)
    BY <1>1, <1>3, <2>1, <2>2, ReadsConcat
  <2> QED  BY <2>2, <2>3
<1> QED  BY <1>4, <1>5, <1>6 DEF Transcribes, W

\* A frame on the line between its FLAG octets
FrameBody(content, escapes) ==
  WrittenAll(content)
    \o Written(CrcOctet("crcLow", content), "crcLow" \in escapes)
    \o Written(CrcOctet("crcHigh", content), "crcHigh" \in escapes)

\* The receiver has all of the frame f but the FLAG that ends it.
Ready(r, f) ==
  /\ r.frameState = "RECEIVING" /\ FrameGood(r) /\ ReceivedFrame(r) = f
  /\ Idle(Reset(r))

LEMMA TranscribesNothing == Transcribes(<< >>, << >>)
<1>1. << >> \in Seq(AllOctets)
  BY EmptySeq
<1>2. NoFlag(<< >>)
  BY DEF NoFlag
<1>3. ASSUME NEW r, Idle(r)
      PROVE  Reads(r, << >>, r) /\ Reading(r, << >>) /\ r.escapeState = "NORMAL"
  BY <1>3, ReadsNothing DEF Idle
<1> QED  BY <1>1, <1>2, <1>3 DEF Transcribes

LEMMA TranscribesAll ==
  ASSUME NEW f \in Traffic, Len(f) <= MaxPacket
  PROVE  Transcribes(WrittenAll(f), f)
<1> DEFINE h == CHOOSE g : WrittenUpTo(f, g, Len(f))
           prefix(n) == [i \in 1 .. n |-> f[i]]
<1>1. f \in Seq(PlainOctets) /\ f \in Seq(AllOctets) /\ Len(f) \in Nat
  <2>1. f \in Seq(PlainOctets)
    BY TrafficAssumption
  <2>2. PlainOctets \subseteq AllOctets
    BY DEF PlainOctets, AllOctets, OctetsOf
  <2> HIDE DEF h
  <2> QED  BY <2>1, <2>2, SeqMonotonic, LenProperties
<1>2. WrittenUpTo(f, h, Len(f))
  BY <1>1, WrittenUpToExists
<1>3. WrittenAll(f) = h[Len(f)]
  BY DEF WrittenAll, WrittenUpTo, Continued
<1> HIDE DEF h
<1>4. \A i \in 0 .. Len(f) : h[i] = IF i = 0 THEN << >> ELSE Continued(h[i - 1], f, i)
  BY <1>2 DEF WrittenUpTo
<1> DEFINE T == {n \in Nat : n <= Len(f) => Transcribes(h[n], prefix(n))}
<1>5. 0 \in T
  <2>1. h[0] = << >> /\ prefix(0) = << >>
    BY <1>1, <1>4
  <2> QED  BY <2>1, TranscribesNothing
<1>6. ASSUME NEW n \in Nat, n \in T PROVE n + 1 \in T
  <2> SUFFICES ASSUME n + 1 <= Len(f) PROVE Transcribes(h[n + 1], prefix(n + 1))
    OBVIOUS
  <2>1. Transcribes(h[n], prefix(n))
    BY <1>1, <1>6
  <2>2. n + 1 \in 1 .. Len(f) /\ f[n + 1] \in AllOctets
    BY <1>1, ElementOfSeq
  <2>3. prefix(n) \in Seq(AllOctets) /\ Len(prefix(n)) = n
    <3>1. \A i \in 1 .. n : f[i] \in AllOctets
      BY <1>1, ElementOfSeq
    <3> HIDE DEF AllOctets
    <3> QED  BY <3>1, IsASeq
  <2>4. Append(prefix(n), f[n + 1]) = prefix(n + 1)
    <3>1. /\ prefix(n + 1) \in Seq(AllOctets) /\ Len(prefix(n + 1)) = n + 1
          /\ \A i \in 1 .. n + 1 : prefix(n + 1)[i] = f[i]
      <4>1. \A i \in 1 .. n + 1 : f[i] \in AllOctets
        BY <1>1, ElementOfSeq
      <4> HIDE DEF AllOctets
      <4> QED  BY <4>1, IsASeq
    <3>2. \A i \in 1 .. n : prefix(n)[i] = f[i]
      OBVIOUS
    <3> HIDE DEF prefix
    <3>3. /\ Append(prefix(n), f[n + 1]) \in Seq(AllOctets)
          /\ Len(Append(prefix(n), f[n + 1])) = n + 1
          /\ \A i \in 1 .. n + 1 : Append(prefix(n), f[n + 1])[i] = f[i]
      <4>1. /\ Append(prefix(n), f[n + 1]) \in Seq(AllOctets)
            /\ Len(Append(prefix(n), f[n + 1])) = n + 1
            /\ \A i \in 1 .. n : Append(prefix(n), f[n + 1])[i] = prefix(n)[i]
            /\ Append(prefix(n), f[n + 1])[n + 1] = f[n + 1]
        BY <2>2, <2>3, AppendProperties
      <4> QED  BY <3>2, <4>1
    <3> QED  BY <3>1, <3>3, SeqEqual
  <2>5. Transcribes(h[n] \o Written(f[n + 1], FALSE), Append(prefix(n), f[n + 1]))
    <3> DEFINE p == prefix(n)
    <3> HIDE DEF prefix, p
    <3>1. Transcribes(h[n], p) /\ Len(p) <= MaxPacket
      BY <1>1, <2>1, <2>3, BoundsAssumption DEF p
    <3>2. Transcribes(h[n] \o Written(f[n + 1], FALSE), Append(p, f[n + 1]))
      BY <2>2, <3>1, TranscribesWritten
    <3> QED  BY <3>2 DEF p
  <2>6. h[n + 1] = h[n] \o Written(f[n + 1], FALSE)
    <3>1. n + 1 \in 0 .. Len(f) /\ n + 1 # 0 /\ (n + 1) - 1 = n
      BY <2>2
    <3>2. h[n + 1] = Continued(h[(n + 1) - 1], f, n + 1)
      BY <1>4, <3>1
    <3> QED  BY <3>1, <3>2 DEF Continued
  <2> HIDE DEF prefix
  <2> QED  BY <2>4, <2>5, <2>6
<1>7. Nat \subseteq T
  <2> HIDE DEF T
  <2> QED  BY <1>5, <1>6, SetInduction
<1>8. prefix(Len(f)) = f
  BY <1>1
<1> HIDE DEF prefix
<1> QED  BY <1>1, <1>3, <1>7, <1>8

LEMMA ReadyWhenRead ==
  ASSUME NEW f \in Traffic, NEW r, r.escapeState = "NORMAL",
         Reading(r, Append(Append(f, CrcOctet("crcLow", f)), CrcOctet("crcHigh", f)))
  PROVE  Ready(r, f)
<1> DEFINE low == CrcOctet("crcLow", f)
           high == CrcOctet("crcHigh", f)
           n == Len(f)
           U == Append(Append(f, low), high)
<1>1. f \in Seq(AllOctets) /\ n \in Nat /\ n >= 1
  <2>1. f \in Seq(PlainOctets) /\ f # << >>
    BY TrafficAssumption
  <2>2. PlainOctets \subseteq AllOctets
    BY DEF PlainOctets, AllOctets, OctetsOf
  <2> QED  BY <2>1, <2>2, SeqMonotonic, LenProperties, EmptySeq
<1>2. low \in AllOctets /\ high \in AllOctets
  BY NamedOctets DEF AllOctets
<1> HIDE DEF AllOctets, low, high
<1>3. /\ U \in Seq(AllOctets) /\ Len(U) = n + 2
      /\ \A i \in 1 .. n : U[i] = f[i]
      /\ U[n + 1] = low /\ U[n + 2] = high
  <2> DEFINE V == Append(f, low)
  <2>1. /\ V \in Seq(AllOctets) /\ Len(V) = n + 1
        /\ \A i \in 1 .. n : V[i] = f[i]
        /\ V[n + 1] = low
    BY <1>1, <1>2, AppendProperties
  <2> HIDE DEF V, n
  <2>2. /\ Append(V, high) \in Seq(AllOctets) /\ Len(Append(V, high)) = (n + 1) + 1
        /\ \A i \in 1 .. n + 1 : Append(V, high)[i] = V[i]
        /\ Append(V, high)[(n + 1) + 1] = high
    BY <1>2, <2>1, AppendProperties
  <2>3. \A i \in 1 .. n : i \in 1 .. n + 1
    BY <1>1
  <2>4. n + 1 \in 1 .. n + 1 /\ (n + 1) + 1 = n + 2
    BY <1>1
  <2> QED  BY <2>1, <2>2, <2>3, <2>4 DEF V
<1> DEFINE p == r.packet
<1>4. /\ r.crc = U /\ r.frameState = "RECEIVING" /\ U = <<r.header>> \o p
      /\ r.header \in AllOctets /\ p \in Seq(AllOctets)
  <2>1. U # << >>
    BY <1>1, <1>3
  <2> HIDE DEF U
  <2>2. Reading(r, U)
    BY DEF U, low, high
  <2> QED  BY <2>1, <2>2 DEF Reading
<1> HIDE DEF U, p, n
<1>5. /\ Len(p) = n + 1 /\ U[1] = r.header
      /\ \A i \in 1 .. n + 1 : U[i + 1] = p[i]
  <2>1. <<r.header>> \in Seq(AllOctets) /\ Len(<<r.header>>) = 1 /\ <<r.header>>[1] = r.header
    BY <1>4
  <2>2. /\ Len(<<r.header>> \o p) = 1 + Len(p) /\ Len(p) \in Nat
        /\ \A i \in 1 .. 1 + Len(p) : (<<r.header>> \o p)[i] =
             IF i <= 1 THEN <<r.header>>[i] ELSE p[i - 1]
    BY <1>4, <2>1, ConcatProperties, LenProperties
  <2>3. Len(p) = n + 1
    BY <1>1, <1>3, <1>4, <2>2
  <2>4. \A i \in 1 .. n + 1 : i + 1 \in 1 .. 1 + Len(p) /\ ~ i + 1 <= 1 /\ (i + 1) - 1 = i
    BY <1>1, <2>3
  <2>5. 1 \in 1 .. 1 + Len(p)
    BY <2>2
  <2> QED  BY <1>4, <2>1, <2>2, <2>3, <2>4, <2>5
<1>6. FrameGood(r)
  <2> DEFINE content == SubSeq(U, 1, Len(U) - CrcSize)
  <2>1. Len(U) - CrcSize = n /\ Len(U) > CrcSize /\ Len(U) - 1 = n + 1 /\ Len(p) >= CrcSize
    BY <1>1, <1>3, <1>5 DEF CrcSize
  <2>2. content \in Seq(AllOctets) /\ Len(content) = n /\ \A i \in 1 .. n : content[i] = U[i]
    <3>1. \A i \in 1 .. n : U[i] \in AllOctets
      BY <1>1, <1>3, ElementOfSeq
    <3> QED  BY <1>1, <2>1, <3>1, SubSeqProperties
  <2>3. content = f
    <3> HIDE DEF content
    <3>1. \A i \in 1 .. n : content[i] = f[i]
      BY <1>3, <2>2
    <3>2. Len(f) = n
      BY DEF n
    <3> QED  BY <1>1, <2>2, <3>1, <3>2, SeqEqual
  <2> QED  BY <1>3, <1>4, <2>1, <2>3 DEF FrameGood, CrcGood, low, high, p
<1>7. ReceivedFrame(r) = f
  <2> DEFINE body == SubSeq(p, 1, Len(p) - CrcSize)
  <2>1. Len(p) - CrcSize = n - 1 /\ n - 1 \in Nat
    BY <1>1, <1>5 DEF CrcSize
  <2>2. /\ body \in Seq(AllOctets) /\ Len(body) = n - 1
        /\ \A i \in 1 .. n - 1 : body[i] = p[i]
    <3>1. \A i \in 1 .. n - 1 : p[i] \in AllOctets
      BY <1>1, <1>4, <1>5, ElementOfSeq
    <3> QED  BY <2>1, <3>1, SubSeqProperties
  <2> HIDE DEF body
  <2>3. <<r.header>> \in Seq(AllOctets) /\ Len(<<r.header>>) = 1 /\ <<r.header>>[1] = r.header
    BY <1>4
  <2>4. /\ <<r.header>> \o body \in Seq(AllOctets) /\ Len(<<r.header>> \o body) = n
        /\ \A i \in 1 .. n : (<<r.header>> \o body)[i] =
             IF i <= 1 THEN r.header ELSE body[i - 1]
    <3>1. 1 + (n - 1) = n
      BY <1>1
    <3> QED  BY <2>1, <2>2, <2>3, <3>1, ConcatProperties
  <2>5. \A i \in 1 .. n : (<<r.header>> \o body)[i] = f[i]
    <3> TAKE i \in 1 .. n
    <3>1. CASE i = 1
      BY <1>3, <1>5, <2>4, <3>1
    <3>2. CASE i # 1
      <4>1. i - 1 \in 1 .. n - 1 /\ i - 1 \in 1 .. n + 1 /\ (i - 1) + 1 = i /\ ~ i <= 1
        BY <1>1, <3>2
      <4> QED  BY <1>3, <1>5, <2>2, <2>4, <4>1
    <3> QED  BY <3>1, <3>2
  <2>6. Len(f) = n
    BY DEF n
  <2>7. <<r.header>> \o body = f
    BY <1>1, <2>4, <2>5, <2>6, SeqEqual
  <2> QED  BY <2>7 DEF ReceivedFrame, body, p
<1>8. Idle(Reset(r))
  <2>1. << >> \in Seq(AllOctets)
    BY EmptySeq
  <2> QED  BY <2>1 DEF Reading, Reset, Idle
<1> QED  BY <1>4, <1>6, <1>7, <1>8 DEF Ready

\* Whatever the receiver has kept of earlier frames, it gets the frame.
LEMMA FrameBodyRead ==
  ASSUME NEW f \in Traffic, Len(f) + 1 <= MaxPacket, NEW escapes
  PROVE  /\ FrameBody(f, escapes) \in Seq(AllOctets) /\ NoFlag(FrameBody(f, escapes))
         /\ \A r : Idle(r) => \E t : Reads(r, FrameBody(f, escapes), t) /\ Ready(t, f)
<1> DEFINE low == CrcOctet("crcLow", f)
           high == CrcOctet("crcHigh", f)
           B == FrameBody(f, escapes)
<1>1. low \in AllOctets /\ high \in AllOctets /\ low.name = "crcLow" /\ high.name = "crcHigh"
  <2>1. low \in AllOctets /\ high \in AllOctets
    BY NamedOctets DEF AllOctets
  <2> QED  BY <2>1 DEF CrcOctet
<1>2. f \in Seq(AllOctets) /\ Len(f) \in Nat
  <2>1. f \in Seq(PlainOctets) /\ PlainOctets \subseteq AllOctets
    BY TrafficAssumption DEF PlainOctets, AllOctets, OctetsOf
  <2> QED  BY <2>1, SeqMonotonic, LenProperties
<1> HIDE DEF low, high
<1>3. Transcribes(WrittenAll(f), f)
  BY <1>2, BoundsAssumption, TranscribesAll
<1>4. Transcribes(WrittenAll(f) \o Written(low, "crcLow" \in escapes), Append(f, low))
  <2>1. Len(f) <= MaxPacket
    BY <1>2, BoundsAssumption
  <2> DEFINE e == "crcLow" \in escapes
  <2>2. e \in BOOLEAN
    OBVIOUS
  <2> HIDE DEF e
  <2>3. Transcribes(WrittenAll(f) \o Written(low, e), Append(f, low))
    BY <1>1, <1>3, <2>1, <2>2, TranscribesWritten
  <2> QED  BY <2>3 DEF e
<1>5. Transcribes(B, Append(Append(f, low), high))
  <2> DEFINE Z == WrittenAll(f) \o Written(low, "crcLow" \in escapes)
             V == Append(f, low)
  <2>1. Len(V) <= MaxPacket
    BY <1>1, <1>2, AppendProperties
  <2>2. Transcribes(Z, V)
    BY <1>4
  <2> DEFINE e == "crcHigh" \in escapes
  <2>3. e \in BOOLEAN
    OBVIOUS
  <2> HIDE DEF Z, V, e
  <2>4. Transcribes(Z \o Written(high, e), Append(V, high))
    BY <1>1, <2>1, <2>2, <2>3, TranscribesWritten
  <2> QED  BY <2>4 DEF Z, V, FrameBody, low, high, e
<1> HIDE DEF B
<1>6. ASSUME NEW r, Idle(r) PROVE \E t : Reads(r, B, t) /\ Ready(t, f)
  <2>1. PICK t : /\ Reads(r, B, t) /\ t.escapeState = "NORMAL"
                 /\ Reading(t, Append(Append(f, low), high))
    BY <1>5, <1>6 DEF Transcribes
  <2>2. Ready(t, f)
    BY <2>1, ReadyWhenRead DEF low, high
  <2> QED  BY <2>1, <2>2
<1> QED  BY <1>5, <1>6 DEF Transcribes, B

LEMMA IdleAfterReset ==
  /\ \A r, U : Reading(r, U) => Idle(Reset(r))
  /\ LineTypes => \A r : Receiver(r) => Idle(Reset(r))
<1> DEFINE T == [ escapeState : {"NORMAL", "ESCAPING"}, frameState : {"NEW", "RECEIVING"},
                  header : AllOctets, packet : Seq(AllOctets), crc : Seq(AllOctets) ]
<1>1. ASSUME NEW r \in T PROVE Idle(Reset(r))
  <2>1. << >> \in Seq(AllOctets)
    BY EmptySeq
  <2> HIDE DEF AllOctets
  <2> QED  BY <2>1 DEF Reading, Reset, Idle
<1>2. LineTypes => Receivers \subseteq T
  <2> SUFFICES ASSUME LineTypes PROVE Receivers \subseteq T
    OBVIOUS
  <2>1. SentFrames \subseteq Traffic
    BY ElementOfSeq DEF LineTypes, SentFrames
  <2>2. OctetsOf(Contents) \subseteq AllOctets
    BY <2>1 DEF Contents, AllOctets, OctetsOf
  <2>3. Seq(OctetsOf(Contents)) \subseteq Seq(AllOctets)
    BY <2>2, SeqMonotonic
  <2> HIDE DEF AllOctets
  <2> QED  BY <2>2, <2>3 DEF Receivers
<1> QED  BY <1>1, <1>2 DEF Reading, Receiver

LEMMA FrameAround ==
  ASSUME NEW f \in Traffic, Len(f) + 1 <= MaxPacket, NEW escapes
  PROVE  LET B == FrameBody(f, escapes)
             X == FrameOctets(f, escapes)
         IN  /\ X \in Seq(AllOctets) /\ Len(B) \in Nat /\ Len(X) = Len(B) + 2
             /\ X = (<<FLAG>> \o B) \o <<FLAG>>
             /\ <<FLAG>> \in Seq(AllOctets) /\ <<FLAG>> \o B \in Seq(AllOctets)
             /\ X[1] = FLAG /\ X[Len(B) + 2] = FLAG
             /\ \A j \in 1 .. Len(B) : X[j + 1] = B[j]
<1> DEFINE B == FrameBody(f, escapes)
           X == FrameOctets(f, escapes)
           W == WrittenAll(f)
           L == Written(CrcOctet("crcLow", f), "crcLow" \in escapes)
           H == Written(CrcOctet("crcHigh", f), "crcHigh" \in escapes)
           F == <<FLAG>>
           S == Seq(AllOctets)
<1>1. F \in S /\ Len(F) = 1 /\ F[1] = FLAG
  <2>1. FLAG \in AllOctets
    BY NamedOctets DEF AllOctets
  <2> HIDE DEF AllOctets
  <2> QED  BY <2>1
<1>2. B \in S
  BY FrameBodyRead
<1>3. X = (F \o B) \o F
  <2>1. W \in S /\ L \in S /\ H \in S
    <3>1. W \in S
      <4>1. W \in Seq(PlainOctets)
        BY WrittenAllPlain, TrafficAssumption
      <4>2. PlainOctets \subseteq AllOctets
        BY DEF PlainOctets, AllOctets, OctetsOf
      <4> QED  BY <4>1, <4>2, SeqMonotonic
    <3>2. \A o, e : o \in AllOctets => Written(o, e) \in S
      <4> TAKE o, e
      <4>1. o \in AllOctets => Flip(o) \in AllOctets /\ ESC \in AllOctets
        BY FlipKeeps, NamedOctets DEF AllOctets
      <4> HIDE DEF AllOctets
      <4> QED  BY <4>1 DEF Written
    <3>3. CrcOctet("crcLow", f) \in AllOctets /\ CrcOctet("crcHigh", f) \in AllOctets
      BY NamedOctets DEF AllOctets
    <3> QED  BY <3>1, <3>2, <3>3
  <2>2. \A x, y, z \in S : x \o y \in S /\ (x \o y) \o z = x \o (y \o z)
    BY ConcatAssociative, ConcatProperties, SMTT(20)
  <2>3. X = F \o W \o L \o H \o F /\ B = W \o L \o H
    BY DEF FrameOctets, FrameBody
  <2> HIDE DEF F, W, L, H, S, X, B
  <2>4. F \o W \o L = F \o (W \o L) /\ W \o L \in S
    BY <1>1, <2>1, <2>2
  <2>5. (F \o (W \o L)) \o H = F \o ((W \o L) \o H)
    BY <1>1, <2>1, <2>2, <2>4
  <2> QED  BY <2>3, <2>4, <2>5
<1> HIDE DEF B, X, F
<1>4. /\ F \o B \in S /\ Len(F \o B) = 1 + Len(B) /\ Len(B) \in Nat
      /\ \A j \in 1 .. 1 + Len(B) : (F \o B)[j] = IF j <= 1 THEN F[j] ELSE B[j - 1]
  <2>1. /\ F \o B \in S /\ Len(F \o B) = Len(F) + Len(B)
        /\ \A j \in 1 .. Len(F) + Len(B) :
             (F \o B)[j] = IF j <= Len(F) THEN F[j] ELSE B[j - Len(F)]
    BY <1>1, <1>2, ConcatProperties
  <2>2. Len(B) \in Nat
    BY <1>2, LenProperties
  <2> HIDE DEF S
  <2> QED  BY <1>1, <2>1, <2>2
<1>5. /\ X \in S /\ Len(X) = 1 + Len(B) + 1
      /\ \A j \in 1 .. 1 + Len(B) + 1 :
           X[j] = IF j <= 1 + Len(B) THEN (F \o B)[j] ELSE F[j - (1 + Len(B))]
  <2> DEFINE Y == F \o B
  <2> HIDE DEF Y
  <2>1. Y \in S /\ Len(Y) = 1 + Len(B) /\ X = Y \o F
    BY <1>3, <1>4 DEF Y
  <2>2. /\ Y \o F \in S /\ Len(Y \o F) = Len(Y) + Len(F)
        /\ \A j \in 1 .. Len(Y) + Len(F) :
             (Y \o F)[j] = IF j <= Len(Y) THEN Y[j] ELSE F[j - Len(Y)]
    BY <1>1, <2>1, ConcatProperties
  <2> QED  BY <1>1, <2>1, <2>2 DEF Y
<1>6. Len(X) = Len(B) + 2 /\ X[1] = FLAG /\ X[Len(B) + 2] = FLAG
  <2>1. /\ 1 \in 1 .. 1 + Len(B) + 1 /\ 1 <= 1 + Len(B) /\ 1 \in 1 .. 1 + Len(B)
        /\ Len(B) + 2 \in 1 .. 1 + Len(B) + 1 /\ ~ Len(B) + 2 <= 1 + Len(B)
        /\ (Len(B) + 2) - (1 + Len(B)) = 1 /\ 1 + Len(B) + 1 = Len(B) + 2
    BY <1>4
  <2> QED  BY <1>1, <1>4, <1>5, <2>1
<1>7. ASSUME NEW j \in 1 .. Len(B) PROVE X[j + 1] = B[j]
  <2>1. /\ j + 1 \in 1 .. 1 + Len(B) + 1 /\ j + 1 <= 1 + Len(B) /\ j + 1 \in 1 .. 1 + Len(B)
        /\ ~ j + 1 <= 1 /\ (j + 1) - 1 = j
    BY <1>4
  <2> QED  BY <1>4, <1>5, <2>1
<1> QED  BY <1>1, <1>3, <1>4, <1>5, <1>6, <1>7 DEF B, X, F

LEMMA FlagResets ==
  \A r : AfterOctet(r, FLAG) = Reset(r)
BY FLAGisNotESC DEF AfterOctet

LEMMA FrameRead ==
  ASSUME NEW f \in Traffic, Len(f) + 1 <= MaxPacket, NEW escapes, NEW r, Idle(r)
  PROVE  \E t : Reads(r, FrameOctets(f, escapes), t) /\ Idle(t)
<1> DEFINE B == FrameBody(f, escapes)
           X == FrameOctets(f, escapes)
           F == <<FLAG>>
<1>1. /\ X = (F \o B) \o F /\ F \in Seq(AllOctets) /\ F \o B \in Seq(AllOctets)
      /\ B \in Seq(AllOctets)
  BY FrameAround, FrameBodyRead
<1>2. Reads(r, F, Reset(r)) /\ Idle(Reset(r))
  <2>1. r.frameState # "RECEIVING"
    BY DEF Idle, Reading
  <2> QED  BY <2>1, FlagResets, ReadsOne, IdleAfterReset DEF Idle
<1>3. PICK s : Reads(Reset(r), B, s) /\ Ready(s, f)
  BY <1>2, FrameBodyRead
<1>4. Reads(s, F, Reset(s)) /\ Idle(Reset(s))
  BY <1>3, FlagResets, ReadsOne DEF Ready
<1> HIDE DEF B, X, F
<1>5. Reads(r, F \o B, s)
  BY <1>1, <1>2, <1>3, ReadsConcat
<1>6. Reads(r, (F \o B) \o F, Reset(s))
  <2> DEFINE Y == F \o B
  <2> HIDE DEF Y
  <2>1. Y \in Seq(AllOctets) /\ Reads(r, Y, s)
    BY <1>1, <1>5 DEF Y
  <2>2. Reads(r, Y \o F, Reset(s))
    BY <1>1, <1>4, <2>1, ReadsConcat
  <2> QED  BY <2>2 DEF Y
<1> QED  BY <1>1, <1>4, <1>6 DEF X

-----------------------------------------------------------------------------
(***************************************************************************)
(* Every frame that is not damaged waits whole on the line, is being read, *)
(* or has been accepted.  A fault strikes the octet at the head of the     *)
(* line, so the frames behind it stay whole, and the FLAG that opens a     *)
(* frame makes the receiver forget what came before.                       *)
(***************************************************************************)
Waiting(i) ==
  \E s \in 0 .. Len(line), escapes \in SUBSET {"crcLow", "crcHigh"} :
    LET X == FrameOctets(sent[i], escapes) IN
    /\ s + Len(X) <= Len(line)
    /\ \A j \in 1 .. Len(X) : line[s + j] = [octet |-> X[j], frame |-> i]

Arriving(i) ==
  \E Z \in Seq(AllOctets) : \E t :
    /\ NoFlag(Z) /\ Reads(rx, Z, t) /\ Ready(t, sent[i])
    /\ Len(Z) < Len(line)
    /\ \A j \in 1 .. Len(Z) : line[j] = [octet |-> Z[j], frame |-> i]
    /\ line[Len(Z) + 1] = [octet |-> FLAG, frame |-> i]

Arrived(i) == \E k \in 1 .. Len(accepted) : accepted[k] = sent[i]

EveryFrameArrives ==
  \A i \in 1 .. Len(sent) \ damaged : Waiting(i) \/ Arriving(i) \/ Arrived(i)

\* While no frame is damaged, reading what is on the line costs no NAK.
OctetsIn(L) == [j \in 1 .. Len(L) |-> L[j].octet]

LineOctets == OctetsIn(line)

CleanLineReads ==
  damaged = {} => naks = 0 /\ \E t : Reads(rx, LineOctets, t) /\ Idle(t)

TrafficFits == \A f \in Traffic : Len(f) + 1 <= MaxPacket

ArrivalInv == FramingInv /\ EveryFrameArrives /\ CleanLineReads

LEMMA InitArrival == Init => ArrivalInv
<1> SUFFICES ASSUME Init PROVE ArrivalInv
  OBVIOUS
<1>1. EveryFrameArrives
  BY DEF Init, EveryFrameArrives
<1>2. CleanLineReads
  <2>1. LineOctets = << >>
    BY DEF Init, LineOctets, OctetsIn
  <2>2. Idle(rx)
    <3>1. Octet("x") \in AllOctets /\ << >> \in Seq(AllOctets)
      BY NamedOctets, EmptySeq DEF AllOctets
    <3> HIDE DEF AllOctets
    <3> QED  BY <3>1 DEF Init, Idle, Reading
  <2> QED  BY <2>1, <2>2, ReadsNothing DEF Init, CleanLineReads
<1> QED  BY <1>1, <1>2, InitFraming DEF ArrivalInv

LEMMA OctetsInLine ==
  ASSUME NEW L \in Seq([octet : AllOctets, frame : Nat])
  PROVE  /\ OctetsIn(L) \in Seq(AllOctets) /\ Len(OctetsIn(L)) = Len(L) /\ Len(L) \in Nat
         /\ \A j \in 1 .. Len(L) : OctetsIn(L)[j] = L[j].octet
<1>1. Len(L) \in Nat /\ \A j \in 1 .. Len(L) : L[j] \in [octet : AllOctets, frame : Nat]
  BY ElementOfSeq, LenProperties
<1> HIDE DEF AllOctets
<1>2. \A j \in 1 .. Len(L) : L[j].octet \in AllOctets
  BY <1>1
<1> DEFINE n == Len(L)
           e(j) == L[j].octet
           O == [j \in 1 .. n |-> e(j)]
<1> HIDE DEF n, e
<1>3. n \in Nat /\ \A j \in 1 .. n : e(j) \in AllOctets
  BY <1>1, <1>2 DEF n, e
<1>4. O \in Seq(AllOctets) /\ Len(O) = n
  BY <1>3
<1>5. OctetsIn(L) = O
  BY DEF OctetsIn, n, e
<1> QED  BY <1>1, <1>4, <1>5 DEF n, e

LEMMA LineOfOctets ==
  ASSUME LineTypes
  PROVE  /\ line \in Seq([octet : AllOctets, frame : Nat]) /\ Len(line) \in Nat
         /\ LineOctets \in Seq(AllOctets) /\ Len(LineOctets) = Len(line)
<1>1. SentFrames \subseteq Traffic
  BY ElementOfSeq DEF LineTypes, SentFrames
<1>2. OctetsOf(Contents) \subseteq AllOctets
  BY <1>1 DEF Contents, AllOctets, OctetsOf
<1> HIDE DEF AllOctets
<1>3. [octet : OctetsOf(Contents), frame : 0 .. Len(sent)] \subseteq [octet : AllOctets, frame : Nat]
  BY <1>2
<1>4. line \in Seq([octet : AllOctets, frame : Nat])
  <2> DEFINE A == [octet : OctetsOf(Contents), frame : 0 .. Len(sent)]
             B == [octet : AllOctets, frame : Nat]
  <2>1. A \subseteq B /\ line \in Seq(A)
    BY <1>3 DEF LineTypes
  <2> HIDE DEF A, B
  <2>2. line \in Seq(B)
    BY <2>1, SeqMonotonic
  <2> QED  BY <2>2 DEF B
<1> QED  BY <1>4, OctetsInLine DEF LineOctets

LEMMA AppendedOctets ==
  ASSUME LineTypes, NEW octets \in Seq(AllOctets), NEW frame \in Nat,
         line' = line \o Numbered(octets, frame)
  PROVE  /\ Len(octets) \in Nat /\ Len(line') = Len(line) + Len(octets)
         /\ \A j \in 1 .. Len(line) : line'[j] = line[j]
         /\ \A j \in 1 .. Len(octets) :
              line'[Len(line) + j] = [octet |-> octets[j], frame |-> frame]
         /\ LineOctets' = LineOctets \o octets
<1> DEFINE S == [octet : AllOctets, frame : Nat]
           N == Numbered(octets, frame)
<1>1. line \in Seq(S) /\ Len(line) \in Nat /\ LineOctets \in Seq(AllOctets)
      /\ Len(LineOctets) = Len(line)
  BY LineOfOctets
<1>2. Len(octets) \in Nat /\ \A j \in 1 .. Len(octets) : octets[j] \in AllOctets
  BY ElementOfSeq, LenProperties
<1>3. /\ N \in Seq(S) /\ Len(N) = Len(octets)
      /\ \A j \in 1 .. Len(octets) : N[j] = [octet |-> octets[j], frame |-> frame]
  <2>1. N = [j \in 1 .. Len(octets) |-> [octet |-> octets[j], frame |-> frame]]
    BY DEF Numbered
  <2>2. \A j \in 1 .. Len(octets) : [octet |-> octets[j], frame |-> frame] \in S
    BY <1>2
  <2> HIDE DEF S
  <2>3. N \in Seq(S) /\ Len(N) = Len(octets)
    BY <1>2, <2>1, <2>2, IsASeq
  <2> QED  BY <2>1, <2>3
<1> HIDE DEF S, N
<1>4. /\ line' \in Seq(S) /\ Len(line') = Len(line) + Len(octets)
      /\ \A j \in 1 .. Len(line) + Len(octets) :
           line'[j] = IF j <= Len(line) THEN line[j] ELSE N[j - Len(line)]
  <2>1. line' = line \o N
    BY DEF N
  <2>2. /\ line \o N \in Seq(S) /\ Len(line \o N) = Len(line) + Len(N)
        /\ \A j \in 1 .. Len(line) + Len(N) :
             (line \o N)[j] = IF j <= Len(line) THEN line[j] ELSE N[j - Len(line)]
    <3>1. line \in Seq(S) /\ N \in Seq(S)
      BY <1>1, <1>3 DEF S
    <3> QED  BY ONLY <3>1, ConcatProperties
  <2> QED  BY <1>3, <2>1, <2>2
<1>5. \A j \in 1 .. Len(line) : line'[j] = line[j]
  BY <1>1, <1>2, <1>4
<1>6. ASSUME NEW j \in 1 .. Len(octets)
      PROVE  line'[Len(line) + j] = [octet |-> octets[j], frame |-> frame]
  <2>1. /\ Len(line) + j \in 1 .. Len(line) + Len(octets) /\ ~ Len(line) + j <= Len(line)
        /\ (Len(line) + j) - Len(line) = j
    BY <1>1, <1>2
  <2> QED  BY <1>3, <1>4, <2>1
<1>7. LineOctets' = LineOctets \o octets
  <2> DEFINE n == Len(line)
             m == Len(octets)
             P == OctetsIn(line')
             Q == LineOctets \o octets
  <2>1. /\ LineOctets \in Seq(AllOctets) /\ Len(LineOctets) = n
        /\ \A j \in 1 .. n : LineOctets[j] = line[j].octet
    BY <1>1, OctetsInLine DEF LineOctets, S
  <2>2. /\ P \in Seq(AllOctets) /\ Len(P) = n + m
        /\ \A j \in 1 .. n + m : P[j] = line'[j].octet
    BY <1>4, OctetsInLine DEF S
  <2>3. /\ Q \in Seq(AllOctets) /\ Len(Q) = Len(LineOctets) + m
        /\ \A j \in 1 .. Len(LineOctets) + m :
             Q[j] = IF j <= Len(LineOctets) THEN LineOctets[j]
                                            ELSE octets[j - Len(LineOctets)]
    BY <2>1, ConcatProperties
  <2>4. n \in Nat /\ m \in Nat
    BY <1>1, <1>2
  <2> HIDE DEF P, Q
  <2>5. ASSUME NEW j \in 1 .. n + m PROVE P[j] = Q[j]
    <3>1. CASE j <= n
      <4>1. j \in 1 .. n
        BY <3>1
      <4> QED  BY <1>5, <2>1, <2>2, <2>3, <3>1, <4>1
    <3>2. CASE ~ j <= n
      <4>1. j - n \in 1 .. m /\ n + (j - n) = j
        BY <2>4, <3>2
      <4>2. line'[j] = [octet |-> octets[j - n], frame |-> frame]
        BY <1>6, <4>1
      <4>3. P[j] = octets[j - n]
        <5>1. P[j] = line'[j].octet
          BY <2>2
        <5>2. line'[j].octet = octets[j - n]
          BY <4>2
        <5> QED  BY <5>1, <5>2
      <4>4. Q[j] = octets[j - n]
        BY <2>1, <2>3, <3>2
      <4> QED  BY <4>3, <4>4
    <3> QED  BY <3>1, <3>2
  <2>6. P = Q
    <3>1. Len(P) = Len(Q) /\ \A j \in 1 .. Len(P) : P[j] = Q[j]
      BY <2>1, <2>2, <2>3, <2>5
    <3> QED  BY <2>2, <2>3, <3>1, SeqEqual
  <2> QED  BY <2>6 DEF P, Q, LineOctets
<1> QED  BY <1>2, <1>4, <1>5, <1>6, <1>7

\* Where octets are added to the line, what waits or arrives still does.
LEMMA LongerLine ==
  ASSUME TrafficFits, LineTypes, UNCHANGED <<rx, accepted>>,
         Len(line') \in Nat, Len(line) <= Len(line'),
         \A j \in 1 .. Len(line) : line'[j] = line[j],
         NEW i \in 1 .. Len(sent), sent'[i] = sent[i]
  PROVE  /\ Waiting(i) => Waiting(i)'
         /\ Arriving(i) => Arriving(i)'
         /\ Arrived(i) => Arrived(i)'
<1>1. Len(line) \in Nat /\ sent[i] \in Traffic /\ Len(sent[i]) + 1 <= MaxPacket
  <2>1. Len(line) \in Nat
    BY LineOfOctets
  <2>2. sent[i] \in Traffic
    BY ElementOfSeq DEF LineTypes
  <2> QED  BY <2>1, <2>2 DEF TrafficFits
<1>2. Waiting(i) => Waiting(i)'
  <2> SUFFICES ASSUME Waiting(i) PROVE Waiting(i)'
    OBVIOUS
  <2>1. PICK s \in 0 .. Len(line), e \in SUBSET {"crcLow", "crcHigh"} :
          /\ s + Len(FrameOctets(sent[i], e)) <= Len(line)
          /\ \A j \in 1 .. Len(FrameOctets(sent[i], e)) :
               line[s + j] = [octet |-> FrameOctets(sent[i], e)[j], frame |-> i]
    BY DEF Waiting
  <2> DEFINE Y == FrameOctets(sent[i], e)
  <2>2. Len(Y) \in Nat
    BY <1>1, FrameAround, LenProperties
  <2> HIDE DEF Y
  <2>3. s + Len(Y) <= Len(line) /\
        \A j \in 1 .. Len(Y) : line[s + j] = [octet |-> Y[j], frame |-> i]
    BY <2>1 DEF Y
  <2>4. s \in 0 .. Len(line') /\ s + Len(Y) <= Len(line')
    BY <1>1, <2>2, <2>3
  <2>5. \A j \in 1 .. Len(Y) : s + j \in 1 .. Len(line)
    BY <1>1, <2>2, <2>3
  <2>6. \A j \in 1 .. Len(Y) : line'[s + j] = [octet |-> Y[j], frame |-> i]
    BY <2>3, <2>5
  <2>7. Y = FrameOctets(sent'[i], e)
    BY DEF Y
  <2> QED  BY <2>4, <2>6, <2>7 DEF Waiting
<1>3. Arriving(i) => Arriving(i)'
  <2> SUFFICES ASSUME Arriving(i) PROVE Arriving(i)'
    OBVIOUS
  <2>1. PICK Z \in Seq(AllOctets) : \E t :
          /\ NoFlag(Z) /\ Reads(rx, Z, t) /\ Ready(t, sent[i])
          /\ Len(Z) < Len(line)
          /\ \A j \in 1 .. Len(Z) : line[j] = [octet |-> Z[j], frame |-> i]
          /\ line[Len(Z) + 1] = [octet |-> FLAG, frame |-> i]
    BY DEF Arriving
  <2>2. Len(Z) \in Nat
    BY LenProperties
  <2>3. /\ Len(Z) < Len(line') /\ Len(Z) + 1 \in 1 .. Len(line)
        /\ \A j \in 1 .. Len(Z) : j \in 1 .. Len(line)
    BY <1>1, <2>1, <2>2
  <2>4. line'[Len(Z) + 1] = [octet |-> FLAG, frame |-> i]
        /\ \A j \in 1 .. Len(Z) : line'[j] = [octet |-> Z[j], frame |-> i]
    BY <2>1, <2>3
  <2>5. PICK t : NoFlag(Z) /\ Reads(rx', Z, t) /\ Ready(t, sent'[i])
    BY <2>1
  <2> QED  BY <2>3, <2>4, <2>5 DEF Arriving
<1>4. Arrived(i) => Arrived(i)'
  BY DEF Arrived
<1> QED  BY <1>2, <1>3, <1>4

LEMMA TransmitArrival ==
  ASSUME TrafficFits, ArrivalInv, Transmit
  PROVE  EveryFrameArrives' /\ CleanLineReads'
<1>1. PICK f \in Traffic, escapes \in SUBSET {"crcLow", "crcHigh"} :
        /\ sent' = Append(sent, f)
        /\ line' = line \o Numbered(FrameOctets(f, escapes), Len(sent'))
  BY DEF Transmit
<1>2. UNCHANGED <<rx, accepted, naks, damaged, keepalives, faults>>
  BY DEF Transmit
<1>3. /\ LineTypes /\ Len(sent) \in Nat /\ Len(sent') = Len(sent) + 1
      /\ \A i \in 1 .. Len(sent) : sent'[i] = sent[i]
      /\ sent'[Len(sent) + 1] = f
  <2>1. LineTypes /\ sent \in Seq(Traffic)
    BY DEF ArrivalInv, FramingInv, LineTypes
  <2> QED  BY <1>1, <2>1, AppendProperties, LenProperties
<1> DEFINE X == FrameOctets(f, escapes)
<1>4. X \in Seq(AllOctets) /\ Len(f) + 1 <= MaxPacket
  BY FrameAround DEF TrafficFits
<1>5. /\ Len(X) \in Nat /\ Len(line') = Len(line) + Len(X) /\ Len(line) \in Nat
      /\ \A j \in 1 .. Len(line) : line'[j] = line[j]
      /\ \A j \in 1 .. Len(X) :
           line'[Len(line) + j] = [octet |-> X[j], frame |-> Len(sent')]
      /\ LineOctets' = LineOctets \o X
  <2>1. Len(sent') \in Nat
    BY <1>3
  <2>2. line' = line \o Numbered(X, Len(sent'))
    BY <1>1
  <2> HIDE DEF X
  <2> QED  BY <1>3, <1>4, <2>1, <2>2, AppendedOctets, LineOfOctets
<1>6. EveryFrameArrives'
  <2> SUFFICES ASSUME NEW i \in 1 .. Len(sent'), i \notin damaged
               PROVE  Waiting(i)' \/ Arriving(i)' \/ Arrived(i)'
    BY <1>2 DEF EveryFrameArrives
  <2>1. CASE i = Len(sent) + 1
    <3>1. sent'[i] = f /\ Len(sent') = i
      BY <1>3, <2>1
    <3>2. Len(line) \in 0 .. Len(line')
      BY <1>5
    <3>3. Len(line) + Len(X) <= Len(line') /\ X = FrameOctets(sent'[i], escapes)
          /\ \A j \in 1 .. Len(X) : line'[Len(line) + j] = [octet |-> X[j], frame |-> i]
      BY <1>5, <3>1
    <3> HIDE DEF X
    <3>4. Waiting(i)'
      BY <3>2, <3>3 DEF Waiting
    <3> QED  BY <3>4
  <2>2. CASE i # Len(sent) + 1
    <3>1. i \in 1 .. Len(sent) /\ sent'[i] = sent[i]
      BY <1>3, <2>2
    <3>2. Waiting(i) \/ Arriving(i) \/ Arrived(i)
      BY <3>1 DEF ArrivalInv, EveryFrameArrives
    <3>3. Len(line') \in Nat /\ Len(line) <= Len(line')
      BY <1>5
    <3> HIDE DEF X
    <3> QED  BY <1>2, <1>3, <1>5, <3>1, <3>2, <3>3, LongerLine
  <2> QED  BY <2>1, <2>2
<1>7. CleanLineReads'
  <2> SUFFICES ASSUME damaged = {}
               PROVE  naks = 0 /\ \E t : Reads(rx, LineOctets', t) /\ Idle(t)
    BY <1>2 DEF CleanLineReads
  <2>1. PICK s : naks = 0 /\ Reads(rx, LineOctets, s) /\ Idle(s)
    BY DEF ArrivalInv, CleanLineReads
  <2>2. PICK t : Reads(s, X, t) /\ Idle(t)
    BY <1>4, <2>1, FrameRead
  <2>3. LineOctets \in Seq(AllOctets)
    BY <1>3, LineOfOctets
  <2> HIDE DEF X
  <2>4. Reads(rx, LineOctets \o X, t)
    BY <1>4, <2>1, <2>2, <2>3, ReadsConcat
  <2> QED  BY <1>5, <2>1, <2>2, <2>4
<1> QED  BY <1>6, <1>7

LEMMA KeepaliveArrival ==
  ASSUME TrafficFits, ArrivalInv, Keepalive
  PROVE  EveryFrameArrives' /\ CleanLineReads'
<1>1. /\ line' = line \o Numbered(<<FLAG>>, 0)
      /\ UNCHANGED <<sent, rx, accepted, naks, damaged, faults>>
  BY DEF Keepalive
<1>2. LineTypes
  BY DEF ArrivalInv, FramingInv
<1> DEFINE F == <<FLAG>>
<1>3. F \in Seq(AllOctets)
  <2>1. FLAG \in AllOctets
    BY NamedOctets DEF AllOctets
  <2> HIDE DEF AllOctets
  <2> QED  BY <2>1
<1>4. /\ Len(line) \in Nat /\ Len(line') = Len(line) + 1
      /\ \A j \in 1 .. Len(line) : line'[j] = line[j]
      /\ LineOctets' = LineOctets \o F
  <2>1. Len(F) = 1 /\ line' = line \o Numbered(F, 0) /\ 0 \in Nat
    BY <1>1
  <2> HIDE DEF F
  <2> QED  BY <1>2, <1>3, <2>1, AppendedOctets, LineOfOctets
<1>5. EveryFrameArrives'
  <2> SUFFICES ASSUME NEW i \in 1 .. Len(sent), i \notin damaged
               PROVE  Waiting(i)' \/ Arriving(i)' \/ Arrived(i)'
    BY <1>1 DEF EveryFrameArrives
  <2>1. Waiting(i) \/ Arriving(i) \/ Arrived(i)
    BY DEF ArrivalInv, EveryFrameArrives
  <2>2. Len(line') \in Nat /\ Len(line) <= Len(line')
    BY <1>4
  <2> QED  BY <1>1, <1>2, <1>4, <2>1, <2>2, LongerLine
<1>6. CleanLineReads'
  <2> SUFFICES ASSUME damaged = {}
               PROVE  naks = 0 /\ \E t : Reads(rx, LineOctets', t) /\ Idle(t)
    BY <1>1 DEF CleanLineReads
  <2>1. PICK s : naks = 0 /\ Reads(rx, LineOctets, s) /\ Idle(s)
    BY DEF ArrivalInv, CleanLineReads
  <2>2. Reads(s, F, Reset(s)) /\ Idle(Reset(s))
    <3>1. s.frameState # "RECEIVING"
      BY <2>1 DEF Idle, Reading
    <3> QED  BY <2>1, <3>1, FlagResets, ReadsOne, IdleAfterReset DEF Idle
  <2>3. LineOctets \in Seq(AllOctets)
    BY <1>2, LineOfOctets
  <2> HIDE DEF F
  <2>4. Reads(rx, LineOctets \o F, Reset(s))
    BY <1>3, <2>1, <2>2, <2>3, ReadsConcat
  <2> QED  BY <1>4, <2>1, <2>2, <2>4
<1> QED  BY <1>5, <1>6

\* A FLAG before the head of the line: what waits is one place further, and
\* the frame that is arriving is broken unless its closing FLAG is next.
LEMMA KeepaliveAtHeadArrival ==
  ASSUME TrafficFits, ArrivalInv, KeepaliveAtHead
  PROVE  EveryFrameArrives' /\ CleanLineReads'
<1> DEFINE S == [octet : AllOctets, frame : Nat]
           e == [Head(line) EXCEPT !.octet = FLAG]
<1>1. /\ line # << >> /\ line' = <<e>> \o line
      /\ damaged' = IF Head(line).octet = FLAG THEN damaged
                                               ELSE damaged \cup {Head(line).frame}
      /\ UNCHANGED <<sent, rx, accepted, naks, faults>>
  BY DEF KeepaliveAtHead
<1>2. LineTypes
  BY DEF ArrivalInv, FramingInv
<1>3. /\ line \in Seq(S) /\ Head(line) = line[1] /\ 1 \in 1 .. Len(line)
      /\ line[1] \in S
  BY <1>1, <1>2, TailOfLine, LineOfOctets, ElementOfSeq
<1>4. FLAG \in AllOctets
  BY NamedOctets DEF AllOctets
<1>5. e \in S /\ e.octet = FLAG /\ e.frame = line[1].frame
      /\ e = [octet |-> FLAG, frame |-> line[1].frame]
  BY <1>3, <1>4
<1> HIDE DEF S, e
<1>6. /\ line' \in Seq(S) /\ Len(line) \in Nat /\ Len(line') = Len(line) + 1
      /\ line'[1] = e /\ \A j \in 1 .. Len(line) : line'[j + 1] = line[j]
  BY <1>1, <1>3, <1>5, OctetAtHead
<1>7. EveryFrameArrives'
  <2> SUFFICES ASSUME NEW i \in 1 .. Len(sent), i \notin damaged,
                      line[1].octet # FLAG => line[1].frame # i
               PROVE  Waiting(i)' \/ Arriving(i)' \/ Arrived(i)'
    BY <1>1, <1>3 DEF EveryFrameArrives
  <2>1. CASE Waiting(i)
    <3>1. PICK s \in 0 .. Len(line), x \in SUBSET {"crcLow", "crcHigh"} :
            /\ s + Len(FrameOctets(sent[i], x)) <= Len(line)
            /\ \A j \in 1 .. Len(FrameOctets(sent[i], x)) :
                 line[s + j] = [octet |-> FrameOctets(sent[i], x)[j], frame |-> i]
      BY <2>1 DEF Waiting
    <3> DEFINE X == FrameOctets(sent[i], x)
    <3>2. Len(X) \in Nat
      <4>1. sent[i] \in Traffic
        BY <1>2, ElementOfSeq DEF LineTypes
      <4>2. Len(sent[i]) + 1 <= MaxPacket
        BY <4>1 DEF TrafficFits
      <4> QED  BY <4>1, <4>2, FrameAround, LenProperties
    <3> HIDE DEF X
    <3>3. s + Len(X) <= Len(line)
          /\ \A j \in 1 .. Len(X) : line[s + j] = [octet |-> X[j], frame |-> i]
      BY <3>1 DEF X
    <3>4. ASSUME NEW j \in 1 .. Len(X)
          PROVE  line'[(s + 1) + j] = [octet |-> X[j], frame |-> i]
      <4>1. s + j \in 1 .. Len(line) /\ (s + j) + 1 = (s + 1) + j
        BY <1>6, <3>2, <3>3
      <4>2. line'[(s + j) + 1] = line[s + j]
        BY <1>6, <4>1
      <4> QED  BY <3>3, <4>1, <4>2
    <3>5. s + 1 \in 0 .. Len(line') /\ (s + 1) + Len(X) <= Len(line')
          /\ X = FrameOctets(sent'[i], x)
      BY <1>1, <1>6, <3>2, <3>3 DEF X
    <3>6. Waiting(i)'
      BY <3>4, <3>5 DEF Waiting
    <3> QED  BY <3>6
  <2>2. CASE Arriving(i)
    <3>1. PICK Z \in Seq(AllOctets) : \E t :
            /\ NoFlag(Z) /\ Reads(rx, Z, t) /\ Ready(t, sent[i])
            /\ Len(Z) < Len(line)
            /\ \A j \in 1 .. Len(Z) : line[j] = [octet |-> Z[j], frame |-> i]
            /\ line[Len(Z) + 1] = [octet |-> FLAG, frame |-> i]
      BY <2>2 DEF Arriving
    <3>2. Len(Z) \in Nat
      BY LenProperties
    <3>3. CASE Len(Z) # 0
      <4>1. 1 \in 1 .. Len(Z)
        BY <3>2, <3>3
      <4>2. Z[1] # FLAG
        BY <3>1, <4>1 DEF NoFlag
      <4>3. line[1].octet = Z[1] /\ line[1].frame = i
        <5>1. line[1] = [octet |-> Z[1], frame |-> i]
          BY <3>1, <4>1
        <5> QED  BY <5>1
      <4> QED  BY <4>2, <4>3
    <3>4. CASE Len(Z) = 0
      <4>1. line[1].frame = i
        <5>1. line[1] = [octet |-> FLAG, frame |-> i]
          BY <3>1, <3>4
        <5> QED  BY <5>1
      <4>2. line'[Len(Z) + 1] = [octet |-> FLAG, frame |-> i]
        BY <1>5, <1>6, <3>4, <4>1
      <4>3. Len(Z) < Len(line') /\ \A j \in 1 .. Len(Z) : FALSE
        BY <1>6, <3>4
      <4>4. PICK t : NoFlag(Z) /\ Reads(rx', Z, t) /\ Ready(t, sent'[i])
        BY <1>1, <3>1
      <4>5. Arriving(i)'
        BY <4>2, <4>3, <4>4 DEF Arriving
      <4> QED  BY <4>5
    <3> QED  BY <3>3, <3>4
  <2>3. CASE Arrived(i)
    <3>1. Arrived(i)'
      BY <1>1, <2>3 DEF Arrived
    <3> QED  BY <3>1
  <2> QED  BY <2>1, <2>2, <2>3 DEF ArrivalInv, EveryFrameArrives
<1>8. CleanLineReads'
  <2> SUFFICES ASSUME damaged = {}, line[1].octet = FLAG
               PROVE  naks = 0 /\ \E t : Reads(rx, LineOctets', t) /\ Idle(t)
    BY <1>1, <1>3 DEF CleanLineReads
  <2> DEFINE L == LineOctets
             F == <<FLAG>>
             P == F \o L
  <2>1. PICK t : naks = 0 /\ Reads(rx, L, t) /\ Idle(t)
    BY DEF ArrivalInv, CleanLineReads
  <2>2. /\ L \in Seq(AllOctets) /\ Len(L) = Len(line)
        /\ \A j \in 1 .. Len(line) : L[j] = line[j].octet
    BY <1>2, LineOfOctets, OctetsInLine DEF LineOctets
  <2> HIDE DEF L
  <2>3. L # << >> /\ L[1] = FLAG
    BY <1>3, <2>2
  <2>4. Reads(Reset(rx), Tail(L), t) /\ (rx.frameState = "RECEIVING" => FrameGood(rx))
    BY <2>1, <2>2, <2>3, ReadsFirst, FlagResets
  <2>5. F \in Seq(AllOctets) /\ Len(F) = 1 /\ F[1] = FLAG
    <3> HIDE DEF AllOctets
    <3> QED  BY <1>4
  <2>6. Tail(L) \in Seq(AllOctets) /\ L = F \o Tail(L)
    <3>1. /\ Tail(L) \in Seq(AllOctets) /\ Len(Tail(L)) = Len(L) - 1
          /\ \A j \in 1 .. Len(Tail(L)) : Tail(L)[j] = L[j + 1]
      BY <2>2, <2>3, HeadTailProperties
    <3> DEFINE T == Tail(L)
    <3> HIDE DEF F, T
    <3>2. /\ F \o T \in Seq(AllOctets) /\ Len(F \o T) = 1 + Len(T)
          /\ \A j \in 1 .. 1 + Len(T) : (F \o T)[j] = IF j <= 1 THEN F[j] ELSE T[j - 1]
      BY <2>5, <3>1, ConcatProperties, SMTT(20) DEF T
    <3>3. Len(F \o T) = Len(L) /\ Len(L) \in Nat
      BY <1>6, <2>2, <3>1, <3>2 DEF T
    <3>4. ASSUME NEW j \in 1 .. Len(L) PROVE (F \o T)[j] = L[j]
      <4>1. CASE j = 1
        BY <2>3, <2>5, <3>2, <3>3, <4>1
      <4>2. CASE j # 1
        <5>1. j - 1 \in 1 .. Len(T) /\ (j - 1) + 1 = j /\ ~ j <= 1
          BY <3>2, <3>3, <4>2
        <5> QED  BY <3>1, <3>2, <3>3, <5>1 DEF T
      <4> QED  BY <4>1, <4>2
    <3>5. F \o T = L
      BY <2>2, <3>2, <3>3, <3>4, SeqEqual
    <3> QED  BY <3>1, <3>5 DEF T
  <2>7. Reads(rx, F, Reset(rx)) /\ Reads(Reset(rx), F, Reset(Reset(rx)))
    <3>1. Reset(rx).frameState # "RECEIVING"
      BY DEF Reset
    <3> QED  BY <2>4, <3>1, FlagResets, ReadsOne
  <2>8. Reset(Reset(rx)) = Reset(rx)
    <3>1. Receiver(rx)
      BY DEF ArrivalInv, FramingInv
    <3> QED  BY <3>1 DEF Receiver, Receivers, Reset
  <2> HIDE DEF F
  <2>9. Reads(Reset(rx), L, t)
    BY <2>4, <2>5, <2>6, <2>7, <2>8, ReadsConcat
  <2>10. Reads(rx, P, t)
    BY <2>2, <2>5, <2>7, <2>9, ReadsConcat
  <2>11. LineOctets' = P
    <3> DEFINE O == OctetsIn(line')
    <3>1. O \in Seq(AllOctets) /\ Len(O) = Len(line')
          /\ \A j \in 1 .. Len(line') : O[j] = line'[j].octet
      BY <1>6, OctetsInLine DEF S
    <3>2. /\ P \in Seq(AllOctets) /\ Len(P) = 1 + Len(L)
          /\ \A j \in 1 .. 1 + Len(L) : P[j] = IF j <= 1 THEN F[j] ELSE L[j - 1]
      <4> DEFINE A == Seq(AllOctets)
      <4>1. F \in A /\ L \in A /\ Len(F) = 1
        BY <2>2, <2>5
      <4>2. /\ F \o L \in A /\ Len(F \o L) = Len(F) + Len(L)
            /\ \A j \in 1 .. Len(F) + Len(L) :
                 (F \o L)[j] = IF j <= Len(F) THEN F[j] ELSE L[j - Len(F)]
        BY <4>1, ConcatProperties
      <4> HIDE DEF A
      <4> QED  BY <4>1, <4>2 DEF A
    <3> HIDE DEF O, P
    <3>3. Len(O) = Len(P)
      BY <1>6, <2>2, <3>1, <3>2
    <3>4. ASSUME NEW j \in 1 .. Len(O) PROVE O[j] = P[j]
      <4>1. CASE j = 1
        BY <1>5, <1>6, <2>2, <2>5, <3>1, <3>2, <4>1
      <4>2. CASE j # 1
        <5>1. j - 1 \in 1 .. Len(line) /\ (j - 1) + 1 = j /\ ~ j <= 1
              /\ j \in 1 .. 1 + Len(L)
          BY <1>6, <2>2, <3>1, <4>2
        <5>2. line'[j] = line[j - 1]
          BY <1>6, <5>1
        <5>3. P[j] = L[j - 1]
          BY <3>2, <5>1
        <5>4. O[j] = line'[j].octet
          BY <3>1
        <5> QED  BY <2>2, <5>1, <5>2, <5>3, <5>4
      <4> QED  BY <4>1, <4>2
    <3>5. O = P
      BY <3>1, <3>2, <3>3, <3>4, SeqEqual
    <3> QED  BY <3>5 DEF O, LineOctets
  <2> HIDE DEF P
  <2>12. naks = 0 /\ Reads(rx, LineOctets', t) /\ Idle(t)
    BY <2>1, <2>10, <2>11
  <2> QED  BY <2>12
<1> QED  BY <1>7, <1>8

\* The head of the line is gone: what waits is one place nearer.
LEMMA WaitingNearer ==
  ASSUME TrafficFits, LineTypes, UNCHANGED sent, line # << >>, line' = Tail(line),
         NEW i \in 1 .. Len(sent), NEW s \in 1 .. Len(line),
         NEW e \in SUBSET {"crcLow", "crcHigh"},
         s + Len(FrameOctets(sent[i], e)) <= Len(line),
         \A j \in 1 .. Len(FrameOctets(sent[i], e)) :
           line[s + j] = [octet |-> FrameOctets(sent[i], e)[j], frame |-> i]
  PROVE  Waiting(i)'
<1>1. sent[i] \in Traffic /\ Len(sent[i]) + 1 <= MaxPacket
  <2>1. sent[i] \in Traffic
    BY ElementOfSeq DEF LineTypes
  <2> QED  BY <2>1 DEF TrafficFits
<1> DEFINE Y == FrameOctets(sent[i], e)
<1>2. Len(Y) \in Nat
  BY <1>1, FrameAround, LenProperties
<1> HIDE DEF Y
<1>3. s + Len(Y) <= Len(line) /\
      \A j \in 1 .. Len(Y) : line[s + j] = [octet |-> Y[j], frame |-> i]
  BY DEF Y
<1>4. /\ Len(line) \in Nat /\ Len(line') = Len(line) - 1
      /\ \A j \in 1 .. Len(line') : line'[j] = line[j + 1]
  BY TailOfLine, HeadTailProperties DEF LineTypes
<1>5. s - 1 \in 0 .. Len(line') /\ (s - 1) + Len(Y) <= Len(line')
  BY <1>2, <1>3, <1>4
<1>6. ASSUME NEW j \in 1 .. Len(Y)
      PROVE  line'[(s - 1) + j] = [octet |-> Y[j], frame |-> i]
  <2>1. (s - 1) + j \in 1 .. Len(line') /\ ((s - 1) + j) + 1 = s + j
    BY <1>2, <1>3, <1>4
  <2>2. line'[(s - 1) + j] = line[s + j]
    BY <1>4, <2>1
  <2> QED  BY <1>3, <2>2
<1>7. Y = FrameOctets(sent'[i], e)
  BY DEF Y
<1> QED  BY <1>5, <1>6, <1>7 DEF Waiting

LEMMA DeliverArrival ==
  ASSUME TrafficFits, ArrivalInv, DeliverOctet
  PROVE  EveryFrameArrives' /\ CleanLineReads'
<1> DEFINE o == Head(line).octet
<1>1. /\ line # << >> /\ line' = Tail(line) /\ rx' = AfterOctet(rx, o)
      /\ UNCHANGED <<sent, damaged, keepalives, faults>>
      /\ IF EndsFrame(o) /\ FrameGood(rx)
           THEN accepted' = Append(accepted, ReceivedFrame(rx))
           ELSE UNCHANGED accepted
      /\ naks' = IF EndsFrame(o) /\ ~ FrameGood(rx) THEN naks + 1 ELSE naks
  BY DEF DeliverOctet
<1>2. LineTypes /\ Receiver(rx) /\ accepted \in Seq(SentFrames) /\ Len(accepted) \in Nat
  BY LenProperties DEF ArrivalInv, FramingInv, CounterTypes
<1>3. /\ Len(line) \in Nat /\ Len(line') = Len(line) - 1 /\ 1 \in 1 .. Len(line)
      /\ o = line[1].octet
      /\ \A j \in 1 .. Len(line') : line'[j] = line[j + 1]
  <2>1. line \in Seq([octet : AllOctets, frame : Nat])
    BY <1>2, LineOfOctets
  <2>2. /\ Head(line) = line[1] /\ 1 \in 1 .. Len(line) /\ Len(line) \in Nat
        /\ \A j \in 1 .. Len(Tail(line)) : Tail(line)[j] = line[j + 1]
    BY <1>1, <1>2, TailOfLine
  <2>3. Len(Tail(line)) = Len(line) - 1
    BY <1>1, <2>1, HeadTailProperties
  <2> QED  BY <1>1, <2>2, <2>3
<1> HIDE DEF o
<1>4. EveryFrameArrives'
  <2> SUFFICES ASSUME NEW i \in 1 .. Len(sent), i \notin damaged
               PROVE  Waiting(i)' \/ Arriving(i)' \/ Arrived(i)'
    BY <1>1 DEF EveryFrameArrives
  <2>1. sent[i] \in Traffic /\ Len(sent[i]) + 1 <= MaxPacket
    <3>1. sent[i] \in Traffic
      BY <1>2, ElementOfSeq DEF LineTypes
    <3> QED  BY <3>1 DEF TrafficFits
  <2>2. CASE Waiting(i)
    <3>1. PICK s \in 0 .. Len(line), e \in SUBSET {"crcLow", "crcHigh"} :
            /\ s + Len(FrameOctets(sent[i], e)) <= Len(line)
            /\ \A j \in 1 .. Len(FrameOctets(sent[i], e)) :
                 line[s + j] = [octet |-> FrameOctets(sent[i], e)[j], frame |-> i]
      BY <2>2 DEF Waiting
    <3>2. CASE s # 0
      <4>1. s \in 1 .. Len(line)
        BY <3>2
      <4> QED  BY <1>1, <1>2, <3>1, <4>1, WaitingNearer
    <3>3. CASE s = 0
      <4> DEFINE B == FrameBody(sent[i], e)
                 X == FrameOctets(sent[i], e)
      <4>1. /\ B \in Seq(AllOctets) /\ NoFlag(B) /\ Len(B) \in Nat /\ Len(X) = Len(B) + 2
            /\ X[1] = FLAG /\ X[Len(B) + 2] = FLAG
            /\ \A j \in 1 .. Len(B) : X[j + 1] = B[j]
            /\ \A r : Idle(r) => \E t : Reads(r, B, t) /\ Ready(t, sent[i])
        BY <2>1, FrameAround, FrameBodyRead
      <4> HIDE DEF B, X
      <4>2. Len(X) <= Len(line)
            /\ \A j \in 1 .. Len(X) : line[j] = [octet |-> X[j], frame |-> i]
        <5>1. \A j \in 1 .. Len(X) : s + j = j
          BY <3>3
        <5>2. \A j \in 1 .. Len(X) : line[s + j] = [octet |-> X[j], frame |-> i]
          BY <3>1 DEF X
        <5>3. s + Len(X) <= Len(line)
          BY <3>1 DEF X
        <5> QED  BY <3>3, <4>1, <5>1, <5>2, <5>3
      <4>3. o = FLAG
        <5>1. 1 \in 1 .. Len(X)
          BY <4>1
        <5>2. line[1] = [octet |-> FLAG, frame |-> i]
          BY <4>1, <4>2, <5>1
        <5> QED  BY <1>3, <5>2
      <4>4. Idle(rx')
        BY <1>1, <1>2, <4>3, FlagResets, IdleAfterReset
      <4>5. PICK t : Reads(rx', B, t) /\ Ready(t, sent[i])
        BY <4>1, <4>4
      <4>6. /\ Len(B) < Len(line') /\ Len(B) + 1 \in 1 .. Len(line')
            /\ Len(B) + 2 \in 1 .. Len(X) /\ (Len(B) + 1) + 1 = Len(B) + 2
            /\ \A j \in 1 .. Len(B) : j \in 1 .. Len(line') /\ j + 1 \in 1 .. Len(X)
        BY <1>3, <4>1, <4>2
      <4>7. ASSUME NEW j \in 1 .. Len(B)
            PROVE  line'[j] = [octet |-> B[j], frame |-> i]
        <5>1. line'[j] = line[j + 1]
          BY <1>3, <4>6
        <5>2. line[j + 1] = [octet |-> X[j + 1], frame |-> i]
          BY <4>2, <4>6
        <5> QED  BY <4>1, <5>1, <5>2
      <4>8. line'[Len(B) + 1] = [octet |-> FLAG, frame |-> i]
        <5>1. line'[Len(B) + 1] = line[Len(B) + 2]
          BY <1>3, <4>6
        <5>2. line[Len(B) + 2] = [octet |-> X[Len(B) + 2], frame |-> i]
          BY <4>2, <4>6
        <5> QED  BY <4>1, <5>1, <5>2
      <4>9. Arriving(i)'
        BY <1>1, <4>1, <4>5, <4>6, <4>7, <4>8 DEF Arriving
      <4> QED  BY <4>9
    <3> QED  BY <3>2, <3>3
  <2>3. CASE Arriving(i)
    <3>1. PICK Z \in Seq(AllOctets) : \E t :
            /\ NoFlag(Z) /\ Reads(rx, Z, t) /\ Ready(t, sent[i])
            /\ Len(Z) < Len(line)
            /\ \A j \in 1 .. Len(Z) : line[j] = [octet |-> Z[j], frame |-> i]
            /\ line[Len(Z) + 1] = [octet |-> FLAG, frame |-> i]
      BY <2>3 DEF Arriving
    <3>2. PICK t : Reads(rx, Z, t) /\ Ready(t, sent[i])
      BY <3>1
    <3>3. CASE Z = << >>
      <4>1. o = FLAG
        <5>1. line[1] = [octet |-> FLAG, frame |-> i]
          BY <3>1, <3>3
        <5> QED  BY <1>3, <5>1
      <4>2. t = rx
        <5>1. Len(Z) = 0
          BY <3>3
        <5> QED  BY <3>2, <5>1 DEF Reads
      <4>3. accepted' = Append(accepted, sent[i])
        BY <1>1, <3>2, <4>1, <4>2 DEF EndsFrame, Ready
      <4>4. sent[i] \in SentFrames
        BY DEF SentFrames
      <4>5. /\ Len(accepted') = Len(accepted) + 1
            /\ accepted'[Len(accepted) + 1] = sent[i]
        BY <1>2, <4>3, <4>4, AppendProperties
      <4>6. Len(accepted) + 1 \in 1 .. Len(accepted')
        BY <1>2, <4>5
      <4>7. Arrived(i)'
        BY <1>1, <4>5, <4>6 DEF Arrived
      <4> QED  BY <4>7
    <3>4. CASE Z # << >>
      <4> DEFINE Y == Tail(Z)
      <4>1. /\ Y \in Seq(AllOctets) /\ Len(Y) \in Nat /\ Len(Z) = Len(Y) + 1
            /\ \A j \in 1 .. Len(Y) : Y[j] = Z[j + 1]
        BY <3>4, HeadTailProperties, LenProperties, EmptySeq
      <4>2. Reads(AfterOctet(rx, Z[1]), Y, t)
        BY <3>2, <3>4, ReadsFirst
      <4> HIDE DEF Y
      <4>3. o = Z[1]
        <5>1. 1 \in 1 .. Len(Z)
          BY <4>1
        <5>2. line[1] = [octet |-> Z[1], frame |-> i]
          BY <3>1, <5>1
        <5> QED  BY <1>3, <5>2
      <4>4. Reads(rx', Y, t)
        BY <1>1, <4>2, <4>3
      <4>5. /\ Len(Y) < Len(line') /\ Len(Y) + 1 \in 1 .. Len(line')
            /\ \A j \in 1 .. Len(Y) : j \in 1 .. Len(line') /\ j + 1 \in 1 .. Len(Z)
        BY <1>3, <3>1, <4>1
      <4>6. NoFlag(Y)
        BY <3>1, <4>1, <4>5 DEF NoFlag
      <4>7. ASSUME NEW j \in 1 .. Len(Y)
            PROVE  line'[j] = [octet |-> Y[j], frame |-> i]
        <5>1. line'[j] = line[j + 1]
          BY <1>3, <4>5
        <5>2. line[j + 1] = [octet |-> Z[j + 1], frame |-> i]
          BY <3>1, <4>5
        <5> QED  BY <4>1, <5>1, <5>2
      <4>8. line'[Len(Y) + 1] = [octet |-> FLAG, frame |-> i]
        <5>1. line'[Len(Y) + 1] = line[Len(Z) + 1]
          BY <1>3, <4>1, <4>5
        <5> QED  BY <3>1, <5>1
      <4>9. Arriving(i)'
        BY <1>1, <3>2, <4>1, <4>4, <4>5, <4>6, <4>7, <4>8 DEF Arriving
      <4> QED  BY <4>9
    <3> QED  BY <3>3, <3>4
  <2>4. CASE Arrived(i)
    <3>1. PICK k \in 1 .. Len(accepted) : accepted[k] = sent[i]
      BY <2>4 DEF Arrived
    <3>2. k \in 1 .. Len(accepted') /\ accepted'[k] = accepted[k]
      <4>1. CASE UNCHANGED accepted
        BY <4>1
      <4>2. CASE EndsFrame(o) /\ FrameGood(rx) /\ accepted' = Append(accepted, ReceivedFrame(rx))
        <5>1. ReceivedFrame(rx) \in SentFrames
          BY <1>2, <4>2, GoodFrame DEF EndsFrame
        <5>2. /\ Len(accepted') = Len(accepted) + 1
              /\ \A l \in 1 .. Len(accepted) : accepted'[l] = accepted[l]
          BY <1>2, <4>2, <5>1, AppendProperties
        <5> QED  BY <1>2, <5>2
      <4> QED  BY <1>1, <4>1, <4>2
    <3>3. Arrived(i)'
      BY <1>1, <3>1, <3>2 DEF Arrived
    <3> QED  BY <3>3
  <2> QED  BY <2>2, <2>3, <2>4 DEF ArrivalInv, EveryFrameArrives
<1>5. CleanLineReads'
  <2> SUFFICES ASSUME damaged = {}
               PROVE  naks' = 0 /\ \E t : Reads(rx', LineOctets', t) /\ Idle(t)
    BY <1>1 DEF CleanLineReads
  <2>1. PICK t : naks = 0 /\ Reads(rx, LineOctets, t) /\ Idle(t)
    BY DEF ArrivalInv, CleanLineReads
  <2> DEFINE L == LineOctets
  <2>2. /\ L \in Seq(AllOctets) /\ Len(L) = Len(line)
        /\ \A j \in 1 .. Len(line) : L[j] = line[j].octet
    BY <1>2, LineOfOctets, OctetsInLine DEF LineOctets
  <2> HIDE DEF L
  <2>3. L # << >> /\ L[1] = o
    BY <1>3, <2>2
  <2>4. /\ Reads(AfterOctet(rx, o), Tail(L), t)
        /\ o = FLAG /\ rx.frameState = "RECEIVING" => FrameGood(rx)
    <3>1. Reads(rx, L, t)
      BY <2>1 DEF L
    <3> QED  BY <2>2, <2>3, <3>1, ReadsFirst
  <2>5. naks' = 0
    BY <1>1, <2>1, <2>4 DEF EndsFrame
  <2>6. LineOctets' = Tail(L)
    <3> DEFINE P == OctetsIn(Tail(line))
    <3>1. /\ P \in Seq(AllOctets) /\ Len(P) = Len(line')
          /\ \A j \in 1 .. Len(line') : P[j] = line'[j].octet
      <4> DEFINE S == [octet : AllOctets, frame : Nat]
      <4>1. line \in Seq(S)
        BY <1>2, LineOfOctets
      <4> HIDE DEF S
      <4>2. Tail(line) \in Seq(S)
        BY <1>1, <4>1, HeadTailProperties
      <4> QED  BY <1>1, <4>2, OctetsInLine DEF S
    <3>2. /\ Tail(L) \in Seq(AllOctets) /\ Len(Tail(L)) = Len(L) - 1
          /\ \A j \in 1 .. Len(Tail(L)) : Tail(L)[j] = L[j + 1]
      BY <2>2, <2>3, HeadTailProperties
    <3> HIDE DEF P
    <3>3. Len(P) = Len(Tail(L))
      BY <1>3, <2>2, <3>1, <3>2
    <3>4. ASSUME NEW j \in 1 .. Len(P) PROVE P[j] = Tail(L)[j]
      <4>1. j \in 1 .. Len(line') /\ j + 1 \in 1 .. Len(line) /\ j \in 1 .. Len(Tail(L))
        BY <1>3, <3>1, <3>3
      <4> QED  BY <1>3, <2>2, <3>1, <3>2, <4>1
    <3>5. P = Tail(L)
      BY <3>1, <3>2, <3>3, <3>4, SeqEqual
    <3> QED  BY <1>1, <3>5 DEF P, LineOctets
  <2> QED  BY <1>1, <2>1, <2>4, <2>5, <2>6
<1> QED  BY <1>4, <1>5

\* A fault strikes the frame at the head of the line and no other.
LEMMA DamageArrival ==
  ASSUME TrafficFits, ArrivalInv, DropOctet \/ GarbleOctet \/ ResetReceiver
  PROVE  EveryFrameArrives' /\ CleanLineReads'
<1>1. /\ line # << >> /\ Damage(Head(line).frame)
      /\ UNCHANGED <<sent, accepted, naks, keepalives>>
  BY DEF DropOctet, GarbleOctet, ResetReceiver
<1>2. LineTypes
  BY DEF ArrivalInv, FramingInv
<1>3. Head(line) = line[1] /\ 1 \in 1 .. Len(line) /\ Len(line) \in Nat
      /\ line \in Seq([octet : AllOctets, frame : Nat])
  BY <1>1, <1>2, TailOfLine, LineOfOctets
<1>4. CleanLineReads'
  <2>1. damaged' # {}
    BY <1>1 DEF Damage
  <2> QED  BY <2>1 DEF CleanLineReads
<1>5. EveryFrameArrives'
  <2> SUFFICES ASSUME NEW i \in 1 .. Len(sent), i \notin damaged, line[1].frame # i
               PROVE  Waiting(i)' \/ Arriving(i)' \/ Arrived(i)'
    BY <1>1, <1>3 DEF EveryFrameArrives, Damage
  <2>1. CASE Arriving(i)
    <3>1. PICK Z \in Seq(AllOctets) :
            /\ \A j \in 1 .. Len(Z) : line[j] = [octet |-> Z[j], frame |-> i]
            /\ line[Len(Z) + 1] = [octet |-> FLAG, frame |-> i]
      BY <2>1 DEF Arriving
    <3>2. Len(Z) \in Nat
      BY LenProperties
    <3>3. CASE Len(Z) = 0
      <4>1. line[1] = [octet |-> FLAG, frame |-> i]
        BY <3>1, <3>3
      <4> QED  BY <4>1
    <3>4. CASE Len(Z) # 0
      <4>1. 1 \in 1 .. Len(Z)
        BY <3>2, <3>4
      <4>2. line[1] = [octet |-> Z[1], frame |-> i]
        BY <3>1, <4>1
      <4> QED  BY <4>2
    <3> QED  BY <3>3, <3>4
  <2>2. CASE Waiting(i)
    <3>1. PICK s \in 0 .. Len(line), e \in SUBSET {"crcLow", "crcHigh"} :
            /\ s + Len(FrameOctets(sent[i], e)) <= Len(line)
            /\ \A j \in 1 .. Len(FrameOctets(sent[i], e)) :
                 line[s + j] = [octet |-> FrameOctets(sent[i], e)[j], frame |-> i]
      BY <2>2 DEF Waiting
    <3> DEFINE X == FrameOctets(sent[i], e)
    <3>2. Len(X) \in Nat /\ 1 \in 1 .. Len(X)
      <4>1. sent[i] \in Traffic
        BY <1>2, ElementOfSeq DEF LineTypes
      <4>2. Len(sent[i]) + 1 <= MaxPacket
        BY <4>1 DEF TrafficFits
      <4>3. Len(FrameBody(sent[i], e)) \in Nat /\ Len(X) = Len(FrameBody(sent[i], e)) + 2
        BY <4>1, <4>2, FrameAround
      <4> HIDE DEF X
      <4> QED  BY <4>3
    <3> HIDE DEF X
    <3>3. s + Len(X) <= Len(line)
          /\ \A j \in 1 .. Len(X) : line[s + j] = [octet |-> X[j], frame |-> i]
      BY <3>1 DEF X
    <3>4. s # 0
      <4>1. line[s + 1] = [octet |-> X[1], frame |-> i]
        BY <3>2, <3>3
      <4>2. line[s + 1].frame = i
        BY <4>1
      <4> QED  BY <4>2
    <3>5. CASE DropOctet
      <4>1. line' = Tail(line)
        BY <3>5 DEF DropOctet
      <4>2. s \in 1 .. Len(line)
        BY <3>4
      <4> QED  BY <1>1, <1>2, <3>1, <4>1, <4>2, WaitingNearer
    <3>6. CASE ResetReceiver
      <4>1. line' = line
        BY <3>6 DEF ResetReceiver
      <4>2. Waiting(i)'
        BY <1>1, <2>2, <4>1 DEF Waiting
      <4> QED  BY <4>2
    <3>7. CASE GarbleOctet
      <4>1. PICK g \in Garbled : line' = <<[Head(line) EXCEPT !.octet = g]>> \o Tail(line)
        BY <3>7 DEF GarbleOctet
      <4>2. /\ Len(line') = Len(line)
            /\ \A j \in 2 .. Len(line) : line'[j] = line[j]
        <5> DEFINE S == [octet : AllOctets, frame : Nat]
                   h == [Head(line) EXCEPT !.octet = g]
        <5>1. g \in AllOctets
          BY NamedOctets DEF Garbled, AllOctets
        <5>2. line[1] \in S
          BY <1>3, ElementOfSeq
        <5>3. h \in S
          BY <1>3, <5>1, <5>2
        <5> HIDE DEF S, h
        <5>4. line \in Seq(S) /\ line' = <<h>> \o Tail(line)
          BY <1>3, <4>1 DEF S, h
        <5>5. /\ Tail(line) \in Seq(S) /\ Len(Tail(line)) = Len(line) - 1
              /\ \A j \in 1 .. Len(Tail(line)) : Tail(line)[j] = line[j + 1]
          BY <1>1, <5>4, HeadTailProperties
        <5>6. <<h>> \in Seq(S) /\ Len(<<h>>) = 1
          BY <5>3
        <5>7. /\ Len(line') = 1 + Len(Tail(line))
              /\ \A j \in 1 .. 1 + Len(Tail(line)) :
                   line'[j] = IF j <= 1 THEN <<h>>[j] ELSE Tail(line)[j - 1]
          BY <5>4, <5>5, <5>6, ConcatProperties
        <5>8. ASSUME NEW j \in 2 .. Len(line) PROVE line'[j] = line[j]
          <6>1. /\ j \in 1 .. 1 + Len(Tail(line)) /\ ~ j <= 1
                /\ j - 1 \in 1 .. Len(Tail(line)) /\ (j - 1) + 1 = j
            BY <1>3, <5>5
          <6> QED  BY <5>5, <5>7, <6>1
        <5> QED  BY <1>3, <5>5, <5>7, <5>8
      <4>3. ASSUME NEW j \in 1 .. Len(X)
            PROVE  line'[s + j] = [octet |-> X[j], frame |-> i]
        <5>1. s + j \in 2 .. Len(line)
          BY <1>3, <3>2, <3>3, <3>4
        <5> QED  BY <3>3, <4>2, <5>1
      <4>4. X = FrameOctets(sent'[i], e) /\ s \in 0 .. Len(line')
            /\ s + Len(X) <= Len(line')
        BY <1>1, <3>3, <4>2 DEF X
      <4>5. Waiting(i)'
        BY <4>3, <4>4 DEF Waiting
      <4> QED  BY <4>5
    <3> QED  BY <3>5, <3>6, <3>7
  <2>3. CASE Arrived(i)
    <3>1. Arrived(i)'
      BY <1>1, <2>3 DEF Arrived
    <3> QED  BY <3>1
  <2> QED  BY <2>1, <2>2, <2>3 DEF ArrivalInv, EveryFrameArrives
<1> QED  BY <1>4, <1>5

LEMMA NextArrival ==
  ASSUME TrafficFits, ArrivalInv, [Next]_vars
  PROVE  ArrivalInv'
<1>1. FramingInv'
  BY NextFraming DEF ArrivalInv
<1>2. CASE UNCHANGED vars
  <2>1. UNCHANGED <<line, sent, rx, accepted, naks, damaged, keepalives, faults>>
    BY <1>2 DEF vars
  <2>2. LineTypes /\ Len(line) \in Nat
    BY LineOfOctets DEF ArrivalInv, FramingInv
  <2>3. \A i \in 1 .. Len(sent) :
          /\ Waiting(i) => Waiting(i)'
          /\ Arriving(i) => Arriving(i)'
          /\ Arrived(i) => Arrived(i)'
    BY <2>1, <2>2, LongerLine
  <2>4. EveryFrameArrives'
    BY <2>1, <2>3 DEF ArrivalInv, EveryFrameArrives
  <2>5. CleanLineReads'
    <3>1. LineOctets' = LineOctets
      BY <2>1 DEF LineOctets, OctetsIn
    <3> QED  BY <2>1, <3>1 DEF ArrivalInv, CleanLineReads
  <2> QED  BY <1>1, <2>4, <2>5 DEF ArrivalInv
<1>3. CASE Next
  BY <1>1, <1>3, TransmitArrival, KeepaliveArrival, KeepaliveAtHeadArrival,
     DeliverArrival, DamageArrival DEF Next, ArrivalInv
<1> QED  BY <1>2, <1>3

THEOREM ArrivalInvariance ==
  ASSUME TrafficFits
  PROVE  Spec => []ArrivalInv
<1>1. ArrivalInv /\ [Next]_vars => ArrivalInv'
  BY NextArrival
<1> QED  BY <1>1, InitArrival, PTL DEF Spec

(***************************************************************************)
(* If frames leave an octet of the buffer free, each frame that arrives    *)
(* untouched is accepted, whatever garbage precedes it.                    *)
(***************************************************************************)
THEOREM UndamagedFramesArrive ==
  ASSUME \A f \in Traffic : Len(f) + 1 <= MaxPacket
  PROVE  Spec => []Resynchronizes
<1>1. ArrivalInv => Resynchronizes
  <2> SUFFICES ASSUME ArrivalInv, line = << >>, NEW i \in 1 .. Len(sent) \ damaged
               PROVE  Arrived(i)
    BY DEF Resynchronizes, Arrived
  <2>1. sent[i] \in Traffic /\ Len(line) = 0
    BY ElementOfSeq DEF ArrivalInv, FramingInv, LineTypes
  <2>2. ~ Waiting(i)
    <3> SUFFICES ASSUME NEW s \in 0 .. 0, NEW e,
                        s + Len(FrameOctets(sent[i], e)) <= 0
                 PROVE  FALSE
      BY <2>1 DEF Waiting
    <3>1. /\ Len(FrameBody(sent[i], e)) \in Nat
          /\ Len(FrameOctets(sent[i], e)) = Len(FrameBody(sent[i], e)) + 2
      BY <2>1, FrameAround
    <3> QED  BY <3>1
  <2>3. ~ Arriving(i)
    <3>1. \A Z \in Seq(AllOctets) : Len(Z) \in Nat
      BY LenProperties
    <3> QED  BY <2>1, <3>1 DEF Arriving
  <2> QED  BY <2>2, <2>3 DEF ArrivalInv, EveryFrameArrives
<1>2. TrafficFits
  BY DEF TrafficFits
<1> QED  BY <1>1, <1>2, ArrivalInvariance, PTL

(***************************************************************************)
(* Under the same hypothesis no NAK is sent while no frame is broken,      *)
(* however FLAG octets are mixed in between the frames and next to the     *)
(* FLAGs that open and close them.                                         *)
(***************************************************************************)
THEOREM NoNAKOnCleanLine ==
  ASSUME \A f \in Traffic : Len(f) + 1 <= MaxPacket
  PROVE  Spec => []CleanLineNoNAK
<1>1. ArrivalInv => CleanLineNoNAK
  BY DEF ArrivalInv, CleanLineReads, CleanLineNoNAK
<1>2. TrafficFits
  BY DEF TrafficFits
<1> QED  BY <1>1, <1>2, ArrivalInvariance, PTL

(***************************************************************************)
(* Under the same hypothesis all frames arrive on a clean line, in order.  *)
(* A frame is its header octet and a payload, so payloads have at most     *)
(* MaxPacket - 2 octets: these and the two of the CRC fill the buffer.     *)
(* The run framing_max_packet shows that the hypothesis is sharp: payloads *)
(* of MaxPacket - 1 octets do not arrive, nor do those of MaxPacket octets *)
(* that the assertion of sfpWritePacket admits as well.                    *)
(***************************************************************************)
THEOREM ShorterPacketsArrive ==
  ASSUME \A f \in Traffic : Len(f) + 1 <= MaxPacket
  PROVE  Spec => []PacketsUpToMaxArrive
<1>1. FramingInv /\ CleanLineReads /\ Resynchronizes => PacketsUpToMaxArrive
  <2> SUFFICES ASSUME FramingInv, CleanLineReads, Resynchronizes, line = << >>, damaged = {}
               PROVE  accepted = sent
    BY DEF PacketsUpToMaxArrive
  <2> DEFINE m == Len(accepted)
             n == Len(sent)
  <2>1. /\ sent \in Seq(Traffic) /\ accepted \in Seq(SentFrames)
        /\ m \in Nat /\ n \in Nat
        /\ \A i, j \in 1 .. n : sent[i] = sent[j] => i = j
    BY LenProperties DEF FramingInv, LineTypes, CounterTypes
  <2>2. \A i \in 1 .. n : \E l \in 1 .. m : accepted[l] = sent[i]
    BY DEF CleanLineReads, Resynchronizes
  <2>3. \A k \in 1 .. m : \E p \in 1 .. n : accepted[k] = sent[p]
    <3>1. \A k \in 1 .. m : accepted[k] \in SentFrames
      BY <2>1, ElementOfSeq
    <3> QED  BY <3>1 DEF SentFrames
  <2>4. ASSUME NEW k \in 1 .. m, NEW l \in 1 .. m, k < l,
               NEW p \in 1 .. n, accepted[k] = sent[p],
               NEW q \in 1 .. n, accepted[l] = sent[q]
        PROVE  p < q
    <3>1. PICK i, j \in 1 .. n : i < j /\ sent[i] = accepted[k] /\ sent[j] = accepted[l]
      BY <2>4 DEF FramingInv, Order, AcceptedOrdered, Before
    <3>2. i = p /\ j = q
      BY <2>1, <2>4, <3>1
    <3> QED  BY <3>1, <3>2
  <2> HIDE DEF m, n
  <2> DEFINE T == {k \in Nat : k <= n => k <= m /\ \A j \in 1 .. k : accepted[j] = sent[j]}
  <2>5. 0 \in T
    BY <2>1
  <2>6. ASSUME NEW k \in Nat, k \in T PROVE k + 1 \in T
    <3> SUFFICES ASSUME k + 1 <= n
                 PROVE  k + 1 <= m /\ \A j \in 1 .. k + 1 : accepted[j] = sent[j]
      OBVIOUS
    <3>1. k <= m /\ \A j \in 1 .. k : accepted[j] = sent[j]
      BY <2>1, <2>6
    <3>2. PICK l \in 1 .. m : accepted[l] = sent[k + 1]
      BY <2>1, <2>2
    <3>3. ~ l <= k
      <4>1. ASSUME l <= k PROVE FALSE
        <5>1. sent[l] = sent[k + 1] /\ l \in 1 .. n /\ k + 1 \in 1 .. n
          BY <2>1, <3>1, <3>2, <4>1
        <5> QED  BY <2>1, <4>1, <5>1
      <4> QED  BY <4>1
    <3>4. k + 1 <= m /\ k + 1 \in 1 .. m
      BY <2>1, <3>3
    <3>5. PICK p \in 1 .. n : accepted[k + 1] = sent[p]
      BY <2>3, <3>4
    <3>6. ~ p <= k
      <4>1. ASSUME p <= k PROVE FALSE
        <5>1. p \in 1 .. m /\ p < k + 1 /\ accepted[p] = sent[p]
          BY <2>1, <3>1, <4>1
        <5>2. p < p
          BY <2>4, <3>4, <3>5, <5>1
        <5> QED  BY <5>2
      <4> QED  BY <4>1
    <3>7. l = k + 1
      <4>1. ASSUME k + 1 < l PROVE FALSE
        <5>1. k + 1 \in 1 .. n
          BY <2>1
        <5>2. p < k + 1
          BY <2>4, <3>2, <3>4, <3>5, <4>1, <5>1
        <5> QED  BY <3>6, <5>2
      <4> QED  BY <2>1, <3>3, <4>1
    <3>8. accepted[k + 1] = sent[k + 1]
      BY <3>2, <3>7
    <3> QED  BY <3>1, <3>4, <3>8
  <2>7. Nat \subseteq T
    <3> HIDE DEF T
    <3> QED  BY <2>5, <2>6, SetInduction
  <2>8. n <= m /\ \A j \in 1 .. n : accepted[j] = sent[j]
    <3>1. n \in T
      BY <2>1, <2>7
    <3> QED  BY <2>1, <3>1
  <2>9. m <= n
    <3>1. ASSUME n < m PROVE FALSE
      <4>1. n + 1 \in 1 .. m
        BY <2>1, <3>1
      <4>2. PICK p \in 1 .. n : accepted[n + 1] = sent[p]
        BY <2>3, <4>1
      <4>3. p \in 1 .. m /\ p < n + 1 /\ accepted[p] = sent[p]
        BY <2>1, <2>8, <4>2
      <4>4. p < p
        BY <2>4, <4>1, <4>2, <4>3
      <4> QED  BY <4>4
    <3> QED  BY <2>1, <3>1
  <2>10. m = n
    BY <2>1, <2>8, <2>9
  <2>11. accepted \in Seq(Traffic)
    <3>1. SentFrames \subseteq Traffic
      BY <2>1, ElementOfSeq DEF SentFrames
    <3> QED  BY <2>1, <3>1, SeqMonotonic
  <2>12. Len(accepted) = Len(sent) /\ \A j \in 1 .. Len(accepted) : accepted[j] = sent[j]
    BY <2>8, <2>10 DEF m, n
  <2> QED  BY <2>1, <2>11, <2>12, SeqEqual
<1>2. TrafficFits
  BY DEF TrafficFits
<1>3. ArrivalInv => FramingInv /\ CleanLineReads
  BY DEF ArrivalInv
<1> QED  BY <1>1, <1>2, <1>3, ArrivalInvariance, UndamagedFramesArrive, PTL
=============================================================================
