-------------------------- MODULE SFPThreadsProofs --------------------------
(***************************************************************************)
(* What is proved about the two threads of an end and its mutexes: calls   *)
(* look atomic, SFPThreads implements SFPLink; so the two ends agree.      *)
(***************************************************************************)
EXTENDS SFPThreads, SFPTransmitterProofs, SetInduction

-----------------------------------------------------------------------------
(***************************************************************************)
(* DoAll, step by step.  What is said of steps is said of any sequence.    *)
(***************************************************************************)
\* g[i] is what x has become after i of the steps.
Doing(x, steps, g, n) ==
  g = [i \in 0 .. n |-> IF i = 0 THEN x ELSE Do(g[i - 1], steps[i])]

LEMMA DoingExists ==
  ASSUME NEW x, NEW steps
  PROVE  \A n \in Nat : \E g : Doing(x, steps, g, n)
<1> DEFINE T == {n \in Nat : \E g : Doing(x, steps, g, n)}
<1>1. 0 \in T
  <2>1. Doing(x, steps, [i \in 0 .. 0 |-> x], 0)
    BY DEF Doing
  <2> QED  BY <2>1
<1>2. ASSUME NEW n \in Nat, n \in T PROVE n + 1 \in T
  <2>1. PICK g : Doing(x, steps, g, n)
    BY <1>2
  <2> DEFINE h == [i \in 0 .. n + 1 |-> IF i <= n THEN g[i] ELSE Do(g[n], steps[n + 1])]
  <2>2. \A i \in 0 .. n : g[i] = IF i = 0 THEN x ELSE Do(g[i - 1], steps[i])
    BY <2>1 DEF Doing
  <2>3. \A i \in 0 .. n + 1 : h[i] = IF i = 0 THEN x ELSE Do(h[i - 1], steps[i])
    <3> TAKE i \in 0 .. n + 1
    <3>1. CASE i = 0
      BY <3>1, <2>2
    <3>2. CASE i \in 1 .. n
      <4>1. h[i] = g[i] /\ h[i - 1] = g[i - 1]
        BY <3>2
      <4> QED  BY <3>2, <4>1, <2>2
    <3>3. CASE i = n + 1
      <4>1. h[i] = Do(g[n], steps[i]) /\ h[i - 1] = g[n]
        BY <3>3
      <4> QED  BY <3>3, <4>1
    <3> QED  BY <3>1, <3>2, <3>3
  <2>4. Doing(x, steps, h, n + 1)
    BY <2>3 DEF Doing
  <2> QED  BY <2>4
<1>3. Nat \subseteq T
  <2> HIDE DEF T
  <2> QED  BY <1>1, <1>2, SetInduction
<1> QED  BY <1>3

\* The steps of DoAll.
StepByStep(x, steps, g, n) ==
  \A i \in 0 .. n : g[i] = IF i = 0 THEN x ELSE Do(g[i - 1], steps[i])

LEMMA DoAllSteps ==
  ASSUME NEW x, NEW steps, Len(steps) \in Nat
  PROVE  \E g : StepByStep(x, steps, g, Len(steps)) /\ DoAll(x, steps) = g[Len(steps)]
<1> DEFINE g == CHOOSE f : Doing(x, steps, f, Len(steps))
<1>2. Doing(x, steps, g, Len(steps))
  BY DoingExists
<1>3. DoAll(x, steps) = g[Len(steps)]
  BY DEF DoAll, Doing
<1> HIDE DEF g
<1>4. StepByStep(x, steps, g, Len(steps))
  BY <1>2 DEF Doing, StepByStep
<1> QED  BY <1>3, <1>4

\* Doing part of the steps, from what it has become before them.
LEMMA SameSteps ==
  ASSUME NEW x, NEW s, NEW g, NEW n \in Nat, StepByStep(x, s, g, n),
         NEW y, NEW t, NEW h, NEW k \in Nat, StepByStep(y, t, h, k),
         NEW d \in Nat, d + k <= n, g[d] = y, \A i \in 1 .. k : t[i] = s[d + i]
  PROVE  h[k] = g[d + k]
<1> DEFINE T == {i \in Nat : i <= k => h[i] = g[d + i]}
<1>1. 0 \in T
  BY DEF StepByStep
<1>2. ASSUME NEW i \in Nat, i \in T PROVE i + 1 \in T
  <2> SUFFICES ASSUME i + 1 <= k PROVE h[i + 1] = g[d + (i + 1)]
    OBVIOUS
  <2>1. h[i] = g[d + i]
    BY <1>2
  <2>2. h[i + 1] = Do(h[i], t[i + 1])
    <3>1. i + 1 \in 0 .. k /\ i + 1 # 0 /\ (i + 1) - 1 = i
      OBVIOUS
    <3> QED  BY <3>1 DEF StepByStep
  <2>3. g[d + (i + 1)] = Do(g[d + i], s[d + (i + 1)])
    <3>1. d + (i + 1) \in 0 .. n /\ d + (i + 1) # 0 /\ (d + (i + 1)) - 1 = d + i
      OBVIOUS
    <3> QED  BY <3>1 DEF StepByStep
  <2>4. t[i + 1] = s[d + (i + 1)]
    OBVIOUS
  <2> QED  BY <2>1, <2>2, <2>3, <2>4
<1>3. Nat \subseteq T
  <2> HIDE DEF T
  <2> QED  BY <1>1, <1>2, SetInduction
<1> QED  BY <1>3

LEMMA DoAllNone ==
  ASSUME NEW x
  PROVE  DoAll(x, << >>) = x
<1>1. Len(<< >>) = 0 /\ Len(<< >>) \in Nat
  OBVIOUS
<1>2. PICK g : StepByStep(x, << >>, g, Len(<< >>)) /\ DoAll(x, << >>) = g[Len(<< >>)]
  BY <1>1, DoAllSteps, Zenon
<1>3. g[0] = x
  BY <1>1, <1>2 DEF StepByStep
<1> QED  BY <1>1, <1>2, <1>3

\* Some steps, and then the others.
LEMMA DoAllParts ==
  ASSUME NEW x, NEW u, NEW s, NEW t,
         Len(u) \in Nat, Len(s) \in Nat, Len(t) \in Nat, Len(u) = Len(s) + Len(t),
         \A i \in 1 .. Len(s) : s[i] = u[i],
         \A i \in 1 .. Len(t) : t[i] = u[Len(s) + i]
  PROVE  DoAll(x, u) = DoAll(DoAll(x, s), t)
<1> DEFINE n == Len(u)
           k == Len(s)
           l == Len(t)
           y == DoAll(x, s)
<1>2. PICK g : StepByStep(x, u, g, n) /\ DoAll(x, u) = g[n]
  BY DoAllSteps
<1>3. PICK f : StepByStep(x, s, f, k) /\ DoAll(x, s) = f[k]
  BY DoAllSteps
<1>4. PICK h : StepByStep(y, t, h, l) /\ DoAll(y, t) = h[l]
  BY DoAllSteps
<1>5. /\ n = k + l /\ n \in Nat /\ k \in Nat /\ l \in Nat /\ 0 \in Nat
      /\ 0 + k <= n /\ k + l <= n /\ 0 + k = k
      /\ \A i \in 1 .. k : s[i] = u[0 + i]
      /\ \A i \in 1 .. l : t[i] = u[k + i]
  OBVIOUS
<1>6. y = f[k]
  BY <1>3
<1> HIDE DEF n, k, l, y
<1>7. g[0] = x
  BY <1>2, <1>5 DEF StepByStep
<1>8. f[k] = g[0 + k]
  BY <1>2, <1>3, <1>5, <1>7, SameSteps
<1>9. g[k] = y
  BY <1>5, <1>6, <1>8
<1>10. h[l] = g[k + l]
  BY <1>2, <1>4, <1>5, <1>9, SameSteps
<1>11. DoAll(x, u) = DoAll(y, t)
  BY <1>2, <1>4, <1>5, <1>10
<1> QED  BY <1>11 DEF y

LEMMA DoAllConcat ==
  ASSUME NEW x, NEW S, NEW s \in Seq(S), NEW t \in Seq(S)
  PROVE  DoAll(x, s \o t) = DoAll(DoAll(x, s), t)
<1> DEFINE u == s \o t
<1>1. /\ Len(u) \in Nat /\ Len(s) \in Nat /\ Len(t) \in Nat /\ Len(u) = Len(s) + Len(t)
      /\ \A i \in 1 .. Len(s) : s[i] = u[i]
      /\ \A i \in 1 .. Len(t) : t[i] = u[Len(s) + i]
  OBVIOUS
<1> HIDE DEF u
<1>2. DoAll(x, u) = DoAll(DoAll(x, s), t)
  BY <1>1, DoAllParts
<1> QED  BY <1>2 DEF u

LEMMA DoAllOne ==
  ASSUME NEW x, NEW a
  PROVE  DoAll(x, <<a>>) = Do(x, a)
<1>1. Len(<<a>>) = 1 /\ Len(<<a>>) \in Nat /\ <<a>>[1] = a
  OBVIOUS
<1>2. PICK g : StepByStep(x, <<a>>, g, Len(<<a>>)) /\ DoAll(x, <<a>>) = g[Len(<<a>>)]
  BY <1>1, DoAllSteps, Zenon
<1>3. g[0] = x /\ g[1] = Do(g[0], a)
  <2>1. 0 \in 0 .. 1 /\ 1 \in 0 .. 1 /\ 1 # 0 /\ 1 - 1 = 0
    OBVIOUS
  <2> QED  BY <1>1, <1>2, <2>1 DEF StepByStep
<1> QED  BY <1>1, <1>2, <1>3

LEMMA DoAllTwo ==
  ASSUME NEW x, NEW a, NEW b
  PROVE  DoAll(x, <<a, b>>) = Do(Do(x, a), b)
<1> DEFINE u == <<a, b>>
           s == <<a>>
           t == <<b>>
<1>1. /\ Len(u) \in Nat /\ Len(s) \in Nat /\ Len(t) \in Nat /\ Len(u) = Len(s) + Len(t)
      /\ \A i \in 1 .. Len(s) : s[i] = u[i]
      /\ \A i \in 1 .. Len(t) : t[i] = u[Len(s) + i]
  <2>1. Len(u) = 2 /\ Len(s) = 1 /\ Len(t) = 1
    OBVIOUS
  <2>2. u[1] = a /\ u[2] = b /\ s[1] = a /\ t[1] = b
    OBVIOUS
  <2> HIDE DEF u, s, t
  <2>3. 1 .. Len(s) = {1} /\ 1 .. Len(t) = {1} /\ Len(s) + 1 = 2
    BY <2>1
  <2> QED  BY <2>1, <2>2, <2>3
<1>2. DoAll(x, s) = Do(x, a)
  BY DoAllOne
<1>3. DoAll(Do(x, a), t) = Do(Do(x, a), b)
  BY DoAllOne
<1> HIDE DEF u, s, t
<1>4. DoAll(x, u) = DoAll(DoAll(x, s), t)
  BY <1>1, DoAllParts
<1>5. DoAll(x, u) = Do(Do(x, a), b)
  BY <1>2, <1>3, <1>4
<1> QED  BY <1>5 DEF u

\* The first step and then the others.
LEMMA DoAllFirst ==
  ASSUME NEW x, NEW S, NEW s \in Seq(S), s # << >>
  PROVE  DoAll(x, s) = DoAll(Do(x, Head(s)), Tail(s))
<1> DEFINE h == <<Head(s)>>
           t == Tail(s)
<1>1. /\ Len(s) \in Nat /\ Len(h) \in Nat /\ Len(t) \in Nat /\ Len(s) = Len(h) + Len(t)
      /\ \A i \in 1 .. Len(h) : h[i] = s[i]
      /\ \A i \in 1 .. Len(t) : t[i] = s[Len(h) + i]
  BY HeadTailProperties
<1>2. DoAll(x, h) = Do(x, Head(s))
  BY DoAllOne
<1> HIDE DEF h, t
<1>3. DoAll(x, s) = DoAll(DoAll(x, h), t)
  BY <1>1, DoAllParts
<1> QED  BY <1>2, <1>3 DEF t

-----------------------------------------------------------------------------
(***************************************************************************)
(* What a transmitter is and what its steps leave it.                      *)
(***************************************************************************)
Packets == 1 .. MaxSent

Transmitters ==
  [state : Link!ConnectStates, txSeq : Seqs, history : Seq(Packets), out : Seq(Link!Frames)]

LEMMA PushBackType ==
  ASSUME NEW h \in Seq(Packets), NEW p \in Packets
  PROVE  PushBack(h, p) \in Seq(Packets)
<1>1. HistoryCapacity \in Nat /\ HistoryCapacity > 0 /\ Len(h) \in Nat
  BY HistoryAssumption, SeqRangePositive
<1>2. CASE Len(h) < HistoryCapacity
  BY <1>1, <1>2 DEF PushBack
<1>3. CASE ~ (Len(h) < HistoryCapacity)
  <2>1. Tail(h) \in Seq(Packets)
    BY <1>1, <1>3
  <2> QED  BY <1>3, <2>1 DEF PushBack
<1> QED  BY <1>2, <1>3

LEMMA nextSeqType ==
  ASSUME NEW s \in Seqs
  PROVE  nextSeq(s) \in Seqs
<1>1. s + 1 \in Int
  BY DEF Seqs
<1> QED  BY <1>1, DivMod DEF nextSeq

\* SFPLink has the operators of SFPTransmitter too.
LEMMA SameOperators ==
  /\ Link!Seqs = Seqs /\ Link!InitialSeq = InitialSeq
  /\ \A s : Link!nextSeq(s) = nextSeq(s)
  /\ \A type, seq, packet : Link!DataFrame(type, seq, packet) = DataFrame(type, seq, packet)
  /\ \A h, p : Link!PushBack(h, p) = PushBack(h, p)
  /\ \A h, t, s : Link!KeptHistory(h, t, s) = KeptHistory(h, t, s)
  /\ \A k, s : Link!Retransmissions(k, s) = Retransmissions(k, s)
  /\ \A k, s : Link!SeqAfter(k, s) = SeqAfter(k, s)
<1>1. Link!Seqs = Seqs /\ Link!InitialSeq = InitialSeq
  BY DEF Link!Seqs, Seqs, Link!InitialSeq, InitialSeq
<1>2. \A s : Link!nextSeq(s) = nextSeq(s)
  BY DEF Link!nextSeq, nextSeq
<1>3. \A type, seq, packet : Link!DataFrame(type, seq, packet) = DataFrame(type, seq, packet)
  BY DEF Link!DataFrame, DataFrame
<1>4. \A h, p : Link!PushBack(h, p) = PushBack(h, p)
  BY DEF Link!PushBack, PushBack
<1>5. \A h, t, s : Link!FastForward(h, t, s) = FastForward(h, t, s)
  BY DEF Link!FastForward, FastForward
<1>6. \A h, t, s : Link!Underrun(h, t, s) <=> Underrun(h, t, s)
  BY <1>5 DEF Link!Underrun, Underrun
<1>7. \A h, t, s : Link!KeptHistory(h, t, s) = KeptHistory(h, t, s)
  BY <1>5, <1>6 DEF Link!KeptHistory, KeptHistory
<1>8. \A k, s : Link!Retransmissions(k, s) = Retransmissions(k, s)
  BY <1>3 DEF Link!Retransmissions, Retransmissions
<1>9. \A k, s : Link!SeqAfter(k, s) = SeqAfter(k, s)
  BY DEF Link!SeqAfter, SeqAfter
<1> QED  BY <1>1, <1>2, <1>3, <1>4, <1>7, <1>8, <1>9

\* A step is one of three: it enters a state, or puts data or another frame
\* on the line.
LEMMA StepKinds ==
  ASSUME NEW step \in Steps
  PROVE  \/ step.type = "enter" /\ step.state \in Link!ConnectStates
         \/ step.type # "enter" /\ IsData(step) /\ step.packet \in Packets
         \/ step.type # "enter" /\ ~ IsData(step) /\ step \in Link!Frames
<1>1. CASE step \in {SYN0, SYN1, SYN2, DIS}
  <2>1. step \in Link!Frames
    BY <1>1 DEF SYN0, SYN1, SYN2, DIS, Link!Frames
  <2>2. step.type = "SYN"
    BY <1>1 DEF SYN0, SYN1, SYN2, DIS, Link!SYN0, Link!SYN1, Link!SYN2, Link!DIS
  <2> QED  BY <2>1, <2>2 DEF IsData
<1>2. CASE step \in {NAK(seq) : seq \in Seqs}
  <2>1. PICK seq \in Seqs : step = [type |-> "NAK", seq |-> seq]
    BY <1>2 DEF NAK, Link!NAK
  <2>2. step \in [type : {"NAK"}, seq : Seqs]
    BY <2>1
  <2> QED  BY <2>1, <2>2, SameOperators DEF IsData, Link!Frames
<1>3. CASE step \in {Entering(s) : s \in Link!ConnectStates}
  BY <1>3 DEF Entering
<1>4. CASE step \in [type : {"USR", "RTX"}, packet : 1 .. MaxSent]
  BY <1>4 DEF IsData, Packets
<1> QED  BY <1>1, <1>2, <1>3, <1>4 DEF Steps

LEMMA AppendPrefix ==
  ASSUME NEW S, NEW o \in Seq(S), NEW r \in Seq(S), NEW i \in Nat, i + 1 \in 1 .. Len(r)
  PROVE  Append(o \o SubSeq(r, 1, i), r[i + 1]) = o \o SubSeq(r, 1, i + 1)
<1>1. Append(SubSeq(r, 1, i), r[i + 1]) = SubSeq(r, 1, i + 1)
  OBVIOUS
<1>2. SubSeq(r, 1, i) \in Seq(S) /\ r[i + 1] \in S
  OBVIOUS
<1> DEFINE q == SubSeq(r, 1, i)
           e == r[i + 1]
<1>3. q \in Seq(S) /\ e \in S
  BY <1>2
<1> HIDE DEF q, e
<1>4. Append(o \o q, e) = o \o Append(q, e)
  <2> DEFINE l == <<e>>
  <2>1. l \in Seq(S) /\ o \o q \in Seq(S)
    BY <1>3
  <2>2. Append(q, e) = q \o l /\ Append(o \o q, e) = (o \o q) \o l
    BY <1>3, <2>1
  <2> HIDE DEF l
  <2>3. (o \o q) \o l = o \o (q \o l)
    BY <1>3, <2>1, ConcatAssociative, SMTT(30)
  <2> QED  BY <2>2, <2>3
<1> QED  BY <1>1, <1>4 DEF q, e

\* x is y with pre put on the line before.
After(pre, x, y) ==
  /\ x \in Transmitters /\ y \in Transmitters
  /\ x.state = y.state /\ x.txSeq = y.txSeq /\ x.history = y.history
  /\ x.out = pre \o y.out

LEMMA DoAfter ==
  ASSUME NEW pre \in Seq(Link!Frames), NEW x, NEW y, After(pre, x, y), NEW step \in Steps
  PROVE  After(pre, Do(x, step), Do(y, step))
<1>1. CASE step.type = "enter" /\ step.state \in Link!ConnectStates
  BY <1>1 DEF After, Transmitters, Do
<1>2. CASE step.type # "enter" /\ IsData(step) /\ step.packet \in Packets
  <2> DEFINE f == DataFrame(step.type, x.txSeq, step.packet)
             h == IF step.type = "USR" THEN PushBack(x.history, step.packet) ELSE x.history
             s == nextSeq(x.txSeq)
  <2>1. f \in Link!Frames
    <3>1. step.type \in {"USR", "RTX"} /\ x.txSeq \in Seqs /\ step.packet \in 1 .. MaxSent
      BY <1>2 DEF After, Transmitters, IsData, Packets
    <3>2. f \in [type : {"USR", "RTX"}, seq : Seqs, packet : 1 .. MaxSent]
      BY <3>1 DEF DataFrame
    <3> QED  BY <3>2, SameOperators DEF Link!Frames
  <2>2. s \in Seqs
    BY nextSeqType DEF After, Transmitters
  <2>3. h \in Seq(Packets)
    BY <1>2, PushBackType DEF After, Transmitters
  <2>4. /\ Do(x, step) = [x EXCEPT !.out = Append(x.out, f), !.txSeq = s, !.history = h]
        /\ Do(y, step) = [y EXCEPT !.out = Append(y.out, f), !.txSeq = s, !.history = h]
    BY <1>2 DEF Do, After
  <2> HIDE DEF f, h, s
  <2>5. /\ Append(x.out, f) \in Seq(Link!Frames) /\ Append(y.out, f) \in Seq(Link!Frames)
        /\ Append(x.out, f) = pre \o Append(y.out, f)
    <3>1. y.out \in Seq(Link!Frames) /\ x.out = pre \o y.out
      BY DEF After, Transmitters
    <3> DEFINE o == y.out
    <3>2. Append(pre \o o, f) = pre \o Append(o, f)
      <4> HIDE DEF o
      <4>1. o \in Seq(Link!Frames)
        BY <3>1 DEF o
      <4> QED  BY <2>1, <4>1
    <3> QED  BY <2>1, <3>1, <3>2
  <2> QED  BY <2>2, <2>3, <2>4, <2>5 DEF After, Transmitters
<1>3. CASE step.type # "enter" /\ ~ IsData(step) /\ step \in Link!Frames
  <2>1. /\ Do(x, step) = [x EXCEPT !.out = Append(x.out, step)]
        /\ Do(y, step) = [y EXCEPT !.out = Append(y.out, step)]
    BY <1>3 DEF Do
  <2>5. /\ Append(x.out, step) \in Seq(Link!Frames) /\ Append(y.out, step) \in Seq(Link!Frames)
        /\ Append(x.out, step) = pre \o Append(y.out, step)
    <3>1. y.out \in Seq(Link!Frames) /\ x.out = pre \o y.out
      BY DEF After, Transmitters
    <3> DEFINE o == y.out
    <3>2. Append(pre \o o, step) = pre \o Append(o, step)
      <4> HIDE DEF o
      <4>1. o \in Seq(Link!Frames)
        BY <3>1 DEF o
      <4> QED  BY <1>3, <4>1
    <3> QED  BY <1>3, <3>1, <3>2
  <2> QED  BY <2>1, <2>5 DEF After, Transmitters
<1> QED  BY <1>1, <1>2, <1>3, StepKinds

LEMMA DoAllAfter ==
  ASSUME NEW pre \in Seq(Link!Frames), NEW x, NEW y, After(pre, x, y), NEW s \in Seq(Steps)
  PROVE  After(pre, DoAll(x, s), DoAll(y, s))
<1> DEFINE n == Len(s)
<1>1. PICK g : StepByStep(x, s, g, n) /\ DoAll(x, s) = g[n]
  BY DoAllSteps
<1>2. PICK h : StepByStep(y, s, h, n) /\ DoAll(y, s) = h[n]
  BY DoAllSteps
<1>3. n \in Nat /\ \A i \in 1 .. n : s[i] \in Steps
  OBVIOUS
<1> HIDE DEF n
<1> DEFINE T == {i \in Nat : i <= n => After(pre, g[i], h[i])}
<1>4. 0 \in T
  <2>1. g[0] = x /\ h[0] = y
    BY <1>1, <1>2, <1>3 DEF StepByStep
  <2> QED  BY <2>1
<1>5. ASSUME NEW i \in Nat, i \in T PROVE i + 1 \in T
  <2> SUFFICES ASSUME i + 1 <= n PROVE After(pre, g[i + 1], h[i + 1])
    OBVIOUS
  <2>1. i + 1 \in 1 .. n /\ i + 1 \in 0 .. n /\ i + 1 # 0 /\ (i + 1) - 1 = i /\ i <= n
    BY <1>3
  <2>2. g[i + 1] = Do(g[i], s[i + 1]) /\ h[i + 1] = Do(h[i], s[i + 1])
    BY <1>1, <1>2, <2>1 DEF StepByStep
  <2>3. After(pre, g[i], h[i]) /\ s[i + 1] \in Steps
    BY <1>3, <1>5, <2>1
  <2> QED  BY <2>2, <2>3, DoAfter
<1>6. Nat \subseteq T
  <2> HIDE DEF T
  <2> QED  BY <1>4, <1>5, SetInduction
<1> QED  BY <1>1, <1>2, <1>3, <1>6

LEMMA DoAllType ==
  ASSUME NEW x \in Transmitters, NEW s \in Seq(Steps)
  PROVE  DoAll(x, s) \in Transmitters
<1>1. << >> \in Seq(Link!Frames) /\ x.out = << >> \o x.out
  BY DEF Transmitters
<1>2. After(<< >>, x, x)
  BY <1>1 DEF After
<1> QED  BY <1>1, <1>2, DoAllAfter DEF After

\* Retransmitting is a step for each packet.
LEMMA RetransmitSteps ==
  ASSUME NEW kept \in Seq(Packets)
  PROVE  /\ Retransmit(kept) \in Seq(Steps)
         /\ Len(Retransmit(kept)) = Len(kept)
         /\ \A i \in 1 .. Len(kept) : Retransmit(kept)[i] = Data("RTX", kept[i])
<1> DEFINE r == Retransmit(kept)
           n == Len(kept)
<1>1. n \in Nat /\ \A i \in 1 .. n : kept[i] \in Packets
  OBVIOUS
<1>2. r = [i \in 1 .. n |-> Data("RTX", kept[i])]
  BY DEF Retransmit
<1>3. \A i \in 1 .. n : Data("RTX", kept[i]) \in Steps
  BY <1>1 DEF Data, Steps, Packets
<1> HIDE DEF r, n
<1>4. r \in [1 .. n -> Steps]
  BY <1>2, <1>3
<1> HIDE <1>2
<1>5. r \in Seq(Steps)
  BY <1>1, <1>4, SeqDef
<1>6. Len(r) = n
  BY <1>1, <1>4, <1>5, LenProperties
<1> QED  BY <1>2, <1>5, <1>6 DEF r, n

LEMMA DoRTX ==
  ASSUME NEW x \in Transmitters, NEW p
  PROVE  Do(x, Data("RTX", p))
           = [x EXCEPT !.out = Append(x.out, DataFrame("RTX", x.txSeq, p)),
                       !.txSeq = nextSeq(x.txSeq)]
<1>1. x = [x EXCEPT !.history = x.history]
  BY DEF Transmitters
<1>2. /\ Data("RTX", p).type = "RTX" /\ Data("RTX", p).packet = p
      /\ Data("RTX", p).type # "enter" /\ Data("RTX", p).type # "USR" /\ IsData(Data("RTX", p))
  BY DEF Data, IsData
<1> HIDE DEF Data
<1> QED  BY <1>1, <1>2 DEF Do, Transmitters

\* z is x after it has put the first i frames of r on the line.
HasSent(x, r, i, z) ==
  /\ z \in Transmitters
  /\ z.state = x.state /\ z.history = x.history
  /\ z.txSeq = (x.txSeq + i) % SeqRange
  /\ z.out = x.out \o SubSeq(r, 1, i)

\* Retransmitting puts the retransmissions on the line and counts them.
LEMMA DoAllRetransmit ==
  ASSUME NEW x \in Transmitters, NEW kept \in Seq(Packets)
  PROVE  LET z == DoAll(x, Retransmit(kept))
         IN  /\ z \in Transmitters
             /\ z.state = x.state /\ z.history = x.history
             /\ z.txSeq = SeqAfter(kept, x.txSeq)
             /\ z.out = x.out \o Retransmissions(kept, x.txSeq)
<1> DEFINE n == Len(kept)
           s == Retransmit(kept)
           r == Retransmissions(kept, x.txSeq)
<1>1. /\ s \in Seq(Steps) /\ Len(s) = n /\ n \in Nat
      /\ \A i \in 1 .. n : s[i] = Data("RTX", kept[i])
  BY RetransmitSteps
<1>2. PICK g : StepByStep(x, s, g, n) /\ DoAll(x, s) = g[n]
  BY <1>1, DoAllSteps
<1>3. x.txSeq \in Seqs /\ x.txSeq \in Int /\ x.out \in Seq(Link!Frames)
  BY DEF Transmitters, Seqs
<1>4. /\ r \in Seq([type : {"USR", "RTX"}, seq : Seqs, packet : Packets])
      /\ Len(r) = n
      /\ \A i \in 1 .. n : r[i] = DataFrame("RTX", (x.txSeq + i - 1) % SeqRange, kept[i])
  <2>1. /\ r \in Seq([type : {"USR", "RTX"}, seq : Seqs, packet : Packets])
        /\ Len(r) = n
    BY <1>3, RetransmissionsProperties
  <2> QED  BY <2>1 DEF Retransmissions
<1>5. r \in Seq(Link!Frames)
  <2> DEFINE F == [type : {"USR", "RTX"}, seq : Seqs, packet : Packets]
  <2>1. F \subseteq Link!Frames
    BY SameOperators DEF Link!Frames, Packets
  <2>2. r \in Seq(F)
    BY <1>4
  <2> HIDE DEF r, F
  <2> QED  BY <2>1, <2>2
<1> DEFINE T == {i \in Nat : i <= n => HasSent(x, r, i, g[i])}
<1> HIDE DEF n, s, r
<1>6. 0 \in T
  <2>1. g[0] = x
    BY <1>1, <1>2 DEF StepByStep
  <2>2. x.txSeq = (x.txSeq + 0) % SeqRange
    BY <1>3, ModSmall
  <2>3. x.out = x.out \o SubSeq(r, 1, 0)
    BY <1>3, <1>5
  <2> QED  BY <2>1, <2>2, <2>3 DEF HasSent
<1>7. ASSUME NEW i \in Nat, i \in T PROVE i + 1 \in T
  <2> SUFFICES ASSUME i + 1 <= n PROVE HasSent(x, r, i + 1, g[i + 1])
    OBVIOUS
  <2>1. i + 1 \in 1 .. n /\ i + 1 \in 0 .. n /\ i + 1 # 0 /\ (i + 1) - 1 = i /\ i <= n
    BY <1>1
  <2> DEFINE y == g[i]
             p == kept[i + 1]
             f == DataFrame("RTX", y.txSeq, p)
  <2>2. HasSent(x, r, i, y)
    BY <1>7, <2>1
  <2>3. g[i + 1] = Do(y, Data("RTX", p))
    BY <1>1, <1>2, <2>1 DEF StepByStep
  <2>4. /\ y \in Transmitters /\ y.state = x.state /\ y.history = x.history
        /\ y.txSeq = (x.txSeq + i) % SeqRange
        /\ y.out = x.out \o SubSeq(r, 1, i)
    BY <2>2 DEF HasSent
  <2>5. g[i + 1] = [y EXCEPT !.out = Append(y.out, f), !.txSeq = nextSeq(y.txSeq)]
    BY <2>3, <2>4, DoRTX
  <2>6. f = r[i + 1]
    <3>1. (x.txSeq + (i + 1)) - 1 = x.txSeq + i
      BY <1>3
    <3> QED  BY <1>4, <2>1, <2>4, <3>1
  <2>7. nextSeq(y.txSeq) = (x.txSeq + (i + 1)) % SeqRange
    <3>1. x.txSeq + i \in Int /\ 1 \in Int /\ (x.txSeq + i) + 1 = x.txSeq + (i + 1)
      BY <1>3
    <3>2. (((x.txSeq + i) % SeqRange) + 1) % SeqRange = ((x.txSeq + i) + 1) % SeqRange
      BY <3>1, ModSum
    <3> QED  BY <2>4, <3>1, <3>2 DEF nextSeq
  <2>8. Append(y.out, f) = x.out \o SubSeq(r, 1, i + 1)
    <3>1. Append(x.out \o SubSeq(r, 1, i), r[i + 1]) = x.out \o SubSeq(r, 1, i + 1)
      BY <1>3, <1>4, <1>5, <2>1, AppendPrefix
    <3> QED  BY <2>4, <2>6, <3>1
  <2>9. nextSeq(y.txSeq) \in Seqs /\ Append(y.out, f) \in Seq(Link!Frames)
    <3>1. nextSeq(y.txSeq) \in Seqs /\ y.out \in Seq(Link!Frames)
      BY <2>4, nextSeqType DEF Transmitters
    <3>2. f \in Link!Frames
      BY <1>4, <1>5, <2>1, <2>6
    <3> HIDE DEF f, y
    <3> QED  BY <3>1, <3>2
  <2> HIDE DEF y, f
  <2> QED  BY <2>4, <2>5, <2>7, <2>8, <2>9 DEF Transmitters, HasSent
<1>8. Nat \subseteq T
  <2> HIDE DEF T
  <2> QED  BY <1>6, <1>7, SetInduction
<1>9. HasSent(x, r, n, g[n])
  BY <1>1, <1>8
<1>10. SubSeq(r, 1, n) = r
  BY <1>4
<1> QED  BY <1>2, <1>9, <1>10 DEF HasSent, SeqAfter, n, s, r

-----------------------------------------------------------------------------
\* There are two endpoints, and Peer goes from one to the other and back.
LEMMA TwoNodes ==
  ASSUME NEW n \in Nodes
  PROVE  /\ Peer(n) \in Nodes /\ Peer(n) # n /\ Peer(Peer(n)) = n
         /\ \A m \in Nodes : m = n \/ m = Peer(n)
<1>1. PICK a \in Nodes, b \in Nodes : a # b /\ Nodes = {a, b}
  BY NodesAssumption
<1>2. \A m \in Nodes : Peer(m) \in Nodes /\ Peer(m) # m
  BY <1>1 DEF Peer
<1> QED  BY <1>1, <1>2

LEMMA InitialSeqType == InitialSeq \in Seqs
  BY SeqRangePositive DEF InitialSeq, Seqs

\* What a reader can do is a step.
LEMMA StepsMade ==
  /\ {SYN0, SYN1, SYN2, DIS} \subseteq Steps
  /\ \A seq \in Seqs : NAK(seq) \in Steps
  /\ \A s \in Link!ConnectStates : Entering(s) \in Steps
  /\ \A s \in Link!ConnectStates \ {"CONNECTED"} : Link!Rebuff(s) \in {SYN0, SYN1, DIS}
  /\ \A p \in Packets, type \in {"USR", "RTX"} : Data(type, p) \in Steps
<1>1. \A p \in Packets, type \in {"USR", "RTX"} :
        Data(type, p) \in [type : {"USR", "RTX"}, packet : 1 .. MaxSent]
  BY DEF Data, Packets
<1>2. \A s \in Link!ConnectStates \ {"CONNECTED"} : Link!Rebuff(s) \in {SYN0, SYN1, DIS}
  BY DEF Link!ConnectStates, Link!Rebuff, SYN0, SYN1, DIS
<1> QED  BY <1>1, <1>2 DEF Steps

\* What the numbers and the packet of a frame can be.
LEMMA FrameFields ==
  ASSUME NEW f \in Link!Frames
  PROVE  /\ f # NoFrame
         /\ f.type \in {"USR", "RTX"} => f.seq \in Seqs /\ f.packet \in Packets
         /\ f.type = "NAK" => f.seq \in Seqs
         /\ f.type = "SYN" => f \in {SYN0, SYN1, SYN2, DIS}
         /\ f.type \in {"USR", "RTX", "NAK", "SYN", "BAD"}
<1>1. CASE f \in [type : {"USR", "RTX"}, seq : Link!Seqs, packet : 1 .. MaxSent]
  BY <1>1, SameOperators DEF NoFrame, Packets
<1>2. CASE f \in [type : {"NAK"}, seq : Link!Seqs]
  BY <1>2, SameOperators DEF NoFrame
<1>3. CASE f \in {Link!SYN0, Link!SYN1, Link!SYN2, Link!DIS, Link!Remnant}
  BY <1>3 DEF NoFrame, SYN0, SYN1, SYN2, DIS,
              Link!SYN0, Link!SYN1, Link!SYN2, Link!DIS, Link!Remnant
<1> QED  BY <1>1, <1>2, <1>3 DEF Link!Frames

Control(n) == Locking(n) /\ Reading(n) /\ Writing(n)

\* The end at which nothing happens.
LEMMA OtherEnd ==
  ASSUME NEW m \in Nodes, Control(m),
         at'[m] = at[m], todo'[m] = todo[m], lock'[m] = lock[m], frame'[m] = frame[m],
         connectState'[m] = connectState[m]
  PROVE  Control(m)'
  BY DEF Control, Locking, Reading, Writing

\* A reader that gets the lock to answer its frame.
LEMMA AnswerKeeps ==
  ASSUME ThreadsInv, NEW n \in Nodes, NEW steps \in Seq(Steps), Answer(n, steps),
         rxSeq' \in [Nodes -> Seqs], txSeq' \in [Nodes -> Seqs],
         history' \in [Nodes -> Seq(1 .. MaxSent)], base' \in [Nodes -> 0 .. MaxSent]
  PROVE  ThreadsInv'
<1>1. /\ lock[n] = "free" /\ lock' = [lock EXCEPT ![n] = "reader"]
      /\ todo' = [todo EXCEPT ![n]["reader"] = steps]
      /\ at' = [at EXCEPT ![n]["reader"] = "answer"]
      /\ frame' = [frame EXCEPT ![n] = NoFrame]
      /\ UNCHANGED <<connectState, wire, sent, delivered, budget, mutex>>
  BY DEF Answer, LockFor, Lock, GoTo, Done
<1>2. TypeOK'
  <2>1. /\ lock' \in [Nodes -> Threads \cup {"free"}]
        /\ frame' \in [Nodes -> Link!Frames \cup {NoFrame}]
    BY <1>1 DEF ThreadsInv, TypeOK, Threads
  <2>2. /\ at' \in [Nodes -> [Threads -> ReaderPlaces \cup UserPlaces]]
        /\ \A m \in Nodes : at'[m]["reader"] \in ReaderPlaces /\ at'[m]["user"] \in UserPlaces
    BY <1>1 DEF ThreadsInv, TypeOK, Threads, ReaderPlaces
  <2>3. todo' \in [Nodes -> [Threads -> Seq(Steps)]]
    BY <1>1 DEF ThreadsInv, TypeOK, Threads
  <2> QED  BY <1>1, <2>1, <2>2, <2>3 DEF ThreadsInv, TypeOK, budget
<1>3. Control(n)'
  <2>1. Locking(n) /\ Reading(n)
    BY DEF ThreadsInv
  <2>2. /\ lock'[n] = "reader" /\ at'[n]["reader"] = "answer" /\ frame'[n] = NoFrame
        /\ at'[n]["user"] = at[n]["user"] /\ todo'[n]["user"] = todo[n]["user"]
    BY <1>1 DEF ThreadsInv, TypeOK, Threads
  <2>3. todo[n]["user"] = << >> /\ at[n]["user"] \notin {"connect", "send"}
    BY <1>1, <2>1 DEF Locking, Threads
  <2> QED  BY <2>2, <2>3 DEF Control, Locking, Reading, Writing, Threads
<1>4. \A m \in Nodes : m # n => Control(m)'
  <2> TAKE m \in Nodes
  <2> SUFFICES ASSUME m # n PROVE Control(m)'
    OBVIOUS
  <2>1. /\ at'[m] = at[m] /\ todo'[m] = todo[m] /\ lock'[m] = lock[m] /\ frame'[m] = frame[m]
        /\ connectState'[m] = connectState[m]
    BY <1>1 DEF ThreadsInv, TypeOK
  <2> QED  BY <2>1, OtherEnd DEF ThreadsInv, Control
<1> QED  BY <1>2, <1>3, <1>4 DEF ThreadsInv, Control

LEMMA FreeLock ==
  ASSUME ThreadsInv, NEW n \in Nodes, lock[n] = "free"
  PROVE  /\ todo[n]["reader"] = << >> /\ todo[n]["user"] = << >>
         /\ at[n]["reader"] \in {"idle", "handle", "compare", "callback", "count"}
         /\ at[n]["user"] \in {"idle", "call"}
  BY DEF ThreadsInv, TypeOK, Locking, Threads, ReaderPlaces, UserPlaces

\* The frame that the reader has.
LEMMA FrameRead ==
  ASSUME ThreadsInv, NEW n \in Nodes, at[n]["reader"] \in {"handle", "compare"}
  PROVE  frame[n] \in Link!Frames /\ frame[n] # NoFrame
  BY DEF ThreadsInv, TypeOK, Reading

\* Numbers that are reset, or wound back to what is retransmitted.
LEMMA ResetNumbersTypes ==
  ASSUME TypeOK, NEW n \in Nodes, ResetNumbers(n)
  PROVE  /\ rxSeq' \in [Nodes -> Seqs] /\ txSeq' \in [Nodes -> Seqs]
         /\ history' \in [Nodes -> Seq(1 .. MaxSent)] /\ base' \in [Nodes -> 0 .. MaxSent]
<1>1. << >> \in Seq(1 .. MaxSent)
  OBVIOUS
<1>2. /\ rxSeq' = [rxSeq EXCEPT ![n] = InitialSeq] /\ rxSeq \in [Nodes -> Seqs]
      /\ txSeq' = [txSeq EXCEPT ![n] = InitialSeq] /\ txSeq \in [Nodes -> Seqs]
      /\ history' = [history EXCEPT ![n] = << >>] /\ history \in [Nodes -> Seq(1 .. MaxSent)]
      /\ base' = [base EXCEPT ![n] = sent[n]] /\ base \in [Nodes -> 0 .. MaxSent]
      /\ sent[n] \in 0 .. MaxSent
  BY DEF TypeOK, ResetNumbers
<1> QED  BY <1>1, <1>2, InitialSeqType

LEMMA KeptTypes ==
  ASSUME TypeOK, NEW n \in Nodes, NEW seq \in Seqs
  PROVE  LET kept == KeptHistory(history[n], txSeq[n], seq)
         IN  kept \in Seq(Packets) /\ Retransmit(kept) \in Seq(Steps)
<1>1. history[n] \in Seq(Packets) /\ txSeq[n] \in Int /\ seq \in Int
  BY DEF TypeOK, Packets, Seqs
<1> QED  BY <1>1, KeptHistoryType, RetransmitSteps

LEMMA FastForwardToTypes ==
  ASSUME TypeOK, NEW n \in Nodes, NEW kept \in Seq(Packets), NEW seq \in Seqs,
         FastForwardTo(n, kept, seq)
  PROVE  /\ rxSeq' \in [Nodes -> Seqs] /\ txSeq' \in [Nodes -> Seqs]
         /\ history' \in [Nodes -> Seq(1 .. MaxSent)]
  BY DEF TypeOK, FastForwardTo, Packets

\* An answer that is no more than one frame or entering a state.
LEMMA ShortAnswers ==
  ASSUME NEW a \in Steps
  PROVE  << >> \in Seq(Steps) /\ <<a>> \in Seq(Steps)
  OBVIOUS

LEMMA BecomeConnectedKeeps ==
  ASSUME ThreadsInv, NEW n \in Nodes, NEW out \in Seq(Steps), BecomeConnected(n, out)
  PROVE  ThreadsInv'
<1> DEFINE kept == KeptHistory(history[n], txSeq[n], InitialSeq)
           last == <<Entering("CONNECTED")>>
<1>1. last \in Seq(Steps)
  BY StepsMade, ShortAnswers DEF Link!ConnectStates
<1>2. kept \in Seq(Packets) /\ Retransmit(kept) \in Seq(Steps)
  BY InitialSeqType, KeptTypes DEF ThreadsInv
<1>3. CASE Answer(n, out \o last) /\ UNCHANGED <<numbers, base>>
  <2>1. out \o last \in Seq(Steps)
    BY <1>1
  <2> QED  BY <1>3, <2>1, AnswerKeeps DEF ThreadsInv, TypeOK, numbers
<1>4. CASE /\ Answer(n, out \o Retransmit(kept) \o last)
           /\ FastForwardTo(n, kept, InitialSeq) /\ UNCHANGED base
  <2> HIDE DEF last
  <2>1. out \o Retransmit(kept) \o last \in Seq(Steps)
    <3> DEFINE r == Retransmit(kept)
    <3>1. r \in Seq(Steps)
      BY <1>2
    <3> HIDE DEF r
    <3>2. out \o r \o last \in Seq(Steps)
      BY <1>1, <3>1
    <3> QED  BY <3>2 DEF r
  <2>2. /\ rxSeq' \in [Nodes -> Seqs] /\ txSeq' \in [Nodes -> Seqs]
        /\ history' \in [Nodes -> Seq(1 .. MaxSent)] /\ base' \in [Nodes -> 0 .. MaxSent]
    BY <1>2, <1>4, InitialSeqType, FastForwardToTypes DEF ThreadsInv, TypeOK
  <2> QED  BY <1>4, <2>1, <2>2, AnswerKeeps
<1> QED  BY <1>3, <1>4 DEF BecomeConnected

LEMMA RebuffKeeps ==
  ASSUME ThreadsInv, NEW n \in Nodes, connectState[n] # "CONNECTED", Rebuff(n)
  PROVE  ThreadsInv'
<1>1. Link!Rebuff(connectState[n]) \in Steps
  BY StepsMade DEF ThreadsInv, TypeOK
<1>2. <<Link!Rebuff(connectState[n])>> \in Seq(Steps)
  BY <1>1, ShortAnswers
<1> QED  BY <1>2, AnswerKeeps DEF Rebuff, ThreadsInv, TypeOK, numbers

LEMMA SYNKeeps ==
  ASSUME ThreadsInv, NEW n \in Nodes,
         HandleSYN0(n) \/ HandleSYN1(n) \/ HandleSYN2(n) \/ HandleDIS(n)
  PROVE  ThreadsInv'
<1>1. CASE HandleSYN0(n)
  <2>1. <<SYN1, Entering("SENT_SYN1")>> \in Seq(Steps)
    <3>1. SYN1 \in Steps /\ Entering("SENT_SYN1") \in Steps
      BY StepsMade DEF Link!ConnectStates
    <3> QED  BY <3>1
  <2> QED  BY <1>1, <2>1, ResetNumbersTypes, AnswerKeeps DEF HandleSYN0, ThreadsInv
<1>2. CASE HandleSYN1(n)
  <2>1. <<SYN2>> \in Seq(Steps)
    BY StepsMade, ShortAnswers
  <2> QED  BY <1>2, <2>1, RebuffKeeps, BecomeConnectedKeeps DEF HandleSYN1
<1>3. CASE HandleSYN2(n)
  <2>1. << >> \in Seq(Steps)
    BY StepsMade, ShortAnswers
  <2> QED  BY <1>3, <2>1, RebuffKeeps, BecomeConnectedKeeps DEF HandleSYN2
<1>4. CASE HandleDIS(n)
  <2>1. <<Entering("DISCONNECTED")>> \in Seq(Steps)
    BY StepsMade, ShortAnswers DEF Link!ConnectStates
  <2> QED  BY <1>4, <2>1, AnswerKeeps DEF HandleDIS, ThreadsInv, TypeOK, numbers
<1> QED  BY <1>1, <1>2, <1>3, <1>4

LEMMA NAKKeeps ==
  ASSUME ThreadsInv, NEW n \in Nodes,
         HandleNAK(n) \/ HandleRemnant(n) \/ RejectOutOfOrder(n)
  PROVE  ThreadsInv'
<1>1. CASE HandleNAK(n)
  <2> DEFINE seq == frame[n].seq
             kept == KeptHistory(history[n], txSeq[n], seq)
  <2>1. frame[n].type = "NAK" /\ at[n]["reader"] = "handle"
    BY <1>1 DEF HandleNAK, Handles
  <2>2. seq \in Seqs
    BY <2>1, FrameRead, FrameFields
  <2>3. kept \in Seq(Packets) /\ Retransmit(kept) \in Seq(Steps)
    BY <2>2, KeptTypes DEF ThreadsInv
  <2>4. \/ connectState[n] # "CONNECTED" /\ Rebuff(n)
        \/ Answer(n, << >>) /\ UNCHANGED <<numbers, base>>
        \/ Answer(n, Retransmit(kept)) /\ FastForwardTo(n, kept, seq) /\ UNCHANGED base
    BY <1>1 DEF HandleNAK
  <2>5. CASE connectState[n] # "CONNECTED" /\ Rebuff(n)
    BY <2>5, RebuffKeeps
  <2>6. CASE Answer(n, << >>) /\ UNCHANGED <<numbers, base>>
    <3>1. << >> \in Seq(Steps)
      OBVIOUS
    <3> QED  BY <2>6, <3>1, AnswerKeeps DEF ThreadsInv, TypeOK, numbers
  <2>7. CASE Answer(n, Retransmit(kept)) /\ FastForwardTo(n, kept, seq) /\ UNCHANGED base
    <3> HIDE DEF kept, seq
    <3>1. /\ rxSeq' \in [Nodes -> Seqs] /\ txSeq' \in [Nodes -> Seqs]
          /\ history' \in [Nodes -> Seq(1 .. MaxSent)] /\ base' \in [Nodes -> 0 .. MaxSent]
      BY <2>2, <2>3, <2>7, FastForwardToTypes DEF ThreadsInv, TypeOK
    <3> QED  BY <2>3, <2>7, <3>1, AnswerKeeps
  <2> QED  BY <2>4, <2>5, <2>6, <2>7
<1>2. CASE HandleRemnant(n) \/ RejectOutOfOrder(n)
  <2>1. <<NAK(rxSeq[n])>> \in Seq(Steps)
    BY StepsMade, ShortAnswers DEF ThreadsInv, TypeOK
  <2>2. Answer(n, <<NAK(rxSeq[n])>>) /\ UNCHANGED <<numbers, base>>
    BY <1>2 DEF HandleRemnant, RejectOutOfOrder
  <2> QED  BY <2>1, <2>2, AnswerKeeps DEF ThreadsInv, TypeOK, numbers
<1> QED  BY <1>1, <1>2

\* A step of one thread that has nothing to do with the lock.
LEMMA MoveKeeps ==
  ASSUME ThreadsInv, NEW n \in Nodes, NEW t \in Threads, NEW place, GoTo(n, t, place),
         IF t = "reader" THEN place \in ReaderPlaces ELSE place \in UserPlaces,
         UNCHANGED <<connectState, lock, todo>>,
         \A m \in Nodes : m # n => frame'[m] = frame[m]
  PROVE  /\ at' \in [Nodes -> [Threads -> ReaderPlaces \cup UserPlaces]]
         /\ \A m \in Nodes : at'[m]["reader"] \in ReaderPlaces /\ at'[m]["user"] \in UserPlaces
         /\ at'[n][t] = place /\ \A u \in Threads : u # t => at'[n][u] = at[n][u]
         /\ \A m \in Nodes : m # n => Control(m)'
<1>1. at' = [at EXCEPT ![n][t] = place] /\ at \in [Nodes -> [Threads -> ReaderPlaces \cup UserPlaces]]
  BY DEF GoTo, ThreadsInv, TypeOK
<1>2. \A m \in Nodes : m # n => at'[m] = at[m]
  BY <1>1
<1>3. \A m \in Nodes : m # n => Control(m)'
  BY <1>2, OtherEnd DEF ThreadsInv, Control
<1>4. \A m \in Nodes : at[m]["reader"] \in ReaderPlaces /\ at[m]["user"] \in UserPlaces
  BY DEF ThreadsInv, TypeOK
<1> QED  BY <1>1, <1>3, <1>4 DEF Threads

LEMMA ReaderMoves ==
  ASSUME ThreadsInv, NEW n \in Nodes,
         TakeFrame(n) \/ IgnoreRetransmission(n) \/ Deliver(n) \/ Count(n)
  PROVE  ThreadsInv'
<1> DEFINE place == at'[n]["reader"]
<1>1. CASE TakeFrame(n)
  <2>1. /\ at[n]["reader"] = "idle" /\ at[n]["user"] # "connect"
        /\ GoTo(n, "reader", "handle")
        /\ frame' = [frame EXCEPT ![n] = Head(wire[n])]
        /\ wire' = [wire EXCEPT ![n] = Tail(@)]
        /\ wire[n] # << >>
        /\ UNCHANGED <<connectState, rxSeq, txSeq, history, users, budget, lock, mutex, todo>>
    BY <1>1 DEF TakeFrame, numbers
  <2>2. wire[n] \in Seq(Link!Frames) /\ Head(wire[n]) \in Link!Frames /\ Tail(wire[n]) \in Seq(Link!Frames)
    BY <2>1 DEF ThreadsInv, TypeOK
  <2>3. /\ wire' \in [Nodes -> Seq(Link!Frames)]
        /\ frame' \in [Nodes -> Link!Frames \cup {NoFrame}]
        /\ frame'[n] # NoFrame /\ \A m \in Nodes : m # n => frame'[m] = frame[m]
    BY <2>1, <2>2, FrameFields DEF ThreadsInv, TypeOK
  <2>4. /\ at' \in [Nodes -> [Threads -> ReaderPlaces \cup UserPlaces]]
        /\ \A m \in Nodes : at'[m]["reader"] \in ReaderPlaces /\ at'[m]["user"] \in UserPlaces
        /\ at'[n]["reader"] = "handle" /\ at'[n]["user"] = at[n]["user"]
        /\ \A m \in Nodes : m # n => Control(m)'
    BY <2>1, <2>3, MoveKeeps DEF Threads, ReaderPlaces
  <2>5. TypeOK'
    BY <2>1, <2>3, <2>4 DEF ThreadsInv, TypeOK, users, budget
  <2>6. Control(n)'
    BY <2>1, <2>3, <2>4 DEF ThreadsInv, Control, Locking, Reading, Writing
  <2> QED  BY <2>4, <2>5, <2>6 DEF ThreadsInv, Control
<1>2. CASE IgnoreRetransmission(n) \/ Deliver(n)
  <2>1. PICK p \in {"idle", "callback", "count"} :
          /\ at[n]["reader"] = "compare"
          /\ GoTo(n, "reader", p)
          /\ frame' = [frame EXCEPT ![n] = NoFrame]
          /\ \/ delivered' = delivered
             \/ delivered' = [delivered EXCEPT ![n] = Append(@, frame[n].packet)]
          /\ UNCHANGED <<connectState, rxSeq, txSeq, history, wire, sent, base, budget, lock, mutex, todo>>
    BY <1>2 DEF IgnoreRetransmission, Deliver, DeliverIf, Handles, Done, numbers, users
  <2>2. frame[n].packet \in 1 .. MaxSent
    <3>1. frame[n].type \in {"USR", "RTX"}
      BY <2>1 DEF ThreadsInv, Reading
    <3> QED  BY <2>1, <3>1, FrameRead, FrameFields DEF Packets
  <2>3. /\ delivered' \in [Nodes -> Seq(1 .. MaxSent)]
        /\ frame' \in [Nodes -> Link!Frames \cup {NoFrame}]
        /\ frame'[n] = NoFrame /\ \A m \in Nodes : m # n => frame'[m] = frame[m]
    <3>1. Append(delivered[n], frame[n].packet) \in Seq(1 .. MaxSent)
      BY <2>2 DEF ThreadsInv, TypeOK
    <3> QED  BY <2>1, <3>1, ZenonT(60) DEF ThreadsInv, TypeOK
  <2>4. /\ at' \in [Nodes -> [Threads -> ReaderPlaces \cup UserPlaces]]
        /\ \A m \in Nodes : at'[m]["reader"] \in ReaderPlaces /\ at'[m]["user"] \in UserPlaces
        /\ at'[n]["reader"] = p /\ at'[n]["user"] = at[n]["user"]
        /\ \A m \in Nodes : m # n => Control(m)'
    BY <2>1, <2>3, MoveKeeps DEF Threads, ReaderPlaces
  <2>5. TypeOK'
    BY <2>1, <2>3, <2>4 DEF ThreadsInv, TypeOK, budget
  <2>6. Control(n)'
    BY <2>1, <2>3, <2>4, SMTT(30) DEF ThreadsInv, Control, Locking, Reading, Writing
  <2> QED  BY <2>4, <2>5, <2>6 DEF ThreadsInv, Control
<1>3. CASE Count(n)
  <2>1. /\ at[n]["reader"] = "count"
        /\ rxSeq' = [rxSeq EXCEPT ![n] = nextSeq(@)]
        /\ GoTo(n, "reader", "idle")
        /\ UNCHANGED <<connectState, txSeq, history, wire, users, budget, lock, mutex, frame, todo>>
    BY <1>3 DEF Count
  <2>3. rxSeq' \in [Nodes -> Seqs]
    <3>1. nextSeq(rxSeq[n]) \in Seqs
      BY nextSeqType DEF ThreadsInv, TypeOK
    <3> QED  BY <2>1, <3>1 DEF ThreadsInv, TypeOK
  <2>4. /\ at' \in [Nodes -> [Threads -> ReaderPlaces \cup UserPlaces]]
        /\ \A m \in Nodes : at'[m]["reader"] \in ReaderPlaces /\ at'[m]["user"] \in UserPlaces
        /\ at'[n]["reader"] = "idle" /\ at'[n]["user"] = at[n]["user"]
        /\ \A m \in Nodes : m # n => Control(m)'
    BY <2>1, MoveKeeps DEF Threads, ReaderPlaces
  <2>5. TypeOK'
    BY <2>1, <2>3, <2>4 DEF ThreadsInv, TypeOK, users, budget
  <2>6. Control(n)'
    BY <2>1, <2>4 DEF ThreadsInv, Control, Locking, Reading, Writing
  <2> QED  BY <2>4, <2>5, <2>6 DEF ThreadsInv, Control
<1> QED  BY <1>1, <1>2, <1>3

LEMMA HandleUSRKeeps ==
  ASSUME ThreadsInv, NEW n \in Nodes, HandleUSR(n)
  PROVE  ThreadsInv'
<1>1. CASE connectState[n] # "CONNECTED"
  BY <1>1, RebuffKeeps DEF HandleUSR
<1>2. CASE connectState[n] = "CONNECTED"
  <2>1. /\ at[n]["reader"] = "handle" /\ frame[n].type \in {"USR", "RTX"}
        /\ GoTo(n, "reader", "compare")
        /\ UNCHANGED <<connectState, rxSeq, txSeq, history, wire, users, budget, lock, mutex, frame, todo>>
    BY <1>2 DEF HandleUSR, Handles, numbers
  <2>2. /\ at' \in [Nodes -> [Threads -> ReaderPlaces \cup UserPlaces]]
        /\ \A m \in Nodes : at'[m]["reader"] \in ReaderPlaces /\ at'[m]["user"] \in UserPlaces
        /\ at'[n]["reader"] = "compare" /\ at'[n]["user"] = at[n]["user"]
        /\ \A m \in Nodes : m # n => Control(m)'
    BY <2>1, MoveKeeps DEF Threads, ReaderPlaces
  <2>3. TypeOK'
    BY <2>1, <2>2 DEF ThreadsInv, TypeOK, users, budget
  <2>4. Control(n)'
    BY <1>2, <2>1, <2>2 DEF ThreadsInv, Control, Locking, Reading, Writing
  <2> QED  BY <2>2, <2>3, <2>4 DEF ThreadsInv, Control
<1> QED  BY <1>1, <1>2

LEMMA SetOutKeeps ==
  ASSUME ThreadsInv, NEW n \in Nodes, SetOut(n)
  PROVE  ThreadsInv'
<1>1. /\ at[n]["user"] = "idle" /\ GoTo(n, "user", "call")
      /\ mutex' = IF n \in Guarded THEN [mutex EXCEPT ![n] = "user"] ELSE mutex
      /\ UNCHANGED <<connectState, rxSeq, txSeq, history, wire, users, budget, lock, frame, todo>>
  BY DEF SetOut, numbers
<1>2. /\ at' \in [Nodes -> [Threads -> ReaderPlaces \cup UserPlaces]]
      /\ \A m \in Nodes : at'[m]["reader"] \in ReaderPlaces /\ at'[m]["user"] \in UserPlaces
      /\ at'[n]["user"] = "call" /\ at'[n]["reader"] = at[n]["reader"]
      /\ \A m \in Nodes : m # n => Control(m)'
  BY <1>1, MoveKeeps DEF Threads, UserPlaces
<1>3. mutex' \in [Nodes -> {"free", "user"}]
  BY <1>1 DEF ThreadsInv, TypeOK
<1>4. TypeOK'
  BY <1>1, <1>2, <1>3 DEF ThreadsInv, TypeOK, users, budget
<1>5. Control(n)'
  BY <1>1, <1>2 DEF ThreadsInv, Control, Locking, Reading, Writing
<1> QED  BY <1>2, <1>4, <1>5 DEF ThreadsInv, Control

\* The lock is taken, for a call or a message that is sent back.
LEMMA LockForKeeps ==
  ASSUME ThreadsInv, NEW n \in Nodes, NEW t \in Threads, NEW place, NEW steps \in Seq(Steps),
         LockFor(n, t, place, steps), UNCHANGED <<connectState, frame>>,
         \/ t = "reader" /\ place = "echo" /\ at[n]["reader"] = "callback"
         \/ t = "user" /\ place = "send" /\ \A i \in 1 .. Len(steps) : steps[i].type = "USR"
         \/ t = "user" /\ place = "connect" /\ at[n]["reader"] = "idle"
  PROVE  /\ lock' \in [Nodes -> Threads \cup {"free"}]
         /\ at' \in [Nodes -> [Threads -> ReaderPlaces \cup UserPlaces]]
         /\ \A m \in Nodes : at'[m]["reader"] \in ReaderPlaces /\ at'[m]["user"] \in UserPlaces
         /\ todo' \in [Nodes -> [Threads -> Seq(Steps)]]
         /\ \A m \in Nodes : Control(m)'
<1>1. /\ lock[n] = "free" /\ lock' = [lock EXCEPT ![n] = t]
      /\ todo' = [todo EXCEPT ![n][t] = steps]
      /\ at' = [at EXCEPT ![n][t] = place]
  BY DEF LockFor, Lock, GoTo
<1>2. lock' \in [Nodes -> Threads \cup {"free"}]
  BY <1>1 DEF ThreadsInv, TypeOK
<1>3. /\ at' \in [Nodes -> [Threads -> ReaderPlaces \cup UserPlaces]]
      /\ \A m \in Nodes : at'[m]["reader"] \in ReaderPlaces /\ at'[m]["user"] \in UserPlaces
  <2>1. place \in ReaderPlaces \cup UserPlaces
    BY DEF ReaderPlaces, UserPlaces
  <2>2. IF t = "reader" THEN place \in ReaderPlaces ELSE place \in UserPlaces
    BY DEF ReaderPlaces, UserPlaces
  <2> QED  BY <1>1, <2>1, <2>2 DEF ThreadsInv, TypeOK, Threads
<1>4. todo' \in [Nodes -> [Threads -> Seq(Steps)]]
  BY <1>1 DEF ThreadsInv, TypeOK
<1>5. Control(n)'
  <2>1. Locking(n) /\ Reading(n)
    BY DEF ThreadsInv
  <2>2. /\ lock'[n] = t /\ at'[n][t] = place /\ todo'[n][t] = steps
        /\ frame'[n] = frame[n] /\ connectState'[n] = connectState[n]
        /\ \A u \in Threads : u # t => at'[n][u] = at[n][u] /\ todo'[n][u] = todo[n][u]
    BY <1>1 DEF ThreadsInv, TypeOK, Threads
  <2>3. \A u \in Threads : todo[n][u] = << >>
    BY <1>1, FreeLock DEF Threads
  <2>4. at[n]["reader"] \notin {"answer", "echo"} /\ at[n]["user"] \notin {"connect", "send"}
    BY <1>1, <2>1 DEF Locking
  <2> QED  BY <2>1, <2>2, <2>3, <2>4 DEF Control, Locking, Reading, Writing, Threads
<1>6. \A m \in Nodes : m # n => Control(m)'
  <2> TAKE m \in Nodes
  <2> SUFFICES ASSUME m # n PROVE Control(m)'
    OBVIOUS
  <2>1. /\ at'[m] = at[m] /\ todo'[m] = todo[m] /\ lock'[m] = lock[m] /\ frame'[m] = frame[m]
        /\ connectState'[m] = connectState[m]
    BY <1>1 DEF ThreadsInv, TypeOK
  <2> QED  BY <2>1, OtherEnd DEF ThreadsInv, Control
<1> QED  BY <1>2, <1>3, <1>4, <1>5, <1>6

LEMMA WritePacketKeeps ==
  ASSUME ThreadsInv, NEW n \in Nodes, SendBack(n) \/ SendMessage(n)
  PROVE  ThreadsInv'
<1> DEFINE steps == <<Data("USR", sent[n] + 1)>>
<1>1. PICK t \in Threads, place \in {"echo", "send"} :
        /\ WritePacket(n, t, place)
        /\ \/ t = "reader" /\ place = "echo" /\ at[n]["reader"] = "callback"
           \/ t = "user" /\ place = "send"
  BY DEF SendBack, SendMessage, Threads
<1>2. /\ sent[n] < MaxSent /\ LockFor(n, t, place, steps)
      /\ sent' = [sent EXCEPT ![n] = @ + 1]
      /\ UNCHANGED <<connectState, rxSeq, txSeq, history, wire, delivered, base, budget, mutex, frame>>
  BY <1>1 DEF WritePacket, numbers
<1>3. sent[n] + 1 \in Packets /\ sent[n] + 1 \in 0 .. MaxSent
  BY <1>2, BoundsAssumption DEF ThreadsInv, TypeOK, Packets
<1>4. steps \in Seq(Steps)
  BY <1>3, StepsMade, ShortAnswers
<1>5. \A i \in 1 .. Len(steps) : steps[i].type = "USR"
  BY DEF Data
<1> HIDE DEF steps
<1>6. /\ lock' \in [Nodes -> Threads \cup {"free"}]
      /\ at' \in [Nodes -> [Threads -> ReaderPlaces \cup UserPlaces]]
      /\ \A m \in Nodes : at'[m]["reader"] \in ReaderPlaces /\ at'[m]["user"] \in UserPlaces
      /\ todo' \in [Nodes -> [Threads -> Seq(Steps)]]
      /\ \A m \in Nodes : Control(m)'
  BY <1>1, <1>2, <1>4, <1>5, LockForKeeps
<1>7. sent' \in [Nodes -> 0 .. MaxSent]
  BY <1>2, <1>3 DEF ThreadsInv, TypeOK
<1>8. TypeOK'
  BY <1>2, <1>6, <1>7 DEF ThreadsInv, TypeOK, budget
<1> QED  BY <1>6, <1>8 DEF ThreadsInv, Control

\* What is left of a wire when its receiver is reset is a wire.
LEMMA ResetWire ==
  ASSUME NEW w \in Seq(Link!Frames), NEW v \in Link!AfterReceiverReset(w)
  PROVE  v \in Seq(Link!Frames)
<1>1. Link!Remnant \in Link!Frames
  BY DEF Link!Frames
<1>2. CASE w = << >>
  BY <1>2 DEF Link!AfterReceiverReset
<1>3. CASE w # << >>
  <2>1. Tail(w) \in Seq(Link!Frames)
    BY <1>3
  <2>2. <<Link!Remnant>> \in Seq(Link!Frames)
    BY <1>1
  <2>3. <<Link!Remnant>> \o Tail(w) \in Seq(Link!Frames)
    BY <2>1, <2>2
  <2> QED  BY <1>3, <2>1, <2>3 DEF Link!AfterReceiverReset
<1> QED  BY <1>2, <1>3

LEMMA ConnectKeeps ==
  ASSUME ThreadsInv, NEW n \in Nodes, Connect(n)
  PROVE  ThreadsInv'
<1> DEFINE steps == <<SYN0, Entering("SENT_SYN0")>>
<1>1. /\ connects[n] < MaxConnects /\ at[n]["reader"] = "idle"
      /\ connects' = [connects EXCEPT ![n] = @ + 1]
      /\ LockFor(n, "user", "connect", steps)
      /\ ResetNumbers(n)
      /\ UNCHANGED <<connectState, sent, delivered, inits, faults, mutex, frame>>
  BY DEF Connect
<1>2. steps \in Seq(Steps)
  <2>1. SYN0 \in Steps /\ Entering("SENT_SYN0") \in Steps
    BY StepsMade DEF Link!ConnectStates
  <2> QED  BY <2>1
<1> HIDE DEF steps
<1>3. /\ lock' \in [Nodes -> Threads \cup {"free"}]
      /\ at' \in [Nodes -> [Threads -> ReaderPlaces \cup UserPlaces]]
      /\ \A m \in Nodes : at'[m]["reader"] \in ReaderPlaces /\ at'[m]["user"] \in UserPlaces
      /\ todo' \in [Nodes -> [Threads -> Seq(Steps)]]
      /\ \A m \in Nodes : Control(m)'
  BY <1>1, <1>2, LockForKeeps DEF Threads
<1>4. wire' \in [Nodes -> Seq(Link!Frames)]
  <2>1. PICK w \in Link!AfterReceiverReset(wire[n]) : wire' = [wire EXCEPT ![n] = w]
    BY DEF Connect
  <2>2. wire[n] \in Seq(Link!Frames)
    BY DEF ThreadsInv, TypeOK
  <2>3. w \in Seq(Link!Frames)
    BY <2>2, ResetWire
  <2> QED  BY <2>1, <2>3 DEF ThreadsInv, TypeOK
<1>5. connects' \in [Nodes -> 0 .. MaxConnects]
  BY <1>1, BoundsAssumption DEF ThreadsInv, TypeOK
<1>6. /\ rxSeq' \in [Nodes -> Seqs] /\ txSeq' \in [Nodes -> Seqs]
      /\ history' \in [Nodes -> Seq(1 .. MaxSent)] /\ base' \in [Nodes -> 0 .. MaxSent]
  BY <1>1, ResetNumbersTypes DEF ThreadsInv
<1>7. TypeOK'
  BY <1>1, <1>3, <1>4, <1>5, <1>6 DEF ThreadsInv, TypeOK
<1> QED  BY <1>3, <1>7 DEF ThreadsInv, Control

LEMMA ReinitKeeps ==
  ASSUME ThreadsInv, NEW n \in Nodes, Reinit(n)
  PROVE  ThreadsInv'
<1>1. /\ inits < MaxInits /\ inits' = inits + 1
      /\ \A t \in Threads : at[n][t] = "idle"
      /\ connectState' = [connectState EXCEPT ![n] = "DISCONNECTED"]
      /\ rxSeq' = [rxSeq EXCEPT ![n] = InitialSeq]
      /\ txSeq' = [txSeq EXCEPT ![n] = InitialSeq]
      /\ base' = [base EXCEPT ![n] = sent[n]]
      /\ UNCHANGED <<history, sent, delivered, connects, faults, lock, mutex, at, frame, todo>>
  BY DEF Reinit, threads
<1>2. wire' \in [Nodes -> Seq(Link!Frames)]
  <2>1. PICK w \in Link!AfterReceiverReset(wire[n]) : wire' = [wire EXCEPT ![n] = w]
    BY DEF Reinit
  <2>2. wire[n] \in Seq(Link!Frames)
    BY DEF ThreadsInv, TypeOK
  <2>3. w \in Seq(Link!Frames)
    BY <2>2, ResetWire
  <2> QED  BY <2>1, <2>3 DEF ThreadsInv, TypeOK
<1>3. /\ connectState' \in [Nodes -> Link!ConnectStates]
      /\ inits' \in 0 .. MaxInits
      /\ rxSeq' \in [Nodes -> Seqs] /\ txSeq' \in [Nodes -> Seqs]
      /\ base' \in [Nodes -> 0 .. MaxSent]
  BY <1>1, InitialSeqType, BoundsAssumption DEF ThreadsInv, TypeOK, Link!ConnectStates
<1>4. TypeOK'
  BY <1>1, <1>2, <1>3 DEF ThreadsInv, TypeOK
<1>5. Control(n)'
  BY <1>1 DEF ThreadsInv, Control, Locking, Reading, Writing, Threads
<1>6. \A m \in Nodes : m # n => Control(m)'
  <2>1. \A m \in Nodes : m # n => connectState'[m] = connectState[m]
    BY <1>1 DEF ThreadsInv, TypeOK
  <2> QED  BY <1>1, <2>1, OtherEnd DEF ThreadsInv, Control
<1> QED  BY <1>4, <1>5, <1>6 DEF ThreadsInv, Control

LEMMA FaultKeeps ==
  ASSUME ThreadsInv, NEW n \in Nodes, Fault(n)
  PROVE  ThreadsInv'
<1>1. /\ faults < MaxFaults /\ faults' = faults + 1 /\ wire[n] # << >>
      /\ wire' = [wire EXCEPT ![n] = Tail(@)]
      /\ UNCHANGED <<connectState, rxSeq, txSeq, history, users, connects, inits,
                     lock, mutex, at, frame, todo>>
  BY DEF Fault, threads, numbers
<1>2. wire' \in [Nodes -> Seq(Link!Frames)] /\ faults' \in 0 .. MaxFaults
  BY <1>1, BoundsAssumption DEF ThreadsInv, TypeOK
<1>3. TypeOK'
  BY <1>1, <1>2 DEF ThreadsInv, TypeOK, users
<1>4. \A m \in Nodes : Control(m)'
  BY <1>1, OtherEnd DEF ThreadsInv, Control
<1> QED  BY <1>3, <1>4 DEF ThreadsInv, Control

LEMMA TransmitterType ==
  ASSUME TypeOK, NEW n \in Nodes
  PROVE  Transmitter(n) \in Transmitters
<1>1. << >> \in Seq(Link!Frames)
  OBVIOUS
<1> QED  BY <1>1 DEF TypeOK, Transmitter, Transmitters, Packets

LEMMA DoType ==
  ASSUME NEW x \in Transmitters, NEW step \in Steps
  PROVE  Do(x, step) \in Transmitters
<1>1. <<step>> \in Seq(Steps)
  BY ShortAnswers
<1> QED  BY <1>1, DoAllType, DoAllOne

LEMMA ProceedKeeps ==
  ASSUME ThreadsInv, NEW n \in Nodes, NEW t \in Threads, Proceed(n, t)
  PROVE  ThreadsInv'
<1> DEFINE step == Head(todo[n][t])
           x == Do(Transmitter(n), step)
<1>1. /\ todo[n][t] # << >>
      /\ todo' = [todo EXCEPT ![n][t] = Tail(@)]
      /\ connectState' = [connectState EXCEPT ![n] = x.state]
      /\ txSeq' = [txSeq EXCEPT ![n] = x.txSeq]
      /\ history' = [history EXCEPT ![n] = x.history]
      /\ wire' = [wire EXCEPT ![Peer(n)] = @ \o x.out]
      /\ UNCHANGED <<rxSeq, users, budget, lock, mutex, at, frame>>
  BY DEF Proceed
<1>2. todo[n][t] \in Seq(Steps) /\ step \in Steps /\ Tail(todo[n][t]) \in Seq(Steps)
  <2>1. todo[n][t] \in Seq(Steps)
    BY DEF ThreadsInv, TypeOK
  <2> QED  BY <1>1, <2>1
<1>3. x \in Transmitters
  BY <1>2, TransmitterType, DoType DEF ThreadsInv
<1>4. step.type = "USR" => x.state = connectState[n]
  BY DEF Do, Transmitter, IsData
<1> HIDE DEF x
<1>5. x.state \in Link!ConnectStates /\ x.txSeq \in Seqs
      /\ x.history \in Seq(1 .. MaxSent) /\ x.out \in Seq(Link!Frames)
  BY <1>3 DEF Transmitters, Packets
<1>6. wire' \in [Nodes -> Seq(Link!Frames)]
  <2>1. wire \in [Nodes -> Seq(Link!Frames)] /\ Peer(n) \in Nodes
    BY TwoNodes DEF ThreadsInv, TypeOK
  <2>2. wire[Peer(n)] \o x.out \in Seq(Link!Frames)
    BY <1>5, <2>1
  <2> QED  BY <1>1, <2>1, <2>2
<1>7. /\ connectState' \in [Nodes -> Link!ConnectStates]
      /\ txSeq' \in [Nodes -> Seqs] /\ history' \in [Nodes -> Seq(1 .. MaxSent)]
      /\ todo' \in [Nodes -> [Threads -> Seq(Steps)]]
  BY <1>1, <1>2, <1>5 DEF ThreadsInv, TypeOK
<1>8. TypeOK'
  BY <1>1, <1>6, <1>7 DEF ThreadsInv, TypeOK, users, budget
<1>9. Control(n)'
  <2>1. Locking(n) /\ Reading(n) /\ Writing(n)
    BY DEF ThreadsInv
  <2>2. /\ todo'[n][t] = Tail(todo[n][t])
        /\ \A u \in Threads : u # t => todo'[n][u] = todo[n][u]
        /\ connectState'[n] = x.state
        /\ lock'[n] = lock[n] /\ frame'[n] = frame[n] /\ at'[n] = at[n]
    BY <1>1 DEF ThreadsInv, TypeOK
  <2>3. lock[n] = t /\ \A u \in Threads : u # t => todo[n][u] = << >>
    BY <1>1, <2>1 DEF Locking
  <2>4. Locking(n)'
    BY <2>1, <2>2, <2>3 DEF Locking
  <2>5. at[n]["reader"] = "compare" => x.state = connectState[n]
    <3>1. SUFFICES ASSUME at[n]["reader"] = "compare" PROVE step.type = "USR"
      BY <1>4
    <3>2. t = "user" /\ at[n]["user"] = "send"
      BY <2>1, <2>3, <3>1 DEF Locking, Reading, Threads
    <3>3. todo[n]["user"][1].type = "USR"
      <4>1. 1 \in 1 .. Len(todo[n]["user"])
        BY <1>1, <1>2, <3>2
      <4> QED  BY <2>1, <3>2, <4>1 DEF Writing
    <3> QED  BY <1>1, <1>2, <3>2, <3>3
  <2>6. Reading(n)'
    BY <2>1, <2>2, <2>5 DEF Reading
  <2>7. Writing(n)'
    <3>1. CASE t = "reader"
      BY <2>1, <2>2, <3>1 DEF Writing, Threads
    <3>2. CASE t = "user"
      <4>1. \A i \in 1 .. Len(Tail(todo[n][t])) :
              i + 1 \in 1 .. Len(todo[n][t]) /\ Tail(todo[n][t])[i] = todo[n][t][i + 1]
        BY <1>1, <1>2
      <4> DEFINE q == todo[n]["user"]
      <4>2. todo'[n]["user"] = Tail(q) /\ at'[n]["user"] = at[n]["user"]
        BY <2>2, <3>2
      <4>3. \A i \in 1 .. Len(Tail(q)) : i + 1 \in 1 .. Len(q) /\ Tail(q)[i] = q[i + 1]
        BY <3>2, <4>1
      <4>4. at[n]["user"] = "send" => \A i \in 1 .. Len(q) : q[i].type = "USR"
        BY <2>1 DEF Writing
      <4>5. at[n]["user"] = "send" => \A i \in 1 .. Len(Tail(q)) : Tail(q)[i].type = "USR"
        BY <4>3, <4>4
      <4> HIDE DEF q
      <4> QED  BY <4>2, <4>5 DEF Writing
    <3> QED  BY <3>1, <3>2 DEF Threads
  <2> QED  BY <2>4, <2>6, <2>7 DEF Control
<1>10. \A m \in Nodes : m # n => Control(m)'
  <2>1. \A m \in Nodes : m # n => connectState'[m] = connectState[m] /\ todo'[m] = todo[m]
    BY <1>1 DEF ThreadsInv, TypeOK
  <2> QED  BY <1>1, <2>1, OtherEnd DEF ThreadsInv, Control
<1> QED  BY <1>8, <1>9, <1>10 DEF ThreadsInv, Control

LEMMA UnlockKeeps ==
  ASSUME ThreadsInv, NEW n \in Nodes, NEW t \in Threads, Unlock(n, t)
  PROVE  ThreadsInv'
<1> DEFINE place == IF at[n][t] = "echo" THEN "count" ELSE "idle"
<1>1. /\ lock[n] = t /\ todo[n][t] = << >>
      /\ lock' = [lock EXCEPT ![n] = "free"]
      /\ mutex' = IF at[n][t] = "send" /\ n \in Guarded
                    THEN [mutex EXCEPT ![n] = "free"] ELSE mutex
      /\ at' = [at EXCEPT ![n][t] = place]
      /\ UNCHANGED <<connectState, rxSeq, txSeq, history, wire, users, budget, frame, todo>>
  BY DEF Unlock, GoTo, numbers
<1>2. Locking(n) /\ Reading(n) /\ Writing(n)
  BY DEF ThreadsInv
<1>3. /\ lock'[n] = "free" /\ at'[n][t] = place
      /\ \A u \in Threads : u # t => at'[n][u] = at[n][u]
  BY <1>1 DEF ThreadsInv, TypeOK
<1>4. /\ lock' \in [Nodes -> Threads \cup {"free"}] /\ mutex' \in [Nodes -> {"free", "user"}]
  BY <1>1 DEF ThreadsInv, TypeOK
<1>5. t = "user" => place = "idle"
  BY <1>1, <1>2 DEF Locking
<1>6. /\ at' \in [Nodes -> [Threads -> ReaderPlaces \cup UserPlaces]]
      /\ \A m \in Nodes : at'[m]["reader"] \in ReaderPlaces /\ at'[m]["user"] \in UserPlaces
  <2>1. place \in ReaderPlaces \cup UserPlaces
    BY DEF ReaderPlaces, UserPlaces
  <2>2. IF t = "reader" THEN place \in ReaderPlaces ELSE place \in UserPlaces
    BY <1>5 DEF Threads, ReaderPlaces, UserPlaces
  <2> HIDE DEF place
  <2> QED  BY <1>1, <2>1, <2>2 DEF ThreadsInv, TypeOK, Threads
<1>7. TypeOK'
  BY <1>1, <1>4, <1>6 DEF ThreadsInv, TypeOK, users, budget
<1>8. Control(n)'
  <2>1. \A u \in Threads : todo[n][u] = << >>
    BY <1>1, <1>2 DEF Locking
  <2> QED  BY <1>1, <1>2, <1>3, <1>5, <2>1 DEF Control, Locking, Reading, Writing, Threads
<1>9. \A m \in Nodes : m # n => Control(m)'
  <2>1. \A m \in Nodes : m # n => at'[m] = at[m] /\ lock'[m] = lock[m]
    BY <1>1 DEF ThreadsInv, TypeOK
  <2> QED  BY <1>1, <2>1, OtherEnd DEF ThreadsInv, Control
<1> QED  BY <1>7, <1>8, <1>9 DEF ThreadsInv, Control

LEMMA NextKeeps == ThreadsInv /\ [Next]_vars => ThreadsInv'
<1> SUFFICES ASSUME ThreadsInv, [Next]_vars PROVE ThreadsInv'
  OBVIOUS
<1>1. CASE UNCHANGED vars
  BY <1>1 DEF vars, numbers, users, budget, threads, ThreadsInv, TypeOK, Locking, Reading, Writing
<1>2. CASE Next
  <2>1. PICK n \in Nodes :
          \/ TakeFrame(n) \/ HandleFrame(n)
          \/ Connect(n) \/ Reinit(n) \/ SetOut(n) \/ SendMessage(n)
          \/ \E t \in Threads : Holding(n, t)
          \/ Fault(n)
    BY <1>2 DEF Next
  <2>2. CASE HandleFrame(n)
    BY <2>2, SYNKeeps, NAKKeeps, HandleUSRKeeps, ReaderMoves, WritePacketKeeps DEF HandleFrame
  <2>3. CASE \E t \in Threads : Holding(n, t)
    BY <2>3, ProceedKeeps, UnlockKeeps DEF Holding
  <2> QED  BY <2>1, <2>2, <2>3, ReaderMoves, ConnectKeeps, ReinitKeeps, SetOutKeeps,
              WritePacketKeeps, FaultKeeps
<1> QED  BY <1>1, <1>2

LEMMA InitThreads == Init => ThreadsInv
<1> SUFFICES ASSUME Init PROVE ThreadsInv
  OBVIOUS
<1>1. << >> \in Seq(1 .. MaxSent) /\ << >> \in Seq(Link!Frames) /\ << >> \in Seq(Steps)
  OBVIOUS
<1>2. TypeOK
  BY <1>1, InitialSeqType, BoundsAssumption
     DEF Init, TypeOK, Link!ConnectStates, Threads, ReaderPlaces, UserPlaces
<1>3. ASSUME NEW n \in Nodes PROVE Locking(n) /\ Reading(n) /\ Writing(n)
  BY DEF Init, Locking, Reading, Writing, Threads
<1> QED  BY <1>2, <1>3 DEF ThreadsInv

(***************************************************************************)
(* The lock of the transmitter is enough: only who has it is in the middle *)
(* of something, and nothing makes an end leave CONNECTED while its reader *)
(* is about to accept a message without it; for any number of calls.       *)
(***************************************************************************)
THEOREM LocksSuffice == Spec => []ThreadsInv
  BY InitThreads, NextKeeps, PTL DEF Spec

-----------------------------------------------------------------------------
(***************************************************************************)
(* What each call leaves of a transmitter, as one step.                    *)
(***************************************************************************)
Txr(state, seq, hist, out) ==
  [state |-> state, txSeq |-> seq, history |-> hist, out |-> out]

\* The frames that are no data.
Replies == {SYN0, SYN1, SYN2, DIS} \cup {NAK(seq) : seq \in Seqs}

LEMMA ReplyTypes ==
  ASSUME NEW f \in Replies
  PROVE  f \in Steps /\ f \in Link!Frames /\ f.type \in {"SYN", "NAK"} /\ ~ IsData(f)
<1>1. CASE f \in {SYN0, SYN1, SYN2, DIS}
  BY <1>1 DEF Steps, SYN0, SYN1, SYN2, DIS, Link!Frames,
              Link!SYN0, Link!SYN1, Link!SYN2, Link!DIS, IsData
<1>2. CASE f \in {NAK(seq) : seq \in Seqs}
  <2>1. PICK seq \in Seqs : f = [type |-> "NAK", seq |-> seq]
    BY <1>2 DEF NAK, Link!NAK
  <2>2. f \in [type : {"NAK"}, seq : Seqs]
    BY <2>1
  <2> QED  BY <1>2, <2>1, <2>2, SameOperators DEF Steps, Link!Frames, IsData
<1> QED  BY <1>1, <1>2 DEF Replies

LEMMA DoReply ==
  ASSUME NEW s, NEW q, NEW h, NEW f \in Replies
  PROVE  /\ Do(Txr(s, q, h, << >>), f) = Txr(s, q, h, <<f>>)
         /\ DoAll(Txr(s, q, h, << >>), <<f>>) = Txr(s, q, h, <<f>>)
<1>1. f.type # "enter" /\ ~ IsData(f)
  BY ReplyTypes
<1>2. Append(<< >>, f) = <<f>>
  OBVIOUS
<1>3. Do(Txr(s, q, h, << >>), f) = Txr(s, q, h, <<f>>)
  BY <1>1, <1>2 DEF Do, Txr
<1> QED  BY <1>3, DoAllOne

LEMMA DoEnter ==
  ASSUME NEW s, NEW q, NEW h, NEW o, NEW s2
  PROVE  Do(Txr(s, q, h, o), Entering(s2)) = Txr(s2, q, h, o)
  BY DEF Do, Txr, Entering

LEMMA DoAllEnter ==
  ASSUME NEW s, NEW q, NEW h, NEW o, NEW s2
  PROVE  DoAll(Txr(s, q, h, o), <<Entering(s2)>>) = Txr(s2, q, h, o)
<1>1. Do(Txr(s, q, h, o), Entering(s2)) = Txr(s2, q, h, o)
  BY DoEnter
<1> QED  BY <1>1, DoAllOne

LEMMA DoReplyAndEnter ==
  ASSUME NEW s, NEW q, NEW h, NEW f \in Replies, NEW s2
  PROVE  DoAll(Txr(s, q, h, << >>), <<f, Entering(s2)>>) = Txr(s2, q, h, <<f>>)
<1> DEFINE x == Txr(s, q, h, << >>)
           e == Entering(s2)
           y == Txr(s, q, h, <<f>>)
<1>1. Do(x, f) = y
  BY DoReply
<1>2. Do(y, e) = Txr(s2, q, h, <<f>>)
  BY DoEnter
<1> HIDE DEF x, e, y
<1>3. DoAll(x, <<f, e>>) = Txr(s2, q, h, <<f>>)
  BY <1>1, <1>2, DoAllTwo
<1> QED  BY <1>3 DEF x, e

LEMMA DoWrite ==
  ASSUME NEW s, NEW q, NEW h, NEW p
  PROVE  DoAll(Txr(s, q, h, << >>), <<Data("USR", p)>>)
           = Txr(s, nextSeq(q), PushBack(h, p), <<DataFrame("USR", q, p)>>)
<1>1. /\ Data("USR", p).type = "USR" /\ Data("USR", p).packet = p
      /\ Data("USR", p).type # "enter" /\ IsData(Data("USR", p))
  BY DEF Data, IsData
<1>2. Append(<< >>, DataFrame("USR", q, p)) = <<DataFrame("USR", q, p)>>
  OBVIOUS
<1> HIDE DEF Data
<1>3. Do(Txr(s, q, h, << >>), Data("USR", p))
        = Txr(s, nextSeq(q), PushBack(h, p), <<DataFrame("USR", q, p)>>)
  BY <1>1, <1>2 DEF Do, Txr
<1> QED  BY <1>3, DoAllOne

LEMMA TxrType ==
  ASSUME NEW s \in Link!ConnectStates, NEW q \in Seqs, NEW h \in Seq(Packets),
         NEW o \in Seq(Link!Frames)
  PROVE  Txr(s, q, h, o) \in Transmitters
  BY DEF Txr, Transmitters

LEMMA DoRetransmit ==
  ASSUME NEW s \in Link!ConnectStates, NEW q \in Seqs, NEW h \in Seq(Packets),
         NEW o \in Seq(Link!Frames), NEW kept \in Seq(Packets)
  PROVE  DoAll(Txr(s, q, h, o), Retransmit(kept))
           = Txr(s, SeqAfter(kept, q), h, o \o Retransmissions(kept, q))
<1> DEFINE x == Txr(s, q, h, o)
           z == DoAll(x, Retransmit(kept))
<1>1. x.state = s /\ x.txSeq = q /\ x.history = h /\ x.out = o
  BY DEF Txr
<1>2. x \in Transmitters
  BY TxrType
<1> HIDE DEF x
<1>3. /\ z \in Transmitters
      /\ z.state = s /\ z.history = h
      /\ z.txSeq = SeqAfter(kept, q) /\ z.out = o \o Retransmissions(kept, q)
  BY <1>1, <1>2, DoAllRetransmit
<1> HIDE DEF z
<1>4. z = Txr(s, SeqAfter(kept, q), h, o \o Retransmissions(kept, q))
  BY <1>3 DEF Transmitters, Txr
<1> QED  BY <1>4 DEF x, z

\* The end of a handshake: perhaps a SYN2, then perhaps the history.
Leads == {<< >>, <<SYN2>>}

LEMMA DoOut ==
  ASSUME NEW s, NEW q, NEW h, NEW out \in Leads
  PROVE  /\ out \in Seq(Steps) /\ out \in Seq(Link!Frames)
         /\ DoAll(Txr(s, q, h, << >>), out) = Txr(s, q, h, out)
<1>1. SYN2 \in Replies /\ SYN2 \in Steps /\ SYN2 \in Link!Frames
  BY ReplyTypes DEF Replies
<1>2. CASE out = << >>
  <2>1. << >> \in Seq(Steps) /\ << >> \in Seq(Link!Frames)
    OBVIOUS
  <2> QED  BY <1>2, <2>1, DoAllNone
<1>3. CASE out = <<SYN2>>
  <2>1. <<SYN2>> \in Seq(Steps) /\ <<SYN2>> \in Seq(Link!Frames)
    BY <1>1
  <2> QED  BY <1>1, <1>3, <2>1, DoReply
<1> QED  BY <1>2, <1>3 DEF Leads

LEMMA DoOutAndEnter ==
  ASSUME NEW s, NEW q, NEW h, NEW out \in Leads, NEW s2 \in Link!ConnectStates
  PROVE  DoAll(Txr(s, q, h, << >>), out \o <<Entering(s2)>>) = Txr(s2, q, h, out)
<1> DEFINE x == Txr(s, q, h, << >>)
           y == Txr(s, q, h, out)
           e == <<Entering(s2)>>
<1>1. out \in Seq(Steps) /\ e \in Seq(Steps) /\ DoAll(x, out) = y
  BY DoOut, StepsMade, ShortAnswers
<1>2. DoAll(y, e) = Txr(s2, q, h, out)
  BY DoAllEnter
<1> HIDE DEF x, y, e
<1>3. DoAll(x, out \o e) = Txr(s2, q, h, out)
  BY <1>1, <1>2, DoAllConcat
<1> QED  BY <1>3 DEF x, e

LEMMA DoConnected ==
  ASSUME NEW s \in Link!ConnectStates, NEW q \in Seqs, NEW h \in Seq(Packets),
         NEW kept \in Seq(Packets), NEW out \in Leads, NEW s2 \in Link!ConnectStates
  PROVE  DoAll(Txr(s, q, h, << >>), out \o Retransmit(kept) \o <<Entering(s2)>>)
           = Txr(s2, SeqAfter(kept, q), h, out \o Retransmissions(kept, q))
<1> DEFINE x == Txr(s, q, h, << >>)
           y == Txr(s, q, h, out)
           r == Retransmit(kept)
           e == <<Entering(s2)>>
           z == Txr(s, SeqAfter(kept, q), h, out \o Retransmissions(kept, q))
<1>1. /\ out \in Seq(Steps) /\ out \in Seq(Link!Frames) /\ DoAll(x, out) = y
      /\ r \in Seq(Steps) /\ e \in Seq(Steps)
  BY DoOut, RetransmitSteps, StepsMade, ShortAnswers
<1>2. DoAll(y, r) = z
  BY <1>1, DoRetransmit
<1>3. DoAll(z, e) = Txr(s2, SeqAfter(kept, q), h, out \o Retransmissions(kept, q))
  BY DoAllEnter
<1> HIDE DEF x, y, z, r, e
<1> DEFINE u == out \o r
<1>4. u \in Seq(Steps) /\ DoAll(x, u) = z
  BY <1>1, <1>2, DoAllConcat
<1> HIDE DEF u
<1>5. DoAll(x, u \o e) = Txr(s2, SeqAfter(kept, q), h, out \o Retransmissions(kept, q))
  BY <1>1, <1>3, <1>4, DoAllConcat
<1> QED  BY <1>5 DEF x, r, e, u

-----------------------------------------------------------------------------
(***************************************************************************)
(* The link as SFPLink sees it.                                            *)
(***************************************************************************)
LEMMA LinkPeer == \A n : Link!Peer(n) = Peer(n)
  BY DEF Link!Peer, Peer

LEMMA TransmitterIs ==
  ASSUME NEW n
  PROVE  /\ Transmitter(n) = Txr(connectState[n], txSeq[n], history[n], << >>)
         /\ Transmitter(n)' = Txr(connectState'[n], txSeq'[n], history'[n], << >>)
  BY DEF Transmitter, Txr

LEMMA PendingType ==
  ASSUME TypeOK, NEW n \in Nodes
  PROVE  Pending(n) \in Seq(Steps)
<1>1. todo[n]["reader"] \in Seq(Steps) /\ todo[n]["user"] \in Seq(Steps)
  BY DEF TypeOK, Threads
<1> QED  BY <1>1 DEF Pending

LEMMA PromisedType ==
  ASSUME TypeOK, NEW n \in Nodes
  PROVE  /\ Promised(n) \in Transmitters
         /\ Promised(n).state \in Link!ConnectStates /\ Promised(n).txSeq \in Seqs
         /\ Promised(n).history \in Seq(Packets) /\ Promised(n).out \in Seq(Link!Frames)
<1>1. Promised(n) \in Transmitters
  BY PendingType, TransmitterType, DoAllType DEF Promised
<1> QED  BY <1>1 DEF Transmitters

\* What is promised is what is there when nobody has the lock.
LEMMA PromisedFree ==
  ASSUME ThreadsInv, NEW n \in Nodes, lock[n] = "free"
  PROVE  /\ Promised(n) = Transmitter(n)
         /\ LinkConnectState[n] = connectState[n]
         /\ LinkTxSeq[n] = txSeq[n] /\ LinkHistory[n] = history[n]
         /\ Promised(n).out = << >>
<1>1. Pending(n) = << >>
  BY FreeLock DEF Pending
<1>2. Promised(n) = Transmitter(n)
  BY <1>1, DoAllNone DEF Promised
<1> QED  BY <1>2 DEF Transmitter, LinkConnectState, LinkTxSeq, LinkHistory

LEMMA PromisedSame ==
  ASSUME NEW m, connectState'[m] = connectState[m], txSeq'[m] = txSeq[m],
         history'[m] = history[m], todo'[m] = todo[m]
  PROVE  Promised(m)' = Promised(m)
<1>1. Transmitter(m)' = Transmitter(m) /\ Pending(m)' = Pending(m)
  BY DEF Transmitter, Pending
<1> QED  BY <1>1 DEF Promised

\* A thread takes the lock for steps.
LEMMA PromisedTaken ==
  ASSUME ThreadsInv, NEW n \in Nodes, lock[n] = "free", NEW t \in Threads,
         NEW steps \in Seq(Steps), todo' = [todo EXCEPT ![n][t] = steps]
  PROVE  Promised(n)' = DoAll(Txr(connectState'[n], txSeq'[n], history'[n], << >>), steps)
<1>1. todo[n]["reader"] = << >> /\ todo[n]["user"] = << >>
  BY FreeLock
<1>2. \/ todo'[n]["reader"] = steps /\ todo'[n]["user"] = << >>
      \/ todo'[n]["reader"] = << >> /\ todo'[n]["user"] = steps
  BY <1>1 DEF ThreadsInv, TypeOK, Threads
<1>3. Pending(n)' = steps
  <2>1. steps \o << >> = steps /\ << >> \o steps = steps
    OBVIOUS
  <2> QED  BY <1>2, <2>1 DEF Pending
<1> QED  BY <1>3, TransmitterIs DEF Promised

LEMMA LinkTypes ==
  ASSUME TypeOK
  PROVE  /\ LinkConnectState \in [Nodes -> Link!ConnectStates]
         /\ LinkTxSeq \in [Nodes -> Seqs] /\ LinkRxSeq \in [Nodes -> Seqs]
         /\ LinkHistory \in [Nodes -> Seq(Packets)]
         /\ LinkWire \in [Nodes -> Seq(Link!Frames)]
<1>1. \A n \in Nodes : /\ Promised(n).state \in Link!ConnectStates /\ Promised(n).txSeq \in Seqs
                       /\ Promised(n).history \in Seq(Packets)
                       /\ Promised(n).out \in Seq(Link!Frames)
  BY PromisedType
<1>2. \A n \in Nodes : rxSeq[n] \in Seqs /\ nextSeq(rxSeq[n]) \in Seqs
  BY nextSeqType DEF TypeOK
<1>3. ASSUME NEW n \in Nodes PROVE LinkWire[n] \in Seq(Link!Frames)
  <2> DEFINE head == IF frame[n] = NoFrame THEN << >> ELSE <<frame[n]>>
             w == wire[n]
             o == Promised(Peer(n)).out
  <2>1. head \in Seq(Link!Frames)
    <3>1. CASE frame[n] = NoFrame
      BY <3>1
    <3>2. CASE frame[n] # NoFrame
      <4>1. frame[n] \in Link!Frames
        BY <3>2 DEF TypeOK
      <4> QED  BY <3>2, <4>1
    <3> QED  BY <3>1, <3>2
  <2>2. w \in Seq(Link!Frames) /\ o \in Seq(Link!Frames)
    BY <1>1, TwoNodes DEF TypeOK
  <2>3. LinkWire[n] = (head \o w) \o o
    BY DEF LinkWire
  <2> HIDE DEF head, w, o
  <2> QED  BY <2>1, <2>2, <2>3
<1>4. LinkWire \in [Nodes -> Seq(Link!Frames)]
  BY <1>3 DEF LinkWire
<1> QED  BY <1>1, <1>2, <1>4 DEF LinkConnectState, LinkTxSeq, LinkRxSeq, LinkHistory

LEMMA HeadAndRest ==
  ASSUME NEW S, NEW f \in S, NEW w \in Seq(S), NEW o \in Seq(S)
  PROVE  /\ (<<f>> \o w) \o o # << >> /\ Head((<<f>> \o w) \o o) = f
         /\ Tail((<<f>> \o w) \o o) = (<< >> \o w) \o o
<1> DEFINE h == <<f>>
           v == w \o o
<1>1. h \in Seq(S) /\ v \in Seq(S) /\ << >> \o w = w
  OBVIOUS
<1>2. (h \o w) \o o = h \o v
  <2> HIDE DEF h
  <2> QED  BY <1>1, ConcatAssociative
<1>3. Len(h) = 1 /\ h[1] = f
  OBVIOUS
<1> HIDE DEF v, h
<1> DEFINE u == h \o v
<1>4. u \in Seq(S) /\ Len(u) = 1 + Len(v) /\ u[1] = f /\ \A i \in 1 .. Len(v) : u[1 + i] = v[i]
  <2>1. Len(v) \in Nat
    BY <1>1
  <2>2. /\ u \in Seq(S) /\ Len(u) = Len(h) + Len(v)
        /\ \A i \in 1 .. Len(h) + Len(v) : u[i] = IF i <= Len(h) THEN h[i] ELSE v[i - Len(h)]
    BY <1>1, ConcatProperties
  <2> HIDE DEF u
  <2>3. u[1] = f
    BY <1>3, <2>1, <2>2
  <2>4. ASSUME NEW i \in 1 .. Len(v) PROVE u[1 + i] = v[i]
    <3>1. 1 + i \in 1 .. Len(h) + Len(v) /\ ~ (1 + i <= Len(h)) /\ (1 + i) - Len(h) = i
      BY <1>3, <2>1
    <3> QED  BY <2>2, <3>1
  <2> QED  BY <1>3, <2>2, <2>3, <2>4
<1> HIDE DEF u
<1>5. Len(v) \in Nat
  BY <1>1
<1>6. u # << >> /\ Head(u) = f
  BY <1>4, <1>5
<1>7. Tail(u) \in Seq(S) /\ Len(Tail(u)) = Len(v) /\ \A i \in 1 .. Len(v) : Tail(u)[i] = v[i]
  BY <1>4, <1>5, <1>6, HeadTailProperties
<1>8. Tail(u) = v
  BY <1>1, <1>7, SeqEqual
<1> QED  BY <1>1, <1>2, <1>6, <1>8 DEF u, v, h

\* A wire, in the end that reads it and the end that writes it.
LEMMA LinkWireIs ==
  ASSUME NEW n \in Nodes
  PROVE  /\ LinkWire[n] = ((IF frame[n] = NoFrame THEN << >> ELSE <<frame[n]>>) \o wire[n])
                            \o Promised(Peer(n)).out
         /\ LinkWire'[n] = ((IF frame'[n] = NoFrame THEN << >> ELSE <<frame'[n]>>) \o wire'[n])
                             \o (Promised(Peer(n))').out
  BY DEF LinkWire

\* What a step at end n that gets the lock does to the link: the end is now x.
LEMMA TakenViews ==
  ASSUME ThreadsInv, ThreadsInv', NEW n \in Nodes, lock[n] = "free",
         \A m \in Nodes : m # n => Promised(m)' = Promised(m),
         NEW x, Promised(n)' = x
  PROVE  /\ LinkConnectState' = [LinkConnectState EXCEPT ![n] = x.state]
         /\ LinkTxSeq' = [LinkTxSeq EXCEPT ![n] = x.txSeq]
         /\ LinkHistory' = [LinkHistory EXCEPT ![n] = x.history]
<1>1. \A m \in Nodes : Promised(m)' = IF m = n THEN x ELSE Promised(m)
  OBVIOUS
<1>2. LinkConnectState' = [m \in Nodes |-> (Promised(m)').state]
  BY DEF LinkConnectState
<1>3. LinkTxSeq' = [m \in Nodes |-> (Promised(m)').txSeq]
  BY DEF LinkTxSeq
<1>4. LinkHistory' = [m \in Nodes |-> (Promised(m)').history]
  BY DEF LinkHistory
<1>5. LinkConnectState' = [LinkConnectState EXCEPT ![n] = x.state]
  BY <1>1, <1>2 DEF LinkConnectState
<1>6. LinkTxSeq' = [LinkTxSeq EXCEPT ![n] = x.txSeq]
  BY <1>1, <1>3 DEF LinkTxSeq
<1>7. LinkHistory' = [LinkHistory EXCEPT ![n] = x.history]
  BY <1>1, <1>4 DEF LinkHistory
<1> QED  BY <1>5, <1>6, <1>7

\* A reader takes the lock to answer its frame.
LEMMA AnswerConsumes ==
  ASSUME ThreadsInv, ThreadsInv', NEW n \in Nodes, at[n]["reader"] \in {"handle", "compare"},
         NEW steps \in Seq(Steps), Answer(n, steps),
         \A m \in Nodes : m # n => /\ rxSeq'[m] = rxSeq[m] /\ txSeq'[m] = txSeq[m]
                                   /\ history'[m] = history[m],
         NEW s, NEW q, NEW h, NEW out \in Seq(Link!Frames),
         DoAll(Txr(connectState[n], txSeq'[n], history'[n], << >>), steps) = Txr(s, q, h, out)
  PROVE  /\ LinkWire[n] # << >> /\ Head(LinkWire[n]) = frame[n]
         /\ LinkConnectState[n] = connectState[n] /\ LinkTxSeq[n] = txSeq[n]
         /\ LinkHistory[n] = history[n] /\ LinkRxSeq[n] = rxSeq[n]
         /\ Link!Consume(n, out)
         /\ LinkConnectState' = [LinkConnectState EXCEPT ![n] = s]
         /\ LinkTxSeq' = [LinkTxSeq EXCEPT ![n] = q]
         /\ LinkHistory' = [LinkHistory EXCEPT ![n] = h]
         /\ LinkRxSeq' = [LinkRxSeq EXCEPT ![n] = rxSeq'[n]]
<1> DEFINE p == Peer(n)
<1>1. /\ lock[n] = "free" /\ todo' = [todo EXCEPT ![n]["reader"] = steps]
      /\ at' = [at EXCEPT ![n]["reader"] = "answer"]
      /\ frame' = [frame EXCEPT ![n] = NoFrame]
      /\ UNCHANGED <<connectState, wire, sent, delivered, budget, mutex>>
  BY DEF Answer, LockFor, Lock, GoTo, Done
<1>2. p \in Nodes /\ p # n /\ Peer(p) = n /\ \A m \in Nodes : m = n \/ m = p
  BY TwoNodes
<1>3. Promised(n)' = Txr(s, q, h, out)
  <2>1. Promised(n)' = DoAll(Txr(connectState'[n], txSeq'[n], history'[n], << >>), steps)
    BY <1>1, PromisedTaken DEF Threads
  <2> QED  BY <1>1, <2>1
<1>4. \A m \in Nodes : m # n => Promised(m)' = Promised(m)
  <2> SUFFICES ASSUME NEW m \in Nodes, m # n PROVE Promised(m)' = Promised(m)
    OBVIOUS
  <2>1. connectState'[m] = connectState[m] /\ todo'[m] = todo[m]
    BY <1>1 DEF ThreadsInv, TypeOK
  <2> QED  BY <2>1, PromisedSame
<1>5. /\ LinkConnectState' = [LinkConnectState EXCEPT ![n] = s]
      /\ LinkTxSeq' = [LinkTxSeq EXCEPT ![n] = q]
      /\ LinkHistory' = [LinkHistory EXCEPT ![n] = h]
  <2>1. Txr(s, q, h, out).state = s /\ Txr(s, q, h, out).txSeq = q /\ Txr(s, q, h, out).history = h
    BY DEF Txr
  <2> QED  BY <1>1, <1>3, <1>4, <2>1, TakenViews
<1>6. /\ frame[n] \in Link!Frames /\ frame[n] # NoFrame /\ frame'[n] = NoFrame /\ frame'[p] = frame[p]
      /\ wire'[n] = wire[n] /\ wire'[p] = wire[p]
  BY <1>1, <1>2, FrameRead DEF ThreadsInv, TypeOK
<1>7. Promised(n).out = << >> /\ (Promised(n)').out = out /\ (Promised(p)').out = Promised(p).out
  BY <1>1, <1>2, <1>3, <1>4, PromisedFree DEF Txr
<1>8. LinkWire'[p] = LinkWire[p] \o out
  <2> DEFINE head == IF frame[p] = NoFrame THEN << >> ELSE <<frame[p]>>
             w == head \o wire[p]
  <2>1. LinkWire[p] = w \o << >> /\ LinkWire'[p] = w \o out
    BY <1>2, <1>6, <1>7, LinkWireIs
  <2>2. w \in Seq(Link!Frames)
    <3>1. head \in Seq(Link!Frames)
      <4>1. CASE frame[p] = NoFrame
        BY <4>1
      <4>2. CASE frame[p] # NoFrame
        <5>1. frame[p] \in Link!Frames
          BY <1>2, <4>2 DEF ThreadsInv, TypeOK
        <5> QED  BY <4>2, <5>1
      <4> QED  BY <4>1, <4>2
    <3>2. wire[p] \in Seq(Link!Frames)
      BY <1>2 DEF ThreadsInv, TypeOK
    <3> HIDE DEF head
    <3> QED  BY <3>1, <3>2
  <2> HIDE DEF w
  <2>3. w \o << >> = w
    BY <2>2
  <2> QED  BY <2>1, <2>3
<1>9. /\ LinkWire[n] # << >> /\ Head(LinkWire[n]) = frame[n]
      /\ LinkWire'[n] = Tail(LinkWire[n])
  <2> DEFINE f == frame[n]
             w == wire[n]
             o == Promised(p).out
  <2>1. f \in Link!Frames /\ w \in Seq(Link!Frames) /\ o \in Seq(Link!Frames)
    BY <1>2, <1>6, PromisedType DEF ThreadsInv, TypeOK
  <2>2. LinkWire[n] = (<<f>> \o w) \o o /\ LinkWire'[n] = (<< >> \o w) \o o
    BY <1>6, <1>7, LinkWireIs
  <2> HIDE DEF f, w, o
  <2>3. /\ (<<f>> \o w) \o o # << >> /\ Head((<<f>> \o w) \o o) = f
        /\ Tail((<<f>> \o w) \o o) = (<< >> \o w) \o o
    BY <2>1, HeadAndRest
  <2> QED  BY <2>2, <2>3 DEF f
<1>10. Link!Consume(n, out)
  <2>1. \A m \in Nodes : LinkWire'[m] = IF m = n THEN Tail(LinkWire[n]) ELSE LinkWire[p] \o out
    BY <1>2, <1>8, <1>9
  <2>2. LinkWire' \in [Nodes -> Seq(Link!Frames)] /\ LinkWire \in [Nodes -> Seq(Link!Frames)]
    <3>1. TypeOK /\ TypeOK'
      BY DEF ThreadsInv
    <3>2. LinkWire = [m \in Nodes |-> LinkWire[m]] /\ LinkWire' = [m \in Nodes |-> LinkWire'[m]]
      BY DEF LinkWire
    <3>3. LinkWire \in [Nodes -> Seq(Link!Frames)]
      BY <3>1, LinkTypes
    <3>4. \A m \in Nodes : LinkWire'[m] \in Seq(Link!Frames)
      <4>1. LinkWire'[n] \in Seq(Link!Frames)
        <5> DEFINE w == LinkWire[n]
        <5>1. w \in Seq(Link!Frames) /\ w # << >>
          BY <1>9, <3>3
        <5> HIDE DEF w
        <5>2. Tail(w) \in Seq(Link!Frames)
          BY <5>1
        <5> QED  BY <1>9, <5>2 DEF w
      <4>2. LinkWire'[p] \in Seq(Link!Frames)
        BY <1>2, <1>8, <3>3
      <4> QED  BY <1>2, <4>1, <4>2
    <3> QED  BY <3>2, <3>3, <3>4
  <2>3. LinkWire' = [LinkWire EXCEPT ![n] = Tail(@), ![p] = @ \o out]
    BY <1>2, <2>1, <2>2
  <2> QED  BY <2>3, LinkPeer DEF Link!Consume
<1>11. LinkRxSeq[n] = rxSeq[n] /\ LinkRxSeq' = [LinkRxSeq EXCEPT ![n] = rxSeq'[n]]
  <2>1. at'[n]["reader"] = "answer" /\ \A m \in Nodes : m # n => at'[m] = at[m]
    BY <1>1 DEF ThreadsInv, TypeOK, Threads
  <2>2. LinkRxSeq' = [m \in Nodes |-> IF at'[m]["reader"] \in {"callback", "echo", "count"}
                                        THEN nextSeq(rxSeq'[m]) ELSE rxSeq'[m]]
    BY DEF LinkRxSeq
  <2> QED  BY <2>1, <2>2 DEF LinkRxSeq
<1> QED  BY <1>1, <1>5, <1>9, <1>10, <1>11, PromisedFree

-----------------------------------------------------------------------------
(***************************************************************************)
(* The handlers do what those of SFPLink do.                               *)
(***************************************************************************)
\* Nothing but n's own numbers changes.
Elsewhere(n) ==
  \A m \in Nodes : m # n => /\ rxSeq'[m] = rxSeq[m] /\ txSeq'[m] = txSeq[m]
                            /\ history'[m] = history[m]

\* An answer that leaves the numbers alone, enters s and transmits out.
Answers(n, steps, s, out) ==
  /\ at[n]["reader"] \in {"handle", "compare"}
  /\ Answer(n, steps) /\ UNCHANGED <<numbers, base>>
  /\ steps \in Seq(Steps) /\ out \in Seq(Link!Frames)
  /\ DoAll(Txr(connectState[n], txSeq[n], history[n], << >>), steps)
       = Txr(s, txSeq[n], history[n], out)

\* The frame that n's reader has is the next on the wire of SFPLink.
ReadsNext(n) ==
  /\ LinkWire[n] # << >> /\ Head(LinkWire[n]) = frame[n]
  /\ LinkConnectState[n] = connectState[n]

LEMMA AnswerAndNoMore ==
  ASSUME ThreadsInv, ThreadsInv', NEW n \in Nodes, NEW steps, NEW s, NEW out,
         Answers(n, steps, s, out)
  PROVE  /\ ReadsNext(n)
         /\ LinkTxSeq[n] = txSeq[n] /\ LinkHistory[n] = history[n] /\ LinkRxSeq[n] = rxSeq[n]
         /\ Link!Consume(n, out)
         /\ LinkConnectState' = [LinkConnectState EXCEPT ![n] = s]
         /\ UNCHANGED <<LinkRxSeq, LinkTxSeq, LinkHistory, users, budget>>
<1> USE DEF Answers
<1>1. /\ rxSeq' = rxSeq /\ txSeq' = txSeq /\ history' = history /\ base' = base
      /\ sent' = sent /\ delivered' = delivered /\ budget' = budget
  BY DEF numbers, Answer
<1> DEFINE q == txSeq[n]
           h == history[n]
<1>2. DoAll(Txr(connectState[n], txSeq'[n], history'[n], << >>), steps) = Txr(s, q, h, out)
  BY <1>1
<1>3. \A m \in Nodes : m # n => /\ rxSeq'[m] = rxSeq[m] /\ txSeq'[m] = txSeq[m]
                                /\ history'[m] = history[m]
  BY <1>1
<1> HIDE DEF q, h
<1>4. /\ LinkWire[n] # << >> /\ Head(LinkWire[n]) = frame[n]
      /\ LinkConnectState[n] = connectState[n] /\ LinkTxSeq[n] = txSeq[n]
      /\ LinkHistory[n] = history[n] /\ LinkRxSeq[n] = rxSeq[n]
      /\ Link!Consume(n, out)
      /\ LinkConnectState' = [LinkConnectState EXCEPT ![n] = s]
      /\ LinkTxSeq' = [LinkTxSeq EXCEPT ![n] = q]
      /\ LinkHistory' = [LinkHistory EXCEPT ![n] = h]
      /\ LinkRxSeq' = [LinkRxSeq EXCEPT ![n] = rxSeq'[n]]
  BY <1>2, <1>3, AnswerConsumes
<1>5. LinkTxSeq' = LinkTxSeq /\ LinkHistory' = LinkHistory /\ LinkRxSeq' = LinkRxSeq
  <2>1. /\ LinkTxSeq \in [Nodes -> Seqs] /\ LinkRxSeq \in [Nodes -> Seqs]
        /\ LinkHistory \in [Nodes -> Seq(Packets)]
    BY LinkTypes DEF ThreadsInv
  <2>2. LinkTxSeq[n] = q /\ LinkHistory[n] = h /\ LinkRxSeq[n] = rxSeq'[n]
    BY <1>1, <1>4 DEF q, h
  <2> QED  BY <1>4, <2>1, <2>2
<1> QED  BY <1>1, <1>4, <1>5 DEF users, ReadsNext

\* The numbers of an end are among its fields' values.
LEMMA EndTypes ==
  ASSUME TypeOK, NEW n \in Nodes
  PROVE  /\ connectState[n] \in Link!ConnectStates /\ txSeq[n] \in Seqs /\ rxSeq[n] \in Seqs
         /\ history[n] \in Seq(Packets)
  BY DEF TypeOK, Packets

LEMMA RebuffMaps ==
  ASSUME ThreadsInv, ThreadsInv', NEW n \in Nodes, at[n]["reader"] = "handle",
         connectState[n] # "CONNECTED", Rebuff(n)
  PROVE  /\ ReadsNext(n)
         /\ Link!Consume(n, <<Link!Rebuff(connectState[n])>>)
         /\ UNCHANGED <<LinkConnectState, LinkRxSeq, LinkTxSeq, LinkHistory, users, budget>>
<1> DEFINE f == Link!Rebuff(connectState[n])
           s == connectState[n]
<1>1. f \in {SYN0, SYN1, DIS} /\ f \in Replies /\ f \in Steps /\ f \in Link!Frames
  <2>1. f \in {SYN0, SYN1, DIS}
    BY StepsMade, EndTypes DEF ThreadsInv
  <2>2. f \in Replies
    BY <2>1 DEF Replies
  <2> QED  BY <2>1, <2>2, ReplyTypes
<1>2. Answer(n, <<f>>) /\ UNCHANGED <<numbers, base>>
  BY DEF Rebuff
<1> HIDE DEF f
<1>3. DoAll(Txr(s, txSeq[n], history[n], << >>), <<f>>) = Txr(s, txSeq[n], history[n], <<f>>)
  BY <1>1, DoReply
<1>4. <<f>> \in Seq(Steps) /\ <<f>> \in Seq(Link!Frames)
  BY <1>1
<1>5. Answers(n, <<f>>, s, <<f>>)
  BY <1>2, <1>3, <1>4 DEF Answers
<1>6. /\ ReadsNext(n)
      /\ Link!Consume(n, <<f>>)
      /\ LinkConnectState' = [LinkConnectState EXCEPT ![n] = s]
      /\ UNCHANGED <<LinkRxSeq, LinkTxSeq, LinkHistory, users, budget>>
  BY <1>5, AnswerAndNoMore
<1>7. LinkConnectState' = LinkConnectState
  BY <1>6, LinkTypes DEF ThreadsInv, ReadsNext
<1> QED  BY <1>6, <1>7 DEF f

LEMMA RetransmissionFrames ==
  ASSUME NEW kept \in Seq(Packets), NEW seq \in Seqs
  PROVE  Retransmissions(kept, seq) \in Seq(Link!Frames)
<1> DEFINE F == [type : {"USR", "RTX"}, seq : Seqs, packet : Packets]
           r == Retransmissions(kept, seq)
<1>1. seq \in Int
  BY DEF Seqs
<1>2. r \in Seq(F)
  BY <1>1, RetransmissionsProperties
<1>3. F \subseteq Link!Frames
  BY SameOperators DEF Link!Frames, Packets
<1> HIDE DEF F, r
<1>4. r \in Seq(Link!Frames)
  BY <1>2, <1>3
<1> QED  BY <1>4 DEF r

\* The end of a handshake.
LEMMA BecomeConnectedMaps ==
  ASSUME ThreadsInv, ThreadsInv', NEW n \in Nodes, at[n]["reader"] = "handle",
         NEW out \in Leads, BecomeConnected(n, out)
  PROVE  ReadsNext(n) /\ Link!BecomeConnected(n, out)
<1> DEFINE kept == KeptHistory(history[n], txSeq[n], InitialSeq)
           c == "CONNECTED"
           last == <<Entering(c)>>
           s == connectState[n]
           h == history[n]
<1>1. /\ kept \in Seq(Packets) /\ Retransmit(kept) \in Seq(Steps)
      /\ s \in Link!ConnectStates /\ txSeq[n] \in Seqs /\ h \in Seq(Packets)
      /\ c \in Link!ConnectStates
  BY InitialSeqType, KeptTypes, EndTypes DEF Link!ConnectStates, ThreadsInv
<1>2. last \in Seq(Steps)
  BY <1>1, StepsMade, ShortAnswers
<1>3. out \in Seq(Steps) /\ out \in Seq(Link!Frames)
  BY DoOut
<1>4. \/ /\ Answer(n, out \o last)
         /\ txSeq[n] = InitialSeq /\ UNCHANGED <<numbers, base>>
      \/ /\ Answer(n, out \o Retransmit(kept) \o last)
         /\ txSeq[n] # InitialSeq /\ FastForwardTo(n, kept, InitialSeq) /\ UNCHANGED base
  BY DEF BecomeConnected
<1> HIDE DEF c
<1>5. CASE txSeq[n] = InitialSeq
  <2>1. DoAll(Txr(s, txSeq[n], h, << >>), out \o last) = Txr(c, txSeq[n], h, out)
    BY <1>1, DoOutAndEnter
  <2> HIDE DEF last
  <2>2. out \o last \in Seq(Steps)
    BY <1>2, <1>3
  <2>3. Answers(n, out \o last, c, out)
    BY <1>3, <1>4, <1>5, <2>1, <2>2 DEF Answers
  <2>4. /\ ReadsNext(n) /\ LinkTxSeq[n] = txSeq[n]
        /\ Link!Consume(n, out)
        /\ LinkConnectState' = [LinkConnectState EXCEPT ![n] = c]
        /\ UNCHANGED <<LinkRxSeq, LinkTxSeq, LinkHistory, users, budget>>
    BY <2>3, AnswerAndNoMore
  <2> QED  BY <1>5, <2>4, SameOperators
           DEF Link!BecomeConnected, Link!Enter, Link!numbers, Link!users, Link!budget, users, budget, c
<1>6. CASE txSeq[n] # InitialSeq
  <2> DEFINE out2 == out \o Retransmissions(kept, InitialSeq)
             q2 == SeqAfter(kept, InitialSeq)
  <2>1. /\ Answer(n, out \o Retransmit(kept) \o last)
        /\ FastForwardTo(n, kept, InitialSeq) /\ base' = base
    BY <1>4, <1>6
  <2>2. rxSeq' = rxSeq /\ txSeq'[n] = InitialSeq /\ history'[n] = kept /\ Elsewhere(n)
    BY <2>1 DEF FastForwardTo, ThreadsInv, TypeOK, Elsewhere
  <2> HIDE DEF kept
  <2>3. DoAll(Txr(s, InitialSeq, kept, << >>), out \o Retransmit(kept) \o last)
          = Txr(c, q2, kept, out2)
    BY <1>1, InitialSeqType, DoConnected
  <2> DEFINE u == out \o Retransmit(kept) \o last
  <2>4. u \in Seq(Steps) /\ out2 \in Seq(Link!Frames)
    <3> DEFINE r == Retransmit(kept)
               rs == Retransmissions(kept, InitialSeq)
    <3>1. r \in Seq(Steps)
      BY <1>1
    <3>2. rs \in Seq(Link!Frames)
      BY <1>1, InitialSeqType, RetransmissionFrames
    <3> HIDE DEF r, rs, last
    <3>3. out \o r \o last \in Seq(Steps) /\ out \o rs \in Seq(Link!Frames)
      BY <1>2, <1>3, <3>1, <3>2
    <3> QED  BY <3>3 DEF r, rs
  <2>5. Answer(n, u)
    BY <2>1
  <2>6. DoAll(Txr(connectState[n], txSeq'[n], history'[n], << >>), u) = Txr(c, q2, kept, out2)
    BY <2>2, <2>3
  <2> HIDE DEF u, out2, q2
  <2>7. /\ LinkWire[n] # << >> /\ Head(LinkWire[n]) = frame[n]
        /\ LinkConnectState[n] = connectState[n] /\ LinkTxSeq[n] = txSeq[n]
        /\ LinkHistory[n] = history[n] /\ LinkRxSeq[n] = rxSeq[n]
        /\ Link!Consume(n, out2)
        /\ LinkConnectState' = [LinkConnectState EXCEPT ![n] = c]
        /\ LinkTxSeq' = [LinkTxSeq EXCEPT ![n] = q2]
        /\ LinkHistory' = [LinkHistory EXCEPT ![n] = kept]
        /\ LinkRxSeq' = [LinkRxSeq EXCEPT ![n] = rxSeq'[n]]
    BY <2>2, <2>4, <2>5, <2>6, AnswerConsumes DEF Elsewhere
  <2>8. LinkRxSeq' = LinkRxSeq
    BY <2>2, <2>7, LinkTypes DEF ThreadsInv
  <2>9. Link!ConsumeAndTransmitHistoryFrom(n, out, InitialSeq)
    <3>1. /\ kept = Link!KeptHistory(LinkHistory[n], LinkTxSeq[n], InitialSeq)
          /\ q2 = Link!SeqAfter(kept, InitialSeq)
          /\ out2 = out \o Link!Retransmissions(kept, InitialSeq)
      BY <2>7, SameOperators DEF kept, q2, out2
    <3> QED  BY <2>7, <2>8, <3>1 DEF Link!ConsumeAndTransmitHistoryFrom
  <2>10. UNCHANGED <<sent, delivered, base, budget>>
    BY <2>1 DEF Answer
  <2> QED  BY <1>6, <2>7, <2>9, <2>10, SameOperators
           DEF Link!BecomeConnected, Link!Enter, Link!users, Link!budget, users, budget, ReadsNext, c
<1> QED  BY <1>5, <1>6

LEMMA SYNMaps ==
  ASSUME ThreadsInv, ThreadsInv', NEW n \in Nodes,
         HandleSYN0(n) \/ HandleSYN1(n) \/ HandleSYN2(n) \/ HandleDIS(n)
  PROVE  Link!HandleFrame(n)
<1>1. CASE HandleSYN0(n)
  <2> DEFINE c == "SENT_SYN1"
             steps == <<SYN1, Entering(c)>>
             out == <<SYN1>>
  <2>1. /\ at[n]["reader"] = "handle" /\ frame[n] = SYN0
        /\ Answer(n, steps) /\ ResetNumbers(n)
    BY <1>1 DEF HandleSYN0, Handles
  <2>2. /\ rxSeq'[n] = InitialSeq /\ txSeq'[n] = InitialSeq /\ history'[n] = << >>
        /\ base' = [base EXCEPT ![n] = sent[n]] /\ Elsewhere(n)
    BY <2>1 DEF ResetNumbers, ThreadsInv, TypeOK, Elsewhere
  <2>3. SYN1 \in Replies /\ SYN1 \in Steps /\ SYN1 \in Link!Frames /\ Entering(c) \in Steps
    BY ReplyTypes, StepsMade DEF Replies, Link!ConnectStates
  <2>4. steps \in Seq(Steps) /\ out \in Seq(Link!Frames)
    BY <2>3
  <2> HIDE DEF c
  <2>5. DoAll(Txr(connectState[n], InitialSeq, << >>, << >>), steps) = Txr(c, InitialSeq, << >>, out)
    BY <2>3, DoReplyAndEnter
  <2> HIDE DEF steps, out
  <2>6. /\ LinkWire[n] # << >> /\ Head(LinkWire[n]) = frame[n]
        /\ Link!Consume(n, out)
        /\ LinkConnectState' = [LinkConnectState EXCEPT ![n] = c]
        /\ LinkTxSeq' = [LinkTxSeq EXCEPT ![n] = InitialSeq]
        /\ LinkHistory' = [LinkHistory EXCEPT ![n] = << >>]
        /\ LinkRxSeq' = [LinkRxSeq EXCEPT ![n] = rxSeq'[n]]
    BY <2>1, <2>2, <2>4, <2>5, AnswerConsumes DEF Elsewhere
  <2>7. UNCHANGED <<sent, delivered, budget>>
    BY <2>1 DEF Answer
  <2>8. Link!HandleSYN0(n)
    BY <2>1, <2>2, <2>6, <2>7, SameOperators
       DEF Link!HandleSYN0, Link!ArrivesSYN, Link!ResetNumbers, Link!Enter, Link!budget, budget,
           SYN0, SYN1, c, out
  <2> QED  BY <2>8 DEF Link!HandleFrame, Link!HandleSYN
<1>2. CASE HandleSYN1(n) /\ connectState[n] = "DISCONNECTED"
  <2>1. at[n]["reader"] = "handle" /\ frame[n] = SYN1 /\ Rebuff(n)
    BY <1>2 DEF HandleSYN1, Handles
  <2>2. Link!Rebuff(connectState[n]) = DIS
    BY <1>2 DEF Link!Rebuff, DIS
  <2>3. /\ ReadsNext(n) /\ Link!Consume(n, <<Link!Rebuff(connectState[n])>>)
        /\ UNCHANGED <<LinkConnectState, LinkRxSeq, LinkTxSeq, LinkHistory, users, budget>>
    BY <1>2, <2>1, RebuffMaps
  <2>4. Link!SYNWhileDisconnected(n)
    BY <1>2, <2>1, <2>2, <2>3
       DEF Link!SYNWhileDisconnected, Link!ArrivesSYN, ReadsNext, SYN1, DIS,
           Link!numbers, Link!users, Link!budget, users, budget
  <2> QED  BY <2>4 DEF Link!HandleFrame, Link!HandleSYN
<1>3. CASE HandleSYN1(n) /\ connectState[n] # "DISCONNECTED"
  <2>1. at[n]["reader"] = "handle" /\ frame[n] = SYN1 /\ BecomeConnected(n, <<SYN2>>)
    BY <1>3 DEF HandleSYN1, Handles
  <2>2. <<SYN2>> \in Leads
    BY DEF Leads
  <2>3. ReadsNext(n) /\ Link!BecomeConnected(n, <<SYN2>>)
    BY <2>1, <2>2, BecomeConnectedMaps
  <2>4. Link!HandleSYN1(n)
    BY <1>3, <2>1, <2>3 DEF Link!HandleSYN1, Link!ArrivesSYN, ReadsNext, SYN1, SYN2
  <2> QED  BY <2>4 DEF Link!HandleFrame, Link!HandleSYN
<1>4. CASE HandleSYN2(n) /\ connectState[n] = "DISCONNECTED"
  <2>1. at[n]["reader"] = "handle" /\ frame[n] = SYN2 /\ Rebuff(n)
    BY <1>4 DEF HandleSYN2, Handles
  <2>2. Link!Rebuff(connectState[n]) = DIS
    BY <1>4 DEF Link!Rebuff, DIS
  <2>3. /\ ReadsNext(n) /\ Link!Consume(n, <<Link!Rebuff(connectState[n])>>)
        /\ UNCHANGED <<LinkConnectState, LinkRxSeq, LinkTxSeq, LinkHistory, users, budget>>
    BY <1>4, <2>1, RebuffMaps
  <2>4. Link!SYNWhileDisconnected(n)
    BY <1>4, <2>1, <2>2, <2>3
       DEF Link!SYNWhileDisconnected, Link!ArrivesSYN, ReadsNext, SYN2, DIS,
           Link!numbers, Link!users, Link!budget, users, budget
  <2> QED  BY <2>4 DEF Link!HandleFrame, Link!HandleSYN
<1>5. CASE HandleSYN2(n) /\ connectState[n] = "SENT_SYN0"
  <2>1. at[n]["reader"] = "handle" /\ frame[n] = SYN2 /\ Rebuff(n)
    BY <1>5 DEF HandleSYN2, Handles
  <2>2. Link!Rebuff(connectState[n]) = SYN0
    BY <1>5 DEF Link!Rebuff, SYN0
  <2>3. /\ ReadsNext(n) /\ Link!Consume(n, <<Link!Rebuff(connectState[n])>>)
        /\ UNCHANGED <<LinkConnectState, LinkRxSeq, LinkTxSeq, LinkHistory, users, budget>>
    BY <1>5, <2>1, RebuffMaps
  <2>4. Link!SYN2AfterSYN0(n)
    BY <1>5, <2>1, <2>2, <2>3
       DEF Link!SYN2AfterSYN0, Link!ArrivesSYN, ReadsNext, SYN2, SYN0,
           Link!numbers, Link!users, Link!budget, users, budget
  <2> QED  BY <2>4 DEF Link!HandleFrame, Link!HandleSYN
<1>6. CASE HandleSYN2(n) /\ connectState[n] \notin {"DISCONNECTED", "SENT_SYN0"}
  <2>1. at[n]["reader"] = "handle" /\ frame[n] = SYN2 /\ BecomeConnected(n, << >>)
    BY <1>6 DEF HandleSYN2, Handles
  <2>2. << >> \in Leads
    BY DEF Leads
  <2>3. ReadsNext(n) /\ Link!BecomeConnected(n, << >>)
    BY <2>1, <2>2, BecomeConnectedMaps
  <2>4. connectState[n] \in {"SENT_SYN1", "CONNECTED"}
    BY <1>6, EndTypes DEF ThreadsInv, Link!ConnectStates
  <2>5. Link!HandleSYN2(n)
    BY <2>1, <2>3, <2>4 DEF Link!HandleSYN2, Link!ArrivesSYN, ReadsNext, SYN2
  <2> QED  BY <2>5 DEF Link!HandleFrame, Link!HandleSYN
<1>7. CASE HandleDIS(n)
  <2> DEFINE c == "DISCONNECTED"
             steps == <<Entering(c)>>
  <2>1. /\ at[n]["reader"] = "handle" /\ frame[n] = DIS
        /\ Answer(n, steps) /\ UNCHANGED <<numbers, base>>
    BY <1>7 DEF HandleDIS, Handles
  <2>2. steps \in Seq(Steps) /\ << >> \in Seq(Link!Frames)
    BY StepsMade, ShortAnswers DEF Link!ConnectStates
  <2> HIDE DEF c
  <2>3. DoAll(Txr(connectState[n], txSeq[n], history[n], << >>), steps)
          = Txr(c, txSeq[n], history[n], << >>)
    BY DoAllEnter
  <2>4. Answers(n, steps, c, << >>)
    BY <2>1, <2>2, <2>3 DEF Answers
  <2> HIDE DEF steps
  <2>5. /\ ReadsNext(n) /\ Link!Consume(n, << >>)
        /\ LinkConnectState' = [LinkConnectState EXCEPT ![n] = c]
        /\ UNCHANGED <<LinkRxSeq, LinkTxSeq, LinkHistory, users, budget>>
    BY <2>4, AnswerAndNoMore
  <2>6. Link!HandleDIS(n)
    BY <2>1, <2>5 DEF Link!HandleDIS, Link!ArrivesSYN, ReadsNext, DIS, Link!Enter, c,
                      Link!numbers, Link!users, Link!budget, users, budget
  <2> QED  BY <2>6 DEF Link!HandleFrame, Link!HandleSYN
<1> QED  BY <1>1, <1>2, <1>3, <1>4, <1>5, <1>6, <1>7

\* An answer to data or a NAK by an end that is not connected.
LEMMA RebuffFrameMaps ==
  ASSUME ThreadsInv, ThreadsInv', NEW n \in Nodes, at[n]["reader"] = "handle",
         frame[n].type \in {"USR", "RTX", "NAK"},
         connectState[n] # "CONNECTED", Rebuff(n)
  PROVE  Link!HandleFrame(n)
<1>1. /\ ReadsNext(n) /\ Link!Consume(n, <<Link!Rebuff(connectState[n])>>)
      /\ UNCHANGED <<LinkConnectState, LinkRxSeq, LinkTxSeq, LinkHistory, users, budget>>
  BY RebuffMaps
<1>2. Link!RebuffFrame(n)
  BY <1>1 DEF Link!RebuffFrame, Link!Arrives, ReadsNext,
              Link!numbers, Link!users, Link!budget, users, budget
<1> QED  BY <1>2 DEF Link!HandleFrame

\* A NAK in answer to a frame.
LEMMA RejectMaps ==
  ASSUME ThreadsInv, ThreadsInv', NEW n \in Nodes, HandleRemnant(n) \/ RejectOutOfOrder(n)
  PROVE  Link!HandleFrame(n)
<1> DEFINE f == NAK(rxSeq[n])
           c == connectState[n]
<1>1. /\ at[n]["reader"] \in {"handle", "compare"}
      /\ Answer(n, <<f>>) /\ UNCHANGED <<numbers, base>>
  BY DEF HandleRemnant, RejectOutOfOrder, Handles
<1>2. f \in Replies /\ f \in Steps /\ f \in Link!Frames
  <2>1. f \in Replies
    BY EndTypes DEF Replies, ThreadsInv
  <2> QED  BY <2>1, ReplyTypes
<1>3. f = Link!NAK(rxSeq[n])
  BY DEF NAK
<1> HIDE DEF f
<1>4. <<f>> \in Seq(Steps) /\ <<f>> \in Seq(Link!Frames)
  BY <1>2
<1>5. DoAll(Txr(c, txSeq[n], history[n], << >>), <<f>>) = Txr(c, txSeq[n], history[n], <<f>>)
  BY <1>2, DoReply
<1>6. Answers(n, <<f>>, c, <<f>>)
  BY <1>1, <1>4, <1>5 DEF Answers
<1>7. /\ ReadsNext(n) /\ LinkRxSeq[n] = rxSeq[n] /\ Link!Consume(n, <<f>>)
      /\ LinkConnectState' = [LinkConnectState EXCEPT ![n] = c]
      /\ UNCHANGED <<LinkRxSeq, LinkTxSeq, LinkHistory, users, budget>>
  BY <1>6, AnswerAndNoMore
<1>8. LinkConnectState' = LinkConnectState
  BY <1>7, LinkTypes DEF ThreadsInv, ReadsNext
<1>9. CASE HandleRemnant(n)
  <2>1. frame[n].type = "BAD"
    BY <1>9 DEF HandleRemnant, Handles
  <2>2. Link!RejectRemnant(n)
    BY <1>3, <1>7, <1>8, <2>1 DEF Link!RejectRemnant, Link!Arrives, ReadsNext,
              Link!numbers, Link!users, Link!budget, users, budget
  <2> QED  BY <2>2 DEF Link!HandleFrame
<1>10. CASE RejectOutOfOrder(n)
  <2>1. /\ frame[n].type = "USR" /\ frame[n].seq # rxSeq[n]
        /\ connectState[n] = "CONNECTED"
    BY <1>10 DEF RejectOutOfOrder, Handles, ThreadsInv, Reading
  <2>2. Link!RejectOutOfOrder(n)
    BY <1>3, <1>7, <1>8, <2>1 DEF Link!RejectOutOfOrder, Link!Arrives, ReadsNext,
              Link!numbers, Link!users, Link!budget, users, budget
  <2> QED  BY <2>2 DEF Link!HandleFrame, Link!HandleUSR
<1> QED  BY <1>9, <1>10

LEMMA NAKMaps ==
  ASSUME ThreadsInv, ThreadsInv', NEW n \in Nodes, HandleNAK(n)
  PROVE  Link!HandleFrame(n)
<1> DEFINE seq == frame[n].seq
           kept == KeptHistory(history[n], txSeq[n], seq)
           c == connectState[n]
<1>1. frame[n].type = "NAK" /\ at[n]["reader"] = "handle"
  BY DEF HandleNAK, Handles
<1>2. seq \in Seqs
  BY <1>1, FrameRead, FrameFields
<1>3. /\ kept \in Seq(Packets) /\ Retransmit(kept) \in Seq(Steps)
      /\ c \in Link!ConnectStates /\ txSeq[n] \in Seqs /\ history[n] \in Seq(Packets)
  BY <1>2, KeptTypes, EndTypes DEF ThreadsInv
<1>4. \/ connectState[n] # "CONNECTED" /\ Rebuff(n)
      \/ /\ connectState[n] = "CONNECTED" /\ seq = txSeq[n]
         /\ Answer(n, << >>) /\ UNCHANGED <<numbers, base>>
      \/ /\ connectState[n] = "CONNECTED" /\ seq # txSeq[n]
         /\ Answer(n, Retransmit(kept)) /\ FastForwardTo(n, kept, seq) /\ UNCHANGED base
  BY DEF HandleNAK
<1>5. CASE connectState[n] # "CONNECTED" /\ Rebuff(n)
  BY <1>1, <1>5, RebuffFrameMaps
<1>6. CASE /\ connectState[n] = "CONNECTED" /\ seq = txSeq[n]
           /\ Answer(n, << >>) /\ UNCHANGED <<numbers, base>>
  <2>1. << >> \in Seq(Steps) /\ << >> \in Seq(Link!Frames)
    OBVIOUS
  <2>2. DoAll(Txr(c, txSeq[n], history[n], << >>), << >>) = Txr(c, txSeq[n], history[n], << >>)
    BY DoAllNone
  <2>3. Answers(n, << >>, c, << >>)
    BY <1>1, <1>6, <2>1, <2>2 DEF Answers
  <2>4. /\ ReadsNext(n) /\ LinkTxSeq[n] = txSeq[n] /\ Link!Consume(n, << >>)
        /\ LinkConnectState' = [LinkConnectState EXCEPT ![n] = c]
        /\ UNCHANGED <<LinkRxSeq, LinkTxSeq, LinkHistory, users, budget>>
    BY <2>3, AnswerAndNoMore
  <2>5. LinkConnectState' = LinkConnectState
    BY <2>4, LinkTypes DEF ThreadsInv, ReadsNext
  <2>6. Link!IgnoreNAK(n)
    BY <1>1, <1>6, <2>4, <2>5 DEF Link!IgnoreNAK, Link!Arrives, ReadsNext,
              Link!numbers, Link!users, Link!budget, users, budget
  <2> QED  BY <2>6 DEF Link!HandleFrame, Link!HandleNAK
<1>7. CASE /\ connectState[n] = "CONNECTED" /\ seq # txSeq[n]
           /\ Answer(n, Retransmit(kept)) /\ FastForwardTo(n, kept, seq) /\ UNCHANGED base
  <2> DEFINE steps == Retransmit(kept)
             q2 == SeqAfter(kept, seq)
             out == Retransmissions(kept, seq)
  <2>1. rxSeq' = rxSeq /\ txSeq'[n] = seq /\ history'[n] = kept /\ Elsewhere(n)
    BY <1>7 DEF FastForwardTo, ThreadsInv, TypeOK, Elsewhere
  <2>2. out \in Seq(Link!Frames) /\ steps \in Seq(Steps) /\ Answer(n, steps)
    BY <1>2, <1>3, <1>7, RetransmissionFrames
  <2> HIDE DEF kept, seq
  <2>3. DoAll(Txr(c, seq, kept, << >>), steps) = Txr(c, q2, kept, << >> \o out)
    <3>1. << >> \in Seq(Link!Frames)
      OBVIOUS
    <3> QED  BY <1>2, <1>3, <3>1, DoRetransmit
  <2> HIDE DEF steps, q2, out
  <2>4. << >> \o out = out
    BY <2>2
  <2>5. DoAll(Txr(c, txSeq'[n], history'[n], << >>), steps) = Txr(c, q2, kept, out)
    BY <2>1, <2>3, <2>4
  <2>6. /\ LinkWire[n] # << >> /\ Head(LinkWire[n]) = frame[n]
        /\ LinkConnectState[n] = connectState[n] /\ LinkTxSeq[n] = txSeq[n]
        /\ LinkHistory[n] = history[n] /\ LinkRxSeq[n] = rxSeq[n]
        /\ Link!Consume(n, out)
        /\ LinkConnectState' = [LinkConnectState EXCEPT ![n] = c]
        /\ LinkTxSeq' = [LinkTxSeq EXCEPT ![n] = q2]
        /\ LinkHistory' = [LinkHistory EXCEPT ![n] = kept]
        /\ LinkRxSeq' = [LinkRxSeq EXCEPT ![n] = rxSeq'[n]]
    BY <1>1, <2>1, <2>2, <2>5, AnswerConsumes DEF Elsewhere
  <2>7. LinkRxSeq' = LinkRxSeq /\ LinkConnectState' = LinkConnectState
    BY <2>1, <2>6, LinkTypes DEF ThreadsInv
  <2>8. Link!ConsumeAndTransmitHistoryFrom(n, << >>, seq)
    <3>1. /\ kept = Link!KeptHistory(LinkHistory[n], LinkTxSeq[n], seq)
          /\ q2 = Link!SeqAfter(kept, seq)
          /\ out = << >> \o Link!Retransmissions(kept, seq)
      BY <2>4, <2>6, SameOperators DEF kept, q2, out
    <3> QED  BY <2>6, <2>7, <3>1 DEF Link!ConsumeAndTransmitHistoryFrom
  <2>9. UNCHANGED <<sent, delivered, base, budget>>
    BY <1>7 DEF Answer
  <2>10. Link!AnswerNAK(n)
    BY <1>1, <1>7, <2>6, <2>7, <2>8, <2>9 DEF Link!AnswerNAK, Link!Arrives, seq,
              Link!users, Link!budget, users, budget
  <2> QED  BY <2>10 DEF Link!HandleFrame, Link!HandleNAK
<1> QED  BY <1>4, <1>5, <1>6, <1>7

-----------------------------------------------------------------------------
(***************************************************************************)
(* Steps that SFPLink does not see.                                        *)
(***************************************************************************)
\* The frames on their way to n that its peer has put on the line.
OnTheLine(n) == (IF frame[n] = NoFrame THEN << >> ELSE <<frame[n]>>) \o wire[n]

\* What SFPLink has n count to.
Counted(n) ==
  IF at[n]["reader"] \in {"callback", "echo", "count"} THEN nextSeq(rxSeq[n]) ELSE rxSeq[n]

LEMMA Views ==
  /\ LinkRxSeq = [m \in Nodes |-> Counted(m)]
  /\ LinkRxSeq' = [m \in Nodes |-> Counted(m)']
  /\ LinkWire = [m \in Nodes |-> OnTheLine(m) \o Promised(Peer(m)).out]
  /\ LinkWire' = [m \in Nodes |-> OnTheLine(m)' \o (Promised(Peer(m))').out]
  BY DEF LinkRxSeq, LinkWire, Counted, OnTheLine

LEMMA SamePromises ==
  ASSUME \A m \in Nodes : /\ (Promised(m)').state = Promised(m).state
                          /\ (Promised(m)').txSeq = Promised(m).txSeq
                          /\ (Promised(m)').history = Promised(m).history
  PROVE  LinkConnectState' = LinkConnectState /\ LinkTxSeq' = LinkTxSeq
         /\ LinkHistory' = LinkHistory
<1>1. /\ LinkConnectState' = [m \in Nodes |-> (Promised(m)').state]
      /\ LinkTxSeq' = [m \in Nodes |-> (Promised(m)').txSeq]
      /\ LinkHistory' = [m \in Nodes |-> (Promised(m)').history]
  BY DEF LinkConnectState, LinkTxSeq, LinkHistory
<1>2. LinkConnectState' = LinkConnectState
  BY <1>1 DEF LinkConnectState
<1>3. LinkTxSeq' = LinkTxSeq
  BY <1>1 DEF LinkTxSeq
<1>4. LinkHistory' = LinkHistory
  BY <1>1 DEF LinkHistory
<1> QED  BY <1>2, <1>3, <1>4

\* Neither a promise, nor what is on a line, nor what has been counted changes.
LEMMA Unseen ==
  ASSUME \A m \in Nodes : Promised(m)' = Promised(m),
         \A m \in Nodes : OnTheLine(m)' = OnTheLine(m),
         \A m \in Nodes : Counted(m)' = Counted(m),
         UNCHANGED <<users, budget>>
  PROVE  UNCHANGED Link!vars
<1>1. LinkConnectState' = LinkConnectState /\ LinkTxSeq' = LinkTxSeq /\ LinkHistory' = LinkHistory
  BY SamePromises
<1>2. LinkRxSeq' = LinkRxSeq
  BY Views
<1>3. \A m \in Nodes : Peer(m) \in Nodes
  BY TwoNodes
<1>4. LinkWire' = LinkWire
  BY <1>3, Views
<1> QED  BY <1>1, <1>2, <1>4
         DEF Link!vars, Link!numbers, Link!users, Link!budget, users, budget

\* A step that moves a thread of n and leaves the transmitter alone.
LEMMA MoveUnseen ==
  ASSUME ThreadsInv, NEW n \in Nodes, NEW t \in Threads, NEW place, GoTo(n, t, place),
         UNCHANGED <<connectState, txSeq, history, todo, users, budget>>,
         \A m \in Nodes : OnTheLine(m)' = OnTheLine(m),
         \A m \in Nodes : m # n => rxSeq'[m] = rxSeq[m],
         Counted(n)' = Counted(n)
  PROVE  UNCHANGED Link!vars
<1>1. \A m \in Nodes : Promised(m)' = Promised(m)
  BY PromisedSame
<1>2. \A m \in Nodes : m # n => at'[m] = at[m]
  BY DEF GoTo, ThreadsInv, TypeOK
<1>3. \A m \in Nodes : Counted(m)' = Counted(m)
  BY <1>2 DEF Counted
<1> QED  BY <1>1, <1>3, Unseen

LEMMA MovedTo ==
  ASSUME ThreadsInv, NEW n \in Nodes, NEW t \in Threads, NEW place, GoTo(n, t, place)
  PROVE  at'[n][t] = place /\ \A u \in Threads : u # t => at'[n][u] = at[n][u]
  BY DEF GoTo, ThreadsInv, TypeOK

LEMMA LooksUnseen ==
  ASSUME ThreadsInv, NEW n \in Nodes, connectState[n] = "CONNECTED", HandleUSR(n)
  PROVE  UNCHANGED Link!vars
<1>1. /\ at[n]["reader"] = "handle" /\ GoTo(n, "reader", "compare")
      /\ UNCHANGED <<connectState, numbers, wire, users, budget, lock, mutex, frame, todo>>
  BY DEF HandleUSR, Handles
<1>2. at'[n]["reader"] = "compare"
  BY <1>1, MovedTo DEF Threads
<1>3. rxSeq' = rxSeq /\ txSeq' = txSeq /\ history' = history
  BY <1>1 DEF numbers
<1>4. \A m \in Nodes : OnTheLine(m)' = OnTheLine(m)
  BY <1>1 DEF OnTheLine
<1>5. Counted(n)' = Counted(n)
  BY <1>1, <1>2, <1>3 DEF Counted
<1> QED  BY <1>1, <1>3, <1>4, <1>5, MoveUnseen DEF Threads

LEMMA SetOutUnseen ==
  ASSUME ThreadsInv, NEW n \in Nodes, SetOut(n)
  PROVE  UNCHANGED Link!vars
<1>1. /\ GoTo(n, "user", "call")
      /\ UNCHANGED <<connectState, numbers, wire, users, budget, lock, frame, todo>>
  BY DEF SetOut
<1>2. at'[n]["reader"] = at[n]["reader"]
  BY <1>1, MovedTo DEF Threads
<1>3. rxSeq' = rxSeq /\ txSeq' = txSeq /\ history' = history
  BY <1>1 DEF numbers
<1>4. \A m \in Nodes : OnTheLine(m)' = OnTheLine(m)
  BY <1>1 DEF OnTheLine
<1>5. Counted(n)' = Counted(n)
  BY <1>2, <1>3 DEF Counted
<1> QED  BY <1>1, <1>3, <1>4, <1>5, MoveUnseen DEF Threads

LEMMA UnlockUnseen ==
  ASSUME ThreadsInv, NEW n \in Nodes, NEW t \in Threads, Unlock(n, t)
  PROVE  UNCHANGED Link!vars
<1> DEFINE place == IF at[n][t] = "echo" THEN "count" ELSE "idle"
<1>1. /\ GoTo(n, t, place) /\ at[n][t] \in {"answer", "echo", "connect", "send"}
      /\ UNCHANGED <<connectState, numbers, wire, users, budget, frame, todo>>
  BY DEF Unlock
<1>2. at'[n][t] = place /\ \A u \in Threads : u # t => at'[n][u] = at[n][u]
  BY <1>1, MovedTo
<1>3. rxSeq' = rxSeq /\ txSeq' = txSeq /\ history' = history
  BY <1>1 DEF numbers
<1>4. \A m \in Nodes : OnTheLine(m)' = OnTheLine(m)
  BY <1>1 DEF OnTheLine
<1>5. at'[n]["reader"] \in {"callback", "echo", "count"}
        <=> at[n]["reader"] \in {"callback", "echo", "count"}
  BY <1>1, <1>2 DEF Threads
<1>6. Counted(n)' = Counted(n)
  BY <1>3, <1>5 DEF Counted
<1> QED  BY <1>1, <1>3, <1>4, <1>6, MoveUnseen

LEMMA CountUnseen ==
  ASSUME ThreadsInv, NEW n \in Nodes, Count(n)
  PROVE  UNCHANGED Link!vars
<1>1. /\ at[n]["reader"] = "count" /\ GoTo(n, "reader", "idle")
      /\ rxSeq' = [rxSeq EXCEPT ![n] = nextSeq(@)]
      /\ UNCHANGED <<connectState, txSeq, history, wire, users, budget, lock, mutex, frame, todo>>
  BY DEF Count
<1>2. at'[n]["reader"] = "idle"
  BY <1>1, MovedTo DEF Threads
<1>3. rxSeq'[n] = nextSeq(rxSeq[n]) /\ \A m \in Nodes : m # n => rxSeq'[m] = rxSeq[m]
  BY <1>1 DEF ThreadsInv, TypeOK
<1>4. \A m \in Nodes : OnTheLine(m)' = OnTheLine(m)
  BY <1>1 DEF OnTheLine
<1>5. Counted(n)' = Counted(n)
  BY <1>1, <1>2, <1>3 DEF Counted
<1> QED  BY <1>1, <1>3, <1>4, <1>5, MoveUnseen DEF Threads

LEMMA TakeFrameUnseen ==
  ASSUME ThreadsInv, NEW n \in Nodes, TakeFrame(n)
  PROVE  UNCHANGED Link!vars
<1> DEFINE w == wire[n]
<1>1. /\ at[n]["reader"] = "idle" /\ GoTo(n, "reader", "handle") /\ w # << >>
      /\ frame' = [frame EXCEPT ![n] = Head(w)] /\ wire' = [wire EXCEPT ![n] = Tail(w)]
      /\ UNCHANGED <<connectState, numbers, users, budget, lock, mutex, todo>>
  BY DEF TakeFrame
<1>2. at'[n]["reader"] = "handle"
  BY <1>1, MovedTo DEF Threads
<1>3. rxSeq' = rxSeq /\ txSeq' = txSeq /\ history' = history
  BY <1>1 DEF numbers
<1>4. /\ frame'[n] = Head(w) /\ wire'[n] = Tail(w) /\ w \in Seq(Link!Frames)
      /\ frame[n] = NoFrame
  BY <1>1 DEF ThreadsInv, TypeOK, Reading
<1>5. OnTheLine(n)' = OnTheLine(n)
  <2> HIDE DEF w
  <2>1. Head(w) \in Link!Frames
    BY <1>1, <1>4
  <2>2. Head(w) # NoFrame
    BY <2>1, FrameFields
  <2>3. OnTheLine(n)' = <<Head(w)>> \o Tail(w)
    BY <1>4, <2>2 DEF OnTheLine
  <2>4. OnTheLine(n) = << >> \o w
    BY <1>4 DEF OnTheLine, w
  <2>5. <<Head(w)>> \o Tail(w) = w /\ << >> \o w = w
    BY <1>1, <1>4
  <2> QED  BY <2>3, <2>4, <2>5
<1>6. \A m \in Nodes : m # n => OnTheLine(m)' = OnTheLine(m)
  BY <1>1 DEF OnTheLine, ThreadsInv, TypeOK
<1>7. \A m \in Nodes : OnTheLine(m)' = OnTheLine(m)
  BY <1>5, <1>6
<1>8. Counted(n)' = Counted(n)
  BY <1>1, <1>2, <1>3 DEF Counted
<1> QED  BY <1>1, <1>3, <1>7, <1>8, MoveUnseen DEF Threads

LEMMA OnTheLineType ==
  ASSUME TypeOK, NEW n \in Nodes
  PROVE  /\ (IF frame[n] = NoFrame THEN << >> ELSE <<frame[n]>>) \in Seq(Link!Frames)
         /\ wire[n] \in Seq(Link!Frames) /\ OnTheLine(n) \in Seq(Link!Frames)
<1> DEFINE h == IF frame[n] = NoFrame THEN << >> ELSE <<frame[n]>>
<1>1. h \in Seq(Link!Frames)
  <2>1. CASE frame[n] = NoFrame
    BY <2>1
  <2>2. CASE frame[n] # NoFrame
    <3>1. frame[n] \in Link!Frames
      BY <2>2 DEF TypeOK
    <3> QED  BY <2>2, <3>1
  <2> QED  BY <2>1, <2>2
<1>2. wire[n] \in Seq(Link!Frames)
  BY DEF TypeOK
<1>3. OnTheLine(n) = h \o wire[n]
  BY DEF OnTheLine
<1> HIDE DEF h
<1>4. h \o wire[n] \in Seq(Link!Frames)
  BY <1>1, <1>2
<1> QED  BY <1>1, <1>2, <1>3, <1>4 DEF h

\* A frame goes from the promises to the line.
LEMMA ProceedUnseen ==
  ASSUME ThreadsInv, NEW n \in Nodes, NEW t \in Threads, Proceed(n, t)
  PROVE  UNCHANGED Link!vars
<1> DEFINE p == Peer(n)
           s == todo[n][t]
           y == Transmitter(n)
           x == Do(y, Head(s))
<1>1. /\ s # << >> /\ todo' = [todo EXCEPT ![n][t] = Tail(s)]
      /\ connectState' = [connectState EXCEPT ![n] = x.state]
      /\ txSeq' = [txSeq EXCEPT ![n] = x.txSeq]
      /\ history' = [history EXCEPT ![n] = x.history]
      /\ wire' = [wire EXCEPT ![p] = @ \o x.out]
      /\ UNCHANGED <<rxSeq, users, budget, lock, mutex, at, frame>>
  BY DEF Proceed
<1>2. p \in Nodes /\ p # n /\ Peer(p) = n /\ \A m \in Nodes : m = n \/ m = p
  BY TwoNodes
<1>3. /\ s \in Seq(Steps) /\ Head(s) \in Steps /\ Tail(s) \in Seq(Steps)
  <2>1. s \in Seq(Steps)
    BY DEF ThreadsInv, TypeOK
  <2> HIDE DEF s
  <2> QED  BY <1>1, <2>1
<1>4. y \in Transmitters /\ x \in Transmitters
  BY <1>3, TransmitterType, DoType DEF ThreadsInv
<1>5. /\ connectState'[n] = x.state /\ txSeq'[n] = x.txSeq /\ history'[n] = x.history
      /\ wire'[p] = wire[p] \o x.out /\ wire'[n] = wire[n]
      /\ todo'[n][t] = Tail(s) /\ \A u \in Threads : u # t => todo'[n][u] = todo[n][u]
      /\ frame' = frame
  <2> HIDE DEF x, s
  <2> QED  BY <1>1, <1>2 DEF ThreadsInv, TypeOK
<1>6. \A u \in Threads : u # t => todo[n][u] = << >>
  <2>1. lock[n] = t
    BY <1>1 DEF ThreadsInv, Locking
  <2> QED  BY <2>1 DEF ThreadsInv, Locking
<1> HIDE DEF s
<1>7. Pending(n) = s /\ Pending(n)' = Tail(s)
  <2> DEFINE r == Tail(s)
  <2>1. r \in Seq(Steps)
    BY <1>3
  <2> HIDE DEF r
  <2>2. s \o << >> = s /\ << >> \o s = s /\ r \o << >> = r /\ << >> \o r = r
    BY <1>3, <2>1
  <2>3. CASE t = "reader"
    <3>1. todo[n]["reader"] = s /\ todo[n]["user"] = << >>
      BY <1>6, <2>3 DEF s, Threads
    <3>2. todo'[n]["reader"] = r /\ todo'[n]["user"] = << >>
      BY <1>5, <1>6, <2>3 DEF r, Threads
    <3> QED  BY <2>2, <3>1, <3>2 DEF Pending, r
  <2>4. CASE t = "user"
    <3>1. todo[n]["user"] = s /\ todo[n]["reader"] = << >>
      BY <1>6, <2>4 DEF s, Threads
    <3>2. todo'[n]["user"] = r /\ todo'[n]["reader"] = << >>
      BY <1>5, <1>6, <2>4 DEF r, Threads
    <3> QED  BY <2>2, <3>1, <3>2 DEF Pending, r
  <2> QED  BY <2>3, <2>4 DEF Threads
<1> DEFINE y2 == Txr(x.state, x.txSeq, x.history, << >>)
           z == DoAll(x, Tail(s))
           z2 == DoAll(y2, Tail(s))
<1>8. Transmitter(n)' = y2
  BY <1>5, TransmitterIs
<1>9. Promised(n) = z /\ Promised(n)' = z2
  <2>1. Promised(n) = DoAll(y, s)
    BY <1>7 DEF Promised
  <2>2. DoAll(y, s) = z
    BY <1>1, <1>3, DoAllFirst
  <2>3. Promised(n)' = z2
    BY <1>7, <1>8 DEF Promised
  <2> QED  BY <2>1, <2>2, <2>3
<1> DEFINE f == x.out
<1>10. f \in Seq(Link!Frames)
  <2> HIDE DEF x
  <2> QED  BY <1>4 DEF Transmitters
<1>11. After(f, x, y2)
  <2> HIDE DEF x
  <2>1. y2 \in Transmitters /\ y2.state = x.state /\ y2.txSeq = x.txSeq
        /\ y2.history = x.history /\ y2.out = << >>
    BY <1>4 DEF Transmitters, Txr
  <2> HIDE DEF y2, f
  <2>2. f \o << >> = f
    BY <1>10
  <2> QED  BY <1>4, <2>1, <2>2 DEF After, f
<1> HIDE DEF x, y2, f
<1>12. After(f, z, z2)
  BY <1>3, <1>10, <1>11, DoAllAfter
<1> HIDE DEF z, z2
<1>13. /\ z.state = z2.state /\ z.txSeq = z2.txSeq /\ z.history = z2.history
       /\ z.out = f \o z2.out /\ z2.out \in Seq(Link!Frames)
  BY <1>12 DEF After, Transmitters
<1>14. Promised(p)' = Promised(p)
  <2>1. connectState'[p] = connectState[p] /\ txSeq'[p] = txSeq[p] /\ history'[p] = history[p]
        /\ todo'[p] = todo[p]
    BY <1>1, <1>2 DEF ThreadsInv, TypeOK
  <2> QED  BY <2>1, PromisedSame
<1>15. LinkConnectState' = LinkConnectState /\ LinkTxSeq' = LinkTxSeq /\ LinkHistory' = LinkHistory
  <2>1. ASSUME NEW m \in Nodes
        PROVE  /\ (Promised(m)').state = Promised(m).state
               /\ (Promised(m)').txSeq = Promised(m).txSeq
               /\ (Promised(m)').history = Promised(m).history
    <3>1. CASE m = n
      BY <1>9, <1>13, <3>1
    <3>2. CASE m = p
      BY <1>14, <3>2
    <3> QED  BY <1>2, <3>1, <3>2
  <2> QED  BY <2>1, SamePromises
<1>16. LinkRxSeq' = LinkRxSeq
  <2>1. \A m \in Nodes : Counted(m)' = Counted(m)
    BY <1>1 DEF Counted
  <2> QED  BY <2>1, Views
<1>17. LinkWire' = LinkWire
  <2>1. OnTheLine(n)' = OnTheLine(n)
    BY <1>5 DEF OnTheLine
  <2>2. OnTheLine(n)' \o (Promised(p)').out = OnTheLine(n) \o Promised(p).out
    BY <1>14, <2>1
  <2>3. OnTheLine(p)' \o (Promised(n)').out = OnTheLine(p) \o Promised(n).out
    <3> DEFINE h == IF frame[p] = NoFrame THEN << >> ELSE <<frame[p]>>
               w == wire[p]
               o == z2.out
    <3>1. h \in Seq(Link!Frames) /\ w \in Seq(Link!Frames)
      BY <1>2, OnTheLineType DEF ThreadsInv
    <3>2. OnTheLine(p) = h \o w /\ OnTheLine(p)' = h \o (w \o f)
      BY <1>5 DEF OnTheLine, f
    <3>3. Promised(n).out = f \o o /\ (Promised(n)').out = o /\ o \in Seq(Link!Frames)
      BY <1>9, <1>13
    <3> HIDE DEF h, w, o
    <3>4. h \in Seq(Link!Frames) /\ w \in Seq(Link!Frames) /\ f \in Seq(Link!Frames)
          /\ o \in Seq(Link!Frames)
      BY <1>10, <3>1, <3>3
    <3>5. (h \o (w \o f)) \o o = (h \o w) \o (f \o o)
      <4>1. \A a, b, c \in Seq(Link!Frames) : a \o (b \o c) = (a \o b) \o c
        BY ConcatAssociative
      <4> DEFINE u == h \o w
      <4>2. u \in Seq(Link!Frames)
        BY <3>4
      <4>3. h \o (w \o f) = u \o f
        BY <3>4, <4>1
      <4> HIDE DEF u
      <4>4. (u \o f) \o o = u \o (f \o o)
        BY <3>4, <4>1, <4>2
      <4> QED  BY <4>3, <4>4 DEF u
    <3> QED  BY <3>2, <3>3, <3>5
  <2>4. ASSUME NEW m \in Nodes
        PROVE  OnTheLine(m)' \o (Promised(Peer(m))').out = OnTheLine(m) \o Promised(Peer(m)).out
    <3>1. CASE m = n
      BY <2>2, <3>1
    <3>2. CASE m = p
      <4>1. Peer(m) = n
        BY <1>2, <3>2
      <4> QED  BY <2>3, <3>2, <4>1
    <3> QED  BY <1>2, <3>1, <3>2
  <2> QED  BY <2>4, Views
<1> QED  BY <1>1, <1>15, <1>16, <1>17
         DEF Link!vars, Link!numbers, Link!users, Link!budget, users, budget

-----------------------------------------------------------------------------
(***************************************************************************)
(* Steps that consume a frame without the lock.                            *)
(***************************************************************************)
\* Transmitting data does not change connectState.
LEMMA DoAllUSR ==
  ASSUME NEW x \in Transmitters, NEW s \in Seq(Steps), \A i \in 1 .. Len(s) : s[i].type = "USR"
  PROVE  DoAll(x, s).state = x.state
<1> DEFINE n == Len(s)
<1>1. PICK g : StepByStep(x, s, g, n) /\ DoAll(x, s) = g[n]
  BY DoAllSteps
<1>2. n \in Nat /\ \A i \in 1 .. n : s[i] \in Steps /\ s[i].type = "USR"
  OBVIOUS
<1> HIDE DEF n
<1> DEFINE T == {i \in Nat : i <= n => g[i] \in Transmitters /\ g[i].state = x.state}
<1>3. 0 \in T
  <2>1. g[0] = x
    BY <1>1, <1>2 DEF StepByStep
  <2> QED  BY <2>1
<1>4. ASSUME NEW i \in Nat, i \in T PROVE i + 1 \in T
  <2> SUFFICES ASSUME i + 1 <= n
               PROVE  g[i + 1] \in Transmitters /\ g[i + 1].state = x.state
    OBVIOUS
  <2>1. i + 1 \in 1 .. n /\ i + 1 \in 0 .. n /\ i + 1 # 0 /\ (i + 1) - 1 = i /\ i <= n
    BY <1>2
  <2>2. g[i + 1] = Do(g[i], s[i + 1])
    BY <1>1, <2>1 DEF StepByStep
  <2>3. /\ g[i] \in Transmitters /\ g[i].state = x.state
        /\ s[i + 1] \in Steps /\ s[i + 1].type = "USR"
    BY <1>2, <1>4, <2>1
  <2>4. g[i + 1] \in Transmitters
    BY <2>2, <2>3, DoType
  <2> DEFINE y == g[i]
             step == s[i + 1]
  <2>5. y \in Transmitters /\ step.type = "USR"
    BY <2>3
  <2> HIDE DEF y, step
  <2>6. Do(y, step).state = y.state
    BY <2>5 DEF Do, IsData, Transmitters
  <2> QED  BY <2>2, <2>3, <2>4, <2>6 DEF y, step
<1>5. Nat \subseteq T
  <2> HIDE DEF T
  <2> QED  BY <1>3, <1>4, SetInduction
<1> QED  BY <1>1, <1>2, <1>5

\* While the reader compares, the user can at most be writing a packet: to
\* SFPLink, too, the end is connected.
LEMMA ComparesConnected ==
  ASSUME ThreadsInv, NEW n \in Nodes, at[n]["reader"] = "compare"
  PROVE  /\ LinkConnectState[n] = "CONNECTED"
         /\ frame[n].type \in {"USR", "RTX"} /\ frame[n] # NoFrame
<1>1. /\ connectState[n] = "CONNECTED" /\ frame[n].type \in {"USR", "RTX"}
      /\ lock[n] # "reader" /\ at[n]["user"] # "connect"
  BY DEF ThreadsInv, Locking, Reading
<1>2. CASE lock[n] = "free"
  BY <1>1, <1>2, PromisedFree, FrameRead
<1>3. CASE lock[n] = "user"
  <2> DEFINE s == todo[n]["user"]
  <2>1. s \in Seq(Steps) /\ todo[n]["reader"] = << >>
    <3>1. s \in Seq(Steps)
      BY DEF ThreadsInv, TypeOK, Threads
    <3>2. todo[n]["reader"] = << >>
      BY <1>1 DEF ThreadsInv, Locking, Threads
    <3> QED  BY <3>1, <3>2
  <2>2. \A i \in 1 .. Len(s) : s[i].type = "USR"
    BY <1>1, <1>3 DEF ThreadsInv, Locking, Writing
  <2> HIDE DEF s
  <2>3. << >> \o s = s
    BY <2>1
  <2>4. Pending(n) = s
    BY <2>1, <2>3 DEF Pending, s
  <2>5. Promised(n) = DoAll(Transmitter(n), s)
    BY <2>4 DEF Promised
  <2>6. Transmitter(n) \in Transmitters
    BY TransmitterType DEF ThreadsInv
  <2>7. DoAll(Transmitter(n), s).state = Transmitter(n).state
    BY <2>1, <2>2, <2>6, DoAllUSR
  <2>8. LinkConnectState[n] = connectState[n]
    BY <2>5, <2>7 DEF LinkConnectState, Transmitter
  <2> QED  BY <1>1, <2>8, FrameRead
<1> QED  BY <1>1, <1>2, <1>3 DEF ThreadsInv, TypeOK, Threads

\* The first frame on a line goes away, and nothing is promised.
LEMMA FirstGoes ==
  ASSUME ThreadsInv, ThreadsInv', NEW n \in Nodes, \A m \in Nodes : Promised(m)' = Promised(m),
         NEW f \in Link!Frames, NEW w \in Seq(Link!Frames),
         OnTheLine(n) = <<f>> \o w, OnTheLine(n)' = << >> \o w,
         \A m \in Nodes : m # n => OnTheLine(m)' = OnTheLine(m)
  PROVE  /\ LinkWire[n] # << >> /\ Head(LinkWire[n]) = f
         /\ Link!Consume(n, << >>)
         /\ UNCHANGED <<LinkConnectState, LinkTxSeq, LinkHistory>>
<1> DEFINE p == Peer(n)
           o == Promised(p).out
<1>1. p \in Nodes /\ p # n /\ Peer(p) = n /\ \A m \in Nodes : m = n \/ m = p
  BY TwoNodes
<1>2. o \in Seq(Link!Frames)
  BY <1>1, PromisedType DEF ThreadsInv
<1>3. LinkWire[n] = (<<f>> \o w) \o o /\ LinkWire'[n] = (<< >> \o w) \o o
  BY <1>1, Views
<1> HIDE DEF o
<1>4. LinkWire[n] # << >> /\ Head(LinkWire[n]) = f /\ LinkWire'[n] = Tail(LinkWire[n])
  <2>1. /\ (<<f>> \o w) \o o # << >> /\ Head((<<f>> \o w) \o o) = f
        /\ Tail((<<f>> \o w) \o o) = (<< >> \o w) \o o
    BY <1>2, HeadAndRest
  <2> QED  BY <1>3, <2>1
<1>5. LinkWire'[p] = LinkWire[p]
  BY <1>1, Views
<1>6. LinkWire \in [Nodes -> Seq(Link!Frames)]
  BY LinkTypes DEF ThreadsInv
<1>7. LinkWire' = [m \in Nodes |-> LinkWire'[m]]
  BY DEF LinkWire
<1>8. LinkWire' = [LinkWire EXCEPT ![n] = Tail(@), ![p] = @ \o << >>]
  <2> DEFINE v == LinkWire[p]
  <2>1. v \in Seq(Link!Frames)
    BY <1>1, <1>6
  <2> HIDE DEF v
  <2>2. v \o << >> = v
    BY <2>1
  <2>3. LinkWire'[p] = LinkWire[p] \o << >>
    BY <1>5, <2>2 DEF v
  <2> HIDE DEF p
  <2> QED  BY <1>1, <1>4, <1>6, <1>7, <2>3
<1>9. Link!Consume(n, << >>)
  BY <1>8, LinkPeer DEF Link!Consume
<1>10. UNCHANGED <<LinkConnectState, LinkTxSeq, LinkHistory>>
  BY SamePromises
<1> QED  BY <1>4, <1>9, <1>10

LEMMA IgnoreMaps ==
  ASSUME ThreadsInv, ThreadsInv', NEW n \in Nodes, IgnoreRetransmission(n)
  PROVE  Link!HandleFrame(n)
<1> DEFINE f == frame[n]
           w == wire[n]
<1>1. /\ at[n]["reader"] = "compare" /\ f.type = "RTX" /\ f.seq # rxSeq[n]
      /\ frame' = [frame EXCEPT ![n] = NoFrame] /\ GoTo(n, "reader", "idle")
      /\ UNCHANGED <<connectState, numbers, wire, users, budget, lock, mutex, todo>>
  BY DEF IgnoreRetransmission, Handles, Done
<1>2. LinkConnectState[n] = "CONNECTED" /\ f \in Link!Frames /\ f # NoFrame
  BY <1>1, ComparesConnected, FrameRead
<1>3. rxSeq' = rxSeq /\ txSeq' = txSeq /\ history' = history
  BY <1>1 DEF numbers
<1>4. \A m \in Nodes : Promised(m)' = Promised(m)
  BY <1>1, <1>3, PromisedSame
<1>5. frame'[n] = NoFrame /\ \A m \in Nodes : m # n => frame'[m] = frame[m]
  BY <1>1 DEF ThreadsInv, TypeOK
<1>6. /\ OnTheLine(n) = <<f>> \o w /\ OnTheLine(n)' = << >> \o w
      /\ \A m \in Nodes : m # n => OnTheLine(m)' = OnTheLine(m)
  <2>1. wire' = wire
    BY <1>1
  <2>2. OnTheLine(n) = <<f>> \o w
    BY <1>2 DEF OnTheLine
  <2>3. OnTheLine(n)' = << >> \o w
    BY <1>5, <2>1 DEF OnTheLine
  <2>4. \A m \in Nodes : m # n => OnTheLine(m)' = OnTheLine(m)
    BY <1>5, <2>1 DEF OnTheLine
  <2> HIDE DEF f, w
  <2> QED  BY <2>2, <2>3, <2>4
<1>7. w \in Seq(Link!Frames)
  BY DEF ThreadsInv, TypeOK
<1>8. LinkRxSeq[n] = rxSeq[n] /\ LinkRxSeq' = LinkRxSeq
  <2>1. at'[n]["reader"] = "idle" /\ \A m \in Nodes : m # n => at'[m] = at[m]
    BY <1>1 DEF GoTo, ThreadsInv, TypeOK, Threads
  <2>2. Counted(n) = rxSeq[n] /\ \A m \in Nodes : Counted(m)' = Counted(m)
    BY <1>1, <1>3, <2>1 DEF Counted
  <2> QED  BY <2>2, Views
<1> HIDE DEF f, w
<1>9. /\ LinkWire[n] # << >> /\ Head(LinkWire[n]) = f
      /\ Link!Consume(n, << >>)
      /\ UNCHANGED <<LinkConnectState, LinkTxSeq, LinkHistory>>
  BY <1>2, <1>4, <1>6, <1>7, FirstGoes
<1>10. Link!IgnoreRetransmission(n)
  BY <1>1, <1>2, <1>8, <1>9 DEF Link!IgnoreRetransmission, Link!Arrives,
            Link!numbers, Link!users, Link!budget, users, budget
<1> QED  BY <1>10 DEF Link!HandleFrame, Link!HandleUSR

LEMMA DeliverMaps ==
  ASSUME ThreadsInv, ThreadsInv', NEW n \in Nodes, Deliver(n)
  PROVE  Link!HandleFrame(n)
<1> DEFINE f == frame[n]
           w == wire[n]
           place == IF n \in Echoes THEN "callback" ELSE "count"
<1>1. /\ at[n]["reader"] = "compare" /\ f.seq = rxSeq[n]
      /\ delivered' = [delivered EXCEPT ![n] = Append(@, f.packet)]
      /\ frame' = [frame EXCEPT ![n] = NoFrame] /\ GoTo(n, "reader", place)
      /\ UNCHANGED <<connectState, numbers, wire, sent, base, budget, lock, mutex, todo>>
  BY DEF Deliver, DeliverIf, Done
<1>2. /\ LinkConnectState[n] = "CONNECTED" /\ f \in Link!Frames /\ f # NoFrame
      /\ f.type \in {"USR", "RTX"}
  BY <1>1, ComparesConnected, FrameRead
<1>3. rxSeq' = rxSeq /\ txSeq' = txSeq /\ history' = history
  BY <1>1 DEF numbers
<1>4. \A m \in Nodes : Promised(m)' = Promised(m)
  BY <1>1, <1>3, PromisedSame
<1>5. frame'[n] = NoFrame /\ \A m \in Nodes : m # n => frame'[m] = frame[m]
  BY <1>1 DEF ThreadsInv, TypeOK
<1>6. /\ OnTheLine(n) = <<f>> \o w /\ OnTheLine(n)' = << >> \o w
      /\ \A m \in Nodes : m # n => OnTheLine(m)' = OnTheLine(m)
  <2>1. wire' = wire
    BY <1>1
  <2>2. OnTheLine(n) = <<f>> \o w
    BY <1>2 DEF OnTheLine
  <2>3. OnTheLine(n)' = << >> \o w
    BY <1>5, <2>1 DEF OnTheLine
  <2>4. \A m \in Nodes : m # n => OnTheLine(m)' = OnTheLine(m)
    BY <1>5, <2>1 DEF OnTheLine
  <2> HIDE DEF f, w
  <2> QED  BY <2>2, <2>3, <2>4
<1>7. w \in Seq(Link!Frames)
  BY DEF ThreadsInv, TypeOK
<1>8. LinkRxSeq[n] = rxSeq[n] /\ LinkRxSeq' = [LinkRxSeq EXCEPT ![n] = nextSeq(@)]
  <2>1. at'[n]["reader"] \in {"callback", "count"} /\ \A m \in Nodes : m # n => at'[m] = at[m]
    BY <1>1 DEF GoTo, ThreadsInv, TypeOK, Threads
  <2>2. /\ Counted(n) = rxSeq[n] /\ Counted(n)' = nextSeq(rxSeq[n])
        /\ \A m \in Nodes : m # n => Counted(m)' = Counted(m)
    BY <1>1, <1>3, <2>1 DEF Counted
  <2> QED  BY <2>2, Views
<1> HIDE DEF f, w
<1>9. /\ LinkWire[n] # << >> /\ Head(LinkWire[n]) = f
      /\ Link!Consume(n, << >>)
      /\ UNCHANGED <<LinkConnectState, LinkTxSeq, LinkHistory>>
  BY <1>2, <1>4, <1>6, <1>7, FirstGoes
<1>10. Link!Deliver(n)
  <2>1. LinkRxSeq' = [LinkRxSeq EXCEPT ![n] = Link!nextSeq(@)]
    BY <1>8, SameOperators
  <2> QED  BY <1>1, <1>2, <1>8, <1>9, <2>1 DEF Link!Deliver, Link!Arrives, Link!budget, budget
<1> QED  BY <1>10 DEF Link!HandleFrame, Link!HandleUSR

LEMMA FaultMaps ==
  ASSUME ThreadsInv, ThreadsInv', NEW n \in Nodes, Fault(n)
  PROVE  Link!Fault(n)
<1> DEFINE w == wire[n]
           f == Head(w)
           r == Tail(w)
<1>1. /\ faults < MaxFaults /\ faults' = faults + 1
      /\ frame[n] = NoFrame /\ w # << >> /\ wire' = [wire EXCEPT ![n] = r]
      /\ UNCHANGED <<connectState, numbers, users, connects, inits, threads>>
  BY DEF Fault
<1>2. w \in Seq(Link!Frames) /\ wire'[n] = r /\ \A m \in Nodes : m # n => wire'[m] = wire[m]
  BY <1>1 DEF ThreadsInv, TypeOK
<1>3. UNCHANGED <<rxSeq, txSeq, history, lock, at, frame, todo>>
  BY <1>1 DEF numbers, threads
<1>4. \A m \in Nodes : Promised(m)' = Promised(m)
  BY <1>1, <1>3, PromisedSame
<1> HIDE DEF w
<1>5. f \in Link!Frames /\ r \in Seq(Link!Frames) /\ << >> \o w = w /\ w = <<f>> \o r
  BY <1>1, <1>2
<1> HIDE DEF f, r
<1>6. /\ OnTheLine(n) = <<f>> \o r /\ OnTheLine(n)' = << >> \o r
      /\ \A m \in Nodes : m # n => OnTheLine(m)' = OnTheLine(m)
  <2>1. OnTheLine(n) = << >> \o w
    BY <1>1 DEF OnTheLine, w
  <2>2. OnTheLine(n)' = << >> \o r
    BY <1>1, <1>2, <1>3 DEF OnTheLine
  <2>3. \A m \in Nodes : m # n => OnTheLine(m)' = OnTheLine(m)
    BY <1>2, <1>3 DEF OnTheLine
  <2> QED  BY <1>5, <2>1, <2>2, <2>3
<1>7. LinkRxSeq' = LinkRxSeq
  <2>1. \A m \in Nodes : Counted(m)' = Counted(m)
    BY <1>3 DEF Counted
  <2> QED  BY <2>1, Views
<1>8. /\ LinkWire[n] # << >> /\ Link!Consume(n, << >>)
      /\ UNCHANGED <<LinkConnectState, LinkTxSeq, LinkHistory>>
  BY <1>4, <1>5, <1>6, FirstGoes
<1> QED  BY <1>1, <1>7, <1>8 DEF Link!Fault, Link!numbers, Link!users, users

-----------------------------------------------------------------------------
(***************************************************************************)
(* Calls of the user.                                                      *)
(***************************************************************************)
\* What a call that gets the lock is going to transmit follows what is on the
\* wire.
LEMMA TakenWire ==
  ASSUME ThreadsInv, NEW n \in Nodes, lock[n] = "free", OnTheLine(Peer(n))' = OnTheLine(Peer(n)),
         NEW out \in Seq(Link!Frames), (Promised(n)').out = out
  PROVE  LinkWire'[Peer(n)] = LinkWire[Peer(n)] \o out
<1> DEFINE p == Peer(n)
           v == OnTheLine(p)
<1>1. p \in Nodes /\ Peer(p) = n
  BY TwoNodes
<1>2. Promised(n).out = << >>
  BY PromisedFree
<1>3. v \in Seq(Link!Frames)
  BY <1>1, OnTheLineType DEF ThreadsInv
<1>4. LinkWire[p] = v \o << >> /\ LinkWire'[p] = v \o out
  BY <1>1, <1>2, Views
<1> HIDE DEF v
<1>5. v \o << >> = v
  BY <1>3
<1> QED  BY <1>4, <1>5

LEMMA LastFrame ==
  ASSUME NEW w \in Seq(Link!Frames), NEW f \in Link!Frames
  PROVE  w \o <<f>> = Append(w, f)
  OBVIOUS

\* Writing a packet, from whichever thread.
LEMMA WriteMaps ==
  ASSUME ThreadsInv, ThreadsInv', NEW n \in Nodes, NEW t \in Threads, NEW place,
         WritePacket(n, t, place),
         \/ t = "reader" /\ at[n]["reader"] = "callback" /\ place = "echo"
         \/ t = "user" /\ place = "send"
  PROVE  Link!WritePacket(n)
<1> DEFINE k == sent[n] + 1
           steps == <<Data("USR", k)>>
           s == connectState[n]
           q == txSeq[n]
           h == history[n]
           f == DataFrame("USR", q, k)
           q2 == nextSeq(q)
           h2 == PushBack(h, k)
           out == <<f>>
           p == Peer(n)
<1>1. /\ sent[n] < MaxSent /\ lock[n] = "free"
      /\ todo' = [todo EXCEPT ![n][t] = steps] /\ GoTo(n, t, place)
      /\ sent' = [sent EXCEPT ![n] = @ + 1]
      /\ UNCHANGED <<connectState, numbers, wire, delivered, base, budget, mutex, frame>>
  BY DEF WritePacket, LockFor, Lock
<1>2. rxSeq' = rxSeq /\ txSeq' = txSeq /\ history' = history
  BY <1>1 DEF numbers
<1>3. sent[n] \in 0 .. MaxSent /\ k \in Packets
  <2>1. sent[n] \in 0 .. MaxSent
    BY DEF ThreadsInv, TypeOK
  <2> QED  BY <1>1, <2>1, BoundsAssumption DEF Packets
<1>4. s \in Link!ConnectStates /\ q \in Seqs /\ h \in Seq(Packets)
  BY EndTypes DEF ThreadsInv
<1>5. f \in Link!Frames /\ out \in Seq(Link!Frames)
  <2> HIDE DEF k, q
  <2>1. f \in Link!Frames
    BY <1>3, <1>4, SameOperators DEF DataFrame, Link!Frames, Packets
  <2> HIDE DEF f
  <2> QED  BY <2>1
<1>6. steps \in Seq(Steps)
  <2>1. Data("USR", k) \in Steps
    BY <1>3, StepsMade
  <2> QED  BY <2>1, ShortAnswers
<1>7. DoAll(Txr(s, q, h, << >>), steps) = Txr(s, q2, h2, out)
  BY DoWrite
<1> HIDE DEF steps
<1>8. Promised(n)' = Txr(s, q2, h2, out)
  <2>1. Promised(n)' = DoAll(Txr(connectState'[n], txSeq'[n], history'[n], << >>), steps)
    BY <1>1, <1>6, PromisedTaken
  <2> QED  BY <1>1, <1>2, <1>7, <2>1
<1>9. \A m \in Nodes : m # n => Promised(m)' = Promised(m)
  <2> SUFFICES ASSUME NEW m \in Nodes, m # n PROVE Promised(m)' = Promised(m)
    OBVIOUS
  <2>1. todo'[m] = todo[m]
    BY <1>1 DEF ThreadsInv, TypeOK
  <2> QED  BY <1>1, <1>2, <2>1, PromisedSame
<1>10. p \in Nodes /\ p # n /\ Peer(p) = n /\ \A m \in Nodes : m = n \/ m = p
  BY TwoNodes
<1>11. /\ LinkConnectState[n] = s /\ LinkTxSeq[n] = q /\ LinkHistory[n] = h
  BY <1>1, PromisedFree
<1> HIDE DEF q2, h2, out, f
<1>12. /\ LinkConnectState' = [LinkConnectState EXCEPT ![n] = s]
       /\ LinkTxSeq' = [LinkTxSeq EXCEPT ![n] = q2]
       /\ LinkHistory' = [LinkHistory EXCEPT ![n] = h2]
       /\ (Promised(n)').out = out
  <2> DEFINE x == Txr(s, q2, h2, out)
  <2>1. x.state = s /\ x.txSeq = q2 /\ x.history = h2 /\ x.out = out
    BY DEF Txr
  <2> HIDE DEF x
  <2>2. /\ LinkConnectState' = [LinkConnectState EXCEPT ![n] = x.state]
        /\ LinkTxSeq' = [LinkTxSeq EXCEPT ![n] = x.txSeq]
        /\ LinkHistory' = [LinkHistory EXCEPT ![n] = x.history]
    <3>1. Promised(n)' = x
      BY <1>8 DEF x
    <3> QED  BY <1>1, <1>9, <3>1, TakenViews
  <2> QED  BY <1>8, <2>1, <2>2 DEF x
<1>13. LinkConnectState' = LinkConnectState
  BY <1>11, <1>12, LinkTypes DEF ThreadsInv
<1>14. LinkRxSeq' = LinkRxSeq
  <2>1. at'[n][t] = place /\ \A u \in Threads : u # t => at'[n][u] = at[n][u]
    BY <1>1, MovedTo
  <2>2. \A m \in Nodes : m # n => at'[m] = at[m]
    BY <1>1 DEF GoTo, ThreadsInv, TypeOK
  <2>3. at'[n]["reader"] \in {"callback", "echo", "count"}
          <=> at[n]["reader"] \in {"callback", "echo", "count"}
    BY <2>1 DEF Threads
  <2>4. \A m \in Nodes : Counted(m)' = Counted(m)
    BY <1>2, <2>2, <2>3 DEF Counted
  <2> QED  BY <2>4, Views
<1>15. \A m \in Nodes : OnTheLine(m)' = OnTheLine(m)
  BY <1>1 DEF OnTheLine
<1>16. LinkWire' = [LinkWire EXCEPT ![p] = Append(@, f)]
  <2>1. LinkWire'[p] = LinkWire[p] \o out
    BY <1>1, <1>5, <1>10, <1>12, <1>15, TakenWire
  <2>2. LinkWire \in [Nodes -> Seq(Link!Frames)]
    BY LinkTypes DEF ThreadsInv
  <2>3. LinkWire[p] \o out = Append(LinkWire[p], f)
    BY <1>5, <1>10, <2>2, LastFrame DEF out
  <2>4. LinkWire'[n] = LinkWire[n]
    BY <1>9, <1>10, <1>15, Views
  <2>5. LinkWire' = [m \in Nodes |-> LinkWire'[m]]
    BY DEF LinkWire
  <2> HIDE DEF p
  <2> QED  BY <1>10, <2>1, <2>2, <2>3, <2>4, <2>5
<1>17. /\ LinkConnectState[n] \in {"DISCONNECTED", "SENT_SYN0", "SENT_SYN1", "CONNECTED"}
  BY <1>4, <1>11 DEF Link!ConnectStates
<1>18. /\ q2 = Link!nextSeq(LinkTxSeq[n]) /\ h2 = Link!PushBack(LinkHistory[n], sent[n] + 1)
       /\ f = Link!DataFrame("USR", LinkTxSeq[n], sent[n] + 1)
  BY <1>11, SameOperators DEF q2, h2, f
<1> HIDE DEF k
<1> QED  BY <1>1, <1>12, <1>13, <1>14, <1>16, <1>17, <1>18, LinkPeer
         DEF Link!WritePacket, Link!budget, budget

\* A receiver is reset: to SFPLink, what is on the line and what is promised
\* are one wire.
LEMMA ResetOfWire ==
  ASSUME NEW v \in Seq(Link!Frames), NEW o \in Seq(Link!Frames),
         NEW w \in Link!AfterReceiverReset(v)
  PROVE  w \o o \in Link!AfterReceiverReset(v \o o)
<1> DEFINE b == <<Link!Remnant>>
<1>1. b \in Seq(Link!Frames)
  BY DEF Link!Frames
<1> HIDE DEF b
<1>2. w = v \/ (v # << >> /\ w = Tail(v)) \/ (v # << >> /\ w = b \o Tail(v))
  BY DEF Link!AfterReceiverReset, b
<1>3. CASE w = v
  BY <1>3 DEF Link!AfterReceiverReset
<1>4. CASE v # << >>
  <2> DEFINE f == Head(v)
             r == Tail(v)
             u == v \o o
  <2>1. f \in Link!Frames /\ r \in Seq(Link!Frames) /\ v = <<f>> \o r /\ << >> \o r = r
    BY <1>4
  <2> HIDE DEF f, r
  <2>2. /\ (<<f>> \o r) \o o # << >>
        /\ Tail((<<f>> \o r) \o o) = (<< >> \o r) \o o
    BY <2>1, HeadAndRest
  <2>3. u # << >> /\ Tail(u) = r \o o
    BY <2>1, <2>2
  <2>4. (b \o r) \o o = b \o (r \o o)
    BY <1>1, <2>1, ConcatAssociative
  <2> HIDE DEF u
  <2>5. Link!AfterReceiverReset(u) = {u, Tail(u), b \o Tail(u)}
    BY <2>3 DEF Link!AfterReceiverReset, b
  <2>6. CASE w = r
    BY <2>3, <2>5, <2>6 DEF u
  <2>7. CASE w = b \o r
    BY <2>3, <2>4, <2>5, <2>7 DEF u
  <2> QED  BY <1>2, <1>3, <2>6, <2>7 DEF r
<1> QED  BY <1>2, <1>3, <1>4

\* What is left on the wire of an end whose receiver is reset.
LEMMA ResetLine ==
  ASSUME ThreadsInv, NEW n \in Nodes, frame[n] = NoFrame, frame'[n] = NoFrame,
         wire'[n] \in Link!AfterReceiverReset(wire[n]),
         Promised(Peer(n))' = Promised(Peer(n))
  PROVE  LinkWire'[n] \in Link!AfterReceiverReset(LinkWire[n])
<1> DEFINE v == wire[n]
           w == wire'[n]
           o == Promised(Peer(n)).out
<1>1. v \in Seq(Link!Frames) /\ o \in Seq(Link!Frames)
  BY TwoNodes, PromisedType DEF ThreadsInv, TypeOK
<1>2. w \in Link!AfterReceiverReset(v)
  OBVIOUS
<1>3. w \in Seq(Link!Frames)
  BY <1>1, <1>2, ResetWire
<1>4. LinkWire[n] = (<< >> \o v) \o o /\ LinkWire'[n] = (<< >> \o w) \o o
  BY LinkWireIs
<1> HIDE DEF v, w, o
<1>5. << >> \o v = v /\ << >> \o w = w
  BY <1>1, <1>3
<1>6. w \o o \in Link!AfterReceiverReset(v \o o)
  BY <1>1, <1>2, ResetOfWire
<1> QED  BY <1>4, <1>5, <1>6

LEMMA ConnectMaps ==
  ASSUME ThreadsInv, ThreadsInv', NEW n \in Nodes, Connect(n)
  PROVE  Link!Connect(n)
<1> DEFINE c == "SENT_SYN0"
           steps == <<SYN0, Entering(c)>>
           f == SYN0
           out == <<f>>
           p == Peer(n)
<1>1. /\ n \in Initiators /\ connects[n] < MaxConnects
      /\ at[n]["user"] = "idle" /\ at[n]["reader"] = "idle"
      /\ connects' = [connects EXCEPT ![n] = @ + 1]
      /\ lock[n] = "free" /\ todo' = [todo EXCEPT ![n]["user"] = steps]
      /\ GoTo(n, "user", "connect") /\ ResetNumbers(n)
      /\ UNCHANGED <<connectState, sent, delivered, inits, faults, mutex, frame>>
  BY DEF Connect, LockFor, Lock
<1>2. PICK w \in Link!AfterReceiverReset(wire[n]) : wire' = [wire EXCEPT ![n] = w]
  BY DEF Connect
<1>3. /\ rxSeq' = [rxSeq EXCEPT ![n] = InitialSeq]
      /\ txSeq'[n] = InitialSeq /\ history'[n] = << >>
      /\ base' = [base EXCEPT ![n] = sent[n]]
      /\ \A m \in Nodes : m # n => txSeq'[m] = txSeq[m] /\ history'[m] = history[m]
  BY <1>1 DEF ResetNumbers, ThreadsInv, TypeOK
<1>4. p \in Nodes /\ p # n /\ Peer(p) = n /\ \A m \in Nodes : m = n \/ m = p
  BY TwoNodes
<1>5. f \in Replies /\ f \in Steps /\ f \in Link!Frames /\ Entering(c) \in Steps
  BY ReplyTypes, StepsMade DEF Replies, Link!ConnectStates
<1> HIDE DEF c
<1>6. DoAll(Txr(connectState[n], InitialSeq, << >>, << >>), steps) = Txr(c, InitialSeq, << >>, out)
  BY <1>5, DoReplyAndEnter
<1>7. steps \in Seq(Steps) /\ out \in Seq(Link!Frames)
  <2> DEFINE e == Entering(c)
  <2>1. e \in Steps
    BY <1>5
  <2> HIDE DEF e, f
  <2>2. <<f, e>> \in Seq(Steps) /\ <<f>> \in Seq(Link!Frames)
    BY <1>5, <2>1
  <2> QED  BY <2>2 DEF e, f
<1> HIDE DEF steps, out, f
<1>8. Promised(n)' = Txr(c, InitialSeq, << >>, out)
  <2>1. Promised(n)' = DoAll(Txr(connectState'[n], txSeq'[n], history'[n], << >>), steps)
    BY <1>1, <1>7, PromisedTaken DEF Threads
  <2> QED  BY <1>1, <1>3, <1>6, <2>1
<1>9. \A m \in Nodes : m # n => Promised(m)' = Promised(m)
  <2> SUFFICES ASSUME NEW m \in Nodes, m # n PROVE Promised(m)' = Promised(m)
    OBVIOUS
  <2>1. todo'[m] = todo[m]
    BY <1>1 DEF ThreadsInv, TypeOK
  <2> QED  BY <1>1, <1>3, <2>1, PromisedSame
<1>10. /\ LinkConnectState' = [LinkConnectState EXCEPT ![n] = c]
       /\ LinkTxSeq' = [LinkTxSeq EXCEPT ![n] = InitialSeq]
       /\ LinkHistory' = [LinkHistory EXCEPT ![n] = << >>]
       /\ (Promised(n)').out = out
  <2> DEFINE x == Txr(c, InitialSeq, << >>, out)
  <2>1. x.state = c /\ x.txSeq = InitialSeq /\ x.history = << >> /\ x.out = out
    BY DEF Txr
  <2>2. Promised(n)' = x
    BY <1>8
  <2> HIDE DEF x
  <2>3. /\ LinkConnectState' = [LinkConnectState EXCEPT ![n] = x.state]
        /\ LinkTxSeq' = [LinkTxSeq EXCEPT ![n] = x.txSeq]
        /\ LinkHistory' = [LinkHistory EXCEPT ![n] = x.history]
    BY <1>1, <1>9, <2>2, TakenViews
  <2> QED  BY <2>1, <2>2, <2>3
<1>11. LinkRxSeq' = [LinkRxSeq EXCEPT ![n] = InitialSeq]
  <2>1. at'[n]["reader"] = "idle"
    BY <1>1, MovedTo DEF Threads
  <2>2. \A m \in Nodes : m # n => at'[m] = at[m] /\ rxSeq'[m] = rxSeq[m]
    BY <1>1, <1>3 DEF GoTo, ThreadsInv, TypeOK
  <2>3. rxSeq'[n] = InitialSeq
    BY <1>3 DEF ThreadsInv, TypeOK
  <2>4. Counted(n)' = InitialSeq /\ \A m \in Nodes : m # n => Counted(m)' = Counted(m)
    BY <2>1, <2>2, <2>3 DEF Counted
  <2> QED  BY <2>4, Views
<1>12. wire'[n] = w /\ wire'[p] = wire[p] /\ frame' = frame /\ frame[n] = NoFrame
  <2>1. wire'[n] = w /\ wire'[p] = wire[p]
    BY <1>2, <1>4 DEF ThreadsInv, TypeOK
  <2>2. frame[n] = NoFrame
    BY <1>1 DEF ThreadsInv, Reading
  <2>3. frame' = frame
    BY <1>1
  <2> QED  BY <2>1, <2>2, <2>3
<1> DEFINE v == LinkWire'[n]
<1>13. v \in Link!AfterReceiverReset(LinkWire[n])
  BY <1>4, <1>9, <1>12, ResetLine
<1>14. LinkWire' = [LinkWire EXCEPT ![n] = v, ![p] = Append(@, f)]
  <2>1. OnTheLine(p)' = OnTheLine(p)
    BY <1>12 DEF OnTheLine
  <2>2. LinkWire'[p] = LinkWire[p] \o out
    BY <1>1, <1>7, <1>10, <2>1, TakenWire
  <2>3. LinkWire \in [Nodes -> Seq(Link!Frames)]
    BY LinkTypes DEF ThreadsInv
  <2>4. LinkWire[p] \o out = Append(LinkWire[p], f)
    BY <1>4, <1>5, <2>3, LastFrame DEF out, f
  <2>5. LinkWire' = [m \in Nodes |-> LinkWire'[m]]
    BY DEF LinkWire
  <2> HIDE DEF p
  <2> QED  BY <1>4, <2>2, <2>3, <2>4, <2>5
<1> HIDE DEF v
<1>15. \E u \in Link!AfterReceiverReset(LinkWire[n]) :
         LinkWire' = [LinkWire EXCEPT ![n] = u, ![Link!Peer(n)] = Append(@, Link!SYN0)]
  BY <1>13, <1>14, LinkPeer DEF f, SYN0
<1>16. Link!ResetNumbers(n) /\ Link!Enter(n, "SENT_SYN0")
  BY <1>3, <1>10, <1>11, SameOperators DEF Link!ResetNumbers, Link!Enter, c
<1> QED  BY <1>1, <1>15, <1>16 DEF Link!Connect

LEMMA ReinitMaps ==
  ASSUME ThreadsInv, ThreadsInv', NEW n \in Nodes, Reinit(n)
  PROVE  Link!Reinit(n)
<1> DEFINE c == "DISCONNECTED"
           h == history[n]
           p == Peer(n)
<1>1. /\ inits < MaxInits /\ inits' = inits + 1
      /\ at[n]["user"] = "idle" /\ at[n]["reader"] = "idle"
      /\ connectState' = [connectState EXCEPT ![n] = c]
      /\ rxSeq' = [rxSeq EXCEPT ![n] = InitialSeq]
      /\ txSeq' = [txSeq EXCEPT ![n] = InitialSeq]
      /\ base' = [base EXCEPT ![n] = sent[n]]
      /\ UNCHANGED <<history, sent, delivered, connects, faults, threads>>
  BY DEF Reinit, Threads
<1>2. PICK w \in Link!AfterReceiverReset(wire[n]) : wire' = [wire EXCEPT ![n] = w]
  BY DEF Reinit
<1>3. UNCHANGED <<lock, at, frame, todo>>
  BY <1>1 DEF threads
<1>4. p \in Nodes /\ p # n /\ Peer(p) = n /\ \A m \in Nodes : m = n \/ m = p
  BY TwoNodes
<1>5. lock[n] = "free"
  BY <1>1 DEF ThreadsInv, TypeOK, Locking, Threads
<1> HIDE DEF c
<1>6. /\ connectState'[n] = c /\ txSeq'[n] = InitialSeq /\ rxSeq'[n] = InitialSeq
      /\ \A m \in Nodes : m # n => /\ connectState'[m] = connectState[m] /\ txSeq'[m] = txSeq[m]
                                   /\ rxSeq'[m] = rxSeq[m]
  BY <1>1 DEF ThreadsInv, TypeOK
<1>7. Promised(n)' = Txr(c, InitialSeq, h, << >>)
  <2>1. Pending(n) = << >>
    BY <1>5, FreeLock DEF Pending
  <2>2. Pending(n)' = << >>
    BY <1>3, <2>1 DEF Pending
  <2>3. Transmitter(n)' = Txr(c, InitialSeq, h, << >>)
    BY <1>1, <1>6, TransmitterIs
  <2> QED  BY <2>2, <2>3, DoAllNone DEF Promised
<1>8. \A m \in Nodes : m # n => Promised(m)' = Promised(m)
  BY <1>1, <1>3, <1>6, PromisedSame
<1>9. LinkHistory[n] = h /\ Promised(n).out = << >>
  BY <1>5, PromisedFree
<1> HIDE DEF h
<1>10. /\ LinkConnectState' = [LinkConnectState EXCEPT ![n] = c]
       /\ LinkTxSeq' = [LinkTxSeq EXCEPT ![n] = InitialSeq]
       /\ LinkHistory' = [LinkHistory EXCEPT ![n] = h]
       /\ (Promised(n)').out = << >>
  <2> DEFINE x == Txr(c, InitialSeq, h, << >>)
  <2>1. x.state = c /\ x.txSeq = InitialSeq /\ x.history = h /\ x.out = << >>
    BY DEF Txr
  <2>2. Promised(n)' = x
    BY <1>7
  <2> HIDE DEF x
  <2>3. /\ LinkConnectState' = [LinkConnectState EXCEPT ![n] = x.state]
        /\ LinkTxSeq' = [LinkTxSeq EXCEPT ![n] = x.txSeq]
        /\ LinkHistory' = [LinkHistory EXCEPT ![n] = x.history]
    BY <1>5, <1>8, <2>2, TakenViews
  <2> QED  BY <2>1, <2>2, <2>3
<1>11. LinkHistory' = LinkHistory
  BY <1>9, <1>10, LinkTypes DEF ThreadsInv
<1>12. LinkRxSeq' = [LinkRxSeq EXCEPT ![n] = InitialSeq]
  <2>1. Counted(n)' = InitialSeq /\ \A m \in Nodes : m # n => Counted(m)' = Counted(m)
    BY <1>1, <1>3, <1>6 DEF Counted
  <2> QED  BY <2>1, Views
<1>13. wire'[n] = w /\ wire'[p] = wire[p] /\ frame' = frame /\ frame[n] = NoFrame
  <2>1. wire'[n] = w /\ wire'[p] = wire[p]
    BY <1>2, <1>4 DEF ThreadsInv, TypeOK
  <2>2. frame[n] = NoFrame
    BY <1>1 DEF ThreadsInv, Reading
  <2>3. frame' = frame
    BY <1>3
  <2> QED  BY <2>1, <2>2, <2>3
<1> DEFINE v == LinkWire'[n]
<1>14. v \in Link!AfterReceiverReset(LinkWire[n])
  BY <1>4, <1>8, <1>13, ResetLine
<1>15. LinkWire' = [LinkWire EXCEPT ![n] = v]
  <2>1. OnTheLine(p)' = OnTheLine(p)
    BY <1>13 DEF OnTheLine
  <2>2. LinkWire'[p] = LinkWire[p]
    BY <1>4, <1>9, <1>10, <2>1, Views
  <2>3. LinkWire \in [Nodes -> Seq(Link!Frames)]
    BY LinkTypes DEF ThreadsInv
  <2>4. LinkWire' = [m \in Nodes |-> LinkWire'[m]]
    BY DEF LinkWire
  <2> HIDE DEF p
  <2> QED  BY <1>4, <2>2, <2>3, <2>4
<1> HIDE DEF v
<1>16. \E u \in Link!AfterReceiverReset(LinkWire[n]) : LinkWire' = [LinkWire EXCEPT ![n] = u]
  BY <1>14, <1>15
<1> QED  BY <1>1, <1>10, <1>11, <1>12, <1>16, SameOperators DEF Link!Reinit, Link!Enter, c

-----------------------------------------------------------------------------
(***************************************************************************)
(* Every step is one of SFPLink's, or none.                                *)
(***************************************************************************)
LEMMA FrameStepMaps ==
  ASSUME ThreadsInv, ThreadsInv', NEW n \in Nodes, HandleFrame(n)
  PROVE  Link!HandleFrame(n) \/ Link!WritePacket(n) \/ UNCHANGED Link!vars
<1>1. CASE HandleSYN0(n) \/ HandleSYN1(n) \/ HandleSYN2(n) \/ HandleDIS(n)
  BY <1>1, SYNMaps
<1>2. CASE HandleNAK(n)
  BY <1>2, NAKMaps
<1>3. CASE HandleRemnant(n) \/ RejectOutOfOrder(n)
  BY <1>3, RejectMaps
<1>4. CASE HandleUSR(n) /\ connectState[n] = "CONNECTED"
  BY <1>4, LooksUnseen
<1>5. CASE HandleUSR(n) /\ connectState[n] # "CONNECTED"
  <2>1. at[n]["reader"] = "handle" /\ frame[n].type \in {"USR", "RTX", "NAK"} /\ Rebuff(n)
    BY <1>5 DEF HandleUSR, Handles
  <2> QED  BY <1>5, <2>1, RebuffFrameMaps
<1>6. CASE IgnoreRetransmission(n)
  BY <1>6, IgnoreMaps
<1>7. CASE Deliver(n)
  BY <1>7, DeliverMaps
<1>8. CASE SendBack(n)
  <2>1. at[n]["reader"] = "callback" /\ WritePacket(n, "reader", "echo")
    BY <1>8 DEF SendBack
  <2> QED  BY <2>1, WriteMaps DEF Threads
<1>9. CASE Count(n)
  BY <1>9, CountUnseen
<1> QED  BY <1>1, <1>2, <1>3, <1>4, <1>5, <1>6, <1>7, <1>8, <1>9 DEF HandleFrame

LEMMA StepMaps ==
  ASSUME ThreadsInv, ThreadsInv', [Next]_vars
  PROVE  [Link!Next]_(Link!vars)
<1>1. CASE Next
  <2>1. PICK n \in Nodes :
          \/ TakeFrame(n) \/ HandleFrame(n)
          \/ Connect(n) \/ Reinit(n) \/ SetOut(n) \/ SendMessage(n)
          \/ \E t \in Threads : Holding(n, t)
          \/ Fault(n)
    BY <1>1 DEF Next
  <2> SUFFICES \/ Link!HandleFrame(n) \/ Link!UserCall(n) \/ Link!Fault(n)
               \/ UNCHANGED Link!vars
    BY DEF Link!Next
  <2>2. CASE TakeFrame(n)
    BY <2>2, TakeFrameUnseen
  <2>3. CASE HandleFrame(n)
    BY <2>3, FrameStepMaps DEF Link!UserCall
  <2>4. CASE Connect(n)
    BY <2>4, ConnectMaps DEF Link!UserCall
  <2>5. CASE Reinit(n)
    BY <2>5, ReinitMaps DEF Link!UserCall
  <2>6. CASE SetOut(n)
    BY <2>6, SetOutUnseen
  <2>7. CASE SendMessage(n)
    <3>1. WritePacket(n, "user", "send")
      BY <2>7 DEF SendMessage
    <3> QED  BY <3>1, WriteMaps DEF Link!UserCall, Threads
  <2>8. CASE \E t \in Threads : Holding(n, t)
    BY <2>8, ProceedUnseen, UnlockUnseen DEF Holding
  <2>9. CASE Fault(n)
    BY <2>9, FaultMaps
  <2> QED  BY <2>1, <2>2, <2>3, <2>4, <2>5, <2>6, <2>7, <2>8, <2>9
<1>2. CASE UNCHANGED vars
  <2>1. UNCHANGED <<connectState, rxSeq, txSeq, history, wire, users, budget, at, frame, todo>>
    BY <1>2 DEF vars, numbers, threads
  <2>2. \A m \in Nodes : Promised(m)' = Promised(m)
    BY <2>1, PromisedSame
  <2>3. \A m \in Nodes : OnTheLine(m)' = OnTheLine(m)
    BY <2>1 DEF OnTheLine
  <2>4. \A m \in Nodes : Counted(m)' = Counted(m)
    BY <2>1 DEF Counted
  <2> QED  BY <2>1, <2>2, <2>3, <2>4, Unseen
<1> QED  BY <1>1, <1>2

LEMMA InitMaps == Init => Link!Init
<1> SUFFICES ASSUME Init PROVE Link!Init
  OBVIOUS
<1>1. /\ connectState = [n \in Nodes |-> "DISCONNECTED"]
      /\ rxSeq = [n \in Nodes |-> InitialSeq] /\ txSeq = [n \in Nodes |-> InitialSeq]
      /\ history = [n \in Nodes |-> << >>] /\ wire = [n \in Nodes |-> << >>]
      /\ at = [n \in Nodes |-> [t \in Threads |-> "idle"]]
      /\ frame = [n \in Nodes |-> NoFrame] /\ lock = [n \in Nodes |-> "free"]
  BY DEF Init
<1>2. ThreadsInv
  BY InitThreads
<1>3. \A n \in Nodes : /\ Promised(n).state = "DISCONNECTED" /\ Promised(n).txSeq = InitialSeq
                       /\ Promised(n).history = << >> /\ Promised(n).out = << >>
  <2> SUFFICES ASSUME NEW n \in Nodes
               PROVE  /\ Promised(n).state = "DISCONNECTED" /\ Promised(n).txSeq = InitialSeq
                      /\ Promised(n).history = << >> /\ Promised(n).out = << >>
    OBVIOUS
  <2>1. lock[n] = "free"
    BY <1>1
  <2>2. Promised(n) = Transmitter(n)
    BY <1>2, <2>1, PromisedFree
  <2> QED  BY <1>1, <2>2 DEF Transmitter
<1>4. /\ LinkConnectState = [n \in Nodes |-> "DISCONNECTED"]
      /\ LinkTxSeq = [n \in Nodes |-> InitialSeq]
      /\ LinkHistory = [n \in Nodes |-> << >>]
  BY <1>3 DEF LinkConnectState, LinkTxSeq, LinkHistory
<1>5. LinkRxSeq = [n \in Nodes |-> InitialSeq]
  BY <1>1 DEF LinkRxSeq, Threads
<1>6. LinkWire = [n \in Nodes |-> << >>]
  <2>1. \A n \in Nodes : OnTheLine(n) \o Promised(Peer(n)).out = << >>
    <3> TAKE n \in Nodes
    <3>1. OnTheLine(n) = << >> \o << >>
      BY <1>1 DEF OnTheLine
    <3>2. << >> \o << >> = << >>
      OBVIOUS
    <3>3. Promised(Peer(n)).out = << >>
      BY <1>3, TwoNodes
    <3> QED  BY <3>1, <3>2, <3>3
  <2> QED  BY <2>1, Views
<1> QED  BY <1>4, <1>5, <1>6, SameOperators DEF Init, Link!Init, Link!InitIn

(***************************************************************************)
(* Whatever the two threads of an end do at the same time, it looks to the *)
(* other end and to the users as if every call into libsfp were one step:  *)
(* SFPThreads implements SFPLink, whatever the numbers of packets, resets  *)
(* and faults, the size of the numbering and of the history.  The locks of *)
(* sfpHandleUSR, which lets go of the transmitter while the callback runs, *)
(* are enough.                                                             *)
(***************************************************************************)
THEOREM CallsLookAtomic == Spec => CallsAreAtomic
<1>1. ThreadsInv /\ ThreadsInv' /\ [Next]_vars => [Link!Next]_(Link!vars)
  BY StepMaps
<1> QED  BY <1>1, LocksSuffice, InitMaps, PTL DEF Spec, CallsAreAtomic, Link!Spec

-----------------------------------------------------------------------------
(***************************************************************************)
(* What is proved of SFPLink holds of SFPThreads.                          *)
(***************************************************************************)
Linked == INSTANCE SFPLinkProofs WITH
  WriteStates <- {"DISCONNECTED", "SENT_SYN0", "SENT_SYN1", "CONNECTED"},
  connectState <- LinkConnectState, rxSeq <- LinkRxSeq, txSeq <- LinkTxSeq,
  history <- LinkHistory, wire <- LinkWire

LEMMA LinkedIsLink ==
  /\ Link!Init <=> Linked!Init
  /\ [Link!Next]_(Link!vars) <=> [Linked!Next]_(Linked!vars)
<1>1. Link!Init <=> Linked!Init
  BY DEF Link!Init, Linked!Init, Link!InitIn, Linked!InitIn, Link!InitialSeq, Linked!InitialSeq
<1>2. UNCHANGED Link!vars <=> UNCHANGED Linked!vars
  BY DEF Link!vars, Linked!vars, Link!numbers, Linked!numbers, Link!users, Linked!users,
         Link!budget, Linked!budget
<1>3. Link!Next <=> Linked!Next
  BY DEF Link!nextSeq, Linked!nextSeq, Link!DataFrame, Linked!DataFrame, Link!PushBack,
     Linked!PushBack, Link!KeptHistory, Linked!KeptHistory, Link!Underrun, Linked!Underrun,
     Link!FastForward, Linked!FastForward, Link!SeqAfter, Linked!SeqAfter, Link!Retransmissions,
     Linked!Retransmissions, Link!InitialSeq, Linked!InitialSeq, Link!SYN0, Linked!SYN0,
     Link!SYN1, Linked!SYN1, Link!SYN2, Linked!SYN2, Link!DIS, Linked!DIS, Link!Remnant,
     Linked!Remnant, Link!NAK, Linked!NAK, Link!Peer, Linked!Peer, Link!vars, Linked!vars,
     Link!numbers, Linked!numbers, Link!users, Linked!users, Link!budget, Linked!budget,
     Link!Rebuff, Linked!Rebuff, Link!AfterReceiverReset, Linked!AfterReceiverReset,
     Link!Consume, Linked!Consume, Link!Enter, Linked!Enter, Link!ResetNumbers,
     Linked!ResetNumbers, Link!Arrives, Linked!Arrives, Link!ArrivesSYN, Linked!ArrivesSYN,
     Link!ConsumeAndTransmitHistoryFrom, Linked!ConsumeAndTransmitHistoryFrom,
     Link!BecomeConnected, Linked!BecomeConnected, Link!HandleSYN0, Linked!HandleSYN0,
     Link!HandleSYN1, Linked!HandleSYN1, Link!HandleSYN2, Linked!HandleSYN2, Link!SYN2AfterSYN0,
     Linked!SYN2AfterSYN0, Link!HandleDIS, Linked!HandleDIS, Link!SYNWhileDisconnected,
     Linked!SYNWhileDisconnected, Link!IgnoreNAK, Linked!IgnoreNAK, Link!AnswerNAK,
     Linked!AnswerNAK, Link!Deliver, Linked!Deliver, Link!RejectOutOfOrder,
     Linked!RejectOutOfOrder, Link!IgnoreRetransmission, Linked!IgnoreRetransmission,
     Link!RebuffFrame, Linked!RebuffFrame, Link!RejectRemnant, Linked!RejectRemnant, Link!Fault,
     Linked!Fault, Link!Connect, Linked!Connect, Link!Reinit, Linked!Reinit, Link!WritePacket,
     Linked!WritePacket, Link!HandleFrame, Linked!HandleFrame, Link!HandleSYN, Linked!HandleSYN,
     Link!HandleNAK, Linked!HandleNAK, Link!HandleUSR, Linked!HandleUSR, Link!UserCall,
     Linked!UserCall, Link!Next, Linked!Next
<1> QED  BY <1>1, <1>2, <1>3

\* Nobody at n is in the middle of a call, and no frame is on its way to it.
Idle(n) == lock[n] = "free" /\ frame[n] = NoFrame /\ wire[n] = << >>

(***************************************************************************)
(* On a medium without faults the ends never disagree for good, although   *)
(* each has two threads: once nothing is in flight and both transmitters   *)
(* are free, both are connected or both are not, for any number of calls   *)
(* of sfpConnect and sfpWritePacket, whenever they come.                   *)
(***************************************************************************)
EndsAgree ==
  (\A n \in Nodes : Idle(n)) /\ inits + faults = 0 =>
    \/ \A n \in Nodes : connectState[n] = "CONNECTED"
    \/ \A n \in Nodes : connectState[n] = "DISCONNECTED"

THEOREM ThreadsAgree == Spec => []EndsAgree
<1>1. ThreadsInv /\ Linked!QuietAgreement => EndsAgree
  <2> SUFFICES ASSUME ThreadsInv, Linked!QuietAgreement, \A n \in Nodes : Idle(n),
                      inits + faults = 0
               PROVE  \/ \A n \in Nodes : connectState[n] = "CONNECTED"
                      \/ \A n \in Nodes : connectState[n] = "DISCONNECTED"
    BY DEF EndsAgree
  <2>1. \A n \in Nodes : LinkConnectState[n] = connectState[n] /\ Promised(n).out = << >>
    BY PromisedFree DEF Idle
  <2>2. \A n \in Nodes : LinkWire[n] = << >>
    <3> TAKE n \in Nodes
    <3>1. OnTheLine(n) = << >> \o << >> /\ Promised(Peer(n)).out = << >>
      BY <2>1, TwoNodes DEF OnTheLine, Idle
    <3>2. << >> \o << >> = << >>
      OBVIOUS
    <3>3. LinkWire[n] = OnTheLine(n) \o Promised(Peer(n)).out
      BY Views
    <3> QED  BY <3>1, <3>2, <3>3
  <2> QED  BY <2>1, <2>2 DEF Linked!QuietAgreement, Linked!Quiet, Linked!Clean,
                            Linked!AllConnected, Linked!AllDisconnected, Linked!Connected
<1>2. Linked!Spec => []Linked!QuietAgreement
  BY Linked!Agreement, NodesAssumption, BoundsAssumption, SynAssumption,
     SeqRangeAssumption, HistoryAssumption, PTL
<1>3. Link!Spec => Linked!Spec
  BY LinkedIsLink, PTL DEF Link!Spec, Linked!Spec
<1> QED  BY <1>1, <1>2, <1>3, LocksSuffice, CallsLookAtomic, PTL DEF CallsAreAtomic

-----------------------------------------------------------------------------
(***************************************************************************)
(* Messages that are sent back, over one connection.                       *)
(***************************************************************************)
\* What thread t of n is going to enter.
Enters(n, t, state) ==
  \E i \in 1 .. Len(todo[n][t]) : todo[n][t][i] = Entering(state)

\* n is connected or about to be, or on its way to sfpWritePacket.
MayWrite(n) ==
  \/ connectState[n] = "CONNECTED" \/ \E t \in Threads : Enters(n, t, "CONNECTED")
  \/ at[n]["user"] = "call" \/ at[n]["reader"] = "callback"

\* n writes what is delivered to it, after that, and nothing else.
OnlyEchoes(n) ==
  /\ at[n]["user"] \notin {"call", "send"}
  /\ sent[n] + (IF at[n]["reader"] = "callback" THEN 1 ELSE 0) <= Len(delivered[n])

EchoInv(c) ==
  /\ Linked!OneConnectionInv(c)
  /\ \A n \in Nodes : MayWrite(n) => Linked!Ready(c, n)
  /\ \A n \in Nodes \ Senders : OnlyEchoes(n)

\* What a step of n does for EchoInv.
EchoStep(n) ==
  /\ MayWrite(n)' => MayWrite(n) \/ LinkConnectState'[n] = "CONNECTED"
  /\ n \notin Senders /\ OnlyEchoes(n) => OnlyEchoes(n)'
  /\ sent'[n] # sent[n] => MayWrite(n)
  /\ inits' # inits => Reinit(n) /\ ~ MayWrite(n)'
  /\ \A m \in Nodes : m # n =>
       /\ at'[m] = at[m] /\ todo'[m] = todo[m] /\ connectState'[m] = connectState[m]
       /\ sent'[m] = sent[m] /\ delivered'[m] = delivered[m]

-----------------------------------------------------------------------------
\* A reader that answers its frame becomes connected or does not.
LEMMA AnswerEchoes ==
  ASSUME ThreadsInv, NEW n \in Nodes, NEW steps, Answer(n, steps),
         \/ LinkConnectState'[n] = "CONNECTED"
         \/ \A i \in 1 .. Len(steps) : steps[i] # Entering("CONNECTED")
  PROVE  EchoStep(n)
<1>1. /\ todo' = [todo EXCEPT ![n]["reader"] = steps]
      /\ at' = [at EXCEPT ![n]["reader"] = "answer"]
      /\ UNCHANGED <<connectState, sent, delivered, inits>>
  BY DEF Answer, LockFor, GoTo, budget
<1>2. /\ at'[n]["reader"] = "answer" /\ at'[n]["user"] = at[n]["user"]
      /\ todo'[n]["reader"] = steps /\ todo'[n]["user"] = todo[n]["user"]
      /\ \A m \in Nodes : m # n => at'[m] = at[m] /\ todo'[m] = todo[m]
  BY <1>1 DEF ThreadsInv, TypeOK, Threads
<1>3. MayWrite(n)' => MayWrite(n) \/ LinkConnectState'[n] = "CONNECTED"
  BY <1>1, <1>2 DEF MayWrite, Enters, Threads
<1>4. OnlyEchoes(n) => OnlyEchoes(n)'
  <2>1. sent[n] \in Nat /\ Len(delivered[n]) \in Nat
    BY DEF ThreadsInv, TypeOK
  <2> QED  BY <1>1, <1>2, <2>1 DEF OnlyEchoes
<1> QED  BY <1>1, <1>2, <1>3, <1>4 DEF EchoStep

\* What a reader answers to its frame.
LEMMA AnswersMade ==
  ASSUME ThreadsInv, ThreadsInv', NEW n \in Nodes,
         \/ HandleSYN0(n) \/ HandleSYN1(n) \/ HandleSYN2(n) \/ HandleDIS(n)
         \/ HandleNAK(n) \/ HandleRemnant(n) \/ RejectOutOfOrder(n)
         \/ HandleUSR(n) /\ connectState[n] # "CONNECTED"
  PROVE  EchoStep(n)
<1> DEFINE c == "CONNECTED"
<1>1. ASSUME Rebuff(n), connectState[n] # c PROVE EchoStep(n)
  <2> DEFINE f == Link!Rebuff(connectState[n])
  <2>1. f \in {SYN0, SYN1, DIS}
    BY <1>1, StepsMade, EndTypes DEF ThreadsInv
  <2>2. f.type = "SYN"
    BY <2>1 DEF SYN0, SYN1, DIS, Link!SYN0, Link!SYN1, Link!DIS
  <2>3. Answer(n, <<f>>)
    BY <1>1 DEF Rebuff
  <2> HIDE DEF f
  <2>4. \A i \in 1 .. Len(<<f>>) : <<f>>[i] # Entering(c)
    BY <2>2 DEF Entering
  <2> QED  BY <2>3, <2>4, AnswerEchoes
<1>2. ASSUME NEW out \in Leads, at[n]["reader"] = "handle", BecomeConnected(n, out)
      PROVE  EchoStep(n)
  <2>1. LinkConnectState'[n] = c
    <3>1. Link!BecomeConnected(n, out)
      BY <1>2, BecomeConnectedMaps
    <3> QED  BY <3>1, LinkTypes DEF Link!BecomeConnected, Link!Enter, ThreadsInv
  <2>2. \E steps : Answer(n, steps)
    BY <1>2 DEF BecomeConnected
  <2> QED  BY <2>1, <2>2, AnswerEchoes
<1>3. CASE HandleSYN0(n) \/ HandleDIS(n)
  <2>1. PICK f \in {SYN1, Entering("DISCONNECTED")}, g \in {Entering("SENT_SYN1")} :
          Answer(n, <<f, g>>) \/ Answer(n, <<f>>)
    BY <1>3 DEF HandleSYN0, HandleDIS
  <2>2. f # Entering(c) /\ g # Entering(c)
    <3>1. f.type = "SYN" \/ f = Entering("DISCONNECTED")
      BY <2>1 DEF SYN1, Link!SYN1
    <3> QED  BY <2>1, <3>1 DEF Entering
  <2>3. /\ \A i \in 1 .. Len(<<f, g>>) : <<f, g>>[i] # Entering(c)
        /\ \A i \in 1 .. Len(<<f>>) : <<f>>[i] # Entering(c)
    <3> DEFINE e == Entering(c)
    <3> HIDE DEF e
    <3>1. f # e /\ g # e
      BY <2>2 DEF e
    <3>2. /\ \A i \in 1 .. Len(<<f, g>>) : <<f, g>>[i] # e
          /\ \A i \in 1 .. Len(<<f>>) : <<f>>[i] # e
      BY <3>1
    <3> QED  BY <3>2 DEF e
  <2> QED  BY <2>1, <2>3, AnswerEchoes
<1>4. CASE HandleSYN1(n) \/ HandleSYN2(n)
  <2>1. \/ connectState[n] # c /\ Rebuff(n)
        \/ at[n]["reader"] = "handle" /\ \E out \in Leads : BecomeConnected(n, out)
    BY <1>4 DEF HandleSYN1, HandleSYN2, Handles, Leads
  <2> QED  BY <1>1, <1>2, <2>1
<1>5. CASE HandleNAK(n) /\ connectState[n] = c
  <2> DEFINE kept == KeptHistory(history[n], txSeq[n], frame[n].seq)
  <2>1. frame[n].seq \in Seqs
    BY <1>5, FrameRead, FrameFields DEF HandleNAK, Handles
  <2>2. kept \in Seq(Packets)
    BY <2>1, KeptTypes DEF ThreadsInv
  <2>3. Answer(n, << >>) \/ Answer(n, Retransmit(kept))
    BY <1>5 DEF HandleNAK
  <2> HIDE DEF kept
  <2>4. \A i \in 1 .. Len(Retransmit(kept)) : Retransmit(kept)[i] # Entering(c)
    <3>1. \A p : Data("RTX", p) # Entering(c)
      <4> TAKE p
      <4>1. Data("RTX", p).type = "RTX" /\ Entering(c).type = "enter"
        BY DEF Data, Entering
      <4> QED  BY <4>1
    <3>2. /\ Len(Retransmit(kept)) = Len(kept)
          /\ \A i \in 1 .. Len(kept) : Retransmit(kept)[i] = Data("RTX", kept[i])
      BY <2>2, RetransmitSteps
    <3> QED  BY <3>1, <3>2
  <2>5. \A i \in 1 .. Len(<< >>) : << >>[i] # Entering(c)
    OBVIOUS
  <2> QED  BY <2>3, <2>4, <2>5, AnswerEchoes
<1>6. CASE HandleRemnant(n) \/ RejectOutOfOrder(n)
  <2> DEFINE f == NAK(rxSeq[n])
  <2>1. f.type = "NAK"
    BY DEF NAK, Link!NAK
  <2>2. Answer(n, <<f>>)
    BY <1>6 DEF HandleRemnant, RejectOutOfOrder
  <2> HIDE DEF f
  <2>3. \A i \in 1 .. Len(<<f>>) : <<f>>[i] # Entering(c)
    BY <2>1 DEF Entering
  <2> QED  BY <2>2, <2>3, AnswerEchoes
<1>7. CASE (HandleUSR(n) \/ HandleNAK(n)) /\ connectState[n] # c
  BY <1>1, <1>7 DEF HandleUSR, HandleNAK
<1> QED  BY <1>3, <1>4, <1>5, <1>6, <1>7

\* A thread that moves without the lock, or lets go of it.
LEMMA MoveEchoes ==
  ASSUME ThreadsInv, NEW n \in Nodes, NEW t \in Threads, NEW place, GoTo(n, t, place),
         UNCHANGED <<connectState, sent, inits, todo>>,
         \A m \in Nodes : m # n => delivered'[m] = delivered[m],
         place \in {"call", "callback"} => MayWrite(n),
         place = "call" => n \in Senders, place # "send",
         delivered'[n] = delivered[n] \/ Len(delivered'[n]) = Len(delivered[n]) + 1,
         place = "callback" => t = "reader" /\ delivered'[n] # delivered[n]
  PROVE  EchoStep(n)
<1>1. at' = [at EXCEPT ![n][t] = place]
  BY DEF GoTo
<1>2. /\ at'[n][t] = place /\ \A u \in Threads : u # t => at'[n][u] = at[n][u]
      /\ \A m \in Nodes : m # n => at'[m] = at[m]
  BY <1>1 DEF ThreadsInv, TypeOK
<1>3. MayWrite(n)' => MayWrite(n)
  BY <1>2 DEF MayWrite, Enters, Threads
<1>4. ASSUME n \notin Senders, OnlyEchoes(n) PROVE OnlyEchoes(n)'
  <2>1. sent[n] \in Nat /\ Len(delivered[n]) \in Nat
    BY DEF ThreadsInv, TypeOK
  <2>3. Len(delivered'[n]) = Len(delivered[n])
          \/ Len(delivered'[n]) = Len(delivered[n]) + 1
    BY <2>1
  <2>4. at'[n]["user"] \notin {"call", "send"}
    BY <1>2, <1>4 DEF OnlyEchoes, Threads
  <2>5. CASE at'[n]["reader"] = "callback" /\ at[n]["reader"] # "callback"
    <3>1. place = "callback"
      BY <1>2, <2>5 DEF Threads
    <3>2. Len(delivered'[n]) = Len(delivered[n]) + 1
      BY <3>1
    <3> QED  BY <1>4, <2>1, <2>4, <3>2 DEF OnlyEchoes
  <2>6. CASE at'[n]["reader"] = "callback" => at[n]["reader"] = "callback"
    BY <1>4, <2>1, <2>3, <2>4, <2>6 DEF OnlyEchoes
  <2> QED  BY <2>5, <2>6
<1> QED  BY <1>2, <1>3, <1>4 DEF EchoStep

LEMMA MovesMade ==
  ASSUME ThreadsInv, WriteStates \subseteq {"CONNECTED"}, NEW n \in Nodes,
         \/ TakeFrame(n) \/ IgnoreRetransmission(n) \/ Count(n) \/ SetOut(n)
         \/ HandleUSR(n) /\ connectState[n] = "CONNECTED"
         \/ \E t \in Threads : Unlock(n, t)
  PROVE  EchoStep(n)
<1>1. \E t \in Threads, place \in {"idle", "handle", "compare", "call", "count"} :
        /\ GoTo(n, t, place)
        /\ place = "call" => n \in Senders /\ connectState[n] = "CONNECTED"
  BY DEF TakeFrame, IgnoreRetransmission, Count, SetOut, HandleUSR, Unlock, Threads
<1>2. UNCHANGED <<connectState, sent, delivered, inits, todo>>
  BY DEF TakeFrame, IgnoreRetransmission, Count, SetOut, HandleUSR, Unlock, users, budget
<1> QED  BY <1>1, <1>2, MoveEchoes DEF MayWrite

LEMMA DeliverEchoes ==
  ASSUME ThreadsInv, NEW n \in Nodes, Deliver(n)
  PROVE  EchoStep(n)
<1>1. /\ at[n]["reader"] = "compare"
      /\ delivered' = [delivered EXCEPT ![n] = Append(@, frame[n].packet)]
      /\ UNCHANGED <<connectState, sent, inits, todo>>
  BY DEF Deliver, DeliverIf, budget
<1>2. PICK place \in {"callback", "count"} : GoTo(n, "reader", place)
  BY DEF Deliver, DeliverIf
<1>3. connectState[n] = "CONNECTED" /\ frame[n].packet \in Packets
  BY <1>1, FrameRead, FrameFields DEF ThreadsInv, Reading
<1>4. delivered \in [Nodes -> Seq(Packets)]
  BY DEF ThreadsInv, TypeOK, Packets
<1>5. Len(delivered'[n]) = Len(delivered[n]) + 1 /\ delivered'[n] # delivered[n]
  <2>1. delivered[n] \in Seq(Packets) /\ delivered'[n] = Append(delivered[n], frame[n].packet)
    BY <1>1, <1>4
  <2>2. Len(delivered'[n]) = Len(delivered[n]) + 1 /\ Len(delivered[n]) \in Nat
    BY <1>3, <2>1
  <2> QED  BY <2>2
<1>6. \A m \in Nodes : m # n => delivered'[m] = delivered[m]
  BY <1>1, <1>4
<1> QED  BY <1>1, <1>2, <1>3, <1>5, <1>6, MoveEchoes DEF MayWrite, Threads

\* sfpWritePacket, called by the user or by the callback.
LEMMA WriteEchoes ==
  ASSUME ThreadsInv, NEW n \in Nodes, SendMessage(n) \/ SendBack(n)
  PROVE  EchoStep(n)
<1> DEFINE step == Data("USR", sent[n] + 1)
           steps == <<step>>
<1>1. PICK t \in Threads, place \in {"send", "echo"} :
        /\ WritePacket(n, t, place)
        /\ \/ t = "user" /\ place = "send" /\ at[n]["user"] = "call"
           \/ t = "reader" /\ place = "echo" /\ at[n]["reader"] = "callback"
  BY DEF SendMessage, SendBack, Threads
<1>2. step # Entering("CONNECTED")
  <2>1. step.type = "USR" /\ Entering("CONNECTED").type = "enter"
    BY DEF Data, Entering
  <2> QED  BY <2>1
<1>3. /\ todo' = [todo EXCEPT ![n][t] = steps] /\ at' = [at EXCEPT ![n][t] = place]
      /\ sent' = [sent EXCEPT ![n] = @ + 1]
      /\ UNCHANGED <<connectState, delivered, inits>>
  BY <1>1 DEF WritePacket, LockFor, GoTo, budget
<1> HIDE DEF step
<1>4. \A i \in 1 .. Len(steps) : steps[i] # Entering("CONNECTED")
  BY <1>2
<1> HIDE DEF steps
<1>5. /\ at'[n][t] = place /\ todo'[n][t] = steps
      /\ \A u \in Threads : u # t => at'[n][u] = at[n][u] /\ todo'[n][u] = todo[n][u]
      /\ sent[n] \in Nat /\ sent'[n] = sent[n] + 1
      /\ \A m \in Nodes : m # n => at'[m] = at[m] /\ todo'[m] = todo[m] /\ sent'[m] = sent[m]
  BY <1>3 DEF ThreadsInv, TypeOK
<1>6. MayWrite(n)
  BY <1>1 DEF MayWrite
<1>7. n \notin Senders /\ OnlyEchoes(n) => OnlyEchoes(n)'
  <2>1. Len(delivered[n]) \in Nat
    BY DEF ThreadsInv, TypeOK
  <2> QED  BY <1>1, <1>3, <1>5, <2>1 DEF OnlyEchoes, Threads
<1> QED  BY <1>3, <1>5, <1>6, <1>7 DEF EchoStep

LEMMA ConnectEchoes ==
  ASSUME ThreadsInv, NEW n \in Nodes, Connect(n)
  PROVE  EchoStep(n)
<1> DEFINE steps == <<SYN0, Entering("SENT_SYN0")>>
<1>1. /\ todo' = [todo EXCEPT ![n]["user"] = steps] /\ at' = [at EXCEPT ![n]["user"] = "connect"]
      /\ UNCHANGED <<connectState, sent, delivered, inits>>
  BY DEF Connect, LockFor, GoTo
<1>2. \A i \in 1 .. Len(steps) : steps[i] # Entering("CONNECTED")
  <2> DEFINE f == SYN0
             g == Entering("SENT_SYN0")
             e == Entering("CONNECTED")
  <2>1. f.type = "SYN" /\ e.type = "enter" /\ e.state # g.state
    BY DEF SYN0, Link!SYN0, Entering
  <2> HIDE DEF f, g, e
  <2>2. \A i \in 1 .. Len(<<f, g>>) : <<f, g>>[i] # e
    BY <2>1
  <2> QED  BY <2>2 DEF f, g, e
<1> HIDE DEF steps
<1>3. /\ at'[n]["user"] = "connect" /\ at'[n]["reader"] = at[n]["reader"]
      /\ todo'[n]["user"] = steps /\ todo'[n]["reader"] = todo[n]["reader"]
      /\ \A m \in Nodes : m # n => at'[m] = at[m] /\ todo'[m] = todo[m]
  BY <1>1 DEF ThreadsInv, TypeOK, Threads
<1>4. MayWrite(n)' => MayWrite(n)
  BY <1>1, <1>2, <1>3 DEF MayWrite, Enters, Threads
<1>5. OnlyEchoes(n) => OnlyEchoes(n)'
  BY <1>1, <1>3 DEF OnlyEchoes
<1> QED  BY <1>1, <1>3, <1>4, <1>5 DEF EchoStep

LEMMA ReinitEchoes ==
  ASSUME ThreadsInv, NEW n \in Nodes, Reinit(n)
  PROVE  EchoStep(n)
<1>1. /\ \A t \in Threads : at[n][t] = "idle"
      /\ connectState' = [connectState EXCEPT ![n] = "DISCONNECTED"]
      /\ UNCHANGED <<sent, delivered, lock, at, todo>>
  BY DEF Reinit, threads
<1>2. todo[n]["reader"] = << >> /\ todo[n]["user"] = << >>
  <2>1. lock[n] = "free"
    BY <1>1 DEF ThreadsInv, TypeOK, Locking, Threads
  <2> QED  BY <2>1, FreeLock
<1>3. connectState'[n] = "DISCONNECTED" /\ \A m \in Nodes : m # n => connectState'[m] = connectState[m]
  BY <1>1 DEF ThreadsInv, TypeOK
<1>4. ~ MayWrite(n)'
  BY <1>1, <1>2, <1>3 DEF MayWrite, Enters, Threads
<1>5. OnlyEchoes(n) => OnlyEchoes(n)'
  BY <1>1 DEF OnlyEchoes
<1> QED  BY <1>1, <1>3, <1>4, <1>5 DEF EchoStep

\* A thread does the next of its steps.
LEMMA ProceedEchoes ==
  ASSUME ThreadsInv, NEW n \in Nodes, NEW t \in Threads, Proceed(n, t)
  PROVE  EchoStep(n)
<1> DEFINE s == todo[n][t]
           x == Do(Transmitter(n), Head(s))
<1>1. /\ s # << >> /\ todo' = [todo EXCEPT ![n][t] = Tail(s)]
      /\ connectState' = [connectState EXCEPT ![n] = x.state]
      /\ UNCHANGED <<sent, delivered, inits, at>>
  BY DEF Proceed, users, budget
<1>2. s \in Seq(Steps)
  BY DEF ThreadsInv, TypeOK
<1>3. /\ todo'[n][t] = Tail(s) /\ connectState'[n] = x.state
      /\ \A u \in Threads : u # t => todo'[n][u] = todo[n][u]
      /\ \A m \in Nodes : m # n => todo'[m] = todo[m] /\ connectState'[m] = connectState[m]
  BY <1>1 DEF ThreadsInv, TypeOK
<1>4. x.state = connectState[n] \/ s[1] = Entering(x.state)
  <2>1. Head(s) \in Steps /\ Head(s) = s[1]
    BY <1>1, <1>2
  <2>2. CASE Head(s).type = "enter"
    <3>1. Head(s) = Entering(Head(s).state)
      BY <2>1, <2>2 DEF Steps, SYN0, SYN1, SYN2, DIS, NAK, Link!SYN0, Link!SYN1, Link!SYN2,
                        Link!DIS, Link!NAK, Entering
    <3>2. x.state = Head(s).state
      BY <2>2 DEF Do, Transmitter
    <3> QED  BY <2>1, <3>1, <3>2
  <2>3. CASE Head(s).type # "enter"
    BY <2>3 DEF Do, Transmitter
  <2> QED  BY <2>2, <2>3
<1>5. ASSUME NEW i \in 1 .. Len(Tail(s)) PROVE i + 1 \in 1 .. Len(s) /\ Tail(s)[i] = s[i + 1]
  BY <1>1, <1>2, HeadTailProperties
<1>6. Len(s) \in Nat /\ 1 \in 1 .. Len(s)
  BY <1>1, <1>2
<1> HIDE DEF s, x
<1>7. Enters(n, t, "CONNECTED")' => Enters(n, t, "CONNECTED")
  <2>1. Enters(n, t, "CONNECTED")' <=> \E i \in 1 .. Len(Tail(s)) : Tail(s)[i] = Entering("CONNECTED")
    BY <1>3 DEF Enters
  <2>2. Enters(n, t, "CONNECTED") <=> \E i \in 1 .. Len(s) : s[i] = Entering("CONNECTED")
    BY DEF Enters, s
  <2> QED  BY <1>5, <2>1, <2>2
<1>8. connectState'[n] = "CONNECTED" => connectState[n] = "CONNECTED" \/ Enters(n, t, "CONNECTED")
  <2>1. Enters(n, t, "CONNECTED") <=> \E i \in 1 .. Len(s) : s[i] = Entering("CONNECTED")
    BY DEF Enters, s
  <2> QED  BY <1>3, <1>4, <1>6, <2>1
<1>9. MayWrite(n)' => MayWrite(n)
  <2>1. \A u \in Threads : u # t => (Enters(n, u, "CONNECTED")' => Enters(n, u, "CONNECTED"))
    BY <1>3 DEF Enters
  <2> QED  BY <1>1, <1>7, <1>8, <2>1 DEF MayWrite
<1>10. OnlyEchoes(n) => OnlyEchoes(n)'
  BY <1>1 DEF OnlyEchoes
<1> QED  BY <1>1, <1>3, <1>9, <1>10 DEF EchoStep

LEMMA StepEchoes ==
  ASSUME ThreadsInv, ThreadsInv', [Next]_vars, WriteStates \subseteq {"CONNECTED"}
  PROVE  \E n \in Nodes : EchoStep(n)
<1>1. CASE UNCHANGED vars
  <2>1. UNCHANGED <<connectState, at, todo, sent, delivered, inits>>
    BY <1>1 DEF vars, users, budget, threads
  <2>2. \A n \in Nodes : EchoStep(n)
    BY <2>1 DEF EchoStep, MayWrite, Enters, OnlyEchoes
  <2> QED  BY <2>2, NodesAssumption
<1>2. CASE Next
  <2>1. PICK n \in Nodes :
          \/ TakeFrame(n) \/ HandleFrame(n)
          \/ Connect(n) \/ Reinit(n) \/ SetOut(n) \/ SendMessage(n)
          \/ \E t \in Threads : Holding(n, t)
          \/ Fault(n)
    BY <1>2 DEF Next
  <2>2. CASE \/ HandleSYN0(n) \/ HandleSYN1(n) \/ HandleSYN2(n) \/ HandleDIS(n)
             \/ HandleNAK(n) \/ HandleRemnant(n) \/ RejectOutOfOrder(n)
             \/ HandleUSR(n) /\ connectState[n] # "CONNECTED"
    BY <2>2, AnswersMade
  <2>3. CASE \/ TakeFrame(n) \/ IgnoreRetransmission(n) \/ Count(n) \/ SetOut(n)
             \/ HandleUSR(n) /\ connectState[n] = "CONNECTED"
             \/ \E t \in Threads : Unlock(n, t)
    BY <2>3, MovesMade
  <2>4. CASE Deliver(n)
    BY <2>4, DeliverEchoes
  <2>5. CASE SendMessage(n) \/ SendBack(n)
    BY <2>5, WriteEchoes
  <2>6. CASE Connect(n)
    BY <2>6, ConnectEchoes
  <2>7. CASE Reinit(n)
    BY <2>7, ReinitEchoes
  <2>8. CASE \E t \in Threads : Proceed(n, t)
    BY <2>8, ProceedEchoes
  <2>9. CASE Fault(n)
    <3>1. UNCHANGED <<connectState, at, todo, sent, delivered, inits>>
      BY <2>9 DEF Fault, users, threads
    <3>2. EchoStep(n)
      BY <3>1 DEF EchoStep, MayWrite, Enters, OnlyEchoes
    <3> QED  BY <3>2
  <2> QED  BY <2>1, <2>2, <2>3, <2>4, <2>5, <2>6, <2>7, <2>8, <2>9 DEF HandleFrame, Holding
<1> QED  BY <1>1, <1>2

-----------------------------------------------------------------------------
LEMMA LinkedPeer == \A n : Linked!Peer(n) = Peer(n)
  BY DEF Linked!Peer, Peer

LEMMA LinkedReinit ==
  ASSUME ThreadsInv, ThreadsInv', NEW n \in Nodes, Reinit(n)
  PROVE  Linked!Reinit(n)
<1>1. Link!Reinit(n)
  BY ReinitMaps
<1> QED  BY <1>1 DEF Link!Reinit, Linked!Reinit, Link!Enter, Linked!Enter, Link!InitialSeq,
                     Linked!InitialSeq, Link!AfterReceiverReset, Linked!AfterReceiverReset,
                     Link!Remnant, Linked!Remnant

\* EchoInv is inductive.
LEMMA EchoesKept ==
  ASSUME ThreadsInv, ThreadsInv', [Next]_vars, WriteStates \subseteq {"CONNECTED"},
         NEW c, Linked!OneOpener(c), EchoInv(c)
  PROVE  EchoInv(c)'
<1>1. PICK n \in Nodes : EchoStep(n)
  BY StepEchoes
<1>2. [Linked!Next]_(Linked!vars)
  BY StepMaps, LinkedIsLink
<1>3. sent \in [Nodes -> 0 .. MaxSent] /\ inits \in Nat
  BY BoundsAssumption DEF ThreadsInv, TypeOK
<1>4. ASSUME NEW m \in Nodes, Linked!WritePacket(m) PROVE Linked!Ready(c, m)
  <2>1. sent' = [sent EXCEPT ![m] = @ + 1]
    BY <1>4 DEF Linked!WritePacket
  <2>2. sent'[m] # sent[m]
    BY <1>3, <2>1
  <2>3. m = n /\ MayWrite(n)
    BY <1>1, <2>2 DEF EchoStep
  <2> QED  BY <2>3 DEF EchoInv
<1>5. Linked!OneKept(c)
  BY <1>2, <1>4, Linked!NextOne, NodesAssumption, BoundsAssumption, SynAssumption,
     SeqRangeAssumption, HistoryAssumption DEF EchoInv
<1>6. ASSUME NEW m \in Nodes, MayWrite(m)' PROVE Linked!Ready(c, m)'
  <2>1. MayWrite(m) \/ LinkConnectState'[m] = "CONNECTED"
    BY <1>1, <1>6 DEF EchoStep, MayWrite, Enters
  <2>2. CASE LinkConnectState'[m] = "CONNECTED"
    BY <2>2 DEF Linked!Ready
  <2>3. CASE MayWrite(m)
    <3>1. Linked!Reinit(m) => Linked!Reinit(Linked!Peer(m))
      <4> SUFFICES ASSUME Linked!Reinit(m) PROVE Linked!Reinit(Linked!Peer(m))
        OBVIOUS
      <4>1. inits' # inits
        BY <1>3 DEF Linked!Reinit
      <4>2. Reinit(n) /\ ~ MayWrite(n)'
        BY <1>1, <4>1 DEF EchoStep
      <4>3. n = Peer(m)
        BY <1>6, <4>2, TwoNodes
      <4> QED  BY <4>2, <4>3, LinkedReinit, LinkedPeer
    <3> QED  BY <1>2, <1>4, <2>3, <3>1, Linked!ReadyKept, NodesAssumption, BoundsAssumption,
                SynAssumption, SeqRangeAssumption, HistoryAssumption DEF EchoInv
  <2> QED  BY <2>1, <2>2, <2>3
<1>7. ASSUME NEW m \in Nodes \ Senders PROVE OnlyEchoes(m)'
  BY <1>1 DEF EchoStep, EchoInv, OnlyEchoes
<1> QED  BY <1>5, <1>6, <1>7 DEF EchoInv, Linked!OneKept

LEMMA InitEchoes ==
  ASSUME Init, NEW c, Linked!OneOpener(c)
  PROVE  EchoInv(c)
<1>1. Linked!OneConnectionInv(c)
  BY InitMaps, LinkedIsLink, Linked!InitOne, NodesAssumption, BoundsAssumption, SynAssumption,
     SeqRangeAssumption, HistoryAssumption
<1>2. \A n \in Nodes :
        /\ connectState[n] = "DISCONNECTED" /\ sent[n] = 0 /\ delivered[n] = << >>
        /\ \A t \in Threads : at[n][t] = "idle" /\ todo[n][t] = << >>
  BY DEF Init
<1>3. \A n \in Nodes : ~ MayWrite(n) /\ OnlyEchoes(n)
  BY <1>2 DEF MayWrite, Enters, OnlyEchoes, Threads
<1> QED  BY <1>1, <1>3 DEF EchoInv

(***************************************************************************)
(* tests/sfp-echo.cpp, 83, for any number of frames lost and of calls of   *)
(* sfpInit, and with both threads of both ends: what comes back to the     *)
(* user is in the order in which it was sent, and nothing twice, if only   *)
(* one end calls sfpConnect, and once, if no more messages are sent than   *)
(* the ring of history holds, and if the other end sends nothing of its    *)
(* own.  That holds although the callback sends a message back before      *)
(* rx.seq counts it, and although the state that the user has seen may be  *)
(* another by the time it gets the lock: whoever has once been connected   *)
(* gives its packets the right numbers until it is initialised anew, and   *)
(* that waits for the call.                                                *)
(***************************************************************************)
THEOREM EchoesStayInOrder ==
  ASSUME NEW c \in Nodes, Initiators \subseteq {c}, MaxConnects <= 1,
         MaxSent <= HistoryCapacity, WriteStates \subseteq {"CONNECTED"},
         Guarded \subseteq Nodes, \A n \in Guarded : Peer(n) \notin Senders
  PROVE  Spec => []EchoesInOrder
<1>1. Linked!OneOpener(c)
  BY DEF Linked!OneOpener
<1>2. Init => EchoInv(c)
  BY <1>1, InitEchoes
<1>3. ThreadsInv /\ ThreadsInv' /\ [Next]_vars /\ EchoInv(c) => EchoInv(c)'
  BY <1>1, EchoesKept
<1>4. ThreadsInv /\ EchoInv(c) => EchoesInOrder
  <2> SUFFICES ASSUME ThreadsInv, EchoInv(c), NEW n \in Guarded,
                      NEW i \in 1 .. Len(delivered[n]), NEW j \in 1 .. Len(delivered[n]), i < j
               PROVE  delivered[Peer(n)][delivered[n][i]] < delivered[Peer(n)][delivered[n][j]]
    BY DEF EchoesInOrder
  <2> DEFINE p == Peer(n)
  <2>1. n \in Nodes /\ p \in Nodes /\ p \notin Senders
    BY TwoNodes
  <2>2. /\ Linked!Prefix(n) /\ Linked!Prefix(p) /\ OnlyEchoes(p)
    BY <2>1 DEF EchoInv, Linked!OneConnectionInv
  <2>3. sent[p] \in Nat /\ Len(delivered[n]) \in Nat /\ Len(delivered[p]) \in Nat
    <3>1. \A m \in Nodes : sent[m] \in Nat /\ Len(delivered[m]) \in Nat
      BY DEF ThreadsInv, TypeOK
    <3> QED  BY <2>1, <3>1
  <2>4. /\ delivered[n][i] = i /\ delivered[n][j] = j
        /\ Len(delivered[n]) <= sent[p] /\ sent[p] <= Len(delivered[p])
        /\ \A k \in 1 .. Len(delivered[p]) : delivered[p][k] = k
    <3>1. delivered[n][i] = i /\ delivered[n][j] = j /\ Len(delivered[n]) <= sent[p]
      BY <2>2, LinkedPeer DEF Linked!Prefix
    <3>2. \A k \in 1 .. Len(delivered[p]) : delivered[p][k] = k
      BY <2>2 DEF Linked!Prefix
    <3>3. sent[p] <= Len(delivered[p])
      BY <2>2, <2>3 DEF OnlyEchoes
    <3> QED  BY <3>1, <3>2, <3>3
  <2>5. i \in 1 .. Len(delivered[p]) /\ j \in 1 .. Len(delivered[p])
    BY <2>3, <2>4
  <2> QED  BY <2>4, <2>5
<1> QED  BY <1>2, <1>3, <1>4, LocksSuffice, PTL DEF Spec
=============================================================================
