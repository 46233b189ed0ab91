------------------------ MODULE SFPTransmitterProofs ------------------------
(***************************************************************************)
(* Lemmas about numbering modulo SeqRange and about the operators of       *)
(* SFPTransmitter.                                                         *)
(***************************************************************************)
EXTENDS SFPTransmitter, SequenceTheorems, TLAPS

-----------------------------------------------------------------------------
(***************************************************************************)
(* Arithmetic modulo SeqRange.                                             *)
(***************************************************************************)
\* SeqRange is at least 2, because a history holds at least one packet.
LEMMA SeqRangePositive == SeqRange \in Nat /\ SeqRange > 1
  BY SeqRangeAssumption, HistoryAssumption

\* Division with remainder.
LEMMA DivMod ==
  ASSUME NEW a \in Int
  PROVE  /\ a % SeqRange \in Seqs
         /\ a \div SeqRange \in Int
         /\ a = SeqRange * (a \div SeqRange) + (a % SeqRange)
  BY SeqRangePositive DEF Seqs

\* Multiples of SeqRange are at least SeqRange apart.
LEMMA MultiplesApart ==
  ASSUME NEW a \in Int, NEW b \in Int, a > b
  PROVE  SeqRange * a >= SeqRange * b + SeqRange
  BY SeqRangePositive

\* A remainder is the only one.
LEMMA ModUnique ==
  ASSUME NEW q \in Int, NEW r \in Seqs
  PROVE  (SeqRange * q + r) % SeqRange = r
  BY SeqRangePositive DEF Seqs

\* Two positions less than SeqRange apart with the same number are the same.
LEMMA SameNumberSamePosition ==
  ASSUME NEW a \in Int, NEW b \in Int, a % SeqRange = b % SeqRange,
         a - b < SeqRange, b - a < SeqRange
  PROVE  a = b
<1>1. /\ a = SeqRange * (a \div SeqRange) + (a % SeqRange)
      /\ b = SeqRange * (b \div SeqRange) + (b % SeqRange)
      /\ a \div SeqRange \in Int /\ b \div SeqRange \in Int
      /\ a % SeqRange \in Int
  BY DivMod DEF Seqs
<1> DEFINE p == a \div SeqRange
           q == b \div SeqRange
<1>2. CASE p > q
  <2>1. SeqRange * p >= SeqRange * q + SeqRange
    BY <1>1, <1>2, MultiplesApart
  <2> QED BY <1>1, <2>1, SeqRangePositive
<1>3. CASE q > p
  <2>1. SeqRange * q >= SeqRange * p + SeqRange
    BY <1>1, <1>3, MultiplesApart
  <2> QED BY <1>1, <2>1, SeqRangePositive
<1>4. CASE q = p
  BY <1>1, <1>4
<1> QED BY <1>1, <1>2, <1>3, <1>4

\* Reducing a summand first changes nothing.
LEMMA ModSum ==
  ASSUME NEW a \in Int, NEW c \in Int
  PROVE  ((a % SeqRange) + c) % SeqRange = (a + c) % SeqRange
<1>1. a + c \in Int
  OBVIOUS
<1>2. /\ a = SeqRange * (a \div SeqRange) + (a % SeqRange)
      /\ a \div SeqRange \in Int /\ a % SeqRange \in Int
  BY DivMod DEF Seqs
<1>3. /\ a + c = SeqRange * ((a + c) \div SeqRange) + ((a + c) % SeqRange)
      /\ (a + c) \div SeqRange \in Int
      /\ (a + c) % SeqRange \in Seqs /\ (a + c) % SeqRange \in Int
  BY <1>1, DivMod DEF Seqs
<1>4. (a % SeqRange) + c
        = SeqRange * (((a + c) \div SeqRange) - (a \div SeqRange))
            + ((a + c) % SeqRange)
  BY <1>2, <1>3, SeqRangePositive
<1>5. ((a + c) \div SeqRange) - (a \div SeqRange) \in Int
  BY <1>2, <1>3
<1> QED BY <1>3, <1>4, <1>5, ModUnique

\* Reducing both operands of a difference first changes nothing.
LEMMA ModDifference ==
  ASSUME NEW a \in Int, NEW b \in Int, NEW c \in Int
  PROVE  ((a % SeqRange) - ((b % SeqRange) - c)) % SeqRange
           = (a - (b - c)) % SeqRange
<1> DEFINE d == a - (b - c)
           br == b % SeqRange
<1>1. br \in Int
  BY DivMod DEF Seqs
<1>2. ((a % SeqRange) + (c - br)) % SeqRange = (a + (c - br)) % SeqRange
  BY <1>1, ModSum
<1>3. /\ b = SeqRange * (b \div SeqRange) + br
      /\ b \div SeqRange \in Int
  BY DivMod
<1>4. /\ d = SeqRange * (d \div SeqRange) + (d % SeqRange)
      /\ d \div SeqRange \in Int
      /\ d % SeqRange \in Seqs /\ d % SeqRange \in Int /\ d \in Int
  BY DivMod DEF Seqs
<1>5. a + (c - br)
        = SeqRange * ((d \div SeqRange) + (b \div SeqRange)) + (d % SeqRange)
  BY <1>1, <1>3, <1>4, SeqRangePositive
<1>6. (a + (c - br)) % SeqRange = d % SeqRange
  <2>1. (d \div SeqRange) + (b \div SeqRange) \in Int
    BY <1>3, <1>4
  <2> QED BY <1>4, <1>5, <2>1, ModUnique
<1>7. (a % SeqRange) - (br - c) = (a % SeqRange) + (c - br)
  <2>1. a % SeqRange \in Int
    BY DivMod DEF Seqs
  <2> QED BY <1>1, <2>1
<1> QED BY <1>2, <1>6, <1>7

\* A difference in the range is its own remainder.
LEMMA ModSmall ==
  ASSUME NEW r \in Seqs
  PROVE  r % SeqRange = r
  BY SeqRangePositive DEF Seqs

-----------------------------------------------------------------------------
(***************************************************************************)
(* The history.                                                            *)
(***************************************************************************)
\* Appending to the ring buffer keeps the newest packets, in order.
LEMMA PushBackProperties ==
  ASSUME NEW h \in Seq(Nat), NEW p \in Nat, NEW g, g = PushBack(h, p),
         Len(h) <= HistoryCapacity
  PROVE  /\ g \in Seq(Nat)
         /\ Len(h) < HistoryCapacity => Len(g) = Len(h) + 1
         /\ Len(h) = HistoryCapacity => Len(g) = Len(h)
         /\ Len(g) > 0 /\ g[Len(g)] = p
         /\ \A i \in 1 .. (Len(g) - 1) : g[i] = h[i + Len(h) + 1 - Len(g)]
<1>1. Len(h) \in Nat /\ HistoryCapacity \in Nat /\ HistoryCapacity > 0
  BY HistoryAssumption, SeqRangePositive
<1>2. CASE Len(h) < HistoryCapacity
  BY <1>1, <1>2 DEF PushBack
<1>3. CASE Len(h) = HistoryCapacity
  <2>1. h # << >>
    BY <1>1, <1>3
  <2>2. /\ Tail(h) \in Seq(Nat)
        /\ Len(Tail(h)) = Len(h) - 1
        /\ \A i \in 1 .. Len(Tail(h)) : Tail(h)[i] = h[i + 1]
    BY <2>1, HeadTailProperties
  <2>3. g = Append(Tail(h), p)
    BY <1>1, <1>3 DEF PushBack
  <2> QED BY <1>1, <1>3, <2>2, <2>3
<1>4. Len(h) < HistoryCapacity \/ Len(h) = HistoryCapacity
  BY <1>1
<1> QED BY <1>2, <1>3, <1>4, Zenon

\* Fast-forwarding a history whose newest packet is number n - 1 to a
\* position m that it covers drops m - (n - Len(h)) packets.
LEMMA FastForwardValue ==
  ASSUME NEW S, NEW h \in Seq(S), NEW n \in Int, NEW m \in Int,
         n - Len(h) <= m, m < n, Len(h) < SeqRange
  PROVE  /\ FastForward(h, n % SeqRange, m % SeqRange) = m - (n - Len(h))
         /\ ~ Underrun(h, n % SeqRange, m % SeqRange)
<1>1. Len(h) \in Int
  OBVIOUS
<1>2. m - (n - Len(h)) \in Seqs
  BY <1>1, SeqRangePositive DEF Seqs
<1>3. FastForward(h, n % SeqRange, m % SeqRange) = m - (n - Len(h))
  BY <1>1, <1>2, ModDifference, ModSmall DEF FastForward
<1> QED BY <1>1, <1>3 DEF Underrun

\* What fast-forwarding keeps: in any case part of the history.
LEMMA KeptHistoryType ==
  ASSUME NEW S, NEW h \in Seq(S), NEW t \in Int, NEW s \in Int
  PROVE  /\ KeptHistory(h, t, s) \in Seq(S)
         /\ Len(KeptHistory(h, t, s)) <= Len(h)
<1>1. FastForward(h, t, s) \in Nat /\ Len(h) \in Nat
  <2>1. Len(h) \in Nat /\ s - (t - Len(h)) \in Int
    OBVIOUS
  <2> QED BY <2>1, DivMod, SeqRangePositive DEF FastForward, Seqs
<1>2. CASE Underrun(h, t, s)
  BY <1>1, <1>2 DEF KeptHistory
<1>3. CASE ~ Underrun(h, t, s)
  BY <1>1, <1>3 DEF KeptHistory, Underrun
<1> QED BY <1>2, <1>3

\* Without an underrun it keeps all but the FastForward oldest packets.
LEMMA KeptHistoryProperties ==
  ASSUME NEW S, NEW h \in Seq(S), NEW t \in Int, NEW s \in Int,
         ~ Underrun(h, t, s)
  PROVE  LET ff == FastForward(h, t, s)
             kept == KeptHistory(h, t, s)
         IN  /\ ff \in Nat
             /\ Len(kept) = Len(h) - ff
             /\ \A i \in 1 .. Len(kept) : kept[i] = h[i + ff]
<1>1. FastForward(h, t, s) \in Nat /\ Len(h) \in Nat
  <2>1. Len(h) \in Nat /\ s - (t - Len(h)) \in Int
    OBVIOUS
  <2> QED BY <2>1, DivMod, SeqRangePositive DEF FastForward, Seqs
<1>2. FastForward(h, t, s) < Len(h)
  BY <1>1 DEF Underrun
<1>3. KeptHistory(h, t, s) = SubSeq(h, FastForward(h, t, s) + 1, Len(h))
  BY DEF KeptHistory
<1> QED BY <1>1, <1>2, <1>3

\* The frames of a retransmission carry the kept packets, numbered from s.
LEMMA RetransmissionsProperties ==
  ASSUME NEW S, NEW k \in Seq(S), NEW s \in Int
  PROVE  LET r == Retransmissions(k, s)
         IN  /\ r \in Seq([type : {"USR", "RTX"}, seq : Seqs, packet : S])
             /\ Len(r) = Len(k)
             /\ \A i \in 1 .. Len(k) :
                  /\ r[i].packet = k[i]
                  /\ r[i].seq = (s + i - 1) % SeqRange
<1> DEFINE F == [type : {"USR", "RTX"}, seq : Seqs, packet : S]
           r == Retransmissions(k, s)
<1>1. \A i \in 1 .. Len(k) :
        DataFrame("RTX", (s + i - 1) % SeqRange, k[i]) \in F
  BY DivMod DEF DataFrame
<1>2. r = [i \in 1 .. Len(k) |-> DataFrame("RTX", (s + i - 1) % SeqRange, k[i])]
  BY DEF Retransmissions
<1>3. r \in Seq(F) /\ Len(r) = Len(k)
  <2>1. r \in [1 .. Len(k) -> F] /\ Len(k) \in Nat
    BY <1>1, <1>2
  <2> HIDE DEF F, r
  <2>2. r \in Seq(F)
    BY <2>1, SeqDef
  <2>3. DOMAIN r = 1 .. Len(k)
    BY <2>1
  <2> QED BY <2>1, <2>2, <2>3
<1>4. \A i \in 1 .. Len(k) : r[i].packet = k[i] /\ r[i].seq = (s + i - 1) % SeqRange
  BY <1>2 DEF DataFrame
<1> QED BY <1>3, <1>4
=============================================================================
