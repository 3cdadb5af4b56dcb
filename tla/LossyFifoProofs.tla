--------------------------- MODULE LossyFifoProofs ---------------------------
(* What every channel that implements LossyFifo has: order and at most once. *)
EXTENDS LossyFifo, SequenceTheorems, TLAPS

Inv == TypeOK /\ InOrder

\* The oldest element leaves a channel.
LEMMA TailFacts ==
  ASSUME NEW S, NEW q \in Seq(S), q # <<>>
  PROVE  /\ Head(q) \in S /\ Head(q) = q[1] /\ Len(q) \in Nat \ {0}
         /\ Tail(q) \in Seq(S) /\ Len(q) = Len(Tail(q)) + 1
         /\ \A i \in 1..Len(Tail(q)) : Tail(q)[i] = q[i + 1]
  OBVIOUS

\* What is sent is newer than all that is on its way.
LEMMA SendKeepsOrder == Inv /\ Send => Inv'
<1> SUFFICES ASSUME Inv, Send PROVE Inv'
  OBVIOUS
<1>1. last' \in Nat /\ last < last' /\ got' = got /\ last \in Nat
      /\ chan \in Seq(Nat) /\ got \in Seq(Nat)
  BY DEF Inv, TypeOK, Send
<1>2. /\ \A i \in 1..Len(got) : got[i] \in Nat /\ got[i] < last'
      /\ \A j \in 1..Len(chan) : chan[j] \in Nat /\ chan[j] < last'
  BY <1>1, ElementOfSeq DEF Inv, InOrder
<1>3. CASE chan' = chan
  BY <1>1, <1>2, <1>3 DEF Inv, TypeOK, InOrder, Increasing
<1>4. CASE chan' = Append(chan, last')
  <2>1. /\ chan' \in Seq(Nat) /\ Len(chan') = Len(chan) + 1
        /\ chan'[Len(chan) + 1] = last'
        /\ \A j \in 1..Len(chan) : chan'[j] = chan[j]
    BY <1>1, <1>4, AppendProperties
  <2>2. \A j \in 1..Len(chan') : j \in 1..Len(chan) \/ j = Len(chan) + 1
    BY <1>1, <2>1
  <2>3. Increasing(chan)'
    <3> SUFFICES ASSUME NEW i \in 1..Len(chan'), NEW j \in 1..Len(chan'), i < j
                 PROVE  chan'[i] < chan'[j]
      BY DEF Increasing
    <3>1. i \in 1..Len(chan)
      BY <1>1, <2>1
    <3>2. CASE j \in 1..Len(chan)
      BY <2>1, <3>1, <3>2 DEF Inv, InOrder, Increasing
    <3>3. CASE j = Len(chan) + 1
      BY <1>2, <2>1, <3>1, <3>3
    <3> QED
      BY <2>2, <3>2, <3>3
  <2>4. \A i \in 1..Len(got), j \in 1..Len(chan') : got[i] < chan'[j]
    BY <1>2, <2>1, <2>2 DEF Inv, InOrder
  <2>5. \A i \in 1..Len(got) : got[i] <= last'
    BY <1>1, <1>2
  <2>6. \A j \in 1..Len(chan') : chan'[j] <= last'
    <3> SUFFICES ASSUME NEW j \in 1..Len(chan') PROVE chan'[j] <= last'
      OBVIOUS
    <3>1. CASE j \in 1..Len(chan)
      <4>1. chan'[j] = chan[j]
        BY <2>1, <3>1
      <4>2. chan[j] \in Nat /\ chan[j] < last'
        BY <1>2, <3>1
      <4>3. last' \in Nat
        BY <1>1
      <4> QED
        BY <4>1, <4>2, <4>3
    <3>2. CASE j = Len(chan) + 1
      BY <1>1, <2>1, <3>2
    <3> QED
      BY <2>2, <3>1, <3>2
  <2>7. Increasing(got)'
    BY <1>1 DEF Inv, InOrder, Increasing
  <2>8. InOrder'
    <3>1. /\ \A i \in 1..Len(got'), j \in 1..Len(chan') : got'[i] < chan'[j]
          /\ \A i \in 1..Len(got') : got'[i] <= last'
      BY <1>1, <2>4, <2>5
    <3> QED
      BY <2>3, <2>6, <2>7, <3>1 DEF InOrder
  <2>9. TypeOK'
    BY <1>1, <2>1 DEF TypeOK
  <2> QED
    BY <2>8, <2>9 DEF Inv
<1> QED
  BY <1>3, <1>4 DEF Send

\* What stays on its way was on its way.
LEMMA LoseKeepsOrder == Inv /\ Lose => Inv'
<1> SUFFICES ASSUME Inv, Lose PROVE Inv'
  OBVIOUS
<1>1. chan' \in Seq(Nat) /\ Increasing(chan') /\ last' = last /\ got' = got
  BY DEF Lose
<1>2. \A j \in 1..Len(chan') : \E k \in 1..Len(chan) : chan'[j] = chan[k]
  <2> SUFFICES ASSUME NEW j \in 1..Len(chan')
               PROVE  \E k \in 1..Len(chan) : chan'[j] = chan[k]
    OBVIOUS
  <2>1. chan'[j] \in Range(chan)
    BY <1>1, LenProperties DEF Lose, Range
  <2> QED
    BY <2>1, LenProperties DEF Range, Inv, TypeOK
<1> QED
  BY <1>1, <1>2 DEF Inv, TypeOK, InOrder, Increasing

\* Where the elements of a concatenation come from.
LEMMA ConcatParts ==
  ASSUME NEW s \in Seq(Nat), NEW t \in Seq(Nat)
  PROVE  /\ s \o t \in Seq(Nat) /\ Len(s \o t) = Len(s) + Len(t)
         /\ \A i \in 1..Len(s) : (s \o t)[i] = s[i]
         /\ \A i \in (Len(s) + 1)..Len(s \o t) :
              (s \o t)[i] = t[i - Len(s)] /\ i - Len(s) \in 1..Len(t)
<1>1. Len(s) \in Nat /\ Len(t) \in Nat
  BY LenProperties
<1>2. /\ s \o t \in Seq(Nat) /\ Len(s \o t) = Len(s) + Len(t)
      /\ \A i \in 1..(Len(s) + Len(t)) :
           (s \o t)[i] = IF i <= Len(s) THEN s[i] ELSE t[i - Len(s)]
  BY ConcatProperties
<1> QED
  BY <1>1, <1>2

\* What arrives is the oldest that is left, so it is newer than what arrived.
LEMMA DeliverKeepsOrder == Inv /\ Deliver => Inv'
<1> SUFFICES ASSUME Inv, NEW m \in 1..Len(chan), NEW n \in 1..Len(chan), m <= n,
                    got' = got \o SubSeq(chan, m, n),
                    chan' = SubSeq(chan, n + 1, Len(chan)), last' = last
             PROVE  Inv'
  BY DEF Deliver
<1> DEFINE new == SubSeq(chan, m, n)
<1>1. chan \in Seq(Nat) /\ got \in Seq(Nat) /\ Len(chan) \in Nat /\ Len(got) \in Nat
  BY LenProperties DEF Inv, TypeOK
<1>2. /\ new \in Seq(Nat) /\ Len(new) = n - m + 1
      /\ \A i \in 1..Len(new) : new[i] = chan[m + i - 1] /\ m + i - 1 \in 1..n
  BY <1>1, SubSeqProperties
<1>3. /\ chan' \in Seq(Nat) /\ Len(chan') = Len(chan) - n
      /\ \A j \in 1..Len(chan') : chan'[j] = chan[n + j] /\ n + j \in (n + 1)..Len(chan)
  BY <1>1, SubSeqProperties
<1>4. /\ got' \in Seq(Nat) /\ Len(got') = Len(got) + Len(new)
      /\ \A i \in 1..Len(got) : got'[i] = got[i]
      /\ \A i \in (Len(got) + 1)..Len(got') :
           got'[i] = new[i - Len(got)] /\ i - Len(got) \in 1..Len(new)
  BY <1>1, <1>2, ConcatParts
\* Everything received sits at or before position n of what was on its way.
<1>5. \A i \in 1..Len(got') :
        \/ i \in 1..Len(got) /\ got'[i] = got[i]
        \/ \E k \in 1..n : got'[i] = chan[k] /\ k = m + (i - Len(got)) - 1
  <2> SUFFICES ASSUME NEW i \in 1..Len(got'), i \notin 1..Len(got)
               PROVE  \E k \in 1..n : got'[i] = chan[k] /\ k = m + (i - Len(got)) - 1
    BY <1>4
  <2>1. i \in (Len(got) + 1)..Len(got')
    BY <1>1, <1>2, <1>4
  <2>2. i - Len(got) \in 1..Len(new) /\ got'[i] = new[i - Len(got)]
    BY <1>4, <2>1
  <2> QED
    BY <1>2, <2>2
<1>6. Increasing(got')
  <2> SUFFICES ASSUME NEW i \in 1..Len(got'), NEW j \in 1..Len(got'), i < j
               PROVE  got'[i] < got'[j]
    BY DEF Increasing
  <2>1. CASE j \in 1..Len(got)
    <3>1. i \in 1..Len(got) /\ got'[i] = got[i] /\ got'[j] = got[j]
      BY <1>1, <1>4, <2>1
    <3> QED
      BY <2>1, <3>1 DEF Inv, InOrder, Increasing
  <2>2. CASE j \notin 1..Len(got)
    <3>1. PICK k \in 1..n : got'[j] = chan[k] /\ k = m + (j - Len(got)) - 1
      BY <1>5, <2>2
    <3>2. CASE i \in 1..Len(got)
      BY <1>1, <1>4, <3>1, <3>2 DEF Inv, InOrder
    <3>3. CASE i \notin 1..Len(got)
      <4>1. PICK h \in 1..n : got'[i] = chan[h] /\ h = m + (i - Len(got)) - 1
        BY <1>5, <3>3
      <4>2. h \in 1..Len(chan) /\ k \in 1..Len(chan)
        BY <1>1
      <4>3. i \in Int /\ j \in Int /\ m \in Int /\ Len(got) \in Int
        BY <1>1, <1>4, LenProperties
      <4>4. h < k
        BY <3>1, <4>1, <4>3
      <4> QED
        BY <3>1, <4>1, <4>2, <4>4 DEF Inv, InOrder, Increasing
    <3> QED
      BY <3>2, <3>3
  <2> QED
    BY <2>1, <2>2
<1>7. Increasing(chan')
  <2> SUFFICES ASSUME NEW i \in 1..Len(chan'), NEW j \in 1..Len(chan'), i < j
               PROVE  chan'[i] < chan'[j]
    BY DEF Increasing
  <2>1. n + i \in 1..Len(chan) /\ n + j \in 1..Len(chan) /\ n + i < n + j
    BY <1>1, <1>3
  <2> QED
    BY <1>3, <2>1 DEF Inv, InOrder, Increasing
<1>8. \A i \in 1..Len(got'), j \in 1..Len(chan') : got'[i] < chan'[j]
  <2> SUFFICES ASSUME NEW i \in 1..Len(got'), NEW j \in 1..Len(chan')
               PROVE  got'[i] < chan'[j]
    OBVIOUS
  <2>1. n + j \in 1..Len(chan) /\ chan'[j] = chan[n + j]
    BY <1>1, <1>3
  <2>2. CASE i \in 1..Len(got)
    BY <1>4, <2>1, <2>2 DEF Inv, InOrder
  <2>3. CASE i \notin 1..Len(got)
    <3>1. PICK k \in 1..n : got'[i] = chan[k]
      BY <1>5, <2>3
    <3>2. k \in 1..Len(chan) /\ k < n + j
      BY <1>1, <1>3, SMTT(30)
    <3> QED
      BY <2>1, <3>1, <3>2 DEF Inv, InOrder, Increasing
  <2> QED
    BY <2>2, <2>3
<1>9. \A i \in 1..Len(got') : got'[i] <= last
  <2> SUFFICES ASSUME NEW i \in 1..Len(got') PROVE got'[i] <= last
    OBVIOUS
  <2>1. CASE i \in 1..Len(got)
    BY <1>4, <2>1 DEF Inv, InOrder
  <2>2. CASE i \notin 1..Len(got)
    BY <1>1, <1>5, <2>2 DEF Inv, InOrder
  <2> QED
    BY <2>1, <2>2
<1>10. \A j \in 1..Len(chan') : chan'[j] <= last
  BY <1>1, <1>3 DEF Inv, InOrder
<1> QED
  BY <1>3, <1>4, <1>6, <1>7, <1>8, <1>9, <1>10 DEF Inv, TypeOK, InOrder

\* What is left of a channel when a stretch of it is gone is still in order,
\* and nothing new is in it: an eviction, a dropped packet, a lost command.
LEMMA StretchRemoved ==
  ASSUME NEW s \in Seq(Nat), NEW t \in Seq(Nat), NEW k \in Nat, NEW n \in Nat,
         Increasing(s), Len(t) + n = Len(s),
         \A j \in 1..Len(t) : t[j] = IF j <= k THEN s[j] ELSE s[j + n]
  PROVE  Increasing(t) /\ Range(t) \subseteq Range(s)
<1> DEFINE at(j) == IF j <= k THEN j ELSE j + n
<1>1. Len(t) \in Nat /\ Len(s) \in Nat
  BY LenProperties
<1>2. \A j \in 1..Len(t) : at(j) \in 1..Len(s) /\ t[j] = s[at(j)]
  BY <1>1
<1>3. Increasing(t)
  <2> SUFFICES ASSUME NEW i \in 1..Len(t), NEW j \in 1..Len(t), i < j
               PROVE  t[i] < t[j]
    BY DEF Increasing
  <2>1. at(i) < at(j)
    BY <1>1
  <2> QED
    BY <1>2, <2>1 DEF Increasing
<1>4. DOMAIN s = 1..Len(s) /\ DOMAIN t = 1..Len(t)
  BY LenProperties
<1> QED
  BY <1>2, <1>3, <1>4 DEF Range

\* The same for the oldest of the second part of a channel in two parts.
LEMMA OneLost ==
  ASSUME NEW s \in Seq(Nat), NEW q \in Seq(Nat), q # <<>>, Increasing(s \o q)
  PROVE  /\ s \o Tail(q) \in Seq(Nat) /\ Increasing(s \o Tail(q))
         /\ Range(s \o Tail(q)) \subseteq Range(s \o q)
<1>1. /\ Tail(q) \in Seq(Nat) /\ Len(q) = Len(Tail(q)) + 1
      /\ \A i \in 1..Len(Tail(q)) : Tail(q)[i] = q[i + 1]
  BY TailFacts
<1>2. Len(s) \in Nat /\ Len(q) \in Nat /\ Len(Tail(q)) \in Nat
  BY <1>1, LenProperties
<1>3. /\ s \o q \in Seq(Nat) /\ Len(s \o q) = Len(s) + Len(q)
      /\ \A i \in 1..Len(s) : (s \o q)[i] = s[i]
      /\ \A i \in (Len(s) + 1)..Len(s \o q) :
           (s \o q)[i] = q[i - Len(s)] /\ i - Len(s) \in 1..Len(q)
  BY ConcatParts
<1>4. /\ s \o Tail(q) \in Seq(Nat) /\ Len(s \o Tail(q)) = Len(s) + Len(Tail(q))
      /\ \A i \in 1..Len(s) : (s \o Tail(q))[i] = s[i]
      /\ \A i \in (Len(s) + 1)..Len(s \o Tail(q)) :
           /\ (s \o Tail(q))[i] = Tail(q)[i - Len(s)]
           /\ i - Len(s) \in 1..Len(Tail(q))
  BY <1>1, ConcatParts
<1>5. ASSUME NEW j \in 1..Len(s \o Tail(q))
      PROVE  (s \o Tail(q))[j] = IF j <= Len(s) THEN (s \o q)[j] ELSE (s \o q)[j + 1]
  <2>1. CASE j <= Len(s)
    BY <1>2, <1>3, <1>4, <2>1
  <2>2. CASE ~(j <= Len(s))
    <3>1. j - Len(s) \in 1..Len(Tail(q)) /\ j \in Nat
          /\ (s \o Tail(q))[j] = Tail(q)[j - Len(s)]
      BY <1>2, <1>4, <2>2
    <3>2. Tail(q)[j - Len(s)] = q[(j - Len(s)) + 1]
      BY <1>1, <3>1
    <3>3. j + 1 \in (Len(s) + 1)..Len(s \o q)
      BY <1>1, <1>2, <1>3, <1>4, <2>2, <3>1
    <3>4. (s \o q)[j + 1] = q[(j + 1) - Len(s)] /\ (j + 1) - Len(s) = (j - Len(s)) + 1
      BY <1>2, <1>3, <3>1, <3>3
    <3> QED
      BY <2>2, <3>1, <3>2, <3>4
  <2> QED
    BY <2>1, <2>2
<1>6. Len(s \o Tail(q)) + 1 = Len(s \o q)
  BY <1>1, <1>2, <1>3, <1>4
<1> HIDE DEF Increasing
<1>7. /\ Increasing(s \o Tail(q))
      /\ Range(s \o Tail(q)) \subseteq Range(s \o q)
  BY <1>2, <1>3, <1>4, <1>5, <1>6, StretchRemoved, 1 \in Nat
<1> QED
  BY <1>4, <1>7

\* The same for the whole second part.
LEMMA RestLost ==
  ASSUME NEW s \in Seq(Nat), NEW q \in Seq(Nat), Increasing(s \o q)
  PROVE  Increasing(s) /\ Range(s) \subseteq Range(s \o q)
<1>1. Len(s) \in Nat /\ Len(q) \in Nat
  BY LenProperties
<1>2. /\ s \o q \in Seq(Nat) /\ Len(s) + Len(q) = Len(s \o q)
      /\ \A j \in 1..Len(s) : s[j] = IF j <= Len(s) THEN (s \o q)[j]
                                                    ELSE (s \o q)[j + Len(q)]
  BY <1>1, ConcatParts
<1> QED
  BY <1>1, <1>2, StretchRemoved

\* The parts of a channel in order are in order.
LEMMA PartsInOrder ==
  ASSUME NEW s \in Seq(Nat), NEW q \in Seq(Nat), Increasing(s \o q)
  PROVE  Increasing(s) /\ Increasing(q)
<1>1. Len(s) \in Nat /\ Len(q) \in Nat
  BY LenProperties
<1>2. /\ Len(s \o q) = Len(s) + Len(q)
      /\ \A i \in (Len(s) + 1)..Len(s \o q) :
           (s \o q)[i] = q[i - Len(s)] /\ i - Len(s) \in 1..Len(q)
  BY ConcatParts
<1>3. ASSUME NEW i \in 1..Len(q), NEW j \in 1..Len(q), i < j
      PROVE  q[i] < q[j]
  <2>1. /\ i + Len(s) \in (Len(s) + 1)..Len(s \o q) /\ (i + Len(s)) - Len(s) = i
        /\ j + Len(s) \in (Len(s) + 1)..Len(s \o q) /\ (j + Len(s)) - Len(s) = j
        /\ i + Len(s) < j + Len(s)
        /\ i + Len(s) \in 1..Len(s \o q) /\ j + Len(s) \in 1..Len(s \o q)
    BY <1>1, <1>2, <1>3
  <2>2. (s \o q)[i + Len(s)] < (s \o q)[j + Len(s)]
    BY <2>1 DEF Increasing
  <2> QED
    BY <1>2, <2>1, <2>2
<1> HIDE DEF Increasing
<1>4. Increasing(s)
  BY RestLost
<1>5. Increasing(q)
  BY <1>3 DEF Increasing
<1> QED
  BY <1>4, <1>5

\* Taking the oldest of a channel in order takes it out of its elements.
LEMMA TailRange ==
  ASSUME NEW q \in Seq(Nat), q # <<>>, Increasing(q)
  PROVE  Range(Tail(q)) = Range(q) \ {Head(q)} /\ Head(q) \in Range(q)
<1>1. /\ Tail(q) \in Seq(Nat) /\ Len(q) = Len(Tail(q)) + 1 /\ Head(q) = q[1]
      /\ \A i \in 1..Len(Tail(q)) : Tail(q)[i] = q[i + 1]
      /\ Len(q) \in Nat \ {0}
  BY TailFacts
<1>2. Len(Tail(q)) \in Nat /\ DOMAIN q = 1..Len(q) /\ DOMAIN Tail(q) = 1..Len(Tail(q))
  BY <1>1, LenProperties
<1>3. \A i \in 1..Len(q) : i = 1 \/ (i - 1 \in 1..Len(Tail(q)) /\ (i - 1) + 1 = i)
  BY <1>1, <1>2
<1>4. \A i \in 1..Len(Tail(q)) : i + 1 \in 1..Len(q) /\ 1 < i + 1 /\ 1 \in 1..Len(q)
  BY <1>1, <1>2
<1>5. \A i \in 1..Len(q) : q[i] \in Nat
  BY ElementOfSeq
<1>6. \A i \in 1..Len(Tail(q)) : q[1] < q[i + 1]
  BY <1>4 DEF Increasing
<1>7. ASSUME NEW i \in 1..Len(Tail(q))
      PROVE  Tail(q)[i] \in Range(q) /\ Tail(q)[i] # Head(q)
  <2>1. Tail(q)[i] = q[i + 1] /\ i + 1 \in 1..Len(q) /\ 1 \in 1..Len(q)
    BY <1>1, <1>4
  <2>2. q[1] < q[i + 1] /\ q[1] \in Nat /\ q[i + 1] \in Nat
    BY <1>5, <1>6, <2>1
  <2>3. q[i + 1] # q[1]
    BY <2>2
  <2>4. q[i + 1] \in Range(q)
    BY <1>2, <2>1 DEF Range
  <2> QED
    BY <1>1, <2>1, <2>3, <2>4
<1>8. ASSUME NEW i \in 1..Len(q), q[i] # Head(q)
      PROVE  q[i] \in Range(Tail(q))
  <2>1. i - 1 \in 1..Len(Tail(q)) /\ (i - 1) + 1 = i
    BY <1>1, <1>3, <1>8
  <2>2. Tail(q)[i - 1] = q[i]
    BY <1>1, <2>1
  <2> QED
    BY <1>2, <2>1, <2>2 DEF Range
<1>9. Head(q) \in Range(q)
  BY <1>1, <1>2 DEF Range
<1>10. /\ \A x \in Range(Tail(q)) : x \in Range(q) /\ x # Head(q)
       /\ \A x \in Range(q) : x # Head(q) => x \in Range(Tail(q))
  BY <1>2, <1>7, <1>8 DEF Range
<1> QED
  BY <1>9, <1>10

\* What a reader holds is the oldest of its channel.
LEMMA HeldFirst ==
  ASSUME NEW x \in Nat, NEW q \in Seq(Nat)
  PROVE  /\ <<x>> \o q \in Seq(Nat) /\ <<x>> \o q # <<>> /\ Head(<<x>> \o q) = x
         /\ Tail(<<x>> \o q) = q
<1>1. <<x>> \in Seq(Nat) /\ Len(<<x>>) = 1 /\ <<x>>[1] = x /\ Len(q) \in Nat
  BY LenProperties
<1>2. /\ <<x>> \o q \in Seq(Nat) /\ Len(<<x>> \o q) = 1 + Len(q)
      /\ (<<x>> \o q)[1] = x
      /\ \A i \in 2..(1 + Len(q)) : (<<x>> \o q)[i] = q[i - 1]
  BY <1>1, ConcatParts
<1>3. <<x>> \o q # <<>>
  BY <1>1, <1>2
<1>4. /\ Tail(<<x>> \o q) \in Seq(Nat)
      /\ Len(<<x>> \o q) = Len(Tail(<<x>> \o q)) + 1
      /\ Head(<<x>> \o q) = (<<x>> \o q)[1]
      /\ \A i \in 1..Len(Tail(<<x>> \o q)) : Tail(<<x>> \o q)[i] = (<<x>> \o q)[i + 1]
  BY <1>2, <1>3, TailFacts
<1>5. Len(Tail(<<x>> \o q)) = Len(q)
  BY <1>1, <1>2, <1>4, LenProperties
<1>6. ASSUME NEW i \in 1..Len(q) PROVE Tail(<<x>> \o q)[i] = q[i]
  <2>1. Tail(<<x>> \o q)[i] = (<<x>> \o q)[i + 1]
    BY <1>4, <1>5
  <2>2. i + 1 \in 2..(1 + Len(q)) /\ (i + 1) - 1 = i
    BY <1>1
  <2> QED
    BY <1>2, <2>1, <2>2
<1>7. Tail(<<x>> \o q) = q
  BY <1>4, <1>5, <1>6, SeqEqual
<1> QED
  BY <1>2, <1>3, <1>4, <1>7

\* A reader takes the oldest: nothing in the channel changes.
LEMMA FirstTaken ==
  ASSUME NEW q \in Seq(Nat), q # <<>>
  PROVE  <<Head(q)>> \o Tail(q) = q
<1> DEFINE r == <<Head(q)>> \o Tail(q)
<1>1. /\ Head(q) \in Nat /\ Tail(q) \in Seq(Nat) /\ Head(q) = q[1]
      /\ Len(q) = Len(Tail(q)) + 1 /\ Len(q) \in Nat
      /\ \A i \in 1..Len(Tail(q)) : Tail(q)[i] = q[i + 1]
  BY TailFacts
<1>2. <<Head(q)>> \in Seq(Nat) /\ Len(<<Head(q)>>) = 1 /\ <<Head(q)>>[1] = Head(q)
  BY <1>1
<1>3. Len(Tail(q)) \in Nat
  BY <1>1, LenProperties
<1>4. /\ r \in Seq(Nat) /\ Len(r) = 1 + Len(Tail(q)) /\ r[1] = Head(q)
      /\ \A i \in 2..Len(r) : r[i] = Tail(q)[i - 1] /\ i - 1 \in 1..Len(Tail(q))
  BY <1>1, <1>2, <1>3, ConcatParts
<1> HIDE DEF r
<1>5. ASSUME NEW i \in 1..Len(q) PROVE r[i] = q[i]
  <2>1. CASE i = 1
    BY <1>1, <1>4, <2>1
  <2>2. CASE i # 1
    <3>1. i \in 2..Len(r) /\ (i - 1) + 1 = i
      BY <1>1, <1>3, <1>4, <2>2
    <3>2. r[i] = Tail(q)[i - 1] /\ i - 1 \in 1..Len(Tail(q))
      BY <1>4, <3>1
    <3> QED
      BY <1>1, <3>1, <3>2
  <2> QED
    BY <2>1, <2>2
<1>6. Len(r) = Len(q)
  BY <1>1, <1>3, <1>4
<1>7. r = q
  BY <1>4, <1>5, <1>6, SeqEqual
<1> QED
  BY <1>7 DEF r

\* The oldest one arrives.
LEMMA FirstArrives ==
  ASSUME chan \in Seq(Nat), chan # <<>>, got \in Seq(Nat),
         got' = Append(got, Head(chan)), chan' = Tail(chan), last' = last
  PROVE  Deliver
<1>1. Len(chan) \in Nat \ {0} /\ Head(chan) = chan[1] /\ Head(chan) \in Nat
  BY TailFacts
<1>2. Tail(chan) = SubSeq(chan, 1 + 1, Len(chan))
  BY TailIsSubSeq
<1>3. SubSeq(chan, 1, 1) = <<Head(chan)>>
  <2>1. \A i \in 1..1 : chan[i] \in Nat
    BY <1>1
  <2>2. /\ SubSeq(chan, 1, 1) \in Seq(Nat) /\ Len(SubSeq(chan, 1, 1)) = 1
        /\ SubSeq(chan, 1, 1)[1] = chan[1]
    BY <2>1, SubSeqProperties
  <2>3. /\ <<Head(chan)>> \in Seq(Nat) /\ Len(<<Head(chan)>>) = 1
        /\ <<Head(chan)>>[1] = Head(chan)
    BY <1>1
  <2>4. \A i \in 1..1 : SubSeq(chan, 1, 1)[i] = <<Head(chan)>>[i]
    <3> SUFFICES ASSUME NEW i \in 1..1
                 PROVE  SubSeq(chan, 1, 1)[i] = <<Head(chan)>>[i]
      OBVIOUS
    <3>1. i = 1
      OBVIOUS
    <3> QED
      BY <1>1, <2>2, <2>3, <3>1
  <2> QED
    BY <2>2, <2>3, <2>4, SeqEqual
<1>4. Append(got, Head(chan)) = got \o <<Head(chan)>>
  BY <1>1, AppendIsConcat
<1>5. 1 \in 1..Len(chan) /\ 1 <= 1
  BY <1>1
<1> QED
  BY <1>2, <1>3, <1>4, <1>5 DEF Deliver

\* A new one enters the second part of a channel in two parts.
LEMMA OneSent ==
  ASSUME NEW s \in Seq(Nat), NEW q \in Seq(Nat), NEW x \in Nat
  PROVE  s \o Append(q, x) = Append(s \o q, x)
<1>1. Append(q, x) = q \o <<x>> /\ <<x>> \in Seq(Nat) /\ s \o q \in Seq(Nat)
  BY AppendIsConcat, ConcatProperties
<1>2. Append(s \o q, x) = (s \o q) \o <<x>>
  BY <1>1, AppendIsConcat
<1> QED
  BY <1>1, <1>2, ConcatAssociative

\* A stretch between two others is lost: the lines of a truncated file.
LEMMA StretchLost ==
  ASSUME NEW s \in Seq(Nat), NEW d \in Seq(Nat), NEW q \in Seq(Nat),
         Increasing((s \o d) \o q)
  PROVE  /\ s \o q \in Seq(Nat) /\ Increasing(s \o q)
         /\ Range(s \o q) \subseteq Range((s \o d) \o q)
<1> DEFINE u == s \o d
           v == u \o q
           w == s \o q
<1>1. Len(s) \in Nat /\ Len(d) \in Nat /\ Len(q) \in Nat
  BY LenProperties
<1>2. /\ u \in Seq(Nat) /\ Len(u) = Len(s) + Len(d) /\ \A i \in 1..Len(s) : u[i] = s[i]
  BY ConcatParts
<1>3. /\ w \in Seq(Nat) /\ Len(w) = Len(s) + Len(q) /\ \A i \in 1..Len(s) : w[i] = s[i]
      /\ \A i \in (Len(s) + 1)..Len(w) : w[i] = q[i - Len(s)]
  BY ConcatParts
<1> HIDE DEF u
<1>4. /\ v \in Seq(Nat) /\ Len(v) = Len(u) + Len(q) /\ \A i \in 1..Len(u) : v[i] = u[i]
      /\ \A i \in (Len(u) + 1)..Len(v) : v[i] = q[i - Len(u)]
  BY <1>2, ConcatParts
<1>5. Increasing(v)
  BY DEF u
<1> HIDE DEF v, w
<1>6. \A j \in 1..Len(w) : w[j] = IF j <= Len(s) THEN v[j] ELSE v[j + Len(d)]
  <2> SUFFICES ASSUME NEW j \in 1..Len(w)
               PROVE  w[j] = IF j <= Len(s) THEN v[j] ELSE v[j + Len(d)]
    OBVIOUS
  <2>1. CASE j <= Len(s)
    <3>1. j \in 1..Len(s) /\ j \in 1..Len(u)
      BY <1>1, <1>2, <2>1
    <3> QED
      BY <1>2, <1>3, <1>4, <2>1, <3>1
  <2>2. CASE ~(j <= Len(s))
    <3>1. j \in (Len(s) + 1)..Len(w) /\ j + Len(d) \in (Len(u) + 1)..Len(v)
          /\ (j + Len(d)) - Len(u) = j - Len(s)
      BY <1>1, <1>2, <1>3, <1>4, <2>2, SMTT(30)
    <3> QED
      BY <1>3, <1>4, <2>2, <3>1
  <2> QED
    BY <2>1, <2>2
<1>7. Len(w) + Len(d) = Len(v)
  BY <1>1, <1>2, <1>3, <1>4
<1>8. Increasing(w) /\ Range(w) \subseteq Range(v)
  <2>1. w \in Seq(Nat) /\ v \in Seq(Nat) /\ Len(s) \in Nat /\ Len(d) \in Nat
    BY <1>1, <1>3, <1>4
  <2> QED
    BY <1>5, <1>6, <1>7, <2>1, StretchRemoved
<1> QED
  BY <1>3, <1>8 DEF u, v, w

\* The elements from k + 1 to n.
LEMMA PartFacts ==
  ASSUME NEW s \in Seq(Nat), NEW k \in Nat, NEW n \in Nat, k <= n, n <= Len(s)
  PROVE  /\ SubSeq(s, k + 1, n) \in Seq(Nat)
         /\ Len(SubSeq(s, k + 1, n)) = n - k
         /\ \A i \in 1..(n - k) : SubSeq(s, k + 1, n)[i] = s[k + i]
<1>1. Len(s) \in Nat
  BY LenProperties
<1>2. ASSUME NEW i \in (k + 1)..n PROVE s[i] \in Nat
  <2>1. i \in 1..Len(s)
    BY <1>1
  <2> QED
    BY <2>1, ElementOfSeq
<1>3. k + 1 \in Int /\ n \in Int
  OBVIOUS
<1> DEFINE m == k + 1
           t == SubSeq(s, m, n)
<1>4. /\ t \in Seq(Nat) /\ Len(t) = IF m <= n THEN n - m + 1 ELSE 0
      /\ \A i \in 1..(n - m + 1) : t[i] = s[m + i - 1]
  <2>1. m \in Int /\ n \in Int /\ \A i \in m..n : s[i] \in Nat
    BY <1>2, <1>3
  <2> HIDE DEF m
  <2> QED
    BY <2>1, SubSeqProperties
<1>5. n - m + 1 = n - k /\ (~(m <= n) => n - k = 0)
  OBVIOUS
<1>6. \A i \in 1..(n - k) : m + i - 1 = k + i
  OBVIOUS
<1>7. t = SubSeq(s, k + 1, n)
  OBVIOUS
<1> HIDE DEF t, m
<1>8. Len(t) = n - k
  BY <1>4, <1>5
<1>9. \A i \in 1..(n - k) : t[i] = s[k + i]
  BY <1>4, <1>5, <1>6
<1> QED
  BY <1>4, <1>7, <1>8, <1>9

\* The oldest are lost and the next ones received.
LEMMA OldestArrive ==
  ASSUME NEW d \in Seq(Nat), NEW n \in Seq(Nat), NEW q \in Seq(Nat),
         chan = (d \o n) \o q, Increasing(chan), got \in Seq(Nat),
         got' = got \o n, chan' = q, last' = last
  PROVE  Lose \/ Deliver
<1> DEFINE u == d \o n
           a == Len(d)
           b == Len(n)
           c == Len(q)
<1>1. a \in Nat /\ b \in Nat /\ c \in Nat
  BY LenProperties
<1>2. /\ u \in Seq(Nat) /\ Len(u) = a + b /\ \A i \in 1..a : u[i] = d[i]
      /\ \A i \in (a + 1)..Len(u) : u[i] = n[i - a]
  BY ConcatParts
<1>3. chan = u \o q
  OBVIOUS
<1> HIDE DEF u
<1>4. /\ chan \in Seq(Nat) /\ Len(chan) = Len(u) + c /\ \A i \in 1..Len(u) : chan[i] = u[i]
      /\ \A i \in (Len(u) + 1)..Len(chan) : chan[i] = q[i - Len(u)]
  <2> DEFINE v == u \o q
  <2>1. /\ v \in Seq(Nat) /\ Len(v) = Len(u) + c /\ \A i \in 1..Len(u) : v[i] = u[i]
        /\ \A i \in (Len(u) + 1)..Len(v) : v[i] = q[i - Len(u)]
    BY <1>2, ConcatParts
  <2>2. chan = v
    BY <1>3
  <2> HIDE DEF v
  <2> QED
    BY <2>1, <2>2
<1>5. CASE n = <<>>
  <2>1. got' = got
    BY <1>5, ConcatEmptySeq
  <2>2. Increasing(q) /\ Range(q) \subseteq Range(chan)
    <3>1. Increasing(u \o q)
      BY <1>3
    <3>2. Increasing(q)
      BY <1>2, <3>1, PartsInOrder
    <3>3. Range(u \o q) = Range(u) \cup Range(q)
      BY <1>2, RangeConcatenation
    <3> QED
      BY <1>3, <3>2, <3>3
  <2> QED
    BY <2>1, <2>2 DEF Lose
<1>6. CASE n # <<>>
  <2>1. b \in Nat \ {0}
    BY <1>6, EmptySeq, LenProperties
  <2> DEFINE i == a + 1
             j == a + b
             L == Len(chan)
  <2>2. i \in 1..L /\ j \in 1..L /\ i <= j /\ L \in Nat /\ j \in Nat /\ Len(u) = j
        /\ j <= L /\ j - i + 1 = b /\ L - (j + 1) + 1 = c
    BY <1>1, <1>2, <1>4, <2>1
  <2>3. SubSeq(chan, i, j) = n
    <3>1. chan \in Seq(Nat) /\ a \in Nat /\ j \in Nat /\ a <= j /\ j <= Len(chan) /\ j - a = b
      BY <1>1, <1>4, <2>2
    <3> DEFINE t == SubSeq(chan, i, j)
    <3>2. t \in Seq(Nat) /\ Len(t) = b /\ \A k \in 1..b : t[k] = chan[a + k]
      <4>1. /\ t \in Seq(Nat) /\ Len(t) = j - a
            /\ \A k \in 1..(j - a) : t[k] = chan[a + k]
        <5> HIDE DEF a, b, j
        <5> QED
          BY <3>1, PartFacts
      <4> HIDE DEF t, a, b, j
      <4> QED
        BY <3>1, <4>1
    <3> HIDE DEF t
    <3>3. \A k \in 1..b : t[k] = n[k]
      <4> SUFFICES ASSUME NEW k \in 1..b PROVE t[k] = n[k]
        OBVIOUS
      <4>1. a + k \in (a + 1)..Len(u) /\ a + k \in 1..Len(u) /\ (a + k) - a = k
        <5>1. a \in Nat /\ b \in Nat /\ Len(u) = a + b
          BY <1>1, <1>2
        <5> HIDE DEF a, b
        <5> QED
          BY <5>1
      <4>2. t[k] = chan[a + k]
        BY <3>2
      <4>3. chan[a + k] = u[a + k]
        BY <1>4, <4>1
      <4>4. u[a + k] = n[(a + k) - a]
        BY <1>2, <4>1
      <4> QED
        BY <4>1, <4>2, <4>3, <4>4
    <3> QED
      BY <3>2, <3>3, SeqEqual DEF t
  <2>4. SubSeq(chan, j + 1, L) = q
    <3> DEFINE t == SubSeq(chan, j + 1, L)
    <3>1. chan \in Seq(Nat) /\ j \in Nat /\ L \in Nat /\ j <= L /\ L <= Len(chan) /\ L - j = c
      BY <1>1, <1>4, <2>2
    <3>2. t \in Seq(Nat) /\ Len(t) = c /\ \A k \in 1..c : t[k] = chan[j + k]
      <4>1. /\ t \in Seq(Nat) /\ Len(t) = L - j
            /\ \A k \in 1..(L - j) : t[k] = chan[j + k]
        <5> HIDE DEF j, L
        <5> QED
          BY <3>1, PartFacts
      <4> HIDE DEF t, c, j, L
      <4> QED
        BY <3>1, <4>1
    <3> HIDE DEF t
    <3>3. \A k \in 1..c : t[k] = q[k]
      <4> SUFFICES ASSUME NEW k \in 1..c PROVE t[k] = q[k]
        OBVIOUS
      <4>1. j + k \in (Len(u) + 1)..Len(chan) /\ (j + k) - Len(u) = k
        <5>1. j \in Nat /\ c \in Nat /\ Len(u) = j /\ Len(chan) = j + c
          BY <1>1, <1>4, <2>2
        <5> HIDE DEF j, c
        <5> QED
          BY <5>1
      <4>2. t[k] = chan[j + k]
        BY <3>2
      <4>3. chan[j + k] = q[(j + k) - Len(u)]
        BY <1>4, <4>1
      <4> QED
        BY <4>1, <4>2, <4>3
    <3> QED
      BY <3>2, <3>3, SeqEqual DEF t
  <2> HIDE DEF i, j, L
  <2>5. got' = got \o SubSeq(chan, i, j) /\ chan' = SubSeq(chan, j + 1, L)
    BY <2>3, <2>4
  <2> QED
    BY <2>2, <2>5 DEF Deliver, L
<1> QED
  BY <1>5, <1>6

\* Every step of a channel keeps the order.
LEMMA OrderKept == Inv /\ [Next]_vars => Inv'
<1> SUFFICES ASSUME Inv, [Next]_vars PROVE Inv'
  OBVIOUS
<1>1. CASE UNCHANGED vars
  BY <1>1 DEF vars, Inv, TypeOK, InOrder, Increasing
<1> QED
  BY <1>1, SendKeepsOrder, LoseKeepsOrder, DeliverKeepsOrder DEF Next

\* A lossy channel delivers in order and at most once, for any numbers and any
\* losses: the commands of COMMAND_QUEUE, the lines of the event log, the
\* packets of the bridge.
THEOREM ChannelInOrder == Spec => [](TypeOK /\ InOrder)
<1>1. Init => Inv
  BY DEF Init, Inv, TypeOK, InOrder, Increasing
<1> QED
  BY <1>1, OrderKept, PTL DEF Spec, Inv
=============================================================================
