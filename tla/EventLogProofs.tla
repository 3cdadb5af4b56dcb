--------------------------- MODULE EventLogProofs ---------------------------
(***************************************************************************)
(* Every event that P2Pool prints or another thread logs is on its way     *)
(* once, counted once, or lost once for a reason that is named, and        *)
(* P2Pool's events are counted in order.  Every step is a flow along       *)
(* OnTheWay: it sends a line, drops a stretch of lines, or takes the       *)
(* oldest ones out at the far end.  Both theorems follow from the flows.   *)
(***************************************************************************)
EXTENDS EventLog, SequenceTheorems, FiniteSetTheorems, WellFoundedInduction,
        NaturalsInduction, TLAPS

\* Where the offsets and the lines in hand are, and that RAW_LOG and the
\* reader's buffer hold P2Pool's lines only.
Places ==
  /\ epos <= Len(evlog) /\ (epc = "hydrate" => epos = 0)
  /\ wline # 0 <=> wpc = "write"
  /\ rawPos <= last /\ Len(raw) <= last
  /\ \A i \in Range(raw) \cup Range(ahead) : i <= last /\ kind[i] \in Kinds

\* The four places of OnTheWay that are not a variable.
Filed   == After(evlog, epos)
Written == One(wline)
Opened  == One(block)
Unseen  == After(raw, rawPos)

\* What a step that sends nothing does to the lines on their way: it takes a
\* stretch out of them, or the oldest ones, of which the last are counted.
\* What is not counted is lost, once.
Losing(D) ==
  /\ last' = last /\ kind' = kind
  /\ \E c \in Causes : lost' = [lost EXCEPT ![c] = @ \cup {i \in Range(D) : Shown(i)}]

Drop(X, D, Y) ==
  /\ OnTheWay = X \o D \o Y /\ OnTheWay' = X \o Y
  /\ counted' = counted /\ epos' <= epos + Len(D) /\ Losing(D)

Arrive(D, N, Y) ==
  /\ OnTheWay = D \o N \o Y /\ OnTheWay' = Y
  /\ counted' = counted \o N /\ epos' <= epos + Len(D) + Len(N) /\ Losing(D)

\* What sending a line of kind k does: it takes its place, or is lost.
Sent(X, N, Y, k) ==
  /\ last' = last + 1 /\ kind' = [kind EXCEPT ![last + 1] = k]
  /\ OnTheWay = X \o Y /\ OnTheWay' = X \o N \o Y
  /\ counted' = counted /\ epos' = epos
  /\ \/ N = <<last + 1>> /\ (k = "direct" \/ Y = <<>>) /\ lost' = lost
     \/ N = <<>> /\ k = "dash" /\ lost' = lost
     \/ /\ N = <<>> /\ k # "dash"
        /\ \E c \in Causes : lost' = [lost EXCEPT ![c] = @ \cup {last + 1}]

Flows ==
  \/ \E X, D, Y \in Seq(Lines) : Drop(X, D, Y) \/ Arrive(X, D, Y)
  \/ /\ last + 1 \in Lines
     /\ \E X, N, Y \in Seq(Lines), k \in Kinds \cup {"direct"} : Sent(X, N, Y, k)

\* The part of the way from the queue on, taken together.
Queued == queue \o (Opened \o (ahead \o Unseen))

\* And from the writer's line on.
Behind == Written \o Queued

\* The bounds on the lines sent leave room for one more line while it may be sent.
Budget == Direct \in Nat /\ Direct <= MaxDirect /\ Direct <= last /\ last - Direct <= MaxPrinted

\* The lines still to be counted never exceed those sent since.
Room == epos + Len(OnTheWay) <= last

\* Only lines that were sent are on their way, counted or lost.
Numbered ==
  Range(OnTheWay) \cup Range(counted) \cup UNION {lost[c] : c \in Causes} \subseteq 1..last

\* What every step keeps: the strengthening that makes the accounts inductive.
Known == TypeOK /\ Places /\ Room /\ Numbered /\ Budget

\* The channel's lemmas, for this channel.
FifoLemmas == INSTANCE LossyFifoProofs WITH
  last <- last,
  chan <- Selected(OnTheWay, FromP2Pool),
  got <- Selected(counted, FromP2Pool)

\* What is on its way is in order, and newer than what has been counted.
Ordered == FifoLemmas!Inv

----------------------------------------------------------------------------
(* What Selected returns *)

\* A set of naturals that is not empty has a least element: how a fact about
\* every length is proved here.
LEMMA Least ==
  ASSUME NEW S \in SUBSET Nat, S # {}
  PROVE  \E n \in S : \A m \in S : n <= m
<1>1. PICK x \in S : \A y \in S : ~(<<y, x>> \in OpToRel(<, Nat))
  BY NatLessThanWellFounded, WFMin
<1>2. ASSUME NEW y \in S PROVE x <= y
  <2>1. <<y, x>> \in Nat \X Nat
    OBVIOUS
  <2>2. ~(y < x)
    BY <1>1, <2>1 DEF OpToRel
  <2> QED
    BY <2>2
<1> QED
  BY <1>2

\* f[n] is what Selected finds among the first n elements of s.
Found(s, S, f, n) ==
  IF n = 0 THEN <<>>
  ELSE IF s[n] \in S THEN Append(f[n - 1], s[n]) ELSE f[n - 1]
Chain(s, S, f, m) == f = [n \in 0..m |-> Found(s, S, f, n)]

\* The recursive function in Selected exists, however long s is.
LEMMA ChainExists ==
  ASSUME NEW s, NEW S, NEW m \in Nat
  PROVE  \E f : Chain(s, S, f, m)
<1> DEFINE Bad == {n \in Nat : ~\E f : Chain(s, S, f, n)}
<1>1. ASSUME Bad # {} PROVE FALSE
  <2>1. PICK n \in Bad : \A k \in Bad : n <= k
    BY <1>1, Least
  <2>2. n # 0
    <3>1. Chain(s, S, [k \in 0..0 |-> <<>>], 0)
      BY DEF Chain, Found
    <3> QED
      BY <3>1
  <2>3. n - 1 \in Nat /\ n - 1 \notin Bad
    BY <2>1, <2>2
  <2>4. PICK f : Chain(s, S, f, n - 1)
    BY <2>3
  <2> DEFINE g == [k \in 0..n |-> IF k < n THEN f[k] ELSE Found(s, S, f, n)]
  <2>5. ASSUME NEW k \in 0..n PROVE g[k] = Found(s, S, g, k)
    <3>1. CASE k < n
      <4>1. k \in 0..(n - 1) /\ (k # 0 => k - 1 \in 0..n /\ k - 1 < n)
        BY <3>1, <2>3
      <4>2. g[k] = f[k] /\ f[k] = Found(s, S, f, k)
        BY <2>4, <3>1, <4>1 DEF Chain
      <4>3. k # 0 => g[k - 1] = f[k - 1]
        BY <4>1
      <4> QED
        BY <4>2, <4>3 DEF Found
    <3>2. CASE k = n
      <4>1. n - 1 \in 0..n /\ n - 1 < n /\ ~(k < n) /\ n # 0
        BY <2>2, <2>3, <3>2
      <4>2. g[n - 1] = f[n - 1] /\ g[n] = Found(s, S, f, n)
        BY <4>1
      <4> QED
        BY <3>2, <4>1, <4>2 DEF Found
    <3> QED
      BY <3>1, <3>2
  <2>6. g = [k \in 0..n |-> Found(s, S, g, k)]
    BY <2>5
  <2> QED
    BY <2>1, <2>6 DEF Chain
<1> QED
  BY <1>1

\* The definition of Selected, as a fact.
LEMMA SelectedChain ==
  ASSUME NEW T, NEW s \in Seq(T), NEW S
  PROVE  \E f : Chain(s, S, f, Len(s)) /\ Selected(s, S) = f[Len(s)]
<1> DEFINE c == CHOOSE f : Chain(s, S, f, Len(s))
<1>1. Chain(s, S, c, Len(s))
  BY ChainExists, LenProperties
<1>2. Selected(s, S) = c[Len(s)]
  BY DEF Selected, Chain, Found
<1> QED
  BY <1>1, <1>2

\* And has the values its definition gives it.
LEMMA ChainValue ==
  ASSUME NEW s, NEW S, NEW f, NEW m \in Nat, Chain(s, S, f, m), NEW n \in 0..m
  PROVE  f[n] = Found(s, S, f, n)
  BY DEF Chain

\* What is found are elements of s, in S.
LEMMA ChainParts ==
  ASSUME NEW T, NEW s \in Seq(T), NEW S, NEW f, Chain(s, S, f, Len(s)),
         NEW n \in 0..Len(s)
  PROVE  f[n] \in Seq(T)
<1> DEFINE Bad == {k \in Nat : k <= Len(s) /\ f[k] \notin Seq(T)}
<1>0. Len(s) \in Nat
  BY LenProperties
<1>1. ASSUME Bad # {} PROVE FALSE
  <2>1. PICK k \in Bad : \A j \in Bad : k <= j
    BY <1>1, Least
  <2>2. k \in 0..Len(s) /\ f[k] = Found(s, S, f, k)
    BY <1>0, <2>1, ChainValue
  <2>3. k # 0
    BY <2>1, <2>2, EmptySeq DEF Found
  <2>4. k - 1 \in Nat /\ ~(k <= k - 1) /\ k - 1 <= Len(s) /\ k \in 1..Len(s)
    BY <1>0, <2>2, <2>3
  <2>5. f[k - 1] \in Seq(T)
    BY <2>1, <2>4
  <2>6. s[k] \in T
    BY <2>4, ElementOfSeq
  <2>7. Append(f[k - 1], s[k]) \in Seq(T)
    BY <2>5, <2>6, AppendProperties
  <2> QED
    BY <2>1, <2>2, <2>3, <2>5, <2>7 DEF Found
<1>2. n \in Nat /\ n <= Len(s) /\ n \notin Bad
  BY <1>0, <1>1
<1> QED
  BY <1>2

\* A selection is a sequence of the same things.
LEMMA SelectedSeq ==
  ASSUME NEW T, NEW s \in Seq(T), NEW S
  PROVE  Selected(s, S) \in Seq(T)
<1>1. PICK f : Chain(s, S, f, Len(s)) /\ Selected(s, S) = f[Len(s)]
  BY SelectedChain
<1>2. Len(s) \in 0..Len(s)
  BY LenProperties
<1> QED
  BY <1>1, <1>2, ChainParts

\* Nothing is selected from nothing.
LEMMA SelectedEmpty == ASSUME NEW S PROVE Selected(<<>>, S) = <<>>
<1>1. <<>> \in Seq(S) /\ Len(<<>>) = 0
  BY EmptySeq
<1>2. PICK f : Chain(<<>>, S, f, 0) /\ Selected(<<>>, S) = f[0]
  BY <1>1, SelectedChain
<1>3. f[0] = Found(<<>>, S, f, 0)
  BY <1>2, ChainValue
<1> QED
  BY <1>2, <1>3 DEF Found

\* Selecting goes through a concatenation.
LEMMA SelectedConcat ==
  ASSUME NEW T, NEW s \in Seq(T), NEW t \in Seq(T), NEW S
  PROVE  Selected(s \o t, S) = Selected(s, S) \o Selected(t, S)
<1> DEFINE u == s \o t
<1>0. ASSUME NEW a \in Seq(T), NEW b \in Seq(T), NEW x \in T
      PROVE  Append(a \o b, x) = a \o Append(b, x)
  <2>1. <<x>> \in Seq(T) /\ a \o b \in Seq(T)
    BY ConcatProperties
  <2>2. Append(a \o b, x) = (a \o b) \o <<x>>
    BY <2>1, AppendIsConcat
  <2>3. Append(b, x) = b \o <<x>>
    BY AppendIsConcat
  <2>4. (a \o b) \o <<x>> = a \o (b \o <<x>>)
    BY <2>1, ConcatAssociative
  <2> QED
    BY <2>2, <2>3, <2>4
<1>1. /\ u \in Seq(T) /\ Len(u) = Len(s) + Len(t) /\ Len(s) \in Nat /\ Len(t) \in Nat
      /\ \A i \in 1..(Len(s) + Len(t)) : u[i] = IF i <= Len(s) THEN s[i] ELSE t[i - Len(s)]
  BY ConcatProperties, LenProperties
<1>2. PICK f : Chain(s, S, f, Len(s)) /\ Selected(s, S) = f[Len(s)]
  BY SelectedChain
<1>3. PICK g : Chain(t, S, g, Len(t)) /\ Selected(t, S) = g[Len(t)]
  BY SelectedChain
<1>4. PICK h : Chain(u, S, h, Len(u)) /\ Selected(u, S) = h[Len(u)]
  BY <1>1, SelectedChain
<1> HIDE DEF u
<1>5. ASSUME NEW n \in 0..Len(s) PROVE h[n] = f[n]
  <2> DEFINE Bad == {k \in Nat : k <= Len(s) /\ h[k] # f[k]}
  <2>1. ASSUME Bad # {} PROVE FALSE
    <3>1. PICK k \in Bad : \A j \in Bad : k <= j
      BY <2>1, Least
    <3>2. k \in 0..Len(s) /\ k \in 0..Len(u)
      BY <1>1, <3>1
    <3>3. f[k] = Found(s, S, f, k) /\ h[k] = Found(u, S, h, k)
      BY <1>1, <1>2, <1>4, <3>2, ChainValue
    <3>4. k # 0
      BY <3>1, <3>3 DEF Found
    <3>5. k - 1 \in Nat /\ ~(k <= k - 1) /\ k - 1 <= Len(s) /\ k \in 1..(Len(s) + Len(t)) /\ k <= Len(s)
      BY <1>1, <3>2, <3>4
    <3>6. h[k - 1] = f[k - 1] /\ u[k] = s[k]
      BY <1>1, <3>1, <3>5
    <3> QED
      BY <3>1, <3>3, <3>4, <3>6 DEF Found
  <2>2. n \in Nat /\ n <= Len(s) /\ n \notin Bad
    BY <1>1, <2>1
  <2> QED
    BY <2>2
<1>6. \A n \in 0..Len(t) : f[Len(s)] \in Seq(T) /\ g[n] \in Seq(T)
  <2>1. Len(s) \in 0..Len(s)
    BY <1>1
  <2> QED
    BY <1>2, <1>3, <2>1, ChainParts
<1>7. ASSUME NEW n \in 0..Len(t) PROVE h[Len(s) + n] = f[Len(s)] \o g[n]
  <2> DEFINE Bad == {k \in Nat : k <= Len(t) /\ h[Len(s) + k] # f[Len(s)] \o g[k]}
  <2>1. ASSUME Bad # {} PROVE FALSE
    <3>1. PICK k \in Bad : \A j \in Bad : k <= j
      BY <2>1, Least
    <3>2. k \in 0..Len(t) /\ Len(s) + k \in 0..Len(u) /\ Len(s) \in 0..Len(s)
          /\ 0 \in 0..Len(t) /\ Len(s) + 0 = Len(s)
      BY <1>1, <3>1
    <3>3. g[k] = Found(t, S, g, k) /\ h[Len(s) + k] = Found(u, S, h, Len(s) + k)
      BY <1>1, <1>3, <1>4, <3>2, ChainValue
    <3>4. k # 0
      <4>1. ASSUME k = 0 PROVE FALSE
        <5>1. g[k] = <<>>
          BY <3>3, <4>1 DEF Found
        <5>2. f[Len(s)] \o <<>> = f[Len(s)]
          BY <1>6, <3>2, ConcatEmptySeq
        <5>3. h[Len(s) + k] = f[Len(s)]
          BY <1>5, <3>2, <4>1
        <5> QED
          BY <3>1, <5>1, <5>2, <5>3
      <4> QED
        BY <4>1
    <3>5. /\ k - 1 \in Nat /\ ~(k <= k - 1) /\ k - 1 <= Len(t) /\ k - 1 \in 0..Len(t)
          /\ Len(s) + k \in 1..(Len(s) + Len(t)) /\ ~(Len(s) + k <= Len(s))
          /\ (Len(s) + k) - Len(s) = k /\ (Len(s) + k) - 1 = Len(s) + (k - 1)
          /\ Len(s) + k # 0 /\ k \in 1..Len(t)
      BY <1>1, <3>2, <3>4
    <3>6. h[Len(s) + (k - 1)] = f[Len(s)] \o g[k - 1] /\ u[Len(s) + k] = t[k]
      BY <1>1, <3>1, <3>5
    <3>7. t[k] \in T /\ g[k - 1] \in Seq(T) /\ f[Len(s)] \in Seq(T)
      BY <1>6, <3>5, ElementOfSeq
    <3>8. Append(f[Len(s)] \o g[k - 1], t[k]) = f[Len(s)] \o Append(g[k - 1], t[k])
      <4> DEFINE a == f[Len(s)]
                 b == g[k - 1]
                 x == t[k]
      <4>1. a \in Seq(T) /\ b \in Seq(T) /\ x \in T
        BY <3>7
      <4> HIDE DEF a, b, x
      <4>2. Append(a \o b, x) = a \o Append(b, x)
        BY <4>1, <1>0, Zenon
      <4> QED
        BY <4>2 DEF a, b, x
    <3>9. h[Len(s) + k] = IF t[k] \in S THEN Append(f[Len(s)] \o g[k - 1], t[k])
                                        ELSE f[Len(s)] \o g[k - 1]
      BY <3>3, <3>5, <3>6 DEF Found
    <3>10. g[k] = IF t[k] \in S THEN Append(g[k - 1], t[k]) ELSE g[k - 1]
      BY <3>3, <3>4 DEF Found
    <3> QED
      BY <3>1, <3>8, <3>9, <3>10
  <2>2. n \in Nat /\ n <= Len(t)
    BY <1>1
  <2>3. n \in Bad \/ h[Len(s) + n] = f[Len(s)] \o g[n]
    BY <2>2
  <2>4. n \notin Bad
    BY <2>1
  <2> QED
    BY <2>3, <2>4
<1>8. Len(t) \in 0..Len(t)
  BY <1>1
<1> QED
  BY <1>1, <1>2, <1>3, <1>4, <1>7, <1>8 DEF u

\* One element is selected or not.
LEMMA SelectedOne ==
  ASSUME NEW T, NEW x \in T, NEW S
  PROVE  Selected(<<x>>, S) = IF x \in S THEN <<x>> ELSE <<>>
<1>1. <<x>> \in Seq(T) /\ Len(<<x>>) = 1 /\ <<x>>[1] = x
  OBVIOUS
<1>2. PICK f : Chain(<<x>>, S, f, 1) /\ Selected(<<x>>, S) = f[1]
  BY <1>1, SelectedChain
<1>3. f[0] = Found(<<x>>, S, f, 0) /\ f[1] = Found(<<x>>, S, f, 1)
  BY <1>2, ChainValue
<1>4. f[0] = <<>>
  BY <1>3 DEF Found
<1>5. 1 # 0 /\ 1 - 1 = 0
  OBVIOUS
<1>6. f[1] = IF <<x>>[1] \in S THEN Append(f[1 - 1], <<x>>[1]) ELSE f[1 - 1]
  BY <1>3, <1>5, Zenon DEF Found
<1>7. Append(<<>>, x) = <<x>>
  OBVIOUS
<1> QED
  BY <1>1, <1>2, <1>4, <1>5, <1>6, <1>7

\* Two sets that agree on the elements of s select the same.
LEMMA SelectedSame ==
  ASSUME NEW T, NEW s \in Seq(T), NEW S, NEW R,
         \A i \in 1..Len(s) : s[i] \in S <=> s[i] \in R
  PROVE  Selected(s, S) = Selected(s, R)
<1>0. Len(s) \in Nat
  BY LenProperties
<1>1. PICK f : Chain(s, S, f, Len(s)) /\ Selected(s, S) = f[Len(s)]
  BY SelectedChain
<1>2. PICK g : Chain(s, R, g, Len(s)) /\ Selected(s, R) = g[Len(s)]
  BY SelectedChain
<1> DEFINE Bad == {k \in Nat : k <= Len(s) /\ g[k] # f[k]}
<1>3. ASSUME Bad # {} PROVE FALSE
  <2>1. PICK k \in Bad : \A j \in Bad : k <= j
    BY <1>3, Least
  <2>2. k \in 0..Len(s)
    BY <1>0, <2>1
  <2>3. f[k] = Found(s, S, f, k) /\ g[k] = Found(s, R, g, k)
    BY <1>0, <1>1, <1>2, <2>2, ChainValue
  <2>4. k # 0
    BY <2>1, <2>3 DEF Found
  <2>5. k - 1 \in Nat /\ ~(k <= k - 1) /\ k - 1 <= Len(s) /\ k \in 1..Len(s)
    BY <1>0, <2>2, <2>4
  <2>6. f[k - 1] = g[k - 1]
    BY <2>1, <2>5
  <2> QED
    BY <2>1, <2>3, <2>4, <2>5, <2>6 DEF Found
<1>4. Len(s) \notin Bad
  BY <1>3
<1> QED
  BY <1>0, <1>1, <1>2, <1>4

----------------------------------------------------------------------------
(* Sequences of lines *)

\* Concatenation of lines, as facts about any of them.
LEMMA Joins ==
  /\ <<>> \in Seq(Lines) /\ \A x \in Lines : <<x>> \in Seq(Lines)
  /\ \A a, b \in Seq(Lines) : a \o b \in Seq(Lines)
  /\ \A a \in Seq(Lines) : a \o <<>> = a /\ <<>> \o a = a
  /\ \A a, b, c \in Seq(Lines) : (a \o b) \o c = a \o (b \o c)
  /\ \A a \in Seq(Lines), x \in Lines : Append(a, x) = a \o <<x>>
<1>1. <<>> \in Seq(Lines) /\ \A x \in Lines : <<x>> \in Seq(Lines)
  OBVIOUS
<1>2. ASSUME NEW a \in Seq(Lines), NEW b \in Seq(Lines) PROVE a \o b \in Seq(Lines)
  BY ConcatProperties
<1>3. ASSUME NEW a \in Seq(Lines) PROVE a \o <<>> = a /\ <<>> \o a = a
  BY ConcatEmptySeq
<1>4. ASSUME NEW a \in Seq(Lines), NEW b \in Seq(Lines), NEW c \in Seq(Lines)
      PROVE  (a \o b) \o c = a \o (b \o c)
  BY ConcatAssociative
<1>5. ASSUME NEW a \in Seq(Lines), NEW x \in Lines PROVE Append(a, x) = a \o <<x>>
  BY AppendIsConcat
<1> QED
  BY <1>1, <1>2, <1>3, <1>4, <1>5

\* Concatenation is associative, read from the right.
LEMMA Assoc == \A a, b, c \in Seq(Lines) : a \o (b \o c) = (a \o b) \o c
  BY Joins

\* The same fact about three sequences at hand.
Grouped(a, b, c) == a \o (b \o c) = (a \o b) \o c

LEMMA Regroup ==
  ASSUME NEW a \in Seq(Lines), NEW b \in Seq(Lines), NEW c \in Seq(Lines)
  PROVE  Grouped(a, b, c)
  BY Assoc DEF Grouped

LEMMA Joined ==
  ASSUME NEW a \in Seq(Lines), NEW b \in Seq(Lines)
  PROVE  a \o b \in Seq(Lines)
  BY Joins

\* A sequence is its head and the rest.
LEMMA HeadFirst ==
  ASSUME NEW q \in Seq(Lines), q # <<>>
  PROVE  /\ Head(q) \in Lines /\ Tail(q) \in Seq(Lines) /\ q = <<Head(q)>> \o Tail(q)
<1>1. /\ Head(q) \in Lines /\ Head(q) = q[1] /\ Len(q) \in Nat \ {0}
      /\ Tail(q) \in Seq(Lines) /\ Len(q) = Len(Tail(q)) + 1
      /\ \A i \in 1..Len(Tail(q)) : Tail(q)[i] = q[i + 1]
  OBVIOUS
<1>2. 1 \in 1..Len(q) /\ Len(q) \in 1..Len(q)
  BY <1>1
<1>3. SubSeq(q, 1, Len(q)) = <<q[1]>> \o SubSeq(q, 1 + 1, Len(q))
  BY <1>2, SubSeqRecursiveFirst
<1>4. Tail(q) = SubSeq(q, 2, Len(q)) /\ SubSeq(q, 1, Len(q)) = q
  BY TailIsSubSeq, SubSeqFull
<1> QED
  BY <1>1, <1>3, <1>4

\* What After returns.
LEMMA AfterSeq ==
  ASSUME NEW s \in Seq(Lines), NEW n \in Nat
  PROVE  /\ After(s, n) \in Seq(Lines) /\ After(s, n) = SubSeq(s, n + 1, Len(s))
         /\ n <= Len(s) => Len(After(s, n)) = Len(s) - n
         /\ Len(s) <= n => After(s, n) = <<>>
<1>1. Len(s) \in Nat
  BY LenProperties
<1>2. \A i \in (n + 1)..Len(s) : s[i] \in Lines
  BY <1>1, ElementOfSeq
<1>3. n + 1 \in Int /\ Len(s) \in Int
  BY <1>1
<1>4. SubSeq(s, n + 1, Len(s)) \in Seq(Lines)
      /\ Len(SubSeq(s, n + 1, Len(s))) =
           IF n + 1 <= Len(s) THEN Len(s) - (n + 1) + 1 ELSE 0
  BY <1>2, <1>3, SubSeqProperties
<1>5. Len(s) <= n => Len(s) < n + 1
  BY <1>1
<1>6. Len(s) <= n => SubSeq(s, n + 1, Len(s)) = <<>>
  BY <1>3, <1>5, SubSeqEmpty
<1> QED
  BY <1>1, <1>4, <1>6 DEF After

\* A line appended to a file is the last of what is unread, unless the reader's
\* offset is beyond it.
LEMMA AfterAppend ==
  ASSUME NEW s \in Seq(Lines), NEW n \in Nat, NEW x \in Lines
  PROVE  /\ n <= Len(s) => After(Append(s, x), n) = After(s, n) \o <<x>>
         /\ Len(s) < n => After(Append(s, x), n) = <<>> /\ After(s, n) = <<>>
<1> DEFINE u == Append(s, x)
<1>1. /\ u \in Seq(Lines) /\ Len(u) = Len(s) + 1 /\ u[Len(s) + 1] = x
      /\ \A i \in 1..Len(s) : u[i] = s[i]
      /\ Len(s) \in Nat /\ u = s \o <<x>> /\ <<x>> \in Seq(Lines)
  BY AppendProperties, AppendIsConcat, LenProperties
<1> HIDE DEF u
<1>2. CASE n <= Len(s)
  <2>1. n + 1 \in 1..Len(u) /\ Len(u) \in (n + 1)..Len(u) /\ Len(u) - 1 = Len(s)
    BY <1>1, <1>2
  <2>2. SubSeq(u, n + 1, Len(u)) = SubSeq(u, n + 1, Len(u) - 1) \o <<u[Len(u)]>>
    BY <1>1, <2>1, SubSeqRecursiveSecond
  <2>3. SubSeq(u, n + 1, Len(s)) = SubSeq(s, n + 1, Len(s))
    <3>1. CASE n = Len(s)
      <4>1. Len(s) < n + 1 /\ n + 1 \in Int /\ Len(s) \in Int
        BY <1>1, <3>1
      <4> QED
        BY <4>1, SubSeqEmpty
    <3>2. CASE n < Len(s)
      <4>1. n + 1 \in 1..Len(s) /\ Len(s) \in 1..Len(s)
        BY <1>1, <3>2
      <4> QED
        BY <1>1, <4>1, SubSeqOfConcat1
    <3> QED
      BY <1>1, <1>2, <3>1, <3>2
  <2>4. u[Len(u)] = x
    BY <1>1
  <2>5. After(u, n) = After(s, n) \o <<x>>
    BY <2>1, <2>2, <2>3, <2>4 DEF After
  <2>6. ~(Len(s) < n)
    BY <1>1, <1>2
  <2> QED
    BY <2>5, <2>6 DEF u
<1>3. CASE Len(s) < n
  <2>1. Len(u) <= n /\ Len(s) <= n /\ ~(n <= Len(s))
    BY <1>1, <1>3
  <2>2. After(u, n) = <<>> /\ After(s, n) = <<>>
    BY <1>1, <2>1, AfterSeq
  <2> QED
    BY <2>1, <2>2 DEF u
<1> QED
  BY <1>1, <1>2, <1>3

\* What is unread is one line and the rest of it.
LEMMA AfterFirst ==
  ASSUME NEW s \in Seq(Lines), NEW n \in Nat, n < Len(s)
  PROVE  s[n + 1] \in Lines /\ After(s, n) = <<s[n + 1]>> \o After(s, n + 1)
<1>1. n + 1 \in 1..Len(s) /\ Len(s) \in (n + 1)..Len(s)
  BY LenProperties
<1>2. SubSeq(s, n + 1, Len(s)) = <<s[n + 1]>> \o SubSeq(s, (n + 1) + 1, Len(s))
  BY <1>1, SubSeqRecursiveFirst
<1> QED
  BY <1>1, <1>2, ElementOfSeq DEF After

\* A file is what has been read and what has not.
LEMMA AfterNothing ==
  ASSUME NEW s \in Seq(Lines), NEW n \in 0..Len(s)
  PROVE  /\ SubSeq(s, 1, n) \in Seq(Lines) /\ Len(SubSeq(s, 1, n)) = n
         /\ After(s, 0) = s /\ s = SubSeq(s, 1, n) \o After(s, n)
         /\ Range(SubSeq(s, 1, n)) = {s[i] : i \in 1..n}
<1>1. /\ Len(s) \in Nat /\ 1 \in 1..Len(s) + 1 /\ n \in 1 - 1..Len(s) /\ Len(s) \in n..Len(s)
      /\ n \in Int /\ 1 \in Int
  BY LenProperties
<1>2. SubSeq(s, 1, n) \o SubSeq(s, n + 1, Len(s)) = SubSeq(s, 1, Len(s))
  BY <1>1, ConcatAdjacentSubSeq
<1>3. SubSeq(s, 1, Len(s)) = s
  BY SubSeqFull
<1>4. \A i \in 1..n : s[i] \in Lines
  BY <1>1, ElementOfSeq
<1>5. /\ SubSeq(s, 1, n) \in Seq(Lines)
      /\ Len(SubSeq(s, 1, n)) = IF 1 <= n THEN n - 1 + 1 ELSE 0
      /\ \A i \in 1..(n - 1 + 1) : SubSeq(s, 1, n)[i] = s[1 + i - 1]
  BY <1>1, <1>4, SubSeqProperties
<1>6. Len(SubSeq(s, 1, n)) = n /\ \A i \in 1..n : SubSeq(s, 1, n)[i] = s[i]
  BY <1>1, <1>5
<1>7. Range(SubSeq(s, 1, n)) = {SubSeq(s, 1, n)[i] : i \in 1..n}
  BY <1>5, <1>6, RangeEquality
<1>8. Range(SubSeq(s, 1, n)) = {s[i] : i \in 1..n}
  BY <1>6, <1>7
<1>9. 0 + 1 = 1
  OBVIOUS
<1>10. After(s, 0) = s
  BY <1>3, <1>9 DEF After
<1>11. s = SubSeq(s, 1, n) \o After(s, n)
  BY <1>2, <1>3, Zenon DEF After
<1> QED
  BY <1>5, <1>6, <1>8, <1>10, <1>11, Zenon

----------------------------------------------------------------------------
(* Every step is a flow *)

\* The parts of the way are sequences of lines.
LEMMA Parts ==
  ASSUME TypeOK, Places
  PROVE  /\ Filed \in Seq(Lines) /\ Written \in Seq(Lines) /\ queue \in Seq(Lines)
         /\ Opened \in Seq(Lines) /\ ahead \in Seq(Lines) /\ Unseen \in Seq(Lines)
         /\ counted \in Seq(Lines)
         /\ OnTheWay = Filed \o Written \o queue \o Opened \o ahead \o Unseen
         /\ wline # 0 => wline \in Lines /\ Written = <<wline>>
         /\ block # 0 => block \in Lines /\ Opened = <<block>>
         /\ wline = 0 => Written = <<>>
         /\ block = 0 => Opened = <<>>
         /\ lost \in [Causes -> SUBSET Lines]
         /\ OnTheWay \in Seq(Lines)
<1>1. evlog \in Seq(Lines) /\ epos \in Nat /\ raw \in Seq(Lines) /\ rawPos \in Nat
  BY DEF TypeOK
<1>2. Filed \in Seq(Lines) /\ Unseen \in Seq(Lines)
  BY <1>1, AfterSeq DEF Filed, Unseen
<1>3. (wline # 0 => wline \in Lines) /\ (block # 0 => block \in Lines)
  BY BoundsAssumption DEF TypeOK, Lines, MaxLines
<1>4. Written \in Seq(Lines) /\ Opened \in Seq(Lines)
  BY <1>3, Joins DEF Written, Opened, One
<1>5. OnTheWay = Filed \o Written \o queue \o Opened \o ahead \o Unseen
  BY DEF OnTheWay, Filed, Written, Opened, Unseen
<1>6. queue \in Seq(Lines) /\ ahead \in Seq(Lines)
  BY DEF TypeOK
<1>7. Filed \o Written \o queue \in Seq(Lines)
  BY <1>2, <1>4, <1>6, Joins
<1>8. OnTheWay \in Seq(Lines)
  BY <1>2, <1>4, <1>5, <1>6, <1>7, Joins
<1> QED
  BY <1>2, <1>3, <1>4, <1>5, <1>8 DEF TypeOK, Written, Opened, One

\* Steps that lose nothing and leave every line where it is in the order.
LEMMA NothingLost ==
  ASSUME TypeOK, OnTheWay \in Seq(Lines), OnTheWay' = OnTheWay, counted' = counted,
         epos' <= epos, last' = last, kind' = kind, lost' = lost
  PROVE  Flows
<1>1. <<>> \in Seq(Lines) /\ Range(<<>>) = {} /\ Len(<<>>) = 0
  <2>1. <<>> \in Seq(Lines) /\ Len(<<>>) = 0
    BY EmptySeq
  <2>2. Range(<<>>) = {<<>>[i] : i \in 1..Len(<<>>)}
    BY <2>1, RangeEquality
  <2>3. 1..0 = {}
    OBVIOUS
  <2> QED
    BY <2>1, <2>2, <2>3
<1>2. OnTheWay = OnTheWay \o <<>> \o <<>> /\ OnTheWay' = OnTheWay \o <<>>
  BY <1>1, Joins
<1>3. Losing(<<>>)
  <2>1. "old" \in Causes /\ {i \in Range(<<>>) : Shown(i)} = {}
    BY <1>1 DEF Causes
  <2>2. lost' = [lost EXCEPT !["old"] = @ \cup {}]
    BY <2>1 DEF TypeOK
  <2> QED
    BY <2>1, <2>2 DEF Losing
<1>4. epos' <= epos + Len(<<>>)
  BY <1>1 DEF TypeOK
<1>5. Drop(OnTheWay, <<>>, <<>>)
  BY <1>2, <1>3, <1>4 DEF Drop
<1> QED
  BY <1>1, <1>5 DEF Flows

\* RawLogProcessor fills its buffer: nothing moves along the way.
LEMMA FetchFlows == ASSUME TypeOK, Places, Fetch PROVE Flows
<1>1. /\ Filed' = Filed /\ Written' = Written /\ queue' = queue /\ Opened' = Opened
      /\ ahead = <<>> /\ ahead' = Unseen
      /\ counted' = counted /\ epos' = epos /\ last' = last /\ kind' = kind /\ lost' = lost
  BY DEF Fetch, Filed, Written, Opened, Unseen, After, One, writer, events
<1>2. Unseen' = <<>>
  <2>1. raw \in Seq(Lines) /\ Len(raw) \in Nat /\ raw' = raw /\ rawPos' = Len(raw)
    BY LenProperties DEF TypeOK, Fetch
  <2>2. After(raw, Len(raw)) = <<>>
    BY <2>1, AfterSeq
  <2> QED
    BY <2>1, <2>2 DEF Unseen
<1>3. OnTheWay' = Filed \o Written \o queue \o Opened \o Unseen \o <<>>
  BY <1>1, <1>2 DEF OnTheWay, Filed, Written, Opened, Unseen
<1> DEFINE F == Filed \o Written \o queue \o Opened
<1>4. F \in Seq(Lines) /\ F \o Unseen \in Seq(Lines)
  BY Parts, Joins
<1>5. OnTheWay = F \o <<>> \o Unseen
  BY <1>1, Parts
<1>6. F \o <<>> = F /\ F \o Unseen \o <<>> = F \o Unseen
  BY <1>4, Joins
<1>7. OnTheWay' = OnTheWay /\ OnTheWay \in Seq(Lines) /\ epos' <= epos
  BY <1>1, <1>3, <1>4, <1>5, <1>6 DEF TypeOK
<1> QED
  BY <1>1, <1>7, NothingLost

\* log_event_now takes a line into the queue, or loses it.
LEMMA Logged ==
  ASSUME TypeOK, NEW x \in Lines, LogEvent(x)
  PROVE  \/ queue' = queue \o <<x>> /\ lost' = lost
         \/ queue' = queue /\ lost' = [lost EXCEPT !["full"] = @ \cup {i \in {x} : Shown(i)}]
  BY Joins DEF LogEvent, Lose, TypeOK

\* One line is lost.
LEMMA OneDropped ==
  ASSUME TypeOK, NEW X \in Seq(Lines), NEW x \in Lines, NEW Y \in Seq(Lines),
         OnTheWay = X \o <<x>> \o Y, OnTheWay' = X \o Y,
         counted' = counted, epos' = epos, last' = last, kind' = kind,
         NEW c \in Causes,
         \/ lost' = [lost EXCEPT ![c] = @ \cup {i \in {x} : Shown(i)}]
         \/ lost' = lost /\ ~Shown(x)
  PROVE  Flows
<1>1. <<x>> \in Seq(Lines) /\ Range(<<x>>) = {x} /\ Len(<<x>>) = 1
  <2>1. <<x>> \in Seq(Lines) /\ Len(<<x>>) = 1 /\ <<x>>[1] = x
    OBVIOUS
  <2>2. Range(<<x>>) = {<<x>>[i] : i \in 1..1}
    BY <2>1, RangeEquality
  <2>3. 1..1 = {1}
    OBVIOUS
  <2> QED
    BY <2>1, <2>2, <2>3
<1>2. lost' = [lost EXCEPT ![c] = @ \cup {i \in Range(<<x>>) : Shown(i)}]
  <2>1. CASE lost' = lost /\ ~Shown(x)
    <3>1. {i \in Range(<<x>>) : Shown(i)} = {}
      BY <1>1, <2>1
    <3>2. lost = [lost EXCEPT ![c] = @ \cup {}]
      BY DEF TypeOK
    <3> QED
      BY <2>1, <3>1, <3>2
  <2> QED
    BY <1>1, <2>1
<1>3. Losing(<<x>>)
  BY <1>2 DEF Losing
<1>4. epos' <= epos + Len(<<x>>)
  BY <1>1 DEF TypeOK
<1>5. Drop(X, <<x>>, Y)
  BY <1>3, <1>4 DEF Drop
<1> QED
  BY <1>1, <1>5 DEF Flows

\* The head of the reader's buffer is gone, and what is before the buffer on
\* the way has become G instead of F.
LEMMA HeadRead ==
  ASSUME TypeOK, Places, Unread, ReadLine, raw' = raw,
         NEW G \in Seq(Lines),
         OnTheWay' = G \o ahead' \o Unseen'
  PROVE  /\ Line \in Lines /\ Tail(ahead) \o Unseen \in Seq(Lines)
         /\ OnTheWay' = G \o (Tail(ahead) \o Unseen)
         /\ OnTheWay = Filed \o Written \o queue \o Opened \o <<Line>> \o (Tail(ahead) \o Unseen)
         /\ Filed \o Written \o queue \o Opened \in Seq(Lines)
         /\ Filed \o Written \o queue \in Seq(Lines)
<1>1. ahead \in Seq(Lines) /\ ahead # <<>> /\ ahead' = Tail(ahead) /\ Unseen' = Unseen
  BY DEF TypeOK, Unread, ReadLine, Unseen
<1>2. /\ Line \in Lines /\ Tail(ahead) \in Seq(Lines) /\ ahead = <<Line>> \o Tail(ahead)
  BY <1>1, HeadFirst DEF Line
<1>3. /\ Filed \o Written \o queue \in Seq(Lines)
      /\ Filed \o Written \o queue \o Opened \in Seq(Lines) /\ Unseen \in Seq(Lines)
  BY Parts, Joins
<1>8. <<Line>> \in Seq(Lines)
  BY <1>2, Joins
<1>4. OnTheWay = (Filed \o Written \o queue \o Opened) \o (<<Line>> \o Tail(ahead)) \o Unseen
  BY <1>2, Parts
<1>5. OnTheWay' = G \o Tail(ahead) \o Unseen
  BY <1>1
<1>6. OnTheWay = Filed \o Written \o queue \o Opened \o <<Line>> \o (Tail(ahead) \o Unseen)
  <2> DEFINE F == Filed \o Written \o queue \o Opened
             l == <<Line>>
             t == Tail(ahead)
  <2>1. F \in Seq(Lines) /\ l \in Seq(Lines) /\ t \in Seq(Lines) /\ Unseen \in Seq(Lines)
    BY <1>2, <1>3, <1>8
  <2>11. OnTheWay = F \o (l \o t) \o Unseen
    BY <1>4
  <2> HIDE DEF F, l, t
  <2>2. F \o (l \o t) = (F \o l) \o t
    <3>1. Grouped(F, l, t)
      BY <2>1, Regroup
    <3> QED
      BY <3>1 DEF Grouped
  <2> DEFINE E == F \o l
  <2>3. E \in Seq(Lines)
    BY <2>1, Joined
  <2>4. OnTheWay = E \o t \o Unseen
    BY <2>2, <2>11
  <2> HIDE DEF E
  <2>5. E \o t \o Unseen = E \o (t \o Unseen)
    <3>1. Grouped(E, t, Unseen)
      BY <2>1, <2>3, Regroup
    <3> QED
      BY <3>1 DEF Grouped
  <2>6. OnTheWay = E \o (t \o Unseen)
    BY <2>4, <2>5
  <2> QED
    BY <2>6 DEF E, F, l, t
<1>7. OnTheWay' = G \o (Tail(ahead) \o Unseen) /\ Tail(ahead) \o Unseen \in Seq(Lines)
  <2> DEFINE T == Tail(ahead)
  <2>1. T \in Seq(Lines) /\ Unseen \in Seq(Lines) /\ OnTheWay' = G \o T \o Unseen
    BY <1>2, <1>3, <1>5
  <2> HIDE DEF T
  <2>2. G \o (T \o Unseen) = G \o T \o Unseen
    BY <2>1, Assoc
  <2>3. T \o Unseen \in Seq(Lines)
    BY <2>1, Joins
  <2> QED
    BY <2>1, <2>2, <2>3 DEF T
<1> QED
  BY <1>2, <1>3, <1>6, <1>7

\* _classify_line knows the line: it goes into the queue, or is lost there.
LEMMA ReadEventFlows == ASSUME TypeOK, Places, ReadEvent PROVE Flows
<1>1. /\ Unread /\ ReadLine /\ raw' = raw /\ block = 0 /\ block' = 0
      /\ Filed' = Filed /\ Written' = Written /\ LogEvent(Line)
      /\ counted' = counted /\ epos' = epos /\ last' = last /\ kind' = kind
  BY DEF ReadEvent, Filed, Written, After, One, writer, events
<1>2. Opened = <<>> /\ Opened' = <<>>
  BY <1>1 DEF Opened, One
<1> DEFINE F == Filed \o Written \o queue
<1>3. OnTheWay' = (Filed \o Written \o queue' \o <<>>) \o ahead' \o Unseen'
  BY <1>1, <1>2 DEF OnTheWay, Filed, Written, Opened, Unseen
<1>4. ahead \in Seq(Lines) /\ ahead # <<>> /\ Line \in Lines
  BY <1>1, HeadFirst DEF TypeOK, Unread, Line
<1>5. F \in Seq(Lines) /\ F \o <<>> = F /\ Filed \o Written \in Seq(Lines)
  BY Parts, Joins
<1>6. CASE queue' = queue \o <<Line>> /\ lost' = lost
  <2>1. Filed \o Written \o queue' = F \o <<Line>> /\ F \o <<Line>> \in Seq(Lines)
    <3>1. <<Line>> \in Seq(Lines) /\ queue \in Seq(Lines)
      BY <1>4, Joins DEF TypeOK
    <3>2. (Filed \o Written) \o (queue \o <<Line>>) = (Filed \o Written \o queue) \o <<Line>>
      BY <1>5, <3>1, Joins
    <3> QED
      BY <1>5, <1>6, <3>1, <3>2, Joins
  <2>2. F \o <<Line>> \o <<>> = F \o <<Line>>
    BY <2>1, Joins
  <2>3. OnTheWay' = (F \o <<Line>>) \o ahead' \o Unseen'
    BY <1>3, <2>1, <2>2
  <2>4. OnTheWay' = (F \o <<Line>>) \o (Tail(ahead) \o Unseen)
        /\ OnTheWay = F \o <<>> \o <<Line>> \o (Tail(ahead) \o Unseen)
        /\ Tail(ahead) \o Unseen \in Seq(Lines)
    BY <1>1, <1>2, <2>1, <2>3, HeadRead
  <2>5. OnTheWay' = OnTheWay /\ OnTheWay \in Seq(Lines) /\ epos' <= epos
    BY <1>1, <1>5, <2>1, <2>4, Joins DEF TypeOK
  <2> QED
    BY <1>1, <1>6, <2>5, NothingLost
<1>7. CASE queue' = queue /\ lost' = [lost EXCEPT !["full"] = @ \cup {i \in {Line} : Shown(i)}]
  <2>1. OnTheWay' = F \o ahead' \o Unseen'
    BY <1>3, <1>5, <1>7
  <2>2. OnTheWay' = F \o (Tail(ahead) \o Unseen)
        /\ OnTheWay = F \o <<>> \o <<Line>> \o (Tail(ahead) \o Unseen)
        /\ Tail(ahead) \o Unseen \in Seq(Lines)
    BY <1>1, <1>2, <1>5, <2>1, HeadRead
  <2>3. OnTheWay = F \o <<Line>> \o (Tail(ahead) \o Unseen) /\ "full" \in Causes
    BY <1>5, <2>2 DEF Causes
  <2> QED
    BY <1>1, <1>4, <1>5, <1>7, <2>2, <2>3, OneDropped
<1> QED
  BY <1>1, <1>4, <1>6, <1>7, Logged

\* A line is added at the end of a part in the middle.
LEMMA LastOut ==
  ASSUME NEW F \in Seq(Lines), NEW q \in Seq(Lines), NEW x \in Lines
  PROVE  F \o (q \o <<x>>) = (F \o q) \o <<x>> /\ (F \o q) \o <<x>> \in Seq(Lines)
<1>1. <<x>> \in Seq(Lines)
  BY Joins
<1> QED
  BY <1>1, Joins

\* A block begins, or a line is skipped.
LEMMA ReadOtherFlows == ASSUME TypeOK, Places, ReadOther PROVE Flows
<1>1. /\ Unread /\ ReadLine /\ raw' = raw /\ block = 0 /\ kind[Line] # "event"
      /\ block' = (IF kind[Line] = "data" THEN Line ELSE 0)
      /\ Filed' = Filed /\ Written' = Written /\ queue' = queue
      /\ counted' = counted /\ epos' = epos /\ last' = last /\ kind' = kind /\ lost' = lost
  BY DEF ReadOther, Filed, Written, After, One, writer, events
<1>2. Opened = <<>>
  BY <1>1 DEF Opened, One
<1> DEFINE F == Filed \o Written \o queue
<1>3. OnTheWay' = F \o Opened' \o ahead' \o Unseen'
  BY <1>1 DEF OnTheWay, Filed, Written, Opened, Unseen
<1>4. ahead \in Seq(Lines) /\ ahead # <<>> /\ Line \in Lines /\ Line # 0
  <2>1. ahead \in Seq(Lines) /\ ahead # <<>> /\ Line \in Lines
    BY <1>1, HeadFirst DEF TypeOK, Unread, Line
  <2> QED
    BY <2>1 DEF Lines
<1>5. F \in Seq(Lines) /\ F \o <<>> = F
  BY Parts, Joins
<1>6. CASE kind[Line] = "data"
  <2>1. Opened' = <<Line>> /\ F \o <<Line>> \in Seq(Lines)
    BY <1>1, <1>4, <1>5, <1>6, Joins DEF Opened, One
  <2>2. OnTheWay' = (F \o <<Line>>) \o ahead' \o Unseen'
    BY <1>3, <2>1
  <2>3. OnTheWay' = (F \o <<Line>>) \o (Tail(ahead) \o Unseen)
        /\ OnTheWay = F \o <<>> \o <<Line>> \o (Tail(ahead) \o Unseen)
        /\ Tail(ahead) \o Unseen \in Seq(Lines)
    BY <1>1, <1>2, <2>1, <2>2, HeadRead
  <2>4. OnTheWay' = OnTheWay /\ OnTheWay \in Seq(Lines) /\ epos' <= epos
    BY <1>1, <1>5, <2>1, <2>3, Joins DEF TypeOK
  <2> QED
    BY <1>1, <2>4, NothingLost
<1>7. CASE kind[Line] # "data"
  <2>1. Opened' = <<>>
    BY <1>1, <1>7 DEF Opened, One
  <2>2. OnTheWay' = F \o ahead' \o Unseen'
    BY <1>3, <1>5, <2>1
  <2>3. OnTheWay' = F \o (Tail(ahead) \o Unseen)
        /\ OnTheWay = F \o <<>> \o <<Line>> \o (Tail(ahead) \o Unseen)
        /\ Tail(ahead) \o Unseen \in Seq(Lines)
    BY <1>1, <1>2, <1>5, <2>2, HeadRead
  <2>4. OnTheWay = F \o <<Line>> \o (Tail(ahead) \o Unseen) /\ "full" \in Causes
    BY <1>5, <2>3 DEF Causes
  <2>5. Line \in Range(ahead) /\ kind[Line] \in Kinds
    <3>1. Range(ahead) = {ahead[i] : i \in 1..Len(ahead)} /\ 1 \in 1..Len(ahead) /\ Line = ahead[1]
      BY <1>4, RangeEquality, LenProperties, EmptySeq DEF Line
    <3> QED
      BY <3>1 DEF Places
  <2>6. ~Shown(Line)
    BY <1>1, <1>7, <2>5 DEF Shown, Kinds
  <2> QED
    BY <1>1, <1>4, <1>5, <2>3, <2>4, <2>6, OneDropped
<1> QED
  BY <1>6, <1>7

\* A line inside a block is swallowed.
LEMMA CollectFlows == ASSUME TypeOK, Places, Collect PROVE Flows
<1>1. /\ Unread /\ ReadLine /\ raw' = raw /\ block' = block
      /\ Filed' = Filed /\ Written' = Written /\ queue' = queue /\ Opened' = Opened
      /\ counted' = counted /\ epos' = epos /\ last' = last /\ kind' = kind
      /\ lost' = [lost EXCEPT !["swallowed"] = @ \cup {i \in {Line} : Shown(i)}]
  BY DEF Collect, Lose, Filed, Written, Opened, After, One, writer, events
<1> DEFINE F == Filed \o Written \o queue \o Opened
<1>2. OnTheWay' = F \o ahead' \o Unseen'
  BY <1>1 DEF OnTheWay, Filed, Written, Opened, Unseen
<1>3. ahead \in Seq(Lines) /\ ahead # <<>> /\ Line \in Lines /\ "swallowed" \in Causes
  BY <1>1, HeadFirst DEF TypeOK, Unread, Line, Causes
<1>4. F \in Seq(Lines)
  BY Parts, Joins
<1>5. OnTheWay' = F \o (Tail(ahead) \o Unseen)
      /\ OnTheWay = F \o <<Line>> \o (Tail(ahead) \o Unseen)
      /\ Tail(ahead) \o Unseen \in Seq(Lines)
  BY <1>1, <1>2, <1>4, HeadRead
<1> QED
  BY <1>1, <1>3, <1>4, <1>5, OneDropped

\* The block is logged as its first line, and the dash skipped.
LEMMA EndBlockFlows == ASSUME TypeOK, Places, EndBlock PROVE Flows
<1>1. /\ Unread /\ ReadLine /\ raw' = raw /\ block # 0 /\ block' = 0
      /\ kind[Line] = "dash" /\ Filed' = Filed /\ Written' = Written /\ LogEvent(block)
      /\ counted' = counted /\ epos' = epos /\ last' = last /\ kind' = kind
  BY DEF EndBlock, Filed, Written, After, One, writer, events
<1>2. Opened = <<block>> /\ Opened' = <<>> /\ block \in Lines /\ <<block>> \in Seq(Lines)
  BY <1>1, Parts, Joins DEF Opened, One
<1> DEFINE F == Filed \o Written \o queue
<1>3. OnTheWay' = (Filed \o Written \o queue' \o <<>>) \o ahead' \o Unseen'
  BY <1>1, <1>2 DEF OnTheWay, Filed, Written, Opened, Unseen
<1>4. ahead \in Seq(Lines) /\ ahead # <<>> /\ Line \in Lines /\ <<Line>> \in Seq(Lines)
      /\ ~Shown(Line)
  BY <1>1, HeadFirst, Joins DEF TypeOK, Unread, Line, Shown
<1>5. F \in Seq(Lines) /\ F \o <<>> = F /\ Filed \o Written \in Seq(Lines)
      /\ F \o <<block>> \in Seq(Lines)
  BY <1>2, Parts, Joins
<1>6. CASE queue' = queue \o <<block>> /\ lost' = lost
  <2>1. queue \in Seq(Lines)
    BY DEF TypeOK
  <2>2. (Filed \o Written) \o (queue \o <<block>>) = (Filed \o Written \o queue) \o <<block>>
    BY <1>2, <1>5, <2>1, LastOut
  <2>3. (F \o <<block>>) \o <<>> = F \o <<block>>
    BY <1>5, Joins
  <2>4. OnTheWay' = (F \o <<block>>) \o ahead' \o Unseen'
    BY <1>3, <1>6, <2>2, <2>3
  <2>5. OnTheWay' = (F \o <<block>>) \o (Tail(ahead) \o Unseen)
        /\ OnTheWay = F \o <<block>> \o <<Line>> \o (Tail(ahead) \o Unseen)
        /\ Tail(ahead) \o Unseen \in Seq(Lines)
    BY <1>1, <1>2, <1>5, <2>4, HeadRead
  <2>6. "full" \in Causes
    BY DEF Causes
  <2> QED
    BY <1>1, <1>4, <1>5, <1>6, <2>5, <2>6, OneDropped
<1>7. CASE queue' = queue /\ lost' = [lost EXCEPT !["full"] = @ \cup {i \in {block} : Shown(i)}]
  <2>1. OnTheWay' = F \o ahead' \o Unseen'
    BY <1>3, <1>5, <1>7
  <2>2. OnTheWay' = F \o (Tail(ahead) \o Unseen)
        /\ OnTheWay = F \o <<block>> \o <<Line>> \o (Tail(ahead) \o Unseen)
        /\ Tail(ahead) \o Unseen \in Seq(Lines)
    BY <1>1, <1>2, <1>5, <2>1, HeadRead
  <2> DEFINE D == <<block>> \o <<Line>>
  <2>3. (F \o <<block>>) \o <<Line>> = F \o D /\ D \in Seq(Lines)
    <3> DEFINE one == <<block>>
               two == <<Line>>
    <3>1. one \in Seq(Lines) /\ two \in Seq(Lines) /\ F \in Seq(Lines)
      BY <1>2, <1>4, <1>5
    <3> HIDE DEF one, two, F
    <3>2. (F \o one) \o two = F \o (one \o two) /\ one \o two \in Seq(Lines)
      BY <3>1, Joins
    <3> QED
      BY <3>2 DEF one, two
  <2>4. OnTheWay = F \o D \o (Tail(ahead) \o Unseen)
    BY <2>2, <2>3
  <2>5. Range(D) = {block, Line} /\ Len(D) \in Nat
    <3>1. Range(D) = Range(<<block>>) \cup Range(<<Line>>)
      <4> DEFINE one == <<block>>
                 two == <<Line>>
      <4>1. one \in Seq(Lines) /\ two \in Seq(Lines)
        BY <1>2, <1>4, Joins
      <4> HIDE DEF one, two
      <4>2. Range(one \o two) = Range(one) \cup Range(two)
        BY <4>1, RangeConcatenation
      <4> QED
        BY <4>2 DEF one, two
    <3>2. \A x \in Lines : Range(<<x>>) = {x}
      BY DEF Range
    <3> QED
      BY <1>2, <1>4, <2>3, <3>1, <3>2, LenProperties
  <2>6. {i \in Range(D) : Shown(i)} = {i \in {block} : Shown(i)}
    BY <1>4, <2>5
  <2>7. "full" \in Causes
    BY DEF Causes
  <2>8. Losing(D)
    BY <1>1, <1>7, <2>6, <2>7 DEF Losing
  <2>9. epos' <= epos + Len(D)
    BY <1>1, <2>5 DEF TypeOK
  <2> HIDE DEF D
  <2>10. Drop(F, D, Tail(ahead) \o Unseen)
    BY <1>1, <2>2, <2>4, <2>8, <2>9 DEF Drop
  <2> QED
    BY <1>5, <2>2, <2>3, <2>10 DEF Flows
<1> QED
  BY <1>1, <1>2, <1>6, <1>7, Logged

\* restart_p2pool loses the stretch nobody has fetched.
LEMMA TruncateFlows == ASSUME TypeOK, Places, Truncate PROVE Flows
<1>1. /\ Filed' = Filed /\ Written' = Written /\ queue' = queue /\ Opened' = Opened
      /\ ahead' = ahead /\ raw' = <<>> /\ rawPos' = rawPos
      /\ counted' = counted /\ epos' = epos /\ last' = last /\ kind' = kind
      /\ lost' = [lost EXCEPT !["truncated"] = @ \cup {i \in Range(Unseen) : Shown(i)}]
  BY DEF Truncate, Lose, Filed, Written, Opened, Unseen, After, One, writer, events
<1>2. Unseen' = <<>>
  <2>1. <<>> \in Seq(Lines) /\ Len(<<>>) = 0 /\ rawPos \in Nat /\ 0 <= rawPos
    BY DEF TypeOK
  <2>2. After(<<>>, rawPos) = <<>>
    BY <2>1, AfterSeq
  <2> QED
    BY <1>1, <2>2 DEF Unseen
<1> DEFINE F == Filed \o Written \o queue \o Opened \o ahead
<1>3. F \in Seq(Lines) /\ Unseen \in Seq(Lines) /\ Len(Unseen) \in Nat
  BY Parts, Joins, LenProperties
<1>4. F \o <<>> = F /\ F \o Unseen \o <<>> = F \o Unseen /\ <<>> \in Seq(Lines)
  BY <1>3, Joins
<1>5. OnTheWay = F \o Unseen \o <<>>
  BY <1>4, Parts
<1>6. OnTheWay' = F \o <<>>
  BY <1>1, <1>2 DEF OnTheWay, Filed, Written, Opened, Unseen
<1>7. epos' <= epos + Len(Unseen)
  BY <1>1, <1>3 DEF TypeOK
<1>8. Losing(Unseen)
  BY <1>1 DEF Losing, Causes
<1>9. Drop(F, Unseen, <<>>)
  BY <1>1, <1>5, <1>6, <1>7, <1>8 DEF Drop
<1> HIDE DEF F
<1> QED
  BY <1>3, <1>4, <1>9 DEF Flows

\* The writer takes the oldest line of the queue.
LEMMA WriterGetFlows == ASSUME TypeOK, Places, WriterGet PROVE Flows
<1>1. /\ Filed' = Filed /\ Opened' = Opened /\ Unseen' = Unseen /\ ahead' = ahead
      /\ wpc = "get" /\ queue # <<>> /\ wline' = Head(queue) /\ queue' = Tail(queue)
      /\ counted' = counted /\ epos' = epos /\ last' = last /\ kind' = kind /\ lost' = lost
  BY DEF WriterGet, Filed, Opened, Unseen, After, One, reader, events
<1>2. wline = 0 /\ Written = <<>>
  BY <1>1 DEF Places, Written, One
<1>3. /\ Head(queue) \in Lines /\ Tail(queue) \in Seq(Lines)
      /\ queue = <<Head(queue)>> \o Tail(queue)
  BY <1>1, HeadFirst DEF TypeOK
<1>4. Written' = <<Head(queue)>> /\ <<Head(queue)>> \in Seq(Lines)
  <2>1. Head(queue) # 0
    BY <1>3 DEF Lines
  <2> QED
    BY <1>1, <1>3, <2>1, Joins DEF Written, One
<1>5. Filed \in Seq(Lines)
  BY Parts
<1>6. Filed \o <<>> \o queue = Filed \o <<Head(queue)>> \o Tail(queue)
  <2>1. Filed \o <<>> = Filed
    BY <1>5, Joins
  <2>2. Filed \o (<<Head(queue)>> \o Tail(queue)) = (Filed \o <<Head(queue)>>) \o Tail(queue)
    BY <1>3, <1>4, <1>5, Joins
  <2> QED
    BY <1>3, <2>1, <2>2
<1>7. OnTheWay = Filed \o <<>> \o queue \o Opened \o ahead \o Unseen
      /\ OnTheWay \in Seq(Lines)
  BY <1>2, Parts
<1>8. OnTheWay' = Filed \o <<Head(queue)>> \o Tail(queue) \o Opened \o ahead \o Unseen
  BY <1>1, <1>4 DEF OnTheWay, Filed, Written, Opened, Unseen
<1>9. OnTheWay' = OnTheWay /\ OnTheWay \in Seq(Lines) /\ epos' <= epos
  <2>1. OnTheWay' = OnTheWay
    BY <1>6, <1>7, <1>8
  <2> QED
    BY <1>1, <1>7, <2>1 DEF TypeOK
<1> QED
  BY <1>1, <1>9, NothingLost

\* And appends it to EVENT_LOG.
LEMMA WriterWriteFlows == ASSUME TypeOK, Places, WriterWrite PROVE Flows
<1>1. /\ queue' = queue /\ Opened' = Opened /\ Unseen' = Unseen /\ ahead' = ahead
      /\ wpc = "write" /\ evlog' = Append(evlog, wline) /\ wline' = 0
      /\ counted' = counted /\ epos' = epos /\ last' = last /\ kind' = kind /\ lost' = lost
  BY DEF WriterWrite, Opened, Unseen, After, One, reader, events
<1>2. wline \in Lines /\ Written = <<wline>> /\ Written' = <<>>
  BY <1>1, Parts DEF Places, Written, One
<1>3. Filed' = Filed \o <<wline>>
  <2>1. evlog \in Seq(Lines) /\ epos \in Nat /\ epos <= Len(evlog)
    BY DEF TypeOK, Places
  <2> QED
    BY <1>1, <1>2, <2>1, AfterAppend DEF Filed
<1>4. OnTheWay = Filed \o <<wline>> \o queue \o Opened \o ahead \o Unseen
      /\ OnTheWay \in Seq(Lines)
  BY <1>2, Parts
<1>5. Filed \o <<wline>> \o <<>> = Filed \o <<wline>>
  BY <1>2, Parts, Joins
<1>6. OnTheWay' = Filed \o <<wline>> \o <<>> \o queue \o Opened \o ahead \o Unseen
  BY <1>1, <1>2, <1>3 DEF OnTheWay, Filed, Written, Opened, Unseen
<1>7. OnTheWay' = OnTheWay /\ OnTheWay \in Seq(Lines) /\ epos' <= epos
  BY <1>1, <1>4, <1>5, <1>6 DEF TypeOK
<1> QED
  BY <1>1, <1>7, NothingLost

\* Steps that touch no line.
LEMMA QuietFlows ==
  ASSUME TypeOK, Places, WriterDone \/ Shutdown \/ UNCHANGED vars PROVE Flows
<1>1. /\ UNCHANGED <<last, kind, raw, rawPos, ahead, block, queue, wline, evlog, epos,
                     counted, lost>>
  BY DEF WriterDone, Shutdown, vars, reader, writer, events
<1>2. OnTheWay' = OnTheWay
  BY <1>1 DEF OnTheWay, After, One
<1>3. OnTheWay \in Seq(Lines) /\ epos' <= epos
  BY <1>1, Parts DEF TypeOK
<1> QED
  BY <1>1, <1>2, <1>3, NothingLost

\* The way, split before the queue.
LEMMA QueueOn ==
  ASSUME TypeOK, Places
  PROVE  /\ Queued \in Seq(Lines)
         /\ \A F \in Seq(Lines) : F \o queue \o Opened \o ahead \o Unseen = F \o Queued
<1>1. Queued \in Seq(Lines)
  BY Parts, Joins DEF Queued
<1>2. ASSUME NEW F \in Seq(Lines)
      PROVE  F \o queue \o Opened \o ahead \o Unseen = F \o Queued
  <2>1. queue \in Seq(Lines) /\ Opened \in Seq(Lines) /\ ahead \in Seq(Lines)
        /\ Unseen \in Seq(Lines) /\ ahead \o Unseen \in Seq(Lines)
        /\ Opened \o (ahead \o Unseen) \in Seq(Lines)
    BY Parts, Joins
  <2> DEFINE Z1 == ahead \o Unseen
             Z2 == Opened \o Z1
             G  == F \o queue
             H  == G \o Opened
  <2>2. G \in Seq(Lines) /\ H \in Seq(Lines) /\ Z1 \in Seq(Lines) /\ Z2 \in Seq(Lines)
    BY <2>1, Joins
  <2>3. F \o Queued = F \o (queue \o Z2)
        /\ F \o queue \o Opened \o ahead \o Unseen = H \o ahead \o Unseen
    BY DEF Queued
  <2>4. Z2 = Opened \o Z1 /\ Z1 = ahead \o Unseen /\ G = F \o queue /\ H = G \o Opened
    OBVIOUS
  <2> HIDE DEF Z1, Z2, G, H
  <2>5. F \o (queue \o Z2) = G \o Z2
    <3>1. queue \in Seq(Lines)
      BY <2>1
    <3>2. F \o (queue \o Z2) = (F \o queue) \o Z2
      <4>1. Grouped(F, queue, Z2)
        BY <2>2, <3>1, Regroup
      <4> QED
        BY <4>1 DEF Grouped
    <3> QED
      BY <2>4, <3>2
  <2>6. G \o (Opened \o Z1) = H \o Z1
    <3>1. Opened \in Seq(Lines)
      BY <2>1
    <3>2. G \o (Opened \o Z1) = (G \o Opened) \o Z1
      <4>1. Grouped(G, Opened, Z1)
        BY <2>2, <3>1, Regroup
      <4> QED
        BY <4>1 DEF Grouped
    <3> QED
      BY <2>4, <3>2
  <2>7. H \o (ahead \o Unseen) = H \o ahead \o Unseen
    <3>1. H \in Seq(Lines) /\ ahead \in Seq(Lines) /\ Unseen \in Seq(Lines)
      BY <2>1, <2>2
    <3> QED
      BY <3>1, Assoc
  <2> QED
    BY <2>3, <2>4, <2>5, <2>6, <2>7
<1> QED
  BY <1>1, <1>2

\* The way, split before the block.
LEMMA OpenedOn ==
  ASSUME TypeOK, Places
  PROVE  \A G \in Seq(Lines) :
           G \o Opened \o ahead \o Unseen = G \o (Opened \o (ahead \o Unseen))
<1> SUFFICES ASSUME NEW G \in Seq(Lines)
             PROVE  G \o Opened \o ahead \o Unseen = G \o (Opened \o (ahead \o Unseen))
  OBVIOUS
<1>1. Opened \in Seq(Lines) /\ ahead \in Seq(Lines) /\ Unseen \in Seq(Lines)
  BY Parts
<1> DEFINE Z == ahead \o Unseen
           H == G \o Opened
<1>2. Z \in Seq(Lines) /\ H \in Seq(Lines)
  BY <1>1, Joined
<1>21. Z = ahead \o Unseen /\ H = G \o Opened
  OBVIOUS
<1> HIDE DEF Z, H
<1>3. G \o (Opened \o Z) = (G \o Opened) \o Z
  <2>1. Grouped(G, Opened, Z)
    BY <1>1, <1>2, Regroup
  <2> QED
    BY <2>1 DEF Grouped
<1>4. H \o (ahead \o Unseen) = H \o ahead \o Unseen
  <2>1. H \in Seq(Lines) /\ ahead \in Seq(Lines) /\ Unseen \in Seq(Lines)
    BY <1>1, <1>2
  <2> QED
    BY <2>1, Assoc
<1> QED
  BY <1>21, <1>3, <1>4

\* The way, split behind EVENT_LOG.
LEMMA WriterOn ==
  ASSUME TypeOK, Places
  PROVE  /\ Filed \in Seq(Lines) /\ Behind \in Seq(Lines) /\ OnTheWay = Filed \o Behind
         /\ \A F \in Seq(Lines) :
              F \o Written \o queue \o Opened \o ahead \o Unseen = F \o Behind
<1>1. Filed \in Seq(Lines) /\ Written \in Seq(Lines) /\ Queued \in Seq(Lines)
  BY Parts, QueueOn
<1>2. Behind \in Seq(Lines)
  BY <1>1, Joins DEF Behind
<1>3. ASSUME NEW F \in Seq(Lines)
      PROVE  F \o Written \o queue \o Opened \o ahead \o Unseen = F \o Behind
  <2>1. F \o Written \in Seq(Lines)
    BY <1>1, Joins
  <2>2. (F \o Written) \o queue \o Opened \o ahead \o Unseen = (F \o Written) \o Queued
    BY <2>1, QueueOn
  <2>3. F \o (Written \o Queued) = (F \o Written) \o Queued
    BY <1>1, Assoc
  <2> QED
    BY <2>2, <2>3 DEF Behind
<1>4. OnTheWay = Filed \o Written \o queue \o Opened \o ahead \o Unseen
  BY Parts
<1> QED
  BY <1>1, <1>2, <1>3, <1>4

\* AsyncEventLogger.stop loses the line in the writer's hand.
LEMMA WriterCancelledFlows == ASSUME TypeOK, Places, WriterCancelled PROVE Flows
<1>1. /\ Filed' = Filed /\ queue' = queue /\ Opened' = Opened /\ Unseen' = Unseen
      /\ ahead' = ahead /\ wline' = 0
      /\ counted' = counted /\ epos' = epos /\ last' = last /\ kind' = kind
      /\ lost' = [lost EXCEPT !["cancelled"] = @ \cup {i \in {wline} \ {0} : Shown(i)}]
  BY DEF WriterCancelled, Lose, Filed, Opened, Unseen, After, One, reader, events
<1>2. Written' = <<>>
  BY <1>1 DEF Written, One
<1>3. Range(Written) = {wline} \ {0}
  <2>1. CASE wline = 0
    <3>1. Range(<<>>) = {}
      BY DEF Range
    <3> QED
      BY <2>1, <3>1 DEF Written, One
  <2>2. CASE wline # 0
    <3>1. Range(<<wline>>) = {wline}
      BY DEF Range
    <3> QED
      BY <2>2, <3>1 DEF Written, One
  <2> QED
    BY <2>1, <2>2
<1>4. /\ Filed \in Seq(Lines) /\ Written \in Seq(Lines) /\ Queued \in Seq(Lines)
      /\ Filed \o Written \in Seq(Lines) /\ Len(Written) \in Nat
  BY Parts, QueueOn, Joins, LenProperties
<1>5. \A F \in Seq(Lines) : F \o queue \o Opened \o ahead \o Unseen = F \o Queued
  BY QueueOn
<1>6. OnTheWay = Filed \o Written \o Queued
  <2>1. OnTheWay = (Filed \o Written) \o queue \o Opened \o ahead \o Unseen
    BY Parts
  <2> QED
    BY <1>4, <1>5, <2>1
<1>7. OnTheWay' = Filed \o Queued
  <2>1. OnTheWay' = Filed \o <<>> \o queue \o Opened \o ahead \o Unseen /\ Filed \o <<>> = Filed
    BY <1>1, <1>2, <1>4, Joins DEF OnTheWay, Filed, Written, Opened, Unseen
  <2> QED
    BY <1>4, <1>5, <2>1
<1>8. epos' <= epos + Len(Written)
  BY <1>1, <1>4 DEF TypeOK
<1>9. Losing(Written)
  BY <1>1, <1>3 DEF Losing, Causes
<1>10. Drop(Filed, Written, Queued)
  BY <1>1, <1>6, <1>7, <1>8, <1>9 DEF Drop
<1> QED
  BY <1>4, <1>10 DEF Flows

\* A get() that is waited for no more loses the oldest line of the queue.
LEMMA LeftGetFlows == ASSUME TypeOK, Places, LeftGet PROVE Flows
<1> DEFINE h == Head(queue)
           t == Tail(queue)
           R == Opened \o (ahead \o Unseen)
           Y == t \o R
<1>1. /\ Filed' = Filed /\ Opened' = Opened /\ Unseen' = Unseen /\ ahead' = ahead
      /\ wpc = "left" /\ queue # <<>> /\ wline' = wline /\ queue' = t
      /\ counted' = counted /\ epos' = epos /\ last' = last /\ kind' = kind
      /\ lost' = [lost EXCEPT !["cancelled"] = @ \cup {i \in {h} : Shown(i)}]
  BY DEF LeftGet, Lose, Filed, Opened, Unseen, After, One, reader, events
<1>2. wline = 0 /\ Written = <<>> /\ Written' = <<>>
  BY <1>1 DEF Places, Written, One
<1>3. h \in Lines /\ t \in Seq(Lines) /\ queue = <<h>> \o t
  BY <1>1, HeadFirst DEF TypeOK
<1>4. Range(<<h>>) = {h} /\ Len(<<h>>) = 1
  BY DEF Range
<1> HIDE DEF h, t
<1>5. <<h>> \in Seq(Lines) /\ R \in Seq(Lines) /\ Filed \in Seq(Lines)
  BY <1>3, Parts, Joins
<1>6. /\ Filed \o <<h>> \in Seq(Lines) /\ Filed \o t \in Seq(Lines)
      /\ (Filed \o <<h>>) \o t \in Seq(Lines) /\ Y \in Seq(Lines) /\ Filed \o <<>> = Filed
  BY <1>3, <1>5, Joins
<1>7. \A G \in Seq(Lines) : G \o Opened \o ahead \o Unseen = G \o R
  BY OpenedOn
<1> HIDE DEF R
<1>8. /\ Filed \o (<<h>> \o t) = (Filed \o <<h>>) \o t
      /\ (Filed \o <<h>>) \o (t \o R) = ((Filed \o <<h>>) \o t) \o R
      /\ Filed \o (t \o R) = (Filed \o t) \o R
  <2>1. Grouped(Filed, <<h>>, t)
    BY <1>3, <1>5, Regroup
  <2>2. Grouped(Filed \o <<h>>, t, R)
    BY <1>3, <1>5, <1>6, Regroup
  <2>3. Grouped(Filed, t, R)
    BY <1>3, <1>5, Regroup
  <2> QED
    BY <2>1, <2>2, <2>3 DEF Grouped
<1>9. OnTheWay = Filed \o <<h>> \o Y
  <2>1. OnTheWay = ((Filed \o <<h>>) \o t) \o Opened \o ahead \o Unseen
    BY <1>2, <1>3, <1>6, <1>8, Parts
  <2> QED
    BY <1>6, <1>7, <1>8, <2>1
<1>10. OnTheWay' = Filed \o Y
  <2>1. OnTheWay' = (Filed \o t) \o Opened \o ahead \o Unseen
    BY <1>1, <1>2, <1>6 DEF OnTheWay, Filed, Written, Opened, Unseen
  <2> QED
    BY <1>6, <1>7, <1>8, <2>1
<1> HIDE DEF Y
<1>11. epos' <= epos + Len(<<h>>)
  BY <1>1, <1>4 DEF TypeOK
<1>12. Losing(<<h>>)
  BY <1>1, <1>4 DEF Losing, Causes
<1>13. Drop(Filed, <<h>>, Y)
  BY <1>1, <1>9, <1>10, <1>11, <1>12 DEF Drop
<1> QED
  BY <1>5, <1>6, <1>13 DEF Flows

\* What EventProcessor does not touch.
LEMMA BehindStays ==
  ASSUME TypeOK, Places, UNCHANGED <<raw, rawPos, ahead, block, queue, wline>>,
         Filed' \in Seq(Lines)
  PROVE  OnTheWay' = Filed' \o Behind
<1>1. OnTheWay' = Filed' \o Written \o queue \o Opened \o ahead \o Unseen
  BY DEF OnTheWay, Filed, Written, Opened, Unseen, After, One
<1> QED
  BY <1>1, WriterOn

\* _hydrate_from_existing_file counts the last lines and loses the older ones.
LEMMA HydrateFlows == ASSUME TypeOK, Places, Hydrate PROVE Flows
<1> DEFINE old == IF Len(evlog) > Bootstrap THEN Len(evlog) - Bootstrap ELSE 0
           D   == SubSeq(evlog, 1, old)
           N   == After(evlog, old)
<1>1. /\ UNCHANGED <<raw, rawPos, ahead, block, queue, wline>>
      /\ epc = "hydrate" /\ counted' = counted \o N /\ evlog' = evlog /\ epos' = Len(evlog)
      /\ last' = last /\ kind' = kind
      /\ lost' = [lost EXCEPT !["old"] = @ \cup {i \in {evlog[i] : i \in 1..old} : Shown(i)}]
  BY DEF Hydrate, Lose, reader, writer
<1>2. evlog \in Seq(Lines) /\ Len(evlog) \in Nat /\ epos = 0 /\ old \in 0..Len(evlog)
      /\ old \in Nat
  BY <1>1, LenProperties, BoundsAssumption DEF TypeOK, Places
<1> HIDE DEF old
<1>3. /\ D \in Seq(Lines) /\ Len(D) = old /\ evlog = D \o N
      /\ Range(D) = {evlog[i] : i \in 1..old} /\ Filed = evlog
  BY <1>2, AfterNothing DEF Filed
<1>4. N \in Seq(Lines) /\ Len(N) = Len(evlog) - old
  BY <1>2, AfterSeq
<1>5. Filed' = <<>> /\ <<>> \in Seq(Lines)
  BY <1>1, <1>2, AfterSeq, Joins DEF Filed
<1>6. OnTheWay' = Behind /\ Behind \in Seq(Lines)
  BY <1>1, <1>5, BehindStays, WriterOn, Joins
<1> HIDE DEF D, N
<1>7. OnTheWay = D \o N \o Behind
  BY <1>3, WriterOn
<1>8. Losing(D)
  BY <1>1, <1>3 DEF Losing, Causes
<1>9. epos' <= epos + Len(D) + Len(N)
  BY <1>1, <1>2, <1>3, <1>4
<1>10. Arrive(D, N, Behind)
  BY <1>1, <1>6, <1>7, <1>8, <1>9 DEF Arrive
<1> QED
  BY <1>3, <1>4, <1>6, <1>10 DEF Flows

\* The file is followed from its end: the lines since it was read are lost.
LEMMA SeekEndFlows == ASSUME TypeOK, Places, SeekEnd PROVE Flows
<1>1. /\ UNCHANGED <<raw, rawPos, ahead, block, queue, wline>>
      /\ counted' = counted /\ evlog' = evlog /\ epos' = Len(evlog)
      /\ last' = last /\ kind' = kind
      /\ lost' = [lost EXCEPT !["window"] = @ \cup {i \in Range(Filed) : Shown(i)}]
  BY DEF SeekEnd, Lose, reader, writer, Filed
<1>2. evlog \in Seq(Lines) /\ Len(evlog) \in Nat /\ epos \in Nat /\ epos <= Len(evlog)
      /\ Len(evlog) <= Len(evlog)
  BY LenProperties DEF TypeOK, Places
<1>3. Filed' = <<>> /\ <<>> \in Seq(Lines)
  BY <1>1, <1>2, AfterSeq, Joins DEF Filed
<1>4. OnTheWay' = <<>> \o Behind /\ Behind \in Seq(Lines) /\ Filed \in Seq(Lines)
  BY <1>1, <1>3, BehindStays, WriterOn
<1>5. OnTheWay = <<>> \o Filed \o Behind
  BY <1>3, <1>4, WriterOn, Joins
<1>6. Losing(Filed)
  BY <1>1 DEF Losing, Causes
<1>7. Len(Filed) = Len(evlog) - epos
  BY <1>2, AfterSeq DEF Filed
<1>8. epos' <= epos + Len(Filed)
  BY <1>1, <1>2, <1>7
<1>9. Drop(<<>>, Filed, Behind)
  BY <1>1, <1>4, <1>5, <1>6, <1>8 DEF Drop
<1> QED
  BY <1>3, <1>4, <1>9 DEF Flows

\* EventProcessor counts the next line.
LEMMA CountFlows == ASSUME TypeOK, Places, Count PROVE Flows
<1> DEFINE x == evlog[epos + 1]
<1>1. /\ UNCHANGED <<raw, rawPos, ahead, block, queue, wline>>
      /\ epos < Len(evlog) /\ counted' = Append(counted, x)
      /\ evlog' = evlog /\ epos' = epos + 1 /\ last' = last /\ kind' = kind /\ lost' = lost
  BY DEF Count, reader, writer
<1>2. evlog \in Seq(Lines) /\ epos \in Nat /\ counted \in Seq(Lines)
  BY DEF TypeOK
<1>3. x \in Lines /\ Filed = <<x>> \o After(evlog, epos + 1)
  BY <1>1, <1>2, AfterFirst DEF Filed
<1>4. epos + 1 \in Nat /\ Filed' = After(evlog, epos + 1)
  BY <1>1, <1>2 DEF Filed
<1>5. Filed' \in Seq(Lines)
  BY <1>2, <1>4, AfterSeq
<1> HIDE DEF x
<1>6. OnTheWay' = Filed' \o Behind /\ Behind \in Seq(Lines)
  BY <1>1, <1>5, BehindStays, WriterOn
<1>7. <<x>> \in Seq(Lines) /\ counted' = counted \o <<x>> /\ Filed' \o Behind \in Seq(Lines)
      /\ <<>> \in Seq(Lines) /\ <<>> \o <<x>> = <<x>>
  BY <1>1, <1>2, <1>3, <1>5, <1>6, Joins
<1>8. OnTheWay = <<>> \o <<x>> \o (Filed' \o Behind)
  <2>1. OnTheWay = (<<x>> \o Filed') \o Behind
    BY <1>3, <1>4, WriterOn
  <2>2. <<x>> \o (Filed' \o Behind) = (<<x>> \o Filed') \o Behind
    BY <1>5, <1>6, <1>7, Assoc
  <2> QED
    BY <1>7, <2>1, <2>2
<1>9. Range(<<>>) = {} /\ Len(<<>>) = 0 /\ Len(<<x>>) = 1
  BY DEF Range
<1>10. Losing(<<>>)
  <2>1. "old" \in Causes /\ {i \in Range(<<>>) : Shown(i)} = {}
    BY <1>9 DEF Causes
  <2>2. lost' = [lost EXCEPT !["old"] = @ \cup {}]
    BY <1>1, <2>1 DEF TypeOK
  <2> QED
    BY <1>1, <2>1, <2>2 DEF Losing
<1>11. epos' <= epos + Len(<<>>) + Len(<<x>>)
  BY <1>1, <1>2, <1>9
<1>12. Arrive(<<>>, <<x>>, Filed' \o Behind)
  BY <1>6, <1>7, <1>8, <1>10, <1>11 DEF Arrive
<1> QED
  BY <1>7, <1>12 DEF Flows

\* A line that may be sent has a number.
LEMMA RoomForOne ==
  ASSUME TypeOK, Budget, Printed < MaxPrinted \/ Direct < MaxDirect
  PROVE  last + 1 \in Lines
<1>1. last \in Nat /\ MaxPrinted \in Nat /\ MaxDirect \in Nat
  BY BoundsAssumption DEF TypeOK, MaxLines
<1>2. last - Direct < MaxPrinted \/ Direct < MaxDirect
  BY DEF Printed
<1>3. last + 1 <= MaxPrinted + MaxDirect
  BY <1>1, <1>2 DEF Budget
<1> QED
  BY <1>1, <1>3 DEF Lines, MaxLines

\* P2Pool prints a line: it is the newest, or below the reader's offset and lost.
LEMMA PrintLineFlows ==
  ASSUME TypeOK, Places, Budget, NEW k \in Kinds, PrintLine(k) PROVE Flows
<1>1. /\ Filed' = Filed /\ Written' = Written /\ queue' = queue /\ Opened' = Opened
      /\ ahead' = ahead /\ raw' = Append(raw, last + 1) /\ rawPos' = rawPos
      /\ counted' = counted /\ epos' = epos /\ last' = last + 1
      /\ kind' = [kind EXCEPT ![last + 1] = k]
      /\ lost' = IF Len(raw) < rawPos /\ k \in {"event", "data"}
                   THEN [lost EXCEPT !["truncated"] = @ \cup {last + 1}] ELSE lost
  BY DEF PrintLine, Filed, Written, Opened, After, One, writer, events
<1>2. last + 1 \in Lines
  BY RoomForOne DEF PrintLine
<1>3. raw \in Seq(Lines) /\ rawPos \in Nat /\ Len(raw) \in Nat
  BY LenProperties DEF TypeOK
<1> DEFINE F == Filed \o Written \o queue \o Opened \o ahead
<1>4. F \in Seq(Lines) /\ Unseen \in Seq(Lines) /\ <<last + 1>> \in Seq(Lines)
      /\ <<>> \in Seq(Lines) /\ OnTheWay \in Seq(Lines)
  BY <1>2, Parts, Joins
<1>5. OnTheWay = F \o Unseen
  BY Parts
<1>6. OnTheWay' = F \o Unseen'
  BY <1>1 DEF OnTheWay, Filed, Written, Opened, Unseen
<1> HIDE DEF F
<1>7. OnTheWay = OnTheWay \o <<>>
  BY <1>4, Joins
<1>8. CASE rawPos <= Len(raw)
  <2>1. Unseen' = Unseen \o <<last + 1>>
    BY <1>1, <1>2, <1>3, <1>8, AfterAppend DEF Unseen
  <2>2. F \o (Unseen \o <<last + 1>>) = (F \o Unseen) \o <<last + 1>>
    BY <1>4, Assoc
  <2>3. OnTheWay \o <<last + 1>> \in Seq(Lines)
    BY <1>4, Joins
  <2>4. OnTheWay' = OnTheWay \o <<last + 1>> \o <<>>
    BY <1>5, <1>6, <2>1, <2>2, <2>3, Joins
  <2>5. lost' = lost
    BY <1>1, <1>3, <1>8
  <2>6. Sent(OnTheWay, <<last + 1>>, <<>>, k)
    BY <1>1, <1>7, <2>4, <2>5 DEF Sent
  <2> QED
    BY <1>2, <1>4, <2>6 DEF Flows
<1>9. CASE Len(raw) < rawPos
  <2>1. Unseen' = <<>> /\ Unseen = <<>>
    BY <1>1, <1>2, <1>3, <1>9, AfterAppend DEF Unseen
  <2>2. OnTheWay' = OnTheWay \o <<>> \o <<>>
    <3>1. OnTheWay' = OnTheWay
      BY <1>5, <1>6, <2>1
    <3>2. OnTheWay \o <<>> \o <<>> = OnTheWay
      BY <1>4, Joins
    <3> QED
      BY <3>1, <3>2
  <2>3. k = "dash" \/ k \in {"event", "data"} \ {"dash"}
    BY DEF Kinds
  <2>4. \/ k = "dash" /\ lost' = lost
        \/ k # "dash" /\ \E c \in Causes : lost' = [lost EXCEPT ![c] = @ \cup {last + 1}]
    BY <1>1, <1>9, <2>3 DEF Causes
  <2>5. Sent(OnTheWay, <<>>, <<>>, k)
    BY <1>1, <1>7, <2>2, <2>4 DEF Sent
  <2> QED
    BY <1>2, <1>4, <2>5 DEF Flows
<1> QED
  BY <1>3, <1>8, <1>9

\* Another thread's line goes into the queue, or is lost there.
LEMMA LogDirectFlows == ASSUME TypeOK, Places, Budget, LogDirect PROVE Flows
<1>1. /\ Filed' = Filed /\ Written' = Written /\ Opened' = Opened /\ Unseen' = Unseen
      /\ ahead' = ahead /\ counted' = counted /\ epos' = epos /\ last' = last + 1
      /\ kind' = [kind EXCEPT ![last + 1] = "direct"]
      /\ \/ queue' = Append(queue, last + 1) /\ lost' = lost
         \/ queue' = queue /\ lost' = [lost EXCEPT !["full"] = @ \cup {last + 1}]
  BY DEF LogDirect, Filed, Written, Opened, Unseen, After, One, reader, writer, events
<1>2. last + 1 \in Lines
  BY RoomForOne DEF LogDirect
<1> DEFINE F == Filed \o Written \o queue
           Y == Opened \o (ahead \o Unseen)
<1>3. /\ F \in Seq(Lines) /\ Y \in Seq(Lines) /\ <<last + 1>> \in Seq(Lines)
      /\ <<>> \in Seq(Lines) /\ OnTheWay \in Seq(Lines) /\ Filed \o Written \in Seq(Lines)
      /\ queue \in Seq(Lines)
  BY <1>2, Parts, Joins
<1>4. \A G \in Seq(Lines) : G \o Opened \o ahead \o Unseen = G \o Y
  BY OpenedOn
<1>5. OnTheWay = F \o Y
  BY <1>3, <1>4, Parts
<1>6. CASE queue' = Append(queue, last + 1) /\ lost' = lost
  <2>1. queue' = queue \o <<last + 1>>
    BY <1>2, <1>3, <1>6, Joins
  <2>2. (Filed \o Written) \o (queue \o <<last + 1>>) = F \o <<last + 1>>
    <3> DEFINE o == <<last + 1>>
               A == Filed \o Written
    <3>1. A \in Seq(Lines) /\ queue \in Seq(Lines) /\ o \in Seq(Lines)
      BY <1>3
    <3>2. F = A \o queue
      OBVIOUS
    <3> HIDE DEF o, A, F
    <3>3. A \o (queue \o o) = F \o o
      <4>1. Grouped(A, queue, o)
        BY <3>1, <3>2, Regroup
      <4> QED
        BY <3>2, <4>1 DEF Grouped
    <3> QED
      BY <3>3 DEF o, A
  <2>3. OnTheWay' = (F \o <<last + 1>>) \o Opened \o ahead \o Unseen
    BY <1>1, <2>1, <2>2 DEF OnTheWay, Filed, Written, Opened, Unseen
  <2>4. F \o <<last + 1>> \in Seq(Lines)
    BY <1>3, Joins
  <2> HIDE DEF F, Y
  <2>5. OnTheWay' = F \o <<last + 1>> \o Y
    BY <1>4, <2>3, <2>4
  <2>6. Sent(F, <<last + 1>>, Y, "direct")
    BY <1>1, <1>5, <1>6, <2>5 DEF Sent
  <2> QED
    BY <1>2, <1>3, <2>6 DEF Flows
<1>7. CASE queue' = queue /\ lost' = [lost EXCEPT !["full"] = @ \cup {last + 1}]
  <2>1. OnTheWay' = OnTheWay
    BY <1>1, <1>7 DEF OnTheWay, Filed, Written, Opened, Unseen
  <2>2. OnTheWay = OnTheWay \o <<>> /\ OnTheWay' = OnTheWay \o <<>> \o <<>>
    BY <1>3, <2>1, Joins
  <2>3. \E c \in Causes : lost' = [lost EXCEPT ![c] = @ \cup {last + 1}]
    BY <1>7 DEF Causes
  <2>4. Sent(OnTheWay, <<>>, <<>>, "direct")
    BY <1>1, <2>2, <2>3 DEF Sent
  <2> QED
    BY <1>2, <1>3, <2>4 DEF Flows
<1> QED
  BY <1>1, <1>6, <1>7

\* The step that reads, logs, writes or counts is one of the flows.
LEMMA StepFlows == ASSUME TypeOK, Places, Budget, [Next]_vars PROVE Flows
<1>1. ASSUME NEW k \in Kinds, PrintLine(k) PROVE Flows
  BY <1>1, PrintLineFlows
<1>2. CASE Truncate
  BY <1>2, TruncateFlows
<1>3. CASE LogDirect
  BY <1>3, LogDirectFlows
<1>4. CASE Shutdown \/ WriterDone \/ UNCHANGED vars
  BY <1>4, QuietFlows
<1>5. CASE WriterCancelled \/ LeftGet
  BY <1>5, WriterCancelledFlows, LeftGetFlows
<1>6. CASE Reader
  BY <1>6, FetchFlows, ReadEventFlows, ReadOtherFlows, CollectFlows, EndBlockFlows DEF Reader
<1>7. CASE WriterGet \/ WriterWrite
  BY <1>7, WriterGetFlows, WriterWriteFlows
<1>8. CASE Events
  BY <1>8, HydrateFlows, SeekEndFlows, CountFlows DEF Events
<1> QED
  BY <1>1, <1>2, <1>3, <1>4, <1>5, <1>6, <1>7, <1>8 DEF Next, Writer

----------------------------------------------------------------------------
(* How often a line is somewhere *)

\* Lengths and elements of sequences of lines.
LEMMA Sizes ==
  /\ \A a \in Seq(Lines) : Len(a) \in Nat /\ Range(a) \subseteq Lines
  /\ \A a, b \in Seq(Lines) : Len(a \o b) = Len(a) + Len(b)
                              /\ Range(a \o b) = Range(a) \cup Range(b)
  /\ Len(<<>>) = 0 /\ Range(<<>>) = {}
  /\ \A x \in Lines : Len(<<x>>) = 1 /\ Range(<<x>>) = {x}
<1>1. ASSUME NEW a \in Seq(Lines) PROVE Len(a) \in Nat /\ Range(a) \subseteq Lines
  BY LenProperties, RangeOfSeq
<1>2. ASSUME NEW a \in Seq(Lines), NEW b \in Seq(Lines)
      PROVE  Len(a \o b) = Len(a) + Len(b) /\ Range(a \o b) = Range(a) \cup Range(b)
  BY ConcatProperties, RangeConcatenation
<1>3. Len(<<>>) = 0 /\ Range(<<>>) = {}
  BY DEF Range
<1>4. ASSUME NEW x \in Lines PROVE Len(<<x>>) = 1 /\ Range(<<x>>) = {x}
  BY DEF Range
<1> QED
  BY <1>1, <1>2, <1>3, <1>4

\* How often x is in a concatenation.
LEMMA AtJoin ==
  ASSUME NEW s \in Seq(Lines), NEW t \in Seq(Lines), NEW x
  PROVE  At(s \o t, x) = At(s, x) + At(t, x) /\ At(s, x) \in Nat /\ At(t, x) \in Nat
<1> DEFINE u == s \o t
           P == {j \in 1..Len(s) : s[j] = x}
           Q == {j \in 1..Len(t) : t[j] = x}
           R == {j \in 1..Len(u) : u[j] = x /\ ~(j <= Len(s))}
           W == {j \in 1..Len(u) : u[j] = x}
<1>1. /\ Len(u) = Len(s) + Len(t) /\ Len(s) \in Nat /\ Len(t) \in Nat
      /\ \A i \in 1..Len(s) + Len(t) : u[i] = IF i <= Len(s) THEN s[i] ELSE t[i - Len(s)]
  BY ConcatProperties, LenProperties
<1> HIDE DEF u
<1>2. IsFiniteSet(1..Len(s)) /\ IsFiniteSet(1..Len(t)) /\ IsFiniteSet(1..Len(u))
  BY <1>1, FS_Interval
<1>3. IsFiniteSet(P) /\ IsFiniteSet(Q) /\ IsFiniteSet(R)
  BY <1>2, FS_Subset
<1>4. W = P \cup R /\ P \cap R = {}
  BY <1>1
<1>5. Cardinality(Q) = Cardinality(R)
  <2> DEFINE f == [j \in Q |-> j + Len(s)]
  <2>1. \A j \in Q : j + Len(s) \in R
    BY <1>1
  <2>2. \A i, j \in Q : i + Len(s) = j + Len(s) => i = j
    BY <1>1
  <2>3. \A i \in R : i - Len(s) \in Q /\ (i - Len(s)) + Len(s) = i
    BY <1>1
  <2> HIDE DEF Q, R
  <2>4. f \in [Q -> R] /\ \A j \in Q : f[j] = j + Len(s)
    BY <2>1
  <2>5. f \in Injection(Q, R)
    BY <2>2, <2>4 DEF Injection, IsInjective
  <2>6. f \in Surjection(Q, R)
    BY <2>3, <2>4 DEF Surjection
  <2>7. ExistsBijection(Q, R)
    BY <2>5, <2>6 DEF ExistsBijection, Bijection
  <2> QED
    BY <1>3, <2>7, FS_Bijection
<1>6. Cardinality(P \cup R) = Cardinality(P) + Cardinality(R) - Cardinality(P \cap R)
  BY <1>3, FS_Union
<1>7. Cardinality(P) \in Nat /\ Cardinality(Q) \in Nat /\ Cardinality(R) \in Nat
  BY <1>3, FS_CardinalityType
<1>8. Cardinality({}) = 0
  BY FS_EmptySet
<1>9. At(s, x) = Cardinality(P) /\ At(t, x) = Cardinality(Q)
      /\ At(u, x) = Cardinality(W)
  BY DEF At
<1> HIDE DEF P, Q, R, W
<1>10. At(u, x) = At(s, x) + At(t, x)
  <2>1. Cardinality(W) = Cardinality(P) + Cardinality(R) - 0
    BY <1>4, <1>6, <1>8
  <2>2. Cardinality(W) = Cardinality(P) + Cardinality(Q)
    BY <1>5, <1>7, <2>1
  <2> QED
    BY <1>9, <2>2
<1> QED
  BY <1>7, <1>9, <1>10 DEF u

\* How often x is in nothing, and in one element.
LEMMA AtOne ==
  /\ \A x : At(<<>>, x) = 0
  /\ \A x, y : At(<<y>>, x) = IF x = y THEN 1 ELSE 0
<1>1. ASSUME NEW x PROVE At(<<>>, x) = 0
  <2>1. {j \in 1..Len(<<>>) : <<>>[j] = x} = {}
    OBVIOUS
  <2> QED
    BY <2>1, FS_EmptySet DEF At
<1>2. ASSUME NEW x, NEW y PROVE At(<<y>>, x) = IF x = y THEN 1 ELSE 0
  <2>1. {j \in 1..Len(<<y>>) : <<y>>[j] = x} = IF x = y THEN {1} ELSE {}
    OBVIOUS
  <2>2. Cardinality({1}) = 1 /\ Cardinality({}) = 0
    BY FS_EmptySet, FS_Singleton
  <2> QED
    BY <2>1, <2>2 DEF At
<1> QED
  BY <1>1, <1>2

\* It is there a number of times, and not at all if it is no element.
LEMMA AtRange ==
  ASSUME NEW s \in Seq(Lines), NEW x
  PROVE  At(s, x) \in Nat /\ (At(s, x) = 0 <=> x \notin Range(s))
<1> DEFINE P == {j \in 1..Len(s) : s[j] = x}
<1>1. IsFiniteSet(1..Len(s))
  BY LenProperties, FS_Interval
<1>2. IsFiniteSet(P)
  BY <1>1, FS_Subset
<1>3. Range(s) = {s[i] : i \in 1..Len(s)}
  BY RangeEquality
<1>4. P = {} <=> x \notin Range(s)
  BY <1>3
<1>5. Cardinality(P) \in Nat /\ (Cardinality(P) = 0 <=> P = {})
  BY <1>2, FS_EmptySet, FS_CardinalityType
<1> QED
  BY <1>4, <1>5 DEF At

\* For how many reasons x is lost.
Reasons(l, x) == Cardinality({c \in Causes : x \in l[c]})

\* A line is lost for a number of reasons, and for none if it is not lost.
LEMMA ReasonsKnown ==
  ASSUME NEW l, NEW x
  PROVE  /\ Reasons(l, x) \in Nat /\ (Reasons(l, x) = 0 <=> \A c \in Causes : x \notin l[c])
         /\ IsFiniteSet({c \in Causes : x \in l[c]})
<1>1. IsFiniteSet(Causes)
  <2>1. Causes = (((({"truncated"} \cup {"swallowed"}) \cup {"full"}) \cup {"old"})
                  \cup {"window"}) \cup {"cancelled"}
    BY DEF Causes
  <2>2. \A S, d : IsFiniteSet(S) => IsFiniteSet(S \cup {d})
    BY FS_AddElement
  <2>3. IsFiniteSet({"truncated"})
    BY FS_Singleton
  <2>4. IsFiniteSet(({"truncated"} \cup {"swallowed"}) \cup {"full"})
    BY <2>2, <2>3, Zenon
  <2>5. IsFiniteSet((((({"truncated"} \cup {"swallowed"}) \cup {"full"}) \cup {"old"})
                  \cup {"window"}) \cup {"cancelled"})
    BY <2>2, <2>4, Zenon
  <2> QED
    BY <2>1, <2>5
<1>2. IsFiniteSet({c \in Causes : x \in l[c]})
  BY <1>1, FS_Subset
<1> QED
  BY <1>2, FS_EmptySet, FS_CardinalityType DEF Reasons

\* A line that is lost for the same reasons, and one that is lost for one.
LEMMA SameReasons ==
  ASSUME NEW l, NEW m, NEW x, \A d \in Causes : x \in m[d] <=> x \in l[d]
  PROVE  Reasons(m, x) = Reasons(l, x)
<1>1. {d \in Causes : x \in m[d]} = {d \in Causes : x \in l[d]}
  OBVIOUS
<1> QED
  BY <1>1 DEF Reasons

\* A line lost for c alone.
LEMMA OneReason ==
  ASSUME NEW m, NEW x, NEW c \in Causes, \A d \in Causes : x \in m[d] <=> d = c
  PROVE  Reasons(m, x) = 1
<1>1. {d \in Causes : x \in m[d]} = {c}
  OBVIOUS
<1> QED
  BY <1>1, FS_Singleton DEF Reasons

----------------------------------------------------------------------------
(* What a flow keeps *)

\* The values that a flow gives to what it changes.
LEMMA FlowTypes ==
  ASSUME TypeOK, Flows
  PROVE  /\ last' \in 0..MaxLines /\ last <= last'
         /\ kind' \in [Lines -> Kinds \cup {"direct", "none"}]
         /\ counted' \in Seq(Lines) /\ lost' \in [Causes -> SUBSET Lines]
         /\ OnTheWay' \in Seq(Lines)
<1>1. /\ last \in 0..MaxLines /\ kind \in [Lines -> Kinds \cup {"direct", "none"}]
      /\ counted \in Seq(Lines) /\ lost \in [Causes -> SUBSET Lines] /\ last \in Nat
      /\ MaxLines \in Nat
  BY BoundsAssumption DEF TypeOK, MaxLines
<1>2. ASSUME NEW D \in Seq(Lines), Losing(D)
      PROVE  last' = last /\ kind' = kind /\ lost' \in [Causes -> SUBSET Lines]
  <2>1. \A c \in Causes : [lost EXCEPT ![c] = @ \cup {i \in Range(D) : Shown(i)}]
                            \in [Causes -> SUBSET Lines]
    BY <1>1, Sizes
  <2> QED
    BY <1>2, <2>1 DEF Losing
<1>3. ASSUME NEW X \in Seq(Lines), NEW D \in Seq(Lines), NEW Y \in Seq(Lines), Drop(X, D, Y)
      PROVE  /\ last' = last /\ kind' = kind /\ lost' \in [Causes -> SUBSET Lines]
             /\ counted' \in Seq(Lines) /\ OnTheWay' \in Seq(Lines)
  BY <1>1, <1>2, <1>3, Joins DEF Drop
<1>4. ASSUME NEW D \in Seq(Lines), NEW N \in Seq(Lines), NEW Y \in Seq(Lines), Arrive(D, N, Y)
      PROVE  /\ last' = last /\ kind' = kind /\ lost' \in [Causes -> SUBSET Lines]
             /\ counted' \in Seq(Lines) /\ OnTheWay' \in Seq(Lines)
  BY <1>1, <1>2, <1>4, Joins DEF Arrive
<1>5. ASSUME last + 1 \in Lines, NEW X \in Seq(Lines), NEW N \in Seq(Lines),
             NEW Y \in Seq(Lines), NEW k \in Kinds \cup {"direct"}, Sent(X, N, Y, k)
      PROVE  /\ last' = last + 1 /\ kind' \in [Lines -> Kinds \cup {"direct", "none"}]
             /\ lost' \in [Causes -> SUBSET Lines]
             /\ counted' \in Seq(Lines) /\ OnTheWay' \in Seq(Lines)
  <2>1. last' = last + 1 /\ kind' \in [Lines -> Kinds \cup {"direct", "none"}]
        /\ counted' \in Seq(Lines)
    BY <1>1, <1>5 DEF Sent
  <2>2. OnTheWay' \in Seq(Lines)
    BY <1>5, Joins DEF Sent
  <2>3. \A c \in Causes : [lost EXCEPT ![c] = @ \cup {last + 1}] \in [Causes -> SUBSET Lines]
    BY <1>1, <1>5
  <2>4. lost' \in [Causes -> SUBSET Lines]
    BY <1>1, <1>5, <2>3 DEF Sent
  <2> QED
    BY <2>1, <2>2, <2>4
<1>6. last + 1 \in Lines => last + 1 \in 0..MaxLines
  BY DEF Lines
<1> QED
  BY <1>1, <1>3, <1>4, <1>5, <1>6 DEF Flows

\* A flow adds at most one line, and the offset moves only over lines that leave.
LEMMA RoomKept ==
  ASSUME TypeOK, Places, Room, Flows, epos' \in Nat
  PROVE  Room'
<1>1. epos \in Nat /\ last \in Nat /\ OnTheWay \in Seq(Lines)
  BY Parts DEF TypeOK
<1>2. ASSUME NEW X \in Seq(Lines), NEW D \in Seq(Lines), NEW Y \in Seq(Lines), Drop(X, D, Y)
      PROVE  Room'
  <2>1. Len(OnTheWay) = Len(X) + Len(D) + Len(Y) /\ Len(OnTheWay') = Len(X) + Len(Y)
        /\ Len(X) \in Nat /\ Len(D) \in Nat /\ Len(Y) \in Nat
    BY <1>2, Joins, Sizes DEF Drop
  <2>2. epos' <= epos + Len(D) /\ last' = last
    BY <1>2 DEF Drop, Losing
  <2> QED
    BY <1>1, <2>1, <2>2 DEF Room
<1>3. ASSUME NEW D \in Seq(Lines), NEW N \in Seq(Lines), NEW Y \in Seq(Lines), Arrive(D, N, Y)
      PROVE  Room'
  <2>1. Len(OnTheWay) = Len(D) + Len(N) + Len(Y) /\ Len(OnTheWay') = Len(Y)
        /\ Len(D) \in Nat /\ Len(N) \in Nat /\ Len(Y) \in Nat
    BY <1>3, Joins, Sizes DEF Arrive
  <2>2. epos' <= epos + Len(D) + Len(N) /\ last' = last
    BY <1>3 DEF Arrive, Losing
  <2> QED
    BY <1>1, <2>1, <2>2 DEF Room
<1>4. ASSUME last + 1 \in Lines, NEW X \in Seq(Lines), NEW N \in Seq(Lines),
             NEW Y \in Seq(Lines), NEW k \in Kinds \cup {"direct"}, Sent(X, N, Y, k)
      PROVE  Room'
  <2>1. Len(OnTheWay) = Len(X) + Len(Y) /\ Len(OnTheWay') = Len(X) + Len(N) + Len(Y)
        /\ Len(X) \in Nat /\ Len(N) \in Nat /\ Len(Y) \in Nat
    BY <1>4, Joins, Sizes DEF Sent
  <2>2. epos' = epos /\ last' = last + 1 /\ (N = <<>> \/ N = <<last + 1>>)
    BY <1>4 DEF Sent
  <2>3. Len(N) <= 1
    <3>1. CASE N = <<>>
      BY <3>1
    <3>2. CASE N = <<last + 1>>
      BY <3>2
    <3> QED
      BY <2>2, <3>1, <3>2
  <2> QED
    BY <1>1, <2>1, <2>2, <2>3 DEF Room
<1> QED
  BY <1>2, <1>3, <1>4 DEF Flows

\* A flow moves the lines that are there, and sends the next one.
LEMMA NumberedKept == ASSUME TypeOK, Places, Numbered, Flows PROVE Numbered'
<1>1. last \in Nat /\ counted \in Seq(Lines) /\ lost \in [Causes -> SUBSET Lines]
  BY DEF TypeOK
<1>2. ASSUME NEW D \in Seq(Lines), Losing(D), Range(D) \subseteq 1..last
      PROVE  last' = last /\ UNION {lost'[c] : c \in Causes} \subseteq 1..last
  <2>1. PICK c \in Causes : lost' = [lost EXCEPT ![c] = @ \cup {i \in Range(D) : Shown(i)}]
    BY <1>2 DEF Losing
  <2>2. \A d \in Causes : lost'[d] \subseteq lost[d] \cup Range(D)
    BY <1>1, <2>1
  <2>3. \A d \in Causes : lost[d] \subseteq 1..last
    BY DEF Numbered
  <2> QED
    BY <1>2, <2>2, <2>3 DEF Losing
<1>3. ASSUME NEW X \in Seq(Lines), NEW D \in Seq(Lines), NEW Y \in Seq(Lines), Drop(X, D, Y)
      PROVE  Numbered'
  <2>1. Range(OnTheWay) = Range(X) \cup Range(D) \cup Range(Y)
        /\ Range(OnTheWay') = Range(X) \cup Range(Y)
    <3>1. X \o D \in Seq(Lines) /\ Range(X \o D) = Range(X) \cup Range(D)
      BY Joins, Sizes
    <3>2. Range(X \o D \o Y) = Range(X \o D) \cup Range(Y)
      BY <3>1, Sizes
    <3>3. Range(X \o Y) = Range(X) \cup Range(Y)
      BY Sizes
    <3> QED
      BY <1>3, <3>1, <3>2, <3>3 DEF Drop
  <2>2. Range(D) \subseteq 1..last /\ Range(OnTheWay') \subseteq 1..last
        /\ Range(counted') \subseteq 1..last
    BY <1>3, <2>1 DEF Numbered, Drop
  <2>3. last' = last /\ UNION {lost'[c] : c \in Causes} \subseteq 1..last
    BY <1>2, <1>3, <2>2 DEF Drop
  <2> QED
    BY <2>2, <2>3 DEF Numbered
<1>4. ASSUME NEW D \in Seq(Lines), NEW N \in Seq(Lines), NEW Y \in Seq(Lines), Arrive(D, N, Y)
      PROVE  Numbered'
  <2>1. Range(OnTheWay) = Range(D) \cup Range(N) \cup Range(Y) /\ Range(OnTheWay') = Range(Y)
        /\ Range(counted') = Range(counted) \cup Range(N)
    <3>1. D \o N \in Seq(Lines) /\ Range(D \o N) = Range(D) \cup Range(N)
      BY Joins, Sizes
    <3>2. Range(D \o N \o Y) = Range(D \o N) \cup Range(Y)
      BY <3>1, Sizes
    <3>3. Range(counted \o N) = Range(counted) \cup Range(N)
      BY <1>1, Sizes
    <3> QED
      BY <1>4, <3>1, <3>2, <3>3 DEF Arrive
  <2>2. Range(D) \subseteq 1..last /\ Range(OnTheWay') \subseteq 1..last
        /\ Range(counted') \subseteq 1..last
    BY <2>1 DEF Numbered
  <2>3. last' = last /\ UNION {lost'[c] : c \in Causes} \subseteq 1..last
    BY <1>2, <1>4, <2>2 DEF Arrive
  <2> QED
    BY <2>2, <2>3 DEF Numbered
<1>5. ASSUME last + 1 \in Lines, NEW X \in Seq(Lines), NEW N \in Seq(Lines),
             NEW Y \in Seq(Lines), NEW k \in Kinds \cup {"direct"}, Sent(X, N, Y, k)
      PROVE  Numbered'
  <2>1. last' = last + 1 /\ 1..last \subseteq 1..last' /\ last + 1 \in 1..last'
    BY <1>1, <1>5 DEF Sent
  <2>2. Range(OnTheWay) = Range(X) \cup Range(Y)
        /\ Range(OnTheWay') = Range(X) \cup Range(N) \cup Range(Y)
    <3>1. X \o N \in Seq(Lines) /\ Range(X \o N) = Range(X) \cup Range(N)
      BY Joins, Sizes
    <3>2. Range(X \o N \o Y) = Range(X \o N) \cup Range(Y)
      BY <3>1, Sizes
    <3>3. Range(X \o Y) = Range(X) \cup Range(Y)
      BY Sizes
    <3> QED
      BY <1>5, <3>1, <3>2, <3>3 DEF Sent
  <2>3. Range(N) \subseteq {last + 1} /\ counted' = counted
    BY <1>5, Sizes DEF Sent
  <2>4. \A d \in Causes : lost'[d] \subseteq lost[d] \cup {last + 1}
    BY <1>1, <1>5 DEF Sent
  <2>5. \A d \in Causes : lost[d] \subseteq 1..last
    BY DEF Numbered
  <2>6. UNION {lost'[d] : d \in Causes} \subseteq 1..last'
    BY <2>1, <2>4, <2>5
  <2>7. Range(OnTheWay') \subseteq 1..last' /\ Range(counted') \subseteq 1..last'
    BY <2>1, <2>2, <2>3 DEF Numbered
  <2> QED
    BY <2>6, <2>7 DEF Numbered
<1> QED
  BY <1>3, <1>4, <1>5 DEF Flows

\* A step that loses D, or sends a line, leaves every line accounted for.
LEMMA AccountedKept ==
  ASSUME TypeOK, Places, Numbered, EveryEventAccounted, Flows PROVE EveryEventAccounted'
<1>1. last \in Nat /\ counted \in Seq(Lines) /\ lost \in [Causes -> SUBSET Lines]
  BY DEF TypeOK
<1>2. \A i : Cardinality({c \in Causes : i \in lost[c]}) = Reasons(lost, i)
             /\ Cardinality({c \in Causes : i \in lost'[c]}) = Reasons(lost', i)
  BY DEF Reasons
<1>3. \A i \in 1..last : Shown(i) => At(OnTheWay, i) + At(counted, i) + Reasons(lost, i) = 1
  BY <1>2 DEF EveryEventAccounted
<1>4. SUFFICES ASSUME NEW i \in 1..last', Shown(i)'
               PROVE  At(OnTheWay', i) + At(counted', i) + Reasons(lost', i) = 1
  BY <1>2 DEF EveryEventAccounted, At
<1>5. ASSUME NEW D \in Seq(Lines), Losing(D), i \in 1..last, Shown(i),
             NEW n \in Nat, n + At(D, i) + Reasons(lost, i) = 1
      PROVE  n + Reasons(lost', i) = 1
  <2>1. PICK c \in Causes : lost' = [lost EXCEPT ![c] = @ \cup {j \in Range(D) : Shown(j)}]
    BY <1>5 DEF Losing
  <2> DEFINE S == {j \in Range(D) : Shown(j)}
  <2>2. S \in SUBSET Lines /\ (i \in S <=> i \in Range(D))
    BY <1>5, Sizes
  <2>3. At(D, i) \in Nat /\ (At(D, i) = 0 <=> i \notin Range(D)) /\ Reasons(lost, i) \in Nat
    BY AtRange, ReasonsKnown
  <2>4. lost' = [lost EXCEPT ![c] = @ \cup S]
    BY <2>1
  <2> HIDE DEF S
  <2>5. \A d \in Causes : i \in lost'[d] <=> i \in lost[d] \/ (d = c /\ i \in S)
    BY <1>1, <2>4
  <2>6. CASE i \in Range(D)
    <3>1. n = 0 /\ Reasons(lost, i) = 0
      BY <1>5, <2>3, <2>6
    <3>2. \A d \in Causes : i \notin lost[d]
      BY <3>1, ReasonsKnown
    <3>3. \A d \in Causes : i \in lost'[d] <=> d = c
      BY <2>2, <2>5, <2>6, <3>2
    <3>4. Reasons(lost', i) = 1
      BY <3>3, OneReason
    <3> QED
      BY <3>1, <3>4
  <2>7. CASE i \notin Range(D)
    <3>1. \A d \in Causes : i \in lost'[d] <=> i \in lost[d]
      BY <2>2, <2>5, <2>7
    <3>2. Reasons(lost', i) = Reasons(lost, i)
      BY <3>1, SameReasons
    <3> QED
      BY <1>5, <2>3, <2>7, <3>2
  <2> QED
    BY <2>6, <2>7
<1>6. ASSUME NEW D \in Seq(Lines), Losing(D)
      PROVE  i \in 1..last /\ Shown(i)
  BY <1>4, <1>6 DEF Losing, Shown
<1>7. ASSUME NEW X \in Seq(Lines), NEW D \in Seq(Lines), NEW Y \in Seq(Lines), Drop(X, D, Y)
      PROVE  At(OnTheWay', i) + At(counted', i) + Reasons(lost', i) = 1
  <2>1. X \o D \in Seq(Lines) /\ Losing(D)
    BY <1>7, Joins DEF Drop
  <2>2. At(X \o D, i) = At(X, i) + At(D, i) /\ At(X, i) \in Nat /\ At(D, i) \in Nat
    BY AtJoin
  <2>3. At(X \o D \o Y, i) = At(X \o D, i) + At(Y, i) /\ At(Y, i) \in Nat
    <3> DEFINE E == X \o D
    <3>1. E \in Seq(Lines)
      BY <2>1
    <3> HIDE DEF E
    <3>2. At(E \o Y, i) = At(E, i) + At(Y, i) /\ At(Y, i) \in Nat
      BY <3>1, AtJoin
    <3> QED
      BY <3>2 DEF E
  <2>4. At(X \o Y, i) = At(X, i) + At(Y, i)
    BY AtJoin
  <2>5. At(OnTheWay, i) = At(X, i) + At(D, i) + At(Y, i)
        /\ At(OnTheWay', i) = At(X, i) + At(Y, i) /\ At(counted', i) = At(counted, i)
    BY <1>7, <2>2, <2>3, <2>4 DEF Drop
  <2>6. i \in 1..last /\ Shown(i) /\ At(counted, i) \in Nat /\ Reasons(lost, i) \in Nat
    BY <1>1, <1>6, <2>1, AtRange, ReasonsKnown
  <2> DEFINE n == At(X, i) + At(Y, i) + At(counted, i)
  <2>7. n \in Nat /\ n + At(D, i) + Reasons(lost, i) = 1
    BY <1>3, <2>2, <2>3, <2>5, <2>6
  <2>8. n = At(OnTheWay', i) + At(counted', i)
    BY <2>5
  <2> HIDE DEF n
  <2> QED
    BY <1>5, <2>1, <2>6, <2>7, <2>8
<1>8. ASSUME NEW D \in Seq(Lines), NEW N \in Seq(Lines), NEW Y \in Seq(Lines), Arrive(D, N, Y)
      PROVE  At(OnTheWay', i) + At(counted', i) + Reasons(lost', i) = 1
  <2>1. D \o N \in Seq(Lines) /\ Losing(D)
    BY <1>8, Joins DEF Arrive
  <2>2. At(D \o N, i) = At(D, i) + At(N, i) /\ At(N, i) \in Nat /\ At(D, i) \in Nat
    BY AtJoin
  <2>3. At(D \o N \o Y, i) = At(D \o N, i) + At(Y, i) /\ At(Y, i) \in Nat
    <3> DEFINE E == D \o N
    <3>1. E \in Seq(Lines)
      BY <2>1
    <3> HIDE DEF E
    <3>2. At(E \o Y, i) = At(E, i) + At(Y, i) /\ At(Y, i) \in Nat
      BY <3>1, AtJoin
    <3> QED
      BY <3>2 DEF E
  <2>4. At(counted \o N, i) = At(counted, i) + At(N, i)
    BY <1>1, AtJoin
  <2>5. At(OnTheWay, i) = At(D, i) + At(N, i) + At(Y, i)
        /\ At(OnTheWay', i) = At(Y, i) /\ At(counted', i) = At(counted, i) + At(N, i)
    BY <1>8, <2>2, <2>3, <2>4 DEF Arrive
  <2>6. i \in 1..last /\ Shown(i) /\ At(counted, i) \in Nat /\ Reasons(lost, i) \in Nat
    BY <1>1, <1>6, <2>1, AtRange, ReasonsKnown
  <2> DEFINE n == At(Y, i) + At(counted, i) + At(N, i)
  <2>7. n \in Nat /\ n + At(D, i) + Reasons(lost, i) = 1
    BY <1>3, <2>2, <2>3, <2>5, <2>6
  <2>8. n = At(OnTheWay', i) + At(counted', i)
    BY <2>2, <2>3, <2>5, <2>6
  <2> HIDE DEF n
  <2> QED
    BY <1>5, <2>1, <2>6, <2>7, <2>8
<1>9. ASSUME last + 1 \in Lines, NEW X \in Seq(Lines), NEW N \in Seq(Lines),
             NEW Y \in Seq(Lines), NEW k \in Kinds \cup {"direct"}, Sent(X, N, Y, k)
      PROVE  At(OnTheWay', i) + At(counted', i) + Reasons(lost', i) = 1
  <2>1. X \o N \in Seq(Lines)
    BY Joins
  <2>2. At(X \o N, i) = At(X, i) + At(N, i) /\ At(X, i) \in Nat /\ At(N, i) \in Nat
    BY AtJoin
  <2>3. At(X \o N \o Y, i) = At(X \o N, i) + At(Y, i) /\ At(Y, i) \in Nat
    BY <2>1, AtJoin
  <2>4. At(X \o Y, i) = At(X, i) + At(Y, i)
    BY AtJoin
  <2>5. At(OnTheWay, i) = At(X, i) + At(Y, i)
        /\ At(OnTheWay', i) = At(X, i) + At(N, i) + At(Y, i) /\ At(counted', i) = At(counted, i)
    BY <1>9, <2>2, <2>3, <2>4 DEF Sent
  <2>6. At(counted, i) \in Nat /\ Reasons(lost, i) \in Nat /\ last' = last + 1
    BY <1>1, <1>9, AtRange, ReasonsKnown DEF Sent
  <2>7. CASE i \in 1..last
    <3>1. i # last + 1 /\ i \in Lines
      <4>1. last + 1 <= MaxLines /\ MaxLines \in Nat
        BY <1>1, <1>9, BoundsAssumption DEF Lines, MaxLines
      <4> QED
        BY <1>1, <2>7, <4>1 DEF Lines
    <3>2. Shown(i)
      BY <1>4, <1>9, <3>1 DEF Sent, Shown, TypeOK
    <3>3. At(N, i) = 0
      <4>1. CASE N = <<>>
        BY <4>1, AtOne
      <4>2. CASE N = <<last + 1>>
        BY <3>1, <4>2, AtOne
      <4> QED
        BY <1>9, <4>1, <4>2 DEF Sent
    <3>4. Reasons(lost', i) = Reasons(lost, i)
      <4>1. CASE lost' = lost
        BY <4>1
      <4>2. ASSUME NEW c \in Causes, lost' = [lost EXCEPT ![c] = @ \cup {last + 1}]
            PROVE  Reasons(lost', i) = Reasons(lost, i)
        <5>1. \A d \in Causes : i \in lost'[d] <=> i \in lost[d]
          BY <1>1, <3>1, <4>2
        <5> QED
          BY <5>1, SameReasons
      <4> QED
        BY <1>9, <4>1, <4>2 DEF Sent
    <3>5. At(OnTheWay, i) + At(counted, i) + Reasons(lost, i) = 1
      BY <1>3, <2>7, <3>2
    <3> QED
      BY <2>2, <2>3, <2>5, <2>6, <3>3, <3>4, <3>5
  <2>8. CASE i = last + 1
    <3>1. i \notin 1..last /\ i \in Lines
      BY <1>1, <1>9, <2>8
    <3>2. k # "dash"
      BY <1>4, <1>9, <2>8, <3>1 DEF Sent, Shown, TypeOK
    <3>3. i \notin Range(OnTheWay) /\ i \notin Range(counted)
          /\ \A c \in Causes : i \notin lost[c]
      BY <3>1 DEF Numbered
    <3>4. At(OnTheWay, i) = 0 /\ At(counted, i) = 0 /\ Reasons(lost, i) = 0
      BY <1>1, <3>3, Parts, AtRange, ReasonsKnown
    <3>5. CASE N = <<last + 1>> /\ lost' = lost
      <4>1. At(N, i) = 1
        BY <2>8, <3>5, AtOne
      <4> QED
        BY <2>2, <2>3, <2>5, <3>4, <3>5, <4>1
    <3>6. ASSUME N = <<>>, NEW c \in Causes, lost' = [lost EXCEPT ![c] = @ \cup {last + 1}]
          PROVE  At(OnTheWay', i) + At(counted', i) + Reasons(lost', i) = 1
      <4>1. At(N, i) = 0
        BY <3>6, AtOne
      <4>2. \A d \in Causes : i \in lost'[d] <=> d = c
        BY <1>1, <2>8, <3>3, <3>6
      <4>3. Reasons(lost', i) = 1
        BY <3>6, <4>2, OneReason
      <4> QED
        BY <2>2, <2>3, <2>5, <3>4, <4>1, <4>3
    <3> QED
      BY <1>9, <3>2, <3>5, <3>6 DEF Sent
  <2>9. i \in 1..last \/ i = last + 1
    BY <1>1, <2>6
  <2> QED
    BY <2>7, <2>8, <2>9
<1> QED
  BY <1>7, <1>8, <1>9 DEF Flows

----------------------------------------------------------------------------
(* The invariant is kept, and the accounts with it *)

\* The pieces of a sequence of lines.
LEMMA Pieces ==
  /\ \A s \in Seq(Lines) : s # <<>> => /\ Head(s) \in Lines /\ Tail(s) \in Seq(Lines)
                                      /\ Range(Tail(s)) \subseteq Range(s)
                                      /\ Head(s) \in Range(s) /\ Len(Tail(s)) = Len(s) - 1
  /\ \A s \in Seq(Lines), x \in Lines : /\ Append(s, x) \in Seq(Lines)
                                        /\ Range(Append(s, x)) = Range(s) \cup {x}
                                        /\ Len(Append(s, x)) = Len(s) + 1
  /\ \A s \in Seq(Lines), n \in Nat : /\ After(s, n) \in Seq(Lines)
                                      /\ Range(After(s, n)) \subseteq Range(s)
<1>1. ASSUME NEW s \in Seq(Lines), s # <<>>
      PROVE  /\ Head(s) \in Lines /\ Tail(s) \in Seq(Lines)
             /\ Range(Tail(s)) \subseteq Range(s)
             /\ Head(s) \in Range(s) /\ Len(Tail(s)) = Len(s) - 1
  <2>1. Head(s) \in Lines /\ Tail(s) \in Seq(Lines) /\ s = <<Head(s)>> \o Tail(s)
        /\ <<Head(s)>> \in Seq(Lines)
    BY <1>1, HeadFirst
  <2>2. Range(s) = Range(<<Head(s)>>) \cup Range(Tail(s)) /\ Range(<<Head(s)>>) = {Head(s)}
        /\ Len(s) = Len(<<Head(s)>>) + Len(Tail(s)) /\ Len(<<Head(s)>>) = 1
        /\ Len(Tail(s)) \in Nat
    BY <2>1, Sizes
  <2> QED
    BY <2>1, <2>2
<1>2. ASSUME NEW s \in Seq(Lines), NEW x \in Lines
      PROVE  /\ Append(s, x) \in Seq(Lines) /\ Range(Append(s, x)) = Range(s) \cup {x}
             /\ Len(Append(s, x)) = Len(s) + 1
  <2>1. Append(s, x) = s \o <<x>> /\ <<x>> \in Seq(Lines)
    BY Joins
  <2>2. s \o <<x>> \in Seq(Lines)
    BY <2>1, Joins
  <2>3. Range(s \o <<x>>) = Range(s) \cup Range(<<x>>) /\ Range(<<x>>) = {x}
        /\ Len(s \o <<x>>) = Len(s) + Len(<<x>>) /\ Len(<<x>>) = 1
    BY <2>1, Sizes
  <2> QED
    BY <2>1, <2>2, <2>3
<1>3. ASSUME NEW s \in Seq(Lines), NEW n \in Nat
      PROVE  After(s, n) \in Seq(Lines) /\ Range(After(s, n)) \subseteq Range(s)
  <2>1. After(s, n) \in Seq(Lines) /\ Len(s) \in Nat
    BY AfterSeq, Sizes
  <2>2. CASE n <= Len(s)
    <3>0. n \in 0..Len(s)
      BY <2>1, <2>2
    <3>1. SubSeq(s, 1, n) \in Seq(Lines) /\ s = SubSeq(s, 1, n) \o After(s, n)
      BY <3>0, AfterNothing
    <3>2. Range(SubSeq(s, 1, n) \o After(s, n))
            = Range(SubSeq(s, 1, n)) \cup Range(After(s, n))
      BY <2>1, <3>1, Sizes
    <3> QED
      BY <2>1, <3>1, <3>2
  <2>3. CASE ~(n <= Len(s))
    <3>1. After(s, n) = <<>>
      BY <2>1, <2>3, AfterSeq
    <3> QED
      BY <2>1, <3>1, Sizes
  <2> QED
    BY <2>2, <2>3
<1> QED
  BY <1>1, <1>2, <1>3

\* RAW_LOG and the reader's buffer keep to the lines P2Pool has printed.
ReaderPlaces ==
  /\ raw \in Seq(Lines) /\ ahead \in Seq(Lines) /\ rawPos \in Nat /\ block \in 0..MaxLines
  /\ rawPos <= last /\ Len(raw) <= last
  /\ \A i \in Range(raw) \cup Range(ahead) : i <= last /\ kind[i] \in Kinds

\* Every step keeps RAW_LOG, the offset in it and the buffer so.
LEMMA ReaderKept == ASSUME TypeOK, Places, Budget, [Next]_vars PROVE ReaderPlaces'
<1>1. /\ ReaderPlaces /\ last \in Nat /\ kind \in [Lines -> Kinds \cup {"direct", "none"}]
      /\ Len(raw) \in Nat /\ Range(raw) \subseteq Lines /\ Range(ahead) \subseteq Lines
  <2>1. ReaderPlaces
    BY DEF TypeOK, Places, ReaderPlaces
  <2> QED
    BY <2>1, Sizes DEF TypeOK, ReaderPlaces
<1>2. Lines \subseteq 0..MaxLines
  BY BoundsAssumption DEF Lines, MaxLines
<1>3. ASSUME NEW k \in Kinds, PrintLine(k) PROVE ReaderPlaces'
  <2>1. /\ last' = last + 1 /\ kind' = [kind EXCEPT ![last + 1] = k]
        /\ raw' = Append(raw, last + 1) /\ UNCHANGED <<rawPos, ahead, block>>
    BY <1>3 DEF PrintLine
  <2>2. last + 1 \in Lines
    BY <1>3, RoomForOne DEF PrintLine
  <2>3. raw' \in Seq(Lines) /\ Range(raw') = Range(raw) \cup {last + 1}
        /\ Len(raw') = Len(raw) + 1
    BY <1>1, <2>1, <2>2, Pieces DEF ReaderPlaces
  <2>4. kind'[last + 1] = k /\ \A i \in Lines : i # last + 1 => kind'[i] = kind[i]
    BY <1>1, <2>1, <2>2
  <2>5. ASSUME NEW i \in Range(raw') \cup Range(ahead')
        PROVE  i <= last' /\ kind'[i] \in Kinds
    <3>1. CASE i = last + 1
      BY <1>1, <1>3, <2>1, <2>4, <3>1
    <3>2. CASE i \in Range(raw) \cup Range(ahead)
      <4>1. i \in Lines /\ i \in Nat /\ i <= last /\ kind[i] \in Kinds
        BY <1>1, <3>2 DEF ReaderPlaces, Lines
      <4>2. i # last + 1 /\ i <= last + 1
        BY <1>1, <4>1
      <4> QED
        BY <2>1, <2>4, <4>1, <4>2
    <3> QED
      BY <2>1, <2>3, <3>1, <3>2
  <2>6. rawPos' \in Nat /\ rawPos' <= last' /\ Len(raw') <= last'
    BY <1>1, <2>1, <2>3 DEF ReaderPlaces
  <2> QED
    BY <1>1, <2>1, <2>3, <2>5, <2>6 DEF ReaderPlaces
<1>4. CASE LogDirect
  <2>1. /\ last' = last + 1 /\ kind' = [kind EXCEPT ![last + 1] = "direct"]
        /\ UNCHANGED <<raw, rawPos, ahead, block>>
    BY <1>4 DEF LogDirect, reader
  <2>2. \A i \in Lines : i # last + 1 => kind'[i] = kind[i]
    BY <1>1, <2>1
  <2>3. ASSUME NEW i \in Range(raw) \cup Range(ahead)
        PROVE  i <= last' /\ kind'[i] \in Kinds
    <3>1. i \in Lines /\ i \in Nat /\ i <= last /\ kind[i] \in Kinds
      BY <1>1 DEF ReaderPlaces, Lines
    <3>2. i # last + 1 /\ i <= last + 1
      BY <1>1, <3>1
    <3> QED
      BY <2>1, <2>2, <3>1, <3>2
  <2>4. rawPos <= last' /\ Len(raw) <= last'
    BY <1>1, <2>1 DEF ReaderPlaces
  <2> QED
    BY <1>1, <2>1, <2>3, <2>4 DEF ReaderPlaces
<1>5. CASE Truncate
  <2>1. raw' = <<>> /\ UNCHANGED <<last, kind, rawPos, ahead, block>>
    BY <1>5 DEF Truncate
  <2>2. <<>> \in Seq(Lines) /\ Len(<<>>) = 0 /\ Range(<<>>) = {}
    BY Joins, Sizes
  <2> QED
    BY <1>1, <2>1, <2>2 DEF ReaderPlaces
<1>6. CASE Fetch
  <2>1. /\ ahead' = After(raw, rawPos) /\ rawPos' = Len(raw)
        /\ UNCHANGED <<last, kind, raw, block>>
    BY <1>6 DEF Fetch
  <2>2. ahead' \in Seq(Lines) /\ Range(ahead') \subseteq Range(raw)
    BY <1>1, <2>1, Pieces DEF ReaderPlaces
  <2> QED
    BY <1>1, <2>1, <2>2 DEF ReaderPlaces
<1>7. CASE ReadEvent \/ ReadOther \/ Collect \/ EndBlock
  <2>1. /\ ahead # <<>> /\ ahead' = Tail(ahead) /\ UNCHANGED <<last, kind, raw, rawPos>>
        /\ block' \in {block, Line, 0}
    BY <1>7 DEF ReadEvent, ReadOther, Collect, EndBlock, Unread, ReadLine
  <2>2. ahead' \in Seq(Lines) /\ Range(ahead') \subseteq Range(ahead) /\ Line \in Lines
    BY <1>1, <2>1, Pieces DEF ReaderPlaces, Line
  <2>3. 0 \in 0..MaxLines
    BY BoundsAssumption DEF MaxLines
  <2> QED
    BY <1>1, <1>2, <2>1, <2>2, <2>3 DEF ReaderPlaces
<1>8. CASE Shutdown \/ WriterCancelled \/ LeftGet \/ Writer \/ Events \/ UNCHANGED vars
  <2>1. UNCHANGED <<last, kind, raw, rawPos, ahead, block>>
    BY <1>8 DEF Shutdown, WriterCancelled, LeftGet, Writer, WriterGet, WriterWrite, WriterDone,
      Events, Hydrate, SeekEnd, Count, reader, vars
  <2> QED
    BY <1>1, <2>1 DEF ReaderPlaces
<1> QED
  BY <1>3, <1>4, <1>5, <1>6, <1>7, <1>8 DEF Next, Reader

\* log_queue keeps to its maxsize.
QueuePlaces == queue \in Seq(Lines) /\ Len(queue) <= QueueSize

\* Every step keeps log_queue so.
LEMMA QueueKept == ASSUME TypeOK, Places, Budget, [Next]_vars PROVE QueuePlaces'
<1>1. /\ queue \in Seq(Lines) /\ Len(queue) <= QueueSize /\ Len(queue) \in Nat
      /\ QueueSize \in Nat /\ block \in 0..MaxLines /\ ahead \in Seq(Lines)
  BY Sizes, BoundsAssumption DEF TypeOK
<1>2. ASSUME NEW x \in Lines, Len(queue) < QueueSize, queue' = Append(queue, x)
      PROVE  QueuePlaces'
  <2>1. queue' \in Seq(Lines) /\ Len(queue') = Len(queue) + 1
    BY <1>1, <1>2, Pieces
  <2> QED
    BY <1>1, <1>2, <2>1 DEF QueuePlaces
<1>3. CASE queue' = queue
  BY <1>1, <1>3 DEF QueuePlaces
<1>4. ASSUME NEW x \in Lines, LogEvent(x) PROVE QueuePlaces'
  BY <1>2, <1>3, <1>4 DEF LogEvent
<1>5. CASE LogDirect
  <2>1. last + 1 \in Lines
    BY <1>5, RoomForOne DEF LogDirect
  <2> QED
    BY <1>2, <1>3, <1>5, <2>1 DEF LogDirect
<1>6. CASE ReadEvent
  <2>1. Line \in Lines
    BY <1>1, <1>6, Pieces DEF ReadEvent, Unread, Line
  <2> QED
    BY <1>4, <1>6, <2>1 DEF ReadEvent
<1>7. CASE EndBlock
  <2>1. block \in Lines
    BY <1>1, <1>7, BoundsAssumption DEF EndBlock, Lines, MaxLines
  <2> QED
    BY <1>4, <1>7, <2>1 DEF EndBlock
<1>8. CASE WriterGet \/ LeftGet
  <2>1. queue' = Tail(queue) /\ queue # <<>>
    BY <1>8 DEF WriterGet, LeftGet
  <2>2. queue' \in Seq(Lines) /\ Len(queue') = Len(queue) - 1
    BY <1>1, <2>1, Pieces
  <2> QED
    BY <1>1, <2>2 DEF QueuePlaces
<1>9. CASE \/ \E k \in Kinds : PrintLine(k)
           \/ Truncate \/ Shutdown \/ WriterCancelled \/ Fetch \/ ReadOther \/ Collect
           \/ WriterWrite \/ WriterDone \/ Events \/ UNCHANGED vars
  <2>1. queue' = queue
    BY <1>9 DEF PrintLine, Truncate, Shutdown, WriterCancelled, Fetch, ReadOther, Collect,
      WriterWrite, WriterDone, Events, Hydrate, SeekEnd, Count, vars
  <2> QED
    BY <1>3, <2>1
<1> QED
  BY <1>5, <1>6, <1>7, <1>8, <1>9 DEF Next, Reader, Writer

\* The writer has a line in hand exactly while it is to write it.
WriterPlaces ==
  /\ wpc \in {"get", "write", "left", "done"} /\ wline \in 0..MaxLines /\ evlog \in Seq(Lines)
  /\ wline # 0 <=> wpc = "write"

\* Every step keeps the writer so.
LEMMA WriterKept == ASSUME TypeOK, Places, Budget, [Next]_vars PROVE WriterPlaces'
<1>1. WriterPlaces /\ queue \in Seq(Lines) /\ 0 \in 0..MaxLines
  BY BoundsAssumption DEF TypeOK, Places, WriterPlaces, MaxLines
<1>2. CASE WriterGet
  <2>1. /\ queue # <<>> /\ wline' = Head(queue) /\ wpc' = "write" /\ evlog' = evlog
    BY <1>2 DEF WriterGet
  <2>2. wline' \in Lines
    BY <1>1, <2>1, Pieces
  <2>3. wline' \in 0..MaxLines /\ wline' # 0
    BY <2>2, BoundsAssumption DEF Lines, MaxLines
  <2> QED
    BY <1>1, <2>1, <2>3 DEF WriterPlaces
<1>3. CASE WriterWrite
  <2>1. wpc = "write" /\ evlog' = Append(evlog, wline) /\ wline' = 0 /\ wpc' = "get"
    BY <1>3 DEF WriterWrite
  <2>2. wline \in Lines
    BY <1>1, <2>1, BoundsAssumption DEF WriterPlaces, Lines, MaxLines
  <2>3. evlog' \in Seq(Lines)
    BY <1>1, <2>1, <2>2, Pieces DEF WriterPlaces
  <2> QED
    BY <1>1, <2>1, <2>3 DEF WriterPlaces
<1>4. CASE WriterDone \/ WriterCancelled \/ LeftGet
  <2>1. /\ evlog' = evlog /\ wpc' \in {"left", "done"} /\ wline' \in {wline, 0}
        /\ WriterDone \/ LeftGet => wpc # "write" /\ wline' = wline
        /\ WriterCancelled => wline' = 0
    BY <1>4 DEF WriterDone, WriterCancelled, LeftGet
  <2> QED
    BY <1>1, <1>4, <2>1 DEF WriterPlaces
<1>5. CASE \/ \E k \in Kinds : PrintLine(k)
           \/ Truncate \/ Shutdown \/ LogDirect \/ Reader \/ Events \/ UNCHANGED vars
  <2>1. UNCHANGED <<wpc, wline, evlog>>
    BY <1>5 DEF PrintLine, Truncate, Shutdown, LogDirect, Reader, Fetch, ReadEvent, ReadOther,
      Collect, EndBlock, Events, Hydrate, SeekEnd, Count, writer, vars
  <2> QED
    BY <1>1, <2>1 DEF WriterPlaces
<1> QED
  BY <1>2, <1>3, <1>4, <1>5 DEF Next, Writer

\* EventProcessor is inside EVENT_LOG, and at its beginning until it has read it.
EventsPlaces ==
  /\ epc \in {"hydrate", "seek", "tail"} /\ epos \in Nat /\ stop \in BOOLEAN
  /\ epos <= Len(evlog) /\ (epc = "hydrate" => epos = 0)

\* Every step keeps EventProcessor so.
LEMMA EventsKept == ASSUME TypeOK, Places, Budget, [Next]_vars PROVE EventsPlaces'
<1>1. EventsPlaces /\ evlog \in Seq(Lines) /\ Len(evlog) \in Nat
  BY Sizes DEF TypeOK, Places, EventsPlaces
<1>2. CASE WriterWrite
  <2>1. wpc = "write" /\ evlog' = Append(evlog, wline) /\ UNCHANGED <<epc, epos, stop>>
    BY <1>2 DEF WriterWrite, events
  <2>2. wline \in Lines
    BY <2>1, BoundsAssumption DEF TypeOK, Places, Lines, MaxLines
  <2>3. Len(evlog') = Len(evlog) + 1
    BY <1>1, <2>1, <2>2, Pieces
  <2> QED
    BY <1>1, <2>1, <2>3 DEF EventsPlaces
<1>3. CASE Hydrate
  <2>1. epc' = "seek" /\ epos' = Len(evlog) /\ UNCHANGED <<evlog, stop>>
    BY <1>3 DEF Hydrate, writer
  <2> QED
    BY <1>1, <2>1 DEF EventsPlaces
<1>4. CASE SeekEnd
  <2>1. epc' = "tail" /\ epos' = Len(evlog) /\ UNCHANGED <<evlog, stop>>
    BY <1>4 DEF SeekEnd, writer
  <2> QED
    BY <1>1, <2>1 DEF EventsPlaces
<1>5. CASE Count
  <2>1. epc = "tail" /\ epos < Len(evlog) /\ epos' = epos + 1 /\ UNCHANGED <<epc, evlog, stop>>
    BY <1>5 DEF Count, writer
  <2> QED
    BY <1>1, <2>1 DEF EventsPlaces
<1>6. CASE Shutdown
  BY <1>1, <1>6 DEF Shutdown, writer, events, EventsPlaces
<1>7. CASE \/ \E k \in Kinds : PrintLine(k)
           \/ Truncate \/ LogDirect \/ Reader \/ WriterGet \/ WriterDone \/ WriterCancelled
           \/ LeftGet \/ UNCHANGED vars
  <2>1. UNCHANGED <<evlog, epc, epos, stop>>
    BY <1>7 DEF PrintLine, Truncate, LogDirect, Reader, Fetch, ReadEvent, ReadOther, Collect,
      EndBlock, WriterGet, WriterDone, WriterCancelled, LeftGet, writer, events, vars
  <2> QED
    BY <1>1, <2>1 DEF EventsPlaces
<1> QED
  BY <1>2, <1>3, <1>4, <1>5, <1>6, <1>7 DEF Next, Writer, Events

\* LogDirect sends one line more of its kind, PrintLine none.
LEMMA BudgetKept == ASSUME TypeOK, Budget, [Next]_vars PROVE Budget'
<1> DEFINE A == {i \in 1..last : kind[i] = "direct"}
           B == {i \in 1..last' : kind'[i] = "direct"}
<1>1. /\ last \in Nat /\ kind \in [Lines -> Kinds \cup {"direct", "none"}]
      /\ MaxPrinted \in Nat /\ MaxDirect \in Nat /\ last <= MaxLines /\ MaxLines \in Nat
      /\ Lines = 1..MaxLines
  BY BoundsAssumption DEF TypeOK, MaxLines, Lines
<1>2. IsFiniteSet(A) /\ last + 1 \notin A
  <2>1. IsFiniteSet(1..last)
    BY <1>1, FS_Interval
  <2> QED
    BY <1>1, <2>1, FS_Subset
<1>3. Direct = Cardinality(A) /\ Direct' = Cardinality(B)
  BY DEF Direct
<1>4. ASSUME NEW k \in Kinds \cup {"direct"}, last + 1 \in Lines, last' = last + 1,
             kind' = [kind EXCEPT ![last + 1] = k]
      PROVE  B = IF k = "direct" THEN A \cup {last + 1} ELSE A
  <2>1. kind'[last + 1] = k /\ \A i \in 1..last : kind'[i] = kind[i]
    BY <1>1, <1>4
  <2>2. 1..last' = 1..last \cup {last + 1}
    BY <1>1, <1>4
  <2> QED
    BY <2>1, <2>2
<1>5. ASSUME NEW k \in Kinds, PrintLine(k) PROVE Budget'
  <2>1. last' = last + 1 /\ kind' = [kind EXCEPT ![last + 1] = k] /\ last + 1 \in Lines
        /\ last - Direct < MaxPrinted
    BY <1>5, RoomForOne DEF PrintLine, Printed
  <2>2. k # "direct" /\ k \in Kinds \cup {"direct"}
    BY <1>5 DEF Kinds
  <2>3. B = A
    BY <1>4, <2>1, <2>2
  <2>4. Direct' = Direct
    BY <1>3, <2>3
  <2> QED
    BY <1>1, <2>1, <2>4 DEF Budget
<1>6. CASE LogDirect
  <2>1. last' = last + 1 /\ kind' = [kind EXCEPT ![last + 1] = "direct"] /\ last + 1 \in Lines
        /\ Direct < MaxDirect
    BY <1>6, RoomForOne DEF LogDirect
  <2>2. B = A \cup {last + 1}
    BY <1>4, <2>1
  <2>3. Cardinality(A \cup {last + 1}) = Cardinality(A) + 1
    BY <1>2, FS_AddElement
  <2>4. Direct' = Direct + 1
    BY <1>3, <2>2, <2>3
  <2> QED
    BY <1>1, <2>1, <2>4 DEF Budget
<1>7. ASSUME last' = last, kind' = kind PROVE Budget'
  <2>1. Direct' = Direct
    BY <1>7 DEF Direct
  <2> QED
    BY <1>7, <2>1 DEF Budget
<1>8. CASE \/ Truncate \/ Shutdown \/ WriterCancelled \/ LeftGet \/ Reader \/ Writer
           \/ Events \/ UNCHANGED vars
  <2>1. last' = last /\ kind' = kind
    BY <1>8 DEF Truncate, Shutdown, WriterCancelled, LeftGet, Reader, Fetch, ReadEvent, ReadOther,
      Collect, EndBlock, Writer, WriterGet, WriterWrite, WriterDone, Events, Hydrate, SeekEnd,
      Count, vars
  <2> QED
    BY <1>7, <2>1
<1> QED
  BY <1>5, <1>6, <1>8 DEF Next

\* Nothing is on its way at first.
LEMMA NothingOnTheWay == ASSUME Init, TypeOK, Places PROVE OnTheWay = <<>>
<1>1. <<>> \in Seq(Lines)
  BY Joins
<1>2. Filed = <<>> /\ Unseen = <<>>
  <2>1. ASSUME NEW s \in Seq(Lines), s = <<>> PROVE After(s, 0) = <<>>
    <3>1. Len(s) <= 0
      BY <2>1
    <3> QED
      BY <3>1, AfterSeq
  <2> QED
    BY <2>1 DEF Init, TypeOK, Filed, Unseen
<1>3. Written = <<>> /\ Opened = <<>>
  BY DEF Init, Written, Opened, One
<1>4. queue = <<>> /\ ahead = <<>>
  BY DEF Init
<1>5. OnTheWay = Filed \o Written \o queue \o Opened \o ahead \o Unseen
  BY Parts
<1> QED
  BY <1>2, <1>3, <1>4, <1>5, Joins

\* Both files are empty at first, and nothing has been sent.
LEMMA InitKnown == ASSUME Init PROVE Known /\ EveryEventAccounted
<1>1. /\ MaxLines \in Nat /\ QueueSize \in Nat /\ MaxPrinted \in Nat /\ MaxDirect \in Nat
      /\ 0 \in 0..MaxLines /\ Lines = 1..MaxLines
  BY BoundsAssumption DEF MaxLines, Lines
<1>2. <<>> \in Seq(Lines) /\ Len(<<>>) = 0 /\ Range(<<>>) = {}
  BY Joins, Sizes
<1>3. TypeOK
  <2>1. kind \in [Lines -> Kinds \cup {"direct", "none"}] /\ lost \in [Causes -> SUBSET Lines]
    BY <1>1 DEF Init
  <2>2. last \in 0..MaxLines /\ rawPos \in 0..MaxLines /\ block \in 0..MaxLines
        /\ wline \in 0..MaxLines /\ epos \in 0..MaxLines
    BY <1>1 DEF Init
  <2>3. /\ raw \in Seq(Lines) /\ ahead \in Seq(Lines) /\ queue \in Seq(Lines)
        /\ evlog \in Seq(Lines) /\ counted \in Seq(Lines)
    BY <1>2 DEF Init
  <2>4. Len(queue) <= QueueSize
    BY <1>1, <1>2 DEF Init
  <2>5. wpc = "get" /\ epc = "hydrate" /\ stop = FALSE
    BY DEF Init
  <2> QED
    BY <2>1, <2>2, <2>3, <2>4, <2>5 DEF TypeOK
<1>4. Places
  BY <1>2 DEF Init, Places
<1>5. OnTheWay = <<>>
  BY <1>3, <1>4, NothingOnTheWay
<1>6. Room
  BY <1>2, <1>5 DEF Init, Room
<1>7. Numbered
  BY <1>2, <1>5 DEF Init, Numbered
<1>8. Budget
  <2>1. Direct = 0
    <3>1. {i \in 1..last : kind[i] = "direct"} = {}
      BY DEF Init
    <3> QED
      BY <3>1, FS_EmptySet DEF Direct
  <2> QED
    BY <1>1, <2>1 DEF Init, Budget
<1>9. EveryEventAccounted
  BY DEF Init, EveryEventAccounted
<1> QED
  BY <1>3, <1>4, <1>6, <1>7, <1>8, <1>9 DEF Known

\* Every step keeps the accounts and what they rest on.
LEMMA StepKnown ==
  ASSUME Known, EveryEventAccounted, [Next]_vars PROVE Known' /\ EveryEventAccounted'
<1>1. TypeOK /\ Places /\ Room /\ Numbered /\ Budget
  BY DEF Known
<1>2. Flows
  BY <1>1, StepFlows
<1>3. ReaderPlaces' /\ QueuePlaces' /\ WriterPlaces' /\ EventsPlaces'
  BY <1>1, ReaderKept, QueueKept, WriterKept, EventsKept
<1>4. Places'
  BY <1>3 DEF Places, ReaderPlaces, WriterPlaces, EventsPlaces
<1>5. Room' /\ epos' \in Nat
  BY <1>1, <1>2, <1>3, RoomKept DEF EventsPlaces
<1>6. /\ last' \in 0..MaxLines /\ kind' \in [Lines -> Kinds \cup {"direct", "none"}]
      /\ counted' \in Seq(Lines) /\ lost' \in [Causes -> SUBSET Lines]
      /\ OnTheWay' \in Seq(Lines)
  BY <1>1, <1>2, FlowTypes
<1>7. epos' <= last'
  <2>1. Len(OnTheWay') \in Nat
    BY <1>6, Sizes
  <2> QED
    BY <1>5, <1>6, <2>1 DEF Room
<1>8. epos' \in 0..MaxLines /\ rawPos' \in 0..MaxLines
  BY <1>3, <1>5, <1>6, <1>7, BoundsAssumption DEF ReaderPlaces, MaxLines
<1>9. TypeOK'
  BY <1>3, <1>6, <1>8 DEF TypeOK, ReaderPlaces, QueuePlaces, WriterPlaces, EventsPlaces
<1>10. Numbered'
  BY <1>1, <1>2, NumberedKept
<1>11. Budget'
  BY <1>1, BudgetKept
<1>12. EveryEventAccounted'
  BY <1>1, <1>2, AccountedKept
<1> QED
  BY <1>4, <1>5, <1>9, <1>10, <1>11, <1>12 DEF Known

\* The accounts of the lines and the strengthening they need hold in every state:
\* whatever the two readers, the writer, P2Pool and a restart do, and in any order.
THEOREM Accounted == Spec => [](Known /\ EveryEventAccounted)
<1>1. Init => Known /\ EveryEventAccounted
  BY InitKnown
<1>2. (Known /\ EveryEventAccounted) /\ [Next]_vars => (Known /\ EveryEventAccounted)'
  BY StepKnown
<1> QED
  BY <1>1, <1>2, PTL DEF Spec

\* Every event that _redirect_output prints or log_event_now logs is on its way
\* once, counted once or lost once for a reason that is named, and log_queue
\* keeps to its maxsize: for any number of lines, any queue and any bootstrap.
THEOREM Correct == Spec => [](TypeOK /\ EveryEventAccounted)
<1>1. Known /\ EveryEventAccounted => TypeOK /\ EveryEventAccounted
  BY DEF Known
<1> QED
  BY <1>1, Accounted, PTL

----------------------------------------------------------------------------
(* The channel that the pipeline implements *)

\* P2Pool's events among lines are numbers.
LEMMA EventsAmong ==
  ASSUME NEW s \in Seq(Lines), NEW S
  PROVE  Selected(s, S) \in Seq(Nat)
<1>1. \A n \in Lines : n \in Nat
  BY BoundsAssumption DEF Lines, MaxLines
<1>2. s \in Seq(Nat)
  BY <1>1
<1> QED
  BY <1>2, SelectedSeq

\* Those among some lines and those among what follows them.
LEMMA TwoPieces ==
  ASSUME NEW S, NEW s \in Seq(Lines), NEW t \in Seq(Lines)
  PROVE  Selected(s \o t, S) = Selected(s, S) \o Selected(t, S)
BY SelectedConcat

\* A new line does not change which of the earlier ones are P2Pool's events.
LEMMA EarlierStay ==
  ASSUME TypeOK, last + 1 \in Lines, NEW k \in Kinds \cup {"direct"},
         kind' = [kind EXCEPT ![last + 1] = k],
         NEW s \in Seq(Lines), Range(s) \subseteq 1..last
  PROVE  Selected(s, FromP2Pool') = Selected(s, FromP2Pool)
<1>1. last \in Nat /\ kind \in [Lines -> Kinds \cup {"direct", "none"}]
  BY DEF TypeOK
<1>2. \A i \in 1..last : i # last + 1
  BY <1>1
<1>3. \A i \in Lines : i # last + 1 => kind'[i] = kind[i]
  BY <1>1
<1>4. \A i \in 1..last : i \in FromP2Pool' <=> i \in FromP2Pool
  BY <1>2, <1>3 DEF FromP2Pool
<1>5. \A i \in 1..Len(s) : s[i] \in 1..last
  <2>1. Range(s) = {s[i] : i \in 1..Len(s)}
    BY RangeEquality
  <2> QED
    BY <2>1
<1>6. \A i \in 1..Len(s) : s[i] \in FromP2Pool' <=> s[i] \in FromP2Pool
  BY <1>4, <1>5
<1> HIDE DEF FromP2Pool
<1> QED
  BY <1>6, SelectedSame

\* A line that is dropped is lost in the channel.
LEMMA DropIsLoss ==
  ASSUME TypeOK, Places, Ordered, NEW X \in Seq(Lines), NEW D \in Seq(Lines),
         NEW Y \in Seq(Lines), Drop(X, D, Y)
  PROVE  FifoLemmas!Lose
<1> DEFINE x == Selected(X, FromP2Pool)
           d == Selected(D, FromP2Pool)
           y == Selected(Y, FromP2Pool)
<1>1. x \in Seq(Nat) /\ d \in Seq(Nat) /\ y \in Seq(Nat)
  BY EventsAmong
<1>2. FromP2Pool' = FromP2Pool /\ last' = last /\ counted' = counted
      /\ OnTheWay = X \o D \o Y /\ OnTheWay' = X \o Y
  BY DEF Drop, Losing, FromP2Pool
<1>3. Selected(OnTheWay, FromP2Pool) = (x \o d) \o y
  <2> DEFINE u == X \o D
  <2>1. u \in Seq(Lines)
    BY Joins
  <2>2. Selected(u, FromP2Pool) = x \o d
    BY TwoPieces
  <2>3. OnTheWay = u \o Y
    BY <1>2
  <2>4. Selected(u \o Y, FromP2Pool) = Selected(u, FromP2Pool) \o y
    BY <2>1, TwoPieces
  <2> HIDE DEF u
  <2> QED
    BY <2>2, <2>3, <2>4
<1>4. Selected(OnTheWay', FromP2Pool') = x \o y
  BY <1>2, TwoPieces
<1>5. Selected(counted', FromP2Pool') = Selected(counted, FromP2Pool)
  BY <1>2
<1>6. FifoLemmas!Increasing(Selected(OnTheWay, FromP2Pool))
  BY DEF Ordered, FifoLemmas!Inv, FifoLemmas!InOrder
<1> HIDE DEF x, d, y
<1>7. /\ x \o y \in Seq(Nat) /\ FifoLemmas!Increasing(x \o y)
      /\ FifoLemmas!Range(x \o y) \subseteq FifoLemmas!Range((x \o d) \o y)
  <2>1. FifoLemmas!Increasing((x \o d) \o y)
    BY <1>3, <1>6
  <2> QED
    BY <1>1, <2>1, FifoLemmas!StretchLost
<1> QED
  BY <1>2, <1>3, <1>4, <1>5, <1>7 DEF FifoLemmas!Lose

\* Lines that are counted arrive, and older ones that are not are lost.
LEMMA ArriveIsDelivery ==
  ASSUME TypeOK, Places, Ordered, NEW D \in Seq(Lines), NEW N \in Seq(Lines),
         NEW Y \in Seq(Lines), Arrive(D, N, Y)
  PROVE  FifoLemmas!Lose \/ FifoLemmas!Deliver
<1> DEFINE d == Selected(D, FromP2Pool)
           n == Selected(N, FromP2Pool)
           y == Selected(Y, FromP2Pool)
<1>1. d \in Seq(Nat) /\ n \in Seq(Nat) /\ y \in Seq(Nat)
      /\ Selected(counted, FromP2Pool) \in Seq(Nat) /\ counted \in Seq(Lines)
  BY EventsAmong DEF TypeOK
<1>2. FromP2Pool' = FromP2Pool /\ last' = last /\ counted' = counted \o N
      /\ OnTheWay = D \o N \o Y /\ OnTheWay' = Y
  BY DEF Arrive, Losing, FromP2Pool
<1>3. Selected(OnTheWay, FromP2Pool) = (d \o n) \o y
  <2> DEFINE u == D \o N
  <2>1. u \in Seq(Lines)
    BY Joins
  <2>2. Selected(u, FromP2Pool) = d \o n
    BY TwoPieces
  <2>3. OnTheWay = u \o Y
    BY <1>2
  <2>4. Selected(u \o Y, FromP2Pool) = Selected(u, FromP2Pool) \o y
    BY <2>1, TwoPieces
  <2> HIDE DEF u
  <2> QED
    BY <2>2, <2>3, <2>4
<1>4. Selected(OnTheWay', FromP2Pool') = y
  BY <1>2
<1>5. Selected(counted', FromP2Pool') = Selected(counted, FromP2Pool) \o n
  BY <1>1, <1>2, TwoPieces
<1>6. FifoLemmas!Increasing(Selected(OnTheWay, FromP2Pool))
  BY DEF Ordered, FifoLemmas!Inv, FifoLemmas!InOrder
<1> HIDE DEF d, n, y
<1> QED
  BY <1>1, <1>2, <1>3, <1>4, <1>5, <1>6, FifoLemmas!OldestArrive

\* A line that is sent is sent on the channel if it is an event of P2Pool's,
\* and nothing to it otherwise.
LEMMA SentIsSend ==
  ASSUME TypeOK, Places, Numbered, last + 1 \in Lines, NEW X \in Seq(Lines),
         NEW N \in Seq(Lines), NEW Y \in Seq(Lines), NEW k \in Kinds \cup {"direct"},
         Sent(X, N, Y, k)
  PROVE  FifoLemmas!Send
<1> DEFINE S == FromP2Pool
           R == FromP2Pool'
<1>1. last \in Nat /\ last' = last + 1 /\ kind' = [kind EXCEPT ![last + 1] = k]
      /\ OnTheWay = X \o Y /\ OnTheWay' = X \o N \o Y /\ counted' = counted
      /\ counted \in Seq(Lines) /\ kind \in [Lines -> Kinds \cup {"direct", "none"}]
  BY DEF Sent, TypeOK
<1>2. Range(X) \subseteq 1..last /\ Range(Y) \subseteq 1..last /\ Range(counted) \subseteq 1..last
  <2>1. Range(X \o Y) = Range(X) \cup Range(Y)
    BY Sizes
  <2> QED
    BY <1>1, <2>1 DEF Numbered
<1>3. Selected(X, R) = Selected(X, S) /\ Selected(Y, R) = Selected(Y, S)
      /\ Selected(counted, R) = Selected(counted, S)
  BY <1>1, <1>2, EarlierStay
<1> DEFINE x == Selected(X, S)
           n == Selected(N, R)
           y == Selected(Y, S)
<1>4. x \in Seq(Nat) /\ n \in Seq(Nat) /\ y \in Seq(Nat)
  BY EventsAmong
<1>5. Selected(OnTheWay, S) = x \o y
  BY <1>1, TwoPieces
<1>6. Selected(OnTheWay', R) = (x \o n) \o y
  <2> DEFINE u == X \o N
  <2>1. u \in Seq(Lines)
    BY Joins
  <2>2. Selected(u, R) = x \o n
    BY <1>3, TwoPieces
  <2>3. OnTheWay' = u \o Y
    BY <1>1
  <2>4. Selected(u \o Y, R) = Selected(u, R) \o Selected(Y, R)
    BY <2>1, TwoPieces
  <2> HIDE DEF u
  <2> QED
    BY <2>1, <1>3, <2>2, <2>3, <2>4
<1>7. last + 1 \in R <=> k \in {"event", "data"}
  BY <1>1 DEF FromP2Pool
<1>8. Selected(OnTheWay', R) \in {Selected(OnTheWay, S), Append(Selected(OnTheWay, S), last')}
  <2>1. CASE n = <<>>
    <3>1. x \o n = x
      BY <1>4, <2>1, ConcatEmptySeq
    <3> QED
      BY <1>5, <1>6, <3>1
  <2>2. CASE N = <<last + 1>> /\ last + 1 \in R
    <3>1. n = <<last + 1>>
      BY <2>2, SelectedOne
    <3>2. k # "direct"
      BY <1>7, <2>2
    <3>3. Y = <<>>
      BY <2>2, <3>2 DEF Sent
    <3>4. y = <<>>
      BY <3>3, SelectedEmpty
    <3>5. x \o y = x /\ (x \o n) \in Seq(Nat) /\ (x \o n) \o y = x \o n
      BY <1>4, <3>4, ConcatEmptySeq, ConcatProperties
    <3>6. Append(x, last + 1) = x \o <<last + 1>>
      BY <1>1, <1>4, AppendIsConcat
    <3> HIDE DEF x, n, y
    <3> QED
      BY <1>1, <1>5, <1>6, <3>1, <3>5, <3>6
  <2>3. N = <<>> => n = <<>>
    BY SelectedEmpty
  <2>4. N = <<last + 1>> /\ last + 1 \notin R => n = <<>>
    BY SelectedOne
  <2>5. N = <<>> \/ N = <<last + 1>>
    BY DEF Sent
  <2> QED
    BY <2>1, <2>2, <2>3, <2>4, <2>5
<1>9. Selected(counted', R) = Selected(counted, S)
  BY <1>1, <1>3
<1>10. last' \in Nat /\ last < last'
  BY <1>1
<1> QED
  BY <1>8, <1>9, <1>10 DEF FifoLemmas!Send

\* Every step is a step of the channel.
LEMMA FifoStep == ASSUME Known, Ordered, [Next]_vars PROVE FifoLemmas!Next
<1>1. TypeOK /\ Places /\ Numbered /\ Budget
  BY DEF Known
<1>2. Flows
  BY <1>1, StepFlows
<1> QED
  BY <1>1, <1>2, DropIsLoss, ArriveIsDelivery, SentIsSend DEF Flows, FifoLemmas!Next

\* The pipeline starts as an empty channel.
LEMMA EventsInit == Init => FifoLemmas!Init /\ Ordered
<1>1. Init => FifoLemmas!Init
  <2> SUFFICES ASSUME Init PROVE FifoLemmas!Init
    OBVIOUS
  <2>1. TypeOK /\ Places
    BY InitKnown DEF Known
  <2>2. OnTheWay = <<>>
    BY <2>1, NothingOnTheWay
  <2>3. counted = <<>> /\ last = 0
    BY DEF Init
  <2> QED
    BY <2>2, <2>3, SelectedEmpty DEF FifoLemmas!Init
<1>2. FifoLemmas!Init => Ordered
  BY DEF Ordered, FifoLemmas!Init, FifoLemmas!Inv, FifoLemmas!TypeOK, FifoLemmas!InOrder,
    FifoLemmas!Increasing
<1> QED
  BY <1>1, <1>2

\* What FifoStep needs holds in every state.
LEMMA OrderedAlways == Spec => [](Known /\ Ordered)
<1>1. Known /\ Ordered /\ [Next]_vars => Ordered'
  BY FifoStep, FifoLemmas!OrderKept DEF Ordered
<1>2. Init => Ordered
  BY EventsInit
<1>3. Spec => []Known
  <2>1. Known /\ EveryEventAccounted => Known
    OBVIOUS
  <2> QED
    BY <2>1, Accounted, PTL
<1> QED
  BY <1>1, <1>2, <1>3, PTL DEF Spec

\* The pipeline is a lossy channel for P2Pool's events: EventProcessor counts each
\* at most once and in the order P2Pool printed them, through two files that are
\* truncated and reopened and a queue that may be full.
THEOREM EventsImplementFifo == Spec => CountedOnceInOrder
<1>1. [FifoLemmas!Next]_(FifoLemmas!vars) <=> [Fifo!Next]_(Fifo!vars)
  BY DEF FifoLemmas!Next, FifoLemmas!vars, FifoLemmas!Send, FifoLemmas!Lose,
         FifoLemmas!Deliver, FifoLemmas!Increasing, FifoLemmas!Range,
         Fifo!Next, Fifo!vars, Fifo!Send, Fifo!Lose, Fifo!Deliver,
         Fifo!Increasing, Fifo!Range
<1>2. Known /\ Ordered /\ [Next]_vars => [Fifo!Next]_(Fifo!vars)
  BY <1>1, FifoStep
<1>3. Init => Fifo!Init
  BY EventsInit DEF FifoLemmas!Init, Fifo!Init
<1> QED
  BY <1>2, <1>3, OrderedAlways, PTL DEF Spec, CountedOnceInOrder, Fifo!Spec

\* What that means for the statistics: the lines of P2Pool's own output that
\* EventProcessor has counted carry growing numbers, so none is counted twice
\* and none overtakes another.
THEOREM EventsInOrder ==
  Spec => [](LET own == Selected(counted, FromP2Pool)
             IN  \A i, j \in 1..Len(own) : i < j => own[i] < own[j])
<1>1. Known /\ Ordered => LET own == Selected(counted, FromP2Pool)
                          IN  \A i, j \in 1..Len(own) : i < j => own[i] < own[j]
  BY DEF Ordered, FifoLemmas!Inv, FifoLemmas!InOrder, FifoLemmas!Increasing
<1> QED
  BY <1>1, OrderedAlways, PTL
=============================================================================
