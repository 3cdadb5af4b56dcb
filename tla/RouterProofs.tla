---------------------------- MODULE RouterProofs ----------------------------
(***************************************************************************)
(* Proofs about the router: RouterIngress, for every set of frames and     *)
(* producers and all limits, and DHCPServer, for every set of clients and  *)
(* of addresses, finite or not.                                            *)
(*                                                                         *)
(* The ingress.  SizeOf, the frames held and the eviction loop are         *)
(* recursive functions.  What they compute is proved by induction on their *)
(* index (AllNumbers, RecursionExists).  A limit on ordinary frames, which *)
(* IngressAccounts states for queues that hold no other, is not inductive: *)
(* a queue of one protected frame and too many others satisfies it until   *)
(* the protected one leaves.  QueueLimits bounds, in every queue, the      *)
(* number and the bytes of the frames that are not protected.              *)
(*                                                                         *)
(* The leases.  The tables of the server lean on each other: the set of    *)
(* available addresses is sound only as long as the leases are, and a      *)
(* lease comes from that set.                                              *)
(***************************************************************************)
EXTENDS RouterIngress, DHCPServer, SequenceTheorems, FiniteSetTheorems,
        WellFoundedInduction, NaturalsInduction, TLAPS

----------------------------------------------------------------------------
(* Numbers and recursive functions *)

\* A set of numbers that is not empty has a least one.
LEMMA Least ==
  ASSUME NEW S \in SUBSET Nat, S # {}
  PROVE  \E n \in S : \A m \in S : n <= m
<1>1. PICK x \in S : \A y \in S : ~(<<y, x>> \in OpToRel(<, Nat))
  BY NatLessThanWellFounded, WFMin
<1>2. ASSUME NEW y \in S PROVE x <= y
  <2>1. <<y, x>> \in Nat \X Nat
    OBVIOUS
  <2>2. ~(y < x)
    BY <1>1, <2>1 DEF OpToRel
  <2> QED
    BY <2>2
<1> QED
  BY <1>2

\* Induction, for a set of numbers.
LEMMA AllNumbers ==
  ASSUME NEW S, 0 \in S, \A n \in Nat : n \in S => n + 1 \in S
  PROVE  \A n \in Nat : n \in S
<1> DEFINE Bad == {n \in Nat : n \notin S}
<1>1. ASSUME Bad # {} PROVE FALSE
  <2>1. PICK n \in Bad : \A m \in Bad : n <= m
    BY <1>1, Least
  <2>2. n \in Nat /\ n \notin S /\ n # 0
    BY <2>1
  <2>3. n - 1 \in Nat /\ ~(n <= n - 1) /\ (n - 1) + 1 = n
    BY <2>2
  <2>4. n - 1 \in S
    BY <2>1, <2>3
  <2> QED
    BY <2>2, <2>3, <2>4
<1> QED
  BY <1>1

\* A recursive function on 0..n exists, and its values stay in the sets that
\* its steps stay in.
Recursion(n, start, Step, f) ==
  f = [k \in 0..n |-> IF k = 0 THEN start ELSE Step[<<k, f[k - 1]>>]]

LEMMA RecursionExists ==
  ASSUME NEW n \in Nat, NEW V, NEW start \in V[0], NEW Step,
         \A k \in 1..n : \A v \in V[k - 1] : Step[<<k, v>>] \in V[k]
  PROVE  \E f : Recursion(n, start, Step, f) /\ \A k \in 0..n : f[k] \in V[k]
<1> DEFINE Good(m, f) == Recursion(m, start, Step, f) /\ \A k \in 0..m : f[k] \in V[k]
           S == {m \in Nat : m <= n => \E f : Good(m, f)}
<1>1. 0 \in S
  <2>1. Good(0, [k \in 0..0 |-> start])
    <3>1. \A k \in 0..0 : k = 0
      OBVIOUS
    <3> QED
      BY <3>1 DEF Recursion
  <2> QED
    BY <2>1
<1>2. ASSUME NEW m \in Nat, m \in S PROVE m + 1 \in S
  <2>1. SUFFICES ASSUME m + 1 <= n PROVE \E f : Good(m + 1, f)
    OBVIOUS
  <2>2. PICK f : Good(m, f)
    BY <1>2, <2>1
  <2> DEFINE g == [k \in 0..(m + 1) |-> IF k <= m THEN f[k] ELSE Step[<<m + 1, f[m]>>]]
  <2>3. ASSUME NEW k \in 0..(m + 1)
        PROVE  g[k] = (IF k = 0 THEN start ELSE Step[<<k, g[k - 1]>>]) /\ g[k] \in V[k]
    <3>1. CASE k <= m
      <4>1. k \in 0..m /\ (k # 0 => k - 1 \in 0..(m + 1) /\ k - 1 <= m)
        BY <3>1
      <4>2. f[k] = (IF k = 0 THEN start ELSE Step[<<k, f[k - 1]>>]) /\ f[k] \in V[k]
        BY <2>2, <4>1 DEF Recursion
      <4>3. g[k] = f[k] /\ (k # 0 => g[k - 1] = f[k - 1])
        BY <3>1, <4>1
      <4> QED
        BY <4>2, <4>3
    <3>2. CASE ~(k <= m)
      <4>1. k = m + 1 /\ k # 0 /\ k - 1 = m /\ m \in 0..(m + 1) /\ m <= m /\ m \in 0..m
            /\ k \in 1..n
        BY <2>1, <3>2
      <4>2. g[m] = f[m] /\ g[k] = Step[<<k, f[m]>>]
        BY <3>2, <4>1
      <4>3. f[m] \in V[k - 1]
        BY <2>2, <4>1
      <4>4. Step[<<k, f[m]>>] \in V[k]
        BY <4>1, <4>3
      <4> QED
        BY <4>1, <4>2, <4>4
    <3> QED
      BY <3>1, <3>2
  <2>4. g = [k \in 0..(m + 1) |-> IF k = 0 THEN start ELSE Step[<<k, g[k - 1]>>]]
    BY <2>3
  <2>5. Good(m + 1, g)
    BY <2>3, <2>4 DEF Recursion
  <2> QED
    BY <2>5
<1>3. n \in S
  BY <1>1, <1>2, AllNumbers
<1> QED
  BY <1>3

----------------------------------------------------------------------------
(* Sums *)

\* The recursive function in SumTo.
Sums(f, n, s) == s = [k \in 0..n |-> IF k = 0 THEN 0 ELSE s[k - 1] + f[k]]

Numbers(f, n) == \A k \in 1..n : f[k] \in Nat

\* SumTo is the last of the partial sums.
LEMMA SumRecursion ==
  ASSUME NEW n \in Nat, NEW f, Numbers(f, n)
  PROVE  \E s : /\ Sums(f, n, s) /\ SumTo(f, n) = s[n]
                /\ \A k \in 0..n : s[k] \in Nat
<1> DEFINE V == [k \in 0..n |-> Nat]
           Step == [p \in (1..n) \X Nat |-> p[2] + f[p[1]]]
<1>1. ASSUME NEW k \in 1..n, NEW v \in V[k - 1] PROVE Step[<<k, v>>] \in V[k] /\ Step[<<k, v>>] = v + f[k]
  <2>1. k - 1 \in 0..n /\ k \in 0..n
    OBVIOUS
  <2>2. v \in Nat /\ f[k] \in Nat
    BY <2>1 DEF Numbers
  <2> QED
    BY <2>1, <2>2
<1>2. 0 \in V[0]
  OBVIOUS
<1>3. \E s : Recursion(n, 0, Step, s) /\ \A k \in 0..n : s[k] \in V[k]
  <2> HIDE DEF V, Step
  <2> QED
    BY <1>1, <1>2, RecursionExists
<1>4. PICK s : Recursion(n, 0, Step, s) /\ \A k \in 0..n : s[k] \in V[k]
  BY <1>3
<1>5. \A k \in 0..n : s[k] \in Nat
  BY <1>4
<1>6. ASSUME NEW k \in 0..n PROVE s[k] = IF k = 0 THEN 0 ELSE s[k - 1] + f[k]
  <2>1. s[k] = IF k = 0 THEN 0 ELSE Step[<<k, s[k - 1]>>]
    BY <1>4 DEF Recursion
  <2>2. ASSUME k # 0 PROVE Step[<<k, s[k - 1]>>] = s[k - 1] + f[k]
    <3>1. k \in 1..n /\ k - 1 \in 0..n
      BY <2>2
    <3> QED
      BY <1>1, <1>4, <3>1
  <2> QED
    BY <2>1, <2>2
<1>7. s = [k \in 0..n |-> s[k]]
  BY <1>4 DEF Recursion
<1>8. Sums(f, n, s)
  BY <1>6, <1>7 DEF Sums
<1> DEFINE c == CHOOSE g : Sums(f, n, g)
<1>9. Sums(f, n, c)
  BY <1>8
<1>10. SumTo(f, n) = c[n]
  BY DEF SumTo, Sums
<1>11. c = s
  <2> DEFINE Same == {k \in Nat : k <= n => c[k] = s[k]}
  <2> HIDE DEF c
  <2>0. \A k \in 0..n : /\ c[k] = IF k = 0 THEN 0 ELSE c[k - 1] + f[k]
                        /\ s[k] = IF k = 0 THEN 0 ELSE s[k - 1] + f[k]
    BY <1>9, <1>8 DEF Sums
  <2>1. 0 \in Same
    BY <2>0
  <2>2. ASSUME NEW k \in Nat, k \in Same PROVE k + 1 \in Same
    <3>1. SUFFICES ASSUME k + 1 <= n PROVE c[k + 1] = s[k + 1]
      OBVIOUS
    <3>2. k + 1 \in 0..n /\ k + 1 # 0 /\ (k + 1) - 1 = k /\ c[k] = s[k]
      BY <2>2, <3>1
    <3>3. c[k + 1] = c[(k + 1) - 1] + f[k + 1] /\ s[k + 1] = s[(k + 1) - 1] + f[k + 1]
      BY <2>0, <3>2
    <3> QED
      BY <3>2, <3>3
  <2>3. \A k \in Nat : k \in Same
    <3> HIDE DEF Same
    <3> QED
      BY <2>1, <2>2, AllNumbers
  <2>4. \A k \in 0..n : c[k] = s[k]
    BY <2>3
  <2>5. c = [k \in 0..n |-> c[k]] /\ s = [k \in 0..n |-> s[k]]
    BY <1>9, <1>8 DEF Sums
  <2> QED
    BY <2>4, <2>5
<1> QED
  BY <1>5, <1>8, <1>10, <1>11

\* A sum of numbers is a number.
LEMMA SumType ==
  ASSUME NEW n \in Nat, NEW f, Numbers(f, n)
  PROVE  SumTo(f, n) \in Nat
<1>1. n \in 0..n
  OBVIOUS
<1> QED
  BY <1>1, SumRecursion

\* No numbers.
LEMMA SumNothing == ASSUME NEW f PROVE SumTo(f, 0) = 0
<1>1. Numbers(f, 0) /\ 0 \in Nat /\ 0 \in 0..0
  BY DEF Numbers
<1>2. PICK s : Sums(f, 0, s) /\ SumTo(f, 0) = s[0]
  BY <1>1, SumRecursion
<1> QED
  BY <1>1, <1>2 DEF Sums

\* One number more.
LEMMA SumStep ==
  ASSUME NEW n \in Nat, NEW f, Numbers(f, n + 1)
  PROVE  SumTo(f, n + 1) = SumTo(f, n) + f[n + 1]
<1>1. Numbers(f, n) /\ n + 1 \in Nat
  BY DEF Numbers
<1>2. PICK s : Sums(f, n, s) /\ SumTo(f, n) = s[n]
  BY <1>1, SumRecursion
<1>3. PICK t : Sums(f, n + 1, t) /\ SumTo(f, n + 1) = t[n + 1]
  BY <1>1, SumRecursion
<1>4. \A k \in 0..n : s[k] = IF k = 0 THEN 0 ELSE s[k - 1] + f[k]
  BY <1>2 DEF Sums
<1>5. \A k \in 0..(n + 1) : t[k] = IF k = 0 THEN 0 ELSE t[k - 1] + f[k]
  BY <1>3 DEF Sums
<1> DEFINE Same == {k \in Nat : k <= n => t[k] = s[k]}
<1>6. 0 \in Same
  BY <1>4, <1>5
<1>7. ASSUME NEW k \in Nat, k \in Same PROVE k + 1 \in Same
  <2>1. SUFFICES ASSUME k + 1 <= n PROVE t[k + 1] = s[k + 1]
    OBVIOUS
  <2>2. /\ k + 1 \in 0..n /\ k + 1 \in 0..(n + 1) /\ k + 1 # 0
        /\ (k + 1) - 1 = k /\ t[k] = s[k]
    BY <1>7, <2>1
  <2>3. s[k + 1] = s[(k + 1) - 1] + f[k + 1] /\ t[k + 1] = t[(k + 1) - 1] + f[k + 1]
    BY <1>4, <1>5, <2>2
  <2> QED
    BY <2>2, <2>3
<1>8. \A k \in Nat : k \in Same
  <2> HIDE DEF Same
  <2> QED
    BY <1>6, <1>7, AllNumbers
<1>9. t[n] = s[n]
  BY <1>8
<1>10. n + 1 \in 0..(n + 1) /\ n + 1 # 0 /\ (n + 1) - 1 = n
  OBVIOUS
<1>11. t[n + 1] = t[(n + 1) - 1] + f[n + 1]
  BY <1>5, <1>10
<1> QED
  BY <1>2, <1>3, <1>9, <1>10, <1>11

\* A sum is made of its numbers.
LEMMA SumSame ==
  ASSUME NEW n \in Nat, NEW f, NEW g, Numbers(f, n), \A k \in 1..n : f[k] = g[k]
  PROVE  SumTo(f, n) = SumTo(g, n)
<1> DEFINE S == {m \in Nat : m <= n => SumTo(f, m) = SumTo(g, m)}
<1>1. 0 \in S
  BY SumNothing
<1>2. ASSUME NEW m \in Nat, m \in S PROVE m + 1 \in S
  <2>1. SUFFICES ASSUME m + 1 <= n PROVE SumTo(f, m + 1) = SumTo(g, m + 1)
    OBVIOUS
  <2>2. m + 1 \in 1..n /\ SumTo(f, m) = SumTo(g, m)
    BY <1>2, <2>1
  <2>3. Numbers(f, m + 1) /\ Numbers(g, m + 1)
    BY <2>2 DEF Numbers
  <2>4. SumTo(f, m + 1) = SumTo(f, m) + f[m + 1] /\ SumTo(g, m + 1) = SumTo(g, m) + g[m + 1]
    BY <2>3, SumStep
  <2> QED
    BY <2>2, <2>4
<1>3. \A m \in Nat : m \in S
  <2> HIDE DEF S
  <2> QED
    BY <1>1, <1>2, AllNumbers
<1> QED
  BY <1>3

\* Larger numbers have the larger sum.
LEMMA SumLess ==
  ASSUME NEW n \in Nat, NEW f, NEW g, Numbers(f, n), Numbers(g, n),
         \A k \in 1..n : f[k] <= g[k]
  PROVE  SumTo(f, n) <= SumTo(g, n)
<1> DEFINE S == {m \in Nat : m <= n => SumTo(f, m) <= SumTo(g, m)}
<1>1. 0 \in S
  BY SumNothing
<1>2. ASSUME NEW m \in Nat, m \in S PROVE m + 1 \in S
  <2>1. SUFFICES ASSUME m + 1 <= n PROVE SumTo(f, m + 1) <= SumTo(g, m + 1)
    OBVIOUS
  <2>2. m + 1 \in 1..n /\ SumTo(f, m) <= SumTo(g, m) /\ f[m + 1] <= g[m + 1]
    BY <1>2, <2>1
  <2>3. /\ Numbers(f, m + 1) /\ Numbers(g, m + 1) /\ Numbers(f, m) /\ Numbers(g, m)
        /\ f[m + 1] \in Nat /\ g[m + 1] \in Nat
    BY <2>2 DEF Numbers
  <2>4. SumTo(f, m + 1) = SumTo(f, m) + f[m + 1] /\ SumTo(g, m + 1) = SumTo(g, m) + g[m + 1]
    BY <2>3, SumStep
  <2>5. SumTo(f, m) \in Nat /\ SumTo(g, m) \in Nat
    BY <2>3, SumType
  <2> QED
    BY <2>2, <2>3, <2>4, <2>5
<1>3. \A m \in Nat : m \in S
  <2> HIDE DEF S
  <2> QED
    BY <1>1, <1>2, AllNumbers
<1> QED
  BY <1>3

\* Ones sum up to their count.
LEMMA SumOnes ==
  ASSUME NEW n \in Nat, NEW f, \A k \in 1..n : f[k] = 1
  PROVE  SumTo(f, n) = n
<1> DEFINE S == {m \in Nat : m <= n => SumTo(f, m) = m}
<1>1. 0 \in S
  BY SumNothing
<1>2. ASSUME NEW m \in Nat, m \in S PROVE m + 1 \in S
  <2>1. SUFFICES ASSUME m + 1 <= n PROVE SumTo(f, m + 1) = m + 1
    OBVIOUS
  <2>2. m + 1 \in 1..n /\ SumTo(f, m) = m /\ f[m + 1] = 1
    BY <1>2, <2>1
  <2>3. Numbers(f, m + 1)
    BY <2>2 DEF Numbers
  <2>4. SumTo(f, m + 1) = SumTo(f, m) + f[m + 1]
    BY <2>3, SumStep
  <2> QED
    BY <2>2, <2>4
<1>3. \A m \in Nat : m \in S
  <2> HIDE DEF S
  <2> QED
    BY <1>1, <1>2, AllNumbers
<1> QED
  BY <1>3

\* One number of the sum is replaced.
LEMMA SumReplaced ==
  ASSUME NEW n \in Nat, NEW f, NEW g, Numbers(f, n), Numbers(g, n),
         NEW i \in 1..n, \A k \in (1..n) \ {i} : f[k] = g[k]
  PROVE  SumTo(f, n) + g[i] = SumTo(g, n) + f[i]
<1> DEFINE S == {m \in Nat : i <= m => (m <= n => SumTo(f, m) + g[i] = SumTo(g, m) + f[i])}
<1>1. 0 \in S
  OBVIOUS
<1>2. ASSUME NEW m \in Nat, m \in S PROVE m + 1 \in S
  <2>1. SUFFICES ASSUME i <= m + 1, m + 1 <= n
                 PROVE  SumTo(f, m + 1) + g[i] = SumTo(g, m + 1) + f[i]
    OBVIOUS
  <2>2. /\ Numbers(f, m + 1) /\ Numbers(g, m + 1) /\ Numbers(f, m) /\ Numbers(g, m)
        /\ f[m + 1] \in Nat /\ g[m + 1] \in Nat /\ f[i] \in Nat /\ g[i] \in Nat
    BY <2>1 DEF Numbers
  <2>3. SumTo(f, m + 1) = SumTo(f, m) + f[m + 1] /\ SumTo(g, m + 1) = SumTo(g, m) + g[m + 1]
    BY <2>2, SumStep
  <2>4. SumTo(f, m) \in Nat /\ SumTo(g, m) \in Nat
    BY <2>2, SumType
  <2>5. CASE i <= m
    <3>1. f[m + 1] = g[m + 1] /\ SumTo(f, m) + g[i] = SumTo(g, m) + f[i]
      BY <1>2, <2>1, <2>5
    <3> QED
      BY <2>2, <2>3, <2>4, <3>1
  <2>6. CASE ~(i <= m)
    <3>1. i = m + 1 /\ \A k \in 1..m : f[k] = g[k]
      BY <2>1, <2>6
    <3>2. SumTo(f, m) = SumTo(g, m)
      BY <2>2, <3>1, SumSame
    <3> QED
      BY <2>2, <2>3, <2>4, <3>1, <3>2
  <2> QED
    BY <2>5, <2>6
<1>3. \A m \in Nat : m \in S
  <2> HIDE DEF S
  <2> QED
    BY <1>1, <1>2, AllNumbers
<1> QED
  BY <1>3

\* A sum is the sum of a first part and of the rest.
LEMMA SumSplit ==
  ASSUME NEW m \in Nat, NEW n \in Nat, NEW f, Numbers(f, m + n),
         NEW g, \A k \in 1..n : g[k] = f[m + k]
  PROVE  SumTo(f, m + n) = SumTo(f, m) + SumTo(g, n)
<1> DEFINE S == {k \in Nat : k <= n => SumTo(f, m + k) = SumTo(f, m) + SumTo(g, k)}
<1>0. Numbers(f, m) /\ Numbers(g, n) /\ SumTo(f, m) \in Nat
  <2>1. Numbers(f, m)
    BY DEF Numbers
  <2>2. ASSUME NEW k \in 1..n PROVE g[k] \in Nat
    <3>1. m + k \in 1..(m + n)
      OBVIOUS
    <3> QED
      BY <3>1 DEF Numbers
  <2> QED
    BY <2>1, <2>2, SumType DEF Numbers
<1>1. 0 \in S
  <2>1. m + 0 = m /\ SumTo(f, m) + 0 = SumTo(f, m)
    BY <1>0
  <2> QED
    BY <2>1, SumNothing
<1>2. ASSUME NEW k \in Nat, k \in S PROVE k + 1 \in S
  <2>1. SUFFICES ASSUME k + 1 <= n
                 PROVE  SumTo(f, m + (k + 1)) = SumTo(f, m) + SumTo(g, k + 1)
    OBVIOUS
  <2>2. /\ k + 1 \in 1..n /\ (m + k) + 1 = m + (k + 1) /\ m + k \in Nat
        /\ SumTo(f, m + k) = SumTo(f, m) + SumTo(g, k) /\ (m + k) + 1 \in 1..(m + n)
    BY <1>2, <2>1
  <2>3. Numbers(f, (m + k) + 1) /\ Numbers(g, k + 1) /\ Numbers(g, k) /\ f[(m + k) + 1] \in Nat
    BY <1>0, <2>2 DEF Numbers
  <2>4. SumTo(f, (m + k) + 1) = SumTo(f, m + k) + f[(m + k) + 1]
    BY <2>2, <2>3, SumStep
  <2>5. SumTo(g, k + 1) = SumTo(g, k) + g[k + 1] /\ SumTo(g, k) \in Nat
    BY <2>3, SumStep, SumType
  <2>6. g[k + 1] = f[(m + k) + 1]
    BY <2>2
  <2> QED
    BY <1>0, <2>2, <2>3, <2>4, <2>5, <2>6
<1>3. \A k \in Nat : k \in S
  <2> HIDE DEF S
  <2> QED
    BY <1>1, <1>2, AllNumbers
<1> QED
  BY <1>3

----------------------------------------------------------------------------
(* What a queue weighs *)

Weights == [Frames -> Nat]

Weight(q, w) == SumTo([i \in 1..Len(q) |-> w[q[i]]], Len(q))

\* The weights the limits are about: bytes, and bytes and frames that are not
\* protected.
Size == [f \in Frames |-> f.size]
PlainSize == [f \in Frames |-> IF Protected(f) THEN 0 ELSE f.size]
PlainOne == [f \in Frames |-> IF Protected(f) THEN 0 ELSE 1]

\* They are weights, and what FramesAssumption says of a frame.
LEMMA TheWeights ==
  /\ Size \in Weights /\ PlainSize \in Weights /\ PlainOne \in Weights
  /\ \A f \in Frames : f.prio \in 1..3 /\ f.size \in Nat
<1>1. \A f \in Frames : f.prio \in 1..3 /\ f.size \in Nat
  BY FramesAssumption
<1> QED
  BY <1>1 DEF Size, PlainSize, PlainOne, Weights

\* A queue's weight is a number, as is the weight of each frame in it.
LEMMA WeightNumbers ==
  ASSUME NEW q \in Seq(Frames), NEW w \in Weights
  PROVE  /\ Len(q) \in Nat /\ \A i \in 1..Len(q) : q[i] \in Frames /\ w[q[i]] \in Nat
         /\ Numbers([i \in 1..Len(q) |-> w[q[i]]], Len(q))
         /\ Weight(q, w) \in Nat
<1>1. Len(q) \in Nat /\ \A i \in 1..Len(q) : q[i] \in Frames
  BY LenProperties, ElementOfSeq
<1>2. \A i \in 1..Len(q) : w[q[i]] \in Nat
  BY <1>1 DEF Weights
<1>3. Numbers([i \in 1..Len(q) |-> w[q[i]]], Len(q))
  BY <1>2 DEF Numbers
<1> QED
  BY <1>1, <1>2, <1>3, SumType DEF Weight

\* The byte count is the weight by size.
LEMMA SizeIsWeight ==
  ASSUME NEW q \in Seq(Frames)
  PROVE  SizeOf(q) = Weight(q, Size)
<1>1. \A i \in 1..Len(q) : q[i] \in Frames
  BY ElementOfSeq
<1>2. [i \in 1..Len(q) |-> q[i].size] = [i \in 1..Len(q) |-> Size[q[i]]]
  BY <1>1 DEF Size
<1> QED
  BY <1>2 DEF SizeOf, Weight

\* The empty queue weighs nothing.
LEMMA WeightNothing == ASSUME NEW w PROVE Weight(<<>>, w) = 0
  BY SumNothing DEF Weight

\* The weight of two queues together.
LEMMA WeightConcat ==
  ASSUME NEW q \in Seq(Frames), NEW r \in Seq(Frames), NEW w \in Weights
  PROVE  Weight(q \o r, w) = Weight(q, w) + Weight(r, w)
<1> DEFINE u == q \o r
           f == [i \in 1..Len(u) |-> w[u[i]]]
           a == [i \in 1..Len(q) |-> w[q[i]]]
           b == [i \in 1..Len(r) |-> w[r[i]]]
<1>1. /\ u \in Seq(Frames) /\ Len(u) = Len(q) + Len(r) /\ Len(q) \in Nat /\ Len(r) \in Nat
      /\ \A i \in 1..(Len(q) + Len(r)) : u[i] = IF i <= Len(q) THEN q[i] ELSE r[i - Len(q)]
  BY ConcatProperties, LenProperties
<1> HIDE DEF u
<1>2. Numbers(f, Len(u)) /\ Numbers(a, Len(q)) /\ Numbers(b, Len(r))
  BY <1>1, WeightNumbers
<1>3. \A i \in 1..Len(q) : f[i] = a[i]
  BY <1>1
<1>4. ASSUME NEW i \in 1..Len(r) PROVE b[i] = f[Len(q) + i]
  <2>1. /\ Len(q) + i \in 1..(Len(q) + Len(r)) /\ ~(Len(q) + i <= Len(q))
        /\ (Len(q) + i) - Len(q) = i
    BY <1>1
  <2>2. u[Len(q) + i] = r[i]
    BY <1>1, <2>1
  <2> QED
    BY <1>1, <2>1, <2>2
<1>5. Numbers(f, Len(q))
  BY <1>1, <1>2 DEF Numbers
<1>6. Weight(u, w) = SumTo(f, Len(u)) /\ Weight(q, w) = SumTo(a, Len(q)) /\ Weight(r, w) = SumTo(b, Len(r))
  BY DEF Weight
<1> HIDE DEF f, a, b
<1>7. SumTo(f, Len(q)) = SumTo(a, Len(q))
  BY <1>1, <1>3, <1>5, SumSame
<1>8. SumTo(f, Len(q) + Len(r)) = SumTo(f, Len(q)) + SumTo(b, Len(r))
  BY <1>1, <1>2, <1>4, SumSplit
<1>9. Weight(u, w) = Weight(q, w) + Weight(r, w)
  BY <1>1, <1>6, <1>7, <1>8
<1> QED
  BY <1>9 DEF u

\* The weight of one frame.
LEMMA WeightOne ==
  ASSUME NEW f \in Frames, NEW w \in Weights
  PROVE  Weight(<<f>>, w) = w[f]
<1> DEFINE a == [i \in 1..1 |-> w[<<f>>[i]]]
<1>1. Len(<<f>>) = 1 /\ <<f>>[1] = f /\ w[f] \in Nat
  BY DEF Weights
<1>2. a[0 + 1] = w[f] /\ Numbers(a, 0 + 1) /\ 0 + 1 = 1
  BY <1>1 DEF Numbers
<1>3. SumTo(a, 0 + 1) = SumTo(a, 0) + a[0 + 1]
  BY <1>2, SumStep, Zenon
<1>4. SumTo(a, 1) = w[f]
  BY <1>1, <1>2, <1>3, SumNothing
<1> QED
  BY <1>1, <1>4 DEF Weight

\* A lighter weight of each frame makes the queue lighter.
LEMMA WeightLess ==
  ASSUME NEW q \in Seq(Frames), NEW v \in Weights, NEW w \in Weights,
         \A i \in 1..Len(q) : v[q[i]] <= w[q[i]]
  PROVE  Weight(q, v) <= Weight(q, w)
<1> DEFINE a == [i \in 1..Len(q) |-> v[q[i]]]
           b == [i \in 1..Len(q) |-> w[q[i]]]
<1>1. Numbers(a, Len(q)) /\ Numbers(b, Len(q)) /\ Len(q) \in Nat
  BY WeightNumbers
<1>2. \A i \in 1..Len(q) : a[i] <= b[i]
  OBVIOUS
<1>3. Weight(q, v) = SumTo(a, Len(q)) /\ Weight(q, w) = SumTo(b, Len(q))
  BY DEF Weight
<1> HIDE DEF a, b
<1> QED
  BY <1>1, <1>2, <1>3, SumLess

\* The frames of a queue that are not protected are all, or some of them.
LEMMA PlainFacts ==
  ASSUME NEW q \in Seq(Frames)
  PROVE  /\ Weight(q, PlainOne) <= Len(q) /\ Weight(q, PlainSize) <= SizeOf(q)
         /\ (\A i \in 1..Len(q) : ~Protected(q[i]))
              => Weight(q, PlainOne) = Len(q) /\ Weight(q, PlainSize) = SizeOf(q)
<1> DEFINE One == [f \in Frames |-> 1]
           a == [i \in 1..Len(q) |-> One[q[i]]]
<1>1. /\ PlainOne \in Weights /\ PlainSize \in Weights /\ Size \in Weights /\ One \in Weights
      /\ Len(q) \in Nat /\ \A i \in 1..Len(q) : q[i] \in Frames /\ q[i].size \in Nat
  BY TheWeights, WeightNumbers DEF Weights
<1>2. Weight(q, One) = Len(q)
  <2>1. \A i \in 1..Len(q) : a[i] = 1
    BY <1>1
  <2>2. Weight(q, One) = SumTo(a, Len(q))
    BY DEF Weight
  <2> HIDE DEF a
  <2> QED
    BY <1>1, <2>1, <2>2, SumOnes
<1>3. \A i \in 1..Len(q) : PlainOne[q[i]] <= One[q[i]] /\ PlainSize[q[i]] <= Size[q[i]]
  BY <1>1 DEF PlainOne, PlainSize, Size
<1>4. ASSUME \A i \in 1..Len(q) : ~Protected(q[i])
      PROVE  \A i \in 1..Len(q) : One[q[i]] <= PlainOne[q[i]] /\ Size[q[i]] <= PlainSize[q[i]]
  BY <1>1, <1>4 DEF PlainOne, PlainSize, Size
<1>5. /\ Weight(q, PlainOne) \in Nat /\ Weight(q, PlainSize) \in Nat
      /\ Weight(q, One) \in Nat /\ Weight(q, Size) \in Nat
  BY <1>1, WeightNumbers
<1>6. Weight(q, PlainOne) <= Weight(q, One) /\ Weight(q, PlainSize) <= Weight(q, Size)
  BY <1>1, <1>3, WeightLess
<1>7. (\A i \in 1..Len(q) : ~Protected(q[i]))
        => Weight(q, One) <= Weight(q, PlainOne) /\ Weight(q, Size) <= Weight(q, PlainSize)
  BY <1>1, <1>4, WeightLess
<1> HIDE DEF One
<1> QED
  BY <1>1, <1>2, <1>5, <1>6, <1>7, SizeIsWeight

----------------------------------------------------------------------------
(* The pressure rules *)

\* Min is a least element.
LEMMA MinOf ==
  ASSUME NEW S \in SUBSET Nat, S # {}
  PROVE  Min(S) \in S /\ \A y \in S : Min(S) <= y
  BY Least DEF Min

\* Counting back from n reverses the order.
LEMMA BackToFront ==
  ASSUME NEW n \in Nat, NEW a \in Nat, NEW b \in Nat, NEW x \in Nat, NEW y \in Nat,
         x + a = n, y + b = n, x <= y
  PROVE  a >= b
  OBVIOUS

\* Max is an element.
LEMMA MaxOf ==
  ASSUME NEW n \in Nat, NEW S \in SUBSET (1..n), S # {}
  PROVE  Max(S) \in S
<1> DEFINE T == {k \in Nat : \E i \in S : k + i = n}
<1>1. \A i \in S : i \in Nat /\ \E m \in T : m + i = n
  <2> SUFFICES ASSUME NEW i \in S PROVE i \in Nat /\ \E m \in T : m + i = n
    OBVIOUS
  <2>1. i \in 1..n /\ n - i \in Nat /\ (n - i) + i = n
    OBVIOUS
  <2> QED
    BY <2>1
<1>2. T # {} /\ T \in SUBSET Nat
  BY <1>1
<1>3. \A k \in T : k \in Nat /\ \E i \in S : k + i = n
  OBVIOUS
<1> HIDE DEF T
<1>4. PICK k \in T : \A m \in T : k <= m
  BY <1>2, Least
<1>5. PICK i \in S : k + i = n
  BY <1>3
<1>6. ASSUME NEW j \in S PROVE i >= j
  <2>1. PICK m \in T : m + j = n
    BY <1>1
  <2>2. i \in Nat /\ j \in Nat /\ k \in Nat /\ m \in Nat /\ k <= m
    BY <1>1, <1>3, <1>4
  <2> QED
    BY <1>5, <2>1, <2>2, BackToFront
<1> QED
  BY <1>6 DEF Max

\* A queue is its first n frames and the others.
LEMMA SplitFacts ==
  ASSUME NEW q \in Seq(Frames), NEW n \in 0..Len(q)
  PROVE  LET a == SubSeq(q, 1, n)
             b == SubSeq(q, n + 1, Len(q))
         IN  /\ a \in Seq(Frames) /\ Len(a) = n /\ \A i \in 1..n : a[i] = q[i]
             /\ b \in Seq(Frames) /\ Len(b) = Len(q) - n
             /\ \A i \in 1..(Len(q) - n) : b[i] = q[n + i]
             /\ a \o b = q
<1> DEFINE a == SubSeq(q, 1, n)
           b == SubSeq(q, n + 1, Len(q))
<1>1. /\ Len(q) \in Nat /\ 1 \in 1..Len(q) + 1 /\ n \in 1 - 1..Len(q) /\ Len(q) \in n..Len(q)
      /\ n \in Int /\ 1 \in Int /\ n + 1 \in Int /\ Len(q) \in Int
      /\ n - 1 + 1 = n /\ Len(q) - (n + 1) + 1 = Len(q) - n
  BY LenProperties
<1>2. a \o b = q
  BY <1>1, ConcatAdjacentSubSeq, SubSeqFull
<1>3. \A i \in 1..Len(q) : q[i] \in Frames
  BY ElementOfSeq
<1>4. /\ \A i \in 1..n : q[i] \in Frames
      /\ \A i \in (n + 1)..Len(q) : q[i] \in Frames
  BY <1>1, <1>3
<1>5. /\ a \in Seq(Frames) /\ Len(a) = IF 1 <= n THEN n - 1 + 1 ELSE 0
      /\ \A i \in 1..(n - 1 + 1) : a[i] = q[1 + i - 1]
  BY <1>1, <1>4, SubSeqProperties
<1>6. /\ b \in Seq(Frames)
      /\ Len(b) = IF n + 1 <= Len(q) THEN Len(q) - (n + 1) + 1 ELSE 0
      /\ \A i \in 1..(Len(q) - (n + 1) + 1) : b[i] = q[(n + 1) + i - 1]
  BY <1>1, <1>4, SubSeqProperties
<1> HIDE DEF a, b
<1>7. Len(a) = n /\ \A i \in 1..n : a[i] = q[i]
  BY <1>1, <1>5
<1>8. Len(b) = Len(q) - n
  <2>1. Len(q) \in Nat /\ n \in Nat /\ n <= Len(q)
    BY LenProperties
  <2>2. CASE n + 1 <= Len(q)
    BY <1>6, <2>1, <2>2
  <2>3. CASE ~(n + 1 <= Len(q))
    <3>1. Len(b) = 0
      BY <1>6, <2>3
    <3>2. n = Len(q)
      BY <2>1, <2>3
    <3> QED
      BY <2>1, <3>1, <3>2
  <2> QED
    BY <2>2, <2>3
<1>9. ASSUME NEW i \in 1..(Len(q) - n) PROVE b[i] = q[n + i]
  <2>1. i \in 1..(Len(q) - (n + 1) + 1) /\ (n + 1) + i - 1 = n + i
    BY <1>1
  <2> QED
    BY <1>6, <2>1
<1> QED
  BY <1>2, <1>5, <1>6, <1>7, <1>8, <1>9 DEF a, b

\* r is what is left of q: no heavier, and its frames are among those of q.
Left(r, q) ==
  /\ r \in Seq(Frames) /\ Len(r) <= Len(q) /\ SizeOf(r) <= SizeOf(q)
  /\ Weight(r, PlainOne) <= Weight(q, PlainOne)
  /\ Weight(r, PlainSize) <= Weight(q, PlainSize)
  /\ \A j \in 1..Len(r) : \E k \in 1..Len(q) : r[j] = q[k]

\* What is left of what was left.
LEMMA LeftFromLeft ==
  ASSUME NEW q \in Seq(Frames), NEW r, NEW s, Left(r, q), Left(s, r)
  PROVE  Left(s, q)
<1>1. /\ s \in Seq(Frames) /\ r \in Seq(Frames)
      /\ Len(q) \in Nat /\ Len(r) \in Nat /\ Len(s) \in Nat
      /\ Weight(q, PlainOne) \in Nat /\ Weight(r, PlainOne) \in Nat /\ Weight(s, PlainOne) \in Nat
      /\ Weight(q, PlainSize) \in Nat /\ Weight(r, PlainSize) \in Nat /\ Weight(s, PlainSize) \in Nat
      /\ SizeOf(q) \in Nat /\ SizeOf(r) \in Nat /\ SizeOf(s) \in Nat
  BY TheWeights, WeightNumbers, SizeIsWeight DEF Left
<1>2. Len(s) <= Len(q) /\ SizeOf(s) <= SizeOf(q)
  BY <1>1 DEF Left
<1>3. Weight(s, PlainOne) <= Weight(q, PlainOne) /\ Weight(s, PlainSize) <= Weight(q, PlainSize)
  BY <1>1 DEF Left
<1>4. \A j \in 1..Len(s) : \E k \in 1..Len(q) : s[j] = q[k]
  BY DEF Left
<1> QED
  BY <1>1, <1>2, <1>3, <1>4 DEF Left

\* Everything is left.
LEMMA LeftAll == ASSUME NEW q \in Seq(Frames) PROVE Left(q, q)
<1>1. /\ Len(q) \in Nat /\ SizeOf(q) \in Nat
      /\ Weight(q, PlainOne) \in Nat /\ Weight(q, PlainSize) \in Nat
  BY TheWeights, WeightNumbers, SizeIsWeight
<1> QED
  BY <1>1 DEF Left

\* The queue without one frame.
LEMMA RemoveFacts ==
  ASSUME NEW q \in Seq(Frames), NEW i \in 1..Len(q)
  PROVE  /\ Left(RemoveAt(q, i), q) /\ Len(RemoveAt(q, i)) = Len(q) - 1
         /\ q[i] \in Frames /\ SizeOf(RemoveAt(q, i)) = SizeOf(q) - q[i].size
<1> DEFINE a == SubSeq(q, 1, i - 1)
           m == SubSeq(q, i, i)
           b == SubSeq(q, i + 1, Len(q))
           y == SubSeq(q, i, Len(q))
           r == RemoveAt(q, i)
<1>1. /\ Len(q) \in Nat /\ i \in 0..Len(q) /\ i - 1 \in 0..Len(q) /\ (i - 1) + 1 = i
      /\ i \in Int /\ i - i + 1 = 1 /\ i <= i /\ i + 1 - 1 = i
  BY LenProperties
<1>2. q[i] \in Frames
  BY ElementOfSeq
<1>3. /\ a \in Seq(Frames) /\ Len(a) = i - 1 /\ \A j \in 1..(i - 1) : a[j] = q[j]
      /\ a \o y = q /\ y \in Seq(Frames)
  BY <1>1, SplitFacts
<1>4. /\ b \in Seq(Frames) /\ Len(b) = Len(q) - i /\ \A j \in 1..(Len(q) - i) : b[j] = q[i + j]
  BY <1>1, SplitFacts
<1>5. m = <<q[i]>>
  <2>1. \A j \in i..i : q[j] \in Frames
    BY <1>2
  <2>2. /\ m \in Seq(Frames) /\ Len(m) = IF i <= i THEN i - i + 1 ELSE 0
        /\ \A j \in 1..(i - i + 1) : m[j] = q[i + j - 1]
    BY <1>1, <2>1, SubSeqProperties
  <2> HIDE DEF m
  <2>3. Len(m) = 1 /\ 1 \in 1..(i - i + 1) /\ i + 1 - 1 = i
    BY <1>1, <2>2
  <2>4. m[1] = q[i]
    BY <2>2, <2>3
  <2> QED
    BY <2>2, <2>3, <2>4
<1>6. m \o b = y
  <2>1. i \in 1..Len(q) + 1 /\ i \in i - 1..Len(q) /\ Len(q) \in i..Len(q)
    BY <1>1
  <2> QED
    BY <2>1, ConcatAdjacentSubSeq
<1>7. r = a \o b
  BY DEF RemoveAt
<1> HIDE DEF a, m, b, r, y
<1>8. <<q[i]>> \in Seq(Frames)
  BY <1>2
<1>9. ASSUME NEW w \in Weights
      PROVE  /\ Weight(r, w) + w[q[i]] = Weight(q, w)
             /\ Weight(r, w) \in Nat /\ w[q[i]] \in Nat /\ Weight(q, w) \in Nat
  <2>1. Weight(m \o b, w) = w[q[i]] + Weight(b, w)
    <3>1. m \in Seq(Frames) /\ b \in Seq(Frames)
      BY <1>4, <1>5, <1>8
    <3>2. Weight(m \o b, w) = Weight(m, w) + Weight(b, w)
      BY <3>1, WeightConcat
    <3>3. Weight(m, w) = w[q[i]]
      BY <1>2, <1>5, WeightOne
    <3> QED
      BY <3>2, <3>3
  <2>2. Weight(q, w) = Weight(a, w) + Weight(m \o b, w)
    <3>1. a \in Seq(Frames) /\ y \in Seq(Frames)
      BY <1>3
    <3>2. Weight(a \o y, w) = Weight(a, w) + Weight(y, w)
      BY <3>1, WeightConcat
    <3> QED
      BY <1>3, <1>6, <3>2
  <2>3. Weight(r, w) = Weight(a, w) + Weight(b, w) /\ r \in Seq(Frames)
    BY <1>3, <1>4, <1>7, WeightConcat, ConcatProperties
  <2>4. Weight(a, w) \in Nat /\ Weight(b, w) \in Nat /\ Weight(r, w) \in Nat /\ Weight(q, w) \in Nat
    BY <1>3, <1>4, <2>3, WeightNumbers
  <2>5. w[q[i]] \in Nat
    BY <1>2 DEF Weights
  <2> QED
    BY <2>1, <2>2, <2>3, <2>4, <2>5
<1>10. /\ r \in Seq(Frames) /\ Len(r) = Len(q) - 1
       /\ \A j \in 1..(Len(q) - 1) : r[j] = IF j <= i - 1 THEN a[j] ELSE b[j - (i - 1)]
  <2>1. a \in Seq(Frames) /\ b \in Seq(Frames) /\ Len(a) = i - 1 /\ Len(b) = Len(q) - i
    BY <1>3, <1>4
  <2>2. /\ a \o b \in Seq(Frames) /\ Len(a \o b) = Len(a) + Len(b)
        /\ \A j \in 1..(Len(a) + Len(b)) :
             (a \o b)[j] = IF j <= Len(a) THEN a[j] ELSE b[j - Len(a)]
    BY <2>1, ConcatProperties
  <2>3. (i - 1) + (Len(q) - i) = Len(q) - 1
    BY <1>1
  <2> QED
    BY <1>7, <2>1, <2>2, <2>3
<1>11. ASSUME NEW j \in 1..Len(r) PROVE \E k \in 1..Len(q) : r[j] = q[k]
  <2>1. CASE j <= i - 1
    <3>1. j \in 1..(i - 1) /\ j \in 1..Len(q) /\ j \in 1..(Len(q) - 1)
      BY <1>1, <1>10, <2>1
    <3> QED
      BY <1>3, <1>10, <2>1, <3>1
  <2>2. CASE ~(j <= i - 1)
    <3>1. /\ j - (i - 1) \in 1..(Len(q) - i) /\ i + (j - (i - 1)) \in 1..Len(q)
          /\ j \in 1..(Len(q) - 1)
      BY <1>1, <1>10, <2>2
    <3>2. r[j] = q[i + (j - (i - 1))]
      BY <1>4, <1>10, <2>2, <3>1
    <3> QED
      BY <3>1, <3>2
  <2> QED
    BY <2>1, <2>2
<1>12. /\ Weight(r, PlainOne) <= Weight(q, PlainOne) /\ Weight(r, PlainSize) <= Weight(q, PlainSize)
  <2>1. PlainOne \in Weights /\ PlainSize \in Weights
    BY TheWeights
  <2>2. /\ Weight(r, PlainOne) + PlainOne[q[i]] = Weight(q, PlainOne)
        /\ Weight(r, PlainOne) \in Nat /\ PlainOne[q[i]] \in Nat
    BY <1>9, <2>1
  <2>3. /\ Weight(r, PlainSize) + PlainSize[q[i]] = Weight(q, PlainSize)
        /\ Weight(r, PlainSize) \in Nat /\ PlainSize[q[i]] \in Nat
    BY <1>9, <2>1
  <2> QED
    BY <2>2, <2>3
<1>13. SizeOf(r) = SizeOf(q) - q[i].size /\ SizeOf(r) <= SizeOf(q)
  <2>1. /\ Weight(r, Size) + Size[q[i]] = Weight(q, Size)
        /\ Weight(r, Size) \in Nat /\ Size[q[i]] \in Nat /\ Weight(q, Size) \in Nat
    BY <1>9, TheWeights
  <2>2. Size[q[i]] = q[i].size /\ SizeOf(r) = Weight(r, Size) /\ SizeOf(q) = Weight(q, Size)
    BY <1>2, <1>10, SizeIsWeight DEF Size
  <2> QED
    BY <2>1, <2>2
<1>14. Len(r) <= Len(q)
  BY <1>1, <1>10
<1> QED
  BY <1>2, <1>10, <1>11, <1>12, <1>13, <1>14 DEF Left, r

\* The victim is a frame of the lowest priority.
LEMMA VictimFacts ==
  ASSUME NEW q \in Seq(Frames), q # <<>>
  PROVE  /\ Victim(q) \in 1..Len(q) /\ q[Victim(q)].prio = Lowest(q) /\ Lowest(q) \in 1..3
         /\ \A i \in 1..Len(q) : Lowest(q) <= q[i].prio
<1> DEFINE low == {i \in 1..Len(q) : q[i].prio = Lowest(q)}
           same(i) == {j \in low : q[j].flow = q[i].flow}
           busy(i) == Cardinality(same(i))
           best == {i \in low : \A j \in low : busy(j) <= busy(i)}
           prios == {q[i].prio : i \in 1..Len(q)}
<1>6. Victim(q) = Min(best)
  BY DEF Victim
<1>1. Len(q) \in Nat /\ 1 \in 1..Len(q) /\ \A i \in 1..Len(q) : q[i] \in Frames /\ q[i].prio \in 1..3
  <2>1. Len(q) \in Nat /\ \A i \in 1..Len(q) : q[i] \in Frames
    BY LenProperties, ElementOfSeq
  <2>2. Len(q) # 0
    BY EmptySeq
  <2> QED
    BY <2>1, <2>2, TheWeights
<1>2. Lowest(q) \in prios /\ \A p \in prios : Lowest(q) <= p
  <2>1. prios \in SUBSET Nat /\ prios # {}
    BY <1>1
  <2>2. Lowest(q) = Min(prios)
    BY DEF Lowest
  <2> HIDE DEF prios
  <2> QED
    BY <2>1, <2>2, MinOf
<1>3. low # {} /\ low \in SUBSET (1..Len(q)) /\ Lowest(q) \in 1..3
      /\ \A i \in 1..Len(q) : Lowest(q) <= q[i].prio
  BY <1>1, <1>2
<1>4. ASSUME NEW i PROVE busy(i) \in Nat /\ busy(i) <= Len(q)
  <2>1. same(i) \in SUBSET (1..Len(q))
    OBVIOUS
  <2>2. IsFiniteSet(1..Len(q)) /\ Cardinality(1..Len(q)) = Len(q)
    BY <1>1, FS_Interval
  <2> HIDE DEF same
  <2>3. IsFiniteSet(same(i)) /\ Cardinality(same(i)) <= Len(q)
    BY <2>1, <2>2, FS_Subset
  <2> QED
    BY <2>3, FS_CardinalityType
<1> HIDE DEF busy, low
<1>5. best # {}
  <2> DEFINE T == {k \in Nat : \E i \in low : k = Len(q) - busy(i)}
  <2>1. \A i \in low : Len(q) - busy(i) \in Nat
    BY <1>1, <1>4
  <2>2. T # {} /\ T \in SUBSET Nat
    BY <1>3, <2>1
  <2>3. PICK k \in T : \A m \in T : k <= m
    BY <2>2, Least
  <2>4. PICK i \in low : k = Len(q) - busy(i)
    BY <2>3
  <2>5. ASSUME NEW j \in low PROVE busy(j) <= busy(i)
    <3>1. Len(q) - busy(j) \in T
      BY <2>1
    <3>2. Len(q) - busy(i) <= Len(q) - busy(j)
      BY <2>3, <2>4, <3>1
    <3> QED
      BY <1>1, <1>4, <3>2
  <2> QED
    BY <2>5
<1>7. best \in SUBSET Nat /\ best \in SUBSET low
  <2>1. low \in SUBSET Nat
    BY <1>1, <1>3
  <2> QED
    BY <2>1
<1>8. Victim(q) \in low
  <2> HIDE DEF best
  <2> QED
    BY <1>5, <1>6, <1>7, MinOf
<1> QED
  BY <1>3, <1>8 DEF low

\* Coalescing replaces at most one frame and keeps the bytes right.
LEMMA CoalescedFacts ==
  ASSUME NEW q \in Seq(Frames), NEW b, b = SizeOf(q), NEW f
  PROVE  LET c == Coalesced(q, b, f)
         IN  /\ Left(c.q, q) /\ c.b = SizeOf(c.q)
             /\ c.n \in Nat /\ Len(c.q) + c.n = Len(q)
<1> DEFINE S == {i \in 1..Len(q) : f.key # "" /\ q[i].key = f.key}
           i == IF S # {} THEN Max(S) ELSE 0
           c == Coalesced(q, b, f)
<1>1. Len(q) \in Nat
  BY LenProperties
<1>2. c = IF i = 0 THEN [q |-> q, b |-> b, n |-> 0]
          ELSE [q |-> RemoveAt(q, i), b |-> b - q[i].size, n |-> 1]
  BY DEF Coalesced, SelectLastInSeq
<1>3. S \in SUBSET (1..Len(q))
  OBVIOUS
<1>4. i # 0 => i \in 1..Len(q)
  <2> HIDE DEF S
  <2> QED
    BY <1>1, <1>3, MaxOf
<1> HIDE DEF i, c
<1>5. CASE i = 0
  BY <1>1, <1>2, <1>5, LeftAll DEF c
<1>6. CASE i # 0
  <2>1. /\ Left(RemoveAt(q, i), q) /\ Len(RemoveAt(q, i)) = Len(q) - 1
        /\ SizeOf(RemoveAt(q, i)) = SizeOf(q) - q[i].size
    BY <1>4, <1>6, RemoveFacts
  <2>2. c.q = RemoveAt(q, i) /\ c.b = b - q[i].size /\ c.n = 1
    BY <1>2, <1>6
  <2> QED
    BY <1>1, <2>1, <2>2 DEF c
<1> QED
  BY <1>5, <1>6

\* What the eviction loop has made of q: the frames it gave up outrank neither
\* f nor one that is left, and it has settled unless it gave up one a round.
Rounds(q, f, k) ==
  {r \in [q : Seq(Frames), b : Nat, out : Seq(1..3)] :
     /\ Left(r.q, q) /\ r.b = SizeOf(r.q) /\ Len(r.q) + Len(r.out) = Len(q)
     /\ \A i \in 1..Len(r.out) :
          r.out[i] <= f.prio /\ \A j \in 1..Len(r.q) : r.out[i] <= r.q[j].prio
     /\ Settled(r, f) \/ Len(r.q) + k = Len(q)}

\* What leaves one side of a sum joins the other.
LEMMA OneForOne ==
  ASSUME NEW x \in Nat, NEW y \in Nat, NEW z \in Nat, x + y = z
  PROVE  (x - 1) + (y + 1) = z
  OBVIOUS

\* One round of the eviction loop.
LEMMA OneRound ==
  ASSUME NEW q \in Seq(Frames), NEW f \in Frames, NEW k \in Nat, NEW r \in Rounds(q, f, k),
         ~Settled(r, f)
  PROVE  DropVictim(r) \in Rounds(q, f, k + 1)
<1> DEFINE i == Victim(r.q)
           d == DropVictim(r)
<1>1. /\ r.q \in Seq(Frames) /\ r.b = SizeOf(r.q) /\ r.out \in Seq(1..3) /\ Left(r.q, q)
      /\ Len(r.q) + Len(r.out) = Len(q) /\ Len(r.q) + k = Len(q) /\ r.q # <<>>
      /\ Lowest(r.q) \in 1..3 => Lowest(r.q) <= f.prio
  <2>1. ~(f.prio < Lowest(r.q)) /\ f.prio \in 1..3
    BY TheWeights DEF Settled
  <2> QED
    BY <2>1 DEF Rounds, Settled
<1>2. /\ i \in 1..Len(r.q) /\ r.q[i].prio = Lowest(r.q) /\ Lowest(r.q) \in 1..3
      /\ \A j \in 1..Len(r.q) : Lowest(r.q) <= r.q[j].prio
  BY <1>1, VictimFacts
<1> HIDE DEF i
<1>3. /\ Left(RemoveAt(r.q, i), r.q) /\ Len(RemoveAt(r.q, i)) = Len(r.q) - 1
      /\ r.q[i] \in Frames /\ SizeOf(RemoveAt(r.q, i)) = SizeOf(r.q) - r.q[i].size
  BY <1>1, <1>2, RemoveFacts
<1>4. d.q = RemoveAt(r.q, i) /\ d.b = r.b - r.q[i].size /\ d.out = Append(r.out, r.q[i].prio)
      /\ d = [q |-> d.q, b |-> d.b, out |-> d.out]
  BY DEF DropVictim, i
<1> HIDE DEF d
<1>5. /\ Len(r.q) \in Nat /\ Len(q) \in Nat /\ Len(r.out) \in Nat
      /\ SizeOf(r.q) \in Nat /\ d.q \in Seq(Frames) /\ SizeOf(d.q) \in Nat
  <2>1. r.q \in Seq(Frames) /\ r.out \in Seq(1..3)
    BY <1>1
  <2>2. d.q \in Seq(Frames)
    BY <1>3, <1>4 DEF Left
  <2>3. Len(r.q) \in Nat /\ Len(q) \in Nat /\ Len(r.out) \in Nat
    BY <2>1, LenProperties
  <2>4. Size \in Weights
    BY TheWeights
  <2>5. SizeOf(r.q) \in Nat
    BY <2>1, <2>4, WeightNumbers, SizeIsWeight
  <2>6. SizeOf(d.q) \in Nat
    BY <2>2, <2>4, WeightNumbers, SizeIsWeight
  <2> QED
    BY <2>2, <2>3, <2>5, <2>6
<1>6. /\ d.out \in Seq(1..3) /\ Len(d.out) = Len(r.out) + 1
      /\ \A j \in 1..Len(r.out) : d.out[j] = r.out[j]
      /\ d.out[Len(r.out) + 1] = Lowest(r.q)
  BY <1>1, <1>2, <1>4, AppendProperties
<1>7. Left(d.q, q) /\ d.b = SizeOf(d.q) /\ d.b \in Nat
  <2>1. Left(d.q, r.q)
    BY <1>3, <1>4
  <2>2. Left(d.q, q)
    BY <1>1, <2>1, LeftFromLeft
  <2>3. d.b = SizeOf(r.q) - r.q[i].size
    BY <1>1, <1>4
  <2>4. SizeOf(d.q) = SizeOf(r.q) - r.q[i].size
    BY <1>3, <1>4
  <2>5. d.b = SizeOf(d.q)
    BY <2>3, <2>4
  <2>6. d.b \in Nat
    BY <1>5, <2>5
  <2> QED
    BY <2>2, <2>5, <2>6
<1>8. Len(d.q) + Len(d.out) = Len(q) /\ Len(d.q) + (k + 1) = Len(q)
  <2>1. Len(d.q) = Len(r.q) - 1 /\ Len(d.out) = Len(r.out) + 1
    BY <1>3, <1>4, <1>6
  <2>2. Len(r.q) + Len(r.out) = Len(q) /\ Len(r.q) + k = Len(q)
    BY <1>1
  <2>3. Len(r.q) \in Nat /\ Len(q) \in Nat /\ Len(r.out) \in Nat
    BY <1>5
  <2> DEFINE x == Len(r.q)
             y == Len(r.out)
             z == Len(q)
             x1 == Len(d.q)
             y1 == Len(d.out)
  <2>4. x \in Nat /\ y \in Nat /\ z \in Nat /\ x + y = z /\ x + k = z
    BY <2>2, <2>3
  <2>5. x1 = x - 1 /\ y1 = y + 1
    BY <2>1
  <2> HIDE DEF x, y, z, x1, y1
  <2>6. x1 + y1 = z
    BY <2>4, <2>5, OneForOne
  <2>7. x1 + (k + 1) = z
    BY <2>4, <2>5, OneForOne
  <2> QED
    BY <2>6, <2>7 DEF x1, y1, z
<1>9. ASSUME NEW j \in 1..Len(d.out)
      PROVE  d.out[j] <= f.prio /\ \A m \in 1..Len(d.q) : d.out[j] <= d.q[m].prio
  <2>1. ASSUME NEW m \in 1..Len(d.q) PROVE \E n \in 1..Len(r.q) : d.q[m] = r.q[n]
    BY <1>3, <1>4 DEF Left
  <2>2. CASE j \in 1..Len(r.out)
    <3>1. r.out[j] <= f.prio /\ \A n \in 1..Len(r.q) : r.out[j] <= r.q[n].prio
      BY <2>2 DEF Rounds
    <3> QED
      BY <1>6, <2>1, <2>2, <3>1
  <2>3. CASE j = Len(r.out) + 1
    BY <1>1, <1>2, <1>6, <2>1, <2>3
  <2> QED
    BY <1>5, <1>6, <2>2, <2>3
<1>10. d \in [q : Seq(Frames), b : Nat, out : Seq(1..3)]
  BY <1>4, <1>5, <1>6, <1>7
<1> QED
  BY <1>7, <1>8, <1>9, <1>10 DEF Rounds, d

\* The eviction loop ends settled.
LEMMA EvictedFacts ==
  ASSUME NEW q \in Seq(Frames), NEW b, b = SizeOf(q), NEW f \in Frames
  PROVE  /\ Evicted(q, b, f) \in Rounds(q, f, Len(q))
         /\ Settled(Evicted(q, b, f), f)
<1> DEFINE n == Len(q)
           V == [k \in 0..n |-> Rounds(q, f, k)]
           All == [q : Seq(Frames), b : Nat, out : Seq(1..3)]
           Start == [q |-> q, b |-> b, out |-> <<>>]
           Round(r) == IF Settled(r, f) THEN r ELSE DropVictim(r)
           Step == [p \in (1..n) \X All |-> Round(p[2])]
           Loop(s) == s = [k \in 0..n |-> IF k = 0 THEN Start ELSE Round(s[k - 1])]
<1>1. n \in Nat /\ b \in Nat
  BY LenProperties, TheWeights, WeightNumbers, SizeIsWeight
<1>2. Start \in V[0]
  <2>1. Start \in All /\ Start.q = q /\ Start.b = b /\ Start.out = <<>> /\ Len(<<>>) = 0
    BY <1>1
  <2>2. 0 \in 0..n /\ Len(q) + 0 = Len(q)
    BY <1>1
  <2> HIDE DEF Start
  <2>3. Left(Start.q, q) /\ Start.b = SizeOf(Start.q) /\ Len(Start.q) + Len(Start.out) = Len(q)
    BY <1>1, <2>1, LeftAll
  <2>4. \A i \in 1..Len(Start.out) : FALSE
    BY <2>1
  <2>5. Start \in Rounds(q, f, 0)
    BY <2>1, <2>2, <2>3, <2>4 DEF Rounds
  <2> QED
    BY <2>2, <2>5
<1>3. ASSUME NEW k \in 1..n, NEW r \in V[k - 1]
      PROVE  Step[<<k, r>>] = Round(r) /\ Step[<<k, r>>] \in V[k]
  <2>1. k - 1 \in 0..n /\ k - 1 \in Nat /\ k \in 0..n /\ (k - 1) + 1 = k
    OBVIOUS
  <2>2. r \in Rounds(q, f, k - 1)
    BY <2>1
  <2>3. r \in All
    BY <2>2 DEF Rounds
  <2>4. Step[<<k, r>>] = Round(r)
    BY <2>3
  <2>5. CASE Settled(r, f)
    <3>1. r \in Rounds(q, f, k)
      BY <2>2, <2>5 DEF Rounds
    <3> QED
      BY <2>1, <2>4, <2>5, <3>1
  <2>6. CASE ~Settled(r, f)
    <3>1. DropVictim(r) \in Rounds(q, f, k)
      BY <2>1, <2>2, <2>6, OneRound
    <3> QED
      BY <2>1, <2>4, <2>6, <3>1
  <2> QED
    BY <2>5, <2>6
<1>4. \E s : Recursion(n, Start, Step, s) /\ \A k \in 0..n : s[k] \in V[k]
  <2>1. \A k \in 1..n : \A r \in V[k - 1] : Step[<<k, r>>] \in V[k]
    BY <1>3
  <2> HIDE DEF n, V, Step, Start
  <2> QED
    BY <1>1, <1>2, <2>1, RecursionExists
<1>5. PICK s : Recursion(n, Start, Step, s) /\ \A k \in 0..n : s[k] \in V[k]
  BY <1>4
<1>6. ASSUME NEW k \in 0..n PROVE s[k] = IF k = 0 THEN Start ELSE Round(s[k - 1])
  <2>1. s[k] = IF k = 0 THEN Start ELSE Step[<<k, s[k - 1]>>]
    BY <1>5 DEF Recursion
  <2>2. ASSUME k # 0 PROVE Step[<<k, s[k - 1]>>] = Round(s[k - 1])
    <3>1. k \in 1..n /\ k - 1 \in 0..n
      BY <2>2
    <3>2. s[k - 1] \in V[k - 1]
      BY <1>5, <3>1
    <3> QED
      BY <1>3, <3>1, <3>2
  <2> QED
    BY <2>1, <2>2
<1>7. Loop(s)
  <2>1. s = [k \in 0..n |-> s[k]]
    BY <1>5 DEF Recursion
  <2> QED
    BY <1>6, <2>1
<1> DEFINE c == CHOOSE g : Loop(g)
<1>8. Loop(c)
  BY <1>7
<1>9. Evicted(q, b, f) = c[n]
  BY DEF Evicted
<1>10. c[n] = s[n]
  <2> DEFINE Same == {k \in Nat : k <= n => c[k] = s[k]}
  <2>0. \A k \in 0..n : /\ c[k] = IF k = 0 THEN Start ELSE Round(c[k - 1])
                        /\ s[k] = IF k = 0 THEN Start ELSE Round(s[k - 1])
    <3> HIDE DEF c, Start, Round
    <3> QED
      BY <1>6, <1>8
  <2> HIDE DEF c, Start, Round, n
  <2>1. 0 \in Same
    BY <1>1, <2>0
  <2>2. ASSUME NEW k \in Nat, k \in Same PROVE k + 1 \in Same
    <3>1. SUFFICES ASSUME k + 1 <= n PROVE c[k + 1] = s[k + 1]
      OBVIOUS
    <3>2. k + 1 \in 0..n /\ k + 1 # 0 /\ (k + 1) - 1 = k /\ c[k] = s[k]
      BY <1>1, <2>2, <3>1
    <3>3. c[k + 1] = Round(c[(k + 1) - 1]) /\ s[k + 1] = Round(s[(k + 1) - 1])
      BY <2>0, <3>2
    <3> QED
      BY <3>2, <3>3
  <2>3. \A k \in Nat : k \in Same
    <3> HIDE DEF Same
    <3> QED
      BY <2>1, <2>2, AllNumbers
  <2> QED
    BY <1>1, <2>3
<1>11. s[n] \in Rounds(q, f, n)
  <2>1. n \in 0..n
    BY <1>1
  <2> QED
    BY <1>5, <2>1
<1>12. ASSUME NEW r \in Rounds(q, f, n) PROVE Settled(r, f)
  <2>1. r.q \in Seq(Frames) /\ (Settled(r, f) \/ Len(r.q) + n = n)
    BY DEF Rounds
  <2>2. Len(r.q) \in Nat /\ (Len(r.q) = 0 => r.q = <<>>)
    BY <2>1, LenProperties, EmptySeq
  <2>3. Settled(r, f) \/ r.q = <<>>
    <3> HIDE DEF n
    <3> QED
      BY <1>1, <2>1, <2>2
  <2> QED
    BY <2>3 DEF Settled
<1> QED
  BY <1>9, <1>10, <1>11, <1>12

----------------------------------------------------------------------------
(* What the queue's operations do to its limits *)

QueueLimits(q) ==
  /\ Len(q) <= MaxFrames + ReserveFrames /\ SizeOf(q) <= MaxBytes + ReserveBytes
  /\ Weight(q, PlainOne) <= MaxFrames /\ Weight(q, PlainSize) <= MaxBytes

\* What the limits are about are numbers.
LEMMA QueueNumbers ==
  ASSUME NEW q \in Seq(Frames)
  PROVE  /\ Len(q) \in Nat /\ SizeOf(q) \in Nat
         /\ Weight(q, PlainOne) \in Nat /\ Weight(q, PlainSize) \in Nat
  BY TheWeights, WeightNumbers, SizeIsWeight

\* A queue that loses frames stays within the limits.
LEMMA LeftKeepsLimits ==
  ASSUME NEW q \in Seq(Frames), NEW r, Left(r, q), QueueLimits(q)
  PROVE  QueueLimits(r)
<1>1. /\ r \in Seq(Frames) /\ Len(r) <= Len(q) /\ SizeOf(r) <= SizeOf(q)
      /\ Weight(r, PlainOne) <= Weight(q, PlainOne)
      /\ Weight(r, PlainSize) <= Weight(q, PlainSize)
  BY DEF Left
<1>2. /\ Len(q) \in Nat /\ SizeOf(q) \in Nat
      /\ Weight(q, PlainOne) \in Nat /\ Weight(q, PlainSize) \in Nat
  BY QueueNumbers
<1>3. /\ Len(r) \in Nat /\ SizeOf(r) \in Nat
      /\ Weight(r, PlainOne) \in Nat /\ Weight(r, PlainSize) \in Nat
  BY <1>1, QueueNumbers
<1> QED
  BY <1>1, <1>2, <1>3, BoundsAssumption DEF QueueLimits

\* A batch taken from the front.
LEMMA TakeFacts ==
  ASSUME NEW q \in Seq(Frames), NEW n \in 0..Len(q)
  PROVE  LET a == SubSeq(q, 1, n)
             b == SubSeq(q, n + 1, Len(q))
         IN  /\ a \in Seq(Frames) /\ Len(a) = n
             /\ Left(b, q) /\ Len(a) + Len(b) = Len(q) /\ SizeOf(b) = SizeOf(q) - SizeOf(a)
<1> DEFINE a == SubSeq(q, 1, n)
           b == SubSeq(q, n + 1, Len(q))
<1>1. /\ a \in Seq(Frames) /\ Len(a) = n /\ b \in Seq(Frames) /\ Len(b) = Len(q) - n
      /\ \A i \in 1..(Len(q) - n) : b[i] = q[n + i]
      /\ a \o b = q
  BY SplitFacts
<1>2. Len(q) \in Nat /\ n \in Nat /\ n <= Len(q)
  BY LenProperties
<1> HIDE DEF a, b
<1>3. ASSUME NEW w \in Weights
      PROVE  /\ Weight(q, w) = Weight(a, w) + Weight(b, w)
             /\ Weight(a, w) \in Nat /\ Weight(b, w) \in Nat /\ Weight(q, w) \in Nat
  <2>1. Weight(a \o b, w) = Weight(a, w) + Weight(b, w)
    BY <1>1, WeightConcat
  <2>2. Weight(a, w) \in Nat /\ Weight(b, w) \in Nat /\ Weight(q, w) \in Nat
    BY <1>1, WeightNumbers
  <2> QED
    BY <1>1, <2>1, <2>2
<1>4. /\ PlainOne \in Weights /\ PlainSize \in Weights /\ Size \in Weights
  BY TheWeights
<1>5. Weight(b, PlainOne) <= Weight(q, PlainOne)
  BY <1>3, <1>4
<1>6. Weight(b, PlainSize) <= Weight(q, PlainSize)
  BY <1>3, <1>4
<1>7. SizeOf(a) = Weight(a, Size) /\ SizeOf(b) = Weight(b, Size) /\ SizeOf(q) = Weight(q, Size)
  BY <1>1, SizeIsWeight
<1>8. SizeOf(b) = SizeOf(q) - SizeOf(a) /\ SizeOf(b) <= SizeOf(q)
  BY <1>3, <1>4, <1>7
<1>9. ASSUME NEW j \in 1..Len(b) PROVE \E k \in 1..Len(q) : b[j] = q[k]
  <2>1. j \in 1..(Len(q) - n) /\ n + j \in 1..Len(q)
    BY <1>1, <1>2
  <2> QED
    BY <1>1, <2>1
<1>10. Len(b) <= Len(q) /\ Len(a) + Len(b) = Len(q)
  BY <1>1, <1>2
<1>11. Left(b, q)
  BY <1>1, <1>5, <1>6, <1>8, <1>9, <1>10 DEF Left
<1> QED
  BY <1>1, <1>8, <1>10, <1>11 DEF a, b

\* A frame that fits does not make the queue exceed a limit.
LEMMA AppendKeepsLimits ==
  ASSUME NEW q \in Seq(Frames), QueueLimits(q), NEW f \in Frames, ~Pressed(q, SizeOf(q), f)
  PROVE  /\ Append(q, f) \in Seq(Frames) /\ QueueLimits(Append(q, f))
         /\ SizeOf(Append(q, f)) = SizeOf(q) + f.size
<1> DEFINE r == Append(q, f)
<1>1. r \in Seq(Frames) /\ Len(r) = Len(q) + 1 /\ r = q \o <<f>> /\ <<f>> \in Seq(Frames)
  BY AppendProperties, AppendIsConcat
<1> HIDE DEF r
<1>2. ASSUME NEW w \in Weights PROVE Weight(r, w) = Weight(q, w) + w[f]
  <2>1. Weight(q \o <<f>>, w) = Weight(q, w) + Weight(<<f>>, w)
    BY <1>1, WeightConcat
  <2>2. Weight(<<f>>, w) = w[f]
    BY WeightOne
  <2> QED
    BY <1>1, <2>1, <2>2
<1>3. /\ PlainOne \in Weights /\ PlainSize \in Weights /\ Size \in Weights
      /\ f.size \in Nat
  BY TheWeights
<1>4. /\ Weight(r, PlainOne) = Weight(q, PlainOne) + PlainOne[f]
      /\ Weight(r, PlainSize) = Weight(q, PlainSize) + PlainSize[f]
      /\ SizeOf(r) = SizeOf(q) + f.size
  <2>1. Weight(r, Size) = Weight(q, Size) + Size[f]
    BY <1>2, <1>3
  <2>2. SizeOf(r) = SizeOf(q) + f.size
    BY <1>1, <2>1, SizeIsWeight DEF Size
  <2> QED
    BY <1>2, <1>3, <2>2
<1>5. /\ Len(q) \in Nat /\ SizeOf(q) \in Nat
      /\ Weight(q, PlainOne) \in Nat /\ Weight(q, PlainSize) \in Nat
      /\ Weight(q, PlainOne) <= Len(q) /\ Weight(q, PlainSize) <= SizeOf(q)
  BY QueueNumbers, PlainFacts
<1>6. Len(q) < FrameLimit(f) /\ SizeOf(q) + f.size <= ByteLimit(f)
  <2>1. FrameLimit(f) \in Nat /\ ByteLimit(f) \in Nat
    BY BoundsAssumption DEF FrameLimit, ByteLimit
  <2> QED
    BY <1>3, <1>5, <2>1 DEF Pressed
<1>7. CASE Protected(f)
  <2>1. PlainOne[f] = 0 /\ PlainSize[f] = 0
    BY <1>7 DEF PlainOne, PlainSize
  <2>2. FrameLimit(f) = MaxFrames + ReserveFrames /\ ByteLimit(f) = MaxBytes + ReserveBytes
    BY <1>7 DEF FrameLimit, ByteLimit
  <2>3. Len(r) <= MaxFrames + ReserveFrames /\ SizeOf(r) <= MaxBytes + ReserveBytes
    BY <1>1, <1>4, <1>5, <1>6, <2>2, BoundsAssumption
  <2>4. Weight(r, PlainOne) <= MaxFrames /\ Weight(r, PlainSize) <= MaxBytes
    BY <1>4, <1>5, <2>1 DEF QueueLimits
  <2> QED
    BY <1>1, <1>4, <2>3, <2>4 DEF QueueLimits, r
<1>8. CASE ~Protected(f)
  <2>1. PlainOne[f] = 1 /\ PlainSize[f] = f.size
    BY <1>8 DEF PlainOne, PlainSize
  <2>2. /\ FrameLimit(f) = MaxFrames /\ ByteLimit(f) = MaxBytes
        /\ MaxFrames \in Nat /\ MaxBytes \in Nat /\ ReserveFrames \in Nat /\ ReserveBytes \in Nat
    BY <1>8, BoundsAssumption DEF FrameLimit, ByteLimit
  <2>3. Len(r) <= MaxFrames + ReserveFrames /\ SizeOf(r) <= MaxBytes + ReserveBytes
    BY <1>1, <1>3, <1>4, <1>5, <1>6, <2>2
  <2>4. Weight(r, PlainOne) <= MaxFrames
    BY <1>4, <1>5, <1>6, <2>1, <2>2
  <2>5. Weight(r, PlainSize) <= MaxBytes
    BY <1>3, <1>4, <1>5, <1>6, <2>1, <2>2
  <2> QED
    BY <1>1, <1>4, <2>3, <2>4, <2>5 DEF QueueLimits, r
<1> QED
  BY <1>7, <1>8

\* The frames of a queue before and after coalescing and eviction.
LEMMA BelowTheLowest ==
  ASSUME NEW a \in 1..3, NEW b \in 1..3, NEW low \in 1..3, a < low, low <= b
  PROVE  a <= b
  OBVIOUS

\* A ledger's columns regrouped.
LEMMA Regrouped ==
  ASSUME NEW x \in Nat, NEW y \in Nat, NEW z \in Nat, NEW u \in Nat, NEW v \in Nat,
         y + u = x, z + v = y
  PROVE  x = z + u + v /\ x + 0 = z + u + v /\ x + 1 = (z + 1) + u + v
OBVIOUS

\* What a call does to the queue: room is made, and f appended or given up.
LEMMA PutFacts ==
  ASSUME NEW q \in Seq(Frames), NEW b, b = SizeOf(q), QueueLimits(q), NEW f \in Frames
  PROVE  LET c == Coalesced(q, b, f)
             e == Evicted(c.q, c.b, f)
             full == Pressed(e.q, e.b, f)
             q2 == IF full THEN e.q ELSE Append(e.q, f)
             b2 == IF full THEN e.b ELSE e.b + f.size
             lost == Range(e.out) \cup (IF full THEN {f.prio} ELSE {})
         IN  /\ q2 \in Seq(Frames) /\ b2 = SizeOf(q2) /\ QueueLimits(q2)
             /\ c.n \in Nat /\ Len(e.out) \in Nat
             /\ Len(q) + (IF full THEN 0 ELSE 1) = Len(q2) + c.n + Len(e.out)
             /\ lost \subseteq 1..3
             /\ \A n \in lost : \A i \in 1..Len(q2) : n <= q2[i].prio
<1> DEFINE c == Coalesced(q, b, f)
           e == Evicted(c.q, c.b, f)
           full == Pressed(e.q, e.b, f)
           q2 == IF full THEN e.q ELSE Append(e.q, f)
           b2 == IF full THEN e.b ELSE e.b + f.size
           lost == Range(e.out) \cup (IF full THEN {f.prio} ELSE {})
<1>1. Left(c.q, q) /\ c.b = SizeOf(c.q) /\ c.n \in Nat /\ Len(c.q) + c.n = Len(q)
  BY CoalescedFacts
<1> HIDE DEF c
<1>2. c.q \in Seq(Frames) /\ QueueLimits(c.q)
  BY <1>1, LeftKeepsLimits DEF Left
<1>3. e \in Rounds(c.q, f, Len(c.q)) /\ Settled(e, f)
  BY <1>1, <1>2, EvictedFacts
<1> HIDE DEF e
<1>4. /\ Left(e.q, c.q) /\ e.b = SizeOf(e.q) /\ Len(e.q) + Len(e.out) = Len(c.q)
      /\ e.out \in Seq(1..3) /\ e.q \in Seq(Frames)
      /\ \A i \in 1..Len(e.out) :
           e.out[i] <= f.prio /\ \A j \in 1..Len(e.q) : e.out[i] <= e.q[j].prio
  BY <1>3 DEF Rounds
<1>5. QueueLimits(e.q)
  BY <1>2, <1>4, LeftKeepsLimits
<1>6. /\ Len(q) \in Nat /\ Len(c.q) \in Nat /\ Len(e.q) \in Nat /\ Len(e.out) \in Nat
      /\ f.prio \in 1..3 /\ \A i \in 1..Len(e.out) : e.out[i] \in 1..3
      /\ \A i \in 1..Len(e.q) : e.q[i] \in Frames /\ e.q[i].prio \in 1..3
  BY <1>2, <1>4, LenProperties, ElementOfSeq, TheWeights
<1>7. \A n \in Range(e.out) : \E i \in 1..Len(e.out) : n = e.out[i]
  BY <1>4, LenProperties DEF Range
<1>8. lost \subseteq 1..3
  BY <1>6, <1>7
<1>9. CASE full
  <2>1. q2 = e.q /\ b2 = e.b
    BY <1>9
  <2>2. Len(q) + 0 = Len(e.q) + c.n + Len(e.out)
    <3>1. Len(c.q) + c.n = Len(q) /\ c.n \in Nat
      BY <1>1
    <3>2. Len(e.q) + Len(e.out) = Len(c.q)
      BY <1>4
    <3>3. Len(q) \in Nat /\ Len(c.q) \in Nat /\ Len(e.q) \in Nat /\ Len(e.out) \in Nat
      BY <1>6
    <3> DEFINE x == Len(q)  y == Len(c.q)  z == Len(e.q)  u == c.n  v == Len(e.out)
    <3>91. x \in Nat /\ y \in Nat /\ z \in Nat /\ u \in Nat /\ v \in Nat /\ y + u = x /\ z + v = y
      BY <3>1, <3>2, <3>3
    <3>92. ASSUME x \in Nat, y \in Nat, z \in Nat, u \in Nat, v \in Nat, y + u = x, z + v = y
        PROVE  x + 0 = z + u + v /\ x + 1 = (z + 1) + u + v
      <9> HIDE DEF x, y, z, u, v
      <9> QED
        BY <3>92, Regrouped
    <3> QED
      BY <3>91, <3>92
  <2>3. \A i \in 1..Len(e.q) : f.prio <= e.q[i].prio
    <3>1. e.q = <<>> \/ f.prio < Lowest(e.q)
      BY <1>3, <1>9 DEF Settled
    <3>2. CASE e.q = <<>>
      <4>1. Len(e.q) = 0
        BY <3>2
      <4> QED
        BY <4>1
    <3>3. CASE f.prio < Lowest(e.q) /\ e.q # <<>>
      <4>1. /\ Lowest(e.q) \in 1..3
            /\ \A i \in 1..Len(e.q) : Lowest(e.q) <= e.q[i].prio
        BY <1>4, <3>3, VictimFacts
      <4>2. ASSUME NEW i \in 1..Len(e.q) PROVE f.prio <= e.q[i].prio
        <5>1. /\ f.prio \in 1..3 /\ e.q[i].prio \in 1..3 /\ Lowest(e.q) \in 1..3
              /\ f.prio < Lowest(e.q) /\ Lowest(e.q) <= e.q[i].prio
          BY <1>6, <3>3, <4>1
        <5> QED
          BY <5>1, BelowTheLowest
      <4> QED
        BY <4>2
    <3> QED
      BY <3>1, <3>2, <3>3
  <2>4. \A n \in lost : \A i \in 1..Len(e.q) : n <= e.q[i].prio
    BY <1>4, <1>7, <2>3
  <2>5. Len(q) + (IF full THEN 0 ELSE 1) = Len(q2) + c.n + Len(e.out)
    BY <1>9, <2>1, <2>2
  <2> HIDE DEF full, lost, q2, b2
  <2>6. /\ q2 \in Seq(Frames) /\ b2 = SizeOf(q2) /\ QueueLimits(q2)
    BY <1>4, <1>5, <2>1
  <2>7. \A n \in lost : \A i \in 1..Len(q2) : n <= q2[i].prio
    BY <2>1, <2>4
  <2> QED
    BY <1>1, <1>6, <1>8, <2>5, <2>6, <2>7 DEF full, lost, q2, b2, e, c
<1>10. CASE ~full
  <2>1. q2 = Append(e.q, f) /\ b2 = e.b + f.size
    BY <1>10
  <2>2. q2 \in Seq(Frames) /\ QueueLimits(q2) /\ SizeOf(q2) = SizeOf(e.q) + f.size
    BY <1>4, <1>5, <1>10, <2>1, AppendKeepsLimits
  <2>3. /\ Len(q2) = Len(e.q) + 1 /\ q2[Len(e.q) + 1] = f
        /\ \A i \in 1..Len(e.q) : q2[i] = e.q[i]
    BY <1>4, <2>1, AppendProperties
  <2>4. Len(q) + (IF full THEN 0 ELSE 1) = Len(q2) + c.n + Len(e.out)
    <3>1. Len(c.q) + c.n = Len(q) /\ c.n \in Nat
      BY <1>1
    <3>2. Len(e.q) + Len(e.out) = Len(c.q)
      BY <1>4
    <3>3. Len(q) \in Nat /\ Len(c.q) \in Nat /\ Len(e.q) \in Nat /\ Len(e.out) \in Nat
      BY <1>6
    <3>5. Len(q) + 1 = (Len(e.q) + 1) + c.n + Len(e.out)
      <4> DEFINE x == Len(q)  y == Len(c.q)  z == Len(e.q)  u == c.n  v == Len(e.out)
      <4>91. x \in Nat /\ y \in Nat /\ z \in Nat /\ u \in Nat /\ v \in Nat /\ y + u = x /\ z + v = y
        BY <3>1, <3>2, <3>3
      <4>92. ASSUME x \in Nat, y \in Nat, z \in Nat, u \in Nat, v \in Nat, y + u = x, z + v = y
          PROVE  x + 0 = z + u + v /\ x + 1 = (z + 1) + u + v
        <9> HIDE DEF x, y, z, u, v
        <9> QED
          BY <4>92, Regrouped
      <4> QED
        BY <4>91, <4>92
    <3> QED
      BY <1>10, <2>3, <3>5
  <2>5. lost = Range(e.out)
    BY <1>10
  <2>6. ASSUME NEW n \in lost, NEW i \in 1..Len(q2) PROVE n <= q2[i].prio
    <3>1. PICK k \in 1..Len(e.out) : n = e.out[k]
      BY <1>7, <2>5, <2>6
    <3>2. i \in 1..Len(e.q) \/ i = Len(e.q) + 1
      BY <1>6, <2>3
    <3> QED
      BY <1>4, <2>3, <3>1, <3>2
  <2>7. b2 = SizeOf(q2)
    BY <1>4, <2>1, <2>2
  <2> HIDE DEF full, lost, q2, b2
  <2> QED
    BY <1>1, <1>6, <1>8, <2>2, <2>4, <2>6, <2>7 DEF full, lost, q2, b2, e, c
<1> QED
  BY <1>9, <1>10

----------------------------------------------------------------------------
(* The inductive invariant *)

\* The frames in queues q and batches b.
Held(q, b) == SumTo([g \in States |-> Len(q[g]) + Len(b[g])], MaxStates)

\* The states not made yet have no worker.
Unmade == \A g \in States : g > made => wpc[g] = "none"

\* A call that reaches its queue has got a state.
Chosen == \A p \in Producers : ppc[p] = "put" => mine[p] \in States

Queues == \A g \in States : bytes[g] = SizeOf(queue[g]) /\ QueueLimits(queue[g])

\* Each frame once.
Booked ==
  total.enqueued + total.rejected =
    total.processed + total.errors + total.coalesced + total.dropped + Held(queue, batch)

IngressInv == TypeOK /\ Unmade /\ Chosen /\ Queues /\ Booked /\ NoPriorityInversion

\* What the invariant says of the queues is what IngressAccounts says.
LEMMA InvAccounts == IngressInv => TypeOK /\ IngressAccounts /\ NoPriorityInversion
<1> SUFFICES ASSUME IngressInv PROVE IngressAccounts
  BY DEF IngressInv
<1>1. ASSUME NEW g \in States PROVE QueueAccounts(g)
  <2> DEFINE q == queue[g]
  <2>1. q \in Seq(Frames) /\ bytes[g] = SizeOf(q) /\ QueueLimits(q)
    BY DEF IngressInv, TypeOK, Queues
  <2> HIDE DEF q
  <2>2. /\ (\A i \in 1..Len(q) : ~Protected(q[i]))
             => Weight(q, PlainOne) = Len(q) /\ Weight(q, PlainSize) = SizeOf(q)
    BY <2>1, PlainFacts
  <2> QED
    BY <2>1, <2>2 DEF QueueAccounts, QueueLimits, q
<1> QED
  BY <1>1 DEF IngressInv, Booked, Held, IngressAccounts

\* A number of frames.
LEMMA HeldType ==
  ASSUME NEW q \in [States -> Seq(Frames)], NEW b \in [States -> Seq(Frames)]
  PROVE  /\ Held(q, b) \in Nat
         /\ Numbers([g \in States |-> Len(q[g]) + Len(b[g])], MaxStates)
<1>1. \A g \in States : Len(q[g]) \in Nat /\ Len(b[g]) \in Nat
  BY LenProperties
<1>2. Numbers([g \in States |-> Len(q[g]) + Len(b[g])], MaxStates)
  BY <1>1 DEF Numbers, States
<1> QED
  BY <1>2, SumType, BoundsAssumption DEF Held

\* From queues q and batches b to r and d only those of state g change.
OnlyOf(g, q, b, r, d) ==
  /\ q \in [States -> Seq(Frames)] /\ b \in [States -> Seq(Frames)]
  /\ r \in [States -> Seq(Frames)] /\ d \in [States -> Seq(Frames)]
  /\ g \in States /\ \A h \in States \ {g} : r[h] = q[h] /\ d[h] = b[h]

\* What it adds to one, it adds to the frames held.
Moved(g, q, b, r, d) ==
  Held(q, b) + (Len(r[g]) + Len(d[g])) = Held(r, d) + (Len(q[g]) + Len(b[g]))

\* The frames held change by what that state gains and loses.
LEMMA HeldMoves ==
  ASSUME NEW g, NEW q, NEW b, NEW r, NEW d, OnlyOf(g, q, b, r, d)
  PROVE  /\ Held(q, b) \in Nat /\ Held(r, d) \in Nat
         /\ Len(q[g]) \in Nat /\ Len(b[g]) \in Nat /\ Len(r[g]) \in Nat /\ Len(d[g]) \in Nat
         /\ Moved(g, q, b, r, d)
<1> DEFINE x == [h \in States |-> Len(q[h]) + Len(b[h])]
           y == [h \in States |-> Len(r[h]) + Len(d[h])]
<1>1. MaxStates \in Nat /\ g \in 1..MaxStates /\ Numbers(x, MaxStates) /\ Numbers(y, MaxStates)
  BY BoundsAssumption, HeldType DEF States, OnlyOf
<1>2. \A k \in (1..MaxStates) \ {g} : x[k] = y[k]
  BY DEF States, OnlyOf
<1>3. x[g] = Len(q[g]) + Len(b[g]) /\ y[g] = Len(r[g]) + Len(d[g])
  BY DEF OnlyOf
<1> HIDE DEF x, y
<1>4. SumTo(x, MaxStates) + y[g] = SumTo(y, MaxStates) + x[g]
  BY <1>1, <1>2, SumReplaced
<1>5. Held(q, b) = SumTo(x, MaxStates) /\ Held(r, d) = SumTo(y, MaxStates)
  BY DEF Held, x, y
<1>6. Held(q, b) \in Nat /\ Held(r, d) \in Nat
  BY HeldType DEF OnlyOf
<1>7. Len(q[g]) \in Nat /\ Len(b[g]) \in Nat /\ Len(r[g]) \in Nat /\ Len(d[g]) \in Nat
  BY LenProperties DEF OnlyOf
<1> QED
  BY <1>3, <1>4, <1>5, <1>6, <1>7 DEF Moved

\* Nothing is held when all queues and batches are empty.
LEMMA HeldNothing ==
  ASSUME NEW q, NEW b, \A g \in States : q[g] = <<>> /\ b[g] = <<>>
  PROVE  Held(q, b) = 0
<1> DEFINE x == [g \in States |-> Len(q[g]) + Len(b[g])]
           S == {m \in Nat : m <= MaxStates => SumTo(x, m) = 0}
<1>0. \A g \in States : Len(q[g]) = 0 /\ Len(b[g]) = 0
  OBVIOUS
<1>1. MaxStates \in Nat /\ \A k \in 1..MaxStates : x[k] = 0
  <2>1. \A k \in States : x[k] = 0 + 0
    BY <1>0
  <2> HIDE DEF x
  <2> QED
    BY <2>1, BoundsAssumption DEF States
<1> HIDE DEF x
<1>2. 0 \in S
  BY SumNothing
<1>3. ASSUME NEW m \in Nat, m \in S PROVE m + 1 \in S
  <2>1. SUFFICES ASSUME m + 1 <= MaxStates PROVE SumTo(x, m + 1) = 0
    OBVIOUS
  <2>2. SumTo(x, m) = 0 /\ x[m + 1] = 0 /\ Numbers(x, m + 1)
    BY <1>1, <1>3, <2>1 DEF Numbers
  <2>3. SumTo(x, m + 1) = SumTo(x, m) + x[m + 1]
    BY <2>2, SumStep
  <2> QED
    BY <2>2, <2>3
<1>4. \A m \in Nat : m \in S
  <2> HIDE DEF S
  <2> QED
    BY <1>2, <1>3, AllNumbers
<1>5. SumTo(x, MaxStates) = 0
  BY <1>1, <1>4
<1> QED
  BY <1>5 DEF Held, x

\* What a counter becomes is a number.
LEMMA Totals ==
  ASSUME NEW a \in Nat, NEW b \in Nat, NEW c \in Nat
  PROVE  a + b \in Nat /\ a + b + c \in Nat
  OBVIOUS

\* The counters are numbers.
LEMMA CountersFacts ==
  ASSUME TypeOK
  PROVE  /\ total.enqueued \in Nat /\ total.processed \in Nat /\ total.dropped \in Nat
         /\ total.rejected \in Nat /\ total.coalesced \in Nat /\ total.errors \in Nat
         /\ Held(queue, batch) \in Nat
  BY HeldType DEF TypeOK, Counters

----------------------------------------------------------------------------
(* The steps *)

\* Steps that leave the frames alone.
LEMMA FramesAlone ==
  ASSUME IngressInv, UNCHANGED <<queue, bytes, batch, total, shed>>
  PROVE  Queues' /\ Booked' /\ NoPriorityInversion'
  BY DEF IngressInv, Queues, Booked, NoPriorityInversion, Held

\* A queue that loses frames keeps nothing that what was given up outranks.
LEMMA FewerFrames ==
  ASSUME IngressInv, shed' = shed,
         \A g \in States : \A j \in 1..Len(queue'[g]) :
           \E k \in 1..Len(queue[g]) : queue'[g][j] = queue[g][k]
  PROVE  NoPriorityInversion'
<1>1. SUFFICES ASSUME NEW s \in shed, NEW i \in 1..Len(queue'[s.state])
               PROVE  s.prio <= queue'[s.state][i].prio
  BY DEF NoPriorityInversion
<1>2. s.state \in States
  BY DEF IngressInv, TypeOK
<1>3. PICK k \in 1..Len(queue[s.state]) : queue'[s.state][i] = queue[s.state][k]
  BY <1>1, <1>2
<1> QED
  BY <1>3 DEF IngressInv, NoPriorityInversion

\* A call passes the test of _stop_sniffing_event.
LEMMA EnterStep == ASSUME IngressInv, NEW p \in Producers, Enter(p) PROVE IngressInv'
<1>1. UNCHANGED <<queue, bytes, batch, total, shed, wpc, made, mine>>
  BY DEF Enter, states
<1>2. TypeOK'
  BY DEF Enter, states, IngressInv, TypeOK
<1>3. Unmade' /\ Chosen'
  BY <1>1 DEF Enter, IngressInv, TypeOK, Unmade, Chosen
<1> QED
  BY <1>1, <1>2, <1>3, FramesAlone DEF IngressInv

\* A call gets its state: a new one had no worker, so no batch.
LEMMA EnsureStep == ASSUME IngressInv, NEW p \in Producers, Ensure(p) PROVE IngressInv'
<1>1. UNCHANGED <<queue, bytes, batch, total, shed>>
  BY DEF Ensure
<1>2. MaxStates \in Nat /\ made \in Nat /\ made <= MaxStates /\ reg \in 0..MaxStates
  BY BoundsAssumption DEF IngressInv, TypeOK
<1>3. CASE reg # 0 /\ Alive(reg)
  <2>1. mine' = [mine EXCEPT ![p] = reg] /\ UNCHANGED <<reg, made, wpc>> /\ reg \in States
    BY <1>2, <1>3 DEF Ensure, States
  <2>2. TypeOK'
    BY <2>1 DEF Ensure, IngressInv, TypeOK
  <2>3. Unmade' /\ Chosen'
    BY <2>1 DEF Ensure, IngressInv, TypeOK, Unmade, Chosen
  <2> QED
    BY <1>1, <2>2, <2>3, FramesAlone DEF IngressInv
<1>4. CASE ~(reg # 0 /\ Alive(reg))
  <2> DEFINE m == made + 1
  <2>1. /\ made' = m /\ reg' = m /\ mine' = [mine EXCEPT ![p] = m]
        /\ wpc' = [wpc EXCEPT ![m] = "top"] /\ made < MaxStates
    BY <1>4 DEF Ensure
  <2>2. m \in States /\ m \in 0..MaxStates /\ m > made
    BY <1>2, <2>1 DEF States
  <2>3. wpc[m] = "none" /\ batch[m] = <<>>
    BY <2>2 DEF IngressInv, Unmade, TypeOK
  <2>4. \A g \in States : g > m => g # m /\ g > made
    BY <1>2 DEF States
  <2> HIDE DEF m
  <2>5. TypeOK'
    <3>1. \A g \in States : wpc'[g] = "busy" <=> batch'[g] # <<>>
      BY <1>1, <2>1, <2>2, <2>3 DEF IngressInv, TypeOK
    <3> QED
      BY <2>1, <2>2, <3>1 DEF Ensure, IngressInv, TypeOK
  <2>6. Unmade'
    BY <2>1, <2>2, <2>4 DEF IngressInv, TypeOK, Unmade
  <2>7. Chosen'
    BY <2>1, <2>2 DEF Ensure, IngressInv, TypeOK, Chosen
  <2> QED
    BY <1>1, <2>5, <2>6, <2>7, FramesAlone DEF IngressInv
<1> QED
  BY <1>3, <1>4

\* A frame too large for any queue is counted twice, as rejected and as dropped.
LEMMA PutTooLargeStep ==
  ASSUME IngressInv, NEW p \in Producers, NEW f \in Frames, PutTooLarge(p, f)
  PROVE  IngressInv'
<1>1. /\ UNCHANGED <<queue, bytes, batch, shed, wpc, made, mine>>
      /\ total' = [total EXCEPT !.dropped = @ + 1, !.rejected = @ + 1]
  BY DEF PutTooLarge, states
<1>2. total \in [Counters -> Nat] /\ TypeOK
  BY DEF IngressInv, TypeOK
<1>3. /\ total'.dropped = total.dropped + 1 /\ total'.rejected = total.rejected + 1
      /\ total'.enqueued = total.enqueued /\ total'.processed = total.processed
      /\ total'.errors = total.errors /\ total'.coalesced = total.coalesced
  BY <1>1, <1>2 DEF Counters
<1>31. total' \in [Counters -> Nat]
  <2>1. \A k \in Counters : total[k] \in Nat
    BY <1>2
  <2>2. \A k \in Counters : total'[k] \in Nat
    BY <1>3, <2>1 DEF Counters
  <2>3. total' = [k \in Counters |-> total'[k]]
    BY <1>1, <1>2
  <2> QED
    BY <2>2, <2>3
<1>4. TypeOK'
  BY <1>1, <1>31 DEF PutTooLarge, states, IngressInv, TypeOK
<1>5. Unmade' /\ Chosen'
  BY <1>1 DEF PutTooLarge, IngressInv, TypeOK, Unmade, Chosen
<1>6. Queues' /\ NoPriorityInversion'
  BY <1>1 DEF IngressInv, Queues, NoPriorityInversion
<1>7. Booked'
  <2>1. Held(queue, batch)' = Held(queue, batch)
    BY <1>1 DEF Held
  <2>2. /\ total.enqueued \in Nat /\ total.processed \in Nat /\ total.dropped \in Nat
        /\ total.rejected \in Nat /\ total.coalesced \in Nat /\ total.errors \in Nat
        /\ Held(queue, batch) \in Nat
    BY <1>2, CountersFacts
  <2>3. Booked
    BY DEF IngressInv
  <2> QED
    BY <1>3, <2>1, <2>2, <2>3 DEF Booked
<1> QED
  BY <1>4, <1>5, <1>6, <1>7 DEF IngressInv

\* The ledger of a call: k frames enter and l leave, one way or another.
LEMMA Ledger ==
  ASSUME NEW en \in Nat, NEW re \in Nat, NEW pr \in Nat, NEW er \in Nat, NEW co \in Nat,
         NEW dr \in Nat, NEW h \in Nat, en + re = pr + er + co + dr + h,
         NEW h2 \in Nat, NEW x \in Nat, NEW y \in Nat, NEW w \in Nat, h + (y + w) = h2 + (x + w),
         NEW n \in Nat, NEW o \in Nat
  PROVE  /\ x + 1 = y + n + o => (en + 1) + (re + 0) = pr + er + (co + n) + (dr + o + 0) + h2
         /\ x + 0 = y + n + o => (en + 0) + (re + 1) = pr + er + (co + n) + (dr + o + 1) + h2
OBVIOUS

\* A call coalesces, makes room, and appends its frame or gives it up.
LEMMA PutStep ==
  ASSUME IngressInv, NEW p \in Producers, NEW f \in Frames, Put(p, f)
  PROVE  IngressInv'
<1> DEFINE g == mine[p]
           c == Coalesced(queue[g], bytes[g], f)
           e == Evicted(c.q, c.b, f)
           full == Pressed(e.q, e.b, f)
           q2 == IF full THEN e.q ELSE Append(e.q, f)
           b2 == IF full THEN e.b ELSE e.b + f.size
           lost == Range(e.out) \cup (IF full THEN {f.prio} ELSE {})
<1>1. /\ ppc[p] = "put" /\ ppc' = [ppc EXCEPT ![p] = "idle"]
      /\ UNCHANGED <<sniffStop, reg, made, halted, wpc, batch, mine, router, joined>>
  BY DEF Put
<1>2. queue' = [queue EXCEPT ![g] = q2]
  BY DEF Put
<1>3. bytes' = [bytes EXCEPT ![g] = b2]
  BY DEF Put
<1>4. total' = [total EXCEPT
                  !.enqueued = @ + IF full THEN 0 ELSE 1,
                  !.rejected = @ + IF full THEN 1 ELSE 0,
                  !.coalesced = @ + c.n,
                  !.dropped = @ + Len(e.out) + IF full THEN 1 ELSE 0]
  BY DEF Put
<1>5. shed' = {[state |-> g, prio |-> n] : n \in lost}
  BY DEF Put
<1>6. /\ g \in States /\ queue[g] \in Seq(Frames)
      /\ bytes[g] = SizeOf(queue[g]) /\ QueueLimits(queue[g])
  BY <1>1 DEF IngressInv, TypeOK, Chosen, Queues
<1>7. /\ q2 \in Seq(Frames) /\ b2 = SizeOf(q2) /\ QueueLimits(q2)
      /\ c.n \in Nat /\ Len(e.out) \in Nat
      /\ Len(queue[g]) + (IF full THEN 0 ELSE 1) = Len(q2) + c.n + Len(e.out)
      /\ lost \subseteq 1..3
      /\ \A n \in lost : \A i \in 1..Len(q2) : n <= q2[i].prio
  BY <1>6, PutFacts
<1> DEFINE cn == c.n
           out == Len(e.out)
<1>8. total' = [total EXCEPT
                  !.enqueued = @ + IF full THEN 0 ELSE 1,
                  !.rejected = @ + IF full THEN 1 ELSE 0,
                  !.coalesced = @ + cn,
                  !.dropped = @ + out + IF full THEN 1 ELSE 0]
  BY <1>4
<1>9. cn \in Nat /\ out \in Nat /\ Len(queue[g]) + (IF full THEN 0 ELSE 1) = Len(q2) + cn + out
  BY <1>7
<1> HIDE DEF g, c, e, full, q2, b2, lost, cn, out
<1>10. total \in [Counters -> Nat] /\ TypeOK /\ full \in BOOLEAN
  BY DEF IngressInv, TypeOK, full, Pressed
<1>11. /\ total'.enqueued = total.enqueued + (IF full THEN 0 ELSE 1)
       /\ total'.rejected = total.rejected + (IF full THEN 1 ELSE 0)
       /\ total'.coalesced = total.coalesced + cn
       /\ total'.dropped = total.dropped + out + (IF full THEN 1 ELSE 0)
       /\ total'.processed = total.processed /\ total'.errors = total.errors
  BY <1>8, <1>10 DEF Counters
<1>12. total' \in [Counters -> Nat]
  <2>1. /\ total.enqueued \in Nat /\ total.processed \in Nat /\ total.dropped \in Nat
        /\ total.rejected \in Nat /\ total.coalesced \in Nat /\ total.errors \in Nat
    BY <1>10, CountersFacts
  <2> DEFINE taken == IF full THEN 0 ELSE 1
             given == IF full THEN 1 ELSE 0
  <2>2. taken \in Nat /\ given \in Nat
    OBVIOUS
  <2>3. /\ total'.enqueued = total.enqueued + taken
        /\ total'.rejected = total.rejected + given
        /\ total'.dropped = total.dropped + out + given
    BY <1>11
  <2> HIDE DEF taken, given
  <2>4. total'.enqueued \in Nat
    BY <2>1, <2>2, <2>3, Totals
  <2>5. total'.rejected \in Nat
    BY <2>1, <2>2, <2>3, Totals
  <2>6. total'.dropped \in Nat
    BY <1>9, <2>1, <2>2, <2>3, Totals
  <2>7. total'.coalesced \in Nat
    BY <1>9, <1>11, <2>1, Totals
  <2>8. total'.processed \in Nat /\ total'.errors \in Nat
    BY <1>11, <2>1
  <2>9. ASSUME NEW k \in Counters PROVE total'[k] \in Nat
    BY <2>4, <2>5, <2>6, <2>7, <2>8 DEF Counters
  <2>10. total' = [k \in Counters |-> total'[k]]
    BY <1>8, <1>10
  <2> QED
    BY <2>9, <2>10
<1>13. b2 \in Nat
  BY <1>7, QueueNumbers
<1>14. shed' \subseteq [state : States, prio : 1..3]
  BY <1>5, <1>6, <1>7
<1>15. queue' \in [States -> Seq(Frames)] /\ bytes' \in [States -> Nat]
  BY <1>2, <1>3, <1>7, <1>10, <1>13 DEF TypeOK
<1>16. TypeOK'
  BY <1>1, <1>10, <1>12, <1>14, <1>15 DEF TypeOK
<1>17. Unmade' /\ Chosen'
  BY <1>1, <1>10 DEF IngressInv, TypeOK, Unmade, Chosen
<1>18. queue'[g] = q2 /\ bytes'[g] = b2
  BY <1>2, <1>3, <1>6, <1>10 DEF TypeOK
<1>19. \A h \in States \ {g} : queue'[h] = queue[h] /\ bytes'[h] = bytes[h] /\ batch'[h] = batch[h]
  BY <1>1, <1>2, <1>3, <1>10 DEF TypeOK
<1>20. Queues'
  BY <1>7, <1>18, <1>19 DEF IngressInv, Queues
<1>21. NoPriorityInversion'
  <2>1. SUFFICES ASSUME NEW s \in shed', NEW i \in 1..Len(queue'[s.state])
                 PROVE  s.prio <= queue'[s.state][i].prio
    BY DEF NoPriorityInversion
  <2>2. PICK n \in lost : s = [state |-> g, prio |-> n]
    BY <1>5
  <2>3. s.state = g /\ s.prio = n
    BY <2>2
  <2> QED
    BY <1>7, <1>18, <2>3
<1>22. Booked'
  <2>1. /\ Held(queue, batch) \in Nat /\ Held(queue', batch') \in Nat
        /\ Len(queue[g]) \in Nat /\ Len(batch[g]) \in Nat /\ Len(queue'[g]) \in Nat
        /\ Held(queue, batch) + (Len(queue'[g]) + Len(batch'[g]))
             = Held(queue', batch') + (Len(queue[g]) + Len(batch[g]))
    <3>1. batch \in [States -> Seq(Frames)] /\ batch' \in [States -> Seq(Frames)]
          /\ queue \in [States -> Seq(Frames)]
      BY <1>1, <1>10 DEF TypeOK
    <3>2. queue' \in [States -> Seq(Frames)] /\ g \in States
      BY <1>6, <1>15
    <3>3. \A h \in States \ {g} : queue'[h] = queue[h] /\ batch'[h] = batch[h]
      BY <1>19
    <3>4. OnlyOf(g, queue, batch, queue', batch')
      BY <3>1, <3>2, <3>3 DEF OnlyOf
    <3>5. Moved(g, queue, batch, queue', batch')
      BY <3>4, HeldMoves
    <3>6. /\ Held(queue, batch) \in Nat /\ Held(queue', batch') \in Nat
          /\ Len(queue[g]) \in Nat /\ Len(batch[g]) \in Nat /\ Len(queue'[g]) \in Nat
      BY <3>4, HeldMoves
    <3> QED
      BY <3>5, <3>6 DEF Moved
  <2>2. /\ total.enqueued \in Nat /\ total.processed \in Nat /\ total.dropped \in Nat
        /\ total.rejected \in Nat /\ total.coalesced \in Nat /\ total.errors \in Nat
    BY <1>10, CountersFacts
  <2>3. Booked
    BY DEF IngressInv
  <2> DEFINE h == Held(queue, batch)
             k == Held(queue', batch')
             x == Len(queue[g])
             y == Len(q2)
             w == Len(batch[g])
  <2>4. h \in Nat /\ k \in Nat /\ x \in Nat /\ y \in Nat /\ w \in Nat /\ h + (y + w) = k + (x + w)
    BY <1>1, <1>18, <2>1
  <2>5. total.enqueued + total.rejected =
          total.processed + total.errors + total.coalesced + total.dropped + h
    BY <2>3 DEF Booked
  <2>6. x + (IF full THEN 0 ELSE 1) = y + cn + out
    BY <1>9
  <2> HIDE DEF h, k, x, y, w
  <2> DEFINE en == total.enqueued
             re == total.rejected
             pr == total.processed
             er == total.errors
             co == total.coalesced
             dr == total.dropped
  <2>7. /\ en \in Nat /\ re \in Nat /\ pr \in Nat /\ er \in Nat /\ co \in Nat /\ dr \in Nat
        /\ en + re = pr + er + co + dr + h
    BY <2>2, <2>5
  <2> HIDE DEF en, re, pr, er, co, dr
  <2>71. ASSUME full PROVE total'.enqueued + total'.rejected =
           total'.processed + total'.errors + total'.coalesced + total'.dropped + k
    <3>1. x + 0 = y + cn + out
      BY <2>6, <2>71
    <3>2. (en + 0) + (re + 1) = pr + er + (co + cn) + (dr + out + 1) + k
      BY <1>9, <2>4, <2>7, <3>1, Ledger
    <3>3. /\ total'.enqueued = en + 0 /\ total'.rejected = re + 1
          /\ total'.coalesced = co + cn /\ total'.dropped = dr + out + 1
          /\ total'.processed = pr /\ total'.errors = er
      BY <1>11, <2>71 DEF en, re, pr, er, co, dr
    <3> QED
      BY <3>2, <3>3
  <2>72. ASSUME ~full PROVE total'.enqueued + total'.rejected =
           total'.processed + total'.errors + total'.coalesced + total'.dropped + k
    <3>1. x + 1 = y + cn + out
      BY <2>6, <2>72
    <3>2. (en + 1) + (re + 0) = pr + er + (co + cn) + (dr + out + 0) + k
      BY <1>9, <2>4, <2>7, <3>1, Ledger
    <3>3. /\ total'.enqueued = en + 1 /\ total'.rejected = re + 0
          /\ total'.coalesced = co + cn /\ total'.dropped = dr + out + 0
          /\ total'.processed = pr /\ total'.errors = er
      BY <1>11, <2>72 DEF en, re, pr, er, co, dr
    <3> QED
      BY <3>2, <3>3
  <2>8. Held(queue, batch)' = k
    BY DEF Held, k
  <2> QED
    BY <2>71, <2>72, <2>8 DEF Booked
<1> QED
  BY <1>16, <1>17, <1>20, <1>21, <1>22 DEF IngressInv

\* A worker goes to its wait or ends.
LEMMA WorkerTopStep ==
  ASSUME IngressInv, NEW g \in States, WorkerTop(g) \/ WorkerQuit(g)
  PROVE  IngressInv'
<1>1. /\ UNCHANGED <<queue, bytes, batch, total, shed, made, mine, ppc>>
      /\ wpc[g] \in {"top", "wait"}
      /\ \E to \in {"dead", "wait"} : wpc' = [wpc EXCEPT ![g] = to]
  BY DEF WorkerTop, WorkerQuit
<1>2. \A h \in States : wpc'[h] = "busy" <=> wpc[h] = "busy"
  BY <1>1 DEF IngressInv, TypeOK
<1>3. TypeOK'
  BY <1>1, <1>2 DEF WorkerTop, WorkerQuit, IngressInv, TypeOK
<1>4. Unmade' /\ Chosen'
  BY <1>1 DEF IngressInv, TypeOK, Unmade, Chosen
<1> QED
  BY <1>1, <1>3, <1>4, FramesAlone DEF IngressInv

\* A worker takes a batch: the frames are still held.
LEMMA WorkerTakeStep ==
  ASSUME IngressInv, NEW g \in States, WorkerTake(g)
  PROVE  IngressInv'
<1> DEFINE q == queue[g]
           n == IF Len(q) < BatchSize THEN Len(q) ELSE BatchSize
           a == SubSeq(q, 1, n)
           b == SubSeq(q, n + 1, Len(q))
<1>1. /\ wpc[g] = "wait" /\ q # <<>> /\ wpc' = [wpc EXCEPT ![g] = "busy"]
      /\ UNCHANGED <<sniffStop, reg, made, halted, ppc, mine, router, joined, total, shed>>
  BY DEF WorkerTake
<1>2. batch' = [batch EXCEPT ![g] = a]
  BY DEF WorkerTake
<1>3. queue' = [queue EXCEPT ![g] = b]
  BY DEF WorkerTake
<1>4. bytes' = [bytes EXCEPT ![g] = bytes[g] - SizeOf(a)]
  BY DEF WorkerTake
<1>5. TypeOK /\ q \in Seq(Frames) /\ bytes[g] = SizeOf(q) /\ QueueLimits(q) /\ batch[g] = <<>>
  BY <1>1 DEF IngressInv, TypeOK, Queues
<1> HIDE DEF q
<1>6. n \in 0..Len(q) /\ n # 0
  <2>1. Len(q) \in Nat /\ Len(q) # 0
    BY <1>1, <1>5, LenProperties, EmptySeq
  <2> QED
    BY <2>1, BoundsAssumption
<1> HIDE DEF n
<1>7. /\ a \in Seq(Frames) /\ Len(a) = n
      /\ Left(b, q) /\ Len(a) + Len(b) = Len(q) /\ SizeOf(b) = SizeOf(q) - SizeOf(a)
  BY <1>5, <1>6, TakeFacts
<1> HIDE DEF a, b
<1>8. b \in Seq(Frames) /\ QueueLimits(b) /\ SizeOf(b) \in Nat
  BY <1>5, <1>7, LeftKeepsLimits, QueueNumbers DEF Left
<1>9. /\ queue'[g] = b /\ bytes'[g] = SizeOf(b) /\ batch'[g] = a /\ wpc'[g] = "busy"
      /\ \A h \in States \ {g} : /\ queue'[h] = queue[h] /\ bytes'[h] = bytes[h]
                                 /\ batch'[h] = batch[h] /\ wpc'[h] = wpc[h]
  BY <1>1, <1>2, <1>3, <1>4, <1>5, <1>7 DEF TypeOK
<1>10. a # <<>>
  BY <1>6, <1>7, EmptySeq
<1>11. /\ queue' \in [States -> Seq(Frames)] /\ bytes' \in [States -> Nat]
       /\ batch' \in [States -> Seq(Frames)]
  <2>1. bytes' = [bytes EXCEPT ![g] = SizeOf(b)]
    BY <1>4, <1>5, <1>7
  <2> QED
    BY <1>2, <1>3, <1>5, <1>7, <1>8, <2>1 DEF TypeOK
<1>12. \A h \in States : wpc'[h] = "busy" <=> batch'[h] # <<>>
  BY <1>5, <1>9, <1>10 DEF TypeOK
<1>13. TypeOK'
  BY <1>1, <1>5, <1>11, <1>12 DEF TypeOK
<1>14. Unmade' /\ Chosen'
  BY <1>1, <1>5 DEF IngressInv, TypeOK, Unmade, Chosen
<1>15. Queues'
  BY <1>8, <1>9 DEF IngressInv, Queues
<1>16. NoPriorityInversion'
  <2>1. ASSUME NEW h \in States, NEW j \in 1..Len(queue'[h])
        PROVE  \E k \in 1..Len(queue[h]) : queue'[h][j] = queue[h][k]
    <3>1. CASE h = g
      <4>1. \A i \in 1..Len(b) : \E k \in 1..Len(q) : b[i] = q[k]
        BY <1>7 DEF Left
      <4> QED
        BY <1>9, <2>1, <3>1, <4>1 DEF q
    <3>2. CASE h # g
      <4>1. queue'[h] = queue[h]
        BY <1>9, <3>2
      <4> QED
        BY <2>1, <4>1
    <3> QED
      BY <3>1, <3>2
  <2> QED
    BY <1>1, <2>1, FewerFrames
<1>17. Booked'
  <2>1. OnlyOf(g, queue, batch, queue', batch')
    BY <1>5, <1>9, <1>11 DEF OnlyOf, TypeOK
  <2>2. Moved(g, queue, batch, queue', batch')
    BY <2>1, HeldMoves
  <2>3. Held(queue, batch) \in Nat /\ Held(queue', batch') \in Nat
    BY <2>1, HeldMoves
  <2>4. Len(a) \in Nat /\ Len(b) \in Nat /\ Len(q) \in Nat /\ Len(batch[g]) = 0
    BY <1>5, <1>7, <1>8, LenProperties, EmptySeq
  <2>5. Held(queue, batch) + (Len(b) + Len(a)) = Held(queue', batch') + (Len(q) + 0)
    BY <1>9, <2>2, <2>4 DEF Moved, q
  <2>6. Held(queue', batch') = Held(queue, batch)
    BY <1>7, <2>3, <2>4, <2>5
  <2> QED
    BY <1>1, <2>6 DEF IngressInv, Booked
<1> QED
  BY <1>13, <1>14, <1>15, <1>16, <1>17 DEF IngressInv

\* One of the counters.
LEMMA Counted ==
  ASSUME total \in [Counters -> Nat], NEW c \in Counters, NEW n \in Nat,
         total' = [total EXCEPT ![c] = @ + n]
  PROVE  /\ total' \in [Counters -> Nat] /\ total'[c] = total[c] + n
         /\ \A d \in Counters \ {c} : total'[d] = total[d]
<1>1. total[c] + n \in Nat
  OBVIOUS
<1> QED
  BY <1>1

\* A worker finishes a frame.
LEMMA WorkerProcessStep ==
  ASSUME IngressInv, NEW g \in States, WorkerProcess(g)
  PROVE  IngressInv'
<1> DEFINE b == batch[g]
<1>1. /\ wpc[g] = "busy" /\ batch' = [batch EXCEPT ![g] = Tail(b)]
      /\ wpc' = [wpc EXCEPT ![g] = IF Len(b) = 1 THEN "top" ELSE "busy"]
      /\ UNCHANGED <<sniffStop, reg, made, queue, bytes, halted, ppc, mine, router, joined, shed>>
  BY DEF WorkerProcess
<1>2. PICK c \in {"processed", "errors"} : total' = [total EXCEPT ![c] = @ + 1]
  BY DEF WorkerProcess
<1>3. TypeOK /\ b \in Seq(Frames) /\ b # <<>> /\ total \in [Counters -> Nat]
  BY <1>1 DEF IngressInv, TypeOK
<1> HIDE DEF b
<1>4. Len(b) \in Nat /\ Len(b) # 0
  BY <1>3, LenProperties, EmptySeq
<1>5. Tail(b) \in Seq(Frames) /\ Len(Tail(b)) = Len(b) - 1
  BY <1>3, HeadTailProperties
<1>6. Tail(b) = <<>> <=> Len(b) = 1
  <2> DEFINE t == Tail(b)
  <2>1. t \in Seq(Frames) /\ Len(t) = Len(b) - 1
    BY <1>5
  <2> HIDE DEF t
  <2>2. t = <<>> <=> Len(t) = 0
    BY <2>1, EmptySeq
  <2>3. Len(t) = 0 <=> Len(b) = 1
    BY <1>4, <2>1
  <2> QED
    BY <2>2, <2>3 DEF t
<1>7. /\ batch'[g] = Tail(b) /\ wpc'[g] = IF Len(b) = 1 THEN "top" ELSE "busy"
      /\ \A h \in States \ {g} : batch'[h] = batch[h] /\ wpc'[h] = wpc[h]
  BY <1>1, <1>3 DEF TypeOK
<1>8. \A h \in States : wpc'[h] = "busy" <=> batch'[h] # <<>>
  BY <1>3, <1>6, <1>7 DEF TypeOK
<1>9. /\ total' \in [Counters -> Nat] /\ total'[c] = total[c] + 1
      /\ \A d \in Counters \ {c} : total'[d] = total[d]
  <2>1. c \in Counters /\ 1 \in Nat
    BY DEF Counters
  <2> QED
    BY <1>2, <1>3, <2>1, Counted
<1>10. batch' \in [States -> Seq(Frames)]
  BY <1>1, <1>3, <1>5 DEF TypeOK
<1>11. wpc' \in [States -> {"none", "top", "wait", "busy", "dead"}]
  BY <1>1, <1>3 DEF TypeOK
<1>12. TypeOK'
  BY <1>1, <1>3, <1>8, <1>9, <1>10, <1>11 DEF TypeOK
<1>13. Unmade' /\ Chosen'
  BY <1>1, <1>3 DEF IngressInv, TypeOK, Unmade, Chosen
<1>14. Queues' /\ NoPriorityInversion'
  BY <1>1 DEF IngressInv, Queues, NoPriorityInversion
<1>15. Booked'
  <2>1. OnlyOf(g, queue, batch, queue', batch')
    BY <1>1, <1>3, <1>7, <1>10 DEF OnlyOf, TypeOK
  <2>2. Moved(g, queue, batch, queue', batch')
    BY <2>1, HeldMoves
  <2>3. Held(queue, batch) \in Nat /\ Held(queue', batch') \in Nat /\ Len(queue[g]) \in Nat
    BY <2>1, HeldMoves
  <2>4. Held(queue, batch) + (Len(queue[g]) + (Len(b) - 1)) =
          Held(queue', batch') + (Len(queue[g]) + Len(b))
    BY <1>1, <1>5, <1>7, <2>2 DEF Moved, b
  <2>5. Held(queue, batch) = Held(queue', batch') + 1
    BY <1>4, <2>3, <2>4
  <2>6. /\ total.enqueued \in Nat /\ total.processed \in Nat /\ total.dropped \in Nat
        /\ total.rejected \in Nat /\ total.coalesced \in Nat /\ total.errors \in Nat
    BY <1>3, CountersFacts
  <2>7. /\ total'.enqueued = total.enqueued /\ total'.rejected = total.rejected
        /\ total'.coalesced = total.coalesced /\ total'.dropped = total.dropped
        /\ \/ total'.processed = total.processed + 1 /\ total'.errors = total.errors
           \/ total'.processed = total.processed /\ total'.errors = total.errors + 1
    BY <1>9 DEF Counters
  <2>8. Booked
    BY DEF IngressInv
  <2> DEFINE in == total.enqueued + total.rejected
             pr == total.processed
             er == total.errors
             co == total.coalesced
             dr == total.dropped
             h == Held(queue', batch')
  <2>9. /\ in \in Nat /\ pr \in Nat /\ er \in Nat /\ co \in Nat /\ dr \in Nat /\ h \in Nat
        /\ in = pr + er + co + dr + (h + 1)
    BY <2>3, <2>5, <2>6, <2>8 DEF Booked
  <2> HIDE DEF in, pr, er, co, dr, h
  <2>10. in = (pr + 1) + er + co + dr + h /\ in = pr + (er + 1) + co + dr + h
    BY <2>9
  <2>11. total'.enqueued + total'.rejected =
           total'.processed + total'.errors + total'.coalesced + total'.dropped + h
    BY <2>7, <2>10 DEF in, pr, er, co, dr
  <2> QED
    BY <2>11 DEF Booked, h
<1> QED
  BY <1>12, <1>13, <1>14, <1>15 DEF IngressInv

\* stop_routing and start_routing, apart from the queue they discard.
LEMMA RoutingStep ==
  ASSUME IngressInv, StopRouting \/ StartRouting \/ ForgetStates
  PROVE  IngressInv'
<1>1. UNCHANGED <<queue, bytes, batch, total, shed, wpc, made, mine, ppc>>
  BY DEF StopRouting, StartRouting, ForgetStates, states
<1>2. 0 \in 0..MaxStates
  BY BoundsAssumption
<1>3. TypeOK'
  BY <1>1, <1>2 DEF StopRouting, StartRouting, ForgetStates, states, IngressInv, TypeOK
<1>4. Unmade' /\ Chosen'
  BY <1>1 DEF IngressInv, Unmade, Chosen
<1> QED
  BY <1>1, <1>3, <1>4, FramesAlone DEF IngressInv

\* A queue without frames.
LEMMA EmptyQueue ==
  <<>> \in Seq(Frames) /\ Len(<<>>) = 0 /\ SizeOf(<<>>) = 0 /\ QueueLimits(<<>>)
<1>1. <<>> \in Seq(Frames) /\ Len(<<>>) = 0
  BY EmptySeq
<1>2. \A w \in Weights : Weight(<<>>, w) = 0
  BY WeightNothing
<1>3. SizeOf(<<>>) = 0
  BY <1>1, <1>2, SizeIsWeight, TheWeights
<1> QED
  BY <1>1, <1>2, <1>3, TheWeights, BoundsAssumption DEF QueueLimits

\* The discarded queue is counted as dropped.
LEMMA HaltWorkersStep == ASSUME IngressInv, HaltWorkers PROVE IngressInv'
<1>1. UNCHANGED <<sniffStop, reg, made, wpc, batch, ppc, mine, shed>>
  BY DEF HaltWorkers
<1>2. TypeOK /\ reg \in 0..MaxStates /\ MaxStates \in Nat
  BY BoundsAssumption DEF IngressInv, TypeOK
<1>3. Unmade' /\ Chosen'
  BY <1>1 DEF IngressInv, Unmade, Chosen
<1>4. CASE reg = 0
  <2>1. UNCHANGED <<queue, bytes, halted, total, joined>> /\ router' \in {"down", "up"}
    BY <1>4 DEF HaltWorkers
  <2>2. TypeOK'
    BY <1>1, <1>2, <2>1 DEF TypeOK
  <2> QED
    BY <1>1, <1>3, <2>1, <2>2, FramesAlone DEF IngressInv
<1>5. CASE reg # 0
  <2> DEFINE n == Len(queue[reg])
  <2>1. /\ halted' = [halted EXCEPT ![reg] = TRUE]
        /\ queue' = [queue EXCEPT ![reg] = <<>>]
        /\ bytes' = [bytes EXCEPT ![reg] = 0]
        /\ total' = [total EXCEPT !["dropped"] = @ + n]
        /\ joined' = reg /\ UNCHANGED router
    BY <1>5 DEF HaltWorkers
  <2>2. reg \in States /\ n \in Nat
    <3>1. reg \in States
      BY <1>2, <1>5 DEF States
    <3> QED
      BY <1>2, <3>1, LenProperties DEF TypeOK
  <2> HIDE DEF n
  <2>3. /\ total' \in [Counters -> Nat] /\ total'["dropped"] = total["dropped"] + n
        /\ \A d \in Counters \ {"dropped"} : total'[d] = total[d]
    <3>1. "dropped" \in Counters /\ total \in [Counters -> Nat]
      BY <1>2 DEF Counters, TypeOK
    <3> QED
      BY <2>1, <2>2, <3>1, Counted
  <2>4. /\ queue'[reg] = <<>> /\ bytes'[reg] = 0
        /\ \A h \in States \ {reg} : queue'[h] = queue[h] /\ bytes'[h] = bytes[h]
        /\ queue' \in [States -> Seq(Frames)] /\ bytes' \in [States -> Nat]
    BY <1>2, <2>1, <2>2, EmptyQueue DEF TypeOK
  <2>5. TypeOK'
    BY <1>1, <1>2, <2>1, <2>2, <2>3, <2>4 DEF TypeOK
  <2>6. Queues'
    BY <2>4, EmptyQueue DEF IngressInv, Queues
  <2>7. NoPriorityInversion'
    <3>1. ASSUME NEW h \in States, NEW j \in 1..Len(queue'[h])
          PROVE  \E k \in 1..Len(queue[h]) : queue'[h][j] = queue[h][k]
      <4>1. h # reg
        BY <2>4, <3>1, EmptyQueue
      <4>2. queue'[h] = queue[h]
        BY <2>4, <4>1
      <4> QED
        BY <3>1, <4>2
    <3> QED
      BY <1>1, <3>1, FewerFrames
  <2>8. Booked'
    <3>1. OnlyOf(reg, queue, batch, queue', batch')
      BY <1>1, <1>2, <2>2, <2>4 DEF OnlyOf, TypeOK
    <3>2. Moved(reg, queue, batch, queue', batch')
      BY <3>1, HeldMoves
    <3>3. Held(queue, batch) \in Nat /\ Held(queue', batch') \in Nat /\ Len(batch[reg]) \in Nat
      BY <3>1, HeldMoves
    <3>4. Held(queue, batch) + (0 + Len(batch[reg])) = Held(queue', batch') + (n + Len(batch[reg]))
      BY <1>1, <2>4, <3>2, EmptyQueue DEF Moved, n
    <3>5. Held(queue, batch) = Held(queue', batch') + n
      BY <2>2, <3>3, <3>4
    <3>6. /\ total.enqueued \in Nat /\ total.processed \in Nat /\ total.dropped \in Nat
          /\ total.rejected \in Nat /\ total.coalesced \in Nat /\ total.errors \in Nat
      BY <1>2, CountersFacts
    <3>7. /\ total'.enqueued = total.enqueued /\ total'.rejected = total.rejected
          /\ total'.coalesced = total.coalesced /\ total'.dropped = total.dropped + n
          /\ total'.processed = total.processed /\ total'.errors = total.errors
      BY <2>3 DEF Counters
    <3>8. Booked
      BY DEF IngressInv
    <3> QED
      BY <2>2, <3>3, <3>5, <3>6, <3>7, <3>8 DEF Booked
  <2> QED
    BY <1>3, <2>5, <2>6, <2>7, <2>8 DEF IngressInv
<1> QED
  BY <1>4, <1>5

\* The first state.
LEMMA IngressInit == ASSUME Init PROVE IngressInv
<1>1. 0 \in 0..MaxStates /\ 0 \in Nat
  BY BoundsAssumption
<1>2. TypeOK
  BY <1>1, EmptyQueue DEF Init, TypeOK
<1>3. Unmade /\ Chosen /\ Queues /\ NoPriorityInversion
  BY EmptyQueue DEF Init, Unmade, Chosen, Queues, NoPriorityInversion
<1>4. Booked
  <2>1. Held(queue, batch) = 0
    BY HeldNothing DEF Init
  <2>2. /\ total.enqueued = 0 /\ total.processed = 0 /\ total.dropped = 0
        /\ total.rejected = 0 /\ total.coalesced = 0 /\ total.errors = 0
    BY DEF Init, Counters
  <2> QED
    BY <2>1, <2>2 DEF Booked
<1> QED
  BY <1>2, <1>3, <1>4 DEF IngressInv

\* Every step.
LEMMA IngressStep == ASSUME IngressInv, [Next]_vars PROVE IngressInv'
<1>1. ASSUME NEW p \in Producers, Producer(p) PROVE IngressInv'
  BY <1>1, EnterStep, EnsureStep, PutTooLargeStep, PutStep DEF Producer
<1>2. ASSUME NEW g \in States, Worker(g) PROVE IngressInv'
  BY <1>2, WorkerTopStep, WorkerTakeStep, WorkerProcessStep DEF Worker
<1>3. ASSUME UNCHANGED vars PROVE IngressInv'
  <2>1. UNCHANGED <<queue, bytes, batch, total, shed, wpc, made, mine, ppc>>
    BY <1>3 DEF vars
  <2>2. TypeOK' /\ Unmade' /\ Chosen'
    BY <1>3 DEF vars, IngressInv, TypeOK, Unmade, Chosen
  <2> QED
    BY <2>1, <2>2, FramesAlone DEF IngressInv
<1> QED
  BY <1>1, <1>2, <1>3, RoutingStep, HaltWorkersStep DEF Next

\* The ingress queues (enqueue_ingress_packet, _ingress_worker_loop,
\* _stop_ingress_workers): the byte counts and the limits hold, every frame
\* accepted or refused is counted once, and pressure never costs a frame that
\* outranks one left in the queue.
THEOREM IngressCorrect == Spec => [](TypeOK /\ IngressAccounts /\ NoPriorityInversion)
<1>1. Init => IngressInv
  BY IngressInit
<1>2. IngressInv /\ [Next]_vars => IngressInv'
  BY IngressStep
<1> QED
  BY <1>1, <1>2, InvAccounts, PTL DEF Spec

----------------------------------------------------------------------------
(* The leases of DHCPServer *)

\* Two clients with one address: somebody pinned it.
NoSharing ==
  \A c, d \in Clients :
    (c # d /\ leases[c] # None /\ leases[c] = leases[d]) => leases[c] \in pinned

Unpinned == {c \in valid : pins[c] = None}

\* The limit, and what makes counting the live leases meaningful.
WithinLimit == IsFiniteSet(valid) /\ Cardinality(Unpinned) <= MaxLeases

LeaseInv == DhcpTypeOK /\ NoSharing /\ WithinLimit

----------------------------------------------------------------------------
(* Operators of the model *)

\* One client more, or taken out, and subsets, in a count of clients.
LEMMA CountFacts ==
  ASSUME NEW S, IsFiniteSet(S), NEW x
  PROVE  /\ IsFiniteSet(S \cup {x}) /\ IsFiniteSet(S \ {x})
         /\ Cardinality(S \cup {x}) \in Nat /\ Cardinality(S \ {x}) \in Nat
         /\ Cardinality(S) \in Nat
         /\ Cardinality(S \cup {x}) <= Cardinality(S \ {x}) + 1
         /\ \A T \in SUBSET S : IsFiniteSet(T) /\ Cardinality(T) <= Cardinality(S)
                                  /\ Cardinality(T) \in Nat
<1>1. /\ IsFiniteSet(S \cup {x}) /\ IsFiniteSet(S \ {x})
  BY FS_AddElement, FS_RemoveElement
<1>2. /\ Cardinality(S \cup {x}) \in Nat /\ Cardinality(S \ {x}) \in Nat
      /\ Cardinality(S) \in Nat
  BY <1>1, FS_CardinalityType
<1>3. Cardinality(S \cup {x}) <= Cardinality(S \ {x}) + 1
  <2>1. (S \ {x}) \cup {x} = S \cup {x} /\ x \notin S \ {x}
    OBVIOUS
  <2>2. Cardinality((S \ {x}) \cup {x}) = Cardinality(S \ {x}) + 1
    BY <1>1, <2>1, FS_AddElement
  <2> QED
    BY <1>2, <2>1, <2>2
<1>4. ASSUME NEW T \in SUBSET S
      PROVE  IsFiniteSet(T) /\ Cardinality(T) <= Cardinality(S) /\ Cardinality(T) \in Nat
  <2>1. IsFiniteSet(T) /\ Cardinality(T) <= Cardinality(S)
    BY FS_Subset
  <2> QED
    BY <2>1, FS_CardinalityType
<1> QED
  BY <1>1, <1>2, <1>3, <1>4

\* What _assign_ip returns, if anything: the client's pin, the lease it has,
\* or an address of no other client's, on a new lease within the limit.
LEMMA AssignedFacts ==
  ASSUME LeaseInv, NEW c \in Clients, NEW ip \in Addresses \cup {None},
         Assigned(c, ip) # None
  PROVE  /\ Assigned(c, ip) \in Addresses
         /\ \/ pins[c] = Assigned(c, ip) /\ Assigned(c, ip) \in pinned
            \/ pins[c] = None /\ c \in valid /\ leases[c] = Assigned(c, ip)
            \/ /\ pins[c] = None /\ c \notin valid /\ ~LimitReached(c)
               /\ ~InUse(c, Assigned(c, ip)) \/ Assigned(c, ip) \in pinned
<1> DEFINE a == Assigned(c, ip)
<1>1. /\ leases \in [Clients -> Addresses \cup {None}]
      /\ pins \in [Clients -> Addresses \cup {None}]
      /\ Pins \subseteq pinned /\ None \notin Addresses /\ Addresses \subseteq Nat
      /\ Pool \subseteq Addresses /\ valid \subseteq {d \in Clients : leases[d] # None}
      /\ available \subseteq Pool \ (Reserved \cup (Leased(leases) \ pinned))
  BY AddressesAssumption DEF LeaseInv, DhcpTypeOK
<1>2. CASE pins[c] # None
  <2>1. a = pins[c]
    BY <1>2 DEF Assigned, Kept, Renews
  <2>2. pins[c] \in Pins
    BY <1>2 DEF Pins
  <2> QED
    BY <1>1, <1>2, <2>1, <2>2
<1>3. CASE pins[c] = None /\ c \in valid
  <2>1. leases[c] # None /\ a = leases[c]
    BY <1>1, <1>3 DEF Assigned, Kept, Renews
  <2> QED
    BY <1>1, <1>3, <2>1
<1>4. CASE pins[c] = None /\ c \notin valid
  <2>1. /\ ~LimitReached(c)
        /\ \/ Honoured(c, ip) /\ a = ip
           \/ available # {} /\ a = Min(available)
    BY <1>4 DEF Assigned, Kept, Renews
  <2>2. CASE Honoured(c, ip) /\ a = ip
    BY <1>4, <2>1, <2>2 DEF Honoured
  <2>3. CASE available # {} /\ a = Min(available)
    <3>1. a \in available
      BY <1>1, <2>3, MinOf
    <3>2. a \in Addresses /\ a # None /\ (a \notin Leased(leases) \/ a \in pinned)
      BY <1>1, <3>1
    <3>3. InUse(c, a) => a \in Leased(leases)
      BY <3>2 DEF InUse, Leased
    <3> QED
      BY <1>4, <2>1, <3>2, <3>3
  <2> QED
    BY <2>1, <2>2, <2>3
<1> QED
  BY <1>2, <1>3, <1>4

\* The addresses leased after one entry changed.
LEMMA LeasedAfter ==
  ASSUME NEW m \in [Clients -> Addresses \cup {None}], NEW c \in Clients, NEW a
  PROVE  Leased([m EXCEPT ![c] = a]) \subseteq Leased(m) \cup ({a} \ {None})
  BY DEF Leased

----------------------------------------------------------------------------
(* One lease at a time *)

\* An address nobody else has, that is pinned, or that the client had anyway,
\* leaves the leases unshared.
LEMMA GrantKeepsApart ==
  ASSUME LeaseInv, NEW c \in Clients, NEW a \in Addresses, Grant(c, a),
         pinned \subseteq pinned',
         ~InUse(c, a) \/ a \in pinned' \/ leases[c] = a
  PROVE  NoSharing'
<1>1. /\ leases \in [Clients -> Addresses \cup {None}]
      /\ leases' = [leases EXCEPT ![c] = a] /\ a # None
  BY AddressesAssumption DEF LeaseInv, DhcpTypeOK, Grant
<1> SUFFICES ASSUME NEW d \in Clients, NEW e \in Clients, d # e, leases'[d] # None,
                    leases'[d] = leases'[e]
             PROVE  leases'[d] \in pinned'
  BY DEF NoSharing
<1>2. CASE d # c /\ e # c
  BY <1>1, <1>2 DEF LeaseInv, NoSharing
<1>3. CASE d = c \/ e = c
  <2>1. PICK f \in Clients \ {c} : leases[f] = a /\ leases'[d] = a
    BY <1>1, <1>3
  <2>2. InUse(c, a)
    BY <2>1 DEF InUse
  <2>3. leases[c] = a => a \in pinned
    BY <1>1, <2>1 DEF LeaseInv, NoSharing
  <2> QED
    BY <2>1, <2>2, <2>3
<1> QED
  BY <1>2, <1>3

\* An entry less shares nothing.
LEMMA LessKeepsApart ==
  ASSUME LeaseInv, pinned' = pinned,
         \A c \in Clients : leases'[c] \in {None, leases[c]}
  PROVE  NoSharing'
  BY DEF LeaseInv, NoSharing

----------------------------------------------------------------------------
(* The steps *)

\* _assign_ip, whoever calls it.
LEMMA AssignStep ==
  ASSUME LeaseInv, NEW c \in Clients, NEW ip \in Addresses \cup {None}, Assign(c, ip),
         pins' = pins, pinned' = pinned,
         reboot' \in [Clients -> Addresses \cup {None}]
  PROVE  LeaseInv'
<1> DEFINE a == Assigned(c, ip)
<1>1. /\ DhcpTypeOK /\ NoSharing /\ WithinLimit /\ None \notin Addresses
      /\ leases \in [Clients -> Addresses \cup {None}]
      /\ valid \subseteq {d \in Clients : leases[d] # None}
      /\ available \subseteq Pool \ (Reserved \cup (Leased(leases) \ pinned))
      /\ nonPool \subseteq Addresses \ Pool
  BY AddressesAssumption DEF LeaseInv, DhcpTypeOK
<1>2. /\ pins' \in [Clients -> Addresses \cup {None}] /\ Pins' \subseteq pinned'
  BY DEF LeaseInv, DhcpTypeOK, Pins
<1>3. /\ available' = available \/ available' = available \ {a}
      /\ Renews(c) \/ available' = available \ {a}
  BY DEF Assign
<1>4. CASE a = None
  <2>1. /\ leases' = [leases EXCEPT ![c] = None] /\ valid' = valid \ {c}
        /\ nonPool' = nonPool
    BY <1>4 DEF Assign
  <2>2. NoSharing'
    BY <1>1, <2>1, LessKeepsApart
  <2>3. WithinLimit'
    <3>1. IsFiniteSet(valid') /\ Unpinned' \in SUBSET Unpinned /\ IsFiniteSet(Unpinned)
      BY <1>1, <2>1, CountFacts DEF WithinLimit, Unpinned
    <3>2. Cardinality(Unpinned') <= Cardinality(Unpinned)
          /\ Cardinality(Unpinned') \in Nat /\ Cardinality(Unpinned) \in Nat
      BY <3>1, CountFacts
    <3> QED
      BY <1>1, <3>1, <3>2, LimitAssumption DEF WithinLimit
  <2>4. Leased(leases') \subseteq Leased(leases)
    BY <1>1, <2>1, LeasedAfter
  <2>5. DhcpTypeOK'
    BY <1>1, <1>2, <1>3, <2>1, <2>4 DEF DhcpTypeOK, Leased
  <2> QED
    BY <2>2, <2>3, <2>5 DEF LeaseInv
<1>5. CASE a # None
  <2>1. /\ a \in Addresses
        /\ \/ pins[c] = a /\ a \in pinned
           \/ pins[c] = None /\ c \in valid /\ leases[c] = a
           \/ /\ pins[c] = None /\ c \notin valid /\ ~LimitReached(c)
              /\ ~InUse(c, a) \/ a \in pinned
    BY <1>5, AssignedFacts
  <2>2. /\ Grant(c, a) /\ leases' = [leases EXCEPT ![c] = a] /\ valid' = valid \cup {c}
        /\ nonPool' \subseteq nonPool \cup ({a} \ Pool)
    BY <1>5 DEF Assign, Grant
  <2>3. NoSharing'
    BY <2>1, <2>2, GrantKeepsApart
  <2>4. WithinLimit'
    <3>1. IsFiniteSet(valid') /\ Cardinality(valid') <= Cardinality(valid \ {c}) + 1
          /\ Cardinality(valid') \in Nat /\ Cardinality(valid \ {c}) \in Nat
      BY <1>1, <2>2, CountFacts DEF WithinLimit
    <3>2. CASE pins[c] # None \/ c \in valid
      <4>1. Unpinned' = Unpinned
        BY <2>2, <3>2 DEF Unpinned
      <4> QED
        BY <1>1, <3>1, <4>1 DEF WithinLimit
    <3>3. CASE ~LimitReached(c)
      <4>1. Unpinned' \in SUBSET valid'
        BY DEF Unpinned
      <4>2. Cardinality(Unpinned') <= Cardinality(valid') /\ Cardinality(Unpinned') \in Nat
        BY <3>1, <4>1, CountFacts
      <4>3. Cardinality(valid \ {c}) < MaxLeases
        BY <3>1, <3>3, LimitAssumption DEF LimitReached
      <4> QED
        BY <3>1, <4>2, <4>3, LimitAssumption DEF WithinLimit
    <3> QED
      BY <2>1, <3>2, <3>3, <1>5
  <2>5. Leased(leases') \subseteq Leased(leases) \cup {a}
    BY <1>1, <2>2, LeasedAfter
  <2>6. /\ leases' \in [Clients -> Addresses \cup {None}]
        /\ valid' \subseteq {d \in Clients : leases'[d] # None}
    BY <1>1, <1>5, <2>1, <2>2
  <2>7. available' \subseteq Pool \ (Reserved \cup (Leased(leases') \ pinned'))
    <3>1. CASE Renews(c)
      <4>1. leases' = leases
        BY <1>1, <1>5, <2>1, <2>2, <3>1 DEF Renews
      <4> QED
        BY <1>1, <1>3, <4>1
    <3>2. CASE available' = available \ {a}
      BY <1>1, <2>5, <3>2
    <3> QED
      BY <1>3, <3>1, <3>2
  <2>8. DhcpTypeOK'
    BY <1>1, <1>2, <2>1, <2>2, <2>6, <2>7 DEF DhcpTypeOK, Leased
  <2> QED
    BY <2>3, <2>4, <2>8 DEF LeaseInv
<1> QED
  BY <1>4, <1>5

\* The live leases become fewer, or none gets rid of its pin.
LEMMA FewerUnpinned ==
  ASSUME WithinLimit, valid' \subseteq valid, Unpinned' \subseteq Unpinned
  PROVE  WithinLimit'
<1>1. IsFiniteSet(valid') /\ IsFiniteSet(Unpinned)
  BY CountFacts DEF WithinLimit, Unpinned
<1>2. Cardinality(Unpinned') <= Cardinality(Unpinned)
      /\ Cardinality(Unpinned') \in Nat /\ Cardinality(Unpinned) \in Nat
  BY <1>1, CountFacts
<1> QED
  BY <1>1, <1>2, LimitAssumption DEF WithinLimit

\* release_ipv4: the address that returns is nobody else's, or was pinned.
LEMMA ReleaseStep ==
  ASSUME LeaseInv, NEW c \in Clients, Release(c)
  PROVE  LeaseInv'
<1>1. /\ DhcpTypeOK /\ NoSharing /\ WithinLimit /\ None \notin Addresses
      /\ leases \in [Clients -> Addresses \cup {None}]
      /\ pins \in [Clients -> Addresses \cup {None}] /\ Pins \subseteq pinned
      /\ valid \subseteq {d \in Clients : leases[d] # None}
      /\ available \subseteq Pool \ (Reserved \cup (Leased(leases) \ pinned))
      /\ nonPool \subseteq Addresses \ Pool
  BY AddressesAssumption DEF LeaseInv, DhcpTypeOK
<1>2. /\ leases' = [leases EXCEPT ![c] = None] /\ valid' = valid \ {c}
      /\ pins' = [pins EXCEPT ![c] = None] /\ pinned' = pinned
      /\ available' = available \cup ({leases[c]} \cap (Pool \ Reserved))
      /\ nonPool' \subseteq nonPool /\ reboot' = reboot /\ leases[c] # None
  BY DEF Release
<1>3. NoSharing'
  BY <1>1, <1>2, LessKeepsApart
<1>4. WithinLimit'
  <2>1. Unpinned' \subseteq Unpinned
    BY <1>1, <1>2 DEF Unpinned
  <2> QED
    BY <1>1, <1>2, <2>1, FewerUnpinned
<1>5. Leased(leases') \subseteq Leased(leases)
  BY <1>1, <1>2, LeasedAfter
<1>6. leases[c] \in Leased(leases') => leases[c] \in pinned
  <2> SUFFICES ASSUME leases[c] \in Leased(leases') PROVE leases[c] \in pinned
    OBVIOUS
  <2>1. PICK d \in Clients : leases'[d] = leases[c]
    BY DEF Leased
  <2>2. d # c /\ leases[d] = leases[c]
    BY <1>1, <1>2, <2>1
  <2> QED
    BY <1>1, <1>2, <2>2 DEF NoSharing
<1>7. available' \subseteq Pool \ (Reserved \cup (Leased(leases') \ pinned'))
  BY <1>1, <1>2, <1>5, <1>6
<1>8. Pins' \subseteq pinned' /\ pins' \in [Clients -> Addresses \cup {None}]
  BY <1>1, <1>2 DEF Pins
<1>9. /\ leases' \in [Clients -> Addresses \cup {None}]
      /\ valid' \subseteq {d \in Clients : leases'[d] # None}
  BY <1>1, <1>2
<1>10. DhcpTypeOK'
  BY <1>1, <1>2, <1>7, <1>8, <1>9 DEF DhcpTypeOK, Leased
<1> QED
  BY <1>3, <1>4, <1>10 DEF LeaseInv

\* assign_specific_ipv4: what it shares it has pinned, and who is pinned does
\* not count.
LEMMA PinStep ==
  ASSUME LeaseInv, NEW c \in Clients, NEW ip \in Addresses, NEW force \in BOOLEAN,
         Pin(c, ip, force)
  PROVE  LeaseInv'
<1>1. /\ DhcpTypeOK /\ NoSharing /\ WithinLimit /\ None \notin Addresses
      /\ leases \in [Clients -> Addresses \cup {None}]
      /\ pins \in [Clients -> Addresses \cup {None}] /\ Pins \subseteq pinned
      /\ valid \subseteq {d \in Clients : leases[d] # None}
      /\ available \subseteq Pool \ (Reserved \cup (Leased(leases) \ pinned))
      /\ nonPool \subseteq Addresses \ Pool
  BY AddressesAssumption DEF LeaseInv, DhcpTypeOK
<1>2. /\ Grant(c, ip) /\ leases' = [leases EXCEPT ![c] = ip] /\ valid' = valid \cup {c}
      /\ pins' = [pins EXCEPT ![c] = ip] /\ pinned' = pinned \cup {ip}
      /\ available' = available \ {ip} /\ reboot' = reboot
      /\ nonPool' \subseteq nonPool \cup ({ip} \ Pool)
  BY DEF Pin, Grant
<1>3. NoSharing'
  BY <1>2, GrantKeepsApart
<1>4. WithinLimit'
  <2>1. IsFiniteSet(valid') /\ IsFiniteSet(Unpinned) /\ Unpinned' \in SUBSET Unpinned
    <3>1. IsFiniteSet(valid') /\ IsFiniteSet(Unpinned)
      BY <1>1, <1>2, CountFacts DEF WithinLimit, Unpinned
    <3>2. Unpinned' \subseteq Unpinned
      BY <1>1, <1>2 DEF Unpinned
    <3> QED
      BY <3>1, <3>2
  <2>2. Cardinality(Unpinned') <= Cardinality(Unpinned)
        /\ Cardinality(Unpinned') \in Nat /\ Cardinality(Unpinned) \in Nat
    BY <2>1, CountFacts
  <2> QED
    BY <1>1, <2>1, <2>2, LimitAssumption DEF WithinLimit
<1>5. Leased(leases') \subseteq Leased(leases) \cup {ip}
  BY <1>1, <1>2, LeasedAfter
<1>6. available' \subseteq Pool \ (Reserved \cup (Leased(leases') \ pinned'))
  BY <1>1, <1>2, <1>5
<1>7. Pins' \subseteq pinned' /\ pins' \in [Clients -> Addresses \cup {None}]
  BY <1>1, <1>2 DEF Pins
<1>8. /\ leases' \in [Clients -> Addresses \cup {None}]
      /\ valid' \subseteq {d \in Clients : leases'[d] # None}
  BY <1>1, <1>2
<1>9. DhcpTypeOK'
  BY <1>1, <1>2, <1>6, <1>7, <1>8 DEF DhcpTypeOK, Leased
<1> QED
  BY <1>3, <1>4, <1>9 DEF LeaseInv

\* force_reconcile_ipv4_pool and the cleanup thread compute the free addresses
\* anew from leases of which some, never a live one, may have been removed.
LEMMA FreeStep ==
  ASSUME LeaseInv, leases' \in [Clients -> Addresses \cup {None}],
         \A c \in Clients : leases'[c] \in {None, leases[c]},
         \A c \in valid : leases'[c] = leases[c],
         available' = Free(leases'), nonPool' \subseteq nonPool,
         UNCHANGED <<valid, pins, reboot, pinned>>
  PROVE  LeaseInv'
<1>1. NoSharing' /\ WithinLimit'
  BY LessKeepsApart DEF LeaseInv, WithinLimit, Unpinned
<1>2. available' \subseteq Pool \ (Reserved \cup (Leased(leases') \ pinned'))
  BY DEF Free
<1>3. DhcpTypeOK'
  BY <1>2 DEF LeaseInv, DhcpTypeOK, Leased, Pins
<1> QED
  BY <1>1, <1>3 DEF LeaseInv

\* Every step keeps the invariant.
LEMMA LeaseStep == LeaseInv /\ [DhcpNext]_dhcpVars => LeaseInv'
<1> SUFFICES ASSUME LeaseInv, [DhcpNext]_dhcpVars PROVE LeaseInv'
  OBVIOUS
<1>1. /\ leases \in [Clients -> Addresses \cup {None}]
      /\ reboot \in [Clients -> Addresses \cup {None}] /\ None \notin Addresses
      /\ valid \subseteq {d \in Clients : leases[d] # None}
  BY AddressesAssumption DEF LeaseInv, DhcpTypeOK
<1>2. ASSUME NEW c \in Clients, DiscoverOrRequest(c) PROVE LeaseInv'
  <2>1. PICK ip \in Preferred : Assign(c, ip)
    BY <1>2 DEF DiscoverOrRequest
  <2>2. ip \in Addresses \cup {None}
    BY DEF Preferred
  <2> QED
    BY <1>1, <1>2, <2>1, <2>2, AssignStep DEF DiscoverOrRequest
<1>3. ASSUME NEW c \in Clients, RebootAnswered(c) PROVE LeaseInv'
  BY <1>1, <1>3, AssignStep DEF RebootAnswered
<1>4. ASSUME NEW c \in Clients, NEW ip \in Addresses, RebootAsked(c, ip) PROVE LeaseInv'
  BY <1>1, <1>4
     DEF RebootAsked, LeaseInv, DhcpTypeOK, NoSharing, WithinLimit, Unpinned, Leased, Pins
<1>5. ASSUME NEW c \in Clients, Expire(c) PROVE LeaseInv'
  <2>1. Unpinned' \subseteq Unpinned /\ valid' \subseteq valid
    BY <1>5 DEF Expire, Unpinned
  <2>2. WithinLimit'
    BY <2>1, FewerUnpinned DEF LeaseInv
  <2> QED
    BY <1>1, <1>5, <2>2 DEF Expire, LeaseInv, DhcpTypeOK, NoSharing, Leased, Pins
<1>6. ASSUME Reconcile PROVE LeaseInv'
  BY <1>1, <1>6, FreeStep DEF Reconcile, Free
<1>7. ASSUME Cleanup PROVE LeaseInv'
  <2>1. /\ leases' = [c \in Clients |-> IF c \in Expired THEN None ELSE leases[c]]
        /\ available' = Free(leases') /\ nonPool' \subseteq nonPool
        /\ UNCHANGED <<valid, pins, reboot, pinned>>
    BY <1>7 DEF Cleanup
  <2>2. \A c \in valid : leases'[c] = leases[c]
    BY <1>1, <2>1 DEF Expired
  <2> QED
    BY <1>1, <2>1, <2>2, FreeStep
<1>8. ASSUME UNCHANGED dhcpVars PROVE LeaseInv'
  BY <1>8 DEF dhcpVars, LeaseInv, DhcpTypeOK, NoSharing, WithinLimit, Unpinned, Leased, Pins
<1> QED
  BY <1>2, <1>3, <1>4, <1>5, <1>6, <1>7, <1>8, ReleaseStep, PinStep DEF DhcpNext

\* The first state.
LEMMA LeaseInit == DhcpInit => LeaseInv
<1> SUFFICES ASSUME DhcpInit PROVE LeaseInv
  OBVIOUS
<1>1. Unpinned = {} /\ Leased(leases) = {} /\ Pins = {}
  BY DEF DhcpInit, Unpinned, Leased, Pins
<1>2. DhcpTypeOK
  BY <1>1 DEF DhcpInit, DhcpTypeOK
<1>3. NoSharing
  BY DEF DhcpInit, NoSharing
<1>4. WithinLimit
  BY <1>1, FS_EmptySet, LimitAssumption DEF DhcpInit, WithinLimit
<1> QED
  BY <1>2, <1>3, <1>4 DEF LeaseInv

\* The tables of the DHCP server (_assign_ip, release_ipv4,
\* assign_specific_ipv4, force_reconcile_ipv4_pool, _cleanup_leases_loop):
\* they agree, two clients share an address only if it was pinned, and
\* clients without a pin stay within max_leases.
THEOREM LeasesCorrect == DhcpSpec => [](DhcpTypeOK /\ OneHolder)
<1>1. LeaseInv => DhcpTypeOK /\ OneHolder
  BY DEF LeaseInv, NoSharing, WithinLimit, Unpinned, OneHolder
<1> QED
  BY <1>1, LeaseInit, LeaseStep, PTL DEF DhcpSpec
=============================================================================
