------------------------- MODULE PacketBridgeProofs -------------------------
(***************************************************************************)
(* Proofs about PacketBridge for every set of producers, every size of the *)
(* queue and every number of packets and pauses: its types, the balance of *)
(* packet_stats, the one late packet of a pause, and the refinement of the *)
(* lossy channel.                                                          *)
(***************************************************************************)
EXTENDS PacketBridge, SequenceTheorems, FiniteSetTheorems, TLAPS

\* The channel's lemmas, for this channel.
FifoLemmas == INSTANCE LossyFifoProofs WITH
  last <- last, chan <- Taken \o queue, got <- fed

\* Where a call can be, and where it has a packet that is received.
Places == {"idle", "coerce", "put", "evict", "again"}
InCall == {"put", "evict", "again"}

\* TypeOK before the statistics and the drain are bounded.
Types ==
  /\ routing \in BOOLEAN /\ stopped \in BOOLEAN
  /\ queue \in Seq(1..MaxPackets) /\ Len(queue) <= QueueSize
  /\ last \in Nat
  /\ ppc \in [Producers -> Places]
  /\ wpc \in {"get", "test", "feed", "done"} /\ wpkt \in 0..MaxPackets
  /\ router \in {"none", "running", "returned"} /\ pauses \in 0..MaxPauses
  /\ drained \in Nat /\ unbound \in Nat
  /\ stats \in [Counters -> Nat] /\ refused \in 0..MaxPackets
  /\ fed \in Seq(1..MaxPackets) /\ late \in 0..MaxPackets

\* What the counters owe each other: every packet was queued by a call that
\* was received, and calls are limited.  Only finitely many calls are ever on
\* their way, whatever Producers is.
Came == stats.received + refused + unbound
Done == stats.routed + stats.dropped + stats.errors
Held == Len(queue) + drained + Len(Taken) + Cardinality(Submitting)

Ledger ==
  /\ IsFiniteSet(Submitting)
  /\ Came = Done + Held
  /\ last + Cardinality(Submitting) <= stats.received
  /\ stats.received <= MaxPackets

\* A packet is in the queue or with the drain, and has been numbered.
Drained == Len(queue) + drained <= last

\* The worker holds a packet exactly between get and the end of feed.
Holding == wpkt # 0 <=> wpc \in {"test", "feed"}

\* A pause closes the door before it drains the queue, so once it has returned
\* the worker can feed what it had tested, and nothing it tests later.
PauseHolds ==
  /\ router # "none" => ~routing
  /\ late <= 1
  /\ router = "returned" /\ late = 1 => wpc # "feed"

\* A packet's number is the count of those queued.
Numbered == stats.queued = last

\* The packets on their way are in order, and newer than those fed.
Ordered == FifoLemmas!Inv

Inv == Types /\ Ledger /\ Numbered /\ Drained /\ Holding /\ PauseHolds

----------------------------------------------------------------------------
(* The operators the actions are built from *)

\* CountedMore adds to its counter and leaves the others.
LEMMA CountedMoreFacts ==
  ASSUME stats \in [Counters -> Nat], NEW c \in Counters, NEW n \in Nat,
         CountedMore(c, n)
  PROVE  /\ stats' \in [Counters -> Nat]
         /\ stats'[c] = stats[c] + n
         /\ \A d \in Counters \ {c} : stats'[d] = stats[d]
  BY DEF CountedMore

\* Counted adds one to its counter and leaves the others.
LEMMA CountedFacts ==
  ASSUME stats \in [Counters -> Nat], NEW c \in Counters, Counted(c)
  PROVE  /\ stats' \in [Counters -> Nat]
         /\ stats'[c] = stats[c] + 1
         /\ \A d \in Counters \ {c} : stats'[d] = stats[d]
  BY CountedMoreFacts DEF Counted

\* The counters are numbers.
LEMMA CounterTypes ==
  ASSUME stats \in [Counters -> Nat]
  PROVE  /\ stats.received \in Nat /\ stats.queued \in Nat /\ stats.routed \in Nat
         /\ stats.dropped \in Nat /\ stats.errors \in Nat
  BY DEF Counters

\* A call begins, goes on, or ends.
LEMMA SubmittingMoves ==
  ASSUME Types, IsFiniteSet(Submitting), NEW p \in Producers,
         NEW w \in Places, Goes(p, w)
  PROVE  /\ ppc' \in [Producers -> Places]
         /\ IsFiniteSet(Submitting') /\ Cardinality(Submitting') \in Nat
         /\ Cardinality(Submitting) \in Nat
         /\ ppc[p] \notin InCall /\ w \in InCall =>
              Cardinality(Submitting') = Cardinality(Submitting) + 1
         /\ ppc[p] \in InCall /\ w \notin InCall =>
              Cardinality(Submitting) = Cardinality(Submitting') + 1
         /\ (ppc[p] \in InCall <=> w \in InCall) =>
              Cardinality(Submitting') = Cardinality(Submitting)
<1>1. ppc \in [Producers -> Places]
      /\ ppc' = [ppc EXCEPT ![p] = w]
  BY DEF Types, Goes
<1>2. Submitting' = IF w \in InCall THEN Submitting \cup {p} ELSE Submitting \ {p}
  BY <1>1 DEF Submitting, InCall
<1>3. p \in Submitting <=> ppc[p] \in InCall
  BY DEF Submitting, InCall
<1>4. Cardinality(Submitting) \in Nat
  BY FS_CardinalityType
<1>5. CASE w \notin InCall
  <2>1. IsFiniteSet(Submitting \ {p})
        /\ Cardinality(Submitting \ {p}) =
             IF p \in Submitting THEN Cardinality(Submitting) - 1
                                 ELSE Cardinality(Submitting)
    BY FS_RemoveElement
  <2>2. Cardinality(Submitting \ {p}) \in Nat
    BY <2>1, FS_CardinalityType
  <2> QED
    BY <1>1, <1>2, <1>3, <1>4, <1>5, <2>1, <2>2
<1>6. CASE w \in InCall
  <2>1. IsFiniteSet(Submitting \cup {p})
        /\ Cardinality(Submitting \cup {p}) =
             IF p \in Submitting THEN Cardinality(Submitting)
                                 ELSE Cardinality(Submitting) + 1
    BY FS_AddElement
  <2> QED
    BY <1>1, <1>2, <1>3, <1>4, <1>6, <2>1
<1> QED
  BY <1>5, <1>6

\* A step that leaves every call where it is.
LEMMA SubmittingStays ==
  ASSUME ppc' = ppc
  PROVE  Submitting' = Submitting
  BY DEF Submitting

\* The oldest packet is taken from the queue.
LEMMA QueueTail ==
  ASSUME Types, queue # <<>>
  PROVE  /\ Tail(queue) \in Seq(1..MaxPackets) /\ Head(queue) \in 1..MaxPackets
         /\ Len(queue) = Len(Tail(queue)) + 1 /\ Len(Tail(queue)) \in Nat
         /\ Head(queue) = queue[1]
         /\ \A i \in 1..Len(Tail(queue)) : Tail(queue)[i] = queue[i + 1]
<1>1. queue \in Seq(1..MaxPackets)
  BY DEF Types
<1>2. Len(Tail(queue)) \in Nat
  BY <1>1, FifoLemmas!TailFacts, LenProperties
<1> QED
  BY <1>1, <1>2, FifoLemmas!TailFacts

\* The same in numbers, for the two steps that add more than one.
LEMMA CountedMoreNumbers ==
  ASSUME stats \in [Counters -> Nat], NEW c \in {"dropped", "errors"}, NEW n \in Nat,
         CountedMore(c, n)
  PROVE  /\ stats'.received = stats.received /\ stats'.routed = stats.routed
         /\ stats'.queued = stats.queued
         /\ stats'.dropped = stats.dropped + (IF c = "dropped" THEN n ELSE 0)
         /\ stats'.errors = stats.errors + (IF c = "errors" THEN n ELSE 0)
<1>1. c \in Counters /\ \A d \in Counters : stats[d] \in Nat
  BY DEF Counters
<1>2. stats'[c] = stats[c] + n /\ \A d \in Counters \ {c} : stats'[d] = stats[d]
  BY <1>1, CountedMoreFacts
<1>3. \A d \in Counters : stats[d] + 0 = stats[d]
  BY <1>1
<1> QED
  BY <1>1, <1>2, <1>3 DEF Counters

\* And for those that add one.
LEMMA CountedNumbers ==
  ASSUME stats \in [Counters -> Nat], NEW c \in Counters, Counted(c)
  PROVE  /\ stats'.received = stats.received + (IF c = "received" THEN 1 ELSE 0)
         /\ stats'.routed = stats.routed + (IF c = "routed" THEN 1 ELSE 0)
         /\ stats'.dropped = stats.dropped + (IF c = "dropped" THEN 1 ELSE 0)
         /\ stats'.errors = stats.errors + (IF c = "errors" THEN 1 ELSE 0)
         /\ stats'.queued = stats.queued + (IF c = "queued" THEN 1 ELSE 0)
<1>1. \A d \in Counters : stats[d] \in Nat /\ stats'[d] = stats[d] + (IF c = d THEN 1 ELSE 0)
  BY CountedFacts
<1> QED
  BY <1>1 DEF Counters

\* Sums of three counters.
LEMMA SumOfThree ==
  \A a, b, c \in Nat : a + b + c \in Nat /\ a + (b + 1) + c = (a + b + c) + 1
  OBVIOUS

\* What the worker holds counts as one packet.
LEMMA TakenLen ==
  /\ Len(Taken) = IF wpkt = 0 THEN 0 ELSE 1
  /\ Len(Taken') = IF wpkt' = 0 THEN 0 ELSE 1
  BY DEF Taken

----------------------------------------------------------------------------
(* The actions, for the types *)

\* Every step keeps the types; the statistics are bounded by Bounded below.
LEMMA TypesStep == Inv /\ [Next]_vars => Types'
<1> SUFFICES ASSUME Inv, [Next]_vars PROVE Types'
  OBVIOUS
<1>1. /\ Types /\ IsFiniteSet(Submitting)
      /\ last + Cardinality(Submitting) <= stats.received
      /\ stats.received <= MaxPackets /\ stats.received \in Nat
      /\ last \in Nat /\ MaxPackets \in Nat /\ Holding
  BY BoundsAssumption, CounterTypes DEF Inv, Ledger, Types
<1>2. ASSUME NEW p \in Producers, SubmitRefused(p) PROVE Types'
  <2>1. stats' \in [Counters -> Nat]
    BY <1>1, <1>2, CountedFacts DEF SubmitRefused, Types, Counters
  <2> QED
    BY <1>1, <1>2, <2>1 DEF SubmitRefused, Types, pausing, packets, worker
<1>3. ASSUME NEW p \in Producers, Submit(p) \/ SubmitNone(p) PROVE Types'
  <2>1. ppc' \in [Producers -> Places]
    BY <1>1, <1>3 DEF Submit, SubmitNone, Types, Goes, Places
  <2> QED
    BY <1>1, <1>3, <2>1 DEF Submit, SubmitNone, Types, pausing, packets, worker
<1>4. ASSUME NEW p \in Producers, Receive(p) PROVE Types'
  <2>1. stats' \in [Counters -> Nat]
    BY <1>1, <1>4, CountedFacts DEF Receive, Types, Counters
  <2>2. ppc' \in [Producers -> Places]
    BY <1>1, <1>4 DEF Receive, Types, Goes, Places
  <2> QED
    BY <1>1, <1>4, <2>1, <2>2 DEF Receive, Types, pausing, packets, worker
<1>5. ASSUME NEW p \in Producers, Put(p) PROVE Types'
  <2>1. stats' \in [Counters -> Nat]
    BY <1>1, <1>5, CountedFacts DEF Put, Types, Counters
  <2>2. ppc' \in [Producers -> Places]
    BY <1>1, <1>5 DEF Put, Types, Goes, Places
  <2>3. Cardinality(Submitting) \in Nat \ {0}
    <3>1. p \in Submitting
      BY <1>5 DEF Put, Submitting
    <3> QED
      BY <1>1, <3>1, FS_CardinalityType, FS_EmptySet
  <2>4. last + 1 \in 1..MaxPackets
    BY <1>1, <2>3
  <2>5. queue \in Seq(1..MaxPackets) /\ Len(queue) < QueueSize
        /\ queue' = Append(queue, last + 1)
    BY <1>1, <1>5 DEF Put, Types, Enqueue
  <2>6. queue' \in Seq(1..MaxPackets) /\ Len(queue') = Len(queue) + 1
    BY <2>4, <2>5, AppendProperties
  <2>7. Len(queue') <= QueueSize
    BY <2>5, <2>6, BoundsAssumption
  <2> QED
    BY <1>1, <1>5, <2>1, <2>2, <2>4, <2>6, <2>7
       DEF Put, Types, Enqueue, pausing, worker
<1>6. ASSUME NEW p \in Producers, PutFull(p) PROVE Types'
  <2>1. ppc' \in [Producers -> Places]
    BY <1>1, <1>6 DEF PutFull, Types, Goes, Places
  <2> QED
    BY <1>1, <1>6, <2>1 DEF PutFull, Types, pausing, packets, worker
<1>7. ASSUME NEW p \in Producers, Evict(p) PROVE Types'
  <2>1. stats' \in [Counters -> Nat]
    BY <1>1, <1>7, CountedFacts DEF Evict, Types, Counters
  <2>2. ppc' \in [Producers -> Places]
    BY <1>1, <1>7 DEF Evict, Types, Goes, Places
  <2>3. queue' \in Seq(1..MaxPackets) /\ Len(queue') <= QueueSize
    <3>1. queue # <<>> /\ queue' = Tail(queue)
      BY <1>7 DEF Evict
    <3> QED
      BY <1>1, <3>1, QueueTail, BoundsAssumption DEF Types
  <2> QED
    BY <1>1, <1>7, <2>1, <2>2, <2>3 DEF Evict, Types, pausing, worker
<1>8. ASSUME NEW p \in Producers, PutFails(p) PROVE Types'
  <2>1. stats' \in [Counters -> Nat]
    BY <1>1, <1>8, CountedFacts DEF PutFails, Types, Counters
  <2>2. ppc' \in [Producers -> Places]
    BY <1>1, <1>8 DEF PutFails, Types, Goes, Places
  <2> QED
    BY <1>1, <1>8, <2>1, <2>2 DEF PutFails, Types, pausing, packets, worker
<1>9. ASSUME WorkerGet PROVE Types'
  <2>1. queue # <<>> /\ queue' = Tail(queue) /\ wpkt' = Head(queue)
    BY <1>9 DEF WorkerGet
  <2>2. /\ queue' \in Seq(1..MaxPackets) /\ Len(queue') <= QueueSize
        /\ wpkt' \in 0..MaxPackets
    BY <1>1, <2>1, QueueTail, BoundsAssumption DEF Types
  <2> QED
    BY <1>1, <1>9, <2>2 DEF WorkerGet, Types, pausing
<1>10. ASSUME WorkerTest PROVE Types'
  <2>1. stats' \in [Counters -> Nat]
    BY <1>1, <1>10, CountedFacts DEF WorkerTest, Types, Counters
  <2>2. wpkt' \in 0..MaxPackets /\ wpc' \in {"get", "test", "feed", "done"}
    BY <1>1, <1>10 DEF WorkerTest, Types
  <2> QED
    BY <1>1, <1>10, <2>1, <2>2 DEF WorkerTest, Types, pausing, packets
<1>11. ASSUME WorkerFeed PROVE Types'
  <2>1. stats' \in [Counters -> Nat]
    BY <1>1, <1>11, CountedFacts DEF WorkerFeed, Types, Counters
  <2>2. wpkt \in 1..MaxPackets
    BY <1>1, <1>11 DEF WorkerFeed, Holding, Types
  <2>3. fed' \in Seq(1..MaxPackets)
    <3>1. fed \in Seq(1..MaxPackets)
      BY <1>1 DEF Types
    <3>2. Append(fed, wpkt) \in Seq(1..MaxPackets)
      BY <2>2, <3>1, AppendProperties
    <3> QED
      BY <1>11, <3>1, <3>2 DEF WorkerFeed
  <2>4. late' \in 0..MaxPackets
    <3>1. late \in 0..MaxPackets /\ late <= 1
          /\ (router = "returned" /\ late = 1 => wpc # "feed")
      BY DEF Inv, Types, PauseHolds
    <3>2. wpc = "feed" /\ late' = IF router = "returned" THEN late + 1 ELSE late
      BY <1>11 DEF WorkerFeed
    <3> QED
      BY <1>1, <2>2, <3>1, <3>2
  <2> QED
    BY <1>1, <1>11, <2>1, <2>3, <2>4 DEF WorkerFeed, Types, pausing, packets
<1>12. ASSUME WorkerEnds PROVE Types'
  BY <1>1, <1>12 DEF WorkerEnds, Types, pausing, packets
<1>13. ASSUME Pause PROVE Types'
  <2>1. pauses' \in 0..MaxPauses
    BY <1>13, <1>1, BoundsAssumption DEF Pause, Types
  <2> QED
    BY <1>1, <1>13, <2>1 DEF Pause, Types, packets, worker
<1>14. ASSUME Stop PROVE Types'
  BY <1>1, <1>14 DEF Stop, Types, packets, worker
<1>15. ASSUME Discard PROVE Types'
  <2>1. drained' \in Nat
    BY <1>1, <1>15 DEF Discard, Types
  <2>2. queue # <<>> /\ queue' = Tail(queue)
    BY <1>15 DEF Discard
  <2>3. queue' \in Seq(1..MaxPackets) /\ Len(queue') <= QueueSize
    BY <1>1, <2>2, QueueTail, BoundsAssumption DEF Types
  <2> QED
    BY <1>1, <1>15, <2>1, <2>3 DEF Discard, Types, worker
<1>16. ASSUME PauseReturns PROVE Types'
  <2>1. stats' \in [Counters -> Nat]
    BY <1>1, <1>16, CountedMoreFacts DEF PauseReturns, Types, Counters
  <2> QED
    BY <1>1, <1>16, <2>1 DEF PauseReturns, Types, packets, worker
<1>17. ASSUME Resume PROVE Types'
  <2>1. PICK n \in 0..NativeSources : CountedMore("errors", n) /\ unbound' = unbound + n
    BY <1>17 DEF Resume, BindNativeSources
  <2>2. n \in Nat
    BY <2>1, BoundsAssumption
  <2>3. stats' \in [Counters -> Nat]
    <3>1. stats \in [Counters -> Nat] /\ "errors" \in Counters
      BY <1>1 DEF Types, Counters
    <3> QED
      BY <2>1, <2>2, <3>1, CountedMoreFacts
  <2>4. unbound' \in Nat
    BY <1>1, <2>1, <2>2 DEF Types
  <2> QED
    BY <1>1, <1>17, <2>3, <2>4 DEF Resume, BindNativeSources, Types, packets, worker
<1>18. ASSUME UNCHANGED vars PROVE Types'
  BY <1>1, <1>18 DEF vars, Types
<1> QED
  BY <1>2, <1>3, <1>5, <1>6, <1>7, <1>8, <1>9, <1>10, <1>11, <1>12, <1>13,
     <1>14, <1>15, <1>16, <1>17, <1>18, <1>4 DEF Next, Producer, Worker

----------------------------------------------------------------------------
(* The actions, for the statistics *)

\* Every step keeps the balance: what it takes from one place it puts in
\* another.
LEMMA LedgerStep == Inv /\ [Next]_vars => Ledger'
<1> SUFFICES ASSUME Inv, [Next]_vars PROVE Ledger'
  OBVIOUS
<1>1. /\ Types /\ IsFiniteSet(Submitting)
      /\ Came = Done + Held
      /\ last + Cardinality(Submitting) <= stats.received
      /\ stats.received <= MaxPackets /\ Holding
  BY DEF Inv, Ledger
<1>2. stats \in [Counters -> Nat] /\ queue \in Seq(1..MaxPackets)
  BY <1>1 DEF Types
<1>3. /\ MaxPackets \in Nat /\ last \in Nat /\ refused \in Nat
      /\ drained \in Nat /\ unbound \in Nat
      /\ Len(queue) \in Nat /\ Cardinality(Submitting) \in Nat /\ Len(Taken) \in Nat
      /\ stats.received \in Nat /\ stats.routed \in Nat
      /\ stats.dropped \in Nat /\ stats.errors \in Nat
  <2>1. /\ MaxPackets \in Nat /\ last \in Nat /\ refused \in Nat
        /\ drained \in Nat /\ unbound \in Nat
    BY <1>1, BoundsAssumption DEF Types
  <2>2. Len(queue) \in Nat /\ Cardinality(Submitting) \in Nat /\ Len(Taken) \in Nat
    BY <1>1, <1>2, LenProperties, FS_CardinalityType, TakenLen
  <2> QED
    BY <1>2, <2>1, <2>2, CounterTypes
<1>4. /\ Counted("dropped") => stats'.received = stats.received
      /\ Counted("received") => stats'.received = stats.received + 1
      /\ Counted("queued") => stats'.received = stats.received
      /\ Counted("routed") => stats'.received = stats.received
      /\ Counted("errors") => stats'.received = stats.received
  BY <1>2, CountedNumbers DEF Counters
<1>5. Came \in Nat /\ Done \in Nat /\ Held \in Nat
  <2>1. Came \in Nat /\ Done \in Nat
    BY <1>3, SumOfThree DEF Came, Done
  <2>2. Len(queue) + drained \in Nat /\ Len(Taken) + Cardinality(Submitting) \in Nat
    BY <1>3
  <2> QED
    BY <1>3, <2>1, <2>2, SMTT(30) DEF Held
<1>6. Came = Done + Held
  BY <1>1
<1>7. /\ Counted("received") \/ Counted("queued") => Done' = Done
      /\ Counted("routed") \/ Counted("dropped") \/ Counted("errors") => Done' = Done + 1
  <2>1. ASSUME NEW c \in {"received", "queued"}, Counted(c)
        PROVE  Done' = Done
    <3>1. /\ stats'.routed = stats.routed /\ stats'.dropped = stats.dropped
          /\ stats'.errors = stats.errors
      BY <1>2, <2>1, CountedNumbers DEF Counters
    <3> QED
      BY <3>1 DEF Done
  <2>2. ASSUME Counted("routed") PROVE Done' = Done + 1
    <3>1. /\ stats'.routed = stats.routed + 1 /\ stats'.dropped = stats.dropped
          /\ stats'.errors = stats.errors
      BY <1>2, <2>2, CountedNumbers DEF Counters
    <3> QED
      BY <1>3, <3>1 DEF Done
  <2>3. ASSUME Counted("dropped") PROVE Done' = Done + 1
    <3>1. /\ stats'.routed = stats.routed /\ stats'.dropped = stats.dropped + 1
          /\ stats'.errors = stats.errors
      BY <1>2, <2>3, CountedNumbers DEF Counters
    <3> QED
      BY <1>3, <3>1, SMTT(30) DEF Done
  <2>4. ASSUME Counted("errors") PROVE Done' = Done + 1
    <3>1. /\ stats'.routed = stats.routed /\ stats'.dropped = stats.dropped
          /\ stats'.errors = stats.errors + 1
      BY <1>2, <2>4, CountedNumbers DEF Counters
    <3> QED
      BY <1>3, <3>1, SMTT(30) DEF Done
  <2> QED
    BY <2>1, <2>2, <2>3, <2>4
<1>8. /\ CountedMore("dropped", drained) =>
           stats'.received = stats.received /\ Done' = Done + drained
      /\ \A n \in Nat : CountedMore("errors", n) =>
           stats'.received = stats.received /\ Done' = Done + n
  <2>1. ASSUME CountedMore("dropped", drained)
        PROVE  stats'.received = stats.received /\ Done' = Done + drained
    <3>1. /\ stats'.received = stats.received /\ stats'.routed = stats.routed
          /\ stats'.dropped = stats.dropped + drained /\ stats'.errors = stats.errors
      <4>1. stats.errors + 0 = stats.errors
        BY <1>3
      <4> QED
        BY <1>2, <1>3, <2>1, <4>1, CountedMoreNumbers
    <3> QED
      BY <1>3, <3>1, SMTT(30) DEF Done
  <2>2. ASSUME NEW n \in Nat, CountedMore("errors", n)
        PROVE  stats'.received = stats.received /\ Done' = Done + n
    <3>1. /\ stats'.received = stats.received /\ stats'.routed = stats.routed
          /\ stats'.dropped = stats.dropped /\ stats'.errors = stats.errors + n
      <4>1. stats.dropped + 0 = stats.dropped
        BY <1>3
      <4> QED
        BY <1>2, <2>2, <4>1, CountedMoreNumbers
    <3> QED
      BY <1>3, <3>1, SMTT(30) DEF Done
  <2> QED
    BY <2>1, <2>2
<1>9. ASSUME NEW p \in Producers, SubmitRefused(p) PROVE Ledger'
  <2>1. /\ Counted("dropped") /\ refused' = refused + 1 /\ last' = last
        /\ Submitting' = Submitting /\ Held' = Held /\ unbound' = unbound
    BY <1>9 DEF SubmitRefused, pausing, InCall, packets, worker, Taken, Submitting, Held
  <2>5. stats'.received = stats.received /\ Done' = Done + 1
    BY <1>4, <1>7, <2>1
  <2>6. Came' = Came + 1
    <3>1. Came' = stats.received + (refused + 1) + unbound
      BY <2>1, <2>5 DEF Came
    <3>2. stats.received + (refused + 1) + unbound = (stats.received + refused + unbound) + 1
      <4>1. stats.received \in Nat /\ refused \in Nat /\ unbound \in Nat
        BY <1>3
      <4> QED
        BY <4>1, SumOfThree
    <3> QED
      BY <3>1, <3>2 DEF Came
  <2>7. Came' = Done' + Held'
    BY <1>5, <1>6, <2>1, <2>5, <2>6
  <2>8. /\ last' + Cardinality(Submitting') <= stats'.received
        /\ stats'.received <= MaxPackets /\ IsFiniteSet(Submitting')
    BY <1>1, <1>3, <2>1, <2>5
  <2> QED
    BY <2>7, <2>8 DEF Ledger
<1>10. ASSUME NEW p \in Producers, Receive(p) PROVE Ledger'
  <2>1. /\ Counted("received") /\ UNCHANGED <<refused, drained, unbound>> /\ last' = last
        /\ queue' = queue /\ Taken' = Taken /\ stats.received < MaxPackets
        /\ ppc[p] = "coerce" /\ Goes(p, "put")
    BY <1>10 DEF Receive, pausing, InCall, packets, worker, Taken
  <2>2. /\ IsFiniteSet(Submitting') /\ Cardinality(Submitting') \in Nat
        /\ Cardinality(Submitting') = Cardinality(Submitting) + 1
    BY <1>1, <2>1, SubmittingMoves DEF InCall, Places
  <2>3. Held' = Held + 1
    BY <1>3, <2>1, <2>2 DEF Held
  <2>5. stats'.received = stats.received + 1 /\ Done' = Done
    BY <1>4, <1>7, <2>1, <2>2, <2>3
  <2>6. Came' = Came + 1
    BY <1>3, <2>1, <2>5, SMTT(30) DEF Came
  <2>7. Came' = Done' + Held'
    BY <1>5, <1>6, <2>3, <2>5, <2>6
  <2>8. /\ last' + Cardinality(Submitting') <= stats'.received
        /\ stats'.received <= MaxPackets /\ IsFiniteSet(Submitting')
    BY <1>1, <1>3, <2>1, <2>2, <2>3, <2>5
  <2> QED
    BY <2>7, <2>8 DEF Ledger
<1>11. ASSUME NEW p \in Producers, Submit(p) \/ SubmitNone(p) PROVE Ledger'
  <2>1. /\ stats' = stats /\ UNCHANGED <<refused, drained, unbound>> /\ last' = last
        /\ queue' = queue /\ Taken' = Taken
    BY <1>11 DEF Submit, SubmitNone, packets, worker, pausing, Taken
  <2>2. /\ ppc[p] \notin InCall
        /\ \E w \in Places \ InCall : Goes(p, w)
    BY <1>11 DEF Submit, SubmitNone, InCall, Places
  <2>3. IsFiniteSet(Submitting') /\ Cardinality(Submitting') = Cardinality(Submitting)
    BY <1>1, <2>2, SubmittingMoves
  <2> QED
    BY <1>1, <2>1, <2>3 DEF Ledger, Came, Done, Held
<1>12. ASSUME NEW p \in Producers, Put(p) PROVE Ledger'
  <2>1. /\ Counted("queued") /\ UNCHANGED <<refused, drained, unbound>> /\ last' = last + 1
        /\ queue' = Append(queue, last + 1) /\ Taken' = Taken
        /\ ppc[p] \in InCall /\ Goes(p, "idle")
    BY <1>12 DEF Put, pausing, InCall, Enqueue, worker, Taken
  <2>2. /\ IsFiniteSet(Submitting') /\ Cardinality(Submitting') \in Nat
        /\ Cardinality(Submitting) = Cardinality(Submitting') + 1
    BY <1>1, <2>1, SubmittingMoves DEF InCall, Places
  <2>3. Len(queue') = Len(queue) + 1
    BY <1>2, <2>1
  <2>4. Held' = Held
    BY <1>3, <2>1, <2>2, <2>3 DEF Held
  <2>5. stats'.received = stats.received /\ Done' = Done
    BY <1>4, <1>7, <2>1, <2>2, <2>4
  <2>6. Came' = Came
    BY <2>1, <2>5 DEF Came
  <2>7. Came' = Done' + Held'
    BY <1>5, <1>6, <2>4, <2>5, <2>6
  <2>8. /\ last' + Cardinality(Submitting') <= stats'.received
        /\ stats'.received <= MaxPackets /\ IsFiniteSet(Submitting')
    BY <1>1, <1>3, <2>1, <2>2, <2>4, <2>5
  <2> QED
    BY <2>7, <2>8 DEF Ledger
<1>13. ASSUME NEW p \in Producers, PutFull(p) PROVE Ledger'
  <2>1. /\ stats' = stats /\ UNCHANGED <<refused, drained, unbound>> /\ last' = last
        /\ queue' = queue /\ Taken' = Taken
        /\ ppc[p] \in InCall /\ Goes(p, "evict")
    BY <1>13 DEF PutFull, pausing, InCall, packets, worker, Taken
  <2>2. /\ IsFiniteSet(Submitting') /\ Cardinality(Submitting') \in Nat
        /\ Cardinality(Submitting') = Cardinality(Submitting)
    BY <1>1, <2>1, SubmittingMoves DEF InCall, Places
  <2>3. Held' = Held /\ Done' = Done
    BY <2>1, <2>2 DEF Held, Done
  <2>5. stats'.received = stats.received /\ Done' = Done
    BY <1>4, <1>7, <2>1, <2>2, <2>3
  <2>6. Came' = Came
    BY <2>1, <2>5 DEF Came
  <2>7. Came' = Done' + Held'
    BY <1>5, <1>6, <2>3, <2>5, <2>6
  <2>8. /\ last' + Cardinality(Submitting') <= stats'.received
        /\ stats'.received <= MaxPackets /\ IsFiniteSet(Submitting')
    BY <1>1, <1>3, <2>1, <2>2, <2>3, <2>5
  <2> QED
    BY <2>7, <2>8 DEF Ledger
<1>14. ASSUME NEW p \in Producers, Evict(p) PROVE Ledger'
  <2>1. /\ Counted("dropped") /\ UNCHANGED <<refused, drained, unbound>> /\ last' = last
        /\ queue # <<>> /\ queue' = Tail(queue) /\ Taken' = Taken
        /\ ppc[p] \in InCall /\ Goes(p, "again")
    BY <1>14 DEF Evict, pausing, InCall, worker, Taken
  <2>2. /\ IsFiniteSet(Submitting') /\ Cardinality(Submitting') \in Nat
        /\ Cardinality(Submitting') = Cardinality(Submitting)
    BY <1>1, <2>1, SubmittingMoves DEF InCall, Places
  <2>3. Len(queue) = Len(queue') + 1 /\ Len(queue') \in Nat
    BY <1>1, <2>1, QueueTail
  <2>4. Held = Held' + 1 /\ Held' \in Nat
    BY <1>3, <2>1, <2>2, <2>3 DEF Held
  <2>5. stats'.received = stats.received /\ Done' = Done + 1
    BY <1>4, <1>7, <2>1, <2>2, <2>4
  <2>6. Came' = Came
    BY <2>1, <2>5 DEF Came
  <2>7. Came' = Done' + Held'
    BY <1>5, <1>6, <2>4, <2>5, <2>6
  <2>8. /\ last' + Cardinality(Submitting') <= stats'.received
        /\ stats'.received <= MaxPackets /\ IsFiniteSet(Submitting')
    BY <1>1, <1>3, <2>1, <2>2, <2>4, <2>5
  <2> QED
    BY <2>7, <2>8 DEF Ledger
<1>15. ASSUME NEW p \in Producers, PutFails(p) PROVE Ledger'
  <2>1. /\ Counted("dropped") /\ UNCHANGED <<refused, drained, unbound>> /\ last' = last
        /\ queue' = queue /\ Taken' = Taken
        /\ ppc[p] \in InCall /\ Goes(p, "idle")
    BY <1>15 DEF PutFails, pausing, InCall, packets, worker, Taken
  <2>2. /\ IsFiniteSet(Submitting') /\ Cardinality(Submitting') \in Nat
        /\ Cardinality(Submitting) = Cardinality(Submitting') + 1
    BY <1>1, <2>1, SubmittingMoves DEF InCall, Places
  <2>3. Held = Held' + 1 /\ Held' \in Nat
    BY <1>3, <2>1, <2>2 DEF Held
  <2>5. stats'.received = stats.received /\ Done' = Done + 1
    BY <1>4, <1>7, <2>1, <2>2, <2>3
  <2>6. Came' = Came
    BY <2>1, <2>5 DEF Came
  <2>7. Came' = Done' + Held'
    BY <1>5, <1>6, <2>3, <2>5, <2>6
  <2>8. /\ last' + Cardinality(Submitting') <= stats'.received
        /\ stats'.received <= MaxPackets /\ IsFiniteSet(Submitting')
    <3>1. last + Cardinality(Submitting') <= stats.received
      <4>1. /\ last + Cardinality(Submitting) <= stats.received
            /\ last \in Nat /\ stats.received \in Nat
        BY <1>1, <1>3
      <4> QED
        BY <2>2, <4>1
    <3> QED
      BY <1>1, <2>1, <2>2, <2>5, <3>1
  <2> QED
    BY <2>7, <2>8 DEF Ledger
<1>16. ASSUME WorkerGet PROVE Ledger'
  <2>1. /\ stats' = stats /\ UNCHANGED <<refused, drained, unbound>> /\ last' = last
        /\ queue # <<>> /\ queue' = Tail(queue)
        /\ wpkt = 0 /\ wpkt' = Head(queue) /\ Submitting' = Submitting
    BY <1>1, <1>16 DEF WorkerGet, pausing, InCall, Submitting, Holding
  <2>2. Len(queue) = Len(queue') + 1 /\ Len(queue') \in Nat /\ wpkt' # 0
    BY <1>1, <2>1, QueueTail
  <2>3. Len(Taken) = 0 /\ Len(Taken') = 1
    BY <2>1, <2>2, TakenLen
  <2>4. Held' = Held /\ Done' = Done
    BY <1>3, <2>1, <2>2, <2>3 DEF Held, Done
  <2>5. stats'.received = stats.received /\ Done' = Done
    BY <1>4, <1>7, <2>1, <2>4
  <2>6. Came' = Came
    BY <2>1, <2>5 DEF Came
  <2>7. Came' = Done' + Held'
    BY <1>5, <1>6, <2>4, <2>5, <2>6
  <2>8. /\ last' + Cardinality(Submitting') <= stats'.received
        /\ stats'.received <= MaxPackets /\ IsFiniteSet(Submitting')
    BY <1>1, <1>3, <2>1, <2>4, <2>5
  <2> QED
    BY <2>7, <2>8 DEF Ledger
<1>17. ASSUME WorkerTest PROVE Ledger'
  <2>1. /\ UNCHANGED <<refused, drained, unbound>> /\ last' = last /\ queue' = queue
        /\ wpkt # 0 /\ Submitting' = Submitting
    BY <1>1, <1>17 DEF WorkerTest, pausing, InCall, packets, Submitting, Holding
  <2>2. CASE Counted("dropped") /\ wpkt' = 0
    <3>1. Len(Taken) = 1 /\ Len(Taken') = 0
      BY <2>1, <2>2, TakenLen
    <3>2. Held = Held' + 1 /\ Held' \in Nat
      BY <1>3, <2>1, <3>1 DEF Held
    <3>5. stats'.received = stats.received /\ Done' = Done + 1
      BY <1>4, <1>7, <2>1, <2>2, <3>2
    <3>6. Came' = Came
      BY <2>1, <3>5 DEF Came
    <3>7. Came' = Done' + Held'
      BY <1>5, <1>6, <3>2, <3>5, <3>6
    <3>8. /\ last' + Cardinality(Submitting') <= stats'.received
          /\ stats'.received <= MaxPackets /\ IsFiniteSet(Submitting')
      BY <1>1, <1>3, <2>1, <2>2, <3>2, <3>5
    <3> QED
      BY <3>7, <3>8 DEF Ledger
  <2>3. CASE stats' = stats /\ wpkt' = wpkt
    BY <1>1, <2>1, <2>3 DEF Ledger, Came, Held, Done, Taken
  <2> QED
    BY <1>17, <2>2, <2>3 DEF WorkerTest
<1>18. ASSUME WorkerFeed PROVE Ledger'
  <2>1. /\ UNCHANGED <<refused, drained, unbound>> /\ last' = last /\ queue' = queue
        /\ wpkt # 0 /\ wpkt' = 0 /\ Submitting' = Submitting
        /\ Counted("routed") \/ Counted("dropped") \/ Counted("errors")
    BY <1>1, <1>18 DEF WorkerFeed, pausing, InCall, packets, Submitting, Holding
  <2>2. Len(Taken) = 1 /\ Len(Taken') = 0
    BY <2>1, TakenLen
  <2>3. Held = Held' + 1 /\ Held' \in Nat
    BY <1>3, <2>1, <2>2 DEF Held
  <2>5. stats'.received = stats.received /\ Done' = Done + 1
    BY <1>4, <1>7, <2>1, <2>3
  <2>6. Came' = Came
    BY <2>1, <2>5 DEF Came
  <2>7. Came' = Done' + Held'
    BY <1>5, <1>6, <2>3, <2>5, <2>6
  <2>8. /\ last' + Cardinality(Submitting') <= stats'.received
        /\ stats'.received <= MaxPackets /\ IsFiniteSet(Submitting')
    BY <1>1, <1>3, <2>1, <2>3, <2>5
  <2> QED
    BY <2>7, <2>8 DEF Ledger
<1>19. ASSUME Discard PROVE Ledger'
  <2>1. /\ stats' = stats /\ UNCHANGED <<refused, unbound>> /\ last' = last
        /\ queue # <<>> /\ queue' = Tail(queue) /\ drained' = drained + 1
        /\ Taken' = Taken /\ Submitting' = Submitting
    BY <1>19 DEF Discard, worker, Taken, Submitting
  <2>2. Len(queue) = Len(queue') + 1 /\ Len(queue') \in Nat
    BY <1>1, <2>1, QueueTail
  <2>3. Len(queue') + drained' = Len(queue) + drained
    BY <1>3, <2>1, <2>2
  <2>4. Held' = Held
    BY <2>1, <2>3 DEF Held
  <2> QED
    BY <1>1, <2>1, <2>4 DEF Ledger, Came, Done
<1>20. ASSUME PauseReturns PROVE Ledger'
  <2>1. /\ CountedMore("dropped", drained) /\ drained' = 0
        /\ UNCHANGED <<refused, unbound>> /\ last' = last
        /\ queue' = queue /\ Taken' = Taken /\ Submitting' = Submitting
    BY <1>20 DEF PauseReturns, packets, worker, Taken, Submitting
  <2>2. Held = Held' + drained /\ Held' \in Nat
    BY <1>3, <2>1, SMTT(30) DEF Held
  <2>3. stats'.received = stats.received /\ Done' = Done + drained
    BY <1>8, <2>1
  <2>4. Came' = Came
    BY <2>1, <2>3 DEF Came
  <2>5. Came' = Done' + Held'
    BY <1>3, <1>5, <1>6, <2>2, <2>3, <2>4
  <2> QED
    BY <1>1, <2>1, <2>3, <2>5 DEF Ledger
<1>21. ASSUME Resume PROVE Ledger'
  <2>1. PICK n \in 0..NativeSources : CountedMore("errors", n) /\ unbound' = unbound + n
    BY <1>21 DEF Resume, BindNativeSources
  <2>2. n \in Nat
    BY <2>1, BoundsAssumption
  <2>3. /\ UNCHANGED <<refused, drained>> /\ last' = last
        /\ queue' = queue /\ Taken' = Taken /\ Submitting' = Submitting
    BY <1>21 DEF Resume, BindNativeSources, packets, worker, Taken, Submitting
  <2>4. stats'.received = stats.received /\ Done' = Done + n
    BY <1>8, <2>1, <2>2
  <2>5. Came' = Came + n /\ Held' = Held
    <3>1. Came' = Came + n
      BY <1>3, <2>1, <2>2, <2>3, <2>4, SMTT(30) DEF Came
    <3> QED
      BY <2>3, <3>1 DEF Held
  <2>6. Came' = Done' + Held'
    BY <1>1, <1>5, <2>2, <2>4, <2>5
  <2> QED
    BY <1>1, <2>3, <2>4, <2>6 DEF Ledger
<1>22. ASSUME WorkerEnds \/ Pause \/ Stop \/ UNCHANGED vars
       PROVE  Ledger'
  <2>1. /\ stats' = stats /\ UNCHANGED <<refused, drained, unbound>> /\ last' = last
        /\ queue' = queue /\ Taken' = Taken /\ Submitting' = Submitting
    BY <1>22 DEF WorkerEnds, Pause, Stop, vars, packets, pausing,
                 worker, Taken, Submitting
  <2> QED
    BY <1>1, <2>1 DEF Ledger, Came, Held, Done
<1> QED
  BY <1>9, <1>10, <1>12, <1>13, <1>14, <1>15, <1>16, <1>17, <1>18, <1>19, <1>20,
     <1>11, <1>21, <1>22 DEF Next, Producer, Worker

----------------------------------------------------------------------------
(* The worker and the pause *)

\* Only get takes a packet, and only the end of feed lets it go.
LEMMA HoldingStep == Inv /\ [Next]_vars => Holding'
<1> SUFFICES ASSUME Inv, [Next]_vars PROVE Holding'
  OBVIOUS
<1>1. Types /\ Holding
  BY DEF Inv
<1>2. ASSUME WorkerGet PROVE Holding'
  <2>1. wpkt' # 0 /\ wpc' = "test"
    BY <1>1, <1>2, QueueTail DEF WorkerGet
  <2> QED
    BY <2>1 DEF Holding
<1>3. ASSUME WorkerTest \/ WorkerFeed \/ WorkerEnds PROVE Holding'
  BY <1>1, <1>3 DEF WorkerTest, WorkerFeed, WorkerEnds, Holding
<1>4. ASSUME UNCHANGED worker PROVE Holding'
  BY <1>1, <1>4 DEF worker, Holding
<1>5. ASSUME NEW p \in Producers, Producer(p) PROVE UNCHANGED worker
  BY <1>5 DEF Producer, SubmitRefused, Submit, SubmitNone, Receive, Put, PutFull, Evict,
     PutFails, worker
<1>6. ASSUME Pause \/ Stop \/ Discard \/ PauseReturns \/ Resume \/ UNCHANGED vars
      PROVE  UNCHANGED worker
  BY <1>6 DEF Pause, Stop, Discard, PauseReturns, Resume, vars, worker
<1> QED
  BY <1>2, <1>3, <1>4, <1>5, <1>6 DEF Next, Worker

\* Between the return of a pause and the next resume the worker feeds what it
\* had tested, and every later packet fails its test.
LEMMA PauseStep == Inv /\ [Next]_vars => PauseHolds'
<1> SUFFICES ASSUME Inv, [Next]_vars PROVE PauseHolds'
  OBVIOUS
<1>1. PauseHolds /\ late \in Nat /\ routing \in BOOLEAN
  BY DEF Inv, Types
<1>2. ASSUME NEW p \in Producers, Producer(p)
      PROVE  UNCHANGED <<routing, router, late, wpc>>
  BY <1>2 DEF Producer, SubmitRefused, Submit, SubmitNone, Receive, Put, PutFull, Evict,
     PutFails,
              worker, pausing
<1>3. ASSUME WorkerGet \/ WorkerTest \/ WorkerEnds PROVE PauseHolds'
  BY <1>1, <1>3 DEF WorkerGet, WorkerTest, WorkerEnds, PauseHolds, pausing
<1>4. ASSUME WorkerFeed PROVE PauseHolds'
  <2>1. /\ wpc = "feed" /\ wpc' = "get" /\ UNCHANGED <<routing, router>>
        /\ late' = IF router = "returned" THEN late + 1 ELSE late
    BY <1>4 DEF WorkerFeed, pausing
  <2>2. router = "returned" => late = 0
    BY <1>1, <2>1 DEF PauseHolds
  <2> QED
    BY <1>1, <2>1, <2>2 DEF PauseHolds
<1>5. ASSUME Pause \/ Stop \/ Discard \/ PauseReturns \/ Resume \/ UNCHANGED vars
      PROVE  PauseHolds'
  BY <1>1, <1>5 DEF Pause, Stop, Discard, PauseReturns, Resume, vars, pausing,
                    worker, PauseHolds
<1> QED
  BY <1>1, <1>2, <1>3, <1>4, <1>5 DEF Next, Worker, PauseHolds

----------------------------------------------------------------------------

\* A packet is numbered as it is queued.
LEMMA NumberedStep == Inv /\ [Next]_vars => Numbered'
<1> SUFFICES ASSUME Inv, [Next]_vars PROVE Numbered'
  OBVIOUS
<1>1. stats \in [Counters -> Nat] /\ stats.queued = last
  BY DEF Inv, Types, Numbered
<1>2. ASSUME NEW c \in Counters \ {"queued"}, Counted(c)
      PROVE  stats'.queued = stats.queued
  <2>1. stats'.queued = stats.queued + (IF c = "queued" THEN 1 ELSE 0)
    BY <1>1, <1>2, CountedNumbers
  <2>2. stats.queued \in Nat
    BY <1>1, CounterTypes
  <2> QED
    BY <1>2, <2>1, <2>2
<1>3. ASSUME NEW p \in Producers, Put(p) PROVE Numbered'
  <2>1. Counted("queued") /\ last' = last + 1
    BY <1>3 DEF Put, Enqueue
  <2>2. stats'.queued = stats.queued + 1
    BY <1>1, <2>1, CountedNumbers DEF Counters
  <2> QED
    BY <1>1, <2>1, <2>2 DEF Numbered
<1>4. ASSUME \/ Counted("received") \/ Counted("dropped") \/ Counted("routed")
             \/ Counted("errors") \/ stats' = stats,
             last' = last
      PROVE  Numbered'
  BY <1>1, <1>2, <1>4 DEF Numbered, Counters
<1>5. ASSUME NEW p \in Producers, Producer(p) PROVE Numbered'
  BY <1>3, <1>4, <1>5
     DEF Producer, SubmitRefused, Submit, SubmitNone, Receive, PutFull, Evict, PutFails,
         packets
<1>6. ASSUME Worker PROVE Numbered'
  BY <1>4, <1>6 DEF Worker, WorkerGet, WorkerTest, WorkerFeed, WorkerEnds, packets
<1>7. ASSUME Pause \/ Stop \/ Discard \/ UNCHANGED vars PROVE Numbered'
  BY <1>4, <1>7 DEF Pause, Stop, Discard, vars, packets
<1>8. ASSUME NEW c \in {"dropped", "errors"}, NEW n \in Nat, CountedMore(c, n),
             last' = last
      PROVE  Numbered'
  BY <1>1, <1>8, CountedMoreNumbers DEF Numbered
<1>9. ASSUME PauseReturns PROVE Numbered'
  <2>1. drained \in Nat
    BY DEF Inv, Types
  <2>2. CountedMore("dropped", drained) /\ last' = last
    BY <1>9 DEF PauseReturns, packets
  <2> QED
    BY <1>8, <2>1, <2>2
<1>10. ASSUME Resume PROVE Numbered'
  <2>1. PICK n \in 0..NativeSources : CountedMore("errors", n)
    BY <1>10 DEF Resume, BindNativeSources
  <2>2. n \in Nat /\ last' = last
    BY <1>10, <2>1, BoundsAssumption DEF Resume, BindNativeSources, packets
  <2> QED
    BY <1>8, <2>1, <2>2
<1> QED
  BY <1>5, <1>6, <1>7, <1>9, <1>10 DEF Next

\* The drain takes what has been queued, and a packet leaves for one place.
LEMMA DrainedStep == Inv /\ [Next]_vars => Drained'
<1> SUFFICES ASSUME Inv, [Next]_vars PROVE Drained'
  OBVIOUS
<1>1. /\ Types /\ Len(queue) + drained <= last /\ queue \in Seq(1..MaxPackets)
      /\ drained \in Nat /\ last \in Nat /\ Len(queue) \in Nat
  BY LenProperties DEF Inv, Types, Drained
<1>2. ASSUME queue' = queue, drained' = drained, last' = last PROVE Drained'
  BY <1>1, <1>2 DEF Drained
<1>3. ASSUME queue # <<>>, queue' = Tail(queue), last' = last,
             drained' = drained \/ drained' = drained + 1
      PROVE  Drained'
  <2>1. Len(queue) = Len(queue') + 1 /\ Len(queue') \in Nat
    BY <1>1, <1>3, QueueTail
  <2> QED
    BY <1>1, <1>3, <2>1 DEF Drained
<1>4. ASSUME NEW p \in Producers, Producer(p) PROVE Drained'
  <2>1. CASE Put(p)
    <3>1. queue' = Append(queue, last + 1) /\ last' = last + 1 /\ drained' = drained
      BY <2>1 DEF Put, Enqueue, pausing
    <3>2. Len(queue') = Len(queue) + 1
      BY <1>1, <3>1
    <3> QED
      BY <1>1, <3>1, <3>2 DEF Drained
  <2>2. CASE Evict(p)
    BY <1>3, <2>2 DEF Evict, pausing
  <2>3. CASE \/ SubmitRefused(p) \/ Submit(p) \/ SubmitNone(p) \/ Receive(p)
             \/ PutFull(p) \/ PutFails(p)
    BY <1>2, <2>3 DEF SubmitRefused, Submit, SubmitNone, Receive, PutFull, PutFails,
                      pausing, packets
  <2> QED
    BY <1>4, <2>1, <2>2, <2>3 DEF Producer
<1>5. ASSUME WorkerGet \/ Discard PROVE Drained'
  BY <1>3, <1>5 DEF WorkerGet, Discard, pausing
<1>6. ASSUME \/ WorkerTest \/ WorkerFeed \/ WorkerEnds
             \/ Pause \/ Stop \/ Resume \/ UNCHANGED vars
      PROVE  Drained'
  BY <1>2, <1>6 DEF WorkerTest, WorkerFeed, WorkerEnds, Pause, Stop, Resume, vars,
                    pausing, packets
<1>7. ASSUME PauseReturns PROVE Drained'
  <2>1. queue' = queue /\ last' = last /\ drained' = 0
    BY <1>7 DEF PauseReturns, packets
  <2> QED
    BY <1>1, <2>1 DEF Drained
<1> QED
  BY <1>4, <1>5, <1>6, <1>7 DEF Next, Worker

----------------------------------------------------------------------------
(* The invariant, and what it says of the runs' properties *)

\* The initial states satisfy the invariant.
LEMMA InvInit == Init => Inv
<1> SUFFICES ASSUME Init PROVE Inv
  OBVIOUS
<1>1. Types
  <2>1. queue = <<>> /\ fed = <<>> /\ <<>> \in Seq(1..MaxPackets) /\ Len(queue) = 0
    BY DEF Init
  <2>2. 0 \in 0..MaxPackets /\ 0 \in 0..MaxPauses /\ 0 <= QueueSize
    BY BoundsAssumption
  <2>3. unbound \in Nat /\ stats \in [Counters -> Nat] /\ last \in Nat
    BY BoundsAssumption DEF Init
  <2> QED
    BY <2>1, <2>2, <2>3 DEF Init, Types, Places
<1>2. Submitting = {} /\ IsFiniteSet(Submitting) /\ Cardinality(Submitting) = 0
  BY FS_EmptySet DEF Init, Submitting
<1>3. Len(queue) = 0 /\ Len(Taken) = 0
  BY DEF Init, Taken
<1>4. Ledger
  <2>1. /\ stats.received = 0 /\ stats.routed = 0 /\ stats.dropped = 0
        /\ stats.errors = unbound /\ refused = 0 /\ last = 0 /\ drained = 0
        /\ unbound \in Nat
    BY BoundsAssumption DEF Init, Counters
  <2>2. Came = unbound /\ Done = unbound /\ Held = 0
    BY <1>2, <1>3, <2>1 DEF Came, Done, Held
  <2> QED
    BY <1>2, <2>1, <2>2, BoundsAssumption DEF Ledger
<1>5. Drained
  BY <1>3 DEF Init, Drained
<1>6. Holding /\ PauseHolds /\ Numbered
  BY DEF Init, Holding, PauseHolds, Numbered, Counters
<1> QED
  BY <1>1, <1>4, <1>6, <1>5 DEF Inv

\* Every step keeps it.
LEMMA InvStep == Inv /\ [Next]_vars => Inv'
  BY TypesStep, LedgerStep, NumberedStep, DrainedStep, HoldingStep, PauseStep DEF Inv

\* The balance bounds the statistics: no call is counted twice.
LEMMA Bounded == Inv => TypeOK /\ StatsBalance /\ AtMostOneLate
<1> SUFFICES ASSUME Inv PROVE TypeOK /\ StatsBalance /\ AtMostOneLate
  OBVIOUS
<1>1. /\ Types /\ stats \in [Counters -> Nat] /\ IsFiniteSet(Submitting)
      /\ queue \in Seq(1..MaxPackets)
  BY DEF Inv, Ledger, Types
<1>2. /\ MaxPackets \in Nat /\ last \in Nat /\ refused \in 0..MaxPackets
      /\ drained \in Nat /\ unbound \in Nat
      /\ Len(queue) \in Nat /\ Cardinality(Submitting) \in Nat /\ Len(Taken) \in Nat
  BY <1>1, BoundsAssumption, LenProperties, FS_CardinalityType, TakenLen DEF Types
<1>3. /\ stats.received \in Nat /\ stats.queued \in Nat /\ stats.routed \in Nat
      /\ stats.dropped \in Nat /\ stats.errors \in Nat
  BY <1>1, CounterTypes
<1>4. Held \in Nat /\ Done \in Nat
  <2>1. Len(queue) + drained \in Nat /\ Len(Taken) + Cardinality(Submitting) \in Nat
    BY <1>2
  <2>2. Done \in Nat
    BY <1>3, SumOfThree DEF Done
  <2> QED
    BY <1>2, <2>1, <2>2, SMTT(30) DEF Held
<1>5. /\ Came = Done + Held
      /\ last + Cardinality(Submitting) <= stats.received
      /\ stats.received <= MaxPackets
  BY DEF Inv, Ledger
<1>6. Done <= 2 * MaxPackets + unbound
  <2>1. Came <= 2 * MaxPackets + unbound /\ Came \in Nat
    BY <1>2, <1>3, <1>5, SMTT(30) DEF Came
  <2> QED
    BY <1>2, <1>4, <1>5, <2>1
<1>7. last <= MaxPackets /\ stats.queued <= MaxPackets
  BY <1>2, <1>3, <1>5 DEF Inv, Numbered
<1>8. stats.routed <= Done /\ stats.dropped <= Done /\ stats.errors <= Done
  BY <1>3 DEF Done
<1>9. ASSUME NEW c \in Counters PROVE stats[c] \in 0..(2 * MaxPackets + unbound)
  <2>1. stats[c] <= MaxPackets \/ stats[c] <= Done
    BY <1>3, <1>5, <1>7, <1>8 DEF Counters
  <2>2. stats[c] \in Nat
    BY <1>1
  <2> QED
    BY <1>2, <1>4, <1>6, <2>1, <2>2
<1>10. stats \in [Counters -> 0..(2 * MaxPackets + unbound)]
  BY <1>1, <1>9
<1>11. drained \in 0..MaxPackets
  BY <1>2, <1>7 DEF Inv, Drained
<1>12. TypeOK
  BY <1>1, <1>2, <1>7, <1>10, <1>11 DEF TypeOK, Types, Places
<1>13. StatsBalance
  <2>1. Done + Held =
          stats.routed + stats.dropped + stats.errors
            + Len(queue) + drained + Len(Taken) + Cardinality(Submitting)
    <3>1. Len(queue) + drained \in Nat /\ Len(Taken) + Cardinality(Submitting) \in Nat
      BY <1>2
    <3> QED
      BY <1>2, <1>4, <3>1, SMTT(30) DEF Done, Held
  <2> QED
    BY <1>5, <2>1 DEF StatsBalance, Came
<1> QED
  BY <1>12, <1>13 DEF Inv, PauseHolds, AtMostOneLate

\* The queue stays within its maxsize and every variable within its range;
\* packet_stats accounts for every call; a pause that has returned lets one
\* more packet into the router and no second one.
THEOREM Correct == Spec => [](TypeOK /\ StatsBalance /\ AtMostOneLate)
<1>1. Inv => TypeOK /\ StatsBalance /\ AtMostOneLate
  BY Bounded
<1> QED
  BY InvInit, InvStep, <1>1, PTL DEF Spec

----------------------------------------------------------------------------
(* The refinement of LossyFifo *)

\* The packets' numbers are natural numbers.
LEMMA Numbers ==
  ASSUME Types
  PROVE  /\ queue \in Seq(Nat) /\ fed \in Seq(Nat) /\ Taken \in Seq(Nat)
         /\ wpkt \in Nat /\ last \in Nat /\ Taken \o queue \in Seq(Nat)
         /\ wpkt = 0 => Taken \o queue = queue
<1>1. 1..MaxPackets \subseteq Nat /\ wpkt \in Nat /\ last \in Nat
  BY BoundsAssumption DEF Types
<1>2. queue \in Seq(Nat) /\ fed \in Seq(Nat)
  BY <1>1, SeqMonotonic DEF Types
<1>3. Taken \in Seq(Nat)
  BY <1>1 DEF Taken
<1> QED
  BY <1>1, <1>2, <1>3, ConcatProperties, ConcatEmptySeq DEF Taken

\* Put sends.
LEMMA PutSends ==
  ASSUME Types, NEW p \in Producers, Put(p)
  PROVE  FifoLemmas!Send
<1>1. queue' = Append(queue, last + 1) /\ last' = last + 1 /\ fed' = fed /\ Taken' = Taken
  BY DEF Put, Enqueue, worker, Taken
<1>2. /\ queue \in Seq(Nat) /\ Taken \in Seq(Nat) /\ last \in Nat
      /\ last + 1 \in Nat /\ last < last + 1
  BY Numbers
<1>3. Taken \o Append(queue, last + 1) = Append(Taken \o queue, last + 1)
  BY <1>2, FifoLemmas!OneSent
<1> QED
  BY <1>1, <1>2, <1>3 DEF FifoLemmas!Send

\* An evicted or discarded packet is lost, in front of it the one the worker
\* holds.
LEMMA OldestIsLost ==
  ASSUME Types, Ordered, queue # <<>>, queue' = Tail(queue), Taken' = Taken,
         last' = last, fed' = fed
  PROVE  FifoLemmas!Lose
<1>1. queue \in Seq(Nat) /\ Taken \in Seq(Nat)
  BY Numbers
<1>2. FifoLemmas!Increasing(Taken \o queue)
  BY DEF Ordered, FifoLemmas!Inv, FifoLemmas!InOrder
<1>3. /\ Taken \o Tail(queue) \in Seq(Nat)
      /\ FifoLemmas!Increasing(Taken \o Tail(queue))
      /\ FifoLemmas!Range(Taken \o Tail(queue)) \subseteq FifoLemmas!Range(Taken \o queue)
  BY <1>1, <1>2, FifoLemmas!OneLost
<1> QED
  BY <1>3 DEF FifoLemmas!Lose

\* The packet the worker holds is lost.
LEMMA HeldIsLost ==
  ASSUME Types, Ordered, wpkt # 0, wpkt' = 0, queue' = queue, last' = last, fed' = fed
  PROVE  FifoLemmas!Lose
<1> DEFINE c == Taken \o queue
<1>1. queue \in Seq(Nat) /\ wpkt \in Nat /\ <<>> \in Seq(Nat) /\ c \in Seq(Nat)
  BY Numbers
<1>2. /\ Taken = <<wpkt>> /\ Taken' = <<>>
      /\ <<>> \o queue = queue /\ <<>> \o c = c
  BY <1>1, ConcatEmptySeq DEF Taken
<1>3. c # <<>> /\ Tail(c) = queue
  BY <1>1, <1>2, FifoLemmas!HeldFirst
<1>4. FifoLemmas!Increasing(<<>> \o c)
  BY <1>2 DEF Ordered, FifoLemmas!Inv, FifoLemmas!InOrder
<1>5. /\ <<>> \o Tail(c) \in Seq(Nat) /\ FifoLemmas!Increasing(<<>> \o Tail(c))
      /\ FifoLemmas!Range(<<>> \o Tail(c)) \subseteq FifoLemmas!Range(<<>> \o c)
  BY <1>1, <1>3, <1>4, FifoLemmas!OneLost
<1> QED
  BY <1>2, <1>3, <1>5 DEF FifoLemmas!Lose

\* The packet the worker holds arrives.
LEMMA HeldArrives ==
  ASSUME Types, wpkt # 0, wpkt' = 0, queue' = queue, last' = last,
         fed' = Append(fed, wpkt)
  PROVE  FifoLemmas!Deliver
<1>1. queue \in Seq(Nat) /\ wpkt \in Nat /\ fed \in Seq(Nat) /\ Taken \o queue \in Seq(Nat)
  BY Numbers
<1>2. Taken = <<wpkt>> /\ Taken' = <<>> /\ <<>> \o queue = queue
  BY <1>1, ConcatEmptySeq DEF Taken
<1>3. /\ Taken \o queue # <<>> /\ Head(Taken \o queue) = wpkt
      /\ Tail(Taken \o queue) = queue
  BY <1>1, <1>2, FifoLemmas!HeldFirst
<1>4. (Taken \o queue)' = Tail(Taken \o queue)
  BY <1>2, <1>3
<1> QED
  BY <1>1, <1>3, <1>4, FifoLemmas!FirstArrives

\* The worker takes the oldest packet, which stays on its way.
LEMMA TakingIsSilent ==
  ASSUME Types, wpkt = 0, queue # <<>>, wpkt' = Head(queue), queue' = Tail(queue)
  PROVE  Taken' \o queue' = Taken \o queue
<1>1. Taken \o queue = queue /\ queue \in Seq(Nat)
  BY Numbers
<1>2. wpkt' # 0
  BY QueueTail
<1> QED
  BY <1>1, <1>2, FifoLemmas!FirstTaken DEF Taken

\* Every step is a step of the channel, or none of its business.
LEMMA FifoStep == Inv /\ Ordered /\ [Next]_vars => [FifoLemmas!Next]_(FifoLemmas!vars)
<1> SUFFICES ASSUME Inv, Ordered, [Next]_vars
             PROVE  [FifoLemmas!Next]_(FifoLemmas!vars)
  OBVIOUS
<1>1. Types /\ Holding
  BY DEF Inv
<1> DEFINE Silent == UNCHANGED <<last, Taken \o queue, fed>>
<1>2. Silent \/ FifoLemmas!Next => [FifoLemmas!Next]_(FifoLemmas!vars)
  BY DEF FifoLemmas!vars
<1>3. ASSUME UNCHANGED <<packets, wpkt, fed>> PROVE Silent
  BY <1>3 DEF packets, Taken
<1>4. ASSUME NEW p \in Producers, Producer(p) PROVE Silent \/ FifoLemmas!Next
  <2>1. CASE Put(p)
    BY <1>1, <2>1, PutSends DEF FifoLemmas!Next
  <2>2. CASE Evict(p)
    <3>1. queue # <<>> /\ queue' = Tail(queue) /\ Taken' = Taken /\ last' = last /\ fed' = fed
      BY <2>2 DEF Evict, worker, Taken
    <3> QED
      BY <1>1, <3>1, OldestIsLost DEF FifoLemmas!Next
  <2>3. CASE \/ SubmitRefused(p) \/ Submit(p) \/ SubmitNone(p) \/ Receive(p)
             \/ PutFull(p) \/ PutFails(p)
    <3>1. UNCHANGED <<packets, wpkt, fed>>
      BY <2>3 DEF SubmitRefused, Submit, SubmitNone, Receive, PutFull, PutFails, worker
    <3> QED
      BY <1>3, <3>1
  <2> QED
    BY <1>4, <2>1, <2>2, <2>3 DEF Producer
<1>5. ASSUME Worker PROVE Silent \/ FifoLemmas!Next
  <2>1. CASE WorkerGet
    <3>1. /\ wpkt = 0 /\ queue # <<>> /\ wpkt' = Head(queue) /\ queue' = Tail(queue)
          /\ last' = last /\ fed' = fed
      BY <1>1, <2>1 DEF WorkerGet, Holding
    <3> QED
      BY <1>1, <3>1, TakingIsSilent
  <2>2. CASE WorkerTest
    <3>1. wpkt # 0 /\ queue' = queue /\ last' = last /\ fed' = fed
          /\ (wpkt' = 0 \/ wpkt' = wpkt)
      BY <1>1, <2>2 DEF WorkerTest, Holding, packets
    <3> QED
      BY <1>1, <1>3, <3>1, HeldIsLost DEF FifoLemmas!Next, packets
  <2>3. CASE WorkerFeed
    <3>1. wpkt # 0 /\ wpkt' = 0 /\ queue' = queue /\ last' = last
          /\ (fed' = fed \/ fed' = Append(fed, wpkt))
      BY <1>1, <2>3 DEF WorkerFeed, Holding, packets
    <3> QED
      BY <1>1, <3>1, HeldIsLost, HeldArrives DEF FifoLemmas!Next
  <2>4. CASE WorkerEnds
    BY <1>3, <2>4 DEF WorkerEnds
  <2> QED
    BY <1>5, <2>1, <2>2, <2>3, <2>4 DEF Worker
<1>6. ASSUME Pause \/ Stop \/ PauseReturns \/ Resume \/ UNCHANGED vars PROVE Silent
  BY <1>3, <1>6 DEF Pause, Stop, PauseReturns, Resume, vars, packets, worker
<1>7. ASSUME Discard PROVE FifoLemmas!Next
  <2>1. queue # <<>> /\ queue' = Tail(queue) /\ Taken' = Taken /\ last' = last /\ fed' = fed
    BY <1>7 DEF Discard, worker, Taken
  <2> QED
    BY <1>1, <2>1, OldestIsLost DEF FifoLemmas!Next
<1> HIDE DEF Silent
<1> QED
  BY <1>2, <1>4, <1>5, <1>6, <1>7 DEF Next

\* The bridge starts as an empty channel.
LEMMA FifoInit == Init => FifoLemmas!Init /\ Ordered
<1> SUFFICES ASSUME Init PROVE FifoLemmas!Init /\ Ordered
  OBVIOUS
<1>1. last = 0 /\ Taken \o queue = <<>> /\ fed = <<>>
  BY DEF Init, Taken
<1>2. FifoLemmas!Init
  BY <1>1 DEF FifoLemmas!Init
<1>3. FifoLemmas!Inv
  BY <1>1 DEF FifoLemmas!Inv, FifoLemmas!TypeOK, FifoLemmas!InOrder, FifoLemmas!Increasing
<1> QED
  BY <1>2, <1>3 DEF Ordered

\* The bridge implements the lossy channel: through evictions, pauses and the
\* stop, the router gets each packet at most once, in the order queued.
THEOREM BridgeImplementsFifo == Spec => RoutedOnceInOrder
<1>1. Inv /\ Ordered /\ [Next]_vars => Ordered'
  BY FifoStep, FifoLemmas!OrderKept DEF Ordered
<1>2. [FifoLemmas!Next]_(FifoLemmas!vars) <=> [Fifo!Next]_(Fifo!vars)
  BY DEF FifoLemmas!Next, FifoLemmas!vars, FifoLemmas!Send, FifoLemmas!Lose,
         FifoLemmas!Deliver, FifoLemmas!Increasing, FifoLemmas!Range,
         Fifo!Next, Fifo!vars, Fifo!Send, Fifo!Lose, Fifo!Deliver,
         Fifo!Increasing, Fifo!Range
<1>3. Inv /\ Ordered /\ [Next]_vars => [Fifo!Next]_(Fifo!vars)
  BY <1>2, FifoStep
<1>4. Init => Fifo!Init /\ Ordered
  BY FifoInit DEF Fifo!Init, FifoLemmas!Init
<1> QED
  BY <1>1, <1>3, <1>4, InvInit, InvStep, PTL DEF Spec, RoutedOnceInOrder, Fifo!Spec

\* What that means for the router: the packets the worker has fed it carry
\* growing numbers, so none comes twice and none overtakes another, whatever
\* was evicted, paused or discarded in between (queue_packet, packet_worker).
THEOREM PacketsInOrder ==
  Spec => [](\A i, j \in 1..Len(fed) : i < j => fed[i] < fed[j])
<1>1. Inv /\ Ordered /\ [Next]_vars => Ordered'
  BY FifoStep, FifoLemmas!OrderKept DEF Ordered
<1>2. Ordered => \A i, j \in 1..Len(fed) : i < j => fed[i] < fed[j]
  BY DEF Ordered, FifoLemmas!Inv, FifoLemmas!InOrder, FifoLemmas!Increasing
<1> QED
  BY <1>1, <1>2, FifoInit, InvInit, InvStep, PTL DEF Spec
=============================================================================
