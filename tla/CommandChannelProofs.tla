------------------------ MODULE CommandChannelProofs ------------------------
(***************************************************************************)
(* Proofs about CommandChannel for every set of threads, every number of   *)
(* commands and of lost requests: its types, the conservation of the       *)
(* queued commands, and the refinement of the lossy channel.               *)
(***************************************************************************)
EXTENDS CommandChannel, SequenceTheorems, FiniteSetTheorems, TLAPS

\* What the handler of the request the client waits for has taken for it.
Taken == IF cur # Nobody /\ held[cur] # 0 THEN <<held[cur]>> ELSE <<>>

\* The channel's lemmas, for this channel.
FifoLemmas == INSTANCE LossyFifoProofs WITH
  last <- last, chan <- Taken \o queue, got <- got

\* A handler holds a command exactly when that is its answer, and the client
\* waits while it has a request.
Holding ==
  /\ \A s \in Slots : held[s] # 0 <=> hpc[s] = "command"
  /\ cur # Nobody => cpc = "wait"

Types == TypeOK /\ Holding

\* The commands on their way are in order, and newer than those received.
Ordered == FifoLemmas!Inv

\* The places of a command, by name.
Where == {"queue", "answer", "client"} \cup Causes

At(k) == CASE k = "queue"  -> Range(queue)
           [] k = "answer" -> Range(Taken)
           [] k = "client" -> Range(got)
           [] OTHER        -> gone[k]

\* Every command that was queued is in one of them.
Split ==
  /\ \A k \in Where : At(k) \subseteq 1..last
  /\ \A c \in 1..last : \E k \in Where : c \in At(k)
  /\ \A k, l \in Where : \A c \in At(k) : c \in At(l) => k = l

Inv == Types /\ Ordered /\ Split

----------------------------------------------------------------------------
(* Types *)

\* The elements of a list of commands.
LEMMA ListFacts ==
  ASSUME NEW q \in Seq(Commands)
  PROVE  /\ Range(q) \subseteq Commands /\ Len(q) \in Nat /\ DOMAIN q = 1..Len(q)
         /\ q \in Seq(Nat)
         /\ q # <<>> => /\ Head(q) \in Commands /\ Head(q) \in Range(q)
                        /\ Tail(q) \in Seq(Commands)
<1>1. Len(q) \in Nat /\ DOMAIN q = 1..Len(q)
  BY LenProperties
<1>2. Range(q) \subseteq Commands
  BY RangeOfSeq
<1>3. ASSUME q # <<>>
      PROVE  /\ Head(q) \in Commands /\ Head(q) \in Range(q)
             /\ Tail(q) \in Seq(Commands)
  <2>1. Head(q) \in Commands /\ Head(q) = q[1] /\ Len(q) \in Nat \ {0}
        /\ Tail(q) \in Seq(Commands)
    BY <1>3, FifoLemmas!TailFacts
  <2> QED
    BY <1>1, <2>1 DEF Range
<1>4. Commands \subseteq Nat
  BY DEF Commands
<1> QED
  BY <1>1, <1>2, <1>3, <1>4, SeqMonotonic

\* Every step keeps the types.
LEMMA TypesStep == Types /\ [Next]_vars => Types'
<1> SUFFICES ASSUME Types, [Next]_vars PROVE Types'
  OBVIOUS
<1>1. TypeOK /\ Holding /\ MaxCommands \in Nat /\ MaxLost \in Nat /\ Nobody \notin Slots
  BY BoundAssumption, NobodyAssumption DEF Types
<1>2. ASSUME NEW p \in Producers, QueueTest(p) PROVE Types'
  BY <1>1, <1>2 DEF QueueTest, client, Types, TypeOK, Holding
<1>3. ASSUME NEW p \in Producers, QueueAssign(p) PROVE Types'
  <2>1. Range(queue) \subseteq Commands /\ <<>> \in Seq(Commands)
    BY <1>1, ListFacts DEF TypeOK
  <2>2. gone' \in [Causes -> SUBSET Commands]
    BY <1>1, <1>3, <2>1 DEF QueueAssign, Lose, TypeOK, Causes
  <2> QED
    BY <1>1, <1>3, <2>1, <2>2 DEF QueueAssign, client, Types, TypeOK, Holding
<1>4. ASSUME NEW p \in Producers, QueueAppend(p) PROVE Types'
  <2>1. last + 1 \in Commands /\ last + 1 \in 0..MaxCommands
    BY <1>1, <1>4 DEF QueueAppend, TypeOK, Commands
  <2>2. queue \in Seq(Commands)
    BY <1>1 DEF TypeOK
  <2>3. queue' \in Seq(Commands)
    BY <1>4, <2>1, <2>2, AppendProperties DEF QueueAppend
  <2> QED
    BY <1>1, <1>4, <2>1, <2>3 DEF QueueAppend, client, Types, TypeOK, Holding
<1>5. ASSUME NEW s \in Slots,
             HandlerTest(s) \/ HandlerLook(s) \/ HandlerPopFails(s)
      PROVE  Types'
  <2>1. /\ UNCHANGED <<listed, queue, last, prod, held, client, gone, lost>>
        /\ hpc[s] # "command"
        /\ \E a \in {"look", "empty", "pop", "error"} : hpc' = [hpc EXCEPT ![s] = a]
    BY <1>5 DEF HandlerTest, HandlerLook, HandlerPopFails, Answer
  <2> QED
    BY <1>1, <2>1 DEF client, Types, TypeOK, Holding
<1>6. ASSUME NEW s \in Slots, HandlerPop(s) PROVE Types'
  <2>1. /\ queue \in Seq(Commands) /\ queue # <<>> /\ queue' = Tail(queue)
        /\ held' = [held EXCEPT ![s] = Head(queue)]
        /\ hpc' = [hpc EXCEPT ![s] = "command"]
        /\ gone' = gone \/ Lose("abandoned", {Head(queue)})
    BY <1>1, <1>6 DEF HandlerPop, TakeFor, Answer, TypeOK
  <2>2. Head(queue) \in Commands /\ Tail(queue) \in Seq(Commands)
    BY <2>1, ListFacts
  <2>3. Head(queue) # 0 /\ Head(queue) \in 0..MaxCommands
    BY <1>1, <2>2 DEF Commands
  <2>4. gone' \in [Causes -> SUBSET Commands]
    BY <1>1, <2>1, <2>2 DEF Lose, TypeOK, Causes
  <2> QED
    BY <1>1, <1>6, <2>1, <2>2, <2>3, <2>4
       DEF HandlerPop, client, Types, TypeOK, Holding
<1>7. ASSUME NEW s \in Slots, HandlerEnds(s) PROVE Types'
  BY <1>1, <1>7 DEF HandlerEnds, Answer, client, Types, TypeOK, Holding
<1>8. ASSUME NEW s \in Slots, Poll(s) PROVE Types'
  BY <1>1, <1>8 DEF Poll, Answer, Types, TypeOK, Holding
<1>9. ASSUME Receive PROVE Types'
  <2>1. cur \in Slots /\ got \in Seq(Commands)
    BY <1>1, <1>9 DEF Receive, TypeOK
  <2>2. got' \in Seq(Commands)
    <3>1. CASE hpc[cur] = "command"
      <4>1. held[cur] \in Commands
        BY <1>1, <2>1, <3>1 DEF TypeOK, Holding, Commands
      <4> QED
        BY <1>9, <2>1, <3>1, <4>1, AppendProperties DEF Receive
    <3> QED
      BY <1>9, <2>1, <3>1 DEF Receive
  <2> QED
    BY <1>1, <1>9, <2>1, <2>2 DEF Receive, Answer, Types, TypeOK, Holding
<1>10. ASSUME GiveUp PROVE Types'
  <2>1. {held[cur]} \ {0} \subseteq Commands
    BY <1>1, <1>10 DEF GiveUp, TypeOK, Commands
  <2>2. gone' \in [Causes -> SUBSET Commands]
    BY <1>1, <1>10, <2>1 DEF GiveUp, Lose, TypeOK, Causes
  <2> QED
    BY <1>1, <1>10, <2>2 DEF GiveUp, server, Types, TypeOK, Holding
<1>11. ASSUME Execute \/ GiveUpUnheard PROVE Types'
  BY <1>1, <1>11 DEF Execute, GiveUpUnheard, server, Types, TypeOK, Holding
<1>12. ASSUME RequestLost PROVE Types'
  <2>1. lost' \in 0..MaxLost
    BY <1>1, <1>12 DEF RequestLost, TypeOK
  <2> QED
    BY <1>1, <1>12, <2>1 DEF RequestLost, server, Types, TypeOK, Holding
<1>13. ASSUME ServerRestart PROVE Types'
  <2>1. Range(queue) \subseteq Commands /\ <<>> \in Seq(Commands)
    BY <1>1, ListFacts DEF TypeOK
  <2>2. (IF cur = Nobody THEN {} ELSE {held[cur]} \ {0}) \subseteq Commands
    BY <1>1 DEF TypeOK, Commands
  <2>3. gone' \in [Causes -> SUBSET Commands]
    BY <1>1, <1>13, <2>1, <2>2 DEF ServerRestart, TypeOK, Causes
  <2>4. /\ hpc' = [s \in Slots |-> "free"] /\ held' = [s \in Slots |-> 0]
        /\ 0 \in 0..MaxCommands /\ cur' = Nobody
    BY <1>1, <1>13 DEF ServerRestart
  <2>5. /\ hpc' \in [Slots -> {"free", "test", "look", "pop", "empty", "command", "error"}]
        /\ held' \in [Slots -> 0..MaxCommands]
    BY <2>4
  <2>6. prod' \in [Producers -> {"idle", "assign", "append"}]
    BY <1>13 DEF ServerRestart
  <2>7. UNCHANGED <<last, cpc, got, lost>> /\ listed' = FALSE /\ queue' = <<>>
    BY <1>13 DEF ServerRestart
  <2>8. Holding'
    BY <2>4 DEF Holding
  <2>9. TypeOK'
    BY <1>1, <2>1, <2>3, <2>4, <2>5, <2>6, <2>7 DEF TypeOK
  <2> QED
    BY <2>8, <2>9 DEF Types
<1>14. ASSUME UNCHANGED vars PROVE Types'
  BY <1>1, <1>14 DEF vars, Types, TypeOK, Holding
<1> QED
  BY <1>2, <1>3, <1>4, <1>5, <1>6, <1>7, <1>8, <1>9, <1>10, <1>11, <1>12,
     <1>13, <1>14 DEF Next, Producer, Handler, Client

----------------------------------------------------------------------------
(* The refinement of LossyFifo *)

\* The commands' numbers are natural numbers.
LEMMA Numbers ==
  ASSUME Types
  PROVE  /\ queue \in Seq(Nat) /\ got \in Seq(Nat) /\ Taken \in Seq(Nat)
         /\ last \in Nat /\ Taken \o queue \in Seq(Nat)
         /\ <<>> \o queue = queue /\ <<>> \o (Taken \o queue) = Taken \o queue
         /\ Taken \o <<>> = Taken /\ <<>> \in Seq(Nat)
<1>1. queue \in Seq(Nat) /\ got \in Seq(Nat) /\ last \in Nat
  BY ListFacts, BoundAssumption DEF Types, TypeOK
<1>2. cur # Nobody => held[cur] \in Nat
  BY BoundAssumption DEF Types, TypeOK
<1>3. Taken \in Seq(Nat)
  BY <1>2 DEF Taken
<1>4. Taken \o queue \in Seq(Nat)
  BY <1>1, <1>3, ConcatProperties
<1> QED
  BY <1>1, <1>3, <1>4, ConcatEmptySeq

\* The list of a key that two queue_command found missing is lost.
LEMMA ListIsLost ==
  ASSUME Types, Ordered, queue' = <<>>, Taken' \in {Taken, <<>>},
         last' = last, got' = got
  PROVE  FifoLemmas!Lose
<1>1. /\ queue \in Seq(Nat) /\ Taken \in Seq(Nat) /\ Taken \o queue \in Seq(Nat)
      /\ <<>> \o (Taken \o queue) = Taken \o queue /\ <<>> \in Seq(Nat)
      /\ Taken \o <<>> = Taken /\ <<>> \o <<>> = <<>>
  BY Numbers
<1>2. FifoLemmas!Increasing(Taken \o queue)
  BY DEF Ordered, FifoLemmas!Inv, FifoLemmas!InOrder
<1>3. /\ FifoLemmas!Increasing(Taken)
      /\ FifoLemmas!Range(Taken) \subseteq FifoLemmas!Range(Taken \o queue)
  BY <1>1, <1>2, FifoLemmas!RestLost
<1>4. /\ FifoLemmas!Increasing(<<>>)
      /\ FifoLemmas!Range(<<>>) \subseteq FifoLemmas!Range(Taken \o queue)
  BY <1>1, <1>2, FifoLemmas!RestLost
<1>5. Taken' \o queue' \in {Taken, <<>>}
  BY <1>1
<1> QED
  BY <1>1, <1>3, <1>4, <1>5 DEF FifoLemmas!Lose

\* What a handler takes for a client that has left is lost.
LEMMA OldestIsLost ==
  ASSUME Types, Ordered, queue # <<>>, queue' = Tail(queue), Taken' = Taken,
         last' = last, got' = got
  PROVE  FifoLemmas!Lose
<1>1. queue \in Seq(Nat) /\ Taken \in Seq(Nat)
  BY Numbers
<1>2. FifoLemmas!Increasing(Taken \o queue)
  BY DEF Ordered, FifoLemmas!Inv, FifoLemmas!InOrder
<1>3. /\ Taken \o Tail(queue) \in Seq(Nat)
      /\ FifoLemmas!Increasing(Taken \o Tail(queue))
      /\ FifoLemmas!Range(Taken \o Tail(queue)) \subseteq FifoLemmas!Range(Taken \o queue)
  BY <1>1, <1>2, FifoLemmas!OneLost
<1> QED
  BY <1>3 DEF FifoLemmas!Lose

\* The answer to a client that gives up is lost.
LEMMA AnswerIsLost ==
  ASSUME Types, Ordered, cur # Nobody, held[cur] # 0, cur' = Nobody,
         queue' = queue, last' = last, got' = got
  PROVE  FifoLemmas!Lose
<1> DEFINE c == Taken \o queue
<1>1. /\ queue \in Seq(Nat) /\ <<>> \in Seq(Nat) /\ c \in Seq(Nat) /\ held[cur] \in Nat
      /\ <<>> \o queue = queue /\ <<>> \o c = c
  BY Numbers, BoundAssumption DEF Types, TypeOK
<1>2. Taken = <<held[cur]>> /\ Taken' = <<>>
  BY DEF Taken
<1>3. c # <<>> /\ Tail(c) = queue
  BY <1>1, <1>2, FifoLemmas!HeldFirst
<1>4. FifoLemmas!Increasing(<<>> \o c)
  BY <1>1 DEF Ordered, FifoLemmas!Inv, FifoLemmas!InOrder
<1>5. /\ <<>> \o Tail(c) \in Seq(Nat) /\ FifoLemmas!Increasing(<<>> \o Tail(c))
      /\ FifoLemmas!Range(<<>> \o Tail(c)) \subseteq FifoLemmas!Range(<<>> \o c)
  BY <1>1, <1>3, <1>4, FifoLemmas!OneLost
<1> QED
  BY <1>1, <1>2, <1>3, <1>5 DEF FifoLemmas!Lose

\* The answer arrives.
LEMMA AnswerArrives ==
  ASSUME Types, cur # Nobody, held[cur] # 0, cur' = Nobody,
         queue' = queue, last' = last, got' = Append(got, held[cur])
  PROVE  FifoLemmas!Deliver
<1>1. /\ queue \in Seq(Nat) /\ got \in Seq(Nat) /\ Taken \o queue \in Seq(Nat)
      /\ held[cur] \in Nat /\ <<>> \o queue = queue
  BY Numbers, BoundAssumption DEF Types, TypeOK
<1>2. Taken = <<held[cur]>> /\ Taken' = <<>>
  BY DEF Taken
<1>3. /\ Taken \o queue # <<>> /\ Head(Taken \o queue) = held[cur]
      /\ Tail(Taken \o queue) = queue
  BY <1>1, <1>2, FifoLemmas!HeldFirst
<1>4. (Taken \o queue)' = Tail(Taken \o queue)
  BY <1>1, <1>2, <1>3
<1> QED
  BY <1>1, <1>3, <1>4, FifoLemmas!FirstArrives

\* Only the request the client waits for decides what is taken for it.
LEMMA TakenStays ==
  ASSUME cur' = cur, cur # Nobody => held'[cur] = held[cur]
  PROVE  Taken' = Taken
  BY DEF Taken

\* Every step is a step of the channel, or none of its business.
LEMMA FifoStep == Types /\ Ordered /\ [Next]_vars => [FifoLemmas!Next]_(FifoLemmas!vars)
<1> SUFFICES ASSUME Types, Ordered, [Next]_vars
             PROVE  [FifoLemmas!Next]_(FifoLemmas!vars)
  OBVIOUS
<1> DEFINE Silent == UNCHANGED <<last, Taken \o queue, got>>
<1>1. Silent \/ FifoLemmas!Next => [FifoLemmas!Next]_(FifoLemmas!vars)
  BY DEF FifoLemmas!vars
<1>2. TypeOK /\ Holding /\ Nobody \notin Slots /\ held \in [Slots -> 0..MaxCommands]
  BY NobodyAssumption DEF Types, TypeOK
<1>3. ASSUME UNCHANGED <<last, queue, got, cur, held>> PROVE Silent
  BY <1>3, TakenStays
<1>4. ASSUME NEW p \in Producers, Producer(p) PROVE Silent \/ FifoLemmas!Next
  <2>1. CASE QueueTest(p)
    BY <1>3, <2>1 DEF QueueTest, client
  <2>2. CASE QueueAssign(p)
    <3>1. queue' = <<>> /\ Taken' = Taken /\ last' = last /\ got' = got
      BY <2>2, TakenStays DEF QueueAssign, client
    <3> QED
      BY <3>1, ListIsLost DEF FifoLemmas!Next
  <2>3. CASE QueueAppend(p)
    <3>1. /\ queue' = Append(queue, last + 1) /\ last' = last + 1 /\ got' = got
          /\ Taken' = Taken
      BY <2>3, TakenStays DEF QueueAppend, client
    <3>2. /\ queue \in Seq(Nat) /\ Taken \in Seq(Nat) /\ last \in Nat
          /\ last + 1 \in Nat /\ last < last + 1
      BY Numbers
    <3>3. Taken \o Append(queue, last + 1) = Append(Taken \o queue, last + 1)
      BY <3>2, FifoLemmas!OneSent
    <3> QED
      BY <3>1, <3>2, <3>3 DEF FifoLemmas!Next, FifoLemmas!Send
  <2> QED
    BY <1>4, <2>1, <2>2, <2>3 DEF Producer
<1>5. ASSUME NEW s \in Slots, Handler(s) PROVE Silent \/ FifoLemmas!Next
  <2>1. CASE HandlerTest(s) \/ HandlerLook(s) \/ HandlerPopFails(s)
    BY <1>3, <2>1 DEF HandlerTest, HandlerLook, HandlerPopFails, client
  <2>2. CASE HandlerPop(s)
    <3>1. /\ queue # <<>> /\ queue' = Tail(queue) /\ last' = last /\ got' = got
          /\ cur' = cur /\ held' = [held EXCEPT ![s] = Head(queue)]
          /\ held[s] = 0
      BY <1>2, <2>2 DEF HandlerPop, TakeFor, client, Holding
    <3>2. CASE s = cur
      <4>1. queue \in Seq(Nat) /\ Head(queue) \in Commands /\ Head(queue) # 0
        BY <1>2, <3>1, ListFacts DEF TypeOK, Commands
      <4>2. Taken = <<>> /\ Taken' = <<Head(queue)>>
        BY <1>2, <3>1, <3>2, <4>1 DEF Taken
      <4>3. <<>> \o queue = queue
        BY Numbers
      <4>4. <<Head(queue)>> \o Tail(queue) = queue
        BY <3>1, <4>1, FifoLemmas!FirstTaken
      <4> QED
        BY <3>1, <4>2, <4>3, <4>4
    <3>3. CASE s # cur
      <4>1. Taken' = Taken
        BY <1>2, <3>1, <3>3, TakenStays
      <4> QED
        BY <3>1, <4>1, OldestIsLost DEF FifoLemmas!Next
    <3> QED
      BY <3>2, <3>3
  <2>3. CASE HandlerEnds(s)
    <3>1. Taken' = Taken
      BY <1>2, <2>3, TakenStays DEF HandlerEnds, client
    <3> QED
      BY <2>3, <3>1 DEF HandlerEnds, client
  <2> QED
    BY <1>5, <2>1, <2>2, <2>3 DEF Handler
<1>6. ASSUME NEW s \in Slots, Poll(s) PROVE Silent
  <2>1. /\ cur = Nobody /\ cur' = s /\ held[s] = 0
        /\ UNCHANGED <<last, queue, got, held>>
    BY <1>2, <1>6 DEF Poll, Holding
  <2>2. Taken = <<>> /\ Taken' = <<>>
    BY <1>2, <2>1 DEF Taken
  <2> QED
    BY <2>1, <2>2
<1>7. ASSUME Receive PROVE Silent \/ FifoLemmas!Next
  <2>1. cur # Nobody /\ cur \in Slots /\ cur' = Nobody /\ UNCHANGED <<last, queue>>
    BY <1>2, <1>7 DEF Receive, TypeOK
  <2>2. CASE held[cur] # 0
    <3>1. got' = Append(got, held[cur])
      BY <1>2, <1>7, <2>1, <2>2 DEF Receive, Holding
    <3> QED
      BY <2>1, <2>2, <3>1, AnswerArrives DEF FifoLemmas!Next
  <2>3. CASE held[cur] = 0
    <3>1. got' = got
      BY <1>2, <1>7, <2>1, <2>3 DEF Receive, Holding
    <3>2. Taken = <<>> /\ Taken' = <<>>
      BY <2>1, <2>3 DEF Taken
    <3> QED
      BY <2>1, <3>1, <3>2
  <2> QED
    BY <2>2, <2>3
<1>8. ASSUME GiveUp PROVE Silent \/ FifoLemmas!Next
  <2>1. cur # Nobody /\ cur' = Nobody /\ UNCHANGED <<last, queue, got>>
    BY <1>8 DEF GiveUp, server
  <2>2. CASE held[cur] # 0
    BY <2>1, <2>2, AnswerIsLost DEF FifoLemmas!Next
  <2>3. CASE held[cur] = 0
    <3>1. Taken = <<>> /\ Taken' = <<>>
      BY <2>1, <2>3 DEF Taken
    <3> QED
      BY <2>1, <3>1
  <2> QED
    BY <2>2, <2>3
<1>9. ASSUME Execute \/ GiveUpUnheard \/ RequestLost \/ UNCHANGED vars PROVE Silent
  BY <1>3, <1>9 DEF Execute, GiveUpUnheard, RequestLost, server, client, vars
<1>10. ASSUME ServerRestart PROVE FifoLemmas!Next
  <2>1. queue' = <<>> /\ cur' = Nobody /\ last' = last /\ got' = got
    BY <1>10 DEF ServerRestart
  <2>2. Taken' = <<>>
    BY <2>1 DEF Taken
  <2> QED
    BY <2>1, <2>2, ListIsLost DEF FifoLemmas!Next
<1> HIDE DEF Silent
<1> QED
  BY <1>1, <1>4, <1>5, <1>6, <1>7, <1>8, <1>9, <1>10 DEF Next, Client

----------------------------------------------------------------------------
(* Where the commands are *)

\* The places by name, in this state and in the next.
LEMMA AtNames ==
  /\ At("queue") = Range(queue) /\ At("queue")' = Range(queue')
  /\ At("answer") = Range(Taken) /\ At("answer")' = Range(Taken')
  /\ At("client") = Range(got) /\ At("client")' = Range(got')
  /\ \A k \in Causes : At(k) = gone[k] /\ At(k)' = gone'[k]
  /\ Where = {"queue", "answer", "client"} \cup Causes
  /\ "queue" \notin Causes /\ "answer" \notin Causes /\ "client" \notin Causes
  BY DEF At, Where, Causes

\* Elements of the short lists.
LEMMA ShortRanges ==
  /\ Range(<<>>) = {}
  /\ \A x : Range(<<x>>) = {x}
  /\ Range(Taken) = IF cur # Nobody /\ held[cur] # 0 THEN {held[cur]} ELSE {}
<1>1. Range(<<>>) = {}
  BY DEF Range
<1>2. ASSUME NEW x PROVE Range(<<x>>) = {x}
  <2>1. DOMAIN <<x>> = {1} /\ <<x>>[1] = x
    OBVIOUS
  <2> QED
    BY <2>1 DEF Range
<1> QED
  BY <1>1, <1>2 DEF Taken

\* A command more in a list.
LEMMA AppendRange ==
  ASSUME NEW q \in Seq(Nat), NEW x \in Nat
  PROVE  Range(Append(q, x)) = Range(q) \cup {x}
<1>1. Append(q, x) = q \o <<x>> /\ <<x>> \in Seq(Nat)
  BY AppendIsConcat
<1>2. Range(q \o <<x>>) = Range(q) \cup Range(<<x>>)
  <2> DEFINE o == <<x>>
  <2>1. o \in Seq(Nat)
    BY <1>1
  <2> HIDE DEF o
  <2>2. Range(q \o o) = Range(q) \cup Range(o)
    BY <2>1, RangeConcatenation
  <2> QED
    BY <2>2 DEF o
<1> QED
  BY <1>1, <1>2, ShortRanges

\* Commands move from some of the places to another one.
LEMMA Moved ==
  ASSUME Split, last' = last, NEW F \in SUBSET Where, NEW to \in Where \ F, NEW X,
         \A c \in X : \E k \in F : c \in At(k),
         \A k \in F : At(k)' = At(k) \ X,
         \A k \in Where \ (F \cup {to}) : At(k)' = At(k),
         At(to)' = At(to) \cup X
  PROVE  Split'
<1>1. \A k \in Where : At(k)' \subseteq 1..last'
  BY DEF Split
<1>2. \A c \in 1..last' : \E k \in Where : c \in At(k)'
  BY DEF Split
<1>3. ASSUME NEW k \in Where, NEW l \in Where, NEW c, c \in At(k)', c \in At(l)'
      PROVE  k = l
  <2>1. CASE c \in X
    <3>1. PICK f \in F : c \in At(f)
      BY <2>1
    <3>2. ASSUME NEW m \in Where, c \in At(m)' PROVE m = to
      <4>1. m \notin F
        BY <2>1, <3>2
      <4>2. m # to => c \in At(m)
        BY <3>2, <4>1
      <4> QED
        BY <3>1, <4>1, <4>2 DEF Split
    <3> QED
      BY <1>3, <3>2
  <2>2. CASE c \notin X
    <3>1. c \in At(k) /\ c \in At(l)
      BY <1>3, <2>2
    <3> QED
      BY <3>1 DEF Split
  <2> QED
    BY <2>1, <2>2
<1> QED
  BY <1>1, <1>2, <1>3 DEF Split

\* The same when they move from one place.
Moves(X, from, to) ==
  /\ from \in Where /\ to \in Where /\ from # to /\ X \subseteq At(from)
  /\ At(from)' = At(from) \ X /\ At(to)' = At(to) \cup X
  /\ \A k \in Where : k # from /\ k # to => At(k)' = At(k)

LEMMA MovedFrom ==
  ASSUME Split, last' = last, NEW X, NEW from, NEW to, Moves(X, from, to)
  PROVE  Split'
<1>1. {from} \in SUBSET Where /\ to \in Where \ {from}
  BY DEF Moves
<1>2. \A c \in X : \E k \in {from} : c \in At(k)
  BY DEF Moves
<1>3. \A k \in {from} : At(k)' = At(k) \ X
  BY DEF Moves
<1>4. \A k \in Where \ ({from} \cup {to}) : At(k)' = At(k)
  BY DEF Moves
<1>5. At(to)' = At(to) \cup X
  BY DEF Moves
<1> QED
  BY <1>1, <1>2, <1>3, <1>4, <1>5, Moved

\* Nothing moves.
LEMMA NothingMoves ==
  ASSUME Split, last' = last, queue' = queue, got' = got, gone' = gone,
         Range(Taken') = Range(Taken)
  PROVE  Split'
<1>1. \A k \in Where : At(k)' = At(k)
  BY AtNames
<1> QED
  BY <1>1 DEF Split

\* Every step keeps each queued command in one place.
LEMMA SplitStep == Inv /\ [Next]_vars => Split'
<1> SUFFICES ASSUME Inv, [Next]_vars PROVE Split'
  OBVIOUS
<1>1. /\ Split /\ Types /\ TypeOK /\ Holding /\ Nobody \notin Slots
      /\ queue \in Seq(Nat) /\ got \in Seq(Nat) /\ last \in Nat
      /\ gone \in [Causes -> SUBSET Commands]
  BY Numbers, NobodyAssumption DEF Inv, Types, TypeOK
<1>2. FifoLemmas!Increasing(queue)
  <2>1. FifoLemmas!Increasing(Taken \o queue) /\ Taken \in Seq(Nat)
    BY <1>1, Numbers DEF Inv, Ordered, FifoLemmas!Inv, FifoLemmas!InOrder
  <2> QED
    BY <1>1, <2>1, FifoLemmas!PartsInOrder
<1>3. ASSUME UNCHANGED <<last, queue, got, gone, cur, held>> PROVE Split'
  BY <1>1, <1>3, NothingMoves, TakenStays
<1>4. ASSUME NEW p \in Producers, Producer(p) PROVE Split'
  <2>1. CASE QueueTest(p)
    BY <1>3, <2>1 DEF QueueTest, client
  <2>2. CASE QueueAssign(p)
    <3>1. /\ queue' = <<>> /\ Taken' = Taken /\ last' = last /\ got' = got
          /\ gone' = [gone EXCEPT !["overwritten"] = @ \cup Range(queue)]
      BY <2>2, TakenStays DEF QueueAssign, Lose, client
    <3>2. /\ "queue" \in Where /\ "overwritten" \in Where /\ "queue" # "overwritten"
          /\ At("queue")' = At("queue") \ Range(queue)
          /\ At("overwritten")' = At("overwritten") \cup Range(queue)
          /\ Range(queue) \subseteq At("queue")
      BY <1>1, <3>1, AtNames, ShortRanges DEF Causes
    <3>3. \A k \in Where : k # "queue" /\ k # "overwritten" => At(k)' = At(k)
      BY <1>1, <3>1, AtNames DEF Causes
    <3>4. Split /\ last' = last
      BY <1>1, <3>1
    <3>5. Moves(Range(queue), "queue", "overwritten")
      BY <3>2, <3>3 DEF Moves
    <3> QED
      BY <3>4, <3>5, MovedFrom
  <2>3. CASE QueueAppend(p)
    <3>1. /\ queue' = Append(queue, last + 1) /\ last' = last + 1 /\ got' = got
          /\ Taken' = Taken /\ gone' = gone
      BY <2>3, TakenStays DEF QueueAppend, client
    <3>2. last + 1 \in Nat /\ 1..last' = (1..last) \cup {last + 1} /\ last + 1 \notin 1..last
      BY <1>1, <3>1
    <3>3. /\ At("queue")' = At("queue") \cup {last + 1}
          /\ \A k \in Where \ {"queue"} : At(k)' = At(k)
      BY <1>1, <3>1, <3>2, AtNames, AppendRange
    <3>4. "queue" \in Where /\ Split
      BY <1>1, AtNames
    <3> QED
      BY <3>2, <3>3, <3>4 DEF Split
  <2> QED
    BY <1>4, <2>1, <2>2, <2>3 DEF Producer
<1>5. ASSUME NEW s \in Slots, Handler(s) PROVE Split'
  <2>1. CASE HandlerTest(s) \/ HandlerLook(s) \/ HandlerPopFails(s)
    BY <1>3, <2>1 DEF HandlerTest, HandlerLook, HandlerPopFails, client
  <2>2. CASE HandlerPop(s)
    <3> DEFINE h == Head(queue)
    <3>1. /\ queue # <<>> /\ queue' = Tail(queue) /\ last' = last /\ got' = got
          /\ cur' = cur /\ held' = [held EXCEPT ![s] = h] /\ held[s] = 0
          /\ held \in [Slots -> 0..MaxCommands]
      BY <1>1, <2>2 DEF HandlerPop, TakeFor, client, Holding, TypeOK
    <3>2. /\ Range(Tail(queue)) = Range(queue) \ {h} /\ h \in Range(queue)
      BY <1>1, <1>2, <3>1, FifoLemmas!TailRange DEF FifoLemmas!Range, Range
    <3>3. h # 0
      BY <1>1, <3>1, ListFacts DEF TypeOK, Commands
    <3>4. /\ At("queue")' = At("queue") \ {h} /\ {h} \subseteq At("queue")
          /\ "queue" \in Where /\ Split /\ last' = last
      BY <1>1, <3>1, <3>2, AtNames
    <3>5. CASE s = cur
      <4>1. gone' = gone /\ Range(Taken) = {} /\ Range(Taken') = {h}
        <5>1. gone' = gone
          BY <2>2, <3>5 DEF HandlerPop, TakeFor
        <5>2. Taken = <<>> /\ Taken' = <<h>>
          BY <1>1, <3>1, <3>3, <3>5 DEF Taken
        <5> QED
          BY <5>1, <5>2, ShortRanges
      <4>2. At("answer")' = At("answer") \cup {h} /\ "answer" \in Where
        BY <4>1, AtNames
      <4>3. \A k \in Where : k # "queue" /\ k # "answer" => At(k)' = At(k)
        BY <3>1, <4>1, AtNames
      <4>4. Moves({h}, "queue", "answer")
        BY <3>4, <4>2, <4>3 DEF Moves
      <4> QED
        BY <3>4, <4>4, MovedFrom
    <3>6. CASE s # cur
      <4>1. /\ gone' = [gone EXCEPT !["abandoned"] = @ \cup {h}]
            /\ Taken' = Taken
        BY <1>1, <2>2, <3>1, <3>6, TakenStays DEF HandlerPop, TakeFor, Lose
      <4>2. /\ At("abandoned")' = At("abandoned") \cup {h}
            /\ "abandoned" \in Where
        BY <1>1, <4>1, AtNames DEF Causes
      <4>3. \A k \in Where : k # "queue" /\ k # "abandoned" => At(k)' = At(k)
        BY <1>1, <3>1, <4>1, AtNames DEF Causes
      <4>4. Moves({h}, "queue", "abandoned")
        BY <3>4, <4>2, <4>3 DEF Moves
      <4> QED
        BY <3>4, <4>4, MovedFrom
    <3> QED
      BY <3>5, <3>6
  <2>3. CASE HandlerEnds(s)
    <3>1. Taken' = Taken
      BY <1>1, <2>3, TakenStays DEF HandlerEnds, client, TypeOK
    <3> QED
      BY <1>1, <2>3, <3>1, NothingMoves DEF HandlerEnds, client
  <2> QED
    BY <1>5, <2>1, <2>2, <2>3 DEF Handler
<1>6. ASSUME NEW s \in Slots, Poll(s) PROVE Split'
  <2>1. /\ cur = Nobody /\ cur' = s /\ held[s] = 0
        /\ UNCHANGED <<last, queue, got, gone, held>>
    BY <1>1, <1>6 DEF Poll, Holding
  <2>2. Taken = <<>> /\ Taken' = <<>>
    BY <1>1, <2>1 DEF Taken
  <2> QED
    BY <1>1, <2>1, <2>2, NothingMoves
<1>7. ASSUME Receive PROVE Split'
  <2>1. /\ cur # Nobody /\ cur \in Slots /\ cur' = Nobody
        /\ UNCHANGED <<last, queue, gone>> /\ Taken' = <<>>
    BY <1>1, <1>7 DEF Receive, TypeOK, Taken
  <2>2. CASE held[cur] # 0
    <3>1. got' = Append(got, held[cur]) /\ held[cur] \in Nat
      BY <1>1, <1>7, <2>1, <2>2, BoundAssumption DEF Receive, Holding, TypeOK
    <3>2. Range(got') = Range(got) \cup {held[cur]} /\ Range(Taken) = {held[cur]}
          /\ Range(Taken') = {}
      BY <1>1, <2>1, <2>2, <3>1, AppendRange, ShortRanges
    <3>3. /\ "answer" \in Where /\ "client" \in Where /\ Split /\ last' = last
          /\ At("answer")' = At("answer") \ {held[cur]}
          /\ At("client")' = At("client") \cup {held[cur]}
          /\ {held[cur]} \subseteq At("answer")
          /\ \A k \in Where : k # "answer" /\ k # "client" => At(k)' = At(k)
      BY <1>1, <2>1, <3>2, AtNames
    <3>4. Moves({held[cur]}, "answer", "client")
      BY <3>3 DEF Moves
    <3> QED
      BY <3>3, <3>4, MovedFrom
  <2>3. CASE held[cur] = 0
    <3>1. got' = got /\ Taken = <<>>
      BY <1>1, <1>7, <2>1, <2>3 DEF Receive, Holding, Taken
    <3> QED
      BY <1>1, <2>1, <3>1, NothingMoves
  <2> QED
    BY <2>2, <2>3
<1>8. ASSUME GiveUp PROVE Split'
  <2>1. /\ cur # Nobody /\ cur' = Nobody /\ UNCHANGED <<last, queue, got>>
        /\ gone' = [gone EXCEPT !["abandoned"] = @ \cup ({held[cur]} \ {0})]
        /\ Taken' = <<>>
    BY <1>8 DEF GiveUp, Lose, server, Taken
  <2>2. Range(Taken) = {held[cur]} \ {0} /\ Range(Taken') = {}
    BY <2>1, ShortRanges
  <2>3. /\ "answer" \in Where /\ "abandoned" \in Where /\ Split /\ last' = last
        /\ At("answer")' = At("answer") \ ({held[cur]} \ {0})
        /\ At("abandoned")' = At("abandoned") \cup ({held[cur]} \ {0})
        /\ {held[cur]} \ {0} \subseteq At("answer")
    BY <1>1, <2>1, <2>2, AtNames DEF Causes
  <2>4. \A k \in Where : k # "answer" /\ k # "abandoned" => At(k)' = At(k)
    BY <1>1, <2>1, AtNames DEF Causes
  <2>5. Moves({held[cur]} \ {0}, "answer", "abandoned")
    BY <2>3, <2>4 DEF Moves
  <2> QED
    BY <2>3, <2>5, MovedFrom
<1>9. ASSUME Execute \/ GiveUpUnheard \/ RequestLost \/ UNCHANGED vars PROVE Split'
  BY <1>3, <1>9 DEF Execute, GiveUpUnheard, RequestLost, server, client, vars
<1>10. ASSUME ServerRestart PROVE Split'
  <2> DEFINE X == Range(queue) \cup Range(Taken)
  <2>1. /\ queue' = <<>> /\ Taken' = <<>> /\ last' = last /\ got' = got
    BY <1>10 DEF ServerRestart, Taken
  <2>2. gone' = [gone EXCEPT !["restart"] = @ \cup X]
    BY <1>10, ShortRanges DEF ServerRestart
  <2>3. /\ {"queue", "answer"} \in SUBSET Where /\ "restart" \in Where \ {"queue", "answer"}
        /\ \A k \in {"queue", "answer"} : At(k)' = At(k) \ X
        /\ \A c \in X : \E k \in {"queue", "answer"} : c \in At(k)
    BY <2>1, AtNames, ShortRanges DEF Causes
  <2>4. At("restart")' = At("restart") \cup X
    BY <1>1, <2>2, AtNames DEF Causes
  <2>5. \A k \in Where \ ({"queue", "answer"} \cup {"restart"}) : At(k)' = At(k)
    BY <1>1, <2>1, <2>2, AtNames DEF Causes
  <2> QED
    BY <1>1, <2>1, <2>3, <2>4, <2>5, Moved
<1> QED
  BY <1>4, <1>5, <1>6, <1>7, <1>8, <1>9, <1>10 DEF Next, Client

\* The first state.
LEMMA InvInit == Init => Inv /\ FifoLemmas!Init
<1> SUFFICES ASSUME Init PROVE Inv /\ FifoLemmas!Init
  OBVIOUS
<1>1. /\ last = 0 /\ queue = <<>> /\ got = <<>> /\ cur = Nobody /\ Taken = <<>>
      /\ Taken \o queue = <<>> /\ \A k \in Causes : gone[k] = {}
  BY DEF Init, Taken
<1>2. Types
  <2>1. 0 \in 0..MaxCommands /\ 0 \in 0..MaxLost /\ <<>> \in Seq(Commands)
    BY BoundAssumption
  <2>2. gone \in [Causes -> SUBSET Commands] /\ held \in [Slots -> 0..MaxCommands]
    BY <2>1 DEF Init
  <2> QED
    BY <2>1, <2>2, NobodyAssumption DEF Init, Types, TypeOK, Holding
<1>3. Ordered /\ FifoLemmas!Init
  BY <1>1 DEF Ordered, FifoLemmas!Init, FifoLemmas!Inv, FifoLemmas!TypeOK,
              FifoLemmas!InOrder, FifoLemmas!Increasing
<1>4. Split
  <2>1. 1..last = {} /\ Range(queue) = {} /\ Range(Taken) = {} /\ Range(got) = {}
    BY <1>1, ShortRanges
  <2>2. \A k \in Where : At(k) = {}
    BY <1>1, <2>1, AtNames
  <2> QED
    BY <2>1, <2>2 DEF Split
<1> QED
  BY <1>2, <1>3, <1>4 DEF Inv

\* Every step keeps the invariant.
LEMMA InvStep == Inv /\ [Next]_vars => Inv'
<1> SUFFICES ASSUME Inv, [Next]_vars PROVE Inv'
  OBVIOUS
<1>1. Types'
  BY TypesStep DEF Inv
<1>2. Ordered'
  BY FifoStep, FifoLemmas!OrderKept DEF Inv, Ordered
<1>3. Split'
  BY SplitStep
<1> QED
  BY <1>1, <1>2, <1>3 DEF Inv

\* Where an increasing list holds a number, it holds it once.
LEMMA OncePerList ==
  ASSUME NEW q \in Seq(Nat), FifoLemmas!Increasing(q), NEW c
  PROVE  IF c \in Range(q)
           THEN \E i : {j \in 1..Len(q) : q[j] = c} = {i}
           ELSE {j \in 1..Len(q) : q[j] = c} = {}
<1>1. Len(q) \in Nat /\ DOMAIN q = 1..Len(q) /\ \A i \in 1..Len(q) : q[i] \in Nat
  BY LenProperties, ElementOfSeq
<1>2. CASE c \in Range(q)
  <2>1. PICK i \in 1..Len(q) : q[i] = c
    BY <1>1, <1>2 DEF Range
  <2>2. ASSUME NEW j \in 1..Len(q), q[j] = c PROVE j = i
    <3>1. ~(i < j) /\ ~(j < i)
      BY <1>1, <2>1, <2>2 DEF FifoLemmas!Increasing
    <3> QED
      BY <1>1, <3>1
  <2>3. {j \in 1..Len(q) : q[j] = c} = {i}
    BY <2>1, <2>2
  <2> QED
    BY <1>2, <2>3
<1>3. CASE c \notin Range(q)
  BY <1>1, <1>3 DEF Range
<1> QED
  BY <1>2, <1>3

\* A command that is in one of the places by name is in one place.
LEMMA OnePlace == Inv => Conserved
<1> SUFFICES ASSUME Inv, NEW c \in 1..last PROVE Cardinality(Places(c)) = 1
  BY DEF Conserved
<1> DEFINE inQueue == {j \in 1..Len(queue) : queue[j] = c}
           inGot == {j \in 1..Len(got) : got[j] = c}
           lostTo == {j \in Causes : c \in gone[j]}
           answered == cur # Nobody /\ held[cur] = c
<1>1. PICK k \in Where : c \in At(k) /\ \A l \in Where : c \in At(l) => l = k
  BY DEF Inv, Split
<1>2. /\ queue \in Seq(Nat) /\ got \in Seq(Nat) /\ Taken \in Seq(Nat) /\ last \in Nat
      /\ FifoLemmas!Increasing(queue) /\ FifoLemmas!Increasing(got)
  <2>1. queue \in Seq(Nat) /\ got \in Seq(Nat) /\ Taken \in Seq(Nat) /\ last \in Nat
    BY Numbers DEF Inv
  <2>2. FifoLemmas!Increasing(Taken \o queue) /\ FifoLemmas!Increasing(got)
    BY DEF Inv, Ordered, FifoLemmas!Inv, FifoLemmas!InOrder
  <2> QED
    BY <2>1, <2>2, FifoLemmas!PartsInOrder
<1>3. /\ IF c \in At("queue") THEN \E i : inQueue = {i} ELSE inQueue = {}
      /\ IF c \in At("client") THEN \E i : inGot = {i} ELSE inGot = {}
  <2>1. IF c \in Range(queue) THEN \E i : inQueue = {i} ELSE inQueue = {}
    BY <1>2, OncePerList
  <2>2. IF c \in Range(got) THEN \E i : inGot = {i} ELSE inGot = {}
    BY <1>2, OncePerList
  <2> HIDE DEF inQueue, inGot
  <2> QED
    BY <2>1, <2>2, AtNames
<1>4. c \in At("answer") <=> answered
  <2>1. c # 0
    BY <1>2
  <2> QED
    BY <2>1, ShortRanges, AtNames
<1>5. lostTo = {j \in Causes : c \in At(j)}
  BY AtNames
<1>6. Places(c) = {<<"queue", i>> : i \in inQueue}
                    \cup (IF answered THEN {<<"answer", 0>>} ELSE {})
                    \cup {<<"client", i>> : i \in inGot}
                    \cup {<<"gone", j>> : j \in lostTo}
  BY DEF Places
<1> HIDE DEF inQueue, inGot, lostTo, answered
<1>7. \E x : Places(c) = {x}
  <2>1. CASE k = "queue"
    <3>1. inGot = {} /\ ~answered /\ lostTo = {} /\ \E i : inQueue = {i}
      BY <1>1, <1>3, <1>4, <1>5, <2>1, AtNames
    <3>2. PICK i : inQueue = {i}
      BY <3>1
    <3>3. Places(c) = {<<"queue", i>>}
      BY <1>6, <3>1, <3>2
    <3> QED
      BY <3>3
  <2>2. CASE k = "answer"
    <3>1. inGot = {} /\ answered /\ lostTo = {} /\ inQueue = {}
      BY <1>1, <1>3, <1>4, <1>5, <2>2, AtNames
    <3>2. Places(c) = {<<"answer", 0>>}
      BY <1>6, <3>1
    <3> QED
      BY <3>2
  <2>3. CASE k = "client"
    <3>1. inQueue = {} /\ ~answered /\ lostTo = {} /\ \E i : inGot = {i}
      BY <1>1, <1>3, <1>4, <1>5, <2>3, AtNames
    <3>2. PICK i : inGot = {i}
      BY <3>1
    <3>3. Places(c) = {<<"client", i>>}
      BY <1>6, <3>1, <3>2
    <3> QED
      BY <3>3
  <2>4. CASE k \in Causes
    <3>1. inQueue = {} /\ ~answered /\ inGot = {}
      BY <1>1, <1>3, <1>4, <2>4, AtNames
    <3>2. lostTo = {k}
      BY <1>1, <1>5, <2>4, AtNames
    <3>3. Places(c) = {<<"gone", k>>}
      BY <1>6, <3>1, <3>2
    <3> QED
      BY <3>3
  <2> QED
    BY <1>1, <2>1, <2>2, <2>3, <2>4, AtNames
<1> QED
  BY <1>7, FS_Singleton

\* The types and the conservation of the commands (queue_command, get_command
\* and ServerPoller.run): wherever the threads, the polls and a restart
\* interleave, each queued command is in one place.
THEOREM Correct == Spec => [](TypeOK /\ Conserved)
<1>1. Inv => TypeOK /\ Conserved
  BY OnePlace DEF Inv, Types
<1> QED
  BY <1>1, InvInit, InvStep, PTL DEF Spec

\* The channel implements the lossy one: the client gets each command at most
\* once, in the order queued.
THEOREM ChannelImplementsFifo == Spec => AtMostOnceInOrder
<1>1. [FifoLemmas!Next]_(FifoLemmas!vars) <=> [Fifo!Next]_(Fifo!vars)
  BY DEF FifoLemmas!Next, FifoLemmas!vars, FifoLemmas!Send, FifoLemmas!Lose,
         FifoLemmas!Deliver, FifoLemmas!Increasing, FifoLemmas!Range,
         Fifo!Next, Fifo!vars, Fifo!Send, Fifo!Lose, Fifo!Deliver,
         Fifo!Increasing, Fifo!Range, Taken
<1>2. Inv /\ [Next]_vars => [Fifo!Next]_(Fifo!vars)
  BY <1>1, FifoStep DEF Inv
<1>3. Init => Fifo!Init
  BY InvInit DEF Fifo!Init, FifoLemmas!Init, Taken
<1> QED
  BY <1>2, <1>3, InvInit, InvStep, PTL DEF Spec, AtMostOnceInOrder, Fifo!Spec

\* What that means for the client: the commands get_command has handed it
\* carry growing numbers, so none comes twice and none overtakes another
\* (COMMAND_QUEUE.pop(0) in get_command, and the retries of the poller).
THEOREM CommandsInOrder ==
  Spec => [](\A i, j \in 1..Len(got) : i < j => got[i] < got[j])
<1>1. Inv => \A i, j \in 1..Len(got) : i < j => got[i] < got[j]
  BY DEF Inv, Ordered, FifoLemmas!Inv, FifoLemmas!InOrder, FifoLemmas!Increasing
<1> QED
  BY <1>1, InvInit, InvStep, PTL DEF Spec
=============================================================================
