----------------------- MODULE MinerSupervisorProofs -----------------------
(***************************************************************************)
(* Proofs about MinerSupervisor for every set of callers, every number of  *)
(* processes, every set of requests and every set of faults: type          *)
(* correctness, one miner at a time, no lost wish to mine and a lock that  *)
(* forgets nobody; and, while terminated processes exit at once and the    *)
(* application runs, that every miner has an owner and that a stopped one  *)
(* is doomed.                                                              *)
(***************************************************************************)
EXTENDS MinerSupervisor, SequenceTheorems, TLAPS

USE DEF Runner, Actors

\* Appending to a queue keeps it a queue and keeps its head.
LEMMA AppendKeepsHead ==
  ASSUME NEW S, NEW q \in Seq(S), NEW x \in S
  PROVE  /\ Append(q, x) \in Seq(S) /\ Append(q, x) # <<>>
         /\ q # <<>> => Head(Append(q, x)) = Head(q)
  BY AppendProperties, HeadTailAppend

\* Whoever is past the acquisition of _terminate_lock owns it.
LockOwned ==
  \A a \in Actors : pc[a] \in {"term", "poll", "last", "post"} => Owns(a)

\* A runner has a thread count, and hands it to its spawn.
Counted ==
  /\ pc[Runner] # "none" => threadCount \in Threads
  /\ pc[Runner] \in {"scan", "force", "config"} => spawnThreads \in Threads

TypeInv == TypeOK /\ LockOwned /\ Counted

\* The facts about the lock that a step owes the type invariant.
LockNext == /\ pc' \in [Actors -> RunnerPCs \cup {"idle"}]
            /\ queue' \in Seq(Actors) /\ LockOwned'

\* A step that neither enters nor leaves the lock: no actor gets past its
\* acquisition, unless the owner moves.
LEMMA LockStays ==
  ASSUME TypeInv, UNCHANGED queue,
         pc' \in [Actors -> RunnerPCs \cup {"idle"}],
         \A b \in Actors : pc'[b] \in {"term", "poll", "last", "post"} =>
                             pc[b] \in {"term", "poll", "last", "post"} \/ Owns(b)
  PROVE  LockNext
  BY DEF TypeInv, TypeOK, LockOwned, LockNext, Owns

\* An actor outside the lock asks for it: the owner stays the owner.
LEMMA LockAsked ==
  ASSUME TypeInv, NEW a \in Actors,
         pc' = [pc EXCEPT ![a] = "lock"], queue' = Append(queue, a)
  PROVE  LockNext
<1>1. /\ queue' \in Seq(Actors) /\ queue' # <<>>
      /\ queue # <<>> => Head(queue') = Head(queue)
  BY AppendKeepsHead DEF TypeInv, TypeOK
<1>2. pc' \in [Actors -> RunnerPCs \cup {"idle"}]
  BY DEF TypeInv, TypeOK, RunnerPCs, TermPCs
<1>3. \A b \in Actors : pc'[b] \in {"term", "poll", "last", "post"} => pc'[b] = pc[b]
  BY DEF TypeInv, TypeOK
<1> QED
  BY <1>1, <1>2, <1>3 DEF TypeInv, LockOwned, LockNext, Owns

\* Removing an actor from a queue leaves a queue.
LEMMA WithoutType ==
  ASSUME NEW S, NEW q \in Seq(S), NEW b
  PROVE  Without(q, b) \in Seq(S)
<1>1. CASE ~ \E i \in 1..Len(q) : q[i] = b
  BY <1>1 DEF Without
<1>2. CASE \E i \in 1..Len(q) : q[i] = b
  <2> DEFINE k == CHOOSE j \in 1..Len(q) : q[j] = b
  <2>1. k \in 1..Len(q) /\ Len(q) \in Nat
    BY <1>2, LenProperties
  <2>2. SubSeq(q, 1, k - 1) \in Seq(S) /\ SubSeq(q, k + 1, Len(q)) \in Seq(S)
    <3>1. \A i \in 1..(k - 1) : q[i] \in S
      BY <2>1, ElementOfSeq
    <3>2. \A i \in (k + 1)..Len(q) : q[i] \in S
      BY <2>1, ElementOfSeq
    <3> QED
      BY <2>1, <3>1, <3>2, SubSeqProperties
  <2>3. Without(q, b) = SubSeq(q, 1, k - 1) \o SubSeq(q, k + 1, Len(q))
    BY <1>2 DEF Without
  <2> QED
    BY <2>2, <2>3, ConcatProperties
<1> QED
  BY <1>1, <1>2

\* The owner leaves the lock: nobody else was past its acquisition.
LEMMA LockLeft ==
  ASSUME TypeInv, NEW a \in Actors, pc[a] = "post",
         queue' \in Seq(Actors),
         pc' \in [Actors -> RunnerPCs \cup {"idle"}],
         pc'[a] \notin {"term", "poll", "last", "post"},
         \A b \in Actors : pc'[b] \in {"term", "poll", "last", "post"} => pc'[b] = pc[b]
  PROVE  LockNext
<1>1. Owns(a)
  BY DEF TypeInv, LockOwned
<1>2. \A b \in Actors : b # a => pc[b] \notin {"term", "poll", "last", "post"}
  BY <1>1 DEF TypeInv, LockOwned, Owns
<1> QED
  BY <1>2 DEF LockNext, LockOwned

\* What every step owes the invariant, besides the lock's facts.
RestNext ==
  /\ desired' \in BOOLEAN /\ manualStop' \in BOOLEAN /\ closed' \in BOOLEAN
  /\ wake' \in BOOLEAN /\ stale' \in BOOLEAN
  /\ threadCount' \in Threads \cup {0} /\ spawnThreads' \in Threads \cup {0}
  /\ config' \in Threads /\ asked' \in Threads \cup {0}
  /\ ref' \in 0..MaxPid /\ target' \in 0..MaxPid /\ spawned' \in 0..MaxPid
  /\ req' \in [Callers -> AllRequests \cup {"none"}]
  /\ seen' \in [Actors -> SUBSET Pids]
  /\ live' \in SUBSET Pids
  /\ Counted'

LEMMA TypeNext == ASSUME LockNext, RestNext PROVE TypeInv'
  BY DEF LockNext, RestNext, TypeInv, TypeOK

\* The supervisor's calls keep the type invariant.
LEMMA TypeCalls ==
  ASSUME TypeInv,
         \/ \E t \in Threads : Start(t)
         \/ \E c \in Callers : Stop(c) \/ Restart(c) \/ Close(c)
         \/ \E c \in Callers, t \in Threads : SetThreads(c, t)
  PROVE  TypeInv'
<1>0. Runner \notin Callers
  BY CallersAssumption
<1>1. CASE \E t \in Threads : Start(t)
  <2>1. LockNext
    BY <1>1, LockStays DEF TypeInv, TypeOK, RunnerPCs, TermPCs, Start
  <2>2. RestNext
    BY <1>1 DEF RestNext, TypeInv, TypeOK, Counted, Start
  <2> QED
    BY <2>1, <2>2, TypeNext
<1>2. CASE \E c \in Callers : Stop(c)
  <2>1. LockNext
    BY <1>2, LockAsked DEF Stop, Call
  <2>2. RestNext
    BY <1>2, <1>0 DEF RestNext, TypeInv, TypeOK, Counted, AllRequests, counts, Stop, Call
  <2> QED
    BY <2>1, <2>2, TypeNext
<1>3. CASE \E c \in Callers : Restart(c)
  <2>1. LockNext
    BY <1>3, LockAsked DEF Restart, Call
  <2>2. RestNext
    BY <1>3, <1>0 DEF RestNext, TypeInv, TypeOK, Counted, AllRequests, counts, Restart, Call
  <2> QED
    BY <2>1, <2>2, TypeNext
<1>4. CASE \E c \in Callers : Close(c)
  <2>1. LockNext
    BY <1>4, LockAsked DEF Close, Call
  <2>2. RestNext
    BY <1>4, <1>0 DEF RestNext, TypeInv, TypeOK, Counted, AllRequests, counts, Close, Call
  <2> QED
    BY <2>1, <2>2, TypeNext
<1>5. CASE \E c \in Callers, t \in Threads : SetThreads(c, t)
  <2> PICK c \in Callers, t \in Threads : SetThreads(c, t)
    BY <1>5
  <2>1. LockNext
    <3>1. CASE Running
      BY <3>1, LockAsked DEF SetThreads, Call
    <3>2. CASE ~Running
      BY <3>2, LockStays DEF SetThreads, TypeInv, TypeOK
    <3> QED
      BY <3>1, <3>2
  <2>2. RestNext
    <3>1. /\ config' \in Threads /\ asked' \in Threads \cup {0}
          /\ UNCHANGED <<closed, threadCount, spawnThreads, ref, target, seen, spawned, live>>
      BY DEF SetThreads
    <3>2. CASE Running
      <4>1. /\ pc' = [pc EXCEPT ![c] = "lock"] /\ req' = [req EXCEPT ![c] = "setThreads"]
            /\ desired' = TRUE /\ manualStop' = FALSE /\ wake' = TRUE /\ stale' = TRUE
        BY <3>2 DEF SetThreads, Call
      <4>2. pc'[Runner] = pc[Runner] /\ Counted'
        BY <1>0, <3>1, <4>1 DEF TypeInv, TypeOK, Counted
      <4> QED
        BY <3>1, <4>1, <4>2 DEF RestNext, TypeInv, TypeOK, AllRequests
    <3>3. CASE ~Running
      <4>1. UNCHANGED <<pc, queue, req, desired, manualStop, wake, stale>>
        BY <3>3 DEF SetThreads
      <4>2. Counted'
        BY <3>1, <4>1 DEF TypeInv, Counted
      <4> QED
        BY <3>1, <4>1, <4>2 DEF RestNext, TypeInv, TypeOK
    <3> QED
      BY <3>2, <3>3
  <2> QED
    BY <2>1, <2>2, TypeNext
<1> QED
  BY <1>1, <1>2, <1>3, <1>4, <1>5

\* The steps of _terminate_current_process keep the type invariant.
LEMMA TypeTerm ==
  ASSUME TypeInv, NEW a \in Actors, TermStep(a)
  PROVE  TypeInv'
<1>0. Runner \notin Callers /\ 0 \in 0..MaxPid
  BY CallersAssumption, MaxPidAssumption
<1>1. CASE TermBegin(a)
  <2>1. LockNext
    BY <1>1, LockStays DEF TypeInv, TypeOK, RunnerPCs, TermPCs, Owns, TermBegin, TermKillAll
  <2>2. RestNext
    <3>1. /\ UNCHANGED <<desired, manualStop, closed, wake, stale, threadCount, spawnThreads,
                         config, asked, req, seen, spawned>>
          /\ target' = ref /\ pc[a] = "lock"
      BY <1>1 DEF TermBegin, termOnly, control, counts
    <3>2. \E x \in {"term", "post", "poll"} : pc' = [pc EXCEPT ![a] = x]
      BY <1>1 DEF TermBegin, TermKillAll
    <3>3. live' \in SUBSET Pids /\ ref' \in 0..MaxPid
      BY <1>0, <1>1 DEF TermBegin, TermKillAll, Terminate, TypeInv, TypeOK
    <3>4. Counted'
      BY <3>1, <3>2 DEF TypeInv, TypeOK, Counted
    <3> QED
      BY <3>1, <3>3, <3>4 DEF RestNext, TypeInv, TypeOK
  <2> QED
    BY <2>1, <2>2, TypeNext
<1>2. CASE TermTimeout(a)
  <2>1. LockNext
    BY <1>2, LockStays DEF TypeInv, TypeOK, RunnerPCs, TermPCs, Owns, TermTimeout
  <2>2. RestNext
    BY <1>2, <1>0 DEF RestNext, TypeInv, TypeOK, Counted, Pids, termOnly, control, counts, Terminate, TermTimeout
  <2> QED
    BY <2>1, <2>2, TypeNext
<1>3. CASE TermReaped(a)
  <2>1. LockNext
    BY <1>3, LockStays DEF TypeInv, TypeOK, RunnerPCs, TermPCs, Owns, TermReaped, TermKillAll
  <2>2. RestNext
    BY <1>3, <1>0 DEF RestNext, TypeInv, TypeOK, Counted, Pids, termOnly, control, counts, Terminate, TermReaped, TermKillAll
  <2> QED
    BY <2>1, <2>2, TypeNext
<1>4. CASE TermPolled(a)
  <2>1. LockNext
    BY <1>4, LockStays DEF TypeInv, TypeOK, RunnerPCs, TermPCs, Owns, TermPolled
  <2>2. RestNext
    BY <1>4, <1>0 DEF RestNext, TypeInv, TypeOK, Counted, Pids, termOnly, control, counts, Terminate, TermPolled
  <2> QED
    BY <2>1, <2>2, TypeNext
<1>5. CASE TermLastPoll(a)
  <2>1. LockNext
    BY <1>5, LockStays DEF TypeInv, TypeOK, RunnerPCs, TermPCs, Owns, TermLastPoll
  <2>2. RestNext
    BY <1>5, <1>0 DEF RestNext, TypeInv, TypeOK, Counted, Pids, termOnly, control, counts, Terminate, TermLastPoll
  <2> QED
    BY <2>1, <2>2, TypeNext
<1>6. CASE TermForce(a)
  <2>1. LockNext
    BY <1>6, LockStays DEF TypeInv, TypeOK, RunnerPCs, TermPCs, Owns, TermForce
  <2>2. RestNext
    BY <1>6, <1>0 DEF RestNext, TypeInv, TypeOK, Counted, Pids, termOnly, control, counts, Terminate, TermForce
  <2> QED
    BY <2>1, <2>2, TypeNext
<1>7. CASE TermReturns(a)
  <2>0. Tail(queue) \in Seq(Actors)
    BY <1>7, HeadTailProperties DEF TermReturns, TypeInv, TypeOK, LockOwned, Owns
  <2>1. LockNext
    <3>1. queue' \in Seq(Actors)
      BY <2>0, <1>7 DEF TermReturns
    <3> QED
      BY <3>1, <1>7, <1>0, LockLeft DEF TypeInv, TypeOK, RunnerPCs, TermReturns
  <2>2. RestNext
    BY <1>7, <1>0 DEF RestNext, TypeInv, TypeOK, Counted, Pids, control, counts, TermReturns
  <2> QED
    BY <2>1, <2>2, TypeNext
<1>8. CASE CloseReturns(a)
  <2>0. Tail(queue) \in Seq(Actors)
    BY <1>8, HeadTailProperties DEF CloseReturns, TypeInv, TypeOK, LockOwned, Owns
  <2>1. LockNext
    <3>1. queue' \in Seq(Actors)
      BY <2>0, <1>8, WithoutType DEF CloseReturns
    <3> QED
      BY <3>1, <1>8, <1>0, LockLeft DEF TypeInv, TypeOK, RunnerPCs, CloseReturns
  <2>2. RestNext
    BY <1>8, <1>0 DEF RestNext, TypeInv, TypeOK, Counted, Pids, control, counts, CloseReturns
  <2> QED
    BY <2>1, <2>2, TypeNext
<1> QED
  BY <1>1, <1>2, <1>3, <1>4, <1>5, <1>6, <1>7, <1>8 DEF TermStep

\* The runner's steps, the watch and the exits keep the type invariant.
LEMMA TypeRunner ==
  ASSUME TypeInv,
         RunnerStep \/ WatchRestarts \/ MonitorsEnd \/ \E p \in Pids : ProcExit(p)
  PROVE  TypeInv'
<1>0. MaxPid \in Nat \ {0} /\ Runner \notin Callers
  BY MaxPidAssumption, CallersAssumption
<1>1. CASE RunnerWakes
  <2>1. LockNext
    BY <1>1, LockStays DEF TypeInv, TypeOK, RunnerPCs, RunnerWakes, LoopTop
  <2>2. RestNext
    BY <1>1, <1>0 DEF RestNext, TypeInv, TypeOK, Counted, Pids, control, counts, RunnerWakes, LoopTop, Terminate
  <2> QED
    BY <2>1, <2>2, TypeNext
<1>2. CASE RetryWoken
  <2>1. LockNext
    BY <1>2, LockStays DEF TypeInv, TypeOK, RunnerPCs, RetryWoken, LoopTop
  <2>2. RestNext
    BY <1>2, <1>0 DEF RestNext, TypeInv, TypeOK, Counted, Pids, control, counts, RetryWoken, LoopTop, Terminate
  <2> QED
    BY <2>1, <2>2, TypeNext
<1>3. CASE RetryTimer
  <2>1. LockNext
    BY <1>3, LockStays DEF TypeInv, TypeOK, RunnerPCs, RetryTimer, LoopTop
  <2>2. RestNext
    BY <1>3, <1>0 DEF RestNext, TypeInv, TypeOK, Counted, Pids, control, counts, RetryTimer, LoopTop, Terminate
  <2> QED
    BY <2>1, <2>2, TypeNext
<1>4. CASE ScanPolled
  <2>1. LockNext
    BY <1>4, LockStays DEF TypeInv, TypeOK, RunnerPCs, ScanPolled, spawnOnly
  <2>2. RestNext
    BY <1>4, <1>0 DEF RestNext, TypeInv, TypeOK, Counted, Pids, control, counts, ScanPolled, spawnOnly
  <2> QED
    BY <2>1, <2>2, TypeNext
<1>5. CASE ScanLastPoll
  <2>1. LockNext
    BY <1>5, LockStays DEF TypeInv, TypeOK, RunnerPCs, ScanLastPoll, spawnOnly
  <2>2. RestNext
    BY <1>5, <1>0 DEF RestNext, TypeInv, TypeOK, Counted, Pids, control, counts, ScanLastPoll, spawnOnly
  <2> QED
    BY <2>1, <2>2, TypeNext
<1>6. CASE ScanForce
  <2>1. LockNext
    BY <1>6, LockStays DEF TypeInv, TypeOK, RunnerPCs, ScanForce, spawnOnly
  <2>2. RestNext
    BY <1>6, <1>0 DEF RestNext, TypeInv, TypeOK, Counted, Pids, control, counts, ScanForce, spawnOnly
  <2> QED
    BY <2>1, <2>2, TypeNext
<1>7. CASE SpawnForks
  <2>1. LockNext
    BY <1>7, LockStays DEF TypeInv, TypeOK, RunnerPCs, SpawnForks, spawnOnly
  <2>2. RestNext
    BY <1>7, <1>0 DEF RestNext, TypeInv, TypeOK, Counted, Pids, control, counts, SpawnForks, spawnOnly
  <2> QED
    BY <2>1, <2>2, TypeNext
<1>8. CASE SpawnFails
  <2>1. LockNext
    BY <1>8, LockStays DEF TypeInv, TypeOK, RunnerPCs, SpawnFails, spawnOnly
  <2>2. RestNext
    BY <1>8, <1>0 DEF RestNext, TypeInv, TypeOK, Counted, Pids, control, counts, SpawnFails, spawnOnly
  <2> QED
    BY <2>1, <2>2, TypeNext
<1>9. CASE SpawnPublishes
  <2>1. LockNext
    BY <1>9, LockStays DEF TypeInv, TypeOK, RunnerPCs, SpawnPublishes, spawnOnly
  <2>2. RestNext
    BY <1>9, <1>0 DEF RestNext, TypeInv, TypeOK, Counted, Pids, control, counts, SpawnPublishes, spawnOnly
  <2> QED
    BY <2>1, <2>2, TypeNext
<1>10. CASE SpawnSettles
  <2>1. LockNext
    BY <1>10, LockStays DEF TypeInv, TypeOK, RunnerPCs, SpawnSettles, spawnOnly
  <2>2. RestNext
    BY <1>10, <1>0 DEF RestNext, TypeInv, TypeOK, Counted, Pids, control, counts, SpawnSettles, spawnOnly
  <2> QED
    BY <2>1, <2>2, TypeNext
<1>11. CASE WatchSeesExit
  <2>1. LockNext
    BY <1>11, LockStays DEF TypeInv, TypeOK, RunnerPCs, WatchSeesExit, WatchOver, watchOnly
  <2>2. RestNext
    BY <1>11, <1>0 DEF RestNext, TypeInv, TypeOK, Counted, Pids, control, counts, WatchSeesExit, WatchOver, watchOnly
  <2> QED
    BY <2>1, <2>2, TypeNext
<1>12. CASE WatchReaps
  <2>1. LockNext
    BY <1>12, LockStays DEF TypeInv, TypeOK, RunnerPCs, WatchReaps, WatchOver, watchOnly
  <2>2. RestNext
    BY <1>12, <1>0 DEF RestNext, TypeInv, TypeOK, Counted, Pids, control, counts, WatchReaps, WatchOver, watchOnly
  <2> QED
    BY <2>1, <2>2, TypeNext
<1>13. CASE WatchRestarts
  <2>1. LockNext
    BY <1>13, LockAsked DEF WatchRestarts, AskTerminate
  <2>2. RestNext
    BY <1>13, <1>0 DEF RestNext, TypeInv, TypeOK, Counted, Pids, control, counts, WatchRestarts, watchOnly, AskTerminate
  <2> QED
    BY <2>1, <2>2, TypeNext
<1>14. CASE MonitorsEnd
  <2>1. LockNext
    <3>1. CASE Running
      BY <1>14, <3>1, LockAsked DEF MonitorsEnd, AskTerminate
    <3>2. CASE ~Running
      BY <1>14, <3>2, LockStays DEF TypeInv, TypeOK, RunnerPCs, MonitorsEnd, WatchOver
    <3> QED
      BY <3>1, <3>2
  <2>2. RestNext
    BY <1>14, <1>0 DEF RestNext, TypeInv, TypeOK, Counted, Pids, control, counts, MonitorsEnd, WatchOver, watchOnly, AskTerminate
  <2> QED
    BY <2>1, <2>2, TypeNext
<1>15. CASE \E p \in Pids : ProcExit(p)
  <2>1. LockNext
    BY <1>15, LockStays DEF TypeInv, TypeOK, RunnerPCs, ProcExit
  <2>2. RestNext
    BY <1>15, <1>0 DEF RestNext, TypeInv, TypeOK, Counted, Pids, control, counts, ProcExit
  <2> QED
    BY <2>1, <2>2, TypeNext
<1> QED
  BY <1>1, <1>2, <1>3, <1>4, <1>5, <1>6, <1>7, <1>8, <1>9, <1>10, <1>11, <1>12, <1>13, <1>14, <1>15 DEF RunnerStep

LEMMA TypeStep == TypeInv /\ [Next]_vars => TypeInv'
<1> SUFFICES ASSUME TypeInv, [Next]_vars PROVE TypeInv'
  OBVIOUS
<1>1. CASE UNCHANGED vars
  BY <1>1 DEF vars, TypeInv, TypeOK, LockOwned, Owns, Counted
<1>2. CASE Next
  BY <1>2, TypeCalls, TypeTerm, TypeRunner DEF Next
<1> QED
  BY <1>1, <1>2

LEMMA TypeInit == Init => TypeInv
<1> SUFFICES ASSUME Init PROVE TypeInv
  OBVIOUS
<1>1. <<>> \in Seq(Actors)
  BY EmptySeq
<1>2. Leftover \subseteq Pids /\ spawned \in 0..MaxPid /\ 0 \in 0..MaxPid
  BY MaxPidAssumption DEF Init, Leftover, Pids
<1>3. pc \in [Actors -> RunnerPCs \cup {"idle"}]
  BY DEF Init, RunnerPCs
<1>4. TypeOK
  BY <1>1, <1>2, <1>3 DEF Init, TypeOK
<1>5. LockOwned /\ Counted
  BY CallersAssumption DEF Init, LockOwned, Counted
<1> QED
  BY <1>4, <1>5 DEF TypeInv

\* Every variable holds a value the code can hold; in particular the runner
\* never spawns without a thread count.
THEOREM TypeCorrect == Spec => []TypeOK
<1>1. TypeInv => TypeOK
  BY DEF TypeInv
<1> QED
  BY <1>1, TypeInit, TypeStep, PTL DEF Spec

----------------------------------------------------------------------------
(* One miner at a time *)

\* A process is forked only after a scan that left nothing alive, and a scan
\* that ends by force kills everything it saw.
ScanSound == /\ pc[Runner] = "config" => live = {}
             /\ pc[Runner] = "force" => live \subseteq seen[Runner]

MinerInv == TypeInv /\ ScanSound /\ AtMostOneMiner

LEMMA MinerStep == MinerInv /\ [Next]_vars => MinerInv'
<1> SUFFICES ASSUME MinerInv, [Next]_vars PROVE ScanSound' /\ AtMostOneMiner'
  BY TypeStep DEF MinerInv
<1> DEFINE PcType == pc \in [Actors -> RunnerPCs \cup {"idle"}]
           SeenType == seen \in [Actors -> SUBSET Pids]
<1>0. PcType /\ SeenType /\ Runner \notin Callers
  BY CallersAssumption DEF MinerInv, TypeInv, TypeOK
<1>1. CASE \E t \in Threads : Start(t)
  BY <1>1, <1>0 DEF MinerInv, ScanSound, AtMostOneMiner, Start
<1>2. CASE \E c \in Callers : Stop(c)
  BY <1>2, <1>0 DEF MinerInv, ScanSound, AtMostOneMiner, Stop, Call
<1>3. CASE \E c \in Callers : Restart(c)
  BY <1>3, <1>0 DEF MinerInv, ScanSound, AtMostOneMiner, Restart, Call
<1>4. CASE \E c \in Callers : Close(c)
  BY <1>4, <1>0 DEF MinerInv, ScanSound, AtMostOneMiner, Close, Call
<1>5. CASE \E c \in Callers, t \in Threads : SetThreads(c, t)
  BY <1>5, <1>0 DEF MinerInv, ScanSound, AtMostOneMiner, SetThreads, Call
<1>6. CASE \E a \in Actors : TermBegin(a)
  BY <1>6, <1>0 DEF MinerInv, ScanSound, AtMostOneMiner, TermBegin, TermKillAll, Terminate, termOnly
<1>7. CASE \E a \in Actors : TermTimeout(a)
  BY <1>7, <1>0 DEF MinerInv, ScanSound, AtMostOneMiner, TermTimeout, termOnly
<1>8. CASE \E a \in Actors : TermReaped(a)
  BY <1>8, <1>0 DEF MinerInv, ScanSound, AtMostOneMiner, TermReaped, TermKillAll, Terminate, termOnly
<1>9. CASE \E a \in Actors : TermPolled(a)
  BY <1>9, <1>0 DEF MinerInv, ScanSound, AtMostOneMiner, TermPolled, termOnly
<1>10. CASE \E a \in Actors : TermLastPoll(a)
  BY <1>10, <1>0 DEF MinerInv, ScanSound, AtMostOneMiner, TermLastPoll, termOnly
<1>11. CASE \E a \in Actors : TermForce(a)
  BY <1>11, <1>0 DEF MinerInv, ScanSound, AtMostOneMiner, TermForce, termOnly
<1>12. CASE \E a \in Actors : TermReturns(a)
  BY <1>12, <1>0 DEF MinerInv, ScanSound, AtMostOneMiner, TermReturns
<1>13. CASE \E a \in Actors : CloseReturns(a)
  BY <1>13, <1>0 DEF MinerInv, ScanSound, AtMostOneMiner, CloseReturns
<1>14. CASE RunnerWakes
  BY <1>14, <1>0 DEF MinerInv, ScanSound, AtMostOneMiner, RunnerWakes, LoopTop, Terminate
<1>15. CASE RetryWoken
  BY <1>15, <1>0 DEF MinerInv, ScanSound, AtMostOneMiner, RetryWoken, LoopTop, Terminate
<1>16. CASE RetryTimer
  BY <1>16, <1>0 DEF MinerInv, ScanSound, AtMostOneMiner, RetryTimer, LoopTop, Terminate
<1>17. CASE ScanPolled
  BY <1>17, <1>0 DEF MinerInv, ScanSound, AtMostOneMiner, ScanPolled, spawnOnly
<1>18. CASE ScanLastPoll
  BY <1>18, <1>0 DEF MinerInv, ScanSound, AtMostOneMiner, ScanLastPoll, spawnOnly
<1>19. CASE ScanForce
  BY <1>19, <1>0 DEF MinerInv, ScanSound, AtMostOneMiner, ScanForce, spawnOnly
<1>20. CASE SpawnForks
  BY <1>20, <1>0 DEF MinerInv, ScanSound, AtMostOneMiner, SpawnForks, spawnOnly
<1>21. CASE SpawnFails
  BY <1>21, <1>0 DEF MinerInv, ScanSound, AtMostOneMiner, SpawnFails, spawnOnly
<1>22. CASE SpawnPublishes
  BY <1>22, <1>0 DEF MinerInv, ScanSound, AtMostOneMiner, SpawnPublishes, spawnOnly
<1>23. CASE SpawnSettles
  BY <1>23, <1>0 DEF MinerInv, ScanSound, AtMostOneMiner, SpawnSettles, spawnOnly
<1>24. CASE WatchSeesExit
  BY <1>24, <1>0 DEF MinerInv, ScanSound, AtMostOneMiner, WatchSeesExit, WatchOver, watchOnly
<1>25. CASE WatchReaps
  BY <1>25, <1>0 DEF MinerInv, ScanSound, AtMostOneMiner, WatchReaps, WatchOver, watchOnly
<1>26. CASE WatchRestarts
  BY <1>26, <1>0 DEF MinerInv, ScanSound, AtMostOneMiner, WatchRestarts, AskTerminate, watchOnly
<1>27. CASE MonitorsEnd
  BY <1>27, <1>0 DEF MinerInv, ScanSound, AtMostOneMiner, MonitorsEnd, WatchOver, AskTerminate, watchOnly
<1>28. CASE \E p \in Pids : ProcExit(p)
  BY <1>28, <1>0 DEF MinerInv, ScanSound, AtMostOneMiner, ProcExit
<1>29. CASE UNCHANGED vars
  BY <1>29 DEF MinerInv, ScanSound, AtMostOneMiner, vars
<1> QED
  BY <1>1, <1>2, <1>3, <1>4, <1>5, <1>6, <1>7, <1>8, <1>9, <1>10, <1>11, <1>12, <1>13, <1>14,
     <1>15, <1>16, <1>17, <1>18, <1>19, <1>20, <1>21, <1>22, <1>23, <1>24, <1>25, <1>26, <1>27, <1>28, <1>29 DEF Next, TermStep, RunnerStep

\* However stops, restarts and respawns interleave, two miners never compete
\* for the CPU: a process is forked when every other one is gone.
THEOREM MinerIsAlone == Spec => []AtMostOneMiner
<1>1. Init => MinerInv
  <2> SUFFICES ASSUME Init PROVE ScanSound /\ AtMostOneMiner
    BY TypeInit DEF MinerInv
  <2> QED
    BY DEF Init, Leftover, ScanSound, AtMostOneMiner
<1>2. MinerInv => AtMostOneMiner
  BY DEF MinerInv
<1> QED
  BY <1>1, <1>2, MinerStep, PTL DEF Spec

----------------------------------------------------------------------------
(* No lost wish to mine *)

\* A wish to mine and a manual stop exclude each other, so a runner that gives
\* up a retry because of the stop leaves no wish behind.
WakeInv == TypeInv /\ ~(desired /\ manualStop) /\ NoLostWake

LEMMA WakeStep == WakeInv /\ [Next]_vars => WakeInv'
<1> SUFFICES ASSUME WakeInv, [Next]_vars
             PROVE  ~(desired' /\ manualStop') /\ NoLostWake'
  BY TypeStep DEF WakeInv
<1> DEFINE PcType == pc \in [Actors -> RunnerPCs \cup {"idle"}]
<1>0. PcType /\ Runner \notin Callers
  BY CallersAssumption DEF WakeInv, TypeInv, TypeOK
<1>1. CASE \E t \in Threads : Start(t)
  BY <1>1, <1>0 DEF WakeInv, NoLostWake, control, Start
<1>2. CASE \E c \in Callers : Stop(c)
  BY <1>2, <1>0 DEF WakeInv, NoLostWake, control, Stop, Call
<1>3. CASE \E c \in Callers : Restart(c)
  BY <1>3, <1>0 DEF WakeInv, NoLostWake, control, Restart, Call
<1>4. CASE \E c \in Callers : Close(c)
  BY <1>4, <1>0 DEF WakeInv, NoLostWake, control, Close, Call
<1>5. CASE \E c \in Callers, t \in Threads : SetThreads(c, t)
  BY <1>5, <1>0 DEF WakeInv, NoLostWake, control, SetThreads, Call
<1>6. CASE \E a \in Actors : TermBegin(a)
  BY <1>6, <1>0 DEF WakeInv, NoLostWake, control, TermBegin, TermKillAll, Terminate, termOnly
<1>7. CASE \E a \in Actors : TermTimeout(a)
  BY <1>7, <1>0 DEF WakeInv, NoLostWake, control, TermTimeout, termOnly
<1>8. CASE \E a \in Actors : TermReaped(a)
  BY <1>8, <1>0 DEF WakeInv, NoLostWake, control, TermReaped, TermKillAll, Terminate, termOnly
<1>9. CASE \E a \in Actors : TermPolled(a)
  BY <1>9, <1>0 DEF WakeInv, NoLostWake, control, TermPolled, termOnly
<1>10. CASE \E a \in Actors : TermLastPoll(a)
  BY <1>10, <1>0 DEF WakeInv, NoLostWake, control, TermLastPoll, termOnly
<1>11. CASE \E a \in Actors : TermForce(a)
  BY <1>11, <1>0 DEF WakeInv, NoLostWake, control, TermForce, termOnly
<1>12. CASE \E a \in Actors : TermReturns(a)
  BY <1>12, <1>0 DEF WakeInv, NoLostWake, control, TermReturns
<1>13. CASE \E a \in Actors : CloseReturns(a)
  BY <1>13, <1>0 DEF WakeInv, NoLostWake, control, CloseReturns
<1>14. CASE RunnerWakes
  BY <1>14, <1>0 DEF WakeInv, NoLostWake, control, RunnerWakes, LoopTop, Terminate
<1>15. CASE RetryWoken
  BY <1>15, <1>0 DEF WakeInv, NoLostWake, control, RetryWoken, LoopTop, Terminate
<1>16. CASE RetryTimer
  BY <1>16, <1>0 DEF WakeInv, NoLostWake, control, RetryTimer, LoopTop, Terminate
<1>17. CASE ScanPolled
  BY <1>17, <1>0 DEF WakeInv, NoLostWake, control, ScanPolled, spawnOnly
<1>18. CASE ScanLastPoll
  BY <1>18, <1>0 DEF WakeInv, NoLostWake, control, ScanLastPoll, spawnOnly
<1>19. CASE ScanForce
  BY <1>19, <1>0 DEF WakeInv, NoLostWake, control, ScanForce, spawnOnly
<1>20. CASE SpawnForks
  BY <1>20, <1>0 DEF WakeInv, NoLostWake, control, SpawnForks, spawnOnly
<1>21. CASE SpawnFails
  BY <1>21, <1>0 DEF WakeInv, NoLostWake, control, SpawnFails, spawnOnly
<1>22. CASE SpawnPublishes
  BY <1>22, <1>0 DEF WakeInv, NoLostWake, control, SpawnPublishes, spawnOnly
<1>23. CASE SpawnSettles
  BY <1>23, <1>0 DEF WakeInv, NoLostWake, control, SpawnSettles, spawnOnly
<1>24. CASE WatchSeesExit
  BY <1>24, <1>0 DEF WakeInv, NoLostWake, control, WatchSeesExit, WatchOver, watchOnly
<1>25. CASE WatchReaps
  BY <1>25, <1>0 DEF WakeInv, NoLostWake, control, WatchReaps, WatchOver, watchOnly
<1>26. CASE WatchRestarts
  BY <1>26, <1>0 DEF WakeInv, NoLostWake, control, WatchRestarts, AskTerminate, watchOnly
<1>27. CASE MonitorsEnd
  BY <1>27, <1>0 DEF WakeInv, NoLostWake, control, MonitorsEnd, WatchOver, AskTerminate, watchOnly
<1>28. CASE \E p \in Pids : ProcExit(p)
  BY <1>28, <1>0 DEF WakeInv, NoLostWake, control, ProcExit
<1>29. CASE UNCHANGED vars
  BY <1>29 DEF WakeInv, NoLostWake, control, vars
<1> QED
  BY <1>1, <1>2, <1>3, <1>4, <1>5, <1>6, <1>7, <1>8, <1>9, <1>10, <1>11, <1>12, <1>13, <1>14,
     <1>15, <1>16, <1>17, <1>18, <1>19, <1>20, <1>21, <1>22, <1>23, <1>24, <1>25, <1>26, <1>27, <1>28, <1>29 DEF Next, TermStep, RunnerStep

\* A wish to mine is never missed: the runner does not sleep on a cleared
\* event while mining is wanted.
THEOREM WishIsSeen == Spec => []NoLostWake
<1>1. Init => WakeInv
  <2> SUFFICES ASSUME Init PROVE ~(desired /\ manualStop) /\ NoLostWake
    BY TypeInit DEF WakeInv
  <2> QED
    BY DEF Init, NoLostWake
<1>2. WakeInv => NoLostWake
  BY DEF WakeInv
<1> QED
  BY <1>1, <1>2, WakeStep, PTL DEF Spec

----------------------------------------------------------------------------
(* Every miner has an owner *)

\* Nobody in "lock" is forgotten by the lock.
Waits(a) == \E i \in 1..Len(queue) : queue[i] = a

Queued == \A a \in Actors : pc[a] = "lock" => Waits(a)

\* While Runner holds a process, that process is the newest one.
Holding == {"exec", "settle", "watch", "reap"} \cup TermPCs

RunnerHolds ==
  /\ pc[Runner] \in Holding => live \subseteq {spawned}
  /\ pc[Runner] \in {"settle", "watch"} /\ live # {} => Running

\* A miner nobody asked to leave behind is watched, or someone is queueing to
\* terminate it.
Attended ==
  live \ Leftover # {} \/ (manualStop /\ live # {}) =>
    pc[Runner] \in {"exec", "settle", "watch"} \/ \E a \in Actors : pc[a] = "lock"

\* A manual stop moved the generation, and no spawn has read it since.
StopMoved == manualStop => stale /\ ~desired

\* Terminated processes exit at once, so no one polls; close() is not called.
NoPolls == /\ \A a \in Actors : pc[a] \notin {"poll", "last", "scan", "force"}
           /\ \A c \in Callers : req[c] # "close"

OwnerInv == MinerInv /\ Queued /\ RunnerHolds /\ Attended /\ StopMoved /\ NoPolls

LEMMA AppendWaits ==
  ASSUME TypeInv, NEW a \in Actors, queue' = Append(queue, a),
         NEW b, Waits(b) \/ b = a
  PROVE  Waits(b)'
<1>1. /\ Len(queue) \in Nat /\ Len(Append(queue, a)) = Len(queue) + 1
      /\ \A i \in 1..Len(queue) : Append(queue, a)[i] = queue[i]
      /\ Append(queue, a)[Len(queue) + 1] = a
  BY AppendProperties, LenProperties DEF TypeInv, TypeOK
<1> QED
  BY <1>1 DEF Waits

LEMMA TailWaits ==
  ASSUME TypeInv, NEW a, Owns(a), queue' = Tail(queue),
         NEW b, b # a, Waits(b)
  PROVE  Waits(b)'
<1>1. /\ Len(queue) \in Nat /\ Len(Tail(queue)) = Len(queue) - 1
      /\ \A i \in 1..(Len(queue) - 1) : Tail(queue)[i] = queue[i + 1]
      /\ Head(queue) = queue[1]
  BY HeadTailProperties, LenProperties DEF TypeInv, TypeOK, Owns
<1>2. PICK i \in 1..Len(queue) : queue[i] = b
  BY DEF Waits
<1>3. i # 1
  BY <1>1, <1>2 DEF Owns
<1>4. i - 1 \in 1..Len(Tail(queue)) /\ Tail(queue)[i - 1] = b
  BY <1>1, <1>2, <1>3
<1> QED
  BY <1>4 DEF Waits

\* What a step owes the invariant of the owner.
OwnerNext == Queued' /\ RunnerHolds' /\ Attended' /\ StopMoved' /\ NoPolls'

LEMMA OwnerStep ==
  ASSUME "slowExit" \notin Faults, "close" \notin Requests
  PROVE  OwnerInv /\ [Next]_vars => OwnerInv'
<1> SUFFICES ASSUME OwnerInv, [Next]_vars PROVE OwnerNext
  BY MinerStep DEF OwnerInv, OwnerNext
<1> DEFINE PcType == pc \in [Actors -> RunnerPCs \cup {"idle"}]
           ReqType == req \in [Callers -> AllRequests \cup {"none"}]
<1>0. /\ PcType /\ ReqType /\ Runner \notin Callers
      /\ TypeInv /\ ScanSound /\ AtMostOneMiner /\ LockOwned
      /\ queue \in Seq(Actors)
      /\ desired \in BOOLEAN /\ manualStop \in BOOLEAN
  BY CallersAssumption DEF OwnerInv, MinerInv, TypeInv, TypeOK
<1>1. CASE \E t \in Threads : Start(t)
  <2>1. Queued'
    BY <1>1, <1>0 DEF OwnerInv, Queued, Waits, Start
  <2>2. RunnerHolds' /\ StopMoved' /\ NoPolls'
    BY <1>1, <1>0 DEF OwnerInv, RunnerHolds, Attended, StopMoved, NoPolls, Holding, TermPCs, Running, AtMostOneMiner, control, counts, Start
  <2>3. Attended'
    BY <1>1, <1>0 DEF OwnerInv, RunnerHolds, Attended, StopMoved, NoPolls, Holding, TermPCs, Running, AtMostOneMiner, control, counts, Start
  <2> QED
    BY <2>1, <2>2, <2>3 DEF OwnerNext
<1>2. CASE \E c \in Callers : Stop(c)
  <2>1. Queued'
    BY <1>2, <1>0, AppendWaits DEF OwnerInv, Queued, Stop, Call
  <2>2. RunnerHolds' /\ StopMoved' /\ NoPolls'
    BY <1>2, <1>0 DEF OwnerInv, RunnerHolds, Attended, StopMoved, NoPolls, Holding, TermPCs, Running, AtMostOneMiner, control, counts, Stop, Call
  <2>3. Attended'
    BY <1>2, <1>0 DEF OwnerInv, RunnerHolds, Attended, StopMoved, NoPolls, Holding, TermPCs, Running, AtMostOneMiner, control, counts, Stop, Call
  <2> QED
    BY <2>1, <2>2, <2>3 DEF OwnerNext
<1>3. CASE \E c \in Callers : Restart(c)
  <2>1. Queued'
    BY <1>3, <1>0, AppendWaits DEF OwnerInv, Queued, Restart, Call
  <2>2. RunnerHolds' /\ StopMoved' /\ NoPolls'
    BY <1>3, <1>0 DEF OwnerInv, RunnerHolds, Attended, StopMoved, NoPolls, Holding, TermPCs, Running, AtMostOneMiner, control, counts, Restart, Call
  <2>3. Attended'
    BY <1>3, <1>0 DEF OwnerInv, RunnerHolds, Attended, StopMoved, NoPolls, Holding, TermPCs, Running, AtMostOneMiner, control, counts, Restart, Call
  <2> QED
    BY <2>1, <2>2, <2>3 DEF OwnerNext
<1>4. CASE \E c \in Callers : Close(c)
  BY <1>4 DEF Close, Call
<1>5. CASE \E c \in Callers, t \in Threads : SetThreads(c, t)
  <2>1. Queued'
    <3>1. CASE Running
      BY <3>1, <1>5, <1>0, AppendWaits DEF OwnerInv, Queued, SetThreads, Call
    <3>2. CASE ~Running
      BY <3>2, <1>5, <1>0 DEF OwnerInv, Queued, Waits, SetThreads
    <3> QED
      BY <3>1, <3>2
  <2>2. RunnerHolds' /\ StopMoved' /\ NoPolls'
    BY <1>5, <1>0 DEF OwnerInv, RunnerHolds, Attended, StopMoved, NoPolls, Holding, TermPCs, Running, AtMostOneMiner, control, counts, SetThreads, Call
  <2>3. Attended'
    BY <1>5, <1>0 DEF OwnerInv, RunnerHolds, Attended, StopMoved, NoPolls, Holding, TermPCs, Running, AtMostOneMiner, control, counts, SetThreads, Call
  <2> QED
    BY <2>1, <2>2, <2>3 DEF OwnerNext
<1>6. CASE \E a \in Actors : TermBegin(a)
  <2>1. Queued'
    BY <1>6, <1>0 DEF OwnerInv, Queued, Waits, TermBegin, TermKillAll, Terminate, termOnly
  <2>2. RunnerHolds' /\ StopMoved' /\ NoPolls'
    BY <1>6, <1>0 DEF OwnerInv, RunnerHolds, Attended, StopMoved, NoPolls, Holding, TermPCs, Running, AtMostOneMiner, control, counts, TermBegin, TermKillAll, Terminate, termOnly
  <2>3. Attended'
    BY <1>6, <1>0 DEF OwnerInv, RunnerHolds, Attended, StopMoved, NoPolls, Holding, TermPCs, Running, AtMostOneMiner, control, counts, TermBegin, TermKillAll, Terminate, termOnly
  <2> QED
    BY <2>1, <2>2, <2>3 DEF OwnerNext
<1>7. CASE \E a \in Actors : TermTimeout(a)
  <2>1. Queued'
    BY <1>7, <1>0 DEF OwnerInv, Queued, Waits, TermTimeout, termOnly
  <2>2. RunnerHolds' /\ StopMoved' /\ NoPolls'
    BY <1>7, <1>0 DEF OwnerInv, RunnerHolds, Attended, StopMoved, NoPolls, Holding, TermPCs, Running, AtMostOneMiner, control, counts, TermTimeout, termOnly
  <2>3. Attended'
    BY <1>7, <1>0 DEF OwnerInv, RunnerHolds, Attended, StopMoved, NoPolls, Holding, TermPCs, Running, AtMostOneMiner, control, counts, TermTimeout, termOnly
  <2> QED
    BY <2>1, <2>2, <2>3 DEF OwnerNext
<1>8. CASE \E a \in Actors : TermReaped(a)
  <2>1. Queued'
    BY <1>8, <1>0 DEF OwnerInv, Queued, Waits, TermReaped, TermKillAll, Terminate, termOnly
  <2>2. RunnerHolds' /\ StopMoved' /\ NoPolls'
    BY <1>8, <1>0 DEF OwnerInv, RunnerHolds, Attended, StopMoved, NoPolls, Holding, TermPCs, Running, AtMostOneMiner, control, counts, TermReaped, TermKillAll, Terminate, termOnly
  <2>3. Attended'
    BY <1>8, <1>0 DEF OwnerInv, RunnerHolds, Attended, StopMoved, NoPolls, Holding, TermPCs, Running, AtMostOneMiner, control, counts, TermReaped, TermKillAll, Terminate, termOnly
  <2> QED
    BY <2>1, <2>2, <2>3 DEF OwnerNext
<1>9. CASE \E a \in Actors : TermPolled(a)
  BY <1>9, <1>0 DEF OwnerInv, NoPolls, TermPolled
<1>10. CASE \E a \in Actors : TermLastPoll(a)
  BY <1>10, <1>0 DEF OwnerInv, NoPolls, TermLastPoll
<1>11. CASE \E a \in Actors : TermForce(a)
  BY <1>11, <1>0 DEF OwnerInv, NoPolls, TermForce
<1>12. CASE \E a \in Actors : TermReturns(a)
  <2>1. Queued'
    BY <1>12, <1>0, TailWaits DEF OwnerInv, Queued, LockOwned, TermReturns
  <2>2. RunnerHolds' /\ StopMoved' /\ NoPolls'
    BY <1>12, <1>0 DEF OwnerInv, RunnerHolds, Attended, StopMoved, NoPolls, Holding, TermPCs, Running, AtMostOneMiner, control, counts, TermReturns
  <2>3. Attended'
    BY <1>12, <1>0 DEF OwnerInv, RunnerHolds, Attended, StopMoved, NoPolls, Holding, TermPCs, Running, AtMostOneMiner, control, counts, TermReturns
  <2> QED
    BY <2>1, <2>2, <2>3 DEF OwnerNext
<1>13. CASE \E a \in Actors : CloseReturns(a)
  BY <1>13, <1>0 DEF OwnerInv, NoPolls, CloseReturns
<1>14. CASE RunnerWakes
  <2>1. Queued'
    BY <1>14, <1>0 DEF OwnerInv, Queued, Waits, RunnerWakes, LoopTop, Terminate
  <2>2. RunnerHolds' /\ StopMoved' /\ NoPolls'
    BY <1>14, <1>0 DEF OwnerInv, RunnerHolds, Attended, StopMoved, NoPolls, Holding, TermPCs, Running, AtMostOneMiner, control, counts, RunnerWakes, LoopTop, Terminate
  <2>3. Attended'
    BY <1>14, <1>0 DEF OwnerInv, RunnerHolds, Attended, StopMoved, NoPolls, Holding, TermPCs, Running, AtMostOneMiner, control, counts, RunnerWakes, LoopTop, Terminate
  <2> QED
    BY <2>1, <2>2, <2>3 DEF OwnerNext
<1>15. CASE RetryWoken
  <2>1. Queued'
    BY <1>15, <1>0 DEF OwnerInv, Queued, Waits, RetryWoken, LoopTop, Terminate
  <2>2. RunnerHolds' /\ StopMoved' /\ NoPolls'
    BY <1>15, <1>0 DEF OwnerInv, RunnerHolds, Attended, StopMoved, NoPolls, Holding, TermPCs, Running, AtMostOneMiner, control, counts, RetryWoken, LoopTop, Terminate
  <2>3. Attended'
    BY <1>15, <1>0 DEF OwnerInv, RunnerHolds, Attended, StopMoved, NoPolls, Holding, TermPCs, Running, AtMostOneMiner, control, counts, RetryWoken, LoopTop, Terminate
  <2> QED
    BY <2>1, <2>2, <2>3 DEF OwnerNext
<1>16. CASE RetryTimer
  <2>1. Queued'
    BY <1>16, <1>0 DEF OwnerInv, Queued, Waits, RetryTimer, LoopTop, Terminate
  <2>2. RunnerHolds' /\ StopMoved' /\ NoPolls'
    BY <1>16, <1>0 DEF OwnerInv, RunnerHolds, Attended, StopMoved, NoPolls, Holding, TermPCs, Running, AtMostOneMiner, control, counts, RetryTimer, LoopTop, Terminate
  <2>3. Attended'
    BY <1>16, <1>0 DEF OwnerInv, RunnerHolds, Attended, StopMoved, NoPolls, Holding, TermPCs, Running, AtMostOneMiner, control, counts, RetryTimer, LoopTop, Terminate
  <2> QED
    BY <2>1, <2>2, <2>3 DEF OwnerNext
<1>17. CASE ScanPolled
  BY <1>17, <1>0 DEF OwnerInv, NoPolls, ScanPolled
<1>18. CASE ScanLastPoll
  BY <1>18, <1>0 DEF OwnerInv, NoPolls, ScanLastPoll
<1>19. CASE ScanForce
  BY <1>19, <1>0 DEF OwnerInv, NoPolls, ScanForce
<1>20. CASE SpawnForks
  <2>0. /\ pc' = [pc EXCEPT ![Runner] = "exec"] /\ pc'[Runner] = "exec"
        /\ live' = {spawned'}
        /\ UNCHANGED <<desired, manualStop, stale, req>>
    BY <1>20, <1>0 DEF ScanSound, SpawnForks, spawnOnly, control, Actors
  <2>1. Queued'
    BY <1>20, <1>0 DEF OwnerInv, Queued, Waits, SpawnForks, spawnOnly
  <2>2. RunnerHolds'
    BY <2>0 DEF RunnerHolds
  <2>3. StopMoved' /\ NoPolls'
    BY <2>0, <1>0 DEF OwnerInv, StopMoved, NoPolls
  <2>4. Attended'
    BY <2>0 DEF Attended
  <2> QED
    BY <2>1, <2>2, <2>3, <2>4 DEF OwnerNext
<1>21. CASE SpawnFails
  <2>1. Queued'
    BY <1>21, <1>0 DEF OwnerInv, Queued, Waits, SpawnFails, spawnOnly
  <2>2. RunnerHolds' /\ StopMoved' /\ NoPolls'
    BY <1>21, <1>0 DEF OwnerInv, RunnerHolds, Attended, StopMoved, NoPolls, Holding, TermPCs, Running, AtMostOneMiner, control, counts, SpawnFails, spawnOnly
  <2>3. Attended'
    BY <1>21, <1>0 DEF OwnerInv, RunnerHolds, Attended, StopMoved, NoPolls, Holding, TermPCs, Running, AtMostOneMiner, control, counts, SpawnFails, spawnOnly
  <2> QED
    BY <2>1, <2>2, <2>3 DEF OwnerNext
<1>22. CASE SpawnPublishes
  <2>1. Queued'
    BY <1>22, <1>0 DEF OwnerInv, Queued, Waits, SpawnPublishes, spawnOnly
  <2>2. RunnerHolds' /\ StopMoved' /\ NoPolls'
    BY <1>22, <1>0 DEF OwnerInv, RunnerHolds, Attended, StopMoved, NoPolls, Holding, TermPCs, Running, AtMostOneMiner, control, counts, SpawnPublishes, spawnOnly
  <2>3. Attended'
    BY <1>22, <1>0 DEF OwnerInv, RunnerHolds, Attended, StopMoved, NoPolls, Holding, TermPCs, Running, AtMostOneMiner, control, counts, SpawnPublishes, spawnOnly
  <2> QED
    BY <2>1, <2>2, <2>3 DEF OwnerNext
<1>23. CASE SpawnSettles
  <2>1. Queued'
    BY <1>23, <1>0 DEF OwnerInv, Queued, Waits, SpawnSettles, spawnOnly
  <2>2. RunnerHolds' /\ StopMoved' /\ NoPolls'
    BY <1>23, <1>0 DEF OwnerInv, RunnerHolds, Attended, StopMoved, NoPolls, Holding, TermPCs, Running, AtMostOneMiner, control, counts, SpawnSettles, spawnOnly
  <2>3. Attended'
    BY <1>23, <1>0 DEF OwnerInv, RunnerHolds, Attended, StopMoved, NoPolls, Holding, TermPCs, Running, AtMostOneMiner, control, counts, SpawnSettles, spawnOnly
  <2> QED
    BY <2>1, <2>2, <2>3 DEF OwnerNext
<1>24. CASE WatchSeesExit
  <2>1. Queued'
    BY <1>24, <1>0 DEF OwnerInv, Queued, Waits, WatchSeesExit, WatchOver, watchOnly
  <2>2. RunnerHolds' /\ StopMoved' /\ NoPolls'
    BY <1>24, <1>0 DEF OwnerInv, RunnerHolds, Attended, StopMoved, NoPolls, Holding, TermPCs, Running, AtMostOneMiner, control, counts, WatchSeesExit, WatchOver, watchOnly
  <2>3. Attended'
    BY <1>24, <1>0 DEF OwnerInv, RunnerHolds, Attended, StopMoved, NoPolls, Holding, TermPCs, Running, AtMostOneMiner, control, counts, WatchSeesExit, WatchOver, watchOnly
  <2> QED
    BY <2>1, <2>2, <2>3 DEF OwnerNext
<1>25. CASE WatchReaps
  <2>1. Queued'
    BY <1>25, <1>0 DEF OwnerInv, Queued, Waits, WatchReaps, WatchOver, watchOnly
  <2>2. RunnerHolds' /\ StopMoved' /\ NoPolls'
    BY <1>25, <1>0 DEF OwnerInv, RunnerHolds, Attended, StopMoved, NoPolls, Holding, TermPCs, Running, AtMostOneMiner, control, counts, WatchReaps, WatchOver, watchOnly
  <2>3. Attended'
    BY <1>25, <1>0 DEF OwnerInv, RunnerHolds, Attended, StopMoved, NoPolls, Holding, TermPCs, Running, AtMostOneMiner, control, counts, WatchReaps, WatchOver, watchOnly
  <2> QED
    BY <2>1, <2>2, <2>3 DEF OwnerNext
<1>26. CASE WatchRestarts
  <2>1. Queued'
    BY <1>26, <1>0, AppendWaits DEF OwnerInv, Queued, WatchRestarts, AskTerminate, watchOnly
  <2>2. RunnerHolds' /\ StopMoved' /\ NoPolls'
    BY <1>26, <1>0 DEF OwnerInv, RunnerHolds, Attended, StopMoved, NoPolls, Holding, TermPCs, Running, AtMostOneMiner, control, counts, WatchRestarts, AskTerminate, watchOnly
  <2>3. Attended'
    BY <1>26, <1>0 DEF OwnerInv, RunnerHolds, Attended, StopMoved, NoPolls, Holding, TermPCs, Running, AtMostOneMiner, control, counts, WatchRestarts, AskTerminate, watchOnly
  <2> QED
    BY <2>1, <2>2, <2>3 DEF OwnerNext
<1>27. CASE MonitorsEnd
  <2>1. Queued'
    <3>1. CASE Running
      BY <3>1, <1>27, <1>0, AppendWaits DEF OwnerInv, Queued, MonitorsEnd, AskTerminate
    <3>2. CASE ~Running
      BY <3>2, <1>27, <1>0 DEF OwnerInv, Queued, Waits, MonitorsEnd, WatchOver
    <3> QED
      BY <3>1, <3>2
  <2>2. RunnerHolds' /\ StopMoved' /\ NoPolls'
    BY <1>27, <1>0 DEF OwnerInv, RunnerHolds, Attended, StopMoved, NoPolls, Holding, TermPCs, Running, AtMostOneMiner, control, counts, MonitorsEnd, WatchOver, AskTerminate, watchOnly
  <2>3. Attended'
    BY <1>27, <1>0 DEF OwnerInv, RunnerHolds, Attended, StopMoved, NoPolls, Holding, TermPCs, Running, AtMostOneMiner, control, counts, MonitorsEnd, WatchOver, AskTerminate, watchOnly
  <2> QED
    BY <2>1, <2>2, <2>3 DEF OwnerNext
<1>28. CASE \E p \in Pids : ProcExit(p)
  <2>1. Queued'
    BY <1>28, <1>0 DEF OwnerInv, Queued, Waits, ProcExit
  <2>2. RunnerHolds' /\ StopMoved' /\ NoPolls'
    BY <1>28, <1>0 DEF OwnerInv, RunnerHolds, Attended, StopMoved, NoPolls, Holding, TermPCs, Running, AtMostOneMiner, control, counts, ProcExit
  <2>3. Attended'
    BY <1>28, <1>0 DEF OwnerInv, RunnerHolds, Attended, StopMoved, NoPolls, Holding, TermPCs, Running, AtMostOneMiner, control, counts, ProcExit
  <2> QED
    BY <2>1, <2>2, <2>3 DEF OwnerNext
<1>29. CASE UNCHANGED vars
  BY <1>29 DEF OwnerNext, OwnerInv, Queued, Waits, RunnerHolds, Running, Attended,
            StopMoved, NoPolls, vars
<1> QED
  BY <1>1, <1>2, <1>3, <1>4, <1>5, <1>6, <1>7, <1>8, <1>9, <1>10, <1>11, <1>12, <1>13, <1>14,
     <1>15, <1>16, <1>17, <1>18, <1>19, <1>20, <1>21, <1>22, <1>23, <1>24, <1>25, <1>26, <1>27, <1>28, <1>29
  DEF Next, TermStep, RunnerStep

\* While terminated processes exit at once and the application runs, a miner
\* the supervisor started is in the runner's hands or about to be terminated,
\* and after a stop only the miner of a spawn under way can still be alive.
THEOREM MinerIsOwned ==
  ASSUME "slowExit" \notin Faults, "close" \notin Requests
  PROVE  Spec => [](LiveIsOwned /\ StoppedIsDoomed)
<1>1. Init => OwnerInv
  <2> SUFFICES ASSUME Init PROVE OwnerInv
    OBVIOUS
  <2>1. MinerInv
    BY TypeInit DEF Init, Leftover, MinerInv, ScanSound, AtMostOneMiner
  <2>2. Queued /\ RunnerHolds /\ NoPolls
    BY DEF Init, Queued, RunnerHolds, Holding, TermPCs, NoPolls
  <2>3. Attended /\ StopMoved
    BY DEF Init, Attended, StopMoved
  <2> QED
    BY <2>1, <2>2, <2>3 DEF OwnerInv
<1>2. OwnerInv => LiveIsOwned /\ StoppedIsDoomed
  <2> SUFFICES ASSUME OwnerInv PROVE LiveIsOwned /\ StoppedIsDoomed
    OBVIOUS
  <2>1. queue = <<>> => \A a \in Actors : pc[a] # "lock"
    BY EmptySeq DEF OwnerInv, Queued, Waits
  <2> QED
    BY <2>1 DEF OwnerInv, Attended, StopMoved, LiveIsOwned, StoppedIsDoomed
<1> QED
  BY <1>1, <1>2, OwnerStep, PTL DEF Spec

----------------------------------------------------------------------------
(* The lock's queue loses nobody and holds nobody twice *)

\* Nobody is in queue q twice; who is in it.
Once(q) == \A i, j \in 1..Len(q) : q[i] = q[j] => i = j
In(q)   == {q[i] : i \in 1..Len(q)}

\* The end of a queue.
LEMMA AppendOnce ==
  ASSUME NEW S, NEW q \in Seq(S), NEW x \in S, Once(q), x \notin In(q)
  PROVE  Once(Append(q, x)) /\ In(Append(q, x)) = In(q) \cup {x}
<1> DEFINE n == Len(q)
           r == Append(q, x)
<1>1. n \in Nat /\ Len(r) = n + 1 /\ r[n + 1] = x
  BY AppendProperties, LenProperties
<1>2. \A i \in 1..n : r[i] = q[i]
  BY AppendProperties
<1>3. \A i \in 1..n : q[i] # x
  BY DEF In
<1>4. \A i, j \in 1..n : q[i] = q[j] => i = j
  BY DEF Once
<1>5. In(q) = {q[i] : i \in 1..n}
  BY DEF In
<1> HIDE DEF n, r
<1>6. \A i \in 1..(n + 1) : i \in 1..n \/ i = n + 1
  BY <1>1
<1>7. \A i \in 1..n : i \in 1..(n + 1) /\ i # n + 1
  BY <1>1
<1>8. n + 1 \in 1..(n + 1)
  BY <1>1
<1>9. Once(r)
  BY <1>1, <1>2, <1>3, <1>4, <1>6 DEF Once
<1>10. In(r) = In(q) \cup {x}
  <2>1. \A y : y \in In(r) <=> \E i \in 1..(n + 1) : y = r[i]
    BY <1>1 DEF In
  <2>2. \A y \in In(r) : y \in In(q) \cup {x}
    BY <2>1, <1>1, <1>2, <1>5, <1>6
  <2>3. x \in In(r)
    BY <2>1, <1>1, <1>8
  <2>4. \A y \in In(q) : y \in In(r)
    BY <2>1, <1>2, <1>5, <1>7
  <2> QED
    BY <2>2, <2>3, <2>4
<1> QED
  BY <1>9, <1>10 DEF r

\* The head of a queue leaves.
LEMMA TailOnce ==
  ASSUME NEW S, NEW q \in Seq(S), q # <<>>, Once(q)
  PROVE  /\ Tail(q) \in Seq(S) /\ Once(Tail(q))
         /\ Head(q) \in In(q) /\ In(Tail(q)) = In(q) \ {Head(q)}
<1> DEFINE n == Len(q)
           r == Tail(q)
           h == Head(q)
<1>1. /\ n \in Nat \ {0} /\ Len(r) = n - 1 /\ h = q[1] /\ r \in Seq(S)
      /\ \A i \in 1..(n - 1) : r[i] = q[i + 1]
  BY HeadTailProperties, LenProperties, EmptySeq
<1>2. \A i, j \in 1..n : q[i] = q[j] => i = j
  BY DEF Once
<1>3. In(q) = {q[i] : i \in 1..n}
  BY DEF In
<1> HIDE DEF n, r, h
<1>4. \A i \in 1..(n - 1) : i + 1 \in 1..n /\ i + 1 # 1
  BY <1>1
<1>5. \A i \in 1..n : i = 1 \/ \E j \in 1..(n - 1) : i = j + 1
  <2> SUFFICES ASSUME NEW i \in 1..n, i # 1 PROVE \E j \in 1..(n - 1) : i = j + 1
    OBVIOUS
  <2>1. i - 1 \in 1..(n - 1) /\ i = (i - 1) + 1
    BY <1>1
  <2> QED
    BY <2>1
<1>6. \A i, j \in 1..(n - 1) : i + 1 = j + 1 => i = j
  BY <1>1
<1>7. Once(r)
  BY <1>1, <1>2, <1>4, <1>6 DEF Once
<1>8. 1 \in 1..n
  BY <1>1
<1>9. In(r) = In(q) \ {h}
  <2>1. \A y : y \in In(r) <=> \E i \in 1..(n - 1) : y = r[i]
    BY <1>1 DEF In
  <2>2. ASSUME NEW y \in In(r) PROVE y \in In(q) /\ y # h
    <3>1. PICK i \in 1..(n - 1) : y = q[i + 1]
      BY <2>1, <1>1
    <3> QED
      BY <3>1, <1>1, <1>2, <1>3, <1>4, <1>8
  <2>3. ASSUME NEW y \in In(q), y # h PROVE y \in In(r)
    <3>1. PICK i \in 1..n : y = q[i]
      BY <1>3
    <3>2. i # 1
      BY <3>1, <2>3, <1>1
    <3>3. PICK j \in 1..(n - 1) : i = j + 1
      BY <3>2, <1>5
    <3> QED
      BY <3>1, <3>3, <2>1, <1>1
  <2> QED
    BY <2>2, <2>3
<1>10. h \in In(q)
  BY <1>1, <1>3, <1>8
<1> QED
  BY <1>1, <1>7, <1>9, <1>10 DEF r, h

\* Someone leaves a queue wherever he is.
LEMMA WithoutOnce ==
  ASSUME NEW S, NEW q \in Seq(S), NEW b, Once(q)
  PROVE  Once(Without(q, b)) /\ In(Without(q, b)) = In(q) \ {b}
<1>1. CASE ~ \E i \in 1..Len(q) : q[i] = b
  <2>1. Without(q, b) = q
    BY <1>1 DEF Without
  <2>2. b \notin In(q)
    BY <1>1 DEF In
  <2> QED
    BY <2>1, <2>2
<1>2. CASE \E i \in 1..Len(q) : q[i] = b
  <2> DEFINE k == CHOOSE j \in 1..Len(q) : q[j] = b
             n == Len(q)
             s == SubSeq(q, 1, k - 1)
             t == SubSeq(q, k + 1, n)
             r == s \o t
  <2>1. k \in 1..n /\ n \in Nat /\ q[k] = b
    BY <1>2, LenProperties
  <2>2. Without(q, b) = r
    BY <1>2 DEF Without
  <2>3. \A i, j \in 1..n : q[i] = q[j] => i = j
    BY DEF Once
  <2>4. In(q) = {q[i] : i \in 1..n}
    BY DEF In
  <2>5. \A i \in 1..n : q[i] \in S
    BY ElementOfSeq
  <2> HIDE DEF k, n
  <2>6. s \in Seq(S) /\ Len(s) = k - 1 /\ \A i \in 1..(k - 1) : s[i] = q[i]
    <3>1. 1 \in Int /\ k - 1 \in Int /\ \A i \in 1..(k - 1) : q[i] \in S
      BY <2>1, <2>5
    <3>2. /\ s \in Seq(S) /\ Len(s) = IF 1 <= k - 1 THEN (k - 1) - 1 + 1 ELSE 0
          /\ \A i \in 1..((k - 1) - 1 + 1) : s[i] = q[1 + i - 1]
      BY <3>1, SubSeqProperties
    <3> HIDE DEF s
    <3>3. (k - 1) - 1 + 1 = k - 1 /\ (~(1 <= k - 1) => k - 1 = 0)
      BY <2>1
    <3>4. \A i \in 1..(k - 1) : 1 + i - 1 = i
      BY <2>1
    <3> QED
      BY <3>2, <3>3, <3>4
  <2>7. t \in Seq(S) /\ Len(t) = n - k /\ \A i \in 1..(n - k) : t[i] = q[k + i]
    <3>1. k + 1 \in Int /\ n \in Int /\ \A i \in (k + 1)..n : q[i] \in S
      BY <2>1, <2>5
    <3>2. /\ t \in Seq(S) /\ Len(t) = IF k + 1 <= n THEN n - (k + 1) + 1 ELSE 0
          /\ \A i \in 1..(n - (k + 1) + 1) : t[i] = q[(k + 1) + i - 1]
      BY <3>1, SubSeqProperties
    <3> HIDE DEF t
    <3>3. n - (k + 1) + 1 = n - k /\ (~(k + 1 <= n) => n - k = 0)
      BY <2>1
    <3>4. \A i \in 1..(n - k) : (k + 1) + i - 1 = k + i
      BY <2>1
    <3> QED
      BY <3>2, <3>3, <3>4
  <2> HIDE DEF s, t
  <2>8. /\ Len(r) = (k - 1) + (n - k)
        /\ \A i \in 1..((k - 1) + (n - k)) :
             r[i] = IF i <= k - 1 THEN s[i] ELSE t[i - (k - 1)]
    <3>1. s \in Seq(S) /\ t \in Seq(S)
      BY <2>6, <2>7
    <3>2. /\ Len(r) = Len(s) + Len(t)
          /\ \A i \in 1..(Len(s) + Len(t)) :
               r[i] = IF i <= Len(s) THEN s[i] ELSE t[i - Len(s)]
      BY <3>1, ConcatProperties
    <3>3. Len(s) = k - 1 /\ Len(t) = n - k
      BY <2>6, <2>7
    <3> QED
      BY <3>2, <3>3
  <2> HIDE DEF r
  <2> DEFINE at(i) == IF i <= k - 1 THEN i ELSE i + 1
  <2>9. (k - 1) + (n - k) = n - 1
    BY <2>1
  <2>10. \A i \in 1..(n - 1) : at(i) \in 1..n /\ at(i) # k
    BY <2>1
  <2>11. ASSUME NEW i \in 1..(n - 1) PROVE r[i] = q[at(i)]
    <3>1. CASE i <= k - 1
      <4>1. i \in 1..(k - 1) /\ r[i] = s[i]
        BY <3>1, <2>1, <2>8, <2>9
      <4> QED
        BY <4>1, <3>1, <2>6
    <3>2. CASE ~(i <= k - 1)
      <4>1. i - (k - 1) \in 1..(n - k) /\ k + (i - (k - 1)) = i + 1
        BY <3>2, <2>1
      <4>2. r[i] = t[i - (k - 1)]
        BY <3>2, <2>8, <2>9
      <4> QED
        BY <4>1, <4>2, <3>2, <2>7
    <3> QED
      BY <3>1, <3>2
  <2>12. \A i, j \in 1..(n - 1) : at(i) = at(j) => i = j
    BY <2>1
  <2>13. \A m \in 1..n : m = k \/ \E i \in 1..(n - 1) : m = at(i)
    <3> SUFFICES ASSUME NEW m \in 1..n, m # k PROVE \E i \in 1..(n - 1) : m = at(i)
      OBVIOUS
    <3>1. CASE m <= k - 1
      <4>1. m \in 1..(n - 1) /\ at(m) = m
        BY <3>1, <2>1
      <4> QED
        BY <4>1
    <3>2. CASE ~(m <= k - 1)
      <4>1. m - 1 \in 1..(n - 1) /\ at(m - 1) = m
        BY <3>2, <2>1
      <4> QED
        BY <4>1
    <3> QED
      BY <3>1, <3>2
  <2> HIDE DEF at
  <2>14. Once(r)
    BY <2>3, <2>8, <2>9, <2>10, <2>11, <2>12 DEF Once
  <2>15. In(r) = In(q) \ {b}
    <3>1. \A y : y \in In(r) <=> \E i \in 1..(n - 1) : y = r[i]
      BY <2>8, <2>9 DEF In
    <3>2. ASSUME NEW y \in In(r) PROVE y \in In(q) /\ y # b
      <4>1. PICK i \in 1..(n - 1) : y = r[i]
        BY <3>1
      <4>2. y = q[at(i)] /\ at(i) \in 1..n /\ at(i) # k
        BY <4>1, <2>10, <2>11
      <4> QED
        BY <4>2, <2>1, <2>3, <2>4
    <3>3. ASSUME NEW y \in In(q), y # b PROVE y \in In(r)
      <4>1. PICK m \in 1..n : y = q[m]
        BY <2>4
      <4>2. m # k
        BY <4>1, <3>3, <2>1
      <4>3. PICK i \in 1..(n - 1) : m = at(i)
        BY <4>2, <2>13
      <4> QED
        BY <4>1, <4>3, <2>11, <3>1
    <3> QED
      BY <3>2, <3>3
  <2> QED
    BY <2>2, <2>14, <2>15
<1> QED
  BY <1>1, <1>2

\* The actors between the request of _terminate_lock and its release.
InLock == {a \in Actors : pc[a] \in TermPCs}

Served == Once(queue) /\ In(queue) = InLock

ServedInv == TypeInv /\ Served

\* A step that neither enters nor leaves the lock.
LEMMA ServedStays ==
  ASSUME ServedInv, UNCHANGED queue,
         \A b \in Actors : pc'[b] \in TermPCs <=> pc[b] \in TermPCs
  PROVE  Served'
  BY DEF ServedInv, Served, InLock

\* An actor outside the lock asks for it.
LEMMA ServedAsked ==
  ASSUME ServedInv, NEW a \in Actors, pc[a] \notin TermPCs,
         pc' = [pc EXCEPT ![a] = "lock"], queue' = Append(queue, a)
  PROVE  Served'
<1>1. queue \in Seq(Actors) /\ a \notin In(queue) /\ Once(queue)
  BY DEF ServedInv, Served, InLock, TypeInv, TypeOK
<1>2. Once(queue') /\ In(queue') = In(queue) \cup {a}
  BY <1>1, AppendOnce
<1>3. \A b \in Actors : pc'[b] \in TermPCs <=> b = a \/ pc[b] \in TermPCs
  BY DEF ServedInv, TypeInv, TypeOK, TermPCs
<1>4. InLock' = InLock \cup {a}
  BY <1>3 DEF InLock
<1> QED
  BY <1>2, <1>4 DEF ServedInv, Served

\* The owner releases the lock: the others keep their places.
LEMMA OwnerLeaves ==
  ASSUME ServedInv, NEW a \in Actors, pc[a] = "post"
  PROVE  /\ Tail(queue) \in Seq(Actors) /\ Once(Tail(queue))
         /\ In(Tail(queue)) = InLock \ {a}
<1>1. Owns(a) /\ queue \in Seq(Actors) /\ Once(queue) /\ In(queue) = InLock
  BY DEF ServedInv, Served, TypeInv, TypeOK, LockOwned
<1>2. queue # <<>> /\ Head(queue) = a
  BY <1>1 DEF Owns
<1> QED
  BY <1>1, <1>2, TailOnce

\* The calls and the runner's requests keep everyone in his place.
LEMMA ServedCalls ==
  ASSUME ServedInv,
         \/ \E t \in Threads : Start(t)
         \/ \E c \in Callers : Stop(c) \/ Restart(c) \/ Close(c)
         \/ \E c \in Callers, t \in Threads : SetThreads(c, t)
         \/ WatchRestarts \/ MonitorsEnd
         \/ \E p \in Pids : ProcExit(p)
  PROVE  Served'
<1>0. pc \in [Actors -> RunnerPCs \cup {"idle"}]
  BY DEF ServedInv, TypeInv, TypeOK
<1>1. CASE \E t \in Threads : Start(t)
  <2>1. \A b \in Actors : pc'[b] \in TermPCs <=> pc[b] \in TermPCs
    BY <1>0, <1>1 DEF Start, TermPCs
  <2> QED
    BY <1>1, <2>1, ServedStays DEF Start
<1>2. CASE \E c \in Callers : Stop(c) \/ Restart(c) \/ Close(c)
  <2>1. PICK c \in Callers : \E r : Call(c, r)
    BY <1>2 DEF Stop, Restart, Close
  <2>2. pc[c] \notin TermPCs
    BY <2>1 DEF Call, TermPCs
  <2> QED
    BY <2>1, <2>2, ServedAsked DEF Call
<1>3. CASE \E c \in Callers, t \in Threads : SetThreads(c, t)
  <2>1. PICK c \in Callers, t \in Threads : SetThreads(c, t)
    BY <1>3
  <2>2. CASE Running
    <3>1. Call(c, "setThreads")
      BY <2>1, <2>2 DEF SetThreads
    <3>2. pc[c] \notin TermPCs
      BY <3>1 DEF Call, TermPCs
    <3> QED
      BY <3>1, <3>2, ServedAsked DEF Call
  <2>3. CASE ~Running
    <3>1. UNCHANGED <<pc, queue>>
      BY <2>1, <2>3 DEF SetThreads
    <3> QED
      BY <3>1, ServedStays
  <2> QED
    BY <2>2, <2>3
<1>4. CASE WatchRestarts
  <2>1. pc[Runner] \notin TermPCs
    BY <1>4 DEF WatchRestarts, TermPCs
  <2> QED
    BY <1>4, <2>1, ServedAsked DEF WatchRestarts, AskTerminate
<1>5. CASE MonitorsEnd
  <2>1. pc[Runner] \notin TermPCs
    BY <1>5 DEF MonitorsEnd, TermPCs
  <2>2. CASE Running
    BY <1>5, <2>1, <2>2, ServedAsked DEF MonitorsEnd, AskTerminate
  <2>3. CASE ~Running
    <3>1. \A b \in Actors : pc'[b] \in TermPCs <=> pc[b] \in TermPCs
      BY <1>0, <1>5, <2>1, <2>3 DEF MonitorsEnd, WatchOver, TermPCs
    <3> QED
      BY <1>5, <2>3, <3>1, ServedStays DEF MonitorsEnd
  <2> QED
    BY <2>2, <2>3
<1>6. CASE \E p \in Pids : ProcExit(p)
  BY <1>6, ServedStays DEF ProcExit
<1> QED
  BY <1>1, <1>2, <1>3, <1>4, <1>5, <1>6

\* The owner's steps: the others keep their places, and close() takes the
\* runner it cancels out of the queue.
LEMMA ServedTerm ==
  ASSUME ServedInv, NEW a \in Actors, TermStep(a)
  PROVE  Served'
<1>0. pc \in [Actors -> RunnerPCs \cup {"idle"}] /\ Runner \notin Callers
  BY CallersAssumption DEF ServedInv, TypeInv, TypeOK
<1>1. CASE TermBegin(a)
  <2>1. UNCHANGED queue
    BY <1>1 DEF TermBegin
  <2>2. \A b \in Actors : pc'[b] \in TermPCs <=> pc[b] \in TermPCs
    BY <1>0, <1>1 DEF TermBegin, TermKillAll, TermPCs
  <2> QED
    BY <2>1, <2>2, ServedStays
<1>2. CASE TermTimeout(a)
  <2>1. UNCHANGED queue
    BY <1>2 DEF TermTimeout
  <2>2. \A b \in Actors : pc'[b] \in TermPCs <=> pc[b] \in TermPCs
    BY <1>0, <1>2 DEF TermTimeout, TermPCs
  <2> QED
    BY <2>1, <2>2, ServedStays
<1>3. CASE TermReaped(a)
  <2>1. UNCHANGED queue
    BY <1>3 DEF TermReaped
  <2>2. \A b \in Actors : pc'[b] \in TermPCs <=> pc[b] \in TermPCs
    BY <1>0, <1>3 DEF TermReaped, TermKillAll, TermPCs
  <2> QED
    BY <2>1, <2>2, ServedStays
<1>4. CASE TermPolled(a)
  <2>1. UNCHANGED queue
    BY <1>4 DEF TermPolled
  <2>2. \A b \in Actors : pc'[b] \in TermPCs <=> pc[b] \in TermPCs
    BY <1>0, <1>4 DEF TermPolled, TermPCs
  <2> QED
    BY <2>1, <2>2, ServedStays
<1>5. CASE TermLastPoll(a)
  <2>1. UNCHANGED queue
    BY <1>5 DEF TermLastPoll
  <2>2. \A b \in Actors : pc'[b] \in TermPCs <=> pc[b] \in TermPCs
    BY <1>0, <1>5 DEF TermLastPoll, TermPCs
  <2> QED
    BY <2>1, <2>2, ServedStays
<1>6. CASE TermForce(a)
  <2>1. UNCHANGED queue
    BY <1>6 DEF TermForce
  <2>2. \A b \in Actors : pc'[b] \in TermPCs <=> pc[b] \in TermPCs
    BY <1>0, <1>6 DEF TermForce, TermPCs
  <2> QED
    BY <2>1, <2>2, ServedStays
<1>7. CASE TermReturns(a)
  <2>1. Once(Tail(queue)) /\ In(Tail(queue)) = InLock \ {a} /\ queue' = Tail(queue)
    BY <1>7, OwnerLeaves DEF TermReturns
  <2>2. \A b \in Actors : pc'[b] \in TermPCs <=> b # a /\ pc[b] \in TermPCs
    BY <1>0, <1>7 DEF TermReturns, TermPCs
  <2>3. InLock' = InLock \ {a}
    BY <2>2 DEF InLock
  <2> QED
    BY <2>1, <2>3 DEF Served
<1>8. CASE CloseReturns(a)
  <2>1. /\ Tail(queue) \in Seq(Actors) /\ Once(Tail(queue))
        /\ In(Tail(queue)) = InLock \ {a}
    BY <1>8, OwnerLeaves DEF CloseReturns
  <2>2. /\ Once(Without(Tail(queue), Runner))
        /\ In(Without(Tail(queue), Runner)) = (InLock \ {a}) \ {Runner}
    BY <2>1, WithoutOnce
  <2>3. \A b \in Actors :
          pc'[b] \in TermPCs <=> b # a /\ b # Runner /\ pc[b] \in TermPCs
    BY <1>0, <1>8 DEF CloseReturns, TermPCs
  <2>4. InLock' = (InLock \ {a}) \ {Runner}
    BY <2>3 DEF InLock
  <2>5. queue' = Without(Tail(queue), Runner)
    BY <1>8 DEF CloseReturns
  <2> QED
    BY <2>2, <2>4, <2>5 DEF Served
<1> QED
  BY <1>1, <1>2, <1>3, <1>4, <1>5, <1>6, <1>7, <1>8 DEF TermStep

\* The runner's own steps are outside the lock.
LEMMA ServedRunner ==
  ASSUME ServedInv, RunnerStep
  PROVE  Served'
<1>0. pc \in [Actors -> RunnerPCs \cup {"idle"}]
  BY DEF ServedInv, TypeInv, TypeOK
<1>1. SUFFICES UNCHANGED queue /\ \A b \in Actors : pc'[b] \in TermPCs <=> pc[b] \in TermPCs
  BY ServedStays
<1>2. CASE RunnerWakes
  BY <1>0, <1>2 DEF RunnerWakes, LoopTop, TermPCs
<1>3. CASE RetryWoken
  BY <1>0, <1>3 DEF RetryWoken, LoopTop, TermPCs
<1>4. CASE RetryTimer
  BY <1>0, <1>4 DEF RetryTimer, LoopTop, TermPCs
<1>5. CASE ScanPolled
  BY <1>0, <1>5 DEF ScanPolled, spawnOnly, TermPCs
<1>6. CASE ScanLastPoll
  BY <1>0, <1>6 DEF ScanLastPoll, spawnOnly, TermPCs
<1>7. CASE ScanForce
  BY <1>0, <1>7 DEF ScanForce, spawnOnly, TermPCs
<1>8. CASE SpawnForks
  BY <1>0, <1>8 DEF SpawnForks, spawnOnly, TermPCs
<1>9. CASE SpawnFails
  BY <1>0, <1>9 DEF SpawnFails, spawnOnly, TermPCs
<1>10. CASE SpawnPublishes
  BY <1>0, <1>10 DEF SpawnPublishes, spawnOnly, TermPCs
<1>11. CASE SpawnSettles
  BY <1>0, <1>11 DEF SpawnSettles, spawnOnly, TermPCs
<1>12. CASE WatchSeesExit
  BY <1>0, <1>12 DEF WatchSeesExit, WatchOver, TermPCs
<1>13. CASE WatchReaps
  BY <1>0, <1>13 DEF WatchReaps, WatchOver, TermPCs
<1> QED
  BY <1>2, <1>3, <1>4, <1>5, <1>6, <1>7, <1>8, <1>9, <1>10, <1>11, <1>12, <1>13 DEF RunnerStep

\* _terminate_lock serves everyone: in every state, for every set of callers,
\* requests and faults, those who asked for it and have not released it are
\* exactly the actors in its queue, each of them once.  Nobody waits outside
\* the queue, where no release would ever reach him; nobody who has left or
\* was cancelled by close() still blocks the others.
THEOREM LockServesAll ==
  Spec => [](Once(queue) /\ In(queue) = {a \in Actors : pc[a] \in TermPCs})
<1>1. Init => ServedInv
  <2> SUFFICES ASSUME Init PROVE Served
    BY TypeInit DEF ServedInv
  <2>1. Len(queue) = 0
    BY EmptySeq DEF Init
  <2>2. Once(queue) /\ In(queue) = {}
    BY <2>1 DEF Once, In
  <2>3. InLock = {}
    BY DEF Init, InLock, TermPCs
  <2> QED
    BY <2>2, <2>3 DEF Served
<1>2. ServedInv /\ [Next]_vars => ServedInv'
  <2> SUFFICES ASSUME ServedInv, [Next]_vars PROVE Served'
    BY TypeStep DEF ServedInv
  <2>1. CASE UNCHANGED vars
    BY <2>1, ServedStays DEF vars
  <2>2. CASE Next
    BY <2>2, ServedCalls, ServedTerm, ServedRunner DEF Next
  <2> QED
    BY <2>1, <2>2
<1>3. ServedInv => Once(queue) /\ In(queue) = {a \in Actors : pc[a] \in TermPCs}
  BY DEF ServedInv, Served, InLock
<1> QED
  BY <1>1, <1>2, <1>3, PTL DEF Spec
=============================================================================
