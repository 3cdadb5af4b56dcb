----------------------------- MODULE P2PoolProofs -----------------------------
(***************************************************************************)
(* Proofs about P2PoolProcess for every set of clients, every number of    *)
(* processes and every set of requests: type correctness, the exclusion    *)
(* proc_lock gives, and what it is there for: at most one P2Pool process   *)
(* exists, none escapes the reference the next stop uses, each has its     *)
(* watcher, a stop is not taken for a crash, and the lock forgets nobody.  *)
(*                                                                         *)
(* Then about P2PoolIpMonitor: the life cycle under the IP monitor is the  *)
(* life cycle with one more client, so all of this holds with the monitor  *)
(* running; and what the monitor itself promises: it restarts P2Pool only  *)
(* for a confirmed address, and adopts that address only when P2Pool was   *)
(* started under it.                                                       *)
(***************************************************************************)
EXTENDS P2PoolIpMonitor, SequenceTheorems, TLAPS

----------------------------------------------------------------------------
(* The life cycle *)

\* Appending to a queue keeps it a queue and keeps its head.
LEMMA AppendFacts ==
  ASSUME NEW S, NEW q \in Seq(S), NEW x \in S
  PROVE  /\ Append(q, x) \in Seq(S) /\ Append(q, x) # <<>>
         /\ q # <<>> => Head(Append(q, x)) = Head(q)
  BY AppendProperties, HeadTailAppend

\* A start in progress has spawned a process.
ExecSpawned == \A a \in Actors : pc[a] = "exec" => spawned # 0

\* Whoever is suspended inside the lock owns it.
LockOwned == \A a \in Actors : pc[a] \in Critical => Owns(a)

\* The part of the inductive invariant that is about the lock.
LockInv == TypeOK /\ LockOwned /\ ExecSpawned

\* What the lock's variables owe the invariant in the next state.
LockNext == /\ pc' \in [Actors -> PCs] /\ queue' \in Seq(Actors)
            /\ LockOwned'
            /\ \A b \in Actors : pc'[b] = "exec" => pc[b] = "exec"

\* The owner leaves the lock: nobody else was inside it.
LEMMA LeaveLockInv ==
  ASSUME LockInv, NEW a \in Actors, Owns(a),
         NEW next \in PCs \ Critical, LeaveLock(a, next)
  PROVE  /\ LockNext
         /\ req' \in [Clients -> AllRequests \cup {"none", "shutdown"}]
         /\ loop' \in {"running", "closing", "draining", "stopped", "exited"}
<1>1. Tail(queue) \in Seq(Actors)
  BY HeadTailProperties DEF LockInv, TypeOK, Owns
<1>2. queue' \in Seq(Actors)
  BY <1>1, AppendProperties DEF LeaveLock
<1>3. pc' = [pc EXCEPT ![a] = next] /\ pc' \in [Actors -> PCs]
  BY DEF LeaveLock, LockInv, TypeOK
<1>4. \A b \in Actors : pc'[b] \notin Critical
  BY <1>3 DEF LockInv, TypeOK, LockOwned, Owns
<1>5. req' \in [Clients -> AllRequests \cup {"none", "shutdown"}]
  BY DEF LeaveLock, LockInv, TypeOK
<1>6. loop' \in {"running", "closing", "draining", "stopped", "exited"}
  BY DEF LeaveLock, LockInv, TypeOK
<1> QED
  BY <1>2, <1>3, <1>4, <1>5, <1>6 DEF LockNext, LockOwned, Critical

\* An actor outside the lock queues for it: the owner stays the owner.
LEMMA EnqueueInv ==
  ASSUME LockInv, NEW a \in Actors, NEW next \in PCs \ Critical,
         pc' = [pc EXCEPT ![a] = next], queue' = Append(queue, a)
  PROVE  LockNext
<1>1. queue' \in Seq(Actors) /\ queue' # <<>>
  BY AppendProperties DEF LockInv, TypeOK
<1>2. queue # <<>> => Head(queue') = Head(queue)
  BY HeadTailAppend DEF LockInv, TypeOK
<1>3. pc' \in [Actors -> PCs]
  BY DEF LockInv, TypeOK
<1>4. LockOwned'
  BY <1>1, <1>2 DEF LockInv, TypeOK, LockOwned, Owns
<1> QED
  BY <1>1, <1>3, <1>4 DEF LockNext, LockInv, TypeOK, Critical

\* An actor moves without touching the queue.
LEMMA MoveInv ==
  ASSUME LockInv, NEW a \in Actors, NEW next \in PCs \ {"exec"},
         next \in Critical => Owns(a),
         pc' = [pc EXCEPT ![a] = next], queue' = queue
  PROVE  LockNext
  BY DEF LockInv, TypeOK, LockOwned, LockNext, Owns

----------------------------------------------------------------------------
(* The lock *)

LEMMA TypeInit == Init => TypeOK
<1> SUFFICES ASSUME Init PROVE TypeOK
  OBVIOUS
<1> USE DEF Init
<1>1. procRef \in 0..MaxPid /\ psutilProc \in 0..MaxPid /\ watchTask \in 0..MaxPid
      /\ spawned \in 0..MaxPid /\ attempts \in Nat /\ live \in SUBSET Pids
  BY MaxPidAssumption
<1>2. queue \in Seq(Actors)
  BY EmptySeq
<1>3. pc \in [Actors -> PCs]
  BY DEF PCs
<1>4. req \in [Clients -> AllRequests \cup {"none", "shutdown"}]
  OBVIOUS
<1> QED
  BY <1>1, <1>2, <1>3, <1>4 DEF TypeOK

LEMMA LockInit == Init => LockInv
<1> SUFFICES ASSUME Init PROVE LockOwned /\ ExecSpawned
  BY TypeInit DEF LockInv
<1> QED
  BY DEF Init, LockOwned, ExecSpawned, Critical

\* Every step keeps the types and the exclusion.
LEMMA LockStep == LockInv /\ [Next]_vars => LockInv'
<1> SUFFICES ASSUME LockInv, [Next]_vars PROVE LockInv'
  OBVIOUS
<1> USE MaxPidAssumption
<1>1. ASSUME NEW c \in Clients, NEW r \in Requests, Request(c, r)
      PROVE  LockInv'
  <2>1. r \in AllRequests /\ c \in Actors
    BY RequestsAssumption DEF Actors
  <2>2. CASE r = "ipRestart" /\ latched
    BY <1>1, <2>2 DEF Request, LockInv, TypeOK, LockOwned, ExecSpawned,
                      Owns, refs, app, os
  <2>3. CASE ~(r = "ipRestart" /\ latched)
    <3> DEFINE next == CASE r = "guiStart" -> "start"
                         [] r = "webRestart" /\ ~Running -> "start"
                         [] r = "status" -> "stdin"
                         [] OTHER -> "stop"
    <3>1. pc' = [pc EXCEPT ![c] = next] /\ queue' = Append(queue, c)
      BY <1>1, <2>3 DEF Request
    <3>2. next \in PCs \ Critical
      BY DEF PCs, Critical
    <3>3. LockNext
      BY <2>1, <3>1, <3>2, EnqueueInv
    <3> QED
      BY <1>1, <2>1, <2>3, <3>3 DEF Request, LockInv, TypeOK, LockNext,
                                    ExecSpawned, refs, app, os
  <2> QED
    BY <2>2, <2>3
<1>2. ASSUME NEW c \in Clients, Shutdown(c)
      PROVE  LockInv'
  <2>1. LockNext
    BY <1>2, EnqueueInv DEF Shutdown, Actors, PCs, Critical
  <2> QED
    BY <1>2, <2>1 DEF Shutdown, LockInv, TypeOK, LockNext, ExecSpawned, refs, os
<1>3. ASSUME NEW a \in Actors, StartRefused(a)
      PROVE  LockInv'
  <2>1. LeaveLock(a, "idle") /\ Owns(a) /\ started' \in [Clients -> BOOLEAN]
    BY <1>3 DEF StartRefused, StartReturns, Report, LockInv, TypeOK
  <2>2. /\ LockNext
        /\ req' \in [Clients -> AllRequests \cup {"none", "shutdown"}]
        /\ loop' \in {"running", "closing", "draining", "stopped", "exited"}
    BY <2>1, LeaveLockInv DEF PCs, Critical
  <2> QED
    BY <1>3, <2>1, <2>2 DEF StartRefused, LockInv, TypeOK, LockNext,
                            ExecSpawned, refs, os
<1>4. ASSUME NEW a \in Actors, StartSpawn(a)
      PROVE  LockInv'
  <2>1. LockOwned'
    BY <1>4 DEF StartSpawn, LockInv, TypeOK, LockOwned, Owns
  <2>2. spawned' \in 1..MaxPid /\ live' \in SUBSET Pids
    BY <1>4 DEF StartSpawn, LockInv, TypeOK, Pids
  <2>3. pc' \in [Actors -> PCs] /\ latched' \in BOOLEAN /\ expectedStop' \in BOOLEAN
    BY <1>4 DEF StartSpawn, LockInv, TypeOK, PCs
  <2> QED
    BY <1>4, <2>1, <2>2, <2>3 DEF StartSpawn, LockInv, TypeOK, ExecSpawned, refs, app
<1>5. ASSUME NEW a \in Actors, StartPopenFails(a)
      PROVE  LockInv'
  <2>1. LeaveLock(a, "idle") /\ Owns(a) /\ started' \in [Clients -> BOOLEAN]
    BY <1>5 DEF StartPopenFails, StartReturns, Report, LockInv, TypeOK
  <2>2. /\ LockNext
        /\ req' \in [Clients -> AllRequests \cup {"none", "shutdown"}]
        /\ loop' \in {"running", "closing", "draining", "stopped", "exited"}
    BY <2>1, LeaveLockInv DEF PCs, Critical
  <2>3. /\ procRef' \in 0..MaxPid /\ psutilProc' \in 0..MaxPid
        /\ watchTask' \in 0..MaxPid
        /\ latched' \in BOOLEAN /\ expectedStop' \in BOOLEAN
    <3>1. procRef' = 0 /\ psutilProc' = 0 /\ watchTask' = 0 /\ 0 \in 0..MaxPid
      BY <1>5 DEF StartPopenFails
    <3>2. latched' = FALSE /\ expectedStop' = FALSE
      BY <1>5, Zenon DEF StartPopenFails
    <3> QED
      BY <3>1, <3>2, Zenon
  <2>4. ExecSpawned'
    BY <1>5, <2>2 DEF StartPopenFails, LockInv, LockNext, ExecSpawned, os
  <2> QED
    BY <1>5, <2>1, <2>2, <2>3, <2>4 DEF StartPopenFails, LockInv, TypeOK, LockNext, os
<1>6. ASSUME NEW a \in Actors, StartFinish(a)
      PROVE  LockInv'
  <2>1. Owns(a) /\ spawned \in Pids /\ spawned \in Actors
    BY <1>6 DEF StartFinish, LockInv, TypeOK, LockOwned, ExecSpawned,
                Critical, Pids, Actors
  <2>2. Tail(queue) \in Seq(Actors)
    BY <2>1, HeadTailProperties DEF LockInv, TypeOK, Owns
  <2>3. queue' \in Seq(Actors)
    BY <1>6, <2>1, <2>2, AppendProperties DEF StartFinish
  <2>4. /\ pc' \in [Actors -> PCs]
        /\ \A b \in Actors : pc'[b] \notin Critical
    <3>1. CASE spawned \in live
      BY <1>6, <2>1, <3>1 DEF StartFinish, LockInv, TypeOK, LockOwned,
                              Owns, Critical, PCs
    <3>2. CASE spawned \notin live
      BY <1>6, <2>1, <3>2 DEF StartFinish, LockInv, TypeOK, LockOwned,
                              Owns, Critical, PCs
    <3> QED
      BY <3>1, <3>2
  <2>5. /\ started' \in [Clients -> BOOLEAN]
        /\ req' \in [Clients -> AllRequests \cup {"none", "shutdown"}]
        /\ attempts' \in Nat
        /\ procRef' \in 0..MaxPid /\ psutilProc' \in 0..MaxPid
        /\ watchTask' \in 0..MaxPid
    BY <1>6 DEF StartFinish, Report, LockInv, TypeOK
  <2> QED
    BY <1>6, <2>3, <2>4, <2>5 DEF StartFinish, LockInv, TypeOK, LockOwned,
                                  ExecSpawned, Critical, app, os
<1>7. ASSUME NEW a \in Actors, StartAborts(a)
      PROVE  LockInv'
  <2>1. Owns(a)
    BY <1>7 DEF StartAborts, LockInv, LockOwned, Critical
  <2>2. LeaveLock(a, "idle") /\ started' \in [Clients -> BOOLEAN]
    BY <1>7 DEF StartAborts, StartReturns, Report, LockInv, TypeOK
  <2>3. /\ LockNext
        /\ req' \in [Clients -> AllRequests \cup {"none", "shutdown"}]
        /\ loop' \in {"running", "closing", "draining", "stopped", "exited"}
    BY <2>1, <2>2, LeaveLockInv DEF PCs, Critical
  <2>4. live' \in SUBSET Pids
    BY <1>7 DEF StartAborts, LockInv, TypeOK
  <2> QED
    BY <1>7, <2>2, <2>3, <2>4 DEF StartAborts, LockInv, TypeOK, LockNext, ExecSpawned
<1>8. ASSUME NEW c \in Clients, StopRefused(c)
      PROVE  LockInv'
  <2>1. AfterStop(c) \in {"idle", "start"}
    BY DEF AfterStop
  <2>2. /\ LockNext
        /\ req' \in [Clients -> AllRequests \cup {"none", "shutdown"}]
        /\ loop' \in {"running", "closing", "draining", "stopped", "exited"}
    BY <1>8, <2>1, LeaveLockInv DEF StopRefused, PCs, Critical, Actors
  <2> QED
    BY <1>8, <2>2 DEF StopRefused, Latch, LockInv, TypeOK, LockNext,
                      ExecSpawned, refs, os
<1>9. ASSUME NEW c \in Clients, StopBegin(c)
      PROVE  LockInv'
  <2>1. pc' \in [Actors -> PCs]
    BY <1>9 DEF StopBegin, LockInv, TypeOK, PCs
  <2>2. LockOwned' /\ ExecSpawned'
    BY <1>9 DEF StopBegin, LockInv, TypeOK, LockOwned, ExecSpawned, Owns,
                Critical, Actors, os
  <2> QED
    BY <1>9, <2>1, <2>2 DEF StopBegin, Latch, LockInv, TypeOK, refs, app, os
<1>10. ASSUME NEW c \in Clients, StopTerminate(c)
       PROVE  LockInv'
  <2>1. LockNext
    BY <1>10, MoveInv DEF StopTerminate, LockInv, LockOwned, PCs, Critical, Actors
  <2> QED
    BY <1>10, <2>1 DEF StopTerminate, LockInv, TypeOK, LockNext, ExecSpawned, app, os
<1>11. ASSUME NEW c \in Clients, StopTimeout(c)
       PROVE  LockInv'
  <2>1. LockNext
    BY <1>11, MoveInv DEF StopTimeout, LockInv, LockOwned, PCs, Critical, Actors
  <2> QED
    BY <1>11, <2>1 DEF StopTimeout, LockInv, TypeOK, LockNext, ExecSpawned,
                       refs, app, os
<1>12. ASSUME NEW c \in Clients, StopFinish(c)
       PROVE  LockInv'
  <2>1. AfterStop(c) \in {"idle", "start"}
    BY DEF AfterStop
  <2>2. Owns(c) /\ c \in Actors
    BY <1>12 DEF StopFinish, LockInv, LockOwned, Critical, Actors
  <2>3. /\ LockNext
        /\ req' \in [Clients -> AllRequests \cup {"none", "shutdown"}]
        /\ loop' \in {"running", "closing", "draining", "stopped", "exited"}
    BY <1>12, <2>1, <2>2, LeaveLockInv DEF StopFinish, PCs, Critical
  <2> QED
    BY <1>12, <2>3 DEF StopFinish, LockInv, TypeOK, LockNext, ExecSpawned, os
<1>13. ASSUME NEW c \in Clients, StdinBegin(c)
       PROVE  LockInv'
  <2>1. CASE procRef # 0
    <3>1. LockNext
      BY <1>13, <2>1, MoveInv DEF StdinBegin, PCs, Actors
    <3> QED
      BY <1>13, <2>1, <3>1 DEF StdinBegin, LockInv, TypeOK, LockNext,
                               ExecSpawned, refs, os
  <2>2. CASE procRef = 0
    <3>1. /\ LockNext
          /\ req' \in [Clients -> AllRequests \cup {"none", "shutdown"}]
          /\ loop' \in {"running", "closing", "draining", "stopped", "exited"}
      BY <1>13, <2>2, LeaveLockInv DEF StdinBegin, PCs, Critical, Actors
    <3> QED
      BY <1>13, <2>2, <3>1 DEF StdinBegin, LockInv, TypeOK, LockNext,
                               ExecSpawned, refs, os
  <2> QED
    BY <2>1, <2>2
<1>14. ASSUME NEW c \in Clients, StdinFinish(c)
       PROVE  LockInv'
  <2>1. Owns(c) /\ c \in Actors
    BY <1>14 DEF StdinFinish, LockInv, LockOwned, Critical, Actors
  <2>2. /\ LockNext
        /\ req' \in [Clients -> AllRequests \cup {"none", "shutdown"}]
        /\ loop' \in {"running", "closing", "draining", "stopped", "exited"}
    BY <1>14, <2>1, LeaveLockInv DEF StdinFinish, PCs, Critical
  <2> QED
    BY <1>14, <2>2 DEF StdinFinish, LockInv, TypeOK, LockNext, ExecSpawned, refs, os
<1>15. ASSUME NEW p \in Pids, WatchDecide(p)
       PROVE  LockInv'
  <2> DEFINE next == IF expectedStop \/ stopEvent \/ latched THEN "idle" ELSE "backoff"
  <2>1. LeaveLock(p, next) /\ Owns(p) /\ p \in Actors /\ attempts' \in Nat
    BY <1>15 DEF WatchDecide, LockInv, TypeOK, Actors
  <2>2. /\ LockNext
        /\ req' \in [Clients -> AllRequests \cup {"none", "shutdown"}]
        /\ loop' \in {"running", "closing", "draining", "stopped", "exited"}
    BY <2>1, LeaveLockInv DEF PCs, Critical
  <2> QED
    BY <1>15, <2>1, <2>2 DEF WatchDecide, LockInv, TypeOK, LockNext, ExecSpawned, os
<1>16. ASSUME NEW p \in Pids, WatchRestart(p)
       PROVE  LockInv'
  <2>1. CASE stopEvent
    <3>1. LockNext
      BY <1>16, <2>1, MoveInv DEF WatchRestart, PCs, Critical, Actors
    <3> QED
      BY <1>16, <3>1 DEF WatchRestart, LockInv, TypeOK, LockNext, ExecSpawned,
                         refs, app, os
  <2>2. CASE ~stopEvent
    <3>1. LockNext
      BY <1>16, <2>2, EnqueueInv DEF WatchRestart, PCs, Critical, Actors
    <3> QED
      BY <1>16, <3>1 DEF WatchRestart, LockInv, TypeOK, LockNext, ExecSpawned,
                         refs, app, os
  <2> QED
    BY <2>1, <2>2
<1>17. ASSUME NEW p \in Pids, ProcExit(p)
       PROVE  LockInv'
  <2>1. CASE LoopTurns /\ pc[p] = "watch"
    <3>1. LockNext
      BY <1>17, <2>1, EnqueueInv DEF ProcExit, PCs, Critical, Actors
    <3> QED
      BY <1>17, <3>1 DEF ProcExit, LockInv, TypeOK, LockNext, ExecSpawned, refs, app
  <2>2. CASE ~(LoopTurns /\ pc[p] = "watch")
    BY <1>17, <2>2 DEF ProcExit, LockInv, TypeOK, LockOwned, ExecSpawned,
                       Owns, refs, app
  <2> QED
    BY <2>1, <2>2
<1>18. ASSUME CloseApp \/ LoopStops \/ AtExit \/ UNCHANGED vars
       PROVE  LockInv'
  BY <1>18 DEF CloseApp, LoopStops, AtExit, vars, LockInv, TypeOK,
               LockOwned, ExecSpawned, Owns, refs, app, os
<1> QED
  BY <1>1, <1>2, <1>3, <1>4, <1>5, <1>6, <1>7, <1>8, <1>9, <1>10, <1>11,
     <1>12, <1>13, <1>14, <1>15, <1>16, <1>17, <1>18
     DEF Next, LoopStep, StartStep, ClientStep, WatchStep

\* Every reachable state is well typed, and no two of start_p2pool,
\* stop_p2pool and write_to_stdin are ever inside proc_lock together.
THEOREM LockCorrect == Spec => [](TypeOK /\ LockExclusion)
<1>1. LockInv => TypeOK /\ LockExclusion
  BY DEF LockInv, LockOwned, LockExclusion, Owns
<1> QED
  BY LockInit, LockStep, <1>1, PTL DEF Spec

----------------------------------------------------------------------------
(* One process, always referenced *)

\* Only the newest process can be alive.
NewestOnly == \A p \in live : p = spawned

\* A watcher that asks for the lock saw its process die.
ExitedIsDead == \A p \in Pids : pc[p] = "exited" => p \notin live

\* A process not yet spawned has no watcher.
FreshIsIdle == \A p \in Pids : p > spawned => pc[p] = "idle"

ProcInv == LockInv /\ NewestOnly /\ LiveIsReferenced /\ ExitedIsDead /\ FreshIsIdle

\* The owner of the lock, unless it is waiting for the pipes, finds any live
\* process referenced.
LEMMA OwnerSeesAll ==
  ASSUME ProcInv, NEW a \in Actors, Owns(a), pc[a] # "exec"
  PROVE  /\ \A b \in Actors : pc[b] # "exec"
         /\ \A p \in live : p = procRef
<1>1. \A b \in Actors : pc[b] # "exec"
  BY DEF ProcInv, LockInv, LockOwned, Owns, Critical
<1> QED
  BY <1>1 DEF ProcInv, LiveIsReferenced

\* A step that neither spawns, nor drops the reference, nor lets an actor
\* enter "exec" or "exited" keeps the process part.
LEMMA QuietStep ==
  ASSUME ProcInv, live' \subseteq live, spawned' = spawned,
         \A p \in live' : procRef' = procRef \/ procRef' = p,
         \A b \in Actors : pc[b] = "exec" => pc'[b] = "exec",
         \A p \in Pids : pc'[p] = "exited" => pc[p] = "exited" \/ p \notin live',
         \A p \in Pids : pc[p] = "idle" => pc'[p] = "idle"
  PROVE  NewestOnly' /\ LiveIsReferenced' /\ ExitedIsDead' /\ FreshIsIdle'
  BY DEF ProcInv, NewestOnly, LiveIsReferenced, ExitedIsDead, FreshIsIdle

LEMMA ProcInit == Init => ProcInv
<1> SUFFICES ASSUME Init
             PROVE  NewestOnly /\ LiveIsReferenced /\ ExitedIsDead /\ FreshIsIdle
  BY LockInit DEF ProcInv
<1> QED
  BY DEF Init, NewestOnly, LiveIsReferenced, ExitedIsDead, FreshIsIdle, Actors

LEMMA ProcStep ==
  ASSUME "attach" \notin Faults
  PROVE  ProcInv /\ [Next]_vars => ProcInv'
<1> SUFFICES ASSUME ProcInv, [Next]_vars
             PROVE  NewestOnly' /\ LiveIsReferenced' /\ ExitedIsDead' /\ FreshIsIdle'
  BY LockStep DEF ProcInv
<1>t. /\ pc \in [Actors -> PCs] /\ spawned \in 0..MaxPid /\ live \subseteq Pids
      /\ procRef \in 0..MaxPid
  BY DEF ProcInv, LockInv, TypeOK
<1>c. /\ \A c \in Clients : c \in Actors /\ c \notin Pids
      /\ Pids \subseteq Actors
  BY ClientsAssumption, MaxPidAssumption DEF Actors, Pids
<1>1. ASSUME NEW c \in Clients, NEW r \in Requests, Request(c, r)
      PROVE  NewestOnly' /\ LiveIsReferenced' /\ ExitedIsDead' /\ FreshIsIdle'
  <2>1. \A b \in Actors : b # c => pc'[b] = pc[b]
    BY <1>1, <1>t DEF Request
  <2> QED
    BY <1>1, <1>c, <2>1, QuietStep DEF Request, refs, os
<1>2. ASSUME NEW c \in Clients, Shutdown(c)
      PROVE  NewestOnly' /\ LiveIsReferenced' /\ ExitedIsDead' /\ FreshIsIdle'
  BY <1>2, <1>t, <1>c, QuietStep DEF Shutdown, refs, os
<1>3. ASSUME NEW a \in Actors, StartRefused(a)
      PROVE  NewestOnly' /\ LiveIsReferenced' /\ ExitedIsDead' /\ FreshIsIdle'
  <2>1. pc' = [pc EXCEPT ![a] = "idle"] /\ pc[a] = "start"
    BY <1>3 DEF StartRefused, StartReturns, LeaveLock
  <2> QED
    BY <1>3, <1>t, <1>c, <2>1, QuietStep DEF StartRefused, refs, os
<1>4. ASSUME NEW a \in Actors, StartSpawn(a)
      PROVE  NewestOnly' /\ LiveIsReferenced' /\ ExitedIsDead' /\ FreshIsIdle'
  <2>1. live = {}
    BY <1>4, OwnerSeesAll DEF StartSpawn, Running
  <2>2. live' = {spawned'} /\ spawned' = spawned + 1 /\ pc' = [pc EXCEPT ![a] = "exec"]
        /\ pc[a] = "start"
    BY <1>4, <2>1 DEF StartSpawn
  <2>3. NewestOnly' /\ LiveIsReferenced'
    BY <2>2, <1>t DEF NewestOnly, LiveIsReferenced
  <2>4. ExitedIsDead' /\ FreshIsIdle'
    BY <2>2, <1>t, <1>c, MaxPidAssumption DEF ProcInv, ExitedIsDead, FreshIsIdle, Pids
  <2> QED
    BY <2>3, <2>4
<1>5. ASSUME NEW a \in Actors, StartPopenFails(a)
      PROVE  NewestOnly' /\ LiveIsReferenced' /\ ExitedIsDead' /\ FreshIsIdle'
  <2>1. live = {}
    BY <1>5, OwnerSeesAll DEF StartPopenFails, Running
  <2>2. pc' = [pc EXCEPT ![a] = "idle"] /\ pc[a] = "start"
    BY <1>5 DEF StartPopenFails, StartReturns, LeaveLock
  <2> QED
    BY <1>5, <1>t, <1>c, <2>1, <2>2, QuietStep DEF StartPopenFails, os
<1>6. ASSUME NEW a \in Actors, StartFinish(a)
      PROVE  NewestOnly' /\ LiveIsReferenced' /\ ExitedIsDead' /\ FreshIsIdle'
  <2>1. procRef' = spawned /\ live' = live /\ spawned' = spawned /\ pc[a] = "exec"
    BY <1>6 DEF StartFinish, os
  <2>2. NewestOnly' /\ LiveIsReferenced'
    BY <2>1 DEF ProcInv, NewestOnly, LiveIsReferenced
  <2>3. /\ \A b \in Actors : b \notin {a, spawned} => pc'[b] = pc[b]
        /\ a # spawned => pc'[a] = "idle"
        /\ pc'[spawned] = "exited" => spawned \notin live
    <3>1. CASE spawned \in live
      BY <1>6, <1>t, <1>c, <3>1 DEF StartFinish
    <3>2. CASE spawned \notin live
      BY <1>6, <1>t, <1>c, <3>2 DEF StartFinish
    <3> QED
      BY <3>1, <3>2
  <2>4. ExitedIsDead'
    BY <1>c, <2>1, <2>3 DEF ProcInv, ExitedIsDead
  <2>5. FreshIsIdle'
    <3> SUFFICES ASSUME NEW p \in Pids, p > spawned PROVE pc'[p] = "idle"
      BY <2>1 DEF FreshIsIdle
    <3>1. p # spawned /\ pc[p] = "idle"
      BY <1>t, MaxPidAssumption DEF ProcInv, FreshIsIdle, Pids
    <3> QED
      BY <1>c, <2>3, <3>1
  <2> QED
    BY <2>2, <2>4, <2>5
<1>7. ASSUME NEW a \in Actors, StartAborts(a)
      PROVE  NewestOnly' /\ LiveIsReferenced' /\ ExitedIsDead' /\ FreshIsIdle'
  <2>1. live' = {} /\ spawned' = spawned
    BY <1>7 DEF StartAborts, ProcInv, NewestOnly
  <2>2. pc' = [pc EXCEPT ![a] = "idle"] /\ pc[a] = "exec"
    BY <1>7 DEF StartAborts, StartReturns, LeaveLock
  <2>3. NewestOnly' /\ LiveIsReferenced' /\ ExitedIsDead'
    BY <2>1 DEF NewestOnly, LiveIsReferenced, ExitedIsDead
  <2>4. FreshIsIdle'
    BY <1>t, <2>1, <2>2 DEF ProcInv, FreshIsIdle
  <2> QED
    BY <2>3, <2>4
<1>8. ASSUME NEW c \in Clients, StopRefused(c) \/ StopFinish(c)
      PROVE  NewestOnly' /\ LiveIsReferenced' /\ ExitedIsDead' /\ FreshIsIdle'
  <2>1. Owns(c) /\ pc[c] # "exec" /\ ~Running /\ live' = live /\ spawned' = spawned
    BY <1>8, <1>c DEF StopRefused, StopFinish, ProcInv, LockInv, LockOwned,
                      Critical, os
  <2>2. live = {}
    BY <2>1, <1>c, OwnerSeesAll DEF Running
  <2>3. pc' = [pc EXCEPT ![c] = AfterStop(c)] /\ AfterStop(c) \in {"start", "idle"}
    BY <1>8 DEF StopRefused, StopFinish, LeaveLock, AfterStop
  <2> QED
    BY <1>t, <1>c, <2>1, <2>2, <2>3, QuietStep
<1>9. ASSUME NEW c \in Clients, StopBegin(c)
      PROVE  NewestOnly' /\ LiveIsReferenced' /\ ExitedIsDead' /\ FreshIsIdle'
  <2>1. \A b \in Actors : pc[b] # "exec"
    BY <1>9, <1>c, OwnerSeesAll DEF StopBegin
  <2> QED
    BY <1>9, <1>t, <1>c, <2>1, QuietStep DEF StopBegin, refs, os
<1>10. ASSUME NEW c \in Clients,
              StopTerminate(c) \/ StopTimeout(c) \/ StdinBegin(c) \/ StdinFinish(c)
       PROVE  NewestOnly' /\ LiveIsReferenced' /\ ExitedIsDead' /\ FreshIsIdle'
  <2>1. /\ pc[c] # "exec"
        /\ \A b \in Actors : b # c => pc'[b] = pc[b]
        /\ live' = live /\ spawned' = spawned /\ procRef' = procRef
    BY <1>10, <1>t DEF StopTerminate, StopTimeout, StdinBegin, StdinFinish,
                       LeaveLock, refs, os
  <2> QED
    BY <1>c, <2>1, QuietStep
<1>11. ASSUME NEW p \in Pids, WatchDecide(p)
       PROVE  NewestOnly' /\ LiveIsReferenced' /\ ExitedIsDead' /\ FreshIsIdle'
  <2>1. p \notin live /\ pc[p] = "exited"
    BY <1>11 DEF WatchDecide, ProcInv, ExitedIsDead
  <2>2. \A q \in live : q = procRef
    BY <1>11, <1>c, OwnerSeesAll DEF WatchDecide
  <2>3. /\ \A b \in Actors : b # p => pc'[b] = pc[b]
        /\ pc'[p] \in {"idle", "backoff"}
    BY <1>11, <1>t, <1>c DEF WatchDecide, LeaveLock
  <2>4. \A q \in live : procRef' = procRef
    BY <1>11, <2>1, <2>2 DEF WatchDecide
  <2> QED
    BY <1>11, <1>c, <2>1, <2>3, <2>4, QuietStep DEF WatchDecide, os
<1>12. ASSUME NEW p \in Pids, WatchRestart(p)
       PROVE  NewestOnly' /\ LiveIsReferenced' /\ ExitedIsDead' /\ FreshIsIdle'
  <2>1. /\ \A b \in Actors : b # p => pc'[b] = pc[b]
        /\ pc[p] = "backoff" /\ pc'[p] \in {"idle", "start"}
    BY <1>12, <1>t, <1>c DEF WatchRestart
  <2> QED
    BY <1>12, <1>c, <2>1, QuietStep DEF WatchRestart, refs, os
<1>13. ASSUME NEW p \in Pids, ProcExit(p)
       PROVE  NewestOnly' /\ LiveIsReferenced' /\ ExitedIsDead' /\ FreshIsIdle'
  <2>1. /\ \A b \in Actors : b # p => pc'[b] = pc[b]
        /\ \/ pc'[p] = pc[p]
           \/ pc[p] = "watch" /\ pc'[p] = "exited"
    BY <1>13, <1>t, <1>c DEF ProcExit
  <2> QED
    BY <1>13, <1>c, <2>1, QuietStep DEF ProcExit, refs
<1>14. ASSUME CloseApp \/ LoopStops \/ AtExit \/ UNCHANGED vars
       PROVE  NewestOnly' /\ LiveIsReferenced' /\ ExitedIsDead' /\ FreshIsIdle'
  BY <1>14, QuietStep DEF CloseApp, LoopStops, AtExit, vars, refs, os
<1> QED
  BY <1>1, <1>2, <1>3, <1>4, <1>5, <1>6, <1>7, <1>8, <1>9, <1>10, <1>11,
     <1>12, <1>13, <1>14
     DEF Next, LoopStep, StartStep, ClientStep, WatchStep

\* However starts, stops, crashes and delayed restarts of any number of
\* clients interleave, at most one P2Pool process is alive, and it is the one
\* p2pool_proc refers to unless its own start has not returned.  The premise
\* is needed: when psutil cannot attach, start_p2pool forgets a live process.
THEOREM OneProcess ==
  ASSUME "attach" \notin Faults
  PROVE  Spec => [](AtMostOneProcess /\ LiveIsReferenced)
<1>1. ProcInv => AtMostOneProcess /\ LiveIsReferenced
  BY DEF ProcInv, NewestOnly, AtMostOneProcess
<1> QED
  BY ProcInit, ProcStep, <1>1, PTL DEF Spec

----------------------------------------------------------------------------
(* A live process is watched *)

Stopping(c) == pc[c] \in {"cancel", "term", "kill"}

\* The reference never runs ahead of the processes spawned.
WatchInv == LockInv /\ LiveIsWatched /\ procRef <= spawned

\* A step that keeps the references, the referenced process' watcher and the
\* stops under way keeps the property.
LEMMA WatchKept ==
  ASSUME WatchInv, procRef' = procRef, watchTask' = watchTask,
         procRef \in live' => procRef \in live,
         pc[procRef] = "watch" /\ procRef \in live' => pc'[procRef] = "watch",
         \A c \in Clients : Stopping(c) => pc'[c] \in {"cancel", "term", "kill"}
  PROVE  LiveIsWatched'
  BY DEF WatchInv, LiveIsWatched, Running, Stopping

LEMMA WatchStepInv == WatchInv /\ [Next]_vars => WatchInv'
<1> SUFFICES ASSUME WatchInv, [Next]_vars
             PROVE  LiveIsWatched' /\ procRef' <= spawned'
  BY LockStep DEF WatchInv
<1>t. /\ pc \in [Actors -> PCs] /\ spawned \in 0..MaxPid /\ live \subseteq Pids
      /\ procRef \in 0..MaxPid /\ MaxPid \in Nat
  BY MaxPidAssumption DEF WatchInv, LockInv, TypeOK
<1>c. /\ \A c \in Clients : c \in Actors /\ c \notin Pids
      /\ Pids \subseteq Actors
      /\ Running => procRef \in Pids
  BY <1>t, ClientsAssumption DEF Actors, Pids, Running
<1>1. ASSUME NEW c \in Clients, NEW r \in Requests, Request(c, r)
      PROVE  LiveIsWatched' /\ procRef' <= spawned'
  <2>1. pc[c] = "idle" /\ \A b \in Actors : b # c => pc'[b] = pc[b]
    BY <1>1, <1>t DEF Request
  <2> QED
    BY <1>1, <1>t, <1>c, <2>1, WatchKept DEF Request, WatchInv, Stopping, Running, refs, os
<1>2. ASSUME NEW c \in Clients, Shutdown(c)
      PROVE  LiveIsWatched' /\ procRef' <= spawned'
  BY <1>2, <1>t, <1>c, WatchKept DEF Shutdown, WatchInv, Stopping, Running, refs, os
<1>3. ASSUME NEW a \in Actors, StartRefused(a)
      PROVE  LiveIsWatched' /\ procRef' <= spawned'
  <2>1. pc' = [pc EXCEPT ![a] = "idle"] /\ pc[a] = "start"
    BY <1>3 DEF StartRefused, StartReturns, LeaveLock
  <2> QED
    BY <1>3, <1>t, <1>c, <2>1, WatchKept
       DEF StartRefused, WatchInv, Stopping, Running, refs, os
<1>4. ASSUME NEW a \in Actors, StartSpawn(a)
      PROVE  LiveIsWatched' /\ procRef' <= spawned'
  <2>1. procRef \notin live' /\ procRef' = procRef /\ spawned' = spawned + 1
    BY <1>4, <1>t DEF StartSpawn, WatchInv, Running, refs
  <2> QED
    BY <2>1, <1>t DEF LiveIsWatched, Running, WatchInv
<1>5. ASSUME NEW a \in Actors, StartPopenFails(a) \/ StartAborts(a)
      PROVE  LiveIsWatched' /\ procRef' <= spawned'
  <2>1. procRef' = 0 /\ spawned' = spawned /\ live' \subseteq live
    BY <1>5 DEF StartPopenFails, StartAborts, os
  <2> QED
    BY <2>1, <1>t DEF LiveIsWatched, Running, Pids
<1>6. ASSUME NEW a \in Actors, StartFinish(a)
      PROVE  LiveIsWatched' /\ procRef' <= spawned'
  <2>1. procRef' = spawned /\ watchTask' = spawned /\ live' = live /\ spawned' = spawned
    BY <1>6 DEF StartFinish, os
  <2>2. spawned \in live => pc'[spawned] = "watch"
    BY <1>6, <1>t, <1>c DEF StartFinish
  <2> QED
    BY <2>1, <2>2, <1>t DEF LiveIsWatched, Running
<1>7. ASSUME NEW c \in Clients, StopRefused(c) \/ StopFinish(c)
      PROVE  LiveIsWatched' /\ procRef' <= spawned'
  <2>1. procRef' \in {0, procRef} /\ spawned' = spawned /\ live' = live /\ ~Running
    BY <1>7 DEF StopRefused, StopFinish, refs, os
  <2> QED
    BY <2>1, <1>t DEF LiveIsWatched, Running, Pids, WatchInv
<1>8. ASSUME NEW c \in Clients, StopBegin(c) \/ StopTerminate(c) \/ StopTimeout(c)
      PROVE  LiveIsWatched' /\ procRef' <= spawned'
  <2>1. pc'[c] \in {"cancel", "term", "kill"} /\ procRef' = procRef /\ spawned' = spawned
    <3>1. CASE StopBegin(c)
      <4>1. pc'[c] = "cancel"
        BY <3>1, <1>t, <1>c DEF StopBegin
      <4>2. procRef' = procRef /\ spawned' = spawned
        BY <3>1 DEF StopBegin, refs, os
      <4> QED
        BY <4>1, <4>2
    <3>2. CASE StopTerminate(c) \/ StopTimeout(c)
      BY <3>2, <1>t, <1>c DEF StopTerminate, StopTimeout, refs, app, os
    <3> QED
      BY <1>8, <3>1, <3>2
  <2> QED
    BY <2>1 DEF LiveIsWatched, WatchInv
<1>9. ASSUME NEW c \in Clients, StdinBegin(c) \/ StdinFinish(c)
      PROVE  LiveIsWatched' /\ procRef' <= spawned'
  <2>1. /\ pc[c] \in {"stdin", "drain"}
        /\ \A b \in Actors : b # c => pc'[b] = pc[b]
        /\ live' = live /\ spawned' = spawned /\ procRef' = procRef
        /\ watchTask' = watchTask
    BY <1>9, <1>t DEF StdinBegin, StdinFinish, LeaveLock, refs, os
  <2> QED
    BY <1>t, <1>c, <2>1, WatchKept DEF WatchInv, Stopping, Running
<1>10. ASSUME NEW p \in Pids, WatchDecide(p)
       PROVE  LiveIsWatched' /\ procRef' <= spawned'
  <2>1. /\ \A b \in Actors : b # p => pc'[b] = pc[b]
        /\ pc[p] = "exited" /\ live' = live /\ spawned' = spawned
        /\ watchTask' = watchTask
    BY <1>10, <1>t, <1>c DEF WatchDecide, LeaveLock, os
  <2>2. CASE procRef = p
    BY <1>10, <2>1, <2>2, <1>t DEF WatchDecide, LiveIsWatched, Running, Pids
  <2>3. CASE procRef # p
    <3>1. procRef' = procRef
      BY <1>10, <2>3 DEF WatchDecide
    <3> QED
      BY <3>1, <2>1, <2>3, <1>t, <1>c, WatchKept DEF WatchInv, Stopping, Running
  <2> QED
    BY <2>2, <2>3
<1>11. ASSUME NEW p \in Pids, WatchRestart(p)
       PROVE  LiveIsWatched' /\ procRef' <= spawned'
  <2>1. /\ \A b \in Actors : b # p => pc'[b] = pc[b]
        /\ pc[p] = "backoff"
    BY <1>11, <1>t, <1>c DEF WatchRestart
  <2> QED
    BY <1>11, <2>1, <1>t, <1>c, WatchKept
       DEF WatchRestart, WatchInv, Stopping, Running, refs, os
<1>12. ASSUME NEW p \in Pids, ProcExit(p)
       PROVE  LiveIsWatched' /\ procRef' <= spawned'
  <2>1. \A b \in Actors : b # p => pc'[b] = pc[b]
    BY <1>12, <1>t, <1>c DEF ProcExit
  <2> QED
    BY <1>12, <2>1, <1>t, <1>c, WatchKept DEF ProcExit, WatchInv, Stopping, Running, refs
<1>13. ASSUME CloseApp \/ LoopStops \/ AtExit \/ UNCHANGED vars
       PROVE  LiveIsWatched' /\ procRef' <= spawned'
  BY <1>13, <1>t, WatchKept DEF CloseApp, LoopStops, AtExit, WatchInv, Stopping,
                                Running, vars, refs, os
<1> QED
  BY <1>1, <1>2, <1>3, <1>4, <1>5, <1>6, <1>7, <1>8, <1>9, <1>10, <1>11,
     <1>12, <1>13
     DEF Next, LoopStep, StartStep, ClientStep, WatchStep

\* A live referenced process is always watched by the task watch_task names,
\* unless a stop is tearing it down: no crash goes unnoticed.
THEOREM Watched == Spec => []LiveIsWatched
<1>1. Init => WatchInv
  <2> SUFFICES ASSUME Init PROVE LiveIsWatched /\ procRef <= spawned
    BY LockInit DEF WatchInv
  <2> QED
    BY DEF Init, LiveIsWatched, Running
<1>2. WatchInv => LiveIsWatched
  BY DEF WatchInv
<1> QED
  BY <1>1, <1>2, WatchStepInv, PTL DEF Spec

----------------------------------------------------------------------------
(* A stop cancels the right watcher *)

\* While a stop tears a process down, its watcher is gone.
StoppedIdle ==
  \A c \in Clients, p \in Pids : Stopping(c) /\ procRef = p => pc[p] = "idle"

StopInv == WatchInv /\ StoppedIdle

\* A stop under way holds the lock: nobody else is inside it or owns it.
LEMMA StopperIsAlone ==
  ASSUME StopInv, NEW c \in Clients, Stopping(c), NEW a \in Actors,
         Owns(a) \/ pc[a] \in Critical
  PROVE  a = c
<1>1. Owns(c) /\ Owns(a)
  BY DEF StopInv, WatchInv, LockInv, LockOwned, Stopping, Critical, Actors
<1> QED
  BY <1>1 DEF Owns

\* A step that leaves the references, the stops under way and the sleeping
\* watchers as they are.
LEMMA StoppedKept ==
  ASSUME StopInv, procRef' = procRef,
         \A c \in Clients : pc'[c] \in {"cancel", "term", "kill"} => Stopping(c),
         \A p \in Pids : pc[p] = "idle" => pc'[p] = "idle"
  PROVE  StoppedIdle'
  BY DEF StopInv, StoppedIdle, Stopping

\* A step that only somebody inside the lock can take, and that begins no stop:
\* no stop is under way before it or after it.
LEMMA NoStopUnderWay ==
  ASSUME StopInv, NEW a \in Actors, Owns(a) \/ pc[a] \in Critical,
         pc[a] \notin {"cancel", "term", "kill"},
         \A c \in Clients : pc'[c] \in {"cancel", "term", "kill"} => Stopping(c)
  PROVE  StoppedIdle'
<1> SUFFICES ASSUME NEW c \in Clients, pc'[c] \in {"cancel", "term", "kill"}
             PROVE  FALSE
  BY DEF StoppedIdle, Stopping
<1>1. Stopping(c)
  OBVIOUS
<1>2. a = c
  BY <1>1, StopperIsAlone
<1> QED
  BY <1>1, <1>2 DEF Stopping

\* Every step keeps the watcher of a process that is being stopped cancelled.
LEMMA StopStepInv == StopInv /\ [Next]_vars => StopInv'
<1> SUFFICES ASSUME StopInv, [Next]_vars PROVE StoppedIdle'
  BY WatchStepInv DEF StopInv
<1>t. /\ pc \in [Actors -> PCs] /\ LockOwned /\ ExecSpawned
      /\ spawned \in 0..MaxPid /\ MaxPid \in Nat
  BY MaxPidAssumption DEF StopInv, WatchInv, LockInv, TypeOK
<1>c. /\ \A c \in Clients : c \in Actors /\ c \notin Pids
      /\ Pids \subseteq Actors
  BY ClientsAssumption, MaxPidAssumption DEF Actors, Pids
<1>1. ASSUME NEW c \in Clients,
             \/ \E r \in Requests : Request(c, r)
             \/ Shutdown(c) \/ StdinBegin(c) \/ StdinFinish(c) \/ StopRefused(c)
      PROVE  StoppedIdle'
  <2>1. /\ \A b \in Actors : b # c => pc'[b] = pc[b]
        /\ pc'[c] \notin {"cancel", "term", "kill"}
        /\ procRef' = procRef
    <3>1. CASE \E r \in Requests : Request(c, r)
      BY <1>t, <1>c, <3>1 DEF Request, refs
    <3>2. CASE Shutdown(c)
      BY <1>t, <1>c, <3>2 DEF Shutdown, refs
    <3>3. CASE StdinBegin(c) \/ StdinFinish(c) \/ StopRefused(c)
      BY <1>t, <1>c, <3>3 DEF StdinBegin, StdinFinish, StopRefused, LeaveLock,
                              AfterStop, refs
    <3> QED
      BY <1>1, <3>1, <3>2, <3>3
  <2> QED
    BY <1>c, <2>1, StoppedKept DEF Stopping
<1>2. ASSUME NEW a \in Actors, StartRefused(a) \/ StartSpawn(a) \/ StartPopenFails(a)
      PROVE  StoppedIdle'
  <2>1. /\ Owns(a) /\ pc[a] = "start"
        /\ \A b \in Actors : b # a => pc'[b] = pc[b]
        /\ pc'[a] \in {"idle", "exec"}
    BY <1>t, <1>2 DEF StartRefused, StartSpawn, StartPopenFails, StartReturns, LeaveLock
  <2> QED
    BY <1>c, <2>1, NoStopUnderWay DEF Stopping
<1>3. ASSUME NEW a \in Actors, StartFinish(a) \/ StartAborts(a)
      PROVE  StoppedIdle'
  <2>1. pc[a] = "exec" /\ pc[a] \in Critical /\ spawned \in Pids
    <3>1. pc[a] = "exec"
      BY <1>3 DEF StartFinish, StartAborts
    <3> QED
      BY <1>t, <3>1 DEF Critical, ExecSpawned, Pids
  <2>2. \A b \in Actors : pc'[b] = pc[b] \/ pc'[b] \in {"idle", "watch", "exited"}
    <3>1. CASE StartFinish(a)
      BY <1>t, <1>c, <2>1, <3>1 DEF StartFinish
    <3>2. CASE StartAborts(a)
      BY <1>t, <3>2 DEF StartAborts, StartReturns, LeaveLock
    <3> QED
      BY <1>3, <3>1, <3>2
  <2> QED
    BY <1>c, <2>1, <2>2, NoStopUnderWay DEF Stopping
<1>4. ASSUME NEW c \in Clients, StopBegin(c)
      PROVE  StoppedIdle'
  <2>1. Owns(c) /\ pc[c] = "stop" /\ Running /\ procRef' = procRef
        /\ pc' = [pc EXCEPT ![watchTask] = "idle", ![c] = "cancel"]
    BY <1>4 DEF StopBegin, refs
  <2>2. \A d \in Clients : ~Stopping(d)
    <3> SUFFICES ASSUME NEW d \in Clients, Stopping(d) PROVE FALSE
      OBVIOUS
    <3>1. c = d
      BY <1>c, <2>1, StopperIsAlone
    <3> QED
      BY <2>1, <3>1 DEF Stopping
  <2>3. watchTask = procRef
    BY <2>1, <2>2 DEF StopInv, WatchInv, LiveIsWatched, Stopping
  <2> QED
    BY <1>t, <1>c, <2>1, <2>3 DEF StoppedIdle
<1>5. ASSUME NEW c \in Clients, StopTerminate(c) \/ StopTimeout(c)
      PROVE  StoppedIdle'
  <2>1. /\ Stopping(c) /\ procRef' = procRef
        /\ \A b \in Actors : b # c => pc'[b] = pc[b]
    BY <1>t, <1>5 DEF StopTerminate, StopTimeout, Stopping, refs
  <2> QED
    BY <1>c, <2>1, StoppedKept DEF Stopping
<1>6. ASSUME NEW c \in Clients, StopFinish(c)
      PROVE  StoppedIdle'
  <2>1. /\ Stopping(c) /\ pc' = [pc EXCEPT ![c] = AfterStop(c)]
        /\ AfterStop(c) \in {"idle", "start"}
    BY <1>6 DEF StopFinish, LeaveLock, AfterStop, Stopping
  <2>2. \A d \in Clients : pc'[d] \notin {"cancel", "term", "kill"}
    <3> SUFFICES ASSUME NEW d \in Clients, pc'[d] \in {"cancel", "term", "kill"}
                 PROVE  FALSE
      OBVIOUS
    <3>1. d # c /\ pc'[d] = pc[d]
      BY <1>t, <1>c, <2>1
    <3>2. Owns(c) /\ c \in Actors
      BY <1>t, <1>c, <2>1 DEF LockOwned, Stopping, Critical
    <3> QED
      BY <3>1, <3>2, StopperIsAlone DEF Stopping
  <2> QED
    BY <2>2 DEF StoppedIdle, Stopping
<1>7. ASSUME NEW p \in Pids, WatchDecide(p)
      PROVE  StoppedIdle'
  <2>1. /\ Owns(p) /\ pc[p] = "exited"
        /\ \A b \in Actors : b # p => pc'[b] = pc[b]
    BY <1>t, <1>c, <1>7 DEF WatchDecide, LeaveLock
  <2> QED
    BY <1>c, <2>1, NoStopUnderWay DEF Stopping
<1>8. ASSUME NEW p \in Pids, WatchRestart(p) \/ ProcExit(p)
      PROVE  StoppedIdle'
  <2>1. /\ \A b \in Actors : b # p => pc'[b] = pc[b]
        /\ pc[p] = "idle" => pc'[p] = "idle"
        /\ procRef' = procRef
    BY <1>t, <1>c, <1>8 DEF WatchRestart, ProcExit, refs
  <2> QED
    BY <1>c, <2>1, StoppedKept DEF Stopping
<1>9. ASSUME CloseApp \/ LoopStops \/ AtExit \/ UNCHANGED vars
      PROVE  StoppedIdle'
  BY <1>9, StoppedKept DEF CloseApp, LoopStops, AtExit, vars, refs, Stopping
<1> QED
  BY <1>1, <1>2, <1>3, <1>4, <1>5, <1>6, <1>7, <1>8, <1>9
     DEF Next, LoopStep, StartStep, ClientStep, WatchStep

\* The watcher of a process that stop_p2pool tears down was cancelled before
\* the first await of the stop: the exit it causes restarts nothing.
THEOREM StoppedStaysStopped == Spec => StoppedIsNotRestarted
<1>1. Init => StopInv
  <2> SUFFICES ASSUME Init PROVE WatchInv /\ StoppedIdle
    BY DEF StopInv
  <2>1. LockInv
    BY LockInit
  <2> QED
    BY <2>1 DEF Init, WatchInv, LiveIsWatched, Running, StoppedIdle, Stopping, Actors
<1>2. StopInv =>
        \A p \in Pids : (\E c \in Clients : pc[c] \in {"cancel", "term", "kill"})
                        /\ procRef = p => pc[p] = "idle"
  BY DEF StopInv, StoppedIdle, Stopping
<1> QED
  BY <1>1, <1>2, StopStepInv, PTL DEF Spec, StoppedIsNotRestarted

----------------------------------------------------------------------------
(* The queue of proc_lock loses nobody and holds nobody twice *)

\* Nobody is in queue q twice; who is in it.
Once(q) == \A i, j \in 1..Len(q) : q[i] = q[j] => i = j
In(q)   == {q[i] : i \in 1..Len(q)}

\* The end of a queue.
LEMMA AppendOnce ==
  ASSUME NEW S, NEW q \in Seq(S), NEW x \in S, Once(q), x \notin In(q)
  PROVE  Once(Append(q, x)) /\ In(Append(q, x)) = In(q) \cup {x}
<1> DEFINE n == Len(q)
           r == Append(q, x)
<1>1. n \in Nat /\ Len(r) = n + 1 /\ r[n + 1] = x
  BY AppendProperties, LenProperties
<1>2. \A i \in 1..n : r[i] = q[i]
  BY AppendProperties
<1>3. \A i \in 1..n : q[i] # x
  BY DEF In
<1>4. \A i, j \in 1..n : q[i] = q[j] => i = j
  BY DEF Once
<1>5. In(q) = {q[i] : i \in 1..n}
  BY DEF In
<1> HIDE DEF n, r
<1>6. \A i \in 1..(n + 1) : i \in 1..n \/ i = n + 1
  BY <1>1
<1>7. \A i \in 1..n : i \in 1..(n + 1) /\ i # n + 1
  BY <1>1
<1>8. n + 1 \in 1..(n + 1)
  BY <1>1
<1>9. Once(r)
  BY <1>1, <1>2, <1>3, <1>4, <1>6 DEF Once
<1>10. In(r) = In(q) \cup {x}
  <2>1. \A y : y \in In(r) <=> \E i \in 1..(n + 1) : y = r[i]
    BY <1>1 DEF In
  <2>2. \A y \in In(r) : y \in In(q) \cup {x}
    BY <2>1, <1>1, <1>2, <1>5, <1>6
  <2>3. x \in In(r)
    BY <2>1, <1>1, <1>8
  <2>4. \A y \in In(q) : y \in In(r)
    BY <2>1, <1>2, <1>5, <1>7
  <2> QED
    BY <2>2, <2>3, <2>4
<1> QED
  BY <1>9, <1>10 DEF r

\* The head of a queue leaves.
LEMMA TailOnce ==
  ASSUME NEW S, NEW q \in Seq(S), q # <<>>, Once(q)
  PROVE  /\ Tail(q) \in Seq(S) /\ Once(Tail(q))
         /\ Head(q) \in In(q) /\ In(Tail(q)) = In(q) \ {Head(q)}
<1> DEFINE n == Len(q)
           r == Tail(q)
           h == Head(q)
<1>1. /\ n \in Nat \ {0} /\ Len(r) = n - 1 /\ h = q[1] /\ r \in Seq(S)
      /\ \A i \in 1..(n - 1) : r[i] = q[i + 1]
  BY HeadTailProperties, LenProperties, EmptySeq
<1>2. \A i, j \in 1..n : q[i] = q[j] => i = j
  BY DEF Once
<1>3. In(q) = {q[i] : i \in 1..n}
  BY DEF In
<1> HIDE DEF n, r, h
<1>4. \A i \in 1..(n - 1) : i + 1 \in 1..n /\ i + 1 # 1
  BY <1>1
<1>5. \A i \in 1..n : i = 1 \/ \E j \in 1..(n - 1) : i = j + 1
  <2> SUFFICES ASSUME NEW i \in 1..n, i # 1 PROVE \E j \in 1..(n - 1) : i = j + 1
    OBVIOUS
  <2>1. i - 1 \in 1..(n - 1) /\ i = (i - 1) + 1
    BY <1>1
  <2> QED
    BY <2>1
<1>6. \A i, j \in 1..(n - 1) : i + 1 = j + 1 => i = j
  BY <1>1
<1>7. Once(r)
  BY <1>1, <1>2, <1>4, <1>6 DEF Once
<1>8. 1 \in 1..n
  BY <1>1
<1>9. In(r) = In(q) \ {h}
  <2>1. \A y : y \in In(r) <=> \E i \in 1..(n - 1) : y = r[i]
    BY <1>1 DEF In
  <2>2. ASSUME NEW y \in In(r) PROVE y \in In(q) /\ y # h
    <3>1. PICK i \in 1..(n - 1) : y = q[i + 1]
      BY <2>1, <1>1
    <3> QED
      BY <3>1, <1>1, <1>2, <1>3, <1>4, <1>8
  <2>3. ASSUME NEW y \in In(q), y # h PROVE y \in In(r)
    <3>1. PICK i \in 1..n : y = q[i]
      BY <1>3
    <3>2. i # 1
      BY <3>1, <2>3, <1>1
    <3>3. PICK j \in 1..(n - 1) : i = j + 1
      BY <3>2, <1>5
    <3> QED
      BY <3>1, <3>3, <2>1, <1>1
  <2> QED
    BY <2>2, <2>3
<1>10. h \in In(q)
  BY <1>1, <1>3, <1>8
<1> QED
  BY <1>1, <1>7, <1>9, <1>10 DEF r, h

\* Where an actor has asked for proc_lock and not released it.
LockPCs == {"start", "stop", "stdin", "exited"} \cup Critical

InLock == {a \in Actors : pc[a] \in LockPCs}

Served == Once(queue) /\ In(queue) = InLock

\* While a start waits for the pipes, its process has no watcher yet.
NewIsIdle ==
  \A a \in Actors : pc[a] = "exec" => spawned \in Pids /\ pc[spawned] = "idle"

FreshInv  == WatchInv /\ FreshIsIdle /\ NewIsIdle
ServedInv == FreshInv /\ Served

\* A step that spawns nothing and wakes no watcher that sleeps or is not there.
LEMMA FreshKept ==
  ASSUME FreshInv, spawned' = spawned,
         \A p \in Pids : pc[p] = "idle" => pc'[p] = "idle",
         \A b \in Actors : pc'[b] = "exec" => pc[b] = "exec"
  PROVE  FreshIsIdle' /\ NewIsIdle'
  BY DEF FreshInv, FreshIsIdle, NewIsIdle, Pids

\* A watcher runs for spawned processes only.
LEMMA FreshStep == FreshInv /\ [Next]_vars => FreshInv'
<1> SUFFICES ASSUME FreshInv, [Next]_vars PROVE FreshIsIdle' /\ NewIsIdle'
  BY WatchStepInv DEF FreshInv
<1>t. /\ pc \in [Actors -> PCs] /\ LockOwned
      /\ spawned \in 0..MaxPid /\ MaxPid \in Nat
  BY MaxPidAssumption DEF FreshInv, WatchInv, LockInv, TypeOK
<1>c. /\ \A c \in Clients : c \in Actors /\ c \notin Pids
      /\ Pids \subseteq Actors
  BY ClientsAssumption, MaxPidAssumption DEF Actors, Pids
<1>1. ASSUME NEW c \in Clients,
             \/ \E r \in Requests : Request(c, r)
             \/ Shutdown(c) \/ StdinBegin(c) \/ StdinFinish(c)
             \/ StopRefused(c) \/ StopTerminate(c) \/ StopTimeout(c) \/ StopFinish(c)
      PROVE  FreshIsIdle' /\ NewIsIdle'
  <2>1. /\ \A b \in Actors : b # c => pc'[b] = pc[b]
        /\ pc'[c] # "exec" /\ spawned' = spawned
    <3>1. CASE \E r \in Requests : Request(c, r)
      BY <1>t, <1>c, <3>1 DEF Request, os
    <3>2. CASE Shutdown(c)
      BY <1>t, <1>c, <3>2 DEF Shutdown, os
    <3>3. CASE StdinBegin(c) \/ StdinFinish(c) \/ StopRefused(c) \/ StopFinish(c)
      BY <1>t, <1>c, <3>3 DEF StdinBegin, StdinFinish, StopRefused, StopFinish,
                              LeaveLock, AfterStop, os
    <3>4. CASE StopTerminate(c) \/ StopTimeout(c)
      BY <1>t, <1>c, <3>4 DEF StopTerminate, StopTimeout, os
    <3> QED
      BY <1>1, <3>1, <3>2, <3>3, <3>4
  <2> QED
    BY <1>c, <2>1, FreshKept
<1>2. ASSUME NEW c \in Clients, StopBegin(c)
      PROVE  FreshIsIdle' /\ NewIsIdle'
  <2>1. /\ \A b \in Actors : b # c => pc'[b] \in {pc[b], "idle"}
        /\ pc'[c] # "exec" /\ spawned' = spawned
    BY <1>t, <1>c, <1>2 DEF StopBegin, os
  <2> QED
    BY <1>c, <2>1, FreshKept
<1>3. ASSUME NEW a \in Actors,
             StartRefused(a) \/ StartPopenFails(a) \/ StartAborts(a)
      PROVE  FreshIsIdle' /\ NewIsIdle'
  <2>1. pc' = [pc EXCEPT ![a] = "idle"] /\ spawned' = spawned
    BY <1>3 DEF StartRefused, StartPopenFails, StartAborts, StartReturns, LeaveLock, os
  <2> QED
    BY <1>t, <1>c, <2>1, FreshKept
<1>4. ASSUME NEW a \in Actors, StartSpawn(a)
      PROVE  FreshIsIdle' /\ NewIsIdle'
  <2>1. /\ pc[a] = "start" /\ Owns(a) /\ pc' = [pc EXCEPT ![a] = "exec"]
        /\ spawned' = spawned + 1 /\ spawned < MaxPid
    BY <1>4 DEF StartSpawn
  <2>2. spawned + 1 \in Pids /\ spawned + 1 > spawned
    BY <1>t, <2>1 DEF Pids
  <2>3. pc[spawned + 1] = "idle" /\ a # spawned + 1
    BY <2>1, <2>2 DEF FreshInv, FreshIsIdle
  <2>4. pc'[spawned + 1] = "idle"
    BY <1>t, <1>c, <2>1, <2>2, <2>3
  <2>5. FreshIsIdle'
    <3> SUFFICES ASSUME NEW p \in Pids, p > spawned + 1 PROVE pc'[p] = "idle"
      BY <2>1 DEF FreshIsIdle
    <3>1. p > spawned
      BY <1>t DEF Pids
    <3>2. pc[p] = "idle"
      BY <3>1 DEF FreshInv, FreshIsIdle
    <3> QED
      BY <1>t, <1>c, <2>1, <3>2
  <2> QED
    BY <2>1, <2>2, <2>4, <2>5 DEF NewIsIdle
<1>5. ASSUME NEW a \in Actors, StartFinish(a)
      PROVE  FreshIsIdle' /\ NewIsIdle'
  <2>1. spawned' = spawned /\ pc[a] = "exec" /\ pc[a] \in Critical
    BY <1>5 DEF StartFinish, os, Critical
  <2>2. spawned \in Pids /\ pc[spawned] = "idle" /\ a # spawned
    BY <2>1 DEF FreshInv, NewIsIdle
  <2>3. /\ \A b \in Actors : b \notin {a, spawned} => pc'[b] = pc[b]
        /\ pc'[a] = "idle" /\ pc'[spawned] # "exec"
    <3>1. CASE spawned \in live
      BY <1>5, <1>t, <1>c, <2>2, <3>1 DEF StartFinish
    <3>2. CASE spawned \notin live
      BY <1>5, <1>t, <1>c, <2>2, <3>2 DEF StartFinish
    <3> QED
      BY <3>1, <3>2
  <2>4. FreshIsIdle'
    <3> SUFFICES ASSUME NEW p \in Pids, p > spawned PROVE pc'[p] = "idle"
      BY <2>1 DEF FreshIsIdle
    <3>1. pc[p] = "idle" /\ p # spawned
      BY <1>t DEF FreshInv, FreshIsIdle, Pids
    <3> QED
      BY <1>c, <2>3, <3>1
  <2>5. \A b \in Actors : pc'[b] # "exec"
    <3>1. \A b \in Actors : pc[b] = "exec" => b = a
      BY <1>t, <2>1 DEF LockOwned, Owns, Critical
    <3> QED
      BY <2>3, <3>1
  <2> QED
    BY <2>4, <2>5 DEF NewIsIdle
<1>6. ASSUME NEW p \in Pids, WatchDecide(p) \/ WatchRestart(p) \/ ProcExit(p)
      PROVE  FreshIsIdle' /\ NewIsIdle'
  <2>1. /\ \A b \in Actors : b # p => pc'[b] = pc[b]
        /\ pc[p] = "idle" => pc'[p] = "idle"
        /\ pc'[p] = "exec" => pc[p] = "exec"
        /\ spawned' = spawned
    BY <1>t, <1>c, <1>6 DEF WatchDecide, WatchRestart, ProcExit, LeaveLock, os
  <2> QED
    BY <1>c, <2>1, FreshKept
<1>7. ASSUME CloseApp \/ LoopStops \/ AtExit \/ UNCHANGED vars
      PROVE  FreshIsIdle' /\ NewIsIdle'
  BY <1>7, FreshKept DEF CloseApp, LoopStops, AtExit, vars, os
<1> QED
  BY <1>1, <1>2, <1>3, <1>4, <1>5, <1>6, <1>7
     DEF Next, LoopStep, StartStep, ClientStep, WatchStep

\* A step that neither enters nor leaves the lock.
LEMMA ServedStays ==
  ASSUME ServedInv, UNCHANGED queue,
         \A b \in Actors : pc'[b] \in LockPCs <=> pc[b] \in LockPCs
  PROVE  Served'
  BY DEF ServedInv, Served, InLock

\* An actor outside the lock asks for it.
LEMMA ServedAsks ==
  ASSUME ServedInv, NEW a \in Actors, pc[a] \notin LockPCs, NEW next \in LockPCs,
         pc' = [pc EXCEPT ![a] = next], queue' = Append(queue, a)
  PROVE  Served'
<1>1. /\ queue \in Seq(Actors) /\ a \notin In(queue) /\ Once(queue)
      /\ pc \in [Actors -> PCs]
  BY DEF ServedInv, FreshInv, WatchInv, LockInv, Served, InLock, TypeOK
<1>2. Once(queue') /\ In(queue') = In(queue) \cup {a}
  BY <1>1, AppendOnce
<1>3. \A b \in Actors : pc'[b] \in LockPCs <=> b = a \/ pc[b] \in LockPCs
  BY <1>1
<1>4. InLock' = InLock \cup {a}
  BY <1>3 DEF InLock
<1> QED
  BY <1>2, <1>4 DEF ServedInv, Served

\* The queue without its owner.
LEMMA OwnerGone ==
  ASSUME ServedInv, NEW a \in Actors, Owns(a)
  PROVE  /\ Tail(queue) \in Seq(Actors) /\ Once(Tail(queue))
         /\ In(Tail(queue)) = InLock \ {a}
<1>1. queue \in Seq(Actors) /\ Once(queue) /\ In(queue) = InLock
  BY DEF ServedInv, FreshInv, WatchInv, LockInv, Served, TypeOK
<1>2. queue # <<>> /\ Head(queue) = a
  BY DEF Owns
<1> QED
  BY <1>1, <1>2, TailOnce

\* The owner releases the lock, and may be the last in the queue at once.
LEMMA ServedLeaves ==
  ASSUME ServedInv, NEW a \in Actors, Owns(a), NEW next \in PCs,
         next = "start" \/ next \notin LockPCs, LeaveLock(a, next)
  PROVE  Served'
<1>1. /\ Tail(queue) \in Seq(Actors) /\ Once(Tail(queue))
      /\ In(Tail(queue)) = InLock \ {a}
  BY OwnerGone
<1>2. pc' = [pc EXCEPT ![a] = next] /\ pc \in [Actors -> PCs]
  BY DEF LeaveLock, ServedInv, FreshInv, WatchInv, LockInv, TypeOK
<1>3. CASE next = "start"
  <2>1. queue' = Append(Tail(queue), a)
    BY <1>3 DEF LeaveLock
  <2>2. Once(queue') /\ In(queue') = (InLock \ {a}) \cup {a}
    <3> DEFINE q == Tail(queue)
    <3>1. q \in Seq(Actors) /\ Once(q) /\ In(q) = InLock \ {a}
      BY <1>1
    <3>2. queue' = Append(q, a)
      BY <2>1
    <3> HIDE DEF q
    <3>3. a \notin In(q)
      BY <3>1
    <3>4. Once(Append(q, a)) /\ In(Append(q, a)) = In(q) \cup {a}
      BY <3>1, <3>3, AppendOnce
    <3> QED
      BY <3>1, <3>2, <3>4
  <2>3. \A b \in Actors : pc'[b] \in LockPCs <=> b = a \/ (b # a /\ pc[b] \in LockPCs)
    BY <1>2, <1>3 DEF LockPCs
  <2>4. InLock' = (InLock \ {a}) \cup {a}
    BY <2>3 DEF InLock
  <2> QED
    BY <2>2, <2>4 DEF Served
<1>4. CASE next # "start"
  <2>1. queue' = Tail(queue)
    BY <1>4 DEF LeaveLock
  <2>2. \A b \in Actors : pc'[b] \in LockPCs <=> b # a /\ pc[b] \in LockPCs
    BY <1>2, <1>4
  <2>3. InLock' = InLock \ {a}
    BY <2>2 DEF InLock
  <2> QED
    BY <1>1, <2>1, <2>3 DEF Served
<1> QED
  BY <1>3, <1>4

\* Every step of a client keeps everyone in his place.
LEMMA ServedClient ==
  ASSUME ServedInv, NEW c \in Clients,
         (\E r \in Requests : Request(c, r)) \/ Shutdown(c) \/ ClientStep(c)
  PROVE  Served'
<1>t. /\ pc \in [Actors -> PCs] /\ LockOwned /\ procRef \in 0..MaxPid
      /\ live \subseteq Pids
  BY DEF ServedInv, FreshInv, WatchInv, LockInv, TypeOK
<1>c. c \in Actors /\ c \notin Pids /\ Pids \subseteq Actors
  BY ClientsAssumption, MaxPidAssumption DEF Actors, Pids
<1>1. ASSUME NEW r \in Requests, Request(c, r)
      PROVE  Served'
  <2>1. CASE r = "ipRestart" /\ latched
    BY <1>1, <2>1, ServedStays DEF Request
  <2>2. CASE ~(r = "ipRestart" /\ latched)
    <3> DEFINE next == CASE r = "guiStart" -> "start"
                         [] r = "webRestart" /\ ~Running -> "start"
                         [] r = "status" -> "stdin"
                         [] OTHER -> "stop"
    <3>1. /\ pc' = [pc EXCEPT ![c] = next] /\ queue' = Append(queue, c)
          /\ pc[c] = "idle"
      BY <1>1, <2>2 DEF Request
    <3>2. next \in LockPCs /\ "idle" \notin LockPCs
      BY DEF LockPCs, Critical
    <3> HIDE DEF next
    <3> QED
      BY <1>c, <3>1, <3>2, ServedAsks
  <2> QED
    BY <2>1, <2>2
<1>2. CASE Shutdown(c)
  <2>1. /\ pc' = [pc EXCEPT ![c] = "stop"] /\ queue' = Append(queue, c)
        /\ pc[c] \notin LockPCs /\ "stop" \in LockPCs
    BY <1>2 DEF Shutdown, LockPCs, Critical
  <2> QED
    BY <1>c, <2>1, ServedAsks
<1>3. CASE StopRefused(c) \/ StopFinish(c)
  <2>1. Owns(c) /\ LeaveLock(c, AfterStop(c))
    BY <1>3, <1>t, <1>c DEF StopRefused, StopFinish, LockOwned, Critical
  <2>2. /\ AfterStop(c) \in PCs
        /\ AfterStop(c) = "start" \/ AfterStop(c) \notin LockPCs
    BY DEF AfterStop, PCs, LockPCs, Critical
  <2> QED
    BY <1>c, <2>1, <2>2, ServedLeaves
<1>4. CASE StopBegin(c)
  <2>1. /\ Owns(c) /\ Running /\ pc[c] = "stop" /\ queue' = queue
        /\ pc' = [pc EXCEPT ![watchTask] = "idle", ![c] = "cancel"]
    BY <1>4 DEF StopBegin
  <2>2. \A d \in Actors : pc[d] \notin {"cancel", "term", "kill"}
    BY <1>t, <2>1 DEF LockOwned, Owns, Critical
  <2>3. watchTask = procRef /\ pc[procRef] = "watch"
    BY <2>1, <2>2 DEF ServedInv, FreshInv, WatchInv, LiveIsWatched, Actors
  <2>4. procRef \in Actors /\ procRef # c
    BY <1>t, <1>c, <2>1 DEF Running
  <2>5. \A b \in Actors : pc'[b] \in LockPCs <=> pc[b] \in LockPCs
    BY <1>t, <1>c, <2>1, <2>3, <2>4 DEF LockPCs, Critical
  <2> QED
    BY <2>1, <2>5, ServedStays
<1>5. CASE StopTerminate(c) \/ StopTimeout(c)
  <2>1. /\ queue' = queue
        /\ \A b \in Actors : pc'[b] \in LockPCs <=> pc[b] \in LockPCs
    BY <1>t, <1>c, <1>5 DEF StopTerminate, StopTimeout, LockPCs, Critical
  <2> QED
    BY <2>1, ServedStays
<1>6. CASE StdinBegin(c)
  <2>1. CASE procRef # 0
    <3>1. /\ queue' = queue
          /\ \A b \in Actors : pc'[b] \in LockPCs <=> pc[b] \in LockPCs
      BY <1>t, <1>c, <1>6, <2>1 DEF StdinBegin, LockPCs, Critical
    <3> QED
      BY <3>1, ServedStays
  <2>2. CASE procRef = 0
    <3>1. Owns(c) /\ LeaveLock(c, "idle") /\ "idle" \in PCs \ LockPCs
      BY <1>6, <2>2 DEF StdinBegin, PCs, LockPCs, Critical
    <3> QED
      BY <1>c, <3>1, ServedLeaves
  <2> QED
    BY <2>1, <2>2
<1>7. CASE StdinFinish(c)
  <2>1. Owns(c) /\ LeaveLock(c, "idle") /\ "idle" \in PCs \ LockPCs
    BY <1>7, <1>t, <1>c DEF StdinFinish, LockOwned, PCs, LockPCs, Critical
  <2> QED
    BY <1>c, <2>1, ServedLeaves
<1> QED
  BY <1>1, <1>2, <1>3, <1>4, <1>5, <1>6, <1>7 DEF ClientStep

\* Every start keeps everyone in his place; the watcher of a process that is
\* gone when its start finishes is the last in the queue.
LEMMA ServedStart ==
  ASSUME ServedInv, NEW a \in Actors, StartStep(a)
  PROVE  Served'
<1>t. /\ pc \in [Actors -> PCs] /\ LockOwned
  BY DEF ServedInv, FreshInv, WatchInv, LockInv, TypeOK
<1>c. Pids \subseteq Actors
  BY DEF Actors
<1>1. CASE StartRefused(a) \/ StartPopenFails(a) \/ StartAborts(a)
  <2>1. Owns(a)
    BY <1>1, <1>t DEF StartRefused, StartPopenFails, StartAborts, LockOwned, Critical
  <2>2. LeaveLock(a, "idle")
    BY <1>1 DEF StartRefused, StartPopenFails, StartAborts, StartReturns
  <2>3. "idle" \in PCs \ LockPCs
    BY DEF PCs, LockPCs, Critical
  <2> QED
    BY <2>1, <2>2, <2>3, ServedLeaves
<1>2. CASE StartSpawn(a)
  <2>1. /\ queue' = queue
        /\ \A b \in Actors : pc'[b] \in LockPCs <=> pc[b] \in LockPCs
    BY <1>t, <1>2 DEF StartSpawn, LockPCs, Critical
  <2> QED
    BY <2>1, ServedStays
<1>3. CASE StartFinish(a)
  <2>1. pc[a] = "exec" /\ Owns(a)
    BY <1>3, <1>t DEF StartFinish, LockOwned, Critical
  <2>2. spawned \in Actors /\ pc[spawned] = "idle" /\ a # spawned
    BY <1>c, <2>1 DEF ServedInv, FreshInv, NewIsIdle
  <2>3. /\ Tail(queue) \in Seq(Actors) /\ Once(Tail(queue))
        /\ In(Tail(queue)) = InLock \ {a}
    BY <2>1, OwnerGone
  <2>4. CASE spawned \in live
    <3>1. queue' = Tail(queue) /\ pc' = [pc EXCEPT ![a] = "idle", ![spawned] = "watch"]
      BY <1>3, <2>4 DEF StartFinish
    <3>2. \A b \in Actors : pc'[b] \in LockPCs <=> b # a /\ pc[b] \in LockPCs
      BY <1>t, <2>2, <3>1 DEF LockPCs, Critical
    <3>3. InLock' = InLock \ {a}
      BY <3>2 DEF InLock
    <3> QED
      BY <2>3, <3>1, <3>3 DEF Served
  <2>5. CASE spawned \notin live
    <3>1. /\ queue' = Append(Tail(queue), spawned)
          /\ pc' = [pc EXCEPT ![a] = "idle", ![spawned] = "exited"]
      BY <1>3, <2>5 DEF StartFinish
    <3>2. spawned \notin InLock \ {a}
      BY <2>2 DEF InLock, LockPCs, Critical
    <3>3. Once(queue') /\ In(queue') = (InLock \ {a}) \cup {spawned}
      <4> DEFINE q == Tail(queue)
      <4>1. q \in Seq(Actors) /\ Once(q) /\ In(q) = InLock \ {a}
        BY <2>3
      <4>2. queue' = Append(q, spawned)
        BY <3>1
      <4> HIDE DEF q
      <4>3. spawned \notin In(q)
        BY <4>1, <3>2
      <4>4. Once(Append(q, spawned)) /\ In(Append(q, spawned)) = In(q) \cup {spawned}
        BY <2>2, <4>1, <4>3, AppendOnce
      <4> QED
        BY <4>1, <4>2, <4>4
    <3>4. \A b \in Actors :
            pc'[b] \in LockPCs <=> b = spawned \/ (b # a /\ pc[b] \in LockPCs)
      BY <1>t, <2>2, <3>1 DEF LockPCs, Critical
    <3>5. InLock' = (InLock \ {a}) \cup {spawned}
      BY <2>2, <3>4 DEF InLock
    <3> QED
      BY <3>3, <3>5 DEF Served
  <2> QED
    BY <2>4, <2>5
<1> QED
  BY <1>1, <1>2, <1>3 DEF StartStep

\* Every step of a watcher, and every exit, keeps everyone in his place.
LEMMA ServedWatch ==
  ASSUME ServedInv, NEW p \in Pids, WatchStep(p) \/ ProcExit(p)
  PROVE  Served'
<1>t. /\ pc \in [Actors -> PCs] /\ p \in Actors
  BY DEF ServedInv, FreshInv, WatchInv, LockInv, TypeOK, Actors
<1>o. "idle" \in PCs \ LockPCs /\ "backoff" \in PCs \ LockPCs
  BY DEF PCs, LockPCs, Critical
<1>1. CASE WatchDecide(p)
  <2>1. Owns(p) /\ (LeaveLock(p, "idle") \/ LeaveLock(p, "backoff"))
    BY <1>1 DEF WatchDecide
  <2> QED
    BY <1>t, <1>o, <2>1, ServedLeaves
<1>2. CASE WatchRestart(p)
  <2>1. CASE stopEvent
    <3>1. /\ queue' = queue
          /\ \A b \in Actors : pc'[b] \in LockPCs <=> pc[b] \in LockPCs
      BY <1>t, <1>o, <1>2, <2>1 DEF WatchRestart
    <3> QED
      BY <3>1, ServedStays
  <2>2. CASE ~stopEvent
    <3>1. /\ pc[p] \notin LockPCs /\ "start" \in LockPCs
          /\ pc' = [pc EXCEPT ![p] = "start"] /\ queue' = Append(queue, p)
      BY <1>2, <2>2 DEF WatchRestart, LockPCs, Critical
    <3> QED
      BY <1>t, <3>1, ServedAsks
  <2> QED
    BY <2>1, <2>2
<1>3. CASE ProcExit(p)
  <2>1. CASE LoopTurns /\ pc[p] = "watch"
    <3>1. /\ pc[p] \notin LockPCs /\ "exited" \in LockPCs
          /\ pc' = [pc EXCEPT ![p] = "exited"] /\ queue' = Append(queue, p)
      BY <1>3, <2>1 DEF ProcExit, LockPCs, Critical
    <3> QED
      BY <1>t, <3>1, ServedAsks
  <2>2. CASE ~(LoopTurns /\ pc[p] = "watch")
    BY <1>3, <2>2, ServedStays DEF ProcExit
  <2> QED
    BY <2>1, <2>2
<1> QED
  BY <1>1, <1>2, <1>3 DEF WatchStep

\* proc_lock serves everyone: in every state, for every set of clients,
\* requests and faults, those who asked for it and have not released it are
\* exactly the actors in its queue, each of them once.  A watcher cancelled by
\* a stop leaves no place behind, and one whose process is gone has one.
THEOREM LockServesAll ==
  Spec => [](Once(queue) /\ In(queue) = {a \in Actors : pc[a] \in LockPCs})
<1>1. Init => ServedInv
  <2> SUFFICES ASSUME Init PROVE ServedInv
    OBVIOUS
  <2>1. WatchInv
    BY LockInit DEF Init, WatchInv, LiveIsWatched, Running
  <2>2. FreshIsIdle /\ NewIsIdle
    BY DEF Init, FreshIsIdle, NewIsIdle, Actors
  <2>3. Len(queue) = 0
    BY EmptySeq DEF Init
  <2>4. Once(queue) /\ In(queue) = {}
    BY <2>3 DEF Once, In
  <2>5. InLock = {}
    BY DEF Init, InLock, LockPCs, Critical
  <2> QED
    BY <2>1, <2>2, <2>4, <2>5 DEF ServedInv, FreshInv, Served
<1>2. ServedInv /\ [Next]_vars => ServedInv'
  <2> SUFFICES ASSUME ServedInv, [Next]_vars PROVE Served'
    BY FreshStep DEF ServedInv
  <2>1. CASE CloseApp \/ LoopStops \/ AtExit \/ UNCHANGED vars
    BY <2>1, ServedStays DEF CloseApp, LoopStops, AtExit, vars
  <2>2. CASE Next /\ ~(CloseApp \/ LoopStops \/ AtExit)
    BY <2>2, ServedClient, ServedStart, ServedWatch DEF Next, LoopStep
  <2> QED
    BY <2>1, <2>2
<1>3. ServedInv => Once(queue) /\ In(queue) = {a \in Actors : pc[a] \in LockPCs}
  BY DEF ServedInv, Served, InLock
<1> QED
  BY <1>1, <1>2, <1>3, PTL DEF Spec

----------------------------------------------------------------------------
(* The IP monitor *)

\* Each step of the composition is a step of the life cycle or leaves it alone.
LEMMA MonStepImplements ==
  ASSUME "ipRestart" \in Requests, [MonNext]_allVars
  PROVE  [Next]_vars
<1>1. ASSUME NEW c \in Clients \ Mons, Shutdown(c)
      PROVE  Next
  BY <1>1 DEF Next
<1>2. ASSUME NEW c \in Clients \ Mons, NEW r \in Requests \ {"ipRestart"},
             Request(c, r)
      PROVE  Next
  BY <1>2 DEF Next
<1>3. ASSUME LoopStep PROVE Next
  BY <1>3 DEF Next
<1>4. ASSUME NEW c \in Mons, RestartRuns(c)
      PROVE  Next
  <2>1. Request(c, "ipRestart") /\ c \in Clients
    BY <1>4, MonsAssumption DEF RestartRuns
  <2> QED
    BY <2>1 DEF Next
<1>5. ASSUME Tick \/ RestartReturns \/ RestartTimesOut
      PROVE  UNCHANGED vars
  BY <1>5 DEF Tick, TickLatched, TickQuiet, TickCandidate, TickAgain,
              RestartReturns, RestartTimesOut
<1>6. ASSUME NEW ip \in Samples, AddressChanges(ip)
      PROVE  UNCHANGED vars
  BY <1>6 DEF AddressChanges
<1>7. ASSUME UNCHANGED allVars PROVE UNCHANGED vars
  BY <1>7 DEF allVars
<1> QED
  BY <1>1, <1>2, <1>3, <1>4, <1>5, <1>6, <1>7 DEF MonNext

\* The monitor drives P2Pool only through the calls a client may make.
THEOREM MonitorImplementsProcess ==
  ASSUME "ipRestart" \in Requests
  PROVE  MonSpec => Spec
<1>1. MonInit => Init
  BY DEF MonInit
<1> QED
  BY <1>1, MonStepImplements, PTL DEF MonSpec, Spec

\* The monitor's restarts, however they overlap with the operator's, never
\* run two P2Pool processes nor lose one.
THEOREM OneProcessUnderMonitor ==
  ASSUME "ipRestart" \in Requests, "attach" \notin Faults
  PROVE  MonSpec => [](AtMostOneProcess /\ LiveIsReferenced)
BY MonitorImplementsProcess, OneProcess

\* With the monitor running, too, every live process has its watcher, a stop
\* is not taken for a crash, no two coroutines are inside proc_lock, and its
\* queue loses nobody.
THEOREM LifeCycleUnderMonitor ==
  ASSUME "ipRestart" \in Requests
  PROVE  MonSpec => /\ []LiveIsWatched
                    /\ StoppedIsNotRestarted
                    /\ []LockExclusion
                    /\ [](Once(queue) /\ In(queue) = {a \in Actors : pc[a] \in LockPCs})
BY MonitorImplementsProcess, Watched, StoppedStaysStopped, LockCorrect, LockServesAll, PTL

----------------------------------------------------------------------------
(* The confirmation of an address *)

\* The candidate's hits are the newest samples remembered, and a restart is
\* scheduled at required_confirmations hits and not before.
Candidate ==
  /\ Len(recent) <= Confirmations
  /\ \A i \in 1..Len(recent) : Len(recent) < i + pendingHits => recent[i] = pendingIp
  /\ pendingHits <= Len(recent) \/ Len(recent) = Confirmations
  /\ IF monitor = "polling" THEN pendingHits <= Confirmations
                            ELSE Confirmations <= pendingHits

\* What RestartReturns finds of the coroutine it waited for: it has not been
\* started since the confirmation unless a process has been spawned since.
Restarted ==
  /\ mark <= spawned
  /\ monitor = "waiting" =>
       /\ future \in Mons
       /\ started[future] => mark < spawned
       /\ pc[future] = "exec" => mark < spawned
       /\ pc[future] = "start" =>
            mark < spawned \/ (~Running /\ \A a \in Actors : pc[a] # "exec")

MonInv == MonTypeOK /\ Candidate /\ Restarted

\* The samples remembered after one more.
LEMMA RememberFacts ==
  ASSUME recent \in Seq(Ips), Len(recent) <= Confirmations, NEW ip \in Ips,
         Remember(ip)
  PROVE  /\ recent' \in Seq(Ips)
         /\ Len(recent) = Confirmations =>
              /\ Len(recent') = Confirmations
              /\ \A i \in 1..(Confirmations - 1) : recent'[i] = recent[i + 1]
         /\ Len(recent) # Confirmations =>
              /\ Len(recent') = Len(recent) + 1
              /\ \A i \in 1..Len(recent) : recent'[i] = recent[i]
         /\ recent'[Len(recent')] = ip
<1> DEFINE s == Append(recent, ip)
<1>1. /\ s \in Seq(Ips) /\ s # <<>> /\ Len(s) = Len(recent) + 1
      /\ s[Len(recent) + 1] = ip
      /\ \A i \in 1..Len(recent) : s[i] = recent[i]
      /\ Len(recent) \in Nat
  BY AppendProperties, LenProperties
<1>2. Confirmations \in Nat \ {0}
  BY ConfirmationsAssumption
<1>3. recent' = IF Len(s) > Confirmations THEN Tail(s) ELSE s
  BY DEF Remember
<1>4. /\ Tail(s) \in Seq(Ips) /\ Len(Tail(s)) = Len(s) - 1
      /\ \A i \in 1..Len(Tail(s)) : Tail(s)[i] = s[i + 1]
  BY <1>1, HeadTailProperties
<1> HIDE DEF s
<1>5. CASE Len(recent) = Confirmations
  <2>1. recent' = Tail(s) /\ Len(Tail(s)) = Confirmations
    BY <1>1, <1>2, <1>3, <1>4, <1>5
  <2>2. \A i \in 1..(Confirmations - 1) : Tail(s)[i] = recent[i + 1]
    BY <1>1, <1>2, <1>4, <1>5, <2>1
  <2>3. Tail(s)[Confirmations] = ip
    BY <1>1, <1>2, <1>4, <1>5, <2>1
  <2> QED
    BY <1>4, <1>5, <2>1, <2>2, <2>3
<1>6. CASE Len(recent) # Confirmations
  <2>1. recent' = s
    BY <1>1, <1>2, <1>3, <1>6
  <2> QED
    BY <1>1, <1>6, <2>1
<1> QED
  BY <1>5, <1>6

\* A tick that agrees with the candidate, or begins a new one.
LEMMA TickCounts ==
  ASSUME MonTypeOK, Candidate, monitor = "polling", publicIp # NoIp,
         Remember(publicIp),
         \/ pendingIp' = publicIp /\ pendingHits' = 1 /\ monitor' = monitor
         \/ /\ pendingIp = publicIp /\ pendingIp' = pendingIp
            /\ pendingHits' = pendingHits + 1
            /\ IF pendingHits' < Confirmations THEN monitor' = monitor
                                               ELSE monitor' = "scheduled"
  PROVE  Candidate' /\ recent' \in Seq(Ips) /\ pendingHits' \in 0..(Confirmations + 1)
<1>1. /\ Confirmations \in Nat \ {0} /\ pendingHits \in Nat /\ recent \in Seq(Ips)
      /\ Len(recent) \in Nat /\ Len(recent) <= Confirmations
      /\ publicIp \in Ips /\ pendingHits <= Confirmations
  BY ConfirmationsAssumption, LenProperties DEF MonTypeOK, Candidate, Samples
<1>2. /\ recent' \in Seq(Ips)
      /\ Len(recent) = Confirmations =>
           /\ Len(recent') = Confirmations
           /\ \A i \in 1..(Confirmations - 1) : recent'[i] = recent[i + 1]
      /\ Len(recent) # Confirmations =>
           /\ Len(recent') = Len(recent) + 1
           /\ \A i \in 1..Len(recent) : recent'[i] = recent[i]
      /\ recent'[Len(recent')] = publicIp
  BY <1>1, RememberFacts
<1>3. pendingIp' = publicIp
  OBVIOUS
<1>4. Len(recent') \in Nat \ {0} /\ Len(recent') <= Confirmations
  BY <1>1, <1>2
<1>5. pendingHits' \in 0..(Confirmations + 1)
  BY <1>1
<1>6. pendingHits' <= Len(recent') \/ Len(recent') = Confirmations
  BY <1>1, <1>2, <1>4 DEF Candidate
<1>7. IF monitor' = "polling" THEN pendingHits' <= Confirmations
                              ELSE Confirmations <= pendingHits'
  BY <1>1
<1>8. ASSUME NEW i \in 1..Len(recent'), Len(recent') < i + pendingHits'
      PROVE  recent'[i] = publicIp
  <2>1. CASE i = Len(recent')
    BY <1>2, <2>1
  <2>2. CASE i # Len(recent')
    <3>1. pendingHits' = pendingHits + 1 /\ pendingIp = publicIp
      BY <1>4, <1>8, <2>2
    <3>2. CASE Len(recent) = Confirmations
      <4>1. /\ i \in 1..(Confirmations - 1) /\ i + 1 \in 1..Len(recent)
            /\ Len(recent) < (i + 1) + pendingHits
        BY <1>1, <1>2, <1>8, <2>2, <3>1, <3>2
      <4>2. recent[i + 1] = pendingIp
        BY <4>1 DEF Candidate
      <4> QED
        BY <1>2, <3>1, <3>2, <4>1, <4>2
    <3>3. CASE Len(recent) # Confirmations
      <4>1. i \in 1..Len(recent) /\ Len(recent) < i + pendingHits
        BY <1>1, <1>2, <1>8, <2>2, <3>1, <3>3
      <4>2. recent[i] = pendingIp
        BY <4>1 DEF Candidate
      <4> QED
        BY <1>2, <3>1, <3>3, <4>1, <4>2
    <3> QED
      BY <3>2, <3>3
  <2> QED
    BY <2>1, <2>2
<1> QED
  BY <1>2, <1>3, <1>4, <1>5, <1>6, <1>7, <1>8 DEF Candidate

\* A tick or a result that forgets the candidate.
LEMMA ForgetCounts ==
  ASSUME Forget, recent' = <<>>, monitor' = "polling"
  PROVE  /\ Candidate' /\ recent' \in Seq(Ips)
         /\ pendingHits' \in 0..(Confirmations + 1) /\ pendingIp' \in Samples
  BY ConfirmationsAssumption DEF Forget, Candidate, Samples

----------------------------------------------------------------------------
(* The restart of an address *)

\* What the promises made to the waiting monitor become of, in a step of the
\* life cycle that spawns nothing and is no request of the coroutine c: c is
\* not reported started, and a start it is about to begin still finds nothing
\* running and nothing being started.
LEMMA CoroutineStep ==
  ASSUME LockInv, NEW c \in Clients, ~started[c], pc[c] # "exec",
         pc[c] = "start" => ~Running /\ \A a \in Actors : pc[a] # "exec",
         spawned' = spawned,
         \/ LoopStep
         \/ \E d \in Clients \ {c} : Shutdown(d) \/ \E r \in Requests : Request(d, r)
  PROVE  /\ ~started'[c] /\ pc'[c] # "exec"
         /\ pc'[c] = "start" => ~Running' /\ \A a \in Actors : pc'[a] # "exec"
<1> DEFINE Nobody == \A a \in Actors : pc[a] # "exec"
           Goal == /\ ~started'[c] /\ pc'[c] # "exec"
                   /\ pc'[c] = "start" => ~Running' /\ \A a \in Actors : pc'[a] # "exec"
<1>t. /\ pc \in [Actors -> PCs] /\ LockOwned /\ live \subseteq Pids
      /\ started \in [Clients -> BOOLEAN] /\ spawned \in 0..MaxPid
      /\ MaxPid \in Nat /\ 0 \notin live
  BY MaxPidAssumption DEF LockInv, TypeOK, Pids
<1>c. /\ \A d \in Clients : d \in Actors /\ d \notin Pids
      /\ Pids \subseteq Actors
  BY ClientsAssumption, MaxPidAssumption DEF Actors, Pids
\* Steps in which others move, outside a start, and no reference changes.
<1>1. ASSUME started'[c] = started[c], pc'[c] = pc[c],
             \A b \in Actors : pc'[b] = "exec" => pc[b] = "exec",
             Running' => Running
      PROVE  Goal
  BY <1>1
<1>2. ASSUME NEW d \in Clients \ {c},
             Shutdown(d) \/ \E r \in Requests : Request(d, r)
      PROVE  Goal
  <2>1. /\ \A b \in Actors : b # d => pc'[b] = pc[b]
        /\ pc'[d] # "exec" /\ started'[c] = started[c]
        /\ procRef' = procRef /\ live' = live
    BY <1>t, <1>c, <1>2 DEF Shutdown, Request, refs, os
  <2> QED
    BY <1>1, <1>c, <2>1 DEF Running
<1>3. ASSUME NEW a \in Actors, StartRefused(a) PROVE Goal
  <2>1. /\ pc[a] = "start" /\ pc' = [pc EXCEPT ![a] = "idle"]
        /\ procRef' = procRef /\ live' = live
    BY <1>3 DEF StartRefused, StartReturns, LeaveLock, refs, os
  <2>2. started'[c] = started[c] \/ (a = c /\ ~Running /\ ~started'[c])
    BY <1>t, <1>3 DEF StartRefused, StartReturns, Report
  <2> QED
    BY <1>t, <1>c, <2>1, <2>2 DEF Running
<1>4. ASSUME NEW a \in Actors, StartSpawn(a) PROVE Goal
  BY <1>4, <1>t DEF StartSpawn
<1>5. ASSUME NEW a \in Actors, StartPopenFails(a) \/ StartAborts(a) PROVE Goal
  <2>1. /\ pc' = [pc EXCEPT ![a] = "idle"] /\ procRef' = 0 /\ live' \subseteq live
        /\ Report(a, FALSE)
    BY <1>5 DEF StartPopenFails, StartAborts, StartReturns, LeaveLock, os
  <2> QED
    BY <1>t, <1>c, <2>1 DEF Running, Report
<1>6. ASSUME NEW a \in Actors, StartFinish(a) PROVE Goal
  <2>1. pc[a] = "exec" /\ a # c
    BY <1>6 DEF StartFinish
  <2>2. started'[c] = started[c]
    BY <1>6, <1>t, <2>1 DEF StartFinish, Report
  <2>3. pc[c] # "start"
    BY <2>1
  <2>4. pc'[c] \in {pc[c], "idle", "watch", "exited"}
    <3>1. CASE spawned \in live
      BY <1>6, <1>t, <1>c, <3>1 DEF StartFinish
    <3>2. CASE spawned \notin live
      BY <1>6, <1>t, <1>c, <3>2 DEF StartFinish
    <3> QED
      BY <3>1, <3>2
  <2> QED
    BY <2>2, <2>3, <2>4
<1>7. ASSUME NEW d \in Clients, StopRefused(d) \/ StopFinish(d) PROVE Goal
  <2>1. /\ Owns(d) /\ ~Running /\ pc[d] # "exec" /\ live' = live
        /\ procRef' \in {0, procRef} /\ started' = started
        /\ pc' = [pc EXCEPT ![d] = AfterStop(d)]
    BY <1>7, <1>t, <1>c DEF StopRefused, StopFinish, LeaveLock, LockOwned,
                            Critical, refs, os
  <2>2. \A a \in Actors : pc[a] # "exec"
    BY <1>t, <2>1 DEF LockOwned, Owns, Critical
  <2>3. AfterStop(d) \in {"idle", "start"}
    BY DEF AfterStop
  <2> QED
    BY <1>t, <1>c, <2>1, <2>2, <2>3 DEF Running
<1>8. ASSUME NEW d \in Clients, StopBegin(d) PROVE Goal
  <2>1. /\ Owns(d) /\ pc[d] = "stop" /\ started' = started
        /\ procRef' = procRef /\ live' = live
        /\ \A b \in Actors : pc'[b] \in {pc[b], "idle", "cancel"}
    BY <1>8, <1>t DEF StopBegin, refs, os
  <2> QED
    BY <1>t, <1>c, <2>1 DEF Running
<1>9. ASSUME NEW d \in Clients, StopTerminate(d) \/ StopTimeout(d) PROVE Goal
  <2>1. /\ started' = started /\ procRef' = procRef /\ live' = live
        /\ \A b \in Actors : pc'[b] \in {pc[b], "term", "kill"}
    BY <1>9, <1>t DEF StopTerminate, StopTimeout, refs, os
  <2> QED
    BY <1>t, <1>c, <2>1 DEF Running
<1>10. ASSUME NEW d \in Clients, StdinBegin(d) \/ StdinFinish(d) PROVE Goal
  <2>1. /\ started' = started /\ procRef' = procRef /\ live' = live
        /\ \A b \in Actors : pc'[b] \in {pc[b], "idle", "drain"}
    BY <1>10, <1>t DEF StdinBegin, StdinFinish, LeaveLock, refs, os
  <2> QED
    BY <1>t, <1>c, <2>1 DEF Running
<1>11. ASSUME NEW p \in Pids, WatchDecide(p) PROVE Goal
  <2>1. /\ started' = started /\ procRef' \in {0, procRef} /\ live' = live
        /\ \A b \in Actors : b # p => pc'[b] = pc[b]
        /\ pc'[p] \in {"idle", "backoff"}
    BY <1>11, <1>t, <1>c DEF WatchDecide, LeaveLock, os
  <2> QED
    BY <1>t, <1>c, <2>1 DEF Running
<1>12. ASSUME NEW p \in Pids, WatchRestart(p) \/ ProcExit(p) PROVE Goal
  <2>1. /\ started' = started /\ procRef' = procRef /\ live' \subseteq live
        /\ \A b \in Actors : b # p => pc'[b] = pc[b]
        /\ pc'[p] \in {pc[p], "idle", "start", "exited"}
    BY <1>12, <1>t, <1>c DEF WatchRestart, ProcExit, refs, os
  <2> QED
    BY <1>t, <1>c, <2>1 DEF Running
<1>13. ASSUME CloseApp \/ LoopStops \/ AtExit PROVE Goal
  <2>1. started' = started /\ procRef' = procRef /\ live' \subseteq live /\ pc' = pc
    BY <1>13 DEF CloseApp, LoopStops, AtExit, refs, os
  <2> QED
    BY <2>1 DEF Running
<1> QED
  BY <1>2, <1>3, <1>4, <1>5, <1>6, <1>7, <1>8, <1>9, <1>10, <1>11, <1>12, <1>13
     DEF LoopStep, StartStep, ClientStep, WatchStep

\* Processes are counted upwards.
LEMMA SpawnedGrows ==
  ASSUME LockInv, [Next]_vars
  PROVE  spawned' \in Nat /\ spawned \in Nat /\ (spawned' = spawned \/ spawned < spawned')
<1>1. spawned \in Nat
  BY MaxPidAssumption DEF LockInv, TypeOK
<1>2. spawned' = spawned \/ spawned' = spawned + 1
  BY DEF Next, LoopStep, StartStep, ClientStep, WatchStep, Request, Shutdown,
         StartRefused, StartSpawn, StartPopenFails, StartFinish, StartAborts,
         StopRefused, StopBegin, StopTerminate, StopTimeout, StopFinish,
         StdinBegin, StdinFinish, WatchDecide, WatchRestart, ProcExit,
         CloseApp, LoopStops, AtExit, os, vars
<1> QED
  BY <1>1, <1>2

----------------------------------------------------------------------------
(* The invariant of the monitor *)

\* The initial states satisfy it.
LEMMA MonInvInit == MonInit => MonInv
<1> SUFFICES ASSUME MonInit PROVE MonInv
  OBVIOUS
<1>1. MonTypeOK
  <2>1. /\ 0 \in 0..MaxChanges /\ 0 \in 0..(Confirmations + 1) /\ 0 \in 0..MaxPid
        /\ recent \in Seq(Ips)
    BY MaxChangesAssumption, ConfirmationsAssumption, MaxPidAssumption DEF MonInit
  <2> QED
    BY <2>1 DEF MonInit, MonTypeOK, Samples
<1>2. Candidate
  BY ConfirmationsAssumption DEF MonInit, Candidate
<1>3. Restarted
  BY DEF MonInit, Init, Restarted
<1> QED
  BY <1>1, <1>2, <1>3 DEF MonInv

\* A step of the life cycle leaves the monitor's own variables alone.
LEMMA LifeCycleStep ==
  ASSUME MonInv, LockInv, [Next]_vars, UNCHANGED monVars,
         \/ LoopStep
         \/ \E d \in Clients \ Mons : Shutdown(d) \/ \E r \in Requests : Request(d, r)
         \/ UNCHANGED vars
  PROVE  MonInv'
<1>1. MonTypeOK' /\ Candidate'
  BY DEF MonInv, MonTypeOK, Candidate, monVars, world, observe
<1>2. mark' = mark /\ monitor' = monitor /\ future' = future
  BY DEF monVars, observe
<1>3. spawned' \in Nat /\ spawned \in Nat /\ (spawned' = spawned \/ spawned < spawned')
  BY SpawnedGrows
<1>4. mark \in Nat /\ mark <= spawned
  BY MaxPidAssumption DEF MonInv, MonTypeOK, Restarted
<1>5. ASSUME mark < spawned' PROVE Restarted'
  <2>1. mark' <= spawned' /\ mark' < spawned'
    BY <1>2, <1>3, <1>4, <1>5
  <2>2. monitor' = "waiting" => future' \in Mons
    BY <1>2 DEF MonInv, Restarted
  <2> QED
    BY <2>1, <2>2 DEF Restarted
<1>6. ASSUME ~(mark < spawned') PROVE Restarted'
  <2>1. spawned' = spawned /\ spawned' = mark /\ ~(mark < spawned)
    BY <1>3, <1>4, <1>6
  <2> SUFFICES ASSUME monitor = "waiting"
               PROVE  /\ ~started'[future] /\ pc'[future] # "exec"
                      /\ pc'[future] = "start" =>
                           ~Running' /\ \A a \in Actors : pc'[a] # "exec"
    BY <1>2, <1>4, <2>1 DEF MonInv, Restarted
  <2>2. /\ future \in Mons /\ future \in Clients
        /\ ~started[future] /\ pc[future] # "exec"
        /\ pc[future] = "start" => ~Running /\ \A a \in Actors : pc[a] # "exec"
    BY <2>1, MonsAssumption DEF MonInv, Restarted
  <2>3. CASE UNCHANGED vars
    BY <2>2, <2>3 DEF vars, Running
  <2>4. CASE ~(UNCHANGED vars)
    <3>1. \/ LoopStep
          \/ \E d \in Clients \ {future} : Shutdown(d) \/ \E r \in Requests : Request(d, r)
      BY <2>2, <2>4
    <3> QED
      BY <2>1, <2>2, <3>1, CoroutineStep
  <2> QED
    BY <2>3, <2>4
<1> QED
  BY <1>1, <1>5, <1>6 DEF MonInv

\* The loop runs the first step of _restart_services.
LEMMA RestartRunsStep ==
  ASSUME MonInv, LockInv, NEW c \in Mons, RestartRuns(c)
  PROVE  MonInv'
<1>1. /\ Request(c, "ipRestart") /\ monitor = "scheduled" /\ monitor' = "waiting"
      /\ future' = c /\ UNCHANGED <<world, currentIp, missing, pendingIp, pendingHits>>
      /\ UNCHANGED observe
  BY DEF RestartRuns
<1>2. MonTypeOK' /\ Candidate'
  BY <1>1 DEF MonInv, MonTypeOK, Candidate, world, observe
<1>3. /\ spawned' = spawned /\ mark' = mark /\ mark <= spawned
      /\ ~started'[c] /\ pc'[c] \notin {"exec", "start"}
  <2>1. /\ c \in Clients /\ c \in Actors /\ started \in [Clients -> BOOLEAN]
        /\ pc \in [Actors -> PCs]
    BY MonsAssumption DEF LockInv, TypeOK, Actors
  <2>2. spawned' = spawned /\ mark' = mark /\ mark <= spawned
    BY <1>1 DEF Request, os, observe, MonInv, Restarted
  <2>3. ~started'[c]
    BY <1>1, <2>1 DEF Request
  <2>4. pc[c] = "idle" /\ (pc' = pc \/ pc' = [pc EXCEPT ![c] = "stop"])
    BY <1>1 DEF Request
  <2> QED
    BY <2>1, <2>2, <2>3, <2>4
<1>4. Restarted'
  BY <1>1, <1>3 DEF Restarted
<1> QED
  BY <1>2, <1>4 DEF MonInv

\* The monitor's thread takes a sample.
LEMMA TickStep ==
  ASSUME MonInv, LockInv, Tick
  PROVE  MonInv'
<1>1. /\ MonTypeOK /\ Candidate /\ mark <= spawned /\ monitor = "polling"
      /\ spawned \in 0..MaxPid /\ UNCHANGED vars /\ UNCHANGED world /\ future' = future
  BY DEF MonInv, Restarted, LockInv, TypeOK, Tick, TickLatched, TickQuiet,
         TickCandidate, TickAgain, Polling
<1>2. CASE TickLatched \/ TickQuiet
  <2>1. /\ Forget /\ recent' = <<>> /\ monitor' = monitor /\ mark' = mark
        /\ currentIp' \in {currentIp, publicIp} /\ missing' \in BOOLEAN
    BY <1>2 DEF TickLatched, TickQuiet
  <2>2. /\ Candidate' /\ recent' \in Seq(Ips)
        /\ pendingHits' \in 0..(Confirmations + 1) /\ pendingIp' \in Samples
    BY <1>1, <2>1, ForgetCounts
  <2>3. MonTypeOK'
    BY <1>1, <2>1, <2>2 DEF MonTypeOK, world
  <2>4. Restarted'
    BY <1>1, <2>1 DEF Restarted, vars
  <2> QED
    BY <2>2, <2>3, <2>4 DEF MonInv
<1>3. CASE TickCandidate \/ TickAgain
  <2>1. /\ publicIp # NoIp /\ Remember(publicIp)
        /\ \/ pendingIp' = publicIp /\ pendingHits' = 1 /\ monitor' = monitor
           \/ /\ pendingIp = publicIp /\ pendingIp' = pendingIp
              /\ pendingHits' = pendingHits + 1
              /\ IF pendingHits' < Confirmations THEN monitor' = monitor
                                                 ELSE monitor' = "scheduled"
        /\ mark' \in {mark, spawned} /\ currentIp' = currentIp /\ missing' = missing
    BY <1>3 DEF TickCandidate, TickAgain
  <2>2. /\ Candidate' /\ recent' \in Seq(Ips)
        /\ pendingHits' \in 0..(Confirmations + 1)
    BY <1>1, <2>1, TickCounts
  <2>3. pendingIp' \in Samples /\ monitor' \in {"polling", "scheduled"}
    BY <1>1, <2>1 DEF MonTypeOK
  <2>4. MonTypeOK'
    BY <1>1, <2>1, <2>2, <2>3 DEF MonTypeOK, world
  <2>5. mark' <= spawned' /\ monitor' # "waiting"
    BY <1>1, <2>1, <2>3 DEF vars
  <2>6. Restarted'
    BY <2>5 DEF Restarted
  <2> QED
    BY <2>2, <2>4, <2>6 DEF MonInv
<1> QED
  BY <1>2, <1>3 DEF Tick

\* The result of the restart arrives, or the wait for it times out.
LEMMA ResultStep ==
  ASSUME MonInv, LockInv, RestartReturns \/ RestartTimesOut
  PROVE  MonInv'
<1>1. /\ UNCHANGED vars /\ UNCHANGED world /\ Forget /\ recent' = <<>> /\ mark' = 0
      /\ monitor' = "polling" /\ future' = NoIp
      /\ currentIp' \in {currentIp, pendingIp} /\ missing' \in {missing, FALSE}
  BY DEF RestartReturns, RestartTimesOut
<1>2. /\ Candidate' /\ recent' \in Seq(Ips)
      /\ pendingHits' \in 0..(Confirmations + 1) /\ pendingIp' \in Samples
  BY <1>1, ForgetCounts
<1>3. MonTypeOK'
  <2>1. /\ publicIp' \in Samples /\ changes' \in 0..MaxChanges
        /\ currentIp' \in Samples /\ missing' \in BOOLEAN
    BY <1>1 DEF MonInv, MonTypeOK, world
  <2>2. mark' \in 0..MaxPid
    BY <1>1, MaxPidAssumption
  <2> QED
    BY <1>1, <1>2, <2>1, <2>2 DEF MonTypeOK
<1>4. Restarted'
  <2>1. spawned' \in Nat
    BY <1>1, MaxPidAssumption DEF LockInv, TypeOK, vars
  <2> QED
    BY <1>1, <2>1 DEF Restarted
<1> QED
  BY <1>2, <1>3, <1>4 DEF MonInv

\* Every step of the composition keeps it.
LEMMA MonInvStep ==
  ASSUME "ipRestart" \in Requests
  PROVE  MonInv /\ LockInv /\ [MonNext]_allVars => MonInv'
<1> SUFFICES ASSUME MonInv, LockInv, [MonNext]_allVars PROVE MonInv'
  OBVIOUS
<1>0. [Next]_vars
  BY MonStepImplements
<1>1. ASSUME NEW c \in Clients \ Mons,
             Shutdown(c) \/ \E r \in Requests \ {"ipRestart"} : Request(c, r),
             UNCHANGED monVars
      PROVE  MonInv'
  BY <1>0, <1>1, LifeCycleStep
<1>2. ASSUME LoopStep /\ UNCHANGED monVars PROVE MonInv'
  BY <1>0, <1>2, LifeCycleStep
<1>3. ASSUME UNCHANGED allVars PROVE MonInv'
  BY <1>0, <1>3, LifeCycleStep DEF allVars
<1>4. ASSUME NEW ip \in Samples, AddressChanges(ip) PROVE MonInv'
  <2>1. changes' \in 0..MaxChanges
    BY <1>4, MaxChangesAssumption DEF AddressChanges, MonInv, MonTypeOK
  <2>2. MonTypeOK' /\ Candidate'
    BY <1>4, <2>1 DEF AddressChanges, MonInv, MonTypeOK, Candidate, observe
  <2>3. Restarted'
    BY <1>4 DEF AddressChanges, MonInv, Restarted, Running, vars, observe
  <2> QED
    BY <2>2, <2>3 DEF MonInv
<1> QED
  BY <1>1, <1>2, <1>3, <1>4, RestartRunsStep, TickStep, ResultStep DEF MonNext

\* The lock's invariant holds in the composition.
LEMMA LockUnderMonitor ==
  ASSUME "ipRestart" \in Requests
  PROVE  LockInv /\ [MonNext]_allVars => LockInv'
BY MonStepImplements, LockStep

\* A flapping address restarts nothing: when a restart is scheduled, the last
\* required_confirmations samples all are the new address.
THEOREM Confirmed ==
  ASSUME "ipRestart" \in Requests
  PROVE  MonSpec => [](MonTypeOK /\ RestartIsConfirmed)
<1>1. MonInit => MonInv /\ LockInv
  BY MonInvInit, LockInit DEF MonInit
<1>2. MonInv => MonTypeOK /\ RestartIsConfirmed
  <2> SUFFICES ASSUME MonInv, monitor # "polling"
               PROVE  /\ Len(recent) = Confirmations
                      /\ \A i \in 1..Confirmations : recent[i] = pendingIp
    BY DEF MonInv, RestartIsConfirmed
  <2>1. /\ Confirmations <= pendingHits /\ Len(recent) <= Confirmations
        /\ pendingHits <= Len(recent) \/ Len(recent) = Confirmations
        /\ pendingHits \in Nat /\ Len(recent) \in Nat /\ Confirmations \in Nat
    BY ConfirmationsAssumption, LenProperties DEF MonInv, MonTypeOK, Candidate
  <2>2. Len(recent) = Confirmations
    BY <2>1
  <2> QED
    BY <2>1, <2>2 DEF MonInv, Candidate
<1> QED
  BY <1>1, <1>2, MonInvStep, LockUnderMonitor, PTL DEF MonSpec

\* An address is adopted by a restart only when P2Pool was started since the
\* address was confirmed, whoever started it and whatever stopped it.
THEOREM AdoptedAfterStart ==
  ASSUME "ipRestart" \in Requests
  PROVE  MonSpec => AdoptedMeansRestarted
<1>1. MonInit => MonInv /\ LockInv
  BY MonInvInit, LockInit DEF MonInit
<1>2. MonInv /\ [MonNext]_allVars =>
        [monitor = "waiting" /\ (currentIp' # currentIp \/ missing' # missing)
           => spawned > mark]_allVars
  <2> SUFFICES ASSUME MonInv, MonNext, monitor = "waiting",
                      currentIp' # currentIp \/ missing' # missing
               PROVE  spawned > mark
    OBVIOUS
  <2>1. RestartReturns
    BY DEF MonNext, Tick, TickLatched, TickQuiet, TickCandidate, TickAgain, Polling,
           RestartRuns, RestartTimesOut, AddressChanges, monVars
  <2>2. started[future]
    BY <2>1 DEF RestartReturns
  <2> QED
    BY <2>2 DEF MonInv, Restarted
<1> QED
  BY <1>1, <1>2, MonInvStep, LockUnderMonitor, PTL DEF MonSpec, AdoptedMeansRestarted
=============================================================================
