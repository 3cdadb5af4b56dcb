--------------------------- MODULE MinerSupervisor ---------------------------
(***************************************************************************)
(* The life cycle of the XMRig child process on a mining client:           *)
(* XmrigSupervisor and the process methods of XmrigMiner in                *)
(* client/xmrig_miner.py, with their callers (the GUI buttons, the server  *)
(* poller, the periodic reporter and the exit of the application).         *)
(*                                                                         *)
(* All of it runs on one asyncio loop: an action is the code between two   *)
(* awaits.  Callers are the coroutines that call stop, restart and close;  *)
(* Runner is the supervisor's task _run_forever.  _control_lock is never   *)
(* held over an await, so what start, stop and restart do under it is part *)
(* of one action.  queue is _terminate_lock, first come first served.      *)
(* _spawn_lock is taken by Runner only.                                    *)
(***************************************************************************)
EXTENDS Integers, Sequences

CONSTANTS Callers,   \* coroutines of the GUI, the poller and the reporter
          MaxPid,    \* bound: processes in a behaviour
          Threads,   \* the thread counts asked for
          Requests,  \* what the callers ask
          Faults     \* what may go wrong around the supervisor

AllRequests == {"start", "stop", "restart", "setThreads", "close"}
AllFaults   == {"spawn",     \* config.json or the executable is missing
                "slowExit",  \* a process outlives terminate() for a while
                "leftover"}  \* an XMRig of an earlier session still runs

Runner == "runner"

ASSUME CallersAssumption  == Runner \notin Callers
ASSUME MaxPidAssumption   == MaxPid \in Nat \ {0}
ASSUME ThreadsAssumption  == Threads \subseteq Nat \ {0} /\ Threads # {}
ASSUME RequestsAssumption == Requests \subseteq AllRequests
ASSUME FaultsAssumption   == Faults \subseteq AllFaults

Actors == Callers \cup {Runner}
Pids   == 1..MaxPid

VARIABLES
  desired,        \* _desired_running
  manualStop,     \* _manual_stop
  closed,         \* _closed
  wake,           \* _wake
  stale,          \* _generation has moved since Runner last read it
  threadCount,    \* _thread_count, 0 for None
  spawnThreads,   \* the thread count Runner's current spawn was given
  config,         \* the thread count in config.json
  asked,          \* the thread count of a set_threads no start followed, or 0
  ref,            \* xmrig_data.xmrig_process, 0 for None
  queue,          \* _terminate_lock: owner and waiters
  pc,             \* where each actor is suspended
  req,            \* the call a caller is in
  target,         \* proc in _terminate_current_process
  seen,           \* running_xmrigs of an actor's kill_all_xmrig_processes
  spawned,        \* the newest pid
  live            \* the XMRig processes alive in the system

control == <<desired, manualStop, closed, wake>>
counts  == <<threadCount, spawnThreads, config, asked>>
vars == <<desired, manualStop, closed, wake, stale, threadCount, spawnThreads,
          config, asked, ref, queue, pc, req, target, seen, spawned, live>>

Leftover == IF "leftover" \in Faults THEN {1} ELSE {}

Init ==
  /\ desired = FALSE /\ manualStop = FALSE /\ closed = FALSE /\ wake = FALSE
  /\ stale = FALSE
  /\ threadCount = 0 /\ spawnThreads = 0 /\ asked = 0
  /\ config \in Threads
  /\ ref = 0 /\ queue = <<>> /\ target = 0
  /\ pc = [a \in Actors |-> IF a = Runner THEN "none" ELSE "idle"]
  /\ req = [c \in Callers |-> "none"]
  /\ seen = [a \in Actors |-> {}]
  /\ live = Leftover
  /\ spawned = IF "leftover" \in Faults THEN 1 ELSE 0

----------------------------------------------------------------------------
(* Helpers *)

Running == ref \in live                       \* is_running()

Owns(a) == queue # <<>> /\ Head(queue) = a

\* The waiters q without b, which was cancelled.
Without(q, b) ==
  IF \E i \in 1..Len(q) : q[i] = b
    THEN LET i == CHOOSE j \in 1..Len(q) : q[j] = b
         IN  SubSeq(q, 1, i - 1) \o SubSeq(q, i + 1, Len(q))
    ELSE q

\* The application has not left its loop: close() has not returned.
Up == closed => \E c \in Callers : req[c] = "close"

\* terminate() of every process in P; a slow one lives on for a while.
Terminate(P) == live' = IF "slowExit" \in Faults THEN live ELSE live \ P

\* A process exit wakes the task that waits for it before Runner, which has
\* threads to wait for, can get as far as a new process.
Reaped == \A a \in Actors : pc[a] = "term" => target \in live

\* The watch is over: Runner retries while mining is wanted, else it sleeps.
WatchOver ==
  pc' = [pc EXCEPT ![Runner] = IF desired /\ ~manualStop THEN "retry"
                               ELSE IF closed THEN "done" ELSE "asleep"]

\* Seeded fault: a spawn does not look for other XMRig processes.
SpawnBlindly ==
  IF desired /\ ~closed
    THEN /\ stale' = FALSE /\ spawnThreads' = threadCount
         /\ pc' = [pc EXCEPT ![Runner] = "config"]
         /\ UNCHANGED live
    ELSE /\ pc' = [pc EXCEPT ![Runner] = IF closed THEN "done" ELSE "asleep"]
         /\ UNCHANGED <<stale, spawnThreads, live>>

\* The top of Runner's inner loop: the generation and the thread count are
\* read and _spawn_miner_process kills every XMRig process it finds.
LoopTop ==
  IF desired /\ ~closed
    THEN /\ stale' = FALSE /\ spawnThreads' = threadCount
         /\ Terminate(live)
         /\ pc' = [pc EXCEPT ![Runner] = IF live' = {} THEN "config" ELSE "scan"]
    ELSE /\ pc' = [pc EXCEPT ![Runner] = IF closed THEN "done" ELSE "asleep"]
         /\ UNCHANGED <<stale, spawnThreads, live>>

\* kill_all_xmrig_processes inside _terminate_current_process: the reference
\* is dropped at once if no process is left.
TermKillAll(a) ==
  /\ Terminate(live)
  /\ pc' = [pc EXCEPT ![a] = IF live' = {} THEN "post" ELSE "poll"]
  /\ ref' = IF live' = {} THEN 0 ELSE ref

----------------------------------------------------------------------------
(* The supervisor's calls, up to their first await *)

Call(c, r) ==
  /\ Up /\ r \in Requests /\ pc[c] = "idle"
  /\ pc' = [pc EXCEPT ![c] = "lock"]
  /\ queue' = Append(queue, c)
  /\ req' = [req EXCEPT ![c] = r]

\* Seeded fault: start() does not wake the runner.
StartAsleep(t) ==
  /\ Up /\ "start" \in Requests
  /\ desired' = TRUE /\ manualStop' = FALSE
  /\ threadCount' = t /\ asked' = 0
  /\ pc' = IF pc[Runner] # "none" THEN pc
           ELSE [pc EXCEPT ![Runner] = IF closed THEN "done" ELSE "asleep"]
  /\ UNCHANGED <<closed, wake, stale, spawnThreads, config, ref, queue, req,
                 target, seen, spawned, live>>

\* start() creates the runner if need be.  It leaves the generation, and so
\* a running process, alone.
Start(t) ==
  /\ Up /\ "start" \in Requests
  /\ desired' = TRUE /\ manualStop' = FALSE /\ wake' = TRUE
  /\ threadCount' = t /\ asked' = 0
  /\ pc' = IF pc[Runner] # "none" THEN pc
           ELSE [pc EXCEPT ![Runner] = IF closed THEN "done" ELSE "asleep"]
  /\ UNCHANGED <<closed, stale, spawnThreads, config, ref, queue, req, target,
                 seen, spawned, live>>

\* Seeded fault: stop() does not move the generation.
StopSameGeneration(c) ==
  /\ Call(c, "stop")
  /\ desired' = FALSE /\ manualStop' = TRUE /\ wake' = TRUE
  /\ UNCHANGED <<closed, stale, counts, ref, target, seen, spawned, live>>

Stop(c) ==
  /\ Call(c, "stop")
  /\ desired' = FALSE /\ manualStop' = TRUE /\ wake' = TRUE /\ stale' = TRUE
  /\ UNCHANGED <<closed, counts, ref, target, seen, spawned, live>>

\* Seeded fault: restart() creates the runner, as start() does.
RestartCreatesRunner(c) ==
  /\ Up /\ "restart" \in Requests /\ pc[c] = "idle"
  /\ pc' = [pc EXCEPT ![c] = "lock",
                      ![Runner] = IF @ = "none" THEN "asleep" ELSE @]
  /\ queue' = Append(queue, c)
  /\ req' = [req EXCEPT ![c] = "restart"]
  /\ desired' = TRUE /\ manualStop' = FALSE /\ wake' = TRUE /\ stale' = TRUE
  /\ UNCHANGED <<closed, counts, ref, target, seen, spawned, live>>

\* restart() after repeated failures of the reporter, whatever was asked for
\* before.  Without a runner there is nothing to restart.
Restart(c) ==
  /\ Call(c, "restart")
  /\ desired' = TRUE /\ manualStop' = FALSE /\ wake' = TRUE /\ stale' = TRUE
  /\ UNCHANGED <<closed, counts, ref, target, seen, spawned, live>>

\* set_threads: the poller writes config.json and restarts a running miner.
SetThreads(c, t) ==
  /\ config' = t /\ asked' = t
  /\ IF Running
       THEN /\ Call(c, "setThreads")
            /\ desired' = TRUE /\ manualStop' = FALSE
            /\ wake' = TRUE /\ stale' = TRUE
       ELSE /\ Up /\ "setThreads" \in Requests /\ pc[c] = "idle"
            /\ UNCHANGED <<pc, queue, req, desired, manualStop, wake, stale>>
  /\ UNCHANGED <<closed, threadCount, spawnThreads, ref, target, seen, spawned,
                 live>>

\* close() of the application: a stop, and then the end of the runner.
Close(c) ==
  /\ ~closed /\ Call(c, "close")
  /\ closed' = TRUE
  /\ desired' = FALSE /\ manualStop' = TRUE /\ wake' = TRUE /\ stale' = TRUE
  /\ UNCHANGED <<counts, ref, target, seen, spawned, live>>

----------------------------------------------------------------------------
(* _terminate_current_process, for a caller or for the runner's watch *)

termOnly == <<control, stale, counts, req, spawned>>

\* The lock is acquired and the optional DLL helper stopped in a thread.
TermBegin(a) ==
  /\ pc[a] = "lock" /\ Owns(a)
  /\ target' = ref
  /\ IF Running
       THEN /\ Terminate({ref})
            /\ pc' = [pc EXCEPT ![a] = "term"] /\ UNCHANGED ref
       ELSE TermKillAll(a)
  /\ UNCHANGED <<termOnly, queue, seen>>

\* Seeded fault: the wait for the terminated process has no time limit.
TermWaits(a) == FALSE /\ UNCHANGED vars

\* Five seconds later the process is killed.
TermTimeout(a) ==
  /\ pc[a] = "term" /\ target \in live
  /\ live' = live \ {target}
  /\ UNCHANGED <<termOnly, ref, queue, pc, target, seen>>

TermReaped(a) ==
  /\ pc[a] = "term" /\ target \notin live
  /\ TermKillAll(a)
  /\ UNCHANGED <<termOnly, queue, target, seen>>

\* The polls of kill_all, a second apart: none is left, or the last one lists
\* the processes that are killed a second later.
TermPolled(a) ==
  /\ pc[a] = "poll" /\ live = {}
  /\ pc' = [pc EXCEPT ![a] = "post"] /\ ref' = 0
  /\ UNCHANGED <<termOnly, queue, target, seen, live>>

TermLastPoll(a) ==
  /\ pc[a] = "poll" /\ live # {}
  /\ pc' = [pc EXCEPT ![a] = "last"]
  /\ seen' = [seen EXCEPT ![a] = live]
  /\ UNCHANGED <<termOnly, ref, queue, target, live>>

TermForce(a) ==
  /\ pc[a] = "last"
  /\ live' = live \ seen[a]
  /\ pc' = [pc EXCEPT ![a] = "post"] /\ ref' = 0
  /\ seen' = [seen EXCEPT ![a] = {}]
  /\ UNCHANGED <<termOnly, queue, target>>

\* "Stopped" has been reported and the lock is released.
TermReturns(a) ==
  /\ pc[a] = "post" /\ (a \in Callers => req[a] # "close")
  /\ target' = 0
  /\ queue' = Tail(queue)
  /\ pc' = [pc EXCEPT ![a] = IF a = Runner THEN "reap" ELSE "idle"]
  /\ req' = IF a = Runner THEN req ELSE [req EXCEPT ![a] = "none"]
  /\ UNCHANGED <<control, stale, counts, ref, seen, spawned, live>>

\* close() goes on: it cancels the runner wherever it is suspended.  asyncio
\* kills a process whose pipes were not connected yet.
CloseReturns(c) ==
  /\ c \in Callers /\ pc[c] = "post" /\ req[c] = "close"
  /\ target' = 0
  /\ queue' = Without(Tail(queue), Runner)
  /\ pc' = [pc EXCEPT ![c] = "idle",
                      ![Runner] = IF @ = "none" THEN @ ELSE "done"]
  /\ req' = [req EXCEPT ![c] = "none"]
  /\ live' = IF pc[Runner] = "exec" THEN live \ {spawned} ELSE live
  /\ UNCHANGED <<control, stale, counts, ref, seen, spawned>>

TermStep(a) == \/ TermBegin(a)  \/ TermTimeout(a)  \/ TermReaped(a)
               \/ TermPolled(a) \/ TermLastPoll(a) \/ TermForce(a)
               \/ TermReturns(a) \/ CloseReturns(a)

----------------------------------------------------------------------------
(* _run_forever and _spawn_miner_process *)

RunnerWakes ==
  /\ pc[Runner] = "asleep" /\ wake
  /\ wake' = FALSE
  /\ LoopTop
  /\ UNCHANGED <<desired, manualStop, closed, threadCount, config, asked, ref,
                 queue, req, target, seen, spawned>>

spawnOnly == <<control, stale, threadCount, spawnThreads, asked, queue, req, target>>

ScanPolled ==
  /\ pc[Runner] = "scan" /\ live = {}
  /\ pc' = [pc EXCEPT ![Runner] = "config"]
  /\ UNCHANGED <<spawnOnly, config, ref, seen, spawned, live>>

ScanLastPoll ==
  /\ pc[Runner] = "scan" /\ live # {}
  /\ pc' = [pc EXCEPT ![Runner] = "force"]
  /\ seen' = [seen EXCEPT ![Runner] = live]
  /\ UNCHANGED <<spawnOnly, config, ref, spawned, live>>

ScanForce ==
  /\ pc[Runner] = "force"
  /\ live' = live \ seen[Runner]
  /\ pc' = [pc EXCEPT ![Runner] = "config"]
  /\ seen' = [seen EXCEPT ![Runner] = {}]
  /\ UNCHANGED <<spawnOnly, config, ref, spawned>>

\* config.json is written in a thread and the process forked.  (is_running()
\* is false here, see AtMostOneMiner, so the early return is never taken.)
SpawnForks ==
  /\ pc[Runner] = "config" /\ spawned < MaxPid /\ Reaped
  /\ config' = spawnThreads
  /\ spawned' = spawned + 1
  /\ live' = live \cup {spawned + 1}
  /\ pc' = [pc EXCEPT ![Runner] = "exec"]
  /\ UNCHANGED <<spawnOnly, ref, seen>>

\* An exception before the fork, or the bound on processes.
SpawnFails ==
  /\ pc[Runner] = "config" /\ ("spawn" \in Faults \/ spawned = MaxPid)
  /\ pc' = [pc EXCEPT ![Runner] = "retry"]
  /\ UNCHANGED <<spawnOnly, config, ref, seen, spawned, live>>

\* The pipes are connected and the process is published; psutil may miss a
\* process that is gone already, which ends the spawn with an exception.
SpawnPublishes ==
  /\ pc[Runner] = "exec"
  /\ ref' = spawned
  /\ \/ pc' = [pc EXCEPT ![Runner] = "settle"]
     \/ spawned \notin live /\ pc' = [pc EXCEPT ![Runner] = "retry"]
  /\ UNCHANGED <<spawnOnly, config, seen, spawned, live>>

\* The process settings are applied, the status posted; the watch begins.
SpawnSettles ==
  /\ pc[Runner] = "settle"
  /\ pc' = [pc EXCEPT ![Runner] = "watch"]
  /\ UNCHANGED <<spawnOnly, config, ref, seen, spawned, live>>

----------------------------------------------------------------------------
(* _watch_process and what follows it *)

watchOnly == <<control, stale, counts, ref, req, target, seen, spawned, live>>

WatchSeesExit ==
  /\ pc[Runner] = "watch" /\ spawned \notin live
  /\ WatchOver
  /\ UNCHANGED <<watchOnly, queue>>

AskTerminate ==
  /\ pc' = [pc EXCEPT ![Runner] = "lock"]
  /\ queue' = Append(queue, Runner)

\* Fatal output, no output for 90 s, or a pool that looks wedged.
WatchRestarts ==
  /\ pc[Runner] = "watch" /\ spawned \in live
  /\ AskTerminate
  /\ UNCHANGED watchOnly

\* Seeded fault: the end of the monitors is taken for the end of the process.
MonitorsEndQuietly ==
  /\ pc[Runner] = "watch" /\ spawned \in live
  /\ WatchOver /\ UNCHANGED queue
  /\ UNCHANGED watchOnly

\* The monitors end with nothing to report: the generation has moved, or the
\* process closes its output because it is about to exit.
MonitorsEnd ==
  /\ pc[Runner] = "watch" /\ spawned \in live
  /\ IF Running THEN AskTerminate ELSE WatchOver /\ UNCHANGED queue
  /\ UNCHANGED watchOnly

WatchReaps ==
  /\ pc[Runner] = "reap" /\ spawned \notin live
  /\ WatchOver
  /\ UNCHANGED <<watchOnly, queue>>

RetryWoken ==
  /\ pc[Runner] = "retry" /\ wake
  /\ wake' = FALSE
  /\ LoopTop
  /\ UNCHANGED <<desired, manualStop, closed, threadCount, config, asked, ref,
                 queue, req, target, seen, spawned>>

\* Seeded fault: the delay has no end of its own.
RetryWaits == FALSE /\ UNCHANGED vars

\* The delay of min(60, 2 ^ min(attempt, 5)) seconds is over.
RetryTimer ==
  /\ pc[Runner] = "retry"
  /\ LoopTop
  /\ UNCHANGED <<control, threadCount, config, asked, ref, queue, req, target,
                 seen, spawned>>

RunnerStep ==
  \/ RunnerWakes \/ ScanPolled \/ ScanLastPoll \/ ScanForce
  \/ SpawnForks \/ SpawnFails \/ SpawnPublishes \/ SpawnSettles
  \/ WatchSeesExit \/ WatchReaps \/ RetryWoken \/ RetryTimer

\* A process exits: a crash, or the end of a terminated one.
ProcExit(p) ==
  /\ p \in live
  /\ live' = live \ {p}
  /\ UNCHANGED <<control, stale, counts, ref, queue, pc, req, target, seen,
                 spawned>>

Next ==
  \/ \E t \in Threads : Start(t)
  \/ \E c \in Callers : Stop(c) \/ Restart(c) \/ Close(c)
  \/ \E c \in Callers, t \in Threads : SetThreads(c, t)
  \/ \E a \in Actors : TermStep(a)
  \/ RunnerStep \/ WatchRestarts \/ MonitorsEnd
  \/ \E p \in Pids : ProcExit(p)

Spec == Init /\ [][Next]_vars

\* The loop resumes every task that can go on, the timeouts fire and the
\* monitors notice a generation that has moved within five seconds.  New
\* requests, crashes, exits of slow processes and restarts asked for by the
\* output monitor are never owed.
Fairness ==
  /\ \A a \in Actors : WF_vars(TermStep(a))
  /\ SF_vars(SpawnForks)
  /\ WF_vars(RunnerStep)
  /\ WF_vars(stale /\ MonitorsEnd)

FairSpec == Spec /\ Fairness

----------------------------------------------------------------------------
(* Properties *)

TermPCs   == {"lock", "term", "poll", "last", "post"}
RunnerPCs == {"none", "asleep", "scan", "force", "config", "exec", "settle",
              "watch", "reap", "retry", "done"} \cup TermPCs

\* Every variable holds a value the code can hold; in particular the runner
\* never spawns without a thread count.
TypeOK ==
  /\ desired \in BOOLEAN /\ manualStop \in BOOLEAN /\ closed \in BOOLEAN
  /\ wake \in BOOLEAN /\ stale \in BOOLEAN
  /\ threadCount \in Threads \cup {0} /\ spawnThreads \in Threads \cup {0}
  /\ config \in Threads /\ asked \in Threads \cup {0}
  /\ ref \in 0..MaxPid /\ target \in 0..MaxPid /\ spawned \in 0..MaxPid
  /\ queue \in Seq(Actors)
  /\ pc \in [Actors -> RunnerPCs \cup {"idle"}]
  /\ req \in [Callers -> AllRequests \cup {"none"}]
  /\ seen \in [Actors -> SUBSET Pids]
  /\ live \in SUBSET Pids

\* However stops, restarts and respawns interleave, two miners never compete
\* for the CPU: a process is forked when every other one is gone.
AtMostOneMiner == \A p, q \in live : p = q

\* A wish to mine is never missed: the runner does not sleep on a cleared
\* event while mining is wanted.
NoLostWake == pc[Runner] = "asleep" /\ desired => wake

\* After a stop that no start followed, the only miner that can still be alive
\* is one of a spawn under way, which the runner ends as soon as it watches it.
StoppedIsDoomed ==
  manualStop /\ queue = <<>> /\ live # {} =>
    stale /\ pc[Runner] \in {"exec", "settle", "watch"}

\* "Single owner of the XMRig process lifecycle": a miner the supervisor
\* started is in the runner's hands or about to be terminated.
LiveIsOwned ==
  live \ Leftover # {} =>
    pc[Runner] \in {"exec", "settle", "watch"} \/ queue # <<>>

\* A process started after a set_threads command uses its thread count, until
\* a later start sets another one.
ThreadUpdateIsUsed ==
  [][spawned' # spawned /\ asked # 0 => config' = asked]_vars

\* A manual stop ends mining, unless it is taken back.
StopIsHonoured == manualStop ~> (live = {} \/ ~manualStop)

\* A wish to mine leads to a running miner, unless it is taken back.
StartIsHonoured ==
  desired /\ pc[Runner] # "none" ~>
    (Running \/ ~desired \/ closed \/ spawned = MaxPid)

\* Every stop, restart and close returns, whatever the others do.
CallsReturn == \A c \in Callers : pc[c] # "idle" ~> pc[c] = "idle"
=============================================================================
