--------------------------- MODULE P2PoolProcess ---------------------------
(***************************************************************************)
(* The life cycle of the P2Pool child process: P2PoolProcessor in          *)
(* server/p2pool_data.py, with the callers that drive it (the GUI buttons, *)
(* POST /restart_p2pool, POST /status, the public-IP monitor's restart     *)
(* coroutine and the shutdown of the main coroutine in p2pool_server.py).  *)
(*                                                                         *)
(* Everything here except the operating system runs on one asyncio loop,   *)
(* so an action is the code between two awaits.  Two kinds of actor run    *)
(* it: Clients are the coroutines other threads schedule on the loop, and  *)
(* the number p is the _watch_process task of the p-th process spawned.    *)
(* queue is proc_lock: its head owns the lock and the others wait, first   *)
(* come first served, as in asyncio.Lock.                                  *)
(***************************************************************************)
EXTENDS Integers, Sequences, FiniteSets

CONSTANTS Clients,   \* coroutines scheduled on the loop by other threads
          MaxPid,    \* bound: processes spawned in a behaviour
          Requests,  \* the kinds of request the clients make
          Faults     \* the ways in which a start may fail

AllRequests == {"guiStart", "guiStop", "webRestart", "ipRestart", "status"}

ASSUME ClientsAssumption  == Clients \cap Nat = {}
ASSUME MaxPidAssumption   == MaxPid \in Nat
ASSUME RequestsAssumption == Requests \subseteq AllRequests
ASSUME FaultsAssumption   == Faults \subseteq {"noExe", "popen", "pipes", "attach"}

Pids   == 1..MaxPid
Actors == Clients \cup Pids

VARIABLES
  procRef,       \* p2pool_data.p2pool_proc: the pid referenced, 0 for None
  psutilProc,    \* self.psutil_proc
  watchTask,     \* self.watch_task (redirect_task and monitor_task follow it)
  expectedStop,  \* self._expected_stop
  latched,       \* self._manual_stop_latched
  attempts,      \* self._restart_attempts
  stopEvent,     \* the application's stop_event
  queue,         \* self.proc_lock: owner and waiters
  pc,            \* where each actor is suspended
  req,           \* the request a client is serving
  started,       \* what the client's _restart_services returned
  loop,          \* the main coroutine and its event loop
  spawned,       \* processes spawned so far; also the newest pid
  live           \* pids of the P2Pool processes alive in the system

refs == <<procRef, psutilProc, watchTask>>
app  == <<stopEvent, loop>>
os   == <<spawned, live>>
vars == <<procRef, psutilProc, watchTask, expectedStop, latched, attempts,
          stopEvent, queue, pc, req, started, loop, spawned, live>>

Init ==
  /\ procRef = 0 /\ psutilProc = 0 /\ watchTask = 0
  /\ expectedStop = FALSE /\ latched = FALSE /\ attempts = 0
  /\ stopEvent = FALSE /\ loop = "running"
  /\ queue = <<>>
  /\ pc = [a \in Actors |-> "idle"]
  /\ req = [c \in Clients |-> "none"]
  /\ started = [c \in Clients |-> FALSE]
  /\ spawned = 0 /\ live = {}

----------------------------------------------------------------------------
(* Helpers *)

Running == procRef \in live      \* proc and proc.returncode is None

Owns(a) == queue # <<>> /\ Head(queue) = a

LoopTurns == loop \in {"running", "closing", "draining"}

\* Where an actor is suspended while it holds proc_lock.
Critical == {"exec", "cancel", "term", "kill", "drain"}

\* Acquiring a free lock does not suspend, so nothing else runs on the loop
\* between an owner's request for the lock and its first await inside it.
Quiet == queue # <<>> => pc[Head(queue)] \in Critical

\* Where client c goes when its stop_p2pool returns: the two restarts start.
AfterStop(c) == IF req[c] \in {"webRestart", "ipRestart"} THEN "start" ELSE "idle"

\* Actor a leaves proc_lock and, without another await, asks for it again if
\* its next call needs it.  The main coroutine returns after its stop.
LeaveLock(a, next) ==
  /\ pc' = [pc EXCEPT ![a] = next]
  /\ queue' = IF next = "start" THEN Append(Tail(queue), a) ELSE Tail(queue)
  /\ req' = IF a \in Clients /\ next = "idle" THEN [req EXCEPT ![a] = "none"] ELSE req
  /\ loop' = IF a \in Clients /\ req[a] = "shutdown" THEN "draining" ELSE loop

\* The result of a start_p2pool call; only _restart_services hands it on.
Report(a, result) ==
  started' = IF a \in Clients /\ req[a] = "ipRestart"
               THEN [started EXCEPT ![a] = result] ELSE started

StartReturns(a, result) == LeaveLock(a, "idle") /\ Report(a, result)

----------------------------------------------------------------------------
(* Requests from other threads *)

\* Another thread schedules a coroutine and the loop runs it up to proc_lock.
\* The GUI issues none once it is closing.  The IP monitor may: its stop()
\* waits three seconds for a thread that may be asking for the address.
Request(c, r) ==
  /\ loop \in {"running", "closing"} /\ Quiet
  /\ pc[c] = "idle"
  /\ r \in {"guiStart", "guiStop"} => ~stopEvent
  /\ started' = [started EXCEPT ![c] = FALSE]
  /\ IF r = "ipRestart" /\ latched
       THEN UNCHANGED <<req, pc, queue>>    \* "Skipping P2Pool restart"
       ELSE /\ req' = [req EXCEPT ![c] = r]
            /\ pc' = [pc EXCEPT ![c] =
                 CASE r = "guiStart" -> "start"
                   [] r = "webRestart" /\ ~Running -> "start"
                   [] r = "status" -> "stdin"
                   [] OTHER -> "stop"]
            /\ queue' = Append(queue, c)
  /\ UNCHANGED <<refs, expectedStop, latched, attempts, app, os>>

\* closeEvent of the GUI sets the application's stop event.
CloseApp ==
  /\ ~stopEvent
  /\ stopEvent' = TRUE
  /\ UNCHANGED <<refs, expectedStop, latched, attempts, queue, pc, req,
                 started, loop, os>>

\* The main coroutine leaves its polling loop and stops P2Pool.
Shutdown(c) ==
  /\ stopEvent /\ loop = "running" /\ Quiet /\ pc[c] = "idle"
  /\ loop' = "closing"
  /\ req' = [req EXCEPT ![c] = "shutdown"]
  /\ pc' = [pc EXCEPT ![c] = "stop"]
  /\ queue' = Append(queue, c)
  /\ UNCHANGED <<refs, expectedStop, latched, attempts, stopEvent, started, os>>

----------------------------------------------------------------------------
(* start_p2pool *)

StartRefused(a) ==
  /\ LoopTurns /\ pc[a] = "start" /\ Owns(a)
  /\ \/ Running /\ StartReturns(a, TRUE)          \* "already running"
     \/ ~Running /\ "noExe" \in Faults /\ StartReturns(a, FALSE)
  /\ UNCHANGED <<refs, expectedStop, latched, attempts, stopEvent, os>>

\* Seeded fault: the "already running" check is dropped.
StartSpawnAnyway(a) ==
  /\ LoopTurns /\ pc[a] = "start" /\ Owns(a)
  /\ spawned < MaxPid
  /\ latched' = FALSE
  /\ expectedStop' = FALSE
  /\ spawned' = spawned + 1
  /\ live' = live \cup {spawned + 1}
  /\ pc' = [pc EXCEPT ![a] = "exec"]
  /\ UNCHANGED <<refs, attempts, queue, req, started, app>>

\* create_subprocess_exec forks before its first suspension, so the process
\* exists while the coroutine waits for the pipes to be connected.
StartSpawn(a) ==
  /\ LoopTurns /\ pc[a] = "start" /\ Owns(a) /\ ~Running
  /\ spawned < MaxPid
  /\ latched' = FALSE
  /\ expectedStop' = FALSE
  /\ spawned' = spawned + 1
  /\ live' = live \cup {spawned + 1}
  /\ pc' = [pc EXCEPT ![a] = "exec"]
  /\ UNCHANGED <<refs, attempts, queue, req, started, app>>

\* Popen itself raises: no process, every reference dropped.  At the bound on
\* spawned processes this is the only outcome left.
StartPopenFails(a) ==
  /\ LoopTurns /\ pc[a] = "start" /\ Owns(a) /\ ~Running
  /\ "popen" \in Faults \/ spawned = MaxPid
  /\ latched' = FALSE
  /\ expectedStop' = FALSE
  /\ procRef' = 0 /\ psutilProc' = 0 /\ watchTask' = 0
  /\ StartReturns(a, FALSE)
  /\ UNCHANGED <<attempts, stopEvent, os>>

\* Seeded fault: the watcher is created and not kept in watch_task.
StartFinishUnkept(a) ==
  /\ LoopTurns /\ pc[a] = "exec" /\ loop # "draining" /\ spawned \in live
  /\ procRef' = spawned /\ psutilProc' = spawned
  /\ attempts' = 0
  /\ pc' = [pc EXCEPT ![a] = "idle", ![spawned] = "watch"]
  /\ queue' = Tail(queue)
  /\ req' = IF a \in Clients THEN [req EXCEPT ![a] = "none"] ELSE req
  /\ Report(a, TRUE)
  /\ UNCHANGED <<watchTask, expectedStop, latched, app, os>>

\* The pipes are connected: the process is published, psutil attached (unless
\* the process is already gone) and the watcher created; it finds a process
\* that is gone at once, and asks for proc_lock.
StartFinish(a) ==
  /\ LoopTurns /\ pc[a] = "exec" /\ loop # "draining"
  /\ procRef' = spawned
  /\ watchTask' = spawned
  /\ attempts' = 0
  /\ IF spawned \in live
       THEN /\ psutilProc' = spawned
            /\ pc' = [pc EXCEPT ![a] = "idle", ![spawned] = "watch"]
            /\ queue' = Tail(queue)
       ELSE /\ psutilProc' \in {0, spawned}
            /\ pc' = [pc EXCEPT ![a] = "idle", ![spawned] = "exited"]
            /\ queue' = Append(Tail(queue), spawned)
  /\ req' = IF a \in Clients THEN [req EXCEPT ![a] = "none"] ELSE req
  /\ Report(a, TRUE)
  /\ UNCHANGED <<expectedStop, latched, app, os>>

\* An exception after the fork drops every reference.  When the pipes could
\* not be connected asyncio kills the process itself; when psutil could not
\* attach (any error but NoSuchProcess) the process lives on unreferenced.
StartAborts(a) ==
  /\ LoopTurns /\ pc[a] = "exec" /\ loop # "draining"
  /\ \/ "pipes" \in Faults /\ live' = live \ {spawned}
     \/ "attach" \in Faults /\ UNCHANGED live
  /\ procRef' = 0 /\ psutilProc' = 0 /\ watchTask' = 0
  /\ StartReturns(a, FALSE)
  /\ UNCHANGED <<expectedStop, latched, attempts, stopEvent, spawned>>

----------------------------------------------------------------------------
(* stop_p2pool *)

Latch(c) == latched' = (latched \/ req[c] = "guiStop")

\* "P2Pool is not running": the early return leaves the watcher alone.
StopRefused(c) ==
  /\ LoopTurns /\ pc[c] = "stop" /\ Owns(c) /\ ~Running
  /\ Latch(c)
  /\ LeaveLock(c, AfterStop(c))
  /\ UNCHANGED <<refs, expectedStop, attempts, started, stopEvent, os>>

\* Seeded fault: the watcher is not cancelled.
StopBeginWatched(c) ==
  /\ LoopTurns /\ pc[c] = "stop" /\ Owns(c) /\ Running
  /\ Latch(c)
  /\ expectedStop' = TRUE
  /\ pc' = [pc EXCEPT ![c] = "cancel"]
  /\ UNCHANGED <<refs, attempts, queue, req, started, app, os>>

\* The watcher is cancelled, where it still runs, before the first await.
StopBegin(c) ==
  /\ LoopTurns /\ pc[c] = "stop" /\ Owns(c) /\ Running
  /\ Latch(c)
  /\ expectedStop' = TRUE
  /\ pc' = [pc EXCEPT ![watchTask] = "idle", ![c] = "cancel"]
  /\ UNCHANGED <<refs, attempts, queue, req, started, app, os>>

\* proc.terminate(), and a wait of at most five seconds.
StopTerminate(c) ==
  /\ LoopTurns /\ pc[c] = "cancel" /\ Running
  /\ pc' = [pc EXCEPT ![c] = "term"]
  /\ watchTask' = 0
  /\ UNCHANGED <<procRef, psutilProc, expectedStop, latched, attempts, queue,
                 req, started, app, os>>

\* Seeded fault: the wait for the terminated process has no time limit.
StopWaitsForever(c) == FALSE /\ UNCHANGED vars

StopTimeout(c) ==
  /\ LoopTurns /\ pc[c] = "term" /\ Running
  /\ pc' = [pc EXCEPT ![c] = "kill"]
  /\ UNCHANGED <<refs, expectedStop, latched, attempts, queue, req, started,
                 app, os>>

\* Seeded fault: the references are dropped before the killed process is gone.
StopFinishEarly(c) ==
  /\ LoopTurns /\ pc[c] = "kill"
  /\ procRef' = 0 /\ psutilProc' = 0 /\ watchTask' = 0
  /\ LeaveLock(c, AfterStop(c))
  /\ UNCHANGED <<expectedStop, latched, attempts, started, stopEvent, os>>

\* The finally block, once the process is seen to be gone.  (Gone before
\* terminate(), the call raises; every caller goes on as if it had returned.)
StopFinish(c) ==
  /\ LoopTurns /\ pc[c] \in {"cancel", "term", "kill"} /\ ~Running
  /\ procRef' = 0 /\ psutilProc' = 0 /\ watchTask' = 0
  /\ LeaveLock(c, AfterStop(c))
  /\ UNCHANGED <<expectedStop, latched, attempts, started, stopEvent, os>>

----------------------------------------------------------------------------
(* write_to_stdin *)

StdinBegin(c) ==
  /\ LoopTurns /\ pc[c] = "stdin" /\ Owns(c)
  /\ IF procRef # 0
       THEN pc' = [pc EXCEPT ![c] = "drain"] /\ UNCHANGED <<queue, req, loop>>
       ELSE LeaveLock(c, "idle")
  /\ UNCHANGED <<refs, expectedStop, latched, attempts, started, stopEvent, os>>

StdinFinish(c) ==
  /\ LoopTurns /\ pc[c] = "drain"
  /\ LeaveLock(c, "idle")
  /\ UNCHANGED <<refs, expectedStop, latched, attempts, started, stopEvent, os>>

----------------------------------------------------------------------------
(* _watch_process, one task per process spawned *)

\* Seeded fault: the attempt counter runs down.
WatchDecideCountsDown(p) ==
  /\ LoopTurns /\ pc[p] = "exited" /\ Owns(p)
  /\ procRef' = IF procRef = p THEN 0 ELSE procRef
  /\ psutilProc' = 0
  /\ IF expectedStop \/ stopEvent \/ latched
       THEN LeaveLock(p, "idle") /\ UNCHANGED attempts
       ELSE LeaveLock(p, "backoff") /\ attempts' = attempts - 1
  /\ UNCHANGED <<watchTask, expectedStop, latched, started, stopEvent, os>>

\* The references are dropped and, unless the exit was wanted, a restart is
\* scheduled after min(60, 2 ^ min(attempts, 6)) seconds.
WatchDecide(p) ==
  /\ LoopTurns /\ pc[p] = "exited" /\ Owns(p)
  /\ procRef' = IF procRef = p THEN 0 ELSE procRef
  /\ psutilProc' = 0
  /\ IF expectedStop \/ stopEvent \/ latched
       THEN LeaveLock(p, "idle") /\ UNCHANGED attempts
       ELSE LeaveLock(p, "backoff") /\ attempts' = attempts + 1
  /\ UNCHANGED <<watchTask, expectedStop, latched, started, stopEvent, os>>

\* Seeded fault: the watcher ends after its delay.
WatchGivesUp(p) ==
  /\ LoopTurns /\ Quiet /\ pc[p] = "backoff"
  /\ pc' = [pc EXCEPT ![p] = "idle"]
  /\ UNCHANGED <<refs, expectedStop, latched, attempts, queue, req, started, app, os>>

WatchRestart(p) ==
  /\ LoopTurns /\ Quiet /\ pc[p] = "backoff"
  /\ IF stopEvent
       THEN pc' = [pc EXCEPT ![p] = "idle"] /\ UNCHANGED queue
       ELSE pc' = [pc EXCEPT ![p] = "start"] /\ queue' = Append(queue, p)
  /\ UNCHANGED <<refs, expectedStop, latched, attempts, req, started, app, os>>

----------------------------------------------------------------------------
(* The operating system, and the end of the application *)

\* A process exits by itself or because it was terminated or killed.  The
\* loop learns the return code and wakes its watcher, which asks for proc_lock.
ProcExit(p) ==
  /\ p \in live /\ loop # "exited" /\ (LoopTurns => Quiet)
  /\ live' = live \ {p}
  /\ IF LoopTurns /\ pc[p] = "watch"
       THEN pc' = [pc EXCEPT ![p] = "exited"] /\ queue' = Append(queue, p)
       ELSE UNCHANGED <<pc, queue>>
  /\ UNCHANGED <<refs, expectedStop, latched, attempts, req, started, app, spawned>>

\* run_until_complete returns at the end of the iteration: nothing that is
\* suspended on the loop is ever resumed.
LoopStops ==
  /\ loop = "draining" /\ loop' = "stopped"
  /\ UNCHANGED <<refs, expectedStop, latched, attempts, queue, pc, req,
                 started, stopEvent, os>>

\* cleanup_on_exit, the last thing the interpreter runs: a failsafe
\* terminates the process it finds referenced.
AtExit ==
  /\ loop = "stopped" /\ loop' = "exited"
  /\ live' = live \ {procRef}
  /\ UNCHANGED <<refs, expectedStop, latched, attempts, queue, pc, req,
                 started, stopEvent, spawned>>

----------------------------------------------------------------------------

StartStep(a) == \/ StartRefused(a) \/ StartSpawn(a) \/ StartPopenFails(a)
                \/ StartFinish(a)  \/ StartAborts(a)

ClientStep(c) == \/ StopRefused(c) \/ StopBegin(c) \/ StopTerminate(c)
                 \/ StopTimeout(c) \/ StopFinish(c)
                 \/ StdinBegin(c)  \/ StdinFinish(c)

WatchStep(p) == WatchDecide(p) \/ WatchRestart(p)

\* Everything that is not a request: the loop's own steps, the system's and
\* the end of the application.
LoopStep ==
  \/ \E a \in Actors : StartStep(a)
  \/ \E c \in Clients : ClientStep(c)
  \/ \E p \in Pids : WatchStep(p) \/ ProcExit(p)
  \/ CloseApp \/ LoopStops \/ AtExit

Next ==
  \/ \E c \in Clients, r \in Requests : Request(c, r)
  \/ \E c \in Clients : Shutdown(c)
  \/ LoopStep

Spec == Init /\ [][Next]_vars

\* The loop resumes every coroutine that can go on (asyncio is first come
\* first served); timers that are due fire on the next turn, whatever else the
\* turns do (strong fairness for the delayed restart and for the main
\* coroutine's polling of stop_event); a killed process dies.  Requests,
\* crashes and closing are never owed.
KilledExit(p) == (\E c \in Clients : pc[c] = "kill") /\ procRef = p /\ ProcExit(p)

Fairness ==
  /\ \A a \in Actors : WF_vars(StartStep(a))
  /\ \A c \in Clients : WF_vars(ClientStep(c))
  /\ \A p \in Pids : SF_vars(WatchStep(p)) /\ WF_vars(KilledExit(p))
  /\ SF_vars(\E c \in Clients : Shutdown(c))
  /\ WF_vars(LoopStops) /\ WF_vars(AtExit)

FairSpec == Spec /\ Fairness

----------------------------------------------------------------------------
(* Properties *)

PCs == {"idle", "start", "exec", "stop", "cancel", "term", "kill", "stdin",
        "drain", "watch", "exited", "backoff"}

\* Every variable holds a value the code can hold; the lock's queue holds
\* actors.
TypeOK ==
  /\ procRef \in 0..MaxPid /\ psutilProc \in 0..MaxPid /\ watchTask \in 0..MaxPid
  /\ expectedStop \in BOOLEAN /\ latched \in BOOLEAN /\ stopEvent \in BOOLEAN
  /\ attempts \in Nat
  /\ queue \in Seq(Actors)
  /\ pc \in [Actors -> PCs]
  /\ req \in [Clients -> AllRequests \cup {"none", "shutdown"}]
  /\ started \in [Clients -> BOOLEAN]
  /\ loop \in {"running", "closing", "draining", "stopped", "exited"}
  /\ spawned \in 0..MaxPid
  /\ live \in SUBSET Pids

\* proc_lock serialises start_p2pool, stop_p2pool and write_to_stdin: no two
\* coroutines are ever suspended inside them.
LockExclusion ==
  \A a, b \in Actors : pc[a] \in Critical /\ pc[b] \in Critical => a = b

\* However starts, stops, crashes and delayed restarts interleave, there is
\* never a second P2Pool process on the Stratum and P2P ports.
AtMostOneProcess == \A p, q \in live : p = q

\* A live process is the one p2pool_proc refers to, unless its start is still
\* waiting for the pipes: no process escapes the next stop_p2pool.
LiveIsReferenced ==
  \A p \in live : procRef = p \/ \E a \in Actors : pc[a] = "exec" /\ p = spawned

\* A live process that nobody is starting or stopping has an armed watcher,
\* and watch_task names it, so that a stop cancels the right task.
LiveIsWatched ==
  Running => \/ watchTask = procRef /\ pc[procRef] = "watch"
             \/ \E c \in Clients : pc[c] \in {"cancel", "term", "kill"}

\* The watcher of a process that stop_p2pool terminated was cancelled: only a
\* process that exited on its own can be restarted.
StoppedIsNotRestarted ==
  [][\A p \in Pids : (\E c \in Clients : pc[c] \in {"cancel", "term", "kill"})
                     /\ procRef = p => pc[p] = "idle"]_vars

\* A start the operator did not ask for never undoes a manual stop: the latch
\* is cleared for an explicit start request only (the log line of
\* clear_manual_stop_latch).
LatchClearedByRequestOnly ==
  [][latched /\ ~latched' =>
       \E c \in Clients : Owns(c) /\ req[c] \in {"guiStart", "webRestart"}]_vars

\* Once the application has gone no P2Pool process is left behind (the
\* failsafe of cleanup_on_exit).
NothingLeftAtExit == loop = "exited" => live = {}

\* Every request ends, unless the loop was stopped under it.
RequestsEnd ==
  \A c \in Clients : pc[c] # "idle" ~> (pc[c] = "idle" \/ loop = "exited")

\* With nothing failing, a crash is repaired: a scheduled restart leads to a
\* running process, or to a stop.
CrashIsRepaired ==
  \A p \in Pids : pc[p] = "backoff" ~>
    (Running \/ stopEvent \/ latched \/ spawned = MaxPid)
=============================================================================
