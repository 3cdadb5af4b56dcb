--------------------------- MODULE StratumEngine ---------------------------
(***************************************************************************)
(* The local RandomX job engine (StratumManager) as the direct connection  *)
(* to the pool drives it (server/p2pool_router_managers_2.py): the         *)
(* connection's thread, the feeder, registers the session and hands over   *)
(* jobs, a worker thread per registration hashes the newest of them and    *)
(* submits shares, and stop() may come at any time.  All sessions share    *)
(* one RandomX dataset (server/randomx_ctypes.py); what the other sessions *)
(* do to it is the actor Others.                                           *)
(*                                                                         *)
(* Registrations and datasets are numbered.  A job is its seed; its        *)
(* version is its place in the sequence of its registration's jobs.        *)
(***************************************************************************)
EXTENDS Naturals, SequencesExt

CONSTANTS Seeds,         \* seed hashes of the session's jobs
          OtherSeeds,    \* seed hashes of the other sessions' jobs
          NoSeed,        \* the seed of a job a worker skips: none, or bad data
          BadSeed,       \* a seed hash that is no hash: too short, or not hex
          Feeder, Stopper, Others,   \* the threads other than workers
          QueueSize,     \* maxsize of a job queue, 8 in the code
          MaxSessions,   \* bound: registrations
          MaxJobs,       \* bound: jobs accepted
          MaxBuilds      \* bound: datasets built

ASSUME SeedsAssumption ==
  NoSeed \notin Seeds \cup OtherSeeds /\ BadSeed \notin OtherSeeds \cup {NoSeed}
ASSUME BoundsAssumption ==
  /\ QueueSize \in Nat \ {0} /\ MaxSessions \in Nat \ {0}
  /\ MaxJobs \in Nat \ {0} /\ MaxBuilds \in Nat \ {0}
ASSUME ThreadsAssumption ==
  /\ Feeder # Stopper /\ Feeder # Others /\ Stopper # Others
  /\ {Feeder, Stopper, Others} \cap (1..MaxSessions) = {}

AllSeeds == Seeds \cup OtherSeeds \cup {NoSeed}
Sessions == 1..MaxSessions
EndMark  == 0                     \* the None of deregister_session
Enders   == {Feeder, Stopper}     \* who calls deregister_session
Miners   == {Feeder, Others} \cup Sessions   \* who calls _maybe_reinit_randomx

VARIABLES
  reg,      \* the registration in sessions, _job_queues, _stop_events; 0: none
  made,     \* registrations so far
  jobs,     \* jobs accepted by each; job_ver is the length
  queue,    \* its job queue: versions and EndMark
  halted,   \* its stop event
  wpc,      \* where its worker is
  wver,     \* my_ver: the version in the worker's hands
  vm,       \* its VM: [data, seed], the dataset it reads and vm_seed
  late,     \* shares of its present job submitted too late: when there was a
            \* newer one, and when the session was told to stop
  fpc,      \* where the feeder is
  fjob,     \* the job it has received
  dpc,      \* where each caller of deregister_session is
  dreg,     \* the registration whose queue and thread it has got
  stopping, \* _stop_event of the connection manager
  data,     \* RandomX: the dataset, 0 for none
  dseed,    \* RandomX._seed
  hex,      \* _rx_seed_hex
  rpc,      \* where each caller of _maybe_reinit_randomx is
  built     \* datasets built so far

session == <<reg, made, jobs, queue, halted>>
worker  == <<wpc, wver, vm, late>>
feeder  == <<fpc, fjob>>
ending  == <<dpc, dreg, stopping>>
randomx == <<data, dseed, hex, rpc, built>>
vars    == <<session, worker, feeder, ending, randomx>>

NoVM   == [data |-> 0, seed |-> NoSeed]
InTime == [newer |-> 0, stopped |-> 0]

Init ==
  /\ reg = 0 /\ made = 0
  /\ jobs = [g \in Sessions |-> <<>>] /\ queue = [g \in Sessions |-> <<>>]
  /\ halted = [g \in Sessions |-> FALSE]
  /\ wpc = [g \in Sessions |-> "none"] /\ wver = [g \in Sessions |-> 0]
  /\ vm = [g \in Sessions |-> NoVM]
  /\ late = [g \in Sessions |-> InTime]
  /\ fpc = "off" /\ fjob = NoSeed
  /\ dpc = [e \in Enders |-> "idle"] /\ dreg = [e \in Enders |-> 0]
  /\ stopping = FALSE
  /\ data = 0 /\ dseed = NoSeed /\ hex = NoSeed
  /\ rpc = [m \in Miners |-> "idle"] /\ built = 0

Version(g) == Len(jobs[g])

Accepted == FoldFunction(LAMBDA js, n : Len(js) + n, 0, jobs)

\* sessions.get(session_id, {}).get("job_ver", my_ver) as worker g sees it.
SeenVersion(g) == IF reg = 0 THEN wver[g] ELSE Version(reg)

JobSeed(g) == jobs[g][wver[g]]

----------------------------------------------------------------------------
(* _maybe_reinit_randomx(s) by m, and RandomX.ensure_seed inside it *)

Building == \E m \in Miners : rpc[m] = "build"

\* The seed is _rx_seed_hex already, or is no hash: nothing to do.
SeedReady(s) == s \in {hex, BadSeed}

\* It is another one, whatever it is when ensure_seed has got its lock.
EnsureWanted(m, s) ==
  /\ rpc[m] = "idle" /\ ~SeedReady(s)
  /\ rpc' = [rpc EXCEPT ![m] = "wait"]
  /\ UNCHANGED <<data, dseed, hex, built>>

\* ensure_seed takes its lock: it is done, or it releases the dataset.
EnsureBegins(m, s) ==
  /\ rpc[m] = "wait" /\ ~Building
  /\ IF dseed = s /\ data # 0
       THEN rpc' = [rpc EXCEPT ![m] = "publish"] /\ UNCHANGED data
       ELSE rpc' = [rpc EXCEPT ![m] = "build"] /\ data' = 0
  /\ UNCHANGED <<dseed, hex, built>>

EnsureBuilds(m, s) ==
  /\ rpc[m] = "build" /\ built < MaxBuilds
  /\ built' = built + 1 /\ data' = built + 1 /\ dseed' = s
  /\ rpc' = [rpc EXCEPT ![m] = "publish"]
  /\ UNCHANGED hex

\* No memory: the exception leaves _seed and _rx_seed_hex as they were.
EnsureFails(m) ==
  /\ rpc[m] = "build"
  /\ rpc' = [rpc EXCEPT ![m] = "idle"]
  /\ UNCHANGED <<data, dseed, hex, built>>

\* Outside every lock.
Publishes(m, s) ==
  /\ rpc[m] = "publish" /\ hex' = s
  /\ rpc' = [rpc EXCEPT ![m] = "idle"]
  /\ UNCHANGED <<data, dseed, built>>

\* So do the others', but each such attempt counts as one of MaxBuilds.
OthersFail ==
  /\ rpc[Others] = "build" /\ built < MaxBuilds
  /\ built' = built + 1
  /\ rpc' = [rpc EXCEPT ![Others] = "idle"]
  /\ UNCHANGED <<data, dseed, hex>>

\* Another session's job.
OtherSession(s) ==
  /\ \/ built < MaxBuilds /\ (EnsureWanted(Others, s) \/ EnsureBegins(Others, s))
     \/ EnsureBuilds(Others, s) \/ OthersFail \/ Publishes(Others, s)
  /\ UNCHANGED <<session, worker, feeder, ending>>

----------------------------------------------------------------------------
(* The feeder: _direct_connection_loop, process_messages, _accept_job *)

\* register_session up to the thread, if the session is not there yet.
Register(next) ==
  IF reg # 0
    THEN fpc' = next /\ UNCHANGED session
    ELSE /\ made < MaxSessions
         /\ made' = made + 1 /\ reg' = made + 1
         /\ fpc' = IF next = "read" THEN "startRead" ELSE "startJob"
         /\ UNCHANGED <<jobs, queue, halted>>

\* The stop event is tested; the connection then takes its time.
Connect ==
  /\ fpc = "off" /\ ~stopping /\ fpc' = "opening"
  /\ UNCHANGED <<session, worker, fjob, ending, randomx>>

Connected ==
  /\ fpc = "opening" /\ Register("read")
  /\ UNCHANGED <<worker, fjob, ending, randomx>>

\* The thread starts; without its queue it dies of a KeyError.
StartWorker ==
  /\ fpc \in {"startRead", "startJob"}
  /\ wpc' = [wpc EXCEPT ![made] = IF reg = made THEN "get" ELSE "end"]
  /\ fpc' = IF fpc = "startRead" THEN "read" ELSE "seed"
  /\ UNCHANGED <<session, wver, vm, late, fjob, ending, randomx>>

\* A job arrives; stop() may have taken the session away.
Receive(s) ==
  /\ fpc = "read" /\ Accepted < MaxJobs
  /\ fjob' = s /\ Register("seed")
  /\ UNCHANGED <<worker, ending, randomx>>

AcceptSeedReady ==
  /\ fpc = "seed" /\ rpc[Feeder] = "idle" /\ (fjob = NoSeed \/ SeedReady(fjob))
  /\ fpc' = "version"
  /\ UNCHANGED <<session, worker, fjob, ending, randomx>>

AcceptEnsures ==
  /\ fpc = "seed" /\ fjob # NoSeed
  /\ \/ /\ \/ EnsureWanted(Feeder, fjob) \/ EnsureBegins(Feeder, fjob)
           \/ EnsureBuilds(Feeder, fjob)
        /\ UNCHANGED fpc
     \/ Publishes(Feeder, fjob) /\ fpc' = "version"
     \/ EnsureFails(Feeder) /\ fpc' = "ending"
  /\ UNCHANGED <<session, worker, fjob, ending>>

\* Under _lock: the new version; the session may be gone.
AcceptVersion ==
  /\ fpc = "version"
  /\ IF reg = 0
       THEN fpc' = "read" /\ UNCHANGED <<jobs, dreg>>
       ELSE /\ jobs' = [jobs EXCEPT ![reg] = Append(@, fjob)]
            /\ dreg' = [dreg EXCEPT ![Feeder] = reg]
            /\ fpc' = "put"
  /\ fjob' = NoSeed
  /\ UNCHANGED <<reg, made, queue, halted, worker, dpc, stopping, randomx>>

\* put_nowait; queue.Full makes room for a second try.
AcceptPut ==
  LET g == dreg[Feeder] IN
  /\ fpc = "put"
  /\ IF Len(queue[g]) < QueueSize
       THEN /\ queue' = [queue EXCEPT ![g] = Append(@, Version(g))]
            /\ fpc' = "read" /\ dreg' = [dreg EXCEPT ![Feeder] = 0]
       ELSE fpc' = "evict" /\ UNCHANGED <<queue, dreg>>
  /\ UNCHANGED <<reg, made, jobs, halted, worker, fjob, dpc, stopping, randomx>>

AcceptEvicts ==
  LET g == dreg[Feeder] IN
  /\ fpc = "evict"
  /\ queue' = [queue EXCEPT ![g] = IF @ = <<>> THEN @ ELSE Tail(@)]
  /\ fpc' = "put2"
  /\ UNCHANGED <<reg, made, jobs, halted, worker, fjob, ending, randomx>>

\* Seeded fault: the second try takes the place for granted.
AcceptPutPast ==
  LET g == dreg[Feeder] IN
  /\ fpc = "put2"
  /\ queue' = [queue EXCEPT ![g] = Append(@, Version(g))]
  /\ fpc' = "read" /\ dreg' = [dreg EXCEPT ![Feeder] = 0]
  /\ UNCHANGED <<reg, made, jobs, halted, worker, fjob, dpc, stopping, randomx>>

\* stop() may have put its end mark in the place; the new job is then lost.
AcceptPutAgain ==
  LET g == dreg[Feeder] IN
  /\ fpc = "put2"
  /\ queue' = [queue EXCEPT ![g] =
                 IF Len(@) < QueueSize THEN Append(@, Version(g)) ELSE @]
  /\ fpc' = "read" /\ dreg' = [dreg EXCEPT ![Feeder] = 0]
  /\ UNCHANGED <<reg, made, jobs, halted, worker, fjob, dpc, stopping, randomx>>

\* The connection fails or is lost, or _stop_event is seen.
Disconnect ==
  /\ fpc \in {"opening", "read"} /\ fpc' = "ending"
  /\ UNCHANGED <<session, worker, fjob, ending, randomx>>

\* The manager's stop(): the event, then every session there is.
Stop ==
  /\ ~stopping /\ stopping' = TRUE
  /\ dpc' = [dpc EXCEPT ![Stopper] = "halt"]
  /\ UNCHANGED <<session, worker, feeder, dreg, randomx>>

StopFindsNone ==
  /\ dpc[Stopper] = "halt" /\ reg = 0
  /\ dpc' = [dpc EXCEPT ![Stopper] = "idle"]
  /\ UNCHANGED <<session, worker, feeder, dreg, stopping, randomx>>

----------------------------------------------------------------------------
(* deregister_session *)

\* Called by the feeder's finally clause or by stop().
DeregHalts(e) ==
  /\ IF e = Feeder THEN fpc = "ending" /\ dpc[e] = "idle"
                   ELSE dpc[e] = "halt" /\ reg # 0
  /\ halted' = [g \in Sessions |-> halted[g] \/ g = reg]
  /\ dreg' = [dreg EXCEPT ![e] = reg]
  /\ dpc' = [dpc EXCEPT ![e] = "mark"]
  /\ UNCHANGED <<reg, made, jobs, queue, worker, feeder, stopping, randomx>>

\* put_nowait(None), and a full queue goes without.
DeregMarks(e) ==
  LET g == dreg[e] IN
  /\ dpc[e] = "mark"
  /\ queue' = IF g # 0 /\ Len(queue[g]) < QueueSize
                THEN [queue EXCEPT ![g] = Append(@, EndMark)] ELSE queue
  /\ dpc' = [dpc EXCEPT ![e] = "join"]
  /\ UNCHANGED <<reg, made, jobs, halted, worker, feeder, dreg, stopping, randomx>>

\* The worker has ended, or two seconds are over: the session is forgotten,
\* whichever is there.
DeregPops(e) ==
  /\ dpc[e] = "join"
  /\ reg' = 0
  /\ dpc' = [dpc EXCEPT ![e] = "idle"]
  /\ dreg' = [dreg EXCEPT ![e] = 0]
  /\ fpc' = IF e = Feeder THEN (IF stopping THEN "ended" ELSE "off") ELSE fpc
  /\ UNCHANGED <<made, jobs, queue, halted, worker, fjob, stopping, randomx>>

\* stop() came between two connections.
FeederEnds ==
  /\ fpc = "off" /\ stopping /\ fpc' = "ended"
  /\ UNCHANGED <<session, worker, fjob, ending, randomx>>

----------------------------------------------------------------------------
(* _share_worker *)

Goes(g, pc) == wpc' = [wpc EXCEPT ![g] = pc]

\* The job is let go.
Leaves(g, pc) ==
  /\ Goes(g, pc) /\ wver' = [wver EXCEPT ![g] = 0]
  /\ late' = [late EXCEPT ![g] = InTime]

\* The thread ends; its VM is destroyed.
Ends(g) == Leaves(g, "end") /\ vm' = [vm EXCEPT ![g] = NoVM]

\* Seeded fault: only the end mark ends the worker.
WorkerGetsMark(g) ==
  LET v == Head(queue[g]) IN
  /\ wpc[g] = "get" /\ queue[g] # <<>>
  /\ queue' = [queue EXCEPT ![g] = Tail(@)]
  /\ IF v = EndMark
       THEN Ends(g)
       ELSE IF jobs[g][v] = NoSeed
         THEN UNCHANGED worker
         ELSE Goes(g, "seed") /\ wver' = [wver EXCEPT ![g] = v] /\ UNCHANGED <<vm, late>>
  /\ UNCHANGED <<reg, made, jobs, halted, feeder, ending, randomx>>

\* q.get() returns; a job that cannot be hashed is skipped.
WorkerGets(g) ==
  LET v == Head(queue[g]) IN
  /\ wpc[g] = "get" /\ queue[g] # <<>>
  /\ queue' = [queue EXCEPT ![g] = Tail(@)]
  /\ IF v = EndMark \/ halted[g]
       THEN Ends(g)
       ELSE IF jobs[g][v] = NoSeed
         THEN UNCHANGED worker
         ELSE Goes(g, "seed") /\ wver' = [wver EXCEPT ![g] = v] /\ UNCHANGED <<vm, late>>
  /\ UNCHANGED <<reg, made, jobs, halted, feeder, ending, randomx>>

WorkerSeedReady(g) ==
  /\ wpc[g] = "seed" /\ rpc[g] = "idle" /\ SeedReady(JobSeed(g)) /\ Goes(g, "vm")
  /\ UNCHANGED <<session, wver, vm, late, feeder, ending, randomx>>

\* An exception ends the thread; the session stays.
WorkerEnsures(g) ==
  /\ wpc[g] = "seed"
  /\ \/ /\ \/ EnsureWanted(g, JobSeed(g)) \/ EnsureBegins(g, JobSeed(g))
           \/ EnsureBuilds(g, JobSeed(g))
        /\ UNCHANGED worker
     \/ Publishes(g, JobSeed(g)) /\ Goes(g, "vm") /\ UNCHANGED <<wver, vm, late>>
     \/ EnsureFails(g) /\ Ends(g)
  /\ UNCHANGED <<session, feeder, ending>>

\* The old VM does, or a new one is created over the dataset there is.
WorkerKeepsVM(g) ==
  /\ wpc[g] = "vm" /\ vm[g].data # 0 /\ vm[g].seed = hex /\ Goes(g, "top")
  /\ UNCHANGED <<session, wver, vm, late, feeder, ending, randomx>>

WorkerCreatesVM(g) ==
  /\ wpc[g] = "vm" /\ (vm[g].data = 0 \/ vm[g].seed # hex) /\ ~Building
  /\ IF data = 0
       THEN Ends(g)
       ELSE /\ Goes(g, "named") /\ vm' = [vm EXCEPT ![g].data = data]
            /\ UNCHANGED <<wver, late>>
  /\ UNCHANGED <<session, feeder, ending, randomx>>

\* vm_seed = self._rx_seed_hex
WorkerNamesVM(g) ==
  /\ wpc[g] = "named" /\ vm' = [vm EXCEPT ![g].seed = hex] /\ Goes(g, "top")
  /\ UNCHANGED <<session, wver, late, feeder, ending, randomx>>

\* while True: the stop event,
WorkerTop(g) ==
  /\ wpc[g] = "top"
  /\ IF halted[g] THEN Leaves(g, "get")
                  ELSE Goes(g, "version") /\ UNCHANGED <<wver, late>>
  /\ UNCHANGED <<session, vm, feeder, ending, randomx>>

\* Seeded fault: the version is not looked at again.
WorkerTrusts(g) ==
  /\ wpc[g] = "version" /\ Goes(g, "hash")
  /\ UNCHANGED <<session, wver, vm, late, feeder, ending, randomx>>

\* the version,
WorkerTests(g) ==
  /\ wpc[g] = "version"
  /\ IF SeenVersion(g) # wver[g]
       THEN Leaves(g, "get") ELSE Goes(g, "hash") /\ UNCHANGED <<wver, late>>
  /\ UNCHANGED <<session, vm, feeder, ending, randomx>>

\* a hash that meets the target is submitted, any other is not.
WorkerHashes(g) ==
  /\ wpc[g] = "hash" /\ Goes(g, "top")
  /\ \/ UNCHANGED late
     \/ halted[g] /\ late' = [late EXCEPT ![g].stopped = @ + 1]
     \/ /\ ~halted[g] /\ Version(g) # wver[g]
        /\ late' = [late EXCEPT ![g].newer = @ + 1]
  /\ UNCHANGED <<session, wver, vm, feeder, ending, randomx>>

----------------------------------------------------------------------------
Worker(g) ==
  \/ WorkerGets(g) \/ WorkerSeedReady(g) \/ WorkerEnsures(g)
  \/ WorkerKeepsVM(g) \/ WorkerCreatesVM(g) \/ WorkerNamesVM(g)
  \/ WorkerTop(g) \/ WorkerTests(g) \/ WorkerHashes(g)

\* What the feeder goes on with by itself.
FeederGoesOn ==
  \/ StartWorker \/ AcceptSeedReady \/ AcceptEnsures \/ AcceptVersion
  \/ AcceptPut \/ AcceptEvicts \/ AcceptPutAgain \/ FeederEnds

Dereg(e) == DeregHalts(e) \/ DeregMarks(e) \/ DeregPops(e)

Next ==
  \/ Connect \/ Connected \/ Disconnect \/ Stop \/ StopFindsNone
  \/ \E s \in Seeds \cup {NoSeed} : Receive(s)
  \/ FeederGoesOn
  \/ \E e \in Enders : Dereg(e)
  \/ \E g \in Sessions : Worker(g)
  \/ \E s \in OtherSeeds : OtherSession(s)

Spec == Init /\ [][Next]_vars

\* Threads run, a connection that stop() finds ends, and building a dataset
\* ends one way or the other.
FairSpec ==
  /\ Spec
  /\ \A g \in Sessions : WF_vars(Worker(g))
  /\ \A e \in Enders : WF_vars(Dereg(e))
  /\ WF_vars(FeederGoesOn) /\ WF_vars(StopFindsNone)
  /\ WF_vars(stopping /\ Disconnect)
  /\ WF_vars(\E s \in OtherSeeds : rpc[Others] # "idle" /\ OtherSession(s))

----------------------------------------------------------------------------
\* Every variable has a value the code can give it; in particular a job queue
\* never exceeds its maxsize and holds no job before it is accepted, and a
\* worker past q.get() has a job with a seed.
TypeOK ==
  /\ reg \in 0..made /\ made \in 0..MaxSessions
  /\ jobs \in [Sessions -> Seq(Seeds \cup {NoSeed})]
  /\ \A g \in Sessions :
       /\ Len(queue[g]) <= QueueSize
       /\ Range(queue[g]) \subseteq 0..Version(g)
       /\ wver[g] \in 0..Version(g)
       /\ wpc[g] \in {"seed", "vm", "named", "top", "version", "hash"}
            => wver[g] # 0 /\ JobSeed(g) # NoSeed
  /\ halted \in [Sessions -> BOOLEAN]
  /\ wpc \in [Sessions -> {"none", "get", "seed", "vm", "named", "top",
                           "version", "hash", "end"}]
  /\ vm \in [Sessions -> [data : 0..built, seed : AllSeeds]]
  /\ late \in [Sessions -> [newer : Nat, stopped : Nat]]
  /\ fpc \in {"off", "opening", "startRead", "startJob", "read", "seed",
              "version", "put", "evict", "put2", "ending", "ended"}
  /\ fjob \in Seeds \cup {NoSeed}
  /\ dpc \in [Enders -> {"idle", "halt", "mark", "join"}]
  /\ dreg \in [Enders -> 0..made] /\ stopping \in BOOLEAN
  /\ data \in 0..built /\ built \in 0..MaxBuilds
  /\ dseed \in AllSeeds /\ hex \in AllSeeds
  /\ rpc \in [Miners -> {"idle", "wait", "build", "publish"}]

\* However a job, a disconnect and stop() fall between the tests of the loop
\* and the hash, a job yields at most one share after a newer one has come
\* and one after its session was told to stop.
AtMostOneLateShare ==
  \A g \in Sessions : late[g].newer <= 1 /\ late[g].stopped <= 1

\* Nothing is left for the worker of g to do that it is not doing.
Settled(g) ==
  IF stopping
    THEN wpc[g] \in {"none", "end"}
    ELSE \/ wpc[g] \in {"none", "end"} \/ halted[g] \/ jobs[g] = <<>>
         \/ Last(jobs[g]) = NoSeed
         \/ wpc[g] = "hash" /\ wver[g] = Version(g)

\* Eviction, a seed change by anybody and a session registered again never
\* leave a worker on an older job or waiting beside a newer one; and after
\* stop() every worker ends, though the connection it interrupts may register
\* the session once more and a full queue has no room for the end mark.
EngineSettles == \A g \in Sessions : []<>Settled(g)

\* randomx_ctypes.py:187 refuses a VM without a dataset ("seed not
\* initialized"); a VM in use keeps its own.
HashesOnADataset ==
  \A g \in Sessions : wpc[g] = "hash" => vm[g].data = data
=============================================================================
