------------------------ MODULE StratumEngineProofs ------------------------
(***************************************************************************)
(* Proofs about StratumEngine for every set of seeds, every queue size and *)
(* number of sessions, jobs and datasets: its types, and that a job yields *)
(* at most one late share of each sort.  A worker asks the sessions table  *)
(* whether there is a newer job, and takes a missing entry for a no; what  *)
(* saves it is that whoever removes an entry has told its worker to stop,  *)
(* which is an invariant of how the feeder and stop() end sessions.        *)
(***************************************************************************)
EXTENDS StratumEngine, SequenceTheorems, TLAPS

JobSeeds == Seeds \cup {NoSeed}

\* The shapes of the functions TypeOK speaks of pointwise.
Shapes == queue \in [Sessions -> Seq(Nat)] /\ wver \in [Sessions -> Nat]

\* Inside deregister_session past the stop event.
Past(e) == dpc[e] \in {"mark", "join"}

\* A registration that is not the present one was told to stop, and so was
\* the present one while somebody is about to remove it.
Removal ==
  /\ \A g \in Sessions : g <= made /\ g # reg => halted[g]
  /\ \A e \in Enders : Past(e) /\ reg # 0 => halted[reg]

\* stop() removes a session that the feeder cannot register again meanwhile,
\* and the feeder ends sessions at one place only.
Ending ==
  /\ Past(Stopper) /\ reg = 0 => fpc = "ended"
  /\ dpc[Stopper] # "idle" => stopping
  /\ dpc[Feeder] # "idle" => fpc = "ending" /\ dpc[Feeder] # "halt"

\* A registration has its worker when register_session starts the thread.
Threads ==
  /\ \A g \in Sessions : g > made => wpc[g] = "none"
  /\ fpc \in {"startRead", "startJob"} => made # 0 /\ wpc[made] = "none"

\* A late share was submitted in the round of the loop that goes on, or the
\* worker is told so in the next.
LateOK(g) ==
  /\ late[g].newer <= 1 /\ late[g].stopped <= 1
  /\ late[g].stopped = 1 => wpc[g] = "top" /\ halted[g]
  /\ late[g].newer = 1 => Version(g) # wver[g]
  /\ late[g].newer = 1 =>
       wpc[g] \in {"top", "version"} \/ (wpc[g] = "hash" /\ halted[g])

Lateness == \A g \in Sessions : LateOK(g)

Inv == TypeOK /\ Shapes /\ Removal /\ Ending /\ Threads /\ Lateness

----------------------------------------------------------------------------
(* Types *)

SessionTypes ==
  /\ reg \in 0..made /\ made \in 0..MaxSessions
  /\ jobs \in [Sessions -> Seq(JobSeeds)] /\ queue \in [Sessions -> Seq(Nat)]
  /\ halted \in [Sessions -> BOOLEAN]

WorkerTypes ==
  /\ wpc \in [Sessions -> {"none", "get", "seed", "vm", "named", "top",
                           "version", "hash", "end"}]
  /\ wver \in [Sessions -> Nat]
  /\ late \in [Sessions -> [newer : Nat, stopped : Nat]]

ControlTypes ==
  /\ fpc \in {"off", "opening", "startRead", "startJob", "read", "seed",
              "version", "put", "evict", "put2", "ending", "ended"}
  /\ fjob \in JobSeeds
  /\ dpc \in [Enders -> {"idle", "halt", "mark", "join"}]
  /\ dreg \in [Enders -> 0..made] /\ stopping \in BOOLEAN

DataTypes ==
  /\ data \in 0..built /\ built \in 0..MaxBuilds
  /\ dseed \in AllSeeds /\ hex \in AllSeeds
  /\ rpc \in [Miners -> {"idle", "wait", "build", "publish"}]
  /\ vm \in [Sessions -> [data : 0..built, seed : AllSeeds]]

\* What TypeOK says of one registration's queue and worker.
HasJob(g) == wpc[g] \in {"seed", "vm", "named", "top", "version", "hash"}

QueueTypes(g) == Len(queue[g]) <= QueueSize /\ Range(queue[g]) \subseteq 0..Version(g)

JobTypes(g) ==
  /\ wver[g] \in 0..Version(g)
  /\ HasJob(g) => wver[g] # 0 /\ JobSeed(g) # NoSeed

Types ==
  /\ SessionTypes /\ WorkerTypes /\ ControlTypes /\ DataTypes
  /\ \A g \in Sessions : QueueTypes(g) /\ JobTypes(g)

\* The parts are the whole.
LEMMA TypesAreTypes == Types <=> TypeOK /\ Shapes
  BY DEF Types, TypeOK, Shapes, SessionTypes, WorkerTypes, ControlTypes, DataTypes,
         QueueTypes, JobTypes, HasJob, JobSeeds

\* What a caller of _maybe_reinit_randomx does.
LEMMA DataStep ==
  ASSUME DataTypes, NEW m \in Miners, NEW s \in AllSeeds, UNCHANGED vm,
         \/ EnsureWanted(m, s) \/ EnsureBegins(m, s) \/ EnsureBuilds(m, s)
         \/ EnsureFails(m) \/ Publishes(m, s)
  PROVE  DataTypes'
<1>1. CASE EnsureWanted(m, s) \/ EnsureBegins(m, s)
  BY <1>1 DEF EnsureWanted, EnsureBegins, DataTypes
<1>2. CASE EnsureBuilds(m, s)
  <2>1. built + 1 \in 0..MaxBuilds /\ built' = built + 1 /\ built \in Nat
        /\ data' \in 0..built' /\ built' \in 0..MaxBuilds
    BY <1>2, BoundsAssumption DEF EnsureBuilds, DataTypes
  <2>2. 0..built \subseteq 0..built'
    BY <2>1
  <2>3. vm' \in [Sessions -> [data : 0..built', seed : AllSeeds]]
    BY <2>2 DEF DataTypes
  <2> QED
    BY <1>2, <2>1, <2>3 DEF EnsureBuilds, DataTypes
<1>3. CASE EnsureFails(m)
  BY <1>3 DEF EnsureFails, DataTypes
<1>4. CASE Publishes(m, s)
  BY <1>4 DEF Publishes, DataTypes
<1> QED
  BY <1>1, <1>2, <1>3, <1>4

\* Jobs are accepted, never taken back: versions in hand stay versions.
LEMMA JobsKept ==
  ASSUME SessionTypes, NEW g \in Sessions, NEW h \in Sessions, NEW s \in JobSeeds,
         jobs' = [jobs EXCEPT ![h] = Append(@, s)]
  PROVE  /\ Version(g) \in Nat /\ Version(g)' \in Nat
         /\ Version(g)' = IF g = h THEN Version(g) + 1 ELSE Version(g)
         /\ Version(g) <= Version(g)'
         /\ \A v \in 1..Version(g) : jobs'[g][v] = jobs[g][v]
<1>1. jobs[g] \in Seq(JobSeeds)
  BY DEF SessionTypes
<1>2. jobs'[g] = IF g = h THEN Append(jobs[g], s) ELSE jobs[g]
  BY DEF SessionTypes
<1>3. /\ Len(jobs[g]) \in Nat /\ Len(Append(jobs[g], s)) = Len(jobs[g]) + 1
      /\ \A v \in 1..Len(jobs[g]) : Append(jobs[g], s)[v] = jobs[g][v]
  BY <1>1, AppendProperties
<1>4. Version(g) = Len(jobs[g]) /\ Version(g)' = Len(jobs'[g])
  BY DEF Version
<1> HIDE DEF Version
<1>5. CASE g = h
  BY <1>2, <1>3, <1>4, <1>5
<1>6. CASE g # h
  BY <1>2, <1>3, <1>4, <1>6
<1> QED
  BY <1>5, <1>6

\* A version, or the end mark, more in the queue; or one less.
LEMMA QueueLonger ==
  ASSUME NEW q \in Seq(Nat), NEW v \in Nat
  PROVE  /\ Append(q, v) \in Seq(Nat) /\ Len(q) \in Nat /\ Len(Append(q, v)) = Len(q) + 1
         /\ Range(Append(q, v)) = Range(q) \cup {v}
<1>1. /\ Append(q, v) \in Seq(Nat) /\ Len(q) \in Nat /\ Len(Append(q, v)) = Len(q) + 1
      /\ \A i \in 1..Len(q) : Append(q, v)[i] = q[i]
      /\ Append(q, v)[Len(q) + 1] = v
  BY AppendProperties
<1>2. DOMAIN q = 1..Len(q) /\ DOMAIN Append(q, v) = 1..(Len(q) + 1)
  BY <1>1
<1>3. 1..(Len(q) + 1) = (1..Len(q)) \cup {Len(q) + 1}
  BY <1>1
<1> QED
  BY <1>1, <1>2, <1>3 DEF Range

LEMMA QueueShorter ==
  ASSUME NEW q \in Seq(Nat), q # <<>>
  PROVE  /\ Tail(q) \in Seq(Nat) /\ Len(q) \in Nat /\ Len(Tail(q)) = Len(q) - 1
         /\ Head(q) \in Range(q) /\ Head(q) \in Nat
         /\ Range(Tail(q)) \subseteq Range(q)
<1>1. /\ Tail(q) \in Seq(Nat) /\ Len(q) \in Nat \ {0} /\ Len(Tail(q)) = Len(q) - 1
      /\ Head(q) = q[1] /\ \A i \in 1..Len(Tail(q)) : Tail(q)[i] = q[i + 1]
  BY HeadTailProperties, EmptySeq, LenProperties
<1>2. 1 \in 1..Len(q) /\ \A i \in 1..Len(Tail(q)) : i + 1 \in 1..Len(q)
  BY <1>1
<1>3. DOMAIN q = 1..Len(q) /\ DOMAIN Tail(q) = 1..Len(Tail(q))
  BY <1>1
<1>4. Range(Tail(q)) \subseteq Range(q)
  BY <1>1, <1>2, <1>3 DEF Range
<1> QED
  BY <1>1, <1>2, <1>3, <1>4 DEF Range

\* One registration's queue and worker are left alone.
LEMMA LeftAlone ==
  ASSUME NEW g \in Sessions
  PROVE  /\ UNCHANGED <<jobs, queue>> /\ QueueTypes(g) => QueueTypes(g)'
         /\ UNCHANGED <<jobs, wpc, wver>> /\ JobTypes(g) => JobTypes(g)'
  BY DEF QueueTypes, JobTypes, HasJob, Version, JobSeed

\* A step that changes nothing but what one of the parts speaks of.
LEMMA PartsLeft ==
  ASSUME Types
  PROVE  /\ UNCHANGED session => SessionTypes'
         /\ UNCHANGED <<wpc, wver, late>> => WorkerTypes'
         /\ UNCHANGED <<fpc, fjob, dpc, dreg, stopping, made>> => ControlTypes'
         /\ UNCHANGED <<randomx, vm>> => DataTypes'
         /\ UNCHANGED <<jobs, queue>> => \A g \in Sessions : QueueTypes(g)'
         /\ UNCHANGED <<jobs, wpc, wver>> => \A g \in Sessions : JobTypes(g)'
<1>1. UNCHANGED <<jobs, queue>> => \A g \in Sessions : QueueTypes(g)'
  BY LeftAlone DEF Types
<1>2. UNCHANGED <<jobs, wpc, wver>> => \A g \in Sessions : JobTypes(g)'
  BY LeftAlone DEF Types
<1>3. UNCHANGED session => SessionTypes'
  BY DEF Types, SessionTypes, session
<1>4. UNCHANGED <<randomx, vm>> => DataTypes'
  BY DEF Types, DataTypes, randomx
<1>5. UNCHANGED <<wpc, wver, late>> => WorkerTypes'
  BY DEF Types, WorkerTypes
<1>6. UNCHANGED <<fpc, fjob, dpc, dreg, stopping, made>> => ControlTypes'
  BY DEF Types, ControlTypes
<1> QED
  BY <1>1, <1>2, <1>3, <1>4, <1>5, <1>6

\* The feeder registers the session, with or without a job.
LEMMA RegisterTypes ==
  ASSUME Types, NEW next \in {"read", "seed"}, Register(next),
         fjob' \in JobSeeds, UNCHANGED <<worker, ending, randomx>>
  PROVE  Types'
<1>1. SessionTypes' /\ made' \in Nat /\ made \in Nat /\ made <= made'
  BY BoundsAssumption DEF Types, SessionTypes, Register, session
<1>2. 0..made \subseteq 0..made'
  BY <1>1
<1>3. ControlTypes'
  BY <1>2 DEF Types, ControlTypes, Register, ending
<1>4. UNCHANGED <<jobs, queue>>
  BY DEF Register, session
<1> QED
  BY <1>1, <1>3, <1>4, PartsLeft DEF Types, worker

\* StartWorker and the feeder's way through _maybe_reinit_randomx.
LEMMA FeederStartsTypes ==
  ASSUME Types, StartWorker \/ AcceptSeedReady \/ AcceptEnsures
  PROVE  Types'
<1>1. CASE StartWorker
  <2>1. /\ WorkerTypes' /\ ControlTypes' /\ UNCHANGED <<session, wver, vm, randomx>>
    BY <1>1 DEF StartWorker, Types, WorkerTypes, ControlTypes, session, ending
  <2>2. UNCHANGED <<jobs, queue>>
    BY <2>1 DEF session
  <2>3. \A g \in Sessions : JobTypes(g)'
    <3>1. ASSUME NEW g \in Sessions PROVE JobTypes(g)'
      <4>1. HasJob(g)' => HasJob(g)
        BY <1>1 DEF StartWorker, HasJob, Types, WorkerTypes
      <4> QED
        BY <2>1, <2>2, <4>1 DEF Types, JobTypes, Version, JobSeed
    <3> QED
      BY <3>1
  <2> QED
    BY <2>1, <2>2, <2>3, PartsLeft DEF Types
<1>2. CASE AcceptSeedReady
  <2>1. ControlTypes' /\ UNCHANGED <<session, worker, randomx>>
    BY <1>2 DEF AcceptSeedReady, Types, ControlTypes, session, ending
  <2> QED
    BY <2>1, PartsLeft DEF Types, session, worker
<1>3. CASE AcceptEnsures
  <2>1. /\ ControlTypes' /\ UNCHANGED <<session, worker>>
        /\ \/ EnsureWanted(Feeder, fjob) \/ EnsureBegins(Feeder, fjob)
           \/ EnsureBuilds(Feeder, fjob) \/ EnsureFails(Feeder)
           \/ Publishes(Feeder, fjob)
    BY <1>3 DEF AcceptEnsures, Types, ControlTypes, session, ending
  <2>2. fjob \in AllSeeds /\ Feeder \in Miners
    BY DEF Types, ControlTypes, AllSeeds, JobSeeds, Miners
  <2>3. DataTypes'
    BY <2>1, <2>2, DataStep DEF Types, worker
  <2> QED
    BY <2>1, <2>3, PartsLeft DEF Types, session, worker
<1> QED
  BY <1>1, <1>2, <1>3

\* The new version.
LEMMA AcceptVersionTypes ==
  ASSUME Types, AcceptVersion
  PROVE  Types'
<1>1. /\ UNCHANGED <<reg, made, queue, halted, worker, dpc, stopping, randomx>>
      /\ fjob' = NoSeed /\ NoSeed \in JobSeeds /\ fjob \in JobSeeds
  BY DEF AcceptVersion, Types, ControlTypes, JobSeeds
<1>2. CASE reg = 0
  <2>1. ControlTypes' /\ UNCHANGED jobs
    BY <1>1, <1>2 DEF AcceptVersion, Types, ControlTypes
  <2> QED
    BY <1>1, <2>1, PartsLeft DEF Types, session, worker
<1>3. CASE reg # 0
  <2>1. jobs' = [jobs EXCEPT ![reg] = Append(@, fjob)] /\ reg \in Sessions
    BY <1>3, BoundsAssumption DEF AcceptVersion, Types, SessionTypes, Sessions
  <2>2. SessionTypes'
    <3>1. jobs[reg] \in Seq(JobSeeds)
      BY <2>1 DEF Types, SessionTypes
    <3>2. Append(jobs[reg], fjob) \in Seq(JobSeeds)
      BY <1>1, <3>1, AppendProperties
    <3> QED
      BY <1>1, <2>1, <3>2 DEF Types, SessionTypes
  <2>3. ControlTypes'
    BY <1>1, <1>3 DEF AcceptVersion, Types, ControlTypes, SessionTypes
  <2>4. ASSUME NEW g \in Sessions PROVE QueueTypes(g)' /\ JobTypes(g)'
    <3>1. /\ Version(g) \in Nat /\ Version(g)' \in Nat /\ Version(g) <= Version(g)'
          /\ \A v \in 1..Version(g) : jobs'[g][v] = jobs[g][v]
      <4>1. SessionTypes
        BY DEF Types
      <4> QED
        BY <1>1, <2>1, <4>1, JobsKept
    <3>2. QueueTypes(g)'
      <4>1. 0..Version(g) \subseteq 0..Version(g)'
        BY <3>1
      <4>2. Range(queue[g]) \subseteq 0..Version(g)' /\ Len(queue[g]) <= QueueSize
        BY <4>1 DEF Types, QueueTypes
      <4> QED
        BY <1>1, <4>2 DEF QueueTypes
    <3>3. wver[g] \in 0..Version(g)'
      BY <3>1 DEF Types, JobTypes
    <3>4. wver[g] # 0 => JobSeed(g)' = JobSeed(g)
      <4>1. wver[g] # 0 => wver[g] \in 1..Version(g)
        BY <3>1 DEF Types, JobTypes
      <4> QED
        BY <1>1, <3>1, <4>1 DEF JobSeed, worker
    <3>5. JobTypes(g)'
      BY <1>1, <3>3, <3>4 DEF Types, JobTypes, HasJob, worker
    <3> QED
      BY <3>2, <3>5
  <2> QED
    BY <1>1, <2>2, <2>3, <2>4, PartsLeft DEF Types, worker
<1> QED
  BY <1>2, <1>3

\* A queue that gets a version or the end mark, as long as it has room, or
\* loses its first element, keeps its types.
LEMMA QueueChanges ==
  ASSUME Types, UNCHANGED jobs, NEW h \in Sessions, NEW q,
         queue' = [queue EXCEPT ![h] = q],
         \/ q = queue[h]
         \/ queue[h] # <<>> /\ q = Tail(queue[h])
         \/ /\ Len(queue[h]) < QueueSize
            /\ \E v \in 0..Version(h) : q = Append(queue[h], v)
  PROVE  /\ queue' \in [Sessions -> Seq(Nat)]
         /\ \A g \in Sessions : QueueTypes(g)'
<1>1. /\ queue \in [Sessions -> Seq(Nat)] /\ queue[h] \in Seq(Nat)
      /\ jobs \in [Sessions -> Seq(JobSeeds)]
  BY DEF Types, SessionTypes
<1>2. Version(h) \in Nat
  BY <1>1 DEF Version
<1>3. /\ q \in Seq(Nat) /\ Len(q) <= QueueSize /\ Range(q) \subseteq 0..Version(h)
  <2>1. Len(queue[h]) <= QueueSize /\ Range(queue[h]) \subseteq 0..Version(h)
    BY DEF Types, QueueTypes
  <2>2. CASE q = queue[h]
    BY <1>1, <2>1, <2>2
  <2>3. CASE queue[h] # <<>> /\ q = Tail(queue[h])
    <3>1. /\ q \in Seq(Nat) /\ Len(queue[h]) \in Nat /\ Len(q) = Len(queue[h]) - 1
          /\ Range(q) \subseteq Range(queue[h])
      BY <1>1, <2>3, QueueShorter
    <3> QED
      BY <2>1, <3>1, BoundsAssumption
  <2>4. CASE /\ Len(queue[h]) < QueueSize
             /\ \E v \in 0..Version(h) : q = Append(queue[h], v)
    <3>1. PICK v \in 0..Version(h) : q = Append(queue[h], v)
      BY <2>4
    <3>2. v \in Nat
      BY <1>2
    <3>3. /\ q \in Seq(Nat) /\ Len(queue[h]) \in Nat /\ Len(q) = Len(queue[h]) + 1
          /\ Range(q) = Range(queue[h]) \cup {v}
      BY <1>1, <3>1, <3>2, QueueLonger
    <3> QED
      BY <2>1, <2>4, <3>1, <3>3, BoundsAssumption
  <2> QED
    BY <2>2, <2>3, <2>4
<1>4. \A g \in Sessions : queue'[g] = IF g = h THEN q ELSE queue[g]
  BY <1>1
<1>5. ASSUME NEW g \in Sessions PROVE QueueTypes(g)'
  <2>1. Version(g)' = Version(g)
    BY DEF Version
  <2>2. CASE g = h
    BY <1>3, <1>4, <2>1, <2>2 DEF QueueTypes
  <2>3. CASE g # h
    BY <1>4, <2>1, <2>3 DEF Types, QueueTypes
  <2> QED
    BY <2>2, <2>3
<1> QED
  BY <1>1, <1>3, <1>5

\* The same for a thread that may have got no queue.
LEMMA QueueChangesAt ==
  ASSUME Types, UNCHANGED <<jobs, reg, made, halted>>, NEW h, NEW q,
         queue' = [queue EXCEPT ![h] = q],
         h \in Sessions =>
           \/ q = queue[h]
           \/ queue[h] # <<>> /\ q = Tail(queue[h])
           \/ /\ Len(queue[h]) < QueueSize
              /\ \E v \in 0..Version(h) : q = Append(queue[h], v)
  PROVE  SessionTypes' /\ \A g \in Sessions : QueueTypes(g)'
<1>1. CASE h \in Sessions
  BY <1>1, QueueChanges DEF Types, SessionTypes
<1>2. CASE h \notin Sessions
  <2>1. queue' = queue
    BY <1>2 DEF Types, SessionTypes
  <2> QED
    BY <2>1, PartsLeft DEF session
<1> QED
  BY <1>1, <1>2

\* A version is one of the numbers a queue may hold.
LEMMA VersionFits ==
  ASSUME Types, NEW g \in Sessions
  PROVE  Version(g) \in 0..Version(g) /\ EndMark \in 0..Version(g)
<1>1. Version(g) \in Nat
  BY DEF Types, SessionTypes, Version
<1> QED
  BY <1>1 DEF EndMark

\* The job is put into the queue, past an eviction where it is full.
LEMMA AcceptPutTypes ==
  ASSUME Types, AcceptPut \/ AcceptEvicts \/ AcceptPutAgain
  PROVE  Types'
<1> DEFINE h == dreg[Feeder]
<1>1. /\ UNCHANGED <<reg, made, jobs, halted, worker, fjob, dpc, stopping, randomx>>
  BY DEF AcceptPut, AcceptEvicts, AcceptPutAgain, ending
<1>2. ControlTypes'
  BY DEF AcceptPut, AcceptEvicts, AcceptPutAgain, ending, Types, ControlTypes, SessionTypes
<1>3. \E q : /\ queue' = [queue EXCEPT ![h] = q]
             /\ h \in Sessions =>
                  \/ q = queue[h]
                  \/ queue[h] # <<>> /\ q = Tail(queue[h])
                  \/ /\ Len(queue[h]) < QueueSize
                     /\ \E v \in 0..Version(h) : q = Append(queue[h], v)
  <2>1. CASE AcceptPut
    <3>1. CASE Len(queue[h]) < QueueSize
      BY <2>1, <3>1, VersionFits DEF AcceptPut
    <3>2. CASE ~(Len(queue[h]) < QueueSize)
      <4>1. queue' = [queue EXCEPT ![h] = queue[h]]
        BY <2>1, <3>2 DEF AcceptPut, Types, SessionTypes
      <4> QED
        BY <4>1
    <3> QED
      BY <3>1, <3>2
  <2>2. CASE AcceptEvicts
    <3>1. queue' = [queue EXCEPT ![h] =
                      IF queue[h] = <<>> THEN queue[h] ELSE Tail(queue[h])]
      BY <2>2 DEF AcceptEvicts
    <3> QED
      BY <3>1
  <2>3. CASE AcceptPutAgain
    <3>1. queue' = [queue EXCEPT ![h] =
                      IF Len(queue[h]) < QueueSize
                        THEN Append(queue[h], Version(h)) ELSE queue[h]]
      BY <2>3 DEF AcceptPutAgain
    <3> QED
      BY <3>1, VersionFits
  <2> QED
    BY <2>1, <2>2, <2>3
<1> HIDE DEF h
<1>4. SessionTypes' /\ \A g \in Sessions : QueueTypes(g)'
  BY <1>1, <1>3, QueueChangesAt
<1> QED
  BY <1>1, <1>2, <1>4, PartsLeft DEF Types, worker

\* Connections and stop() come and go; deregister_session.
LEMMA EndingTypes ==
  ASSUME Types, NEW e \in Enders,
         \/ Connect \/ Disconnect \/ Stop \/ StopFindsNone \/ FeederEnds
         \/ DeregHalts(e) \/ DeregPops(e)
  PROVE  Types'
<1>1. /\ UNCHANGED <<made, jobs, queue, worker, randomx>>
      /\ SessionTypes' /\ ControlTypes'
  <2>1. CASE Connect \/ Disconnect \/ Stop \/ StopFindsNone \/ FeederEnds
    BY <2>1 DEF Connect, Disconnect, Stop, StopFindsNone, FeederEnds, session, ending, feeder,
                Types, SessionTypes, ControlTypes
  <2>2. CASE DeregHalts(e)
    BY <2>2 DEF DeregHalts, feeder, Types, SessionTypes, ControlTypes
  <2>3. CASE DeregPops(e)
    <3>1. 0 \in 0..made /\ reg' = 0
      BY <2>3, BoundsAssumption DEF DeregPops, Types, SessionTypes
    <3> QED
      BY <2>3, <3>1 DEF DeregPops, Types, SessionTypes, ControlTypes
  <2> QED
    BY <2>1, <2>2, <2>3
<1> QED
  BY <1>1, PartsLeft DEF Types, worker

\* The end mark.
LEMMA DeregMarksTypes ==
  ASSUME Types, NEW e \in Enders, DeregMarks(e)
  PROVE  Types'
<1> DEFINE h == dreg[e]
<1>1. UNCHANGED <<reg, made, jobs, halted, worker, feeder, dreg, stopping, randomx>>
  BY DEF DeregMarks
<1>2. ControlTypes'
  BY DEF DeregMarks, feeder, Types, ControlTypes
<1>3. \E q : /\ queue' = [queue EXCEPT ![h] = q]
             /\ h \in Sessions =>
                  \/ q = queue[h]
                  \/ queue[h] # <<>> /\ q = Tail(queue[h])
                  \/ /\ Len(queue[h]) < QueueSize
                     /\ \E v \in 0..Version(h) : q = Append(queue[h], v)
  <2>1. CASE h # 0 /\ Len(queue[h]) < QueueSize
    BY <2>1, VersionFits DEF DeregMarks
  <2>2. CASE ~(h # 0 /\ Len(queue[h]) < QueueSize)
    <3>1. queue' = [queue EXCEPT ![h] = queue[h]]
      BY <2>2 DEF DeregMarks, Types, SessionTypes
    <3> QED
      BY <3>1
  <2> QED
    BY <2>1, <2>2
<1> HIDE DEF h
<1>4. SessionTypes' /\ \A g \in Sessions : QueueTypes(g)'
  BY <1>1, <1>3, QueueChangesAt
<1> QED
  BY <1>1, <1>2, <1>4, PartsLeft DEF Types, worker

\* A worker's step away from the queue keeps the types, if it keeps those of
\* its own variables.
LEMMA WorkerLeaves ==
  ASSUME Types, UNCHANGED <<reg, made, jobs, halted, feeder, ending>>,
         SessionTypes', DataTypes', WorkerTypes',
         \A g \in Sessions : QueueTypes(g)',
         NEW g \in Sessions,
         \A h \in Sessions \ {g} : wpc'[h] = wpc[h] /\ wver'[h] = wver[h],
         \/ wver'[g] = 0 /\ wpc'[g] \in {"get", "end"}
         \/ wver'[g] = wver[g] /\ HasJob(g)
         \/ wver'[g] = wver[g] /\ wpc'[g] = "get"
         \/ wver'[g] \in 1..Version(g) /\ jobs[g][wver'[g]] # NoSeed
  PROVE  Types'
<1>1. ControlTypes'
  BY PartsLeft DEF feeder, ending
<1>2. ASSUME NEW h \in Sessions PROVE JobTypes(h)'
  <2>1. Version(h)' = Version(h) /\ Version(h) \in Nat
    BY DEF Version, Types, SessionTypes
  <2>2. JobSeed(h)' = jobs[h][wver'[h]]
    BY DEF JobSeed
  <2>3. wver[h] \in 0..Version(h) /\ (HasJob(h) => wver[h] # 0 /\ JobSeed(h) # NoSeed)
    BY DEF Types, JobTypes
  <2>4. CASE h # g
    BY <2>1, <2>2, <2>3, <2>4 DEF JobTypes, HasJob, JobSeed
  <2>5. CASE h = g /\ wver'[g] = 0 /\ wpc'[g] \in {"get", "end"}
    BY <2>1, <2>5 DEF JobTypes, HasJob
  <2>6. CASE h = g /\ wver'[g] = wver[g] /\ (HasJob(g) \/ wpc'[g] = "get")
    BY <2>1, <2>2, <2>3, <2>6 DEF JobTypes, HasJob, JobSeed
  <2>7. CASE h = g /\ wver'[g] \in 1..Version(g) /\ jobs[g][wver'[g]] # NoSeed
    BY <2>1, <2>2, <2>7 DEF JobTypes
  <2> QED
    BY <2>4, <2>5, <2>6, <2>7
<1> QED
  BY <1>1, <1>2 DEF Types

\* A worker without a VM.
LEMMA NoVMFits == DataTypes => NoVM \in [data : 0..built, seed : AllSeeds]
<1> SUFFICES ASSUME DataTypes PROVE NoVM \in [data : 0..built, seed : AllSeeds]
  OBVIOUS
<1>1. 0 \in 0..built
  BY BoundsAssumption DEF DataTypes
<1> QED
  BY <1>1 DEF NoVM, AllSeeds

\* q.get().
LEMMA WorkerGetsTypes ==
  ASSUME Types, NEW g \in Sessions, WorkerGets(g)
  PROVE  Types'
<1> DEFINE v == Head(queue[g])
<1>1. /\ UNCHANGED <<reg, made, jobs, halted, feeder, ending, randomx>>
      /\ queue[g] # <<>> /\ queue' = [queue EXCEPT ![g] = Tail(queue[g])]
      /\ wpc[g] = "get" /\ queue[g] \in Seq(Nat)
  BY DEF WorkerGets, Types, SessionTypes
<1>2. SessionTypes' /\ \A h \in Sessions : QueueTypes(h)'
  BY <1>1, QueueChangesAt
<1>3. v \in 0..Version(g) /\ v \in Nat /\ Version(g) \in Nat
  <2>1. v \in Range(queue[g]) /\ v \in Nat
    BY <1>1, QueueShorter
  <2> QED
    BY <2>1 DEF Types, QueueTypes, SessionTypes, Version
<1>4. \/ wpc' = [wpc EXCEPT ![g] = "end"] /\ wver' = [wver EXCEPT ![g] = 0]
         /\ late' = [late EXCEPT ![g] = InTime] /\ vm' = [vm EXCEPT ![g] = NoVM]
      \/ UNCHANGED worker
      \/ /\ wpc' = [wpc EXCEPT ![g] = "seed"] /\ wver' = [wver EXCEPT ![g] = v]
         /\ UNCHANGED <<vm, late>> /\ v # 0 /\ jobs[g][v] # NoSeed
  BY DEF WorkerGets, Ends, Leaves, Goes, EndMark
<1>5. WorkerTypes'
  BY <1>3, <1>4, SMTT(30) DEF Types, WorkerTypes, InTime, worker
<1>6. DataTypes'
  BY <1>1, <1>4, NoVMFits DEF Types, DataTypes, worker, randomx
<1>7. CASE UNCHANGED worker
  BY <1>1, <1>2, <1>5, <1>6, <1>7, PartsLeft DEF Types, worker, feeder, ending
<1>8. CASE ~UNCHANGED worker
  <2>1. \/ wver'[g] = 0 /\ wpc'[g] \in {"get", "end"}
        \/ wver'[g] = v /\ v # 0 /\ jobs[g][v] # NoSeed
    BY <1>4, <1>8 DEF Types, WorkerTypes
  <2>2. \A h \in Sessions \ {g} : wpc'[h] = wpc[h] /\ wver'[h] = wver[h]
    BY <1>4 DEF Types, WorkerTypes, worker
  <2> HIDE DEF v
  <2>3. v # 0 => v \in 1..Version(g)
    BY <1>3
  <2> QED
    BY <1>1, <1>2, <1>5, <1>6, <2>1, <2>2, <2>3, WorkerLeaves
<1> QED
  BY <1>7, <1>8

\* The worker's way from a job to its hashes.
WorkerGoesOn(g) ==
  \/ WorkerSeedReady(g) \/ WorkerEnsures(g) \/ WorkerKeepsVM(g)
  \/ WorkerCreatesVM(g) \/ WorkerNamesVM(g) \/ WorkerTop(g) \/ WorkerTests(g)
  \/ WorkerHashes(g)

LEMMA WorkerGoesOnTypes ==
  ASSUME Types, NEW g \in Sessions, WorkerGoesOn(g)
  PROVE  Types'
<1>1. HasJob(g)
  BY DEF WorkerGoesOn, WorkerSeedReady, WorkerEnsures, WorkerKeepsVM, WorkerCreatesVM,
         WorkerNamesVM, WorkerTop, WorkerTests, WorkerHashes, HasJob
<1>2. JobSeed(g) \in AllSeeds /\ g \in Miners
  <2>1. /\ Version(g) \in Nat /\ wver[g] \in 1..Version(g) /\ jobs[g] \in Seq(JobSeeds)
        /\ Version(g) = Len(jobs[g])
    BY <1>1 DEF Types, JobTypes, SessionTypes, Version
  <2>2. jobs[g][wver[g]] \in JobSeeds
    BY <2>1, ElementOfSeq
  <2> QED
    BY <2>2 DEF JobSeed, AllSeeds, JobSeeds, Miners
<1>3. UNCHANGED <<session, feeder, ending>>
  BY DEF WorkerGoesOn, WorkerSeedReady, WorkerEnsures, WorkerKeepsVM, WorkerCreatesVM,
         WorkerNamesVM, WorkerTop, WorkerTests, WorkerHashes
<1>4. /\ wpc' \in [Sessions -> {"none", "get", "seed", "vm", "named", "top", "version",
                               "hash", "end"}]
      /\ \A h \in Sessions \ {g} : wpc'[h] = wpc[h]
      /\ \/ UNCHANGED wver
         \/ wver' = [wver EXCEPT ![g] = 0] /\ wpc'[g] \in {"get", "end"}
      /\ \/ UNCHANGED late
         \/ late' = [late EXCEPT ![g] = InTime]
         \/ late' = [late EXCEPT ![g].stopped = @ + 1]
         \/ late' = [late EXCEPT ![g].newer = @ + 1]
  <2>1. wpc \in [Sessions -> {"none", "get", "seed", "vm", "named", "top", "version",
                             "hash", "end"}]
    BY DEF Types, WorkerTypes
  <2>2. CASE WorkerSeedReady(g) \/ WorkerKeepsVM(g) \/ WorkerNamesVM(g)
    BY <2>1, <2>2 DEF WorkerSeedReady, WorkerKeepsVM, WorkerNamesVM, Goes
  <2>3. CASE WorkerEnsures(g) \/ WorkerCreatesVM(g)
    BY <2>1, <2>3 DEF WorkerEnsures, WorkerCreatesVM, Goes, Ends, Leaves, worker
  <2>4. CASE WorkerTop(g) \/ WorkerTests(g)
    BY <2>1, <2>4 DEF WorkerTop, WorkerTests, Goes, Leaves
  <2>5. CASE WorkerHashes(g)
    BY <2>1, <2>5 DEF WorkerHashes, Goes
  <2> QED
    BY <2>2, <2>3, <2>4, <2>5 DEF WorkerGoesOn
<1>5. WorkerTypes'
  <2>1. wver' \in [Sessions -> Nat]
    BY <1>4 DEF Types, WorkerTypes
  <2>2. late \in [Sessions -> [newer : Nat, stopped : Nat]]
    BY DEF Types, WorkerTypes
  <2>3. late' \in [Sessions -> [newer : Nat, stopped : Nat]]
    BY <1>4, <2>2 DEF InTime
  <2> QED
    BY <1>4, <2>1, <2>3 DEF WorkerTypes
<1>6. DataTypes'
  <2>1. CASE WorkerEnsures(g)
    <3>1. \/ UNCHANGED vm
          \/ EnsureFails(g) /\ vm' = [vm EXCEPT ![g] = NoVM]
      BY <2>1 DEF WorkerEnsures, Ends, worker
    <3>2. CASE UNCHANGED vm
      BY <1>2, <2>1, <3>2, DataStep DEF WorkerEnsures, Types
    <3>3. CASE EnsureFails(g) /\ vm' = [vm EXCEPT ![g] = NoVM]
      BY <3>3, NoVMFits DEF EnsureFails, Types, DataTypes
    <3> QED
      BY <3>1, <3>2, <3>3
  <2>2. CASE WorkerCreatesVM(g)
    <3>1. UNCHANGED randomx /\ vm' \in {[vm EXCEPT ![g] = NoVM], [vm EXCEPT ![g].data = data]}
      BY <2>2 DEF WorkerCreatesVM, Ends
    <3> QED
      BY <3>1, NoVMFits DEF randomx, Types, DataTypes
  <2>3. CASE WorkerNamesVM(g)
    BY <2>3 DEF WorkerNamesVM, randomx, Types, DataTypes
  <2>4. CASE UNCHANGED <<randomx, vm>>
    BY <2>4, PartsLeft
  <2> QED
    BY <2>1, <2>2, <2>3, <2>4
       DEF WorkerGoesOn, WorkerSeedReady, WorkerKeepsVM, WorkerTop, WorkerTests, WorkerHashes
<1>7. /\ SessionTypes' /\ \A h \in Sessions : QueueTypes(h)'
      /\ UNCHANGED <<reg, made, jobs, halted>>
  BY <1>3, PartsLeft DEF session
<1>8. \A h \in Sessions \ {g} : wver'[h] = wver[h]
  BY <1>4 DEF Types, WorkerTypes
<1>9. \/ wver'[g] = 0 /\ wpc'[g] \in {"get", "end"}
      \/ wver'[g] = wver[g] /\ HasJob(g)
  BY <1>1, <1>4 DEF Types, WorkerTypes
<1> QED
  BY <1>3, <1>4, <1>5, <1>6, <1>7, <1>8, <1>9, WorkerLeaves

\* Every step keeps the types.
LEMMA TypesStep == Types /\ [Next]_vars => Types'
<1> SUFFICES ASSUME Types, [Next]_vars PROVE Types'
  OBVIOUS
<1>1. CASE Connected
  <2>1. fjob' \in JobSeeds
    BY <1>1 DEF Connected, Types, ControlTypes
  <2> QED
    BY <1>1, <2>1, RegisterTypes DEF Connected
<1>2. ASSUME NEW s \in Seeds \cup {NoSeed}, Receive(s) PROVE Types'
  BY <1>2, RegisterTypes DEF Receive, JobSeeds
<1>3. CASE Connect \/ Disconnect \/ Stop \/ StopFindsNone
  BY <1>3, EndingTypes DEF Enders
<1>4. CASE FeederGoesOn
  BY <1>4, FeederStartsTypes, AcceptVersionTypes, AcceptPutTypes, EndingTypes
     DEF FeederGoesOn, Enders
<1>5. ASSUME NEW e \in Enders, Dereg(e) PROVE Types'
  BY <1>5, EndingTypes, DeregMarksTypes DEF Dereg
<1>6. ASSUME NEW g \in Sessions, Worker(g) PROVE Types'
  BY <1>6, WorkerGetsTypes, WorkerGoesOnTypes DEF Worker, WorkerGoesOn
<1>7. ASSUME NEW s \in OtherSeeds, OtherSession(s) PROVE Types'
  <2>1. Others \in Miners /\ s \in AllSeeds
    BY DEF Miners, AllSeeds
  <2>2. DataTypes'
    <3>1. CASE OthersFail
      <4>1. built' = built + 1 /\ built' \in 0..MaxBuilds /\ 0..built \subseteq 0..built'
        BY <3>1, BoundsAssumption DEF OthersFail, Types, DataTypes
      <4>2. vm' \in [Sessions -> [data : 0..built', seed : AllSeeds]] /\ data' \in 0..built'
        BY <1>7, <3>1, <4>1 DEF OtherSession, OthersFail, worker, Types, DataTypes
      <4> QED
        BY <3>1, <4>1, <4>2 DEF OthersFail, Types, DataTypes
    <3>2. CASE ~OthersFail
      BY <1>7, <2>1, <3>2, DataStep DEF OtherSession, Types, worker
    <3> QED
      BY <3>1, <3>2
  <2> QED
    BY <1>7, <2>2, PartsLeft DEF OtherSession, Types, session, worker, feeder, ending
<1>8. CASE UNCHANGED vars
  BY <1>8, PartsLeft DEF Types, vars, session, worker, feeder, ending
<1> QED
  BY <1>1, <1>2, <1>3, <1>4, <1>5, <1>6, <1>7, <1>8 DEF Next

----------------------------------------------------------------------------
(* Ending a session *)

\* Neither the sessions table nor its enders take part.
LEMMA NobodyEnds ==
  ASSUME Types, Removal, Ending, UNCHANGED <<reg, made, halted, dpc, stopping>>,
         fpc \in {"ending", "ended"} => fpc' = fpc
  PROVE  Removal' /\ Ending'
<1>1. dpc[Stopper] \in {"idle", "halt", "mark", "join"}
  BY DEF Types, ControlTypes, Enders
<1>2. Removal'
  BY DEF Removal, Past
<1>3. Ending'
  BY DEF Ending, Past
<1> QED
  BY <1>2, <1>3

\* A session is registered only while nobody is about to remove one.
LEMMA RegisterEnding ==
  ASSUME Types, Removal, Ending, NEW next \in {"read", "seed"}, Register(next),
         fpc \in {"opening", "read"}, UNCHANGED <<dpc, stopping>>
  PROVE  Removal' /\ Ending'
<1>1. CASE reg # 0
  <2>1. UNCHANGED <<reg, made, halted>>
    BY <1>1 DEF Register, session
  <2> QED
    BY <2>1, NobodyEnds
<1>2. CASE reg = 0
  <2>1. /\ made' = made + 1 /\ reg' = made + 1 /\ halted' = halted
        /\ fpc' \in {"startRead", "startJob"} /\ made \in Nat
    BY <1>2, BoundsAssumption DEF Register, Types, SessionTypes
  <2>2. \A e \in Enders : ~Past(e)
    BY <1>2 DEF Ending, Past, Enders
  <2>3. \A g \in Sessions : g <= made' /\ g # reg' => g <= made /\ g # reg
    BY <1>2, <2>1 DEF Sessions
  <2>4. Removal'
    BY <2>1, <2>2, <2>3 DEF Removal, Past
  <2>5. Ending'
    BY <2>1, <2>2 DEF Ending, Past, Enders
  <2> QED
    BY <2>4, <2>5
<1> QED
  BY <1>1, <1>2

\* stop() and deregister_session.
LEMMA EndersEnd ==
  ASSUME Types, Removal, Ending, NEW e \in Enders,
         Stop \/ StopFindsNone \/ DeregHalts(e) \/ DeregMarks(e) \/ DeregPops(e)
  PROVE  Removal' /\ Ending'
<1>1. /\ dpc \in [Enders -> {"idle", "halt", "mark", "join"}] /\ Enders = {Feeder, Stopper}
      /\ Feeder # Stopper /\ halted \in [Sessions -> BOOLEAN]
      /\ reg \in 0..made /\ made \in 0..MaxSessions /\ MaxSessions \in Nat
  BY ThreadsAssumption, BoundsAssumption
     DEF Types, ControlTypes, SessionTypes, Enders
<1>2. reg = 0 \/ reg \in Sessions
  BY <1>1 DEF Sessions
<1>3. CASE Stop
  <2>1. /\ UNCHANGED <<reg, made, halted, fpc>> /\ stopping' /\ ~stopping
        /\ dpc' = [dpc EXCEPT ![Stopper] = "halt"]
    BY <1>3 DEF Stop, session, feeder
  <2> QED
    BY <1>1, <2>1 DEF Removal, Ending, Past
<1>4. CASE StopFindsNone
  <2>1. /\ UNCHANGED <<reg, made, halted, fpc, stopping>>
        /\ dpc' = [dpc EXCEPT ![Stopper] = "idle"]
    BY <1>4 DEF StopFindsNone, session, feeder
  <2> QED
    BY <1>1, <2>1 DEF Removal, Ending, Past
<1>5. CASE DeregHalts(e)
  <2>1. /\ UNCHANGED <<reg, made, fpc, stopping>>
        /\ dpc' = [dpc EXCEPT ![e] = "mark"]
        /\ halted' = [g \in Sessions |-> halted[g] \/ g = reg]
        /\ IF e = Feeder THEN fpc = "ending" ELSE dpc[e] = "halt" /\ reg # 0
    BY <1>5 DEF DeregHalts, feeder
  <2>2. Removal'
    BY <1>1, <1>2, <2>1 DEF Removal, Past
  <2>3. Ending'
    BY <1>1, <2>1 DEF Ending, Past
  <2> QED
    BY <2>2, <2>3
<1>6. CASE DeregMarks(e)
  <2>1. /\ UNCHANGED <<reg, made, halted, fpc, stopping>> /\ dpc[e] = "mark"
        /\ dpc' = [dpc EXCEPT ![e] = "join"]
    BY <1>6 DEF DeregMarks, feeder
  <2> QED
    BY <1>1, <2>1 DEF Removal, Ending, Past
<1>7. CASE DeregPops(e)
  <2>1. /\ UNCHANGED <<made, halted, stopping>> /\ reg' = 0 /\ dpc[e] = "join"
        /\ dpc' = [dpc EXCEPT ![e] = "idle"]
        /\ IF e = Feeder THEN fpc' = IF stopping THEN "ended" ELSE "off" ELSE fpc' = fpc
    BY <1>7 DEF DeregPops
  <2>2. Removal'
    BY <1>1, <1>2, <2>1 DEF Removal, Past
  <2>3. Ending'
    BY <1>1, <2>1 DEF Ending, Past
  <2> QED
    BY <2>2, <2>3
<1> QED
  BY <1>3, <1>4, <1>5, <1>6, <1>7

\* Every step keeps what is known of sessions that end.
LEMMA EndingStep == Types /\ Removal /\ Ending /\ [Next]_vars => Removal' /\ Ending'
<1> SUFFICES ASSUME Types, Removal, Ending, [Next]_vars PROVE Removal' /\ Ending'
  OBVIOUS
<1>1. CASE Connected
  BY <1>1, RegisterEnding DEF Connected, ending
<1>2. ASSUME NEW s \in Seeds \cup {NoSeed}, Receive(s) PROVE Removal' /\ Ending'
  BY <1>2, RegisterEnding DEF Receive, ending
<1>3. CASE Connect \/ Disconnect \/ FeederGoesOn
  BY <1>3, NobodyEnds
     DEF Connect, Disconnect, FeederGoesOn, StartWorker, AcceptSeedReady, AcceptEnsures,
         AcceptVersion, AcceptPut, AcceptEvicts, AcceptPutAgain, FeederEnds, session, ending
<1>4. CASE Stop \/ StopFindsNone
  BY <1>4, EndersEnd DEF Enders
<1>5. ASSUME NEW e \in Enders, Dereg(e) PROVE Removal' /\ Ending'
  BY <1>5, EndersEnd DEF Dereg
<1>6. ASSUME NEW g \in Sessions, Worker(g) PROVE Removal' /\ Ending'
  <2>1. UNCHANGED <<reg, made, halted, dpc, stopping, fpc>>
    BY <1>6 DEF Worker, WorkerGets, WorkerSeedReady, WorkerEnsures, WorkerKeepsVM,
                WorkerCreatesVM, WorkerNamesVM, WorkerTop, WorkerTests, WorkerHashes,
                session, feeder, ending
  <2> QED
    BY <2>1, NobodyEnds
<1>7. ASSUME NEW s \in OtherSeeds, OtherSession(s) PROVE Removal' /\ Ending'
  BY <1>7, NobodyEnds DEF OtherSession, session, feeder, ending
<1>8. CASE UNCHANGED vars
  BY <1>8, NobodyEnds DEF vars, session, feeder, ending
<1> QED
  BY <1>1, <1>2, <1>3, <1>4, <1>5, <1>6, <1>7, <1>8 DEF Next

----------------------------------------------------------------------------
(* Threads *)

\* A worker that runs was started.
LEMMA WorkerWasStarted ==
  ASSUME Types, Threads, NEW g \in Sessions, Worker(g)
  PROVE  /\ wpc[g] # "none" /\ UNCHANGED <<made, fpc>>
         /\ \A h \in Sessions : h # g => wpc'[h] = wpc[h]
         /\ fpc \in {"startRead", "startJob"} => g # made
<1>1. wpc[g] # "none" /\ UNCHANGED <<made, fpc>>
  BY DEF Worker, WorkerGets, WorkerSeedReady, WorkerEnsures, WorkerKeepsVM, WorkerCreatesVM,
         WorkerNamesVM, WorkerTop, WorkerTests, WorkerHashes, session, feeder
<1>2. \A h \in Sessions : h # g => wpc'[h] = wpc[h]
  <2>1. wpc' = wpc \/ \E pc : wpc' = [wpc EXCEPT ![g] = pc]
    BY DEF Worker, WorkerGets, WorkerSeedReady, WorkerEnsures, WorkerKeepsVM,
           WorkerCreatesVM, WorkerNamesVM, WorkerTop, WorkerTests, WorkerHashes,
           Goes, Ends, Leaves, worker
  <2> QED
    BY <2>1 DEF Types, WorkerTypes
<1> QED
  BY <1>1, <1>2 DEF Threads

\* Every step keeps the threads where register_session put them.
LEMMA ThreadsStep == Types /\ Threads /\ [Next]_vars => Threads'
<1> SUFFICES ASSUME Types, Threads, [Next]_vars PROVE Threads'
  OBVIOUS
<1>1. /\ made \in 0..MaxSessions /\ MaxSessions \in Nat /\ Sessions = 1..MaxSessions
      /\ made \in Nat
  BY BoundsAssumption DEF Types, SessionTypes, Sessions
<1>2. ASSUME UNCHANGED <<made, wpc>>, fpc' = fpc \/ fpc' \notin {"startRead", "startJob"}
      PROVE  Threads'
  BY <1>2 DEF Threads
<1>3. ASSUME NEW next \in {"read", "seed"}, Register(next), UNCHANGED wpc PROVE Threads'
  <2>1. CASE reg # 0
    BY <1>2, <1>3, <2>1 DEF Register, session
  <2>2. CASE reg = 0
    <3>1. made' = made + 1 /\ made < MaxSessions
      BY <1>3, <2>2 DEF Register
    <3>2. /\ made' \in Sessions /\ made' > made /\ made' # 0
          /\ \A g \in Sessions : g > made' => g > made
      BY <1>1, <3>1
    <3> QED
      BY <1>3, <3>2 DEF Threads
  <2> QED
    BY <2>1, <2>2
<1>4. CASE Connected
  BY <1>3, <1>4 DEF Connected, worker
<1>5. ASSUME NEW s \in Seeds \cup {NoSeed}, Receive(s) PROVE Threads'
  BY <1>3, <1>5 DEF Receive, worker
<1>6. CASE StartWorker
  <2>1. /\ made' = made /\ fpc' \in {"read", "seed"}
        /\ \A g \in Sessions : g # made => wpc'[g] = wpc[g]
    BY <1>6 DEF StartWorker, session, Types, WorkerTypes
  <2>2. \A g \in Sessions : g > made => g # made
    BY <1>1
  <2> QED
    BY <2>1, <2>2 DEF Threads
<1>7. CASE Connect \/ Disconnect \/ AcceptSeedReady \/ AcceptEnsures \/ AcceptVersion
           \/ AcceptPut \/ AcceptEvicts \/ AcceptPutAgain \/ FeederEnds
  BY <1>2, <1>7
     DEF Connect, Disconnect, AcceptSeedReady, AcceptEnsures, AcceptVersion, AcceptPut, AcceptEvicts,
         AcceptPutAgain, FeederEnds, session, worker
<1>8. CASE Stop \/ StopFindsNone
  BY <1>2, <1>8 DEF Stop, StopFindsNone, session, worker, feeder
<1>9. ASSUME NEW e \in Enders, Dereg(e) PROVE Threads'
  BY <1>2, <1>9 DEF Dereg, DeregHalts, DeregMarks, DeregPops, worker, feeder
<1>10. ASSUME NEW g \in Sessions, Worker(g) PROVE Threads'
  <2>1. /\ wpc[g] # "none" /\ UNCHANGED <<made, fpc>>
        /\ \A h \in Sessions : h # g => wpc'[h] = wpc[h]
        /\ fpc \in {"startRead", "startJob"} => g # made
    BY <1>10, WorkerWasStarted
  <2>2. made # 0 => made \in Sessions
    BY <1>1
  <2> QED
    BY <2>1, <2>2 DEF Threads
<1>11. ASSUME NEW s \in OtherSeeds, OtherSession(s) PROVE Threads'
  BY <1>2, <1>11 DEF OtherSession, session, worker, feeder
<1>12. CASE UNCHANGED vars
  BY <1>2, <1>12 DEF vars, session, worker, feeder
<1> QED
  BY <1>4, <1>5, <1>6, <1>7, <1>8, <1>9, <1>10, <1>11, <1>12 DEF Next, FeederGoesOn

----------------------------------------------------------------------------
(* Late shares *)

\* A worker that stands still: its job only becomes older, and a stop stays.
LEMMA StandsStill ==
  ASSUME Types, NEW g \in Sessions, LateOK(g),
         wpc'[g] = wpc[g], wver'[g] = wver[g], late'[g] = late[g],
         halted[g] => halted'[g],
         \/ Version(g)' = Version(g)
         \/ Version(g)' = Version(g) + 1
  PROVE  LateOK(g)'
<1>1. Version(g) \in Nat /\ wver[g] \in Nat /\ wver[g] <= Version(g)
  BY DEF Types, JobTypes, SessionTypes, Version, WorkerTypes
<1>2. Version(g) # wver[g] => Version(g)' # wver'[g]
  BY <1>1
<1> QED
  BY <1>2 DEF LateOK

\* A worker without a job has no late share of it.
LEMMA NoJobNoLateShare ==
  ASSUME NEW g \in Sessions, late'[g] = InTime
  PROVE  LateOK(g)'
  BY DEF LateOK, InTime

\* Away from the loop there is none either.
LEMMA OutsideTheLoop ==
  ASSUME Types, NEW g \in Sessions, LateOK(g), wpc[g] \notin {"top", "version", "hash"}
  PROVE  late[g].newer = 0 /\ late[g].stopped = 0
<1>1. late[g].newer \in Nat /\ late[g].stopped \in Nat
  BY DEF Types, WorkerTypes
<1>2. late[g].newer # 1 /\ late[g].stopped # 1
  BY DEF LateOK
<1> QED
  BY <1>1, <1>2 DEF LateOK

\* The worker's own steps.
LEMMA WorkerLate ==
  ASSUME Inv, Types, NEW g \in Sessions, LateOK(g), Worker(g)
  PROVE  LateOK(g)'
<1>1. /\ UNCHANGED <<jobs, halted, reg>> /\ Version(g)' = Version(g)
      /\ late \in [Sessions -> [newer : Nat, stopped : Nat]]
      /\ wver \in [Sessions -> Nat] /\ Version(g) \in Nat
      /\ wpc \in [Sessions -> {"none", "get", "seed", "vm", "named", "top",
                               "version", "hash", "end"}]
  BY DEF Worker, WorkerGets, WorkerSeedReady, WorkerEnsures, WorkerKeepsVM, WorkerCreatesVM,
         WorkerNamesVM, WorkerTop, WorkerTests, WorkerHashes, session, Version,
         Types, WorkerTypes, SessionTypes
<1>2. late[g].newer \in Nat /\ late[g].stopped \in Nat
  BY <1>1
<1>3. CASE wpc[g] \notin {"top", "version", "hash"}
  <2>1. late'[g] = late[g] \/ late'[g] = InTime
    BY <1>1, <1>3 DEF Worker, WorkerGets, WorkerSeedReady, WorkerEnsures, WorkerKeepsVM,
       WorkerCreatesVM, WorkerNamesVM, WorkerTop, WorkerTests, WorkerHashes, Ends, Leaves,
       worker
  <2>2. late'[g].newer = 0 /\ late'[g].stopped = 0
    BY <1>3, <2>1, OutsideTheLoop DEF InTime
  <2> QED
    BY <2>2 DEF LateOK
<1>4. CASE WorkerTop(g)
  <2>1. CASE halted[g]
    BY <1>1, <1>4, <2>1, NoJobNoLateShare DEF WorkerTop, Leaves
  <2>2. CASE ~halted[g]
    <3>1. /\ wpc[g] = "top" /\ wpc'[g] = "version" /\ late' = late /\ wver' = wver
      BY <1>1, <1>4, <2>2 DEF WorkerTop, Goes
    <3> QED
      BY <1>1, <2>2, <3>1 DEF LateOK
  <2> QED
    BY <2>1, <2>2
<1>5. CASE WorkerTests(g)
  <2>1. CASE SeenVersion(g) # wver[g]
    BY <1>1, <1>5, <2>1, NoJobNoLateShare DEF WorkerTests, Leaves
  <2>2. CASE SeenVersion(g) = wver[g]
    <3>1. /\ wpc[g] = "version" /\ wpc'[g] = "hash" /\ late' = late /\ wver' = wver
      BY <1>1, <1>5, <2>2 DEF WorkerTests, Goes
    <3>2. Version(g) # wver[g] => g # reg
      BY <2>2, BoundsAssumption DEF SeenVersion, Sessions
    <3>3. ~(g > made)
      BY <3>1 DEF Inv, Threads
    <3>4. g # reg => halted[g]
      <4>1. g <= made
        BY <3>3, BoundsAssumption DEF Types, SessionTypes, Sessions
      <4> QED
        BY <4>1 DEF Inv, Removal
    <3> QED
      BY <1>1, <3>1, <3>2, <3>4 DEF LateOK
  <2> QED
    BY <2>1, <2>2
<1>6. CASE WorkerHashes(g)
  <2>1. /\ wpc[g] = "hash" /\ wpc'[g] = "top" /\ wver' = wver /\ late[g].stopped # 1
    BY <1>1, <1>6 DEF WorkerHashes, Goes, LateOK
  <2>2. late[g].stopped = 0
    BY <1>2, <2>1 DEF LateOK
  <2>3. CASE UNCHANGED late
    BY <1>1, <2>1, <2>2, <2>3 DEF LateOK
  <2>4. CASE halted[g] /\ late' = [late EXCEPT ![g].stopped = @ + 1]
    <3>1. late'[g].stopped = 1 /\ late'[g].newer = late[g].newer
      BY <1>1, <2>2, <2>4
    <3> QED
      BY <1>1, <2>1, <2>4, <3>1 DEF LateOK
  <2>5. CASE ~halted[g] /\ Version(g) # wver[g] /\ late' = [late EXCEPT ![g].newer = @ + 1]
    <3>1. late[g].newer = 0
      BY <1>2, <2>1, <2>5 DEF LateOK
    <3>2. late'[g].newer = 1 /\ late'[g].stopped = 0
      BY <1>1, <2>2, <2>5, <3>1
    <3> QED
      BY <1>1, <2>1, <2>5, <3>2 DEF LateOK
  <2> QED
    BY <1>6, <2>3, <2>4, <2>5 DEF WorkerHashes
<1> QED
  BY <1>3, <1>4, <1>5, <1>6
     DEF Worker, WorkerGets, WorkerSeedReady, WorkerEnsures, WorkerKeepsVM, WorkerCreatesVM,
         WorkerNamesVM, WorkerTop, WorkerTests, WorkerHashes

\* What a worker's step leaves of the others.
LEMMA OthersStand ==
  ASSUME Types, NEW g \in Sessions, Worker(g), NEW h \in Sessions, h # g
  PROVE  /\ wpc'[h] = wpc[h] /\ wver'[h] = wver[h] /\ late'[h] = late[h]
         /\ UNCHANGED <<jobs, halted>>
<1>1. UNCHANGED <<jobs, halted>>
  BY DEF Worker, WorkerGets, WorkerSeedReady, WorkerEnsures, WorkerKeepsVM, WorkerCreatesVM,
         WorkerNamesVM, WorkerTop, WorkerTests, WorkerHashes, session
<1>2. wpc' = wpc \/ \E pc : wpc' = [wpc EXCEPT ![g] = pc]
  BY DEF Worker, WorkerGets, WorkerSeedReady, WorkerEnsures, WorkerKeepsVM, WorkerCreatesVM,
         WorkerNamesVM, WorkerTop, WorkerTests, WorkerHashes, Goes, Ends, Leaves, worker
<1>3. wver' = wver \/ \E v : wver' = [wver EXCEPT ![g] = v]
  BY DEF Worker, WorkerGets, WorkerSeedReady, WorkerEnsures, WorkerKeepsVM, WorkerCreatesVM,
         WorkerNamesVM, WorkerTop, WorkerTests, WorkerHashes, Ends, Leaves, worker
<1>4. late' = late \/ \E r : late' = [late EXCEPT ![g] = r]
  <2>1. CASE WorkerHashes(g)
    <3>1. \/ late' = late
          \/ late' = [late EXCEPT ![g].stopped = @ + 1]
          \/ late' = [late EXCEPT ![g].newer = @ + 1]
      BY <2>1 DEF WorkerHashes
    <3>2. /\ [late EXCEPT ![g].stopped = @ + 1]
               = [late EXCEPT ![g] = [late[g] EXCEPT !.stopped = late[g].stopped + 1]]
          /\ [late EXCEPT ![g].newer = @ + 1]
               = [late EXCEPT ![g] = [late[g] EXCEPT !.newer = late[g].newer + 1]]
      OBVIOUS
    <3> QED
      BY <3>1, <3>2
  <2>2. CASE ~WorkerHashes(g)
    BY <2>2 DEF Worker, WorkerGets, WorkerSeedReady, WorkerEnsures, WorkerKeepsVM,
         WorkerCreatesVM, WorkerNamesVM, WorkerTop, WorkerTests, Ends, Leaves, worker
  <2> QED
    BY <2>1, <2>2
<1>5. wpc'[h] = wpc[h]
  BY <1>2 DEF Types, WorkerTypes
<1>6. wver'[h] = wver[h]
  BY <1>3 DEF Types, WorkerTypes
<1>7. late'[h] = late[h]
  BY <1>4 DEF Types, WorkerTypes
<1> QED
  BY <1>1, <1>5, <1>6, <1>7

\* Every step keeps each worker's late shares at one.
LEMMA LateStep == Inv /\ [Next]_vars => Lateness'
<1> SUFFICES ASSUME Inv, [Next]_vars, NEW g \in Sessions PROVE LateOK(g)'
  BY DEF Lateness
<1>1. Types /\ LateOK(g)
  BY TypesAreTypes DEF Inv, Lateness
<1>2. ASSUME UNCHANGED worker, halted[g] => halted'[g], UNCHANGED jobs PROVE LateOK(g)'
  <2>1. Version(g)' = Version(g)
    BY <1>2 DEF Version
  <2> QED
    BY <1>1, <1>2, <2>1, StandsStill DEF worker
<1>3. CASE Connect \/ Connected \/ Disconnect \/ Stop \/ StopFindsNone
  BY <1>2, <1>3 DEF Connect, Connected, Disconnect, Stop, StopFindsNone, Register, session
<1>4. ASSUME NEW s \in Seeds \cup {NoSeed}, Receive(s) PROVE LateOK(g)'
  BY <1>2, <1>4 DEF Receive, Register, session
<1>5. CASE AcceptSeedReady \/ AcceptEnsures \/ AcceptPut \/ AcceptEvicts \/ AcceptPutAgain
           \/ FeederEnds
  BY <1>2, <1>5
     DEF AcceptSeedReady, AcceptEnsures, AcceptPut, AcceptEvicts, AcceptPutAgain,
         FeederEnds, session
<1>6. CASE StartWorker
  <2>1. /\ UNCHANGED <<jobs, halted, wver, late>> /\ wpc[made] = "none"
        /\ g # made => wpc'[g] = wpc[g]
    BY <1>1, <1>6 DEF StartWorker, session, Inv, Threads, Types, WorkerTypes
  <2>2. Version(g)' = Version(g)
    BY <2>1 DEF Version
  <2>3. CASE g = made
    <3>1. late'[g].newer = 0 /\ late'[g].stopped = 0
      BY <1>1, <2>1, <2>3, OutsideTheLoop
    <3> QED
      BY <3>1 DEF LateOK
  <2>4. CASE g # made
    BY <1>1, <2>1, <2>2, <2>4, StandsStill
  <2> QED
    BY <2>3, <2>4
<1>7. CASE AcceptVersion
  <2>1. CASE UNCHANGED jobs
    BY <1>2, <1>7, <2>1 DEF AcceptVersion
  <2>2. CASE reg # 0
    <3>1. /\ jobs' = [jobs EXCEPT ![reg] = Append(@, fjob)] /\ reg \in Sessions
          /\ fjob \in JobSeeds /\ UNCHANGED <<worker, halted>> /\ SessionTypes
      BY <1>1, <1>7, <2>2, BoundsAssumption
         DEF AcceptVersion, Types, SessionTypes, ControlTypes, Sessions
    <3>2. Version(g)' = Version(g) \/ Version(g)' = Version(g) + 1
      BY <3>1, JobsKept
    <3> QED
      BY <1>1, <3>1, <3>2, StandsStill DEF worker
  <2> QED
    BY <1>7, <2>1, <2>2 DEF AcceptVersion
<1>8. ASSUME NEW e \in Enders, Dereg(e) PROVE LateOK(g)'
  <2>1. UNCHANGED <<worker, jobs>> /\ (halted[g] => halted'[g])
    BY <1>8 DEF Dereg, DeregHalts, DeregMarks, DeregPops
  <2> QED
    BY <1>2, <2>1
<1>9. ASSUME NEW h \in Sessions, Worker(h) PROVE LateOK(g)'
  <2>1. CASE h = g
    BY <1>1, <1>9, <2>1, WorkerLate
  <2>2. CASE h # g
    <3>1. /\ wpc'[g] = wpc[g] /\ wver'[g] = wver[g] /\ late'[g] = late[g]
          /\ UNCHANGED <<jobs, halted>>
      BY <1>1, <1>9, <2>2, OthersStand
    <3>2. Version(g)' = Version(g)
      BY <3>1 DEF Version
    <3> QED
      BY <1>1, <3>1, <3>2, StandsStill
  <2> QED
    BY <2>1, <2>2
<1>10. ASSUME NEW s \in OtherSeeds, OtherSession(s) PROVE LateOK(g)'
  BY <1>2, <1>10 DEF OtherSession, session
<1>11. CASE UNCHANGED vars
  BY <1>2, <1>11 DEF vars, session
<1> QED
  BY <1>3, <1>4, <1>5, <1>6, <1>7, <1>8, <1>9, <1>10, <1>11 DEF Next, FeederGoesOn

----------------------------------------------------------------------------

\* Every step keeps the invariant.
LEMMA InvStep == Inv /\ [Next]_vars => Inv'
<1> SUFFICES ASSUME Inv, [Next]_vars PROVE Inv'
  OBVIOUS
<1>1. Types /\ Removal /\ Ending /\ Threads
  BY TypesAreTypes DEF Inv
<1>2. Types'
  BY <1>1, TypesStep
<1>3. TypeOK' /\ Shapes'
  BY <1>2 DEF Types, TypeOK, Shapes, SessionTypes, WorkerTypes, ControlTypes, DataTypes,
              QueueTypes, JobTypes, HasJob, JobSeeds
<1>4. Removal' /\ Ending'
  BY <1>1, EndingStep
<1>5. Threads'
  BY <1>1, ThreadsStep
<1>6. Lateness'
  BY LateStep
<1> QED
  BY <1>3, <1>4, <1>5, <1>6 DEF Inv

\* The first state.
LEMMA InvInit == Init => Inv
<1> SUFFICES ASSUME Init PROVE Inv
  OBVIOUS
<1>1. SessionTypes /\ WorkerTypes
  BY BoundsAssumption DEF Init, SessionTypes, WorkerTypes, InTime
<1>2. ControlTypes /\ DataTypes
  <2>1. 0 \in 0..made /\ 0 \in 0..built /\ 0 \in 0..MaxBuilds
    BY BoundsAssumption DEF Init
  <2> QED
    BY <2>1 DEF Init, ControlTypes, DataTypes, NoVM, AllSeeds, JobSeeds
<1>3. ASSUME NEW g \in Sessions PROVE QueueTypes(g) /\ JobTypes(g)
  <2>1. Version(g) = 0 /\ queue[g] = <<>> /\ wver[g] = 0 /\ wpc[g] = "none"
    BY DEF Init, Version
  <2>2. Range(<<>>) = {} /\ Len(<<>>) = 0
    BY DEF Range
  <2> QED
    BY <2>1, <2>2, BoundsAssumption DEF QueueTypes, JobTypes, HasJob
<1>4. TypeOK /\ Shapes
  BY <1>1, <1>2, <1>3, TypesAreTypes DEF Types
<1>5. Removal /\ Ending /\ Threads
  <2>1. \A g \in Sessions : ~(g <= 0)
    BY BoundsAssumption DEF Sessions
  <2>2. \A e \in Enders : dpc[e] = "idle" /\ ~Past(e)
    BY DEF Init, Past
  <2>3. Feeder \in Enders /\ Stopper \in Enders
    BY DEF Enders
  <2>4. Removal
    BY <2>1, <2>2 DEF Init, Removal
  <2>5. Ending
    BY <2>2, <2>3 DEF Ending
  <2>6. Threads
    BY DEF Init, Threads
  <2> QED
    BY <2>4, <2>5, <2>6
<1>6. Lateness
  BY DEF Init, Lateness, LateOK, InTime
<1> QED
  BY <1>4, <1>5, <1>6 DEF Inv

\* The types and the late shares of the job engine (_share_worker,
\* _accept_job, register_session and deregister_session): however jobs,
\* disconnects and stop() interleave, a job queue stays within its maxsize,
\* and a job yields at most one share after a newer one came and one after
\* its session was told to stop.
THEOREM Correct == Spec => [](TypeOK /\ AtMostOneLateShare)
<1>1. Inv => TypeOK /\ AtMostOneLateShare
  BY DEF Inv, Lateness, LateOK, AtMostOneLateShare
<1> QED
  BY <1>1, InvInit, InvStep, PTL DEF Spec
=============================================================================
