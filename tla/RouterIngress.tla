--------------------------- MODULE RouterIngress ---------------------------
(***************************************************************************)
(* The ingress of one interface of the packet router                       *)
(* (server/p2pool_managers.py): capture threads and the packet bridge call *)
(* enqueue_ingress_packet, a worker thread takes the frames in batches and *)
(* calls process_packet, and stop_routing and start_routing end the worker *)
(* with _stop_ingress_workers.                                             *)
(*                                                                         *)
(* A state (queue, condition, stop event, thread) is made on demand, so a  *)
(* restart makes a new one: they are numbered.  What is done under the     *)
(* state's condition or under _ingress_lock is one action.                 *)
(***************************************************************************)
EXTENDS Naturals, SequencesExt

CONSTANTS Producers,     \* threads that call enqueue_ingress_packet
          Frames,        \* frames: [prio, size, flow, key], key "" for none
          MaxFrames,     \* _ingress_max_frames
          MaxBytes,      \* _ingress_max_bytes
          ReserveFrames, \* _ingress_priority_reserve_frames
          ReserveBytes,  \* _ingress_priority_reserve_bytes
          BatchSize,     \* _ingress_batch_size
          MaxCalls,      \* bound: calls that reach the queue
          MaxStates      \* bound: states made

ASSUME FramesAssumption ==
  \A f \in Frames : f.prio \in 1..3 /\ f.size \in Nat \ {0}
                    /\ (f.prio > 1 => f.key = "")
ASSUME BoundsAssumption ==
  /\ MaxFrames \in Nat \ {0} /\ MaxBytes \in Nat /\ BatchSize \in Nat \ {0}
  /\ ReserveFrames \in Nat /\ ReserveBytes \in Nat
  /\ MaxCalls \in Nat /\ MaxStates \in Nat \ {0}

States == 1..MaxStates

VARIABLES
  sniffStop,  \* _stop_sniffing_event
  reg,        \* the state in _ingress_states, 0 for none
  made,       \* states made so far
  queue,      \* state["queue"]
  bytes,      \* state["bytes"]
  halted,     \* state["stop"]
  wpc,        \* where each state's worker is
  batch,      \* the frames its worker has taken and not finished
  ppc,        \* where each enqueue_ingress_packet is
  mine,       \* the state it has got
  router,     \* where stop_routing and start_routing are
  joined,     \* the state whose thread _stop_ingress_workers waits for
  total,      \* the counters, over all states: the code sums neither errors
              \* nor rejected, its calls that are dropped themselves
  shed        \* what the last call gave up under pressure: [state, prio]

states == <<reg, made, queue, bytes, halted, wpc, batch>>
vars == <<sniffStop, reg, made, queue, bytes, halted, wpc, batch, ppc, mine,
          router, joined, total, shed>>

Counters == {"enqueued", "processed", "dropped", "rejected", "coalesced", "errors"}

Init ==
  /\ sniffStop = FALSE /\ reg = 0 /\ made = 0
  /\ queue = [g \in States |-> <<>>] /\ bytes = [g \in States |-> 0]
  /\ halted = [g \in States |-> FALSE]
  /\ wpc = [g \in States |-> "none"] /\ batch = [g \in States |-> <<>>]
  /\ ppc = [p \in Producers |-> "idle"] /\ mine = [p \in Producers |-> 0]
  /\ router = "up" /\ joined = 0
  /\ total = [c \in Counters |-> 0] /\ shed = {}

Alive(g) == wpc[g] \in {"top", "wait", "busy"}

Calls == total.enqueued + total.rejected

----------------------------------------------------------------------------
(* The pressure rules of enqueue_ingress_packet *)

\* f[1] + ... + f[n]
SumTo(f, n) ==
  LET sum[k \in 0..n] == IF k = 0 THEN 0 ELSE sum[k - 1] + f[k]
  IN  sum[n]

SizeOf(q) == SumTo([i \in 1..Len(q) |-> q[i].size], Len(q))

Lowest(q) == Min({q[i].prio : i \in 1..Len(q)})

\* Seeded fault: the oldest frame of all.
VictimOldest(q) == 1

\* _drop_ingress_for_pressure: the oldest frame of the busiest flow among the
\* frames of the lowest priority.
Victim(q) ==
  LET low == {i \in 1..Len(q) : q[i].prio = Lowest(q)}
      busy(i) == Cardinality({j \in low : q[j].flow = q[i].flow})
  IN  Min({i \in low : \A j \in low : busy(j) <= busy(i)})

Protected(f) == f.prio >= 2

FrameLimit(f) == MaxFrames + (IF Protected(f) THEN ReserveFrames ELSE 0)
ByteLimit(f)  == MaxBytes + (IF Protected(f) THEN ReserveBytes ELSE 0)

Pressed(q, b, f) == Len(q) >= FrameLimit(f) \/ b + f.size > ByteLimit(f)

\* Seeded fault: the bytes of the older frame are still counted.
CoalescedQueueOnly(q, b, f) ==
  LET i == SelectLastInSeq(q, LAMBDA old : f.key # "" /\ old.key = f.key)
  IN  IF i = 0 THEN [q |-> q, b |-> b, n |-> 0]
      ELSE [q |-> RemoveAt(q, i), b |-> b, n |-> 1]

\* A queue q of b bytes without the older frame that f coalesces with: only
\* the newest of them goes.
Coalesced(q, b, f) ==
  LET i == SelectLastInSeq(q, LAMBDA old : f.key # "" /\ old.key = f.key)
  IN  IF i = 0 THEN [q |-> q, b |-> b, n |-> 0]
      ELSE [q |-> RemoveAt(q, i), b |-> b - q[i].size, n |-> 1]

\* The eviction loop for f goes on until f fits or all that is left outranks f.
Settled(r, f) == r.q = <<>> \/ ~Pressed(r.q, r.b, f) \/ f.prio < Lowest(r.q)

DropVictim(r) ==
  LET i == Victim(r.q)
  IN  [q |-> RemoveAt(r.q, i), b |-> r.b - r.q[i].size,
       out |-> Append(r.out, r.q[i].prio)]

Evicted(q, b, f) ==
  LET after[k \in 0..Len(q)] ==
        IF k = 0 THEN [q |-> q, b |-> b, out |-> <<>>]
        ELSE IF Settled(after[k - 1], f) THEN after[k - 1] ELSE DropVictim(after[k - 1])
  IN  after[Len(q)]

----------------------------------------------------------------------------
(* enqueue_ingress_packet *)

Enter(p) ==
  /\ ppc[p] = "idle" /\ ~sniffStop /\ Calls < MaxCalls
  /\ ppc' = [ppc EXCEPT ![p] = "ensure"]
  /\ UNCHANGED <<sniffStop, states, mine, router, joined, total, shed>>

\* _ensure_ingress_state: the registered state if its thread runs, or a new
\* one.
Ensure(p) ==
  /\ ppc[p] = "ensure"
  /\ IF reg # 0 /\ Alive(reg)
       THEN mine' = [mine EXCEPT ![p] = reg] /\ UNCHANGED <<reg, made, wpc>>
       ELSE /\ made < MaxStates
            /\ made' = made + 1 /\ reg' = made + 1
            /\ mine' = [mine EXCEPT ![p] = made + 1]
            /\ wpc' = [wpc EXCEPT ![made + 1] = "top"]
  /\ ppc' = [ppc EXCEPT ![p] = "put"]
  /\ UNCHANGED <<sniffStop, queue, bytes, halted, batch, router, joined, total, shed>>

\* Too large for any queue.
PutTooLarge(p, f) ==
  /\ ppc[p] = "put" /\ Calls < MaxCalls /\ f.size > ByteLimit(f)
  /\ total' = [total EXCEPT !.dropped = @ + 1, !.rejected = @ + 1]
  /\ ppc' = [ppc EXCEPT ![p] = "idle"]
  /\ UNCHANGED <<sniffStop, states, mine, router, joined, shed>>

\* Under the condition: coalesce, make room, append or give up.
Put(p, f) ==
  LET g == mine[p]
      c == Coalesced(queue[g], bytes[g], f)
      e == Evicted(c.q, c.b, f)
      full == Pressed(e.q, e.b, f)
      lost == Range(e.out) \cup (IF full THEN {f.prio} ELSE {})
  IN  /\ ppc[p] = "put" /\ Calls < MaxCalls /\ f.size <= ByteLimit(f)
      /\ queue' = [queue EXCEPT ![g] = IF full THEN e.q ELSE Append(e.q, f)]
      /\ bytes' = [bytes EXCEPT ![g] = IF full THEN e.b ELSE e.b + f.size]
      /\ total' = [total EXCEPT
                     !.enqueued = @ + IF full THEN 0 ELSE 1,
                     !.rejected = @ + IF full THEN 1 ELSE 0,
                     !.coalesced = @ + c.n,
                     !.dropped = @ + Len(e.out) + IF full THEN 1 ELSE 0]
      /\ shed' = {[state |-> g, prio |-> n] : n \in lost}
      /\ ppc' = [ppc EXCEPT ![p] = "idle"]
      /\ UNCHANGED <<sniffStop, reg, made, halted, wpc, batch, mine, router, joined>>

----------------------------------------------------------------------------
(* _ingress_worker_loop *)

\* while not stop_event.is_set()
WorkerTop(g) ==
  /\ wpc[g] = "top"
  /\ wpc' = [wpc EXCEPT ![g] = IF halted[g] THEN "dead" ELSE "wait"]
  /\ UNCHANGED <<sniffStop, reg, made, queue, bytes, halted, batch, ppc, mine,
                 router, joined, total, shed>>

WorkerQuit(g) ==
  /\ wpc[g] = "wait" /\ queue[g] = <<>> /\ halted[g]
  /\ wpc' = [wpc EXCEPT ![g] = "dead"]
  /\ UNCHANGED <<sniffStop, reg, made, queue, bytes, halted, batch, ppc, mine,
                 router, joined, total, shed>>

\* Seeded fault: a wake-up is taken for a frame.
WorkerTakeOnWake(g) ==
  LET n == IF Len(queue[g]) < BatchSize THEN Len(queue[g]) ELSE BatchSize
      b == SubSeq(queue[g], 1, n)
  IN  /\ wpc[g] = "wait"
      /\ batch' = [batch EXCEPT ![g] = b]
      /\ queue' = [queue EXCEPT ![g] = SubSeq(@, n + 1, Len(@))]
      /\ bytes' = [bytes EXCEPT ![g] = @ - SizeOf(b)]
      /\ wpc' = [wpc EXCEPT ![g] = "busy"]
      /\ UNCHANGED <<sniffStop, reg, made, halted, ppc, mine, router, joined, total, shed>>

WorkerTake(g) ==
  LET n == IF Len(queue[g]) < BatchSize THEN Len(queue[g]) ELSE BatchSize
      b == SubSeq(queue[g], 1, n)
  IN  /\ wpc[g] = "wait" /\ queue[g] # <<>>
      /\ batch' = [batch EXCEPT ![g] = b]
      /\ queue' = [queue EXCEPT ![g] = SubSeq(@, n + 1, Len(@))]
      /\ bytes' = [bytes EXCEPT ![g] = @ - SizeOf(b)]
      /\ wpc' = [wpc EXCEPT ![g] = "busy"]
      /\ UNCHANGED <<sniffStop, reg, made, halted, ppc, mine, router, joined, total, shed>>

\* process_packet of the first frame of the batch returns or raises.
WorkerProcess(g) ==
  /\ wpc[g] = "busy"
  /\ batch' = [batch EXCEPT ![g] = Tail(@)]
  /\ wpc' = [wpc EXCEPT ![g] = IF Len(batch[g]) = 1 THEN "top" ELSE "busy"]
  /\ \E c \in {"processed", "errors"} : total' = [total EXCEPT ![c] = @ + 1]
  /\ UNCHANGED <<sniffStop, reg, made, queue, bytes, halted, ppc, mine,
                 router, joined, shed>>

----------------------------------------------------------------------------
(* stop_routing and start_routing; both call _stop_ingress_workers *)

StopRouting ==
  /\ router = "up" /\ router' = "stopping" /\ sniffStop' = TRUE
  /\ UNCHANGED <<states, ppc, mine, joined, total, shed>>

StartRouting ==
  /\ router = "down" /\ router' = "starting" /\ sniffStop' = FALSE
  /\ UNCHANGED <<states, ppc, mine, joined, total, shed>>

\* Seeded fault: the queue is cleared without its bytes.
HaltWorkersQueueOnly ==
  /\ router \in {"stopping", "starting"} /\ joined = 0
  /\ IF reg = 0
       THEN UNCHANGED <<queue, bytes, halted, total, joined>> /\ router' =
              (IF router = "stopping" THEN "down" ELSE "up")
       ELSE /\ halted' = [halted EXCEPT ![reg] = TRUE]
            /\ queue' = [queue EXCEPT ![reg] = <<>>]
            /\ UNCHANGED <<bytes, total>>
            /\ joined' = reg /\ UNCHANGED router
  /\ UNCHANGED <<sniffStop, reg, made, wpc, batch, ppc, mine, shed>>

\* The registered state is told to stop and its queue is discarded.
HaltWorkers ==
  /\ router \in {"stopping", "starting"} /\ joined = 0
  /\ IF reg = 0
       THEN UNCHANGED <<queue, bytes, halted, total, joined>> /\ router' =
              (IF router = "stopping" THEN "down" ELSE "up")
       ELSE /\ halted' = [halted EXCEPT ![reg] = TRUE]
            /\ queue' = [queue EXCEPT ![reg] = <<>>]
            /\ bytes' = [bytes EXCEPT ![reg] = 0]
            /\ total' = [total EXCEPT !.dropped = @ + Len(queue[reg])]
            /\ joined' = reg /\ UNCHANGED router
  /\ UNCHANGED <<sniffStop, reg, made, wpc, batch, ppc, mine, shed>>

\* The thread has ended or two seconds are over: _ingress_states.clear().
ForgetStates ==
  /\ joined # 0 /\ joined' = 0 /\ reg' = 0
  /\ router' = IF router = "stopping" THEN "down" ELSE "up"
  /\ UNCHANGED <<sniffStop, made, queue, bytes, halted, wpc, batch, ppc, mine,
                 total, shed>>

----------------------------------------------------------------------------
Worker(g) == WorkerTop(g) \/ WorkerQuit(g) \/ WorkerTake(g) \/ WorkerProcess(g)

Producer(p) ==
  Enter(p) \/ Ensure(p) \/ \E f \in Frames : PutTooLarge(p, f) \/ Put(p, f)

Next ==
  \/ \E p \in Producers : Producer(p)
  \/ \E g \in States : Worker(g)
  \/ StopRouting \/ StartRouting \/ HaltWorkers \/ ForgetStates

Spec == Init /\ [][Next]_vars

----------------------------------------------------------------------------
\* Every variable has a value the code can give it; in particular a worker
\* that left its wait has a frame to process.
TypeOK ==
  /\ sniffStop \in BOOLEAN /\ reg \in 0..MaxStates /\ made \in 0..MaxStates
  /\ queue \in [States -> Seq(Frames)] /\ bytes \in [States -> Nat]
  /\ halted \in [States -> BOOLEAN]
  /\ wpc \in [States -> {"none", "top", "wait", "busy", "dead"}]
  /\ batch \in [States -> Seq(Frames)]
  /\ \A g \in States : wpc[g] = "busy" <=> batch[g] # <<>>
  /\ ppc \in [Producers -> {"idle", "ensure", "put"}]
  /\ mine \in [Producers -> 0..MaxStates]
  /\ router \in {"up", "stopping", "down", "starting"} /\ joined \in 0..MaxStates
  /\ total \in [Counters -> Nat]
  /\ shed \subseteq [state : States, prio : 1..3]

\* bytes is what the queue holds, and no call makes a queue exceed a limit:
\* ordinary frames leave the reserve of the protected ones alone.
QueueAccounts(g) ==
  /\ bytes[g] = SizeOf(queue[g])
  /\ Len(queue[g]) <= MaxFrames + ReserveFrames
  /\ bytes[g] <= MaxBytes + ReserveBytes
  /\ (\A i \in 1..Len(queue[g]) : ~Protected(queue[g][i]))
       => Len(queue[g]) <= MaxFrames /\ bytes[g] <= MaxBytes

\* The byte count and the limits hold through coalescing, eviction, batches
\* and restarts, and get_runtime_health counts each frame once: what was
\* accepted or refused is processed, failed, replaced, dropped, or still in a
\* queue or a batch, also of a state that a late producer made or found after
\* a stop.
IngressAccounts ==
  /\ \A g \in States : QueueAccounts(g)
  /\ total.enqueued + total.rejected =
       total.processed + total.errors + total.coalesced + total.dropped
         + SumTo([g \in States |-> Len(queue[g]) + Len(batch[g])], MaxStates)

\* Pressure never costs a frame that outranks one left in the queue.
NoPriorityInversion ==
  \A s \in shed : \A i \in 1..Len(queue[s.state]) :
    s.prio <= queue[s.state][i].prio

\* p2pool_managers.py:12420, after _stop_ingress_workers: "Consumers and
\* protocol managers can now stop without receiving new frames."
NothingAfterStop == router = "down" => \A g \in States : wpc[g] # "busy"

\* A worker that was never told to stop is the one a stop would reach, in
\* _ingress_states.
RunningIsRegistered == \A g \in States : Alive(g) /\ ~halted[g] => reg = g
=============================================================================
