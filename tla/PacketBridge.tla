---------------------------- MODULE PacketBridge ----------------------------
(***************************************************************************)
(* The native packet bridge of ProcessManager (server/p2pool_helper.py):   *)
(* callbacks of the native libraries call submit_process_packet on their   *)
(* own threads, a worker (_packet_loop) feeds the packets to the router,   *)
(* and the router pauses and resumes the bridge when it stops and starts.  *)
(*                                                                         *)
(* Each operation on the queue or on an event is an action of its own.  A  *)
(* packet is numbered when it enters the queue.  The `+=' of a statistic   *)
(* belongs to the step before it: the last get_nowait of a drain, which    *)
(* finds the queue empty, adds what the drain has counted.                 *)
(***************************************************************************)
EXTENDS Naturals, Sequences, FiniteSets

CONSTANTS Producers,   \* threads that call submit_process_packet
          QueueSize,   \* maxsize of _packet_queue, 8192 in the code
          NativeSources, \* the sources a resume binds, 2 in the code
          MaxPackets,  \* bound: calls that are counted as received
          MaxPauses    \* bound: pauses in a behaviour

ASSUME BoundsAssumption ==
  /\ QueueSize \in Nat \ {0} /\ NativeSources \in Nat
  /\ MaxPackets \in Nat /\ MaxPauses \in Nat

VARIABLES
  routing,   \* _packet_routing_enabled
  stopped,   \* _stop_event
  queue,     \* _packet_queue
  last,      \* packets queued so far
  ppc,       \* where each submit_process_packet is
  wpc,       \* where _packet_loop is
  wpkt,      \* the packet it has taken, 0 for none
  router,    \* the router's pause: none, running, or returned
  pauses,    \* pauses so far
  drained,   \* `dropped', the local count of _discard_packet_queue
  unbound,   \* sources a resume could not bind
  stats,     \* _packet_stats
  refused,   \* calls dropped by the first test
  fed,       \* the packets the router accepted, in order
  late       \* feeds since the last pause returned

packets == <<queue, last>>
worker  == <<wpc, wpkt>>
pausing == <<routing, router, pauses, drained, unbound>>
vars == <<routing, stopped, queue, last, ppc, wpc, wpkt, router, pauses,
          drained, unbound, stats, refused, fed, late>>

Counters == {"received", "queued", "routed", "dropped", "errors"}

Init ==
  /\ routing = TRUE /\ stopped = FALSE
  /\ queue = <<>> /\ last = 0
  /\ ppc = [p \in Producers |-> "idle"]
  /\ wpc = "get" /\ wpkt = 0
  /\ router = "none" /\ pauses = 0 /\ drained = 0
  /\ unbound \in 0..NativeSources \* those of start()
  /\ stats = [c \in Counters |-> IF c = "errors" THEN unbound ELSE 0]
  /\ refused = 0
  /\ fed = <<>> /\ late = 0

CountedMore(c, n) == stats' = [stats EXCEPT ![c] = @ + n]

Counted(c) == CountedMore(c, 1)

Goes(p, where) == ppc' = [ppc EXCEPT ![p] = where]

Enqueue == last' = last + 1 /\ queue' = Append(queue, last + 1)

----------------------------------------------------------------------------
(* submit_process_packet *)

SubmitRefused(p) ==
  /\ ppc[p] = "idle" /\ (stopped \/ ~routing)
  /\ refused < MaxPackets /\ refused' = refused + 1
  /\ Counted("dropped")
  /\ UNCHANGED <<pausing, stopped, packets, ppc, worker, fed, late>>

Submit(p) ==
  /\ ppc[p] = "idle" /\ ~stopped /\ routing
  /\ Goes(p, "coerce")
  /\ UNCHANGED <<pausing, stopped, packets, worker, stats, refused, fed, late>>

\* There is no packet in the payload, or its fields make no item: the call
\* ends and no statistic says so.
SubmitNone(p) ==
  /\ ppc[p] = "coerce" /\ Goes(p, "idle")
  /\ UNCHANGED <<pausing, stopped, packets, worker, stats, refused, fed, late>>

Receive(p) ==
  /\ ppc[p] = "coerce"
  /\ stats.received < MaxPackets /\ Counted("received")
  /\ Goes(p, "put")
  /\ UNCHANGED <<pausing, stopped, packets, worker, refused, fed, late>>

\* Seeded fault: the second try takes the place for granted.
PutPast(p) ==
  /\ ppc[p] = "again" \/ (ppc[p] = "put" /\ Len(queue) < QueueSize)
  /\ Enqueue /\ Counted("queued") /\ Goes(p, "idle")
  /\ UNCHANGED <<pausing, stopped, worker, refused, fed, late>>

Put(p) ==
  /\ ppc[p] \in {"put", "again"} /\ Len(queue) < QueueSize
  /\ Enqueue /\ Counted("queued") /\ Goes(p, "idle")
  /\ UNCHANGED <<pausing, stopped, worker, refused, fed, late>>

\* queue.Full: the oldest packet is to make room.
PutFull(p) ==
  /\ ppc[p] = "put" /\ Len(queue) = QueueSize
  /\ Goes(p, "evict")
  /\ UNCHANGED <<pausing, stopped, packets, worker, stats, refused, fed, late>>

Evict(p) ==
  /\ ppc[p] = "evict" /\ queue # <<>>
  /\ queue' = Tail(queue) /\ UNCHANGED last
  /\ Counted("dropped") /\ Goes(p, "again")
  /\ UNCHANGED <<pausing, stopped, worker, refused, fed, late>>

\* get_nowait finds the queue empty, or another producer has taken the
\* place: the packet itself is dropped.
PutFails(p) ==
  /\ \/ ppc[p] = "evict" /\ queue = <<>>
     \/ ppc[p] = "again" /\ Len(queue) = QueueSize
  /\ Counted("dropped") /\ Goes(p, "idle")
  /\ UNCHANGED <<pausing, stopped, packets, worker, refused, fed, late>>

----------------------------------------------------------------------------
(* _packet_loop *)

WorkerGet ==
  /\ wpc = "get" /\ queue # <<>>
  /\ wpkt' = Head(queue) /\ queue' = Tail(queue) /\ wpc' = "test"
  /\ UNCHANGED <<pausing, stopped, last, ppc, stats, refused, fed, late>>

\* Seeded fault: only submit_process_packet looks at the two events.
WorkerTrusts ==
  /\ wpc = "test" /\ wpc' = "feed"
  /\ UNCHANGED <<pausing, stopped, packets, wpkt, ppc, stats, refused, fed, late>>

WorkerTest ==
  /\ wpc = "test"
  /\ IF stopped \/ ~routing
       THEN Counted("dropped") /\ wpc' = "get" /\ wpkt' = 0
       ELSE wpc' = "feed" /\ UNCHANGED <<stats, wpkt>>
  /\ UNCHANGED <<pausing, stopped, packets, ppc, refused, fed, late>>

\* Seeded fault: a packet the router refuses is queued again.
WorkerFeedRetries ==
  /\ wpc = "feed" /\ wpc' = "get" /\ wpkt' = 0
  /\ \/ Counted("routed") /\ fed' = Append(fed, wpkt) /\ UNCHANGED queue
     \/ Len(queue) < QueueSize /\ queue' = Append(queue, wpkt) /\ UNCHANGED <<stats, fed>>
  /\ late' = IF router = "returned" THEN late + 1 ELSE late
  /\ UNCHANGED <<pausing, stopped, last, ppc, refused>>

\* feed_interface_packet accepts the packet, refuses it, or raises.
WorkerFeed ==
  /\ wpc = "feed" /\ wpc' = "get" /\ wpkt' = 0
  /\ \/ Counted("routed") /\ fed' = Append(fed, wpkt)
     \/ Counted("dropped") /\ UNCHANGED fed
     \/ Counted("errors") /\ UNCHANGED fed
  /\ late' = IF router = "returned" THEN late + 1 ELSE late
  /\ UNCHANGED <<pausing, stopped, packets, ppc, refused>>

\* get times out after stop_event was set.
WorkerEnds ==
  /\ wpc = "get" /\ stopped /\ wpc' = "done"
  /\ UNCHANGED <<pausing, stopped, packets, wpkt, ppc, stats, refused, fed, late>>

----------------------------------------------------------------------------
(* pause_router_packets, resume_router_packets and stop *)

Pause ==
  /\ router = "none" /\ ~stopped /\ pauses < MaxPauses
  /\ router' = "running" /\ routing' = FALSE /\ pauses' = pauses + 1
  /\ UNCHANGED <<drained, unbound, stopped, packets, ppc, worker, stats, refused, fed, late>>

\* ProcessManager.stop sets the event and pauses too, also a paused bridge.
Stop ==
  /\ router # "running" /\ ~stopped
  /\ stopped' = TRUE /\ router' = "running" /\ routing' = FALSE
  /\ UNCHANGED <<packets, ppc, worker, pauses, drained, unbound, stats, refused, fed, late>>

\* _discard_packet_queue takes a packet; what it has taken is a local count
\* until the queue is empty.
Discard ==
  /\ router = "running" /\ queue # <<>>
  /\ queue' = Tail(queue) /\ drained' = drained + 1
  /\ UNCHANGED <<routing, router, pauses, unbound, stopped, last, ppc, worker,
                 stats, refused, fed, late>>

\* Seeded fault: the drain's count is only returned.
PauseForgets ==
  /\ router = "running" /\ queue = <<>>
  /\ drained' = 0 /\ router' = "returned" /\ late' = 0
  /\ UNCHANGED <<routing, pauses, unbound, stopped, packets, ppc, worker, stats,
                 refused, fed>>

PauseReturns ==
  /\ router = "running" /\ queue = <<>>
  /\ CountedMore("dropped", drained) /\ drained' = 0
  /\ router' = "returned" /\ late' = 0
  /\ UNCHANGED <<routing, pauses, unbound, stopped, packets, ppc, worker, refused, fed>>

\* A source that cannot be bound is counted among the errors.
BindNativeSources ==
  \E n \in 0..NativeSources : CountedMore("errors", n) /\ unbound' = unbound + n

Resume ==
  /\ router = "returned" /\ ~stopped
  /\ router' = "none" /\ routing' = TRUE
  /\ BindNativeSources
  /\ UNCHANGED <<pauses, drained, stopped, packets, ppc, worker, refused, fed, late>>

----------------------------------------------------------------------------
Producer(p) ==
  \/ SubmitRefused(p) \/ Submit(p) \/ SubmitNone(p) \/ Receive(p)
  \/ Put(p) \/ PutFull(p) \/ Evict(p) \/ PutFails(p)

Worker == WorkerGet \/ WorkerTest \/ WorkerFeed \/ WorkerEnds

Next ==
  \/ \E p \in Producers : Producer(p)
  \/ Worker
  \/ Pause \/ Stop \/ Discard \/ PauseReturns \/ Resume

Spec == Init /\ [][Next]_vars

----------------------------------------------------------------------------
\* Every variable has a value the code can give it; in particular
\* _packet_queue never exceeds its maxsize, whoever evicts.
TypeOK ==
  /\ routing \in BOOLEAN /\ stopped \in BOOLEAN
  /\ queue \in Seq(1..MaxPackets) /\ Len(queue) <= QueueSize
  /\ last \in 0..MaxPackets
  /\ ppc \in [Producers -> {"idle", "coerce", "put", "evict", "again"}]
  /\ wpc \in {"get", "test", "feed", "done"} /\ wpkt \in 0..MaxPackets
  /\ router \in {"none", "running", "returned"} /\ pauses \in 0..MaxPauses
  /\ drained \in 0..MaxPackets /\ unbound \in Nat
  /\ stats \in [Counters -> 0..(2 * MaxPackets + unbound)] /\ refused \in 0..MaxPackets
  /\ fed \in Seq(1..MaxPackets) /\ late \in 0..MaxPackets

\* Calls between their `received' and their end.
Submitting == {p \in Producers : ppc[p] \in {"put", "evict", "again"}}

Taken == IF wpkt = 0 THEN <<>> ELSE <<wpkt>>

\* packet_stats accounts once for every call that is refused and every packet
\* that is received, however evictions, drains, pauses and the worker
\* interleave: it is routed, dropped or failed; or it is in the queue; or just
\* one thread holds it, the producer, the worker or whoever drains the queue,
\* whose packets no statistic shows until the drain ends.  Errors also count
\* sources that were not bound; a call without a packet is in no statistic.
StatsBalance ==
  stats.received + refused + unbound =
    stats.routed + stats.dropped + stats.errors
      + Len(queue) + drained + Len(Taken) + Cardinality(Submitting)

\* Once a pause has returned, at most one packet more enters the router: the
\* one the worker had tested before.
AtMostOneLate == late <= 1

\* The abstract channel this module implements.
Fifo == INSTANCE LossyFifo WITH last <- last, chan <- Taken \o queue, got <- fed

\* The router gets each packet at most once, in the order they were queued,
\* through evictions and pauses.
RoutedOnceInOrder == Fifo!Spec

\* p2pool_helper.py:297: "Producers never block the process or the router; the
\* oldest packet is evicted under pressure."  So a packet that was received
\* is not dropped while older ones stay in the queue.
OldestIsEvicted ==
  [][\A p \in Producers :
       (p \in Submitting /\ ppc'[p] = "idle" /\ queue # <<>>) => last' = last + 1]_vars
=============================================================================
