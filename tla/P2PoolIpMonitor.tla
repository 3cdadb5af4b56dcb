-------------------------- MODULE P2PoolIpMonitor --------------------------
(***************************************************************************)
(* The public-IP monitor of ProcessManager (server/p2pool_helper.py)       *)
(* composed with the P2Pool life cycle it restarts.  The monitor is a      *)
(* thread: it samples the public address every ten seconds and, once a     *)
(* transition has been seen often enough, schedules _restart_services on   *)
(* the asyncio loop (a client of P2PoolProcess making "ipRestart" requests) *)
(* and blocks for its result for at most 180 seconds.  When it gives up,   *)
(* the coroutine goes on.                                                  *)
(***************************************************************************)
EXTENDS P2PoolProcess

CONSTANTS Mons,           \* the clients that serve the monitor's coroutines
          Ips, NoIp,      \* public addresses, and "no address could be had"
          Confirmations,  \* required_confirmations
          MaxChanges      \* bound: changes of the public address

ASSUME MonsAssumption == Mons \subseteq Clients
ASSUME IpsAssumption  == NoIp \notin Ips
ASSUME ConfirmationsAssumption == Confirmations \in Nat \ {0}
ASSUME MaxChangesAssumption == MaxChanges \in Nat

VARIABLES
  publicIp,     \* what get_public_ip would return now
  changes,      \* changes of publicIp so far
  currentIp,    \* self._current_ip
  missing,      \* self._public_ip_missing
  pendingIp,    \* self._pending_ip
  pendingHits,  \* self._pending_hits
  monitor,      \* where the monitor thread is
  future,       \* the coroutine whose result it waits for
  recent,       \* observes: the last samples since a reset, newest last
  mark          \* observes: the pids up to the confirmation of the transition

world   == <<publicIp, changes>>
observe == <<recent, mark>>
monVars == <<world, currentIp, missing, pendingIp, pendingHits, monitor,
             future, observe>>
allVars == <<vars, monVars>>

Samples == Ips \cup {NoIp}

\* ProcessManager.start takes the first sample as the current address.
MonInit ==
  /\ Init
  /\ publicIp \in Samples /\ changes = 0
  /\ currentIp = publicIp /\ missing = (publicIp = NoIp)
  /\ pendingIp = NoIp /\ pendingHits = 0
  /\ monitor = "polling" /\ future = NoIp
  /\ recent = <<>> /\ mark = 0

----------------------------------------------------------------------------

\* The thread takes a sample; process_manager.stop() ends it before the main
\* coroutine stops P2Pool.
Polling == monitor = "polling" /\ loop = "running"

\* Seeded fault: the candidate is never forgotten.
ForgetNothing == UNCHANGED <<pendingIp, pendingHits>>

Forget == pendingIp' = NoIp /\ pendingHits' = 0

\* The last samples the observer remembers: one more than it needs.
Remember(ip) ==
  recent' = LET s == Append(recent, ip) IN
            IF Len(s) > Confirmations THEN Tail(s) ELSE s

Transition == missing \/ publicIp # currentIp

\* Seeded faults: the latched branch skips the sample's address; it releases
\* the latch once the address is adopted.
TickLatchedSkips ==
  /\ Polling /\ latched /\ Forget
  /\ recent' = <<>>
  /\ UNCHANGED <<vars, world, currentIp, missing, monitor, future, mark>>

TickLatchedReleases ==
  /\ Polling /\ latched /\ Forget
  /\ missing' = (publicIp = NoIp)
  /\ currentIp' = IF publicIp = NoIp THEN currentIp ELSE publicIp
  /\ recent' = <<>>
  /\ latched' = FALSE
  /\ UNCHANGED <<refs, expectedStop, attempts, stopEvent, queue, pc, req,
                 started, loop, os, world, monitor, future, mark>>

\* While a manual stop is latched the address is adopted and nothing restarted.
TickLatched ==
  /\ Polling /\ latched /\ Forget
  /\ missing' = (publicIp = NoIp)
  /\ currentIp' = IF publicIp = NoIp THEN currentIp ELSE publicIp
  /\ recent' = <<>>
  /\ UNCHANGED <<vars, world, monitor, future, mark>>

\* The address is unavailable, or the one already in use.
TickQuiet ==
  /\ Polling /\ ~latched /\ Forget
  /\ publicIp = NoIp \/ ~Transition
  /\ missing' = (publicIp = NoIp)
  /\ recent' = <<>>
  /\ UNCHANGED <<vars, world, currentIp, monitor, future, mark>>

\* A first sample of a transition, or one that differs from the candidate.
TickCandidate ==
  /\ Polling /\ ~latched /\ publicIp # NoIp /\ Transition
  /\ pendingIp # publicIp
  /\ pendingIp' = publicIp /\ pendingHits' = 1
  /\ Remember(publicIp)
  /\ UNCHANGED <<vars, world, currentIp, missing, monitor, future, mark>>

\* Seeded fault: every sample confirms the candidate.
TickAgainAny ==
  /\ Polling /\ ~latched /\ publicIp # NoIp /\ Transition
  /\ pendingHits > 0
  /\ pendingHits' = pendingHits + 1
  /\ Remember(publicIp)
  /\ IF pendingHits' < Confirmations
       THEN UNCHANGED <<monitor, mark>>
       ELSE monitor' = "scheduled" /\ mark' = spawned
  /\ UNCHANGED <<vars, world, currentIp, missing, pendingIp, future>>

\* The candidate again; at required_confirmations the restart is scheduled.
TickAgain ==
  /\ Polling /\ ~latched /\ publicIp # NoIp /\ Transition
  /\ pendingIp = publicIp
  /\ pendingHits' = pendingHits + 1
  /\ Remember(publicIp)
  /\ IF pendingHits' < Confirmations
       THEN UNCHANGED <<monitor, mark>>
       ELSE monitor' = "scheduled" /\ mark' = spawned
  /\ UNCHANGED <<vars, world, currentIp, missing, pendingIp, future>>

\* The loop runs the first step of _restart_services.
RestartRuns(c) ==
  /\ monitor = "scheduled"
  /\ Request(c, "ipRestart")
  /\ monitor' = "waiting" /\ future' = c
  /\ UNCHANGED <<world, currentIp, missing, pendingIp, pendingHits, observe>>

\* Seeded fault: the address is adopted whatever the restart returned.
RestartReturnsAdopting ==
  /\ monitor = "waiting" /\ loop = "running" /\ pc[future] = "idle"
  /\ currentIp' = pendingIp /\ missing' = FALSE
  /\ monitor' = "polling" /\ future' = NoIp
  /\ Forget /\ recent' = <<>> /\ mark' = 0
  /\ UNCHANGED <<vars, world>>

\* fut.result() returns; only a successful restart adopts the address.
RestartReturns ==
  /\ monitor = "waiting" /\ loop = "running" /\ pc[future] = "idle"
  /\ IF started[future]
       THEN currentIp' = pendingIp /\ missing' = FALSE
       ELSE UNCHANGED <<currentIp, missing>>
  /\ monitor' = "polling" /\ future' = NoIp
  /\ Forget /\ recent' = <<>> /\ mark' = 0
  /\ UNCHANGED <<vars, world>>

\* fut.result() times out: the thread forgets the coroutine, which goes on.
RestartTimesOut ==
  /\ monitor = "waiting" /\ loop = "running" /\ pc[future] # "idle"
  /\ monitor' = "polling" /\ future' = NoIp
  /\ Forget /\ recent' = <<>> /\ mark' = 0
  /\ UNCHANGED <<vars, world, currentIp, missing>>

AddressChanges(ip) ==
  /\ ip # publicIp /\ changes < MaxChanges
  /\ publicIp' = ip /\ changes' = changes + 1
  /\ UNCHANGED <<vars, currentIp, missing, pendingIp, pendingHits, monitor,
                 future, observe>>

Tick == TickLatched \/ TickQuiet \/ TickCandidate \/ TickAgain

MonNext ==
  \/ \E c \in Clients \ Mons :
       /\ Shutdown(c) \/ \E r \in Requests \ {"ipRestart"} : Request(c, r)
       /\ UNCHANGED monVars
  \/ LoopStep /\ UNCHANGED monVars
  \/ Tick
  \/ \E c \in Mons : RestartRuns(c)
  \/ RestartReturns
  \/ RestartTimesOut
  \/ \E ip \in Samples : AddressChanges(ip)

MonSpec == MonInit /\ [][MonNext]_allVars

\* The thread wakes every monitor_interval seconds, and the loop runs what
\* run_coroutine_threadsafe hands it.
MonFairSpec ==
  /\ MonSpec /\ Fairness
  /\ WF_allVars(Tick) /\ WF_allVars(RestartReturns)
  /\ SF_allVars(\E c \in Mons : RestartRuns(c))

----------------------------------------------------------------------------
(* Properties *)

\* Every variable of the monitor holds a value the code can hold.
MonTypeOK ==
  /\ publicIp \in Samples /\ currentIp \in Samples /\ pendingIp \in Samples
  /\ changes \in 0..MaxChanges
  /\ missing \in BOOLEAN
  /\ pendingHits \in 0..(Confirmations + 1)
  /\ monitor \in {"polling", "scheduled", "waiting"}
  /\ future \in Mons \cup {NoIp}
  /\ recent \in Seq(Ips) /\ mark \in 0..MaxPid

\* A flapping address does not restart P2Pool: a restart is scheduled only
\* when the last required_confirmations samples agree on one address, with no
\* unavailable, stable or latched sample among them.
RestartIsConfirmed ==
  monitor # "polling" =>
    /\ Len(recent) = Confirmations
    /\ \A i \in 1..Confirmations : recent[i] = pendingIp

\* An address adopted by a restart is one P2Pool was really started under: a
\* process spawned after the transition was confirmed.
AdoptedMeansRestarted ==
  [][monitor = "waiting" /\ (currentIp' # currentIp \/ missing' # missing)
       => spawned > mark]_allVars

\* When the address settles the monitor ends up with it, whatever stops,
\* crashes and failed attempts lie between, as long as the application runs.
AddressIsAdopted ==
  \A ip \in Ips :
    <>[](publicIp = ip) =>
      []<>(currentIp = ip \/ loop # "running" \/ spawned = MaxPid)

\* _restart_services skips the restart while the manual stop latch is active
\* (its log line): the monitor's coroutine never undoes an operator's stop.
IpRestartRespectsLatch ==
  [][latched /\ ~latched' => \A c \in Mons : ~Owns(c)]_allVars

\* P2Pool does not start by itself (the doc string of application_main_loop):
\* with no start asked for, no process is ever spawned.
NothingStartsUnasked ==
  Requests \cap {"guiStart", "webRestart"} = {} => spawned = 0
=============================================================================
