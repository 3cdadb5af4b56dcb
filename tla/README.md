# A TLA+ verification of the mining suite's process control

The repository is a Monero mining suite in Python: a client that runs XMRig on
a mining machine, a server that runs P2Pool, collects what the clients report
and sends them commands, and a large software router with its own Stratum
engine and DHCP server. This directory models the control of the two child
processes everything else depends on, the channels between the parts (commands,
events, packets), and three parts of the router whose correctness is a matter
of state rather than of formats. The models are checked with TLC, and the most
important results are proved with TLAPS.

Paths below are relative to `src/`.

1. [Inventory](#1-inventory)
2. [Modules](#2-modules) and how they correspond to the code
3. [Runs](#3-runs): what they show, their bounds and the fairness assumed
4. [Disagreements](#4-disagreements-with-the-documentation) between code and documentation
5. [Proofs](#5-proofs)
6. [What is not modelled](#6-what-is-not-modelled)
7. [Plan](#7-plan)

## 1. Inventory

### P2Pool process (server) - `server/p2pool_data.py`, class `P2PoolProcessor`

*State.* `p2pool_data.p2pool_proc`, `psutil_proc`, three asyncio tasks
(`watch_task`, `redirect_task`, `monitor_task`), `_expected_stop`, the
manual-stop latch `_manual_stop_latched`, `_restart_attempts`, the asyncio lock
`proc_lock`, and the P2Pool processes of the operating system.
*Operations.* `start_p2pool`, `stop_p2pool(reason)`, `write_to_stdin`, the
crash watcher `_watch_process`, which restarts after a delay.
*Who calls it.* GUI buttons, `POST /restart_p2pool` and `POST /status`
(`server/p2pool_endpoints.py`), the address monitor's `_restart_services`
(`server/p2pool_helper.py`), `application_main_loop` when the application
closes, and the `atexit` failsafe (`server/p2pool_server.py`). The callers are
threads; they schedule coroutines on one event loop.
*Hard behaviour.* Interleaving of calls around `proc_lock`; a crash at any
await; a watcher that sleeps, then acts on a decision made before; failures
half-way through a start; the end of the loop under coroutines in flight.
*Correct means.* Never two P2Pools (the second would fight for the Stratum and
P2P ports); every live process is referenced, so that a stop reaches it, and
watched, so that a crash is repaired; a manual stop stays until the operator
starts again; every request ends; nothing is left at exit.

### Public address monitor (server) - `server/p2pool_helper.py`, class `ProcessManager`

*State.* `_current_ip`, `_public_ip_missing`, `_pending_ip`, `_pending_hits`, a
thread that samples `get_public_ip` and waits up to 180 s for the restart it
schedules on the loop. *Hard behaviour.* The thread reads the latch and the
samples while the loop changes what they mean; a restart that times out goes
on; addresses flap or disappear. *Correct means.* Only a confirmed change
restarts P2Pool, a settled address is adopted, an operator's stop is respected.

### XMRig process (client) - `client/xmrig_miner.py`

*State.* `XmrigSupervisor`: `_desired_running`, `_manual_stop`, `_closed`, the
event `_wake`, `_generation`, pool and thread count, the task `_run_forever`.
`XmrigMiner`: `xmrig_process`, `_terminate_lock`, `_spawn_lock`; `config.json`;
every process of the machine whose name ends in `xmrig`.
*Operations.* `start`, `stop`, `restart`, `close`, the poller's `set_threads`,
`_spawn_miner_process`, `_watch_process` with its three monitors,
`_terminate_current_process`, `kill_all_xmrig_processes`.
*Who calls it.* GUI, `ServerPoller` (commands of the server), `PeriodicReporter`
(after repeated failures), `OutputMonitor` (fatal output, wedged pool), the exit
of the application. All on one event loop.
*Hard behaviour.* `stop`, `restart` and the runner each terminate and kill by
name at their own pace; the spawn is not under `_terminate_lock`; terminated
processes take their time; an earlier session's miner is still there; the task
is cancelled at any await.
*Correct means.* Never two miners; every miner has an owner that will end it; a
stop ends mining, a start leads to mining; calls return.

### Command channel - `server/p2pool_helper.py:173`, `server/p2pool_endpoints.py:519`, `client/xmrig_miner.py:180`

*State.* `COMMAND_QUEUE`, one list per client, in the memory of the server.
*Operations.* `queue_command` from the dashboard's requests, `get_command` on
the threads of the web server, the client's `ServerPoller.run`, which posts its
status, polls, executes and sleeps; the clear at start-up. *Hard behaviour.* The
threads test, index and pop a list without a lock; a client that waited ten
seconds leaves while its handler goes on; requests are lost; the server
restarts. *Correct means.* Commands of one client are executed in order and at
most once, and none waits for ever. Losing a command is possible by design.

### Event log pipeline - `server/p2pool_data.py`

P2Pool's output -> `RAW_LOG` -> `RawLogProcessor` thread -> bounded `log_queue`
-> `AsyncEventLogger` coroutine -> `EVENT_LOG` -> `EventProcessor` thread ->
totals and recent events of the dashboard. *Hard behaviour.* The raw log is
truncated under its reader, the queue is full, the writer is cancelled with a
line in hand or while its `get()` still waits for one, the caches are filled from a file that is still being written,
lines that belong to a block. *Correct means.* An event is counted at most once,
in order, and a lost one is lost for one of few known reasons.

### Stratum job engine - `server/p2pool_router_managers_2.py:96`, `server/randomx_ctypes.py`

*State.* Per session a job version, a queue of eight jobs, a stop event, a
worker and its VM; one RandomX dataset for all, with `_seed` and
`_rx_seed_hex`. *Operations.* `register_session`, `deregister_session`,
`_accept_job`, `_share_worker`, `ensure_seed`, `create_vm`, and the connection
that drives them: connect, receive, disconnect, stop. *Hard behaviour.* The
session is deregistered by two threads and may be registered again under its
name while an old worker still runs; the end mark and jobs compete for the
queue; any session replaces the dataset of all. *Correct means.* Every worker
ends up on the newest job, or ends; shares of superseded jobs are limited.

### Native packet bridge - `server/p2pool_helper.py:297`

A queue of 8192 packets, producers on native threads, one worker, pause, resume
and stop. *Hard behaviour.* Eviction by a producer while others put and the
worker takes; a pause that drains while a producer is between its test and its
put. *Correct means.* Every packet is accounted for once, by the statistics or
by the one thread that holds it; a paused router gets at most the one packet
under way; order is kept.

### Router ingress - `server/p2pool_managers.py:6345`

One queue per interface with limits on frames and bytes, a reserve for protected
frames, coalescing of multicast noise, eviction by priority and flow, a worker
that takes batches, and a stop and start that discard it. *Hard behaviour.* A
capture thread that passed the first test before a stop fills a queue nobody
will look at, or makes a new state and worker. *Correct means.* Bytes, limits
and totals are right, pressure never costs a frame that outranks one it leaves.

### Router tables and leases - `server/p2pool_router_managers*.py`

`DHCPServer`: leases, free pool, pins, addresses outside the pool, a cleanup
thread, all under `_lease_lock`, except that an INIT-REBOOT request takes the
lock twice. *Hard behaviour.* Long sequences of legal requests under three
different notions of "in use"; expired leases that stay in the table; pins that
outlive them. *Correct means.* One holder per address, the limit holds, no
address is lost for good, an ACK names what was asked for.
The other tables (WAN DHCP client, NAT, ARP, NDP, IGMP, RIP, DNS cache, load
balancer, link aggregation, uplink and gateway selection) are not modelled yet.

### The rest

The client's optional DLL services, the two GUIs, packet capture and protocol
transports, the block pipeline, the assistants, and the legacy single-file
programs are listed in `PROJECT.json` with the reason why they are not
modelled; section 6 summarises.

### How the components interact

    dashboard / GUI ---> P2PoolProcess <--- address monitor
         |                    | raw output
         |                    v
         |               event log pipeline ---> dashboard
         v
    command queue ---HTTP poll---> ServerPoller ---> XmrigSupervisor <--- GUI, reporter
                                                          | spawns, terminates
                                                          v
                                                        XMRig ---stratum---> P2Pool / pool

    native libraries ---> packet bridge ---> router ingress ---> process_packet
                          (paused by the       ^ capture threads    |
                           router's stop)                           v
                                               DHCP server, Stratum engine, ...

## 2. Modules

Every component's module has an `MC` module with the values of its constants
for TLC. Proofs are in `...Proofs` modules, named after the module they are
about; `P2PoolProofs` holds those of both `P2PoolProcess` and
`P2PoolIpMonitor`, `RouterProofs` those of `RouterIngress` and `DHCPServer`.
Definitions marked *Seeded fault* in the specifications are variants of an
action with a plausible mistake; no specification uses them, they exist to show
that the properties notice it.

In the two process modules everything but the operating system runs on one
asyncio loop, so **an action is the code between two awaits** and `pc[a]` is the
await at which coroutine `a` is suspended. In the other modules threads meet:
**an action is one access to shared state**, or everything done under one lock. asyncio's locks hand themselves over first
come first served: `queue` is a lock with its owner at the head. Acquiring a
free lock does not suspend.

### `P2PoolProcess`

Actors are `Clients` (coroutines scheduled by other threads) and the numbers
`1..MaxPid`: actor `p` is the watch task of the `p`-th process. `procRef` is
`p2pool_proc`, `live` the processes alive in the system, `spawned` the newest.

| action | code |
|---|---|
| `Request(c, r)` | a thread schedules a coroutine: GUI start and stop, web restart, IP restart with its latch test, status command |
| `StartRefused`, `StartSpawn`, `StartPopenFails`, `StartFinish`, `StartAborts` | `start_p2pool`: early returns, `create_subprocess_exec` up to the fork and its failure, what follows the await, the exception handlers |
| `StopRefused`, `StopBegin`, `StopTerminate`, `StopTimeout`, `StopFinish` | `stop_p2pool`: latch and early return, cancelling the three tasks, `terminate()`, the 10 s limit and `kill()`, the final bookkeeping |
| `StdinBegin`, `StdinFinish` | `write_to_stdin`, which drains while it holds the lock |
| `WatchDecide`, `WatchRestart` | `_watch_process` after the exit: dropping references, the decision, the delay, the restart |
| `CloseApp`, `Shutdown`, `LoopStops`, `AtExit` | closing the GUI, the main coroutine's final stop, the end of the loop, `cleanup_on_exit` |
| `ProcExit` | a process exits, by itself or because it was terminated |

`Faults` selects what may go wrong in a start: no executable, `Popen` fails,
connecting the pipes fails, psutil cannot attach to the fresh process.

### `P2PoolIpMonitor`

Extends `P2PoolProcess` with the monitor thread: `TickLatched`, `TickQuiet`,
`TickCandidate` and `TickAgain` are the four ways one sample goes through
`_monitor_loop`; `RestartRuns` is the first step of the scheduled coroutine;
`RestartReturns` and `RestartTimesOut` are the two ends of `fut.result`.
`recent` and `mark` only observe. The abstract specification is
`P2PoolProcess!Spec`: the composition is shown to implement it, which makes
every result about the process hold with the monitor running.

### `MinerSupervisor`

Actors are `Callers` and `Runner` (the task `_run_forever`). `queue` is
`_terminate_lock`; `_control_lock` is never held over an await and `_spawn_lock`
has one user, so neither needs a variable. The generation counter is abstracted
to `stale`: has it moved since the runner last read it? That is all the code
asks of it.

| action | code |
|---|---|
| `Start(t)`, `Stop(c)`, `Restart(c)`, `SetThreads(c, t)`, `Close(c)` | the supervisor's calls and the poller's `set_threads`, up to the first await |
| `TermBegin`, `TermTimeout`, `TermReaped` | `_terminate_current_process`: `terminate()`, the 5 s limit and `kill()`, the exit |
| `TermPolled`, `TermLastPoll`, `TermForce` | the polls of `kill_all_xmrig_processes` inside it; the last one lists what is killed a second later |
| `TermReturns`, `CloseReturns` | the status POST is over; `close` goes on to cancel the runner at whatever await it is in |
| `RunnerWakes`, `RetryWoken`, `RetryTimer` | the loop top: a wake, a wake during the delay, the end of the delay |
| `ScanPolled`, `ScanLastPoll`, `ScanForce` | `kill_all_xmrig_processes` before a spawn |
| `SpawnForks`, `SpawnFails`, `SpawnPublishes`, `SpawnSettles` | `_spawn_miner_process`: writing `config.json` and the fork, an exception, publishing the process, settings and status |
| `WatchSeesExit`, `WatchRestarts`, `MonitorsEnd`, `WatchReaps` | `_watch_process`: the process exits, a monitor asks for a restart, a monitor ends, the terminated process is reaped |
| `ProcExit` | a process exits |

The models are untimed. Where the code's timeouts matter they are choices: a
5 s wait may end before or after the process exits. Orders that need one second
of the code to outlast another part are possible in the model and in the code;
section 4 says which schedule a counterexample needs.
`SetThreads` writes `config.json` and tests `is_running()` in one action; the
code has an await between the two, in which only the writer of the file could
tell the difference.

### `LossyFifo`: the abstract specification of the channels

Things sent under growing numbers arrive at most once and in order; any may get
lost, none comes back. Three modules implement it, each with
`Fifo == INSTANCE LossyFifo WITH ...` and `Fifo!Spec` as a property, which TLC
checks and section 5 proves:

| module | `last` | `chan` | `got` |
|---|---|---|---|
| `CommandChannel` | commands appended | the answer the client still waits for, then the list | commands received |
| `EventLog` | lines printed | what is not counted yet: event log, writer, queue, block, read-ahead, raw log, P2Pool's lines only | P2Pool's lines counted |
| `PacketBridge` | packets queued | the worker's packet, then the queue | packets the router accepted |

`EventLog` filters both sequences with `Selected`, which says what `SelectSeq`
says as a recursive function, so that it can be reasoned about.
`LossyFifoProofs` proves what the channel promises and holds the lemmas the
three refinements share.

### `CommandChannel`

One client's list. `Producers` and `Slots` are threads of the web server.
`gone` and `got` observe what became of a command.

| action | code |
|---|---|
| `QueueTest`, `QueueAssign`, `QueueAppend` | the three accesses of `queue_command`; the assignment drops what another thread appended since the test |
| `HandlerTest`, `HandlerLook`, `HandlerPop`, `HandlerPopFails`, `HandlerEnds` | `get_command`: key, emptiness, `pop(0)`, its IndexError, an answer nobody reads |
| `Poll`, `Receive`, `Execute`, `GiveUp`, `GiveUpUnheard`, `RequestLost` | `ServerPoller.run`: the request, the response, the command, the ten seconds, and a request that does not arrive |
| `ServerRestart` | external: the process ends and comes back with empty queues |

### `EventLog`

Lines are numbered and of equal length, so that a file offset is a number of
lines. `lost` observes why an event was lost.

| action | code |
|---|---|
| `PrintLine`, `Truncate` | `_redirect_output` appends; `restart_p2pool` clears the file, the reader keeps its offset |
| `Fetch`, `ReadEvent`, `ReadOther`, `Collect`, `EndBlock` | `RawLogProcessor`: a chunk into the buffer, then one line: an event, a skipped line or the start of a block, a line of the block, its end |
| `LogEvent` (in the reader's actions), `LogDirect` | `log_event_now` |
| `WriterGet`, `WriterWrite`, `WriterDone`, `WriterCancelled`, `LeftGet` | `writer_loop`, whose queue access is in a thread that a cancellation abandons: the line it has taken is lost, and one it may take afterwards |
| `Hydrate`, `SeekEnd`, `Count` | `EventProcessor`: the last lines counted, the file reopened at its end, one line counted |
| `Shutdown` | `stop_event` is set |

### `PacketBridge`

| action | code |
|---|---|
| `SubmitRefused`, `Submit`, `SubmitNone`, `Receive`, `Put`, `PutFull`, `Evict`, `PutFails` | `submit_process_packet`: the test, a payload without a packet, the count, the put, and the eviction with its second put |
| `WorkerGet`, `WorkerTest`, `WorkerFeed`, `WorkerEnds` | `_packet_loop` |
| `Pause`, `Stop`, `Discard`, `PauseReturns` | `pause_router_packets` and `stop` with `_discard_packet_queue`, which counts for itself (`drained`) and adds that to the statistics when the queue is empty |
| `Resume`, `BindNativeSources` | `resume_router_packets`: a source that cannot be bound is an error (`unbound`) |

### `RouterIngress`

One interface; each state (queue, condition, stop event, thread) has a number.
A frame is a record of priority, size, flow and coalescing key, the results of
`_ingress_priority_value` and its like, which are not modelled.

| action or operator | code |
|---|---|
| `Enter`, `Ensure`, `PutTooLarge`, `Put` | `enqueue_ingress_packet`: the test of the stop event, `_ensure_ingress_state`, and what is done under the condition |
| `Coalesced`, `Evicted` (`Settled`, `DropVictim`), `Victim`, `Pressed` | the loops inside it and `_drop_ingress_for_pressure`; `Evicted` and `SizeOf` are recursive functions |
| `WorkerTop`, `WorkerQuit`, `WorkerTake`, `WorkerProcess` | `_ingress_worker_loop` |
| `StopRouting`, `StartRouting`, `HaltWorkers`, `ForgetStates` | the two ends of the router's run and `_stop_ingress_workers`, whose join may time out |

### `StratumEngine`

The session of the direct connection, over all its registrations, which are
numbered; the dataset is shared with the actor `Others`. The thread of the
connection is the feeder.

| action | code |
|---|---|
| `Connect`, `Connected`, `Receive`, `Disconnect`, `FeederEnds` | `_direct_connection_loop` and `_process_received_data`; the stop event is tested before the connection is opened, which may take ten seconds or fail |
| `Register` (in the two above), `StartWorker` | `register_session`: the tables under the lock, the thread later |
| `AcceptSeedReady`, `AcceptEnsures`, `AcceptVersion`, `AcceptPut`, `AcceptEvicts`, `AcceptPutAgain` | `_accept_job` |
| `EnsureWanted`, `EnsureBegins`, `EnsureBuilds`, `EnsureFails`, `Publishes` | `_maybe_reinit_randomx`: the test that the seed is 64 hex digits, `ensure_seed` under RandomX's lock, and `_rx_seed_hex` set outside it |
| `Stop`, `StopFindsNone`, `DeregHalts`, `DeregMarks`, `DeregPops` | `stop` and `deregister_session` with its end mark and the join that may time out |
| `WorkerGets`, `WorkerSeedReady`, `WorkerEnsures`, `WorkerKeepsVM`, `WorkerCreatesVM`, `WorkerNamesVM`, `WorkerTop`, `WorkerTests`, `WorkerHashes` | `_share_worker` |
| `OtherSession`, `OthersFail` | other sessions' `_maybe_reinit_randomx` |

`BadSeed` stands for a seed hash of the pool that is none (too short, or not
hex). No dataset is built for it, but a worker that finds one there makes its VM
over it.

### `DHCPServer`

Time is abstracted to whether a lease has run out (`valid`). The names that
every module has (`DhcpInit`, `DhcpNext`, `DhcpTypeOK`, ...) carry a prefix, so
that `RouterProofs` can extend both modules of the router.

| action | code |
|---|---|
| `DiscoverOrRequest` | DISCOVER and REQUEST: `_assign_ip` (`Renews`, `Kept`, `LimitReached`, `Honoured`, `Assigned`, `Assign`) |
| `RebootAsked`, `RebootAnswered` | INIT-REBOOT: `_can_ack_requested_ip`, then `_assign_ip`, each under the lock |
| `Release`, `Pin`, `Reconcile` | `release_ipv4`, `assign_specific_ipv4`, `force_reconcile_ipv4_pool` |
| `Expire`, `Cleanup` | time passes; a round of `_cleanup_leases_loop` |

## 3. Runs

| run | question | bounds | distinct states |
|---|---|---|---|
| `P2PoolProcess_safety` | Do the references and the watcher stay right through every order of requests, crashes, failing starts and shutdown, and does every request end? | 2 clients, 3 processes, all requests, 3 faults | 112,604 |
| `P2PoolIpMonitor_monitor` | Is a restart always confirmed, is a settled address adopted, is a crash repaired, does the composition implement `P2PoolProcess`? | operator and one coroutine of the monitor, 2 addresses, 2 changes, 2 confirmations, 2 processes | 308,479 |
| `MinerSupervisor_faults` | Never two miners, no missed wish, does every call return, whatever fails? | 2 callers, 3 processes, all requests, all faults | 55,576 |
| `MinerSupervisor_live` | Has every miner an owner, is a stop and a start honoured? | 2 callers, 3 processes (one a leftover), failing spawns, no `close`, terminated processes exit | 13,616 |
| `CommandChannel_channel` | Is every command in one place, delivered at most once and in order, and settled? | 2 producers, 2 handlers, 3 commands, 1 lost request, any number of restarts and timeouts | 114,336 |
| `EventLog_pipeline` | Is every event counted once, in order, or lost for a named reason? | 3 lines of P2Pool, 1 of others, a queue of 1, 1 line hydrated, any number of truncations | 631,044 |
| `PacketBridge_bridge` | Is every packet accounted for once, does a pause hold, is order kept? | 2 producers, a queue of 2, 5 packets, 2 pauses, 1 native source, which may fail to bind | 2,404,676 |
| `RouterIngress_queue` | Do bytes, limits and totals stay right, is priority respected? | 2 producers, 4 kinds of frames, 2 frames and 3 bytes with a reserve of 1 each, 3 calls, 2 states | 488,191 |
| `StratumEngine_engine` | Does every worker end up on the newest job, how many shares are late? | 2 registrations, 2 jobs with a seed, a seed hash that is none, or no seed, another seed of other sessions, a queue of 1, 2 datasets built (other sessions' failed ones count) | 1,272,716 |
| `DHCPServer_leases` | Has every address one holder, does it return, does the limit hold? | 3 clients, 3 addresses (1 reserved, 1 in the pool, 1 outside), 2 leases, addresses outside allowed | 154,575 |
| `P2PoolProcess_latch`, `DHCPServer_exact` | counterexamples of section 4 | the smallest that show them | |

The other `.cfg` files reproduce the further counterexamples of section 4.

*Why the bounds are enough.* Two clients suffice for one to hold a lock while
another waits and a third actor (a watcher, the runner) interferes. Three
P2Pool processes let a delayed restart of the first meet a second and its
successor. A queue of one or two is full after as many puts, and every rule
about a full queue is met by two threads that race for the last place. Three
commands suffice for one in the list, one in an answer and one executed; two
registrations for an old worker beside a new one; three clients for a holder, a
client with an expired lease and one who asks for its address. `MaxBuilds`,
`MaxJobs`, `MaxStates` and their like bound behaviours, not the code.
In `MinerSupervisor` three processes are a leftover, the miner a
stop is after and the one spawned meanwhile. The two changes of the address
allow a flap that returns to the first address before it is confirmed, and the
unavailable address is one of the samples. Counters are bounded by these
constants; `MaxPid` is a bound of the models only: at the bound a start fails,
which the liveness properties exempt by name.

*Deadlock.* P2Pool's runs end when the application has exited; the miner's when
`close()` has returned and every process is gone; the runs with queues when
their bounded input is used up or the application has stopped.
`MinerSupervisor_live` and `DHCPServer_leases`, which have no end, are checked
for deadlock.

*Fairness* (`FairSpec`).
- Weak fairness per coroutine: asyncio resumes a coroutine whose await is over.
  The steps of one coroutine are alternatives in one formula, so an alternative
  the environment chooses (a slow exit, a failing spawn) is never forced.
- Strong fairness for steps that wait for a turn other steps take away again
  and again (`Quiet`): the delayed restart, the main coroutine's polling of the
  stop event and the monitor's scheduled coroutine. A timer that is due and a
  callback that is queued fire on the next turn, which is more than strong
  fairness asks.
- Strong fairness of `SpawnForks`: a spawn that is retried for ever in the end
  finds its configuration and executable. Without it a missing executable
  keeps the miner from starting, as it should.
- `MonitorsEnd` is owed only when the generation has moved: `quiet_watchdog`
  looks every `poll_sec` seconds.
- Threads of the web server, readers and workers run (weak fairness per thread):
  each sleeps a little and looks again, and catches what its work raises.
  Dashboard requests, truncations, lost requests, restarts, timeouts of a poll
  that is being served and cancellations are never owed. A poll nobody serves
  times out (`GiveUpUnheard` is a step of the client).
- The Stratum feeder goes on by itself once it has a job; a connection is only
  owed to end when `stop()` has been called, and building a dataset ends one way
  or the other. The cleanup thread of the DHCP server wakes every minute; no
  client is owed to do anything.
- `RequestsEnd` assumes that P2Pool reads what is written to it: `write_to_stdin`
  awaits `drain()` (`server/p2pool_data.py:454`) with the lock in hand and
  without a limit of time. A P2Pool that lives and never reads its input would
  hold every request up.
- Requests, crashes, exits of slow processes, restarts asked for by monitors and
  address changes are never owed. A killed process dies.

*Each property is one the code could break*: `PROJECT.json` lists for each a
seeded fault under which TLC finds it violated. Among these are a start that
skips the lock or the latch, a stop that returns before the process is gone, a
stop that does not move the generation, a spawn that does not look for other
miners, a monitor that takes any sample for a confirmation, `pop()` for
`pop(0)`, a drain whose count is forgotten, a queue cleared without its byte
count, a worker that ends only on the end mark, and an expired lease taken for
a free address.

*What two properties leave open on purpose.* `EveryEventAccounted` accepts the
six reasons for which the code loses events (`Causes`); it shows that there is
no seventh and that none doubles an event. `StatsBalance` does not say
that the statistics alone balance at every moment: they do not during a drain,
whose packets are counted when it ends. `EngineSettles` does not promise that
a worker whose VM could not be made is replaced: it ends, and its session waits
for the next connection.

## 4. Disagreements with the documentation

The first two have a standing run; for each of the others the named `.cfg` file
reproduces the counterexample with
`tlc -config <name>.cfg MC<module>`.

1. **A manual stop during the crash delay does not last** (`P2PoolProcess_latch`).
   P2Pool crashes, its watcher sleeps before the restart, the operator stops:
   `stop_p2pool` finds no process, latches and returns, and the watcher's
   `start_p2pool` clears the latch and starts P2Pool.
2. **An INIT-REBOOT is acknowledged with another address** (`DHCPServer_exact`).
   A client with a live lease asks for another, free address.
   `_can_ack_requested_ip` agrees, `_assign_ip` renews the lease it has, and the
   ACK carries that one; `server/p2pool_router_managers_2.py:21232` promises an
   ACK of the exact address or a NAK.
3. **A process outlives the application** (`P2PoolProcess_exit`). A start queued
   behind the shutdown's stop forks in the loop's last turn, and the `atexit`
   failsafe has no reference to it.
4. **The address monitor undoes a manual stop** (`P2PoolIpMonitor_latch`).
   `_restart_services` tests the latch once, before the two calls it awaits.
5. **P2Pool starts by itself** (`P2PoolIpMonitor_autostart`). A confirmed change
   of the address starts a P2Pool that nobody asked for.
6. **Closing the client leaves a miner** (`MinerSupervisor_close`). `close()`
   stops first and cancels the runner afterwards. A runner that forks in between
   (it was writing `config.json` when the stop's kill found nothing, and the
   stop is now posting its status) is cancelled while it applies settings or
   watches, and nothing terminates its process.
7. **A thread update has no effect** (`MinerSupervisor_threads`). `set_threads`
   writes `config.json` and restarts; the spawn rewrites the file with the
   supervisor's own count.
8. **A stop leaves a miner running** (`MinerSupervisor_stop`). This one needs a
   leftover XMRig that outlives `terminate()` (not on Windows, where terminating
   is immediate). The stop's kill and the runner's poll side by side; the stop
   began about half a second later. In its last second the runner kills the
   leftover and forks; the stop then kills only what it had listed, drops the
   reference to the new process and reports "Stopped". The runner's monitors end
   with `is_running()` false and the miner goes on.

9. **The newest packet is dropped, not the oldest** (`PacketBridge_evict`). Two
   producers meet at a full queue; one evicts, the other takes the place, and
   the first drops its own packet while older ones stay.
   `server/p2pool_helper.py:297` says the oldest is evicted.
10. **Frames are processed after the router stopped** (`RouterIngress_stop`). A
    capture thread that had passed the test of the stop event makes a new state
    and worker after `_stop_ingress_workers`; `server/p2pool_managers.py:12420`
    says that consumers can now stop without receiving new frames. When the old
    thread has ended and the join has not returned, the new state is cleared
    from `_ingress_states` before anyone told it to stop; its thread waits for
    ever (`RouterIngress_forget`).
11. **A worker hashes on a released dataset** (`StratumEngine_dataset`). Another
    session's seed makes `ensure_seed` release the dataset under a VM in use;
    `server/randomx_ctypes.py:187` refuses only the creation of such a VM.

Related, but no document to compare with: a reporter's restart and a
`set_threads` that has read `is_running()` set `_desired_running` again after a
manual stop; a `start` with another pool or thread count while a miner runs
waits for the next respawn. The model does the same.

## 5. Proofs

All theorems hold for every value of the constants: any number of callers, of
processes, of requests, of threads, of packets and of addresses, any queue size. The
assumptions on the constants are the named `ASSUME`s of the modules: actors are
not confused with process numbers, `Requests` and `Faults` are sets of the
kinds the module knows, bounds are natural numbers and queues have room.

| module | theorem | statement | extra assumption |
|---|---|---|---|
| `P2PoolProofs` | `LockCorrect` | `Spec => [](TypeOK /\ LockExclusion)` | |
| | `OneProcess` | `Spec => [](AtMostOneProcess /\ LiveIsReferenced)` | psutil can attach to a fresh process |
| | `Watched` | `Spec => []LiveIsWatched` | |
| | `StoppedStaysStopped` | `Spec => StoppedIsNotRestarted` (an action property) | |
| | `MonitorImplementsProcess` | `MonSpec => Spec` | the monitor may make its request |
| | `LockServesAll` | `Spec =>` always `queue` holds the actors at a `LockPCs` place, each once | |
| | `OneProcessUnderMonitor` | `MonSpec => [](AtMostOneProcess /\ LiveIsReferenced)` | the same, and psutil can attach |
| | `LifeCycleUnderMonitor` | `MonSpec =>` what `Watched`, `StoppedStaysStopped`, `LockCorrect` and `LockServesAll` say | the monitor may make its request |
| | `Confirmed` | `MonSpec => [](MonTypeOK /\ RestartIsConfirmed)` | the monitor may make its request |
| | `AdoptedAfterStart` | `MonSpec => AdoptedMeansRestarted` (an action property) | the same |
| `MinerSupervisorProofs` | `TypeCorrect` | `Spec => []TypeOK` | |
| | `MinerIsAlone` | `Spec => []AtMostOneMiner` | |
| | `WishIsSeen` | `Spec => []NoLostWake` | |
| | `LockServesAll` | `Spec =>` always `queue` holds the actors at a `TermPCs` place, each once | |
| | `MinerIsOwned` | `Spec => [](LiveIsOwned /\ StoppedIsDoomed)` | terminated processes exit, `close` is not called |
| `LossyFifoProofs` | `ChannelInOrder` | `Spec => [](TypeOK /\ InOrder)` | |
| `CommandChannelProofs` | `Correct` | `Spec => [](TypeOK /\ Conserved)` | |
| | `ChannelImplementsFifo` | `Spec => AtMostOnceInOrder`, which is `Fifo!Spec` | |
| | `CommandsInOrder` | `Spec =>` always the numbers in `got` grow | |
| `EventLogProofs` | `Correct` | `Spec => [](TypeOK /\ EveryEventAccounted)` | |
| | `EventsImplementFifo` | `Spec => CountedOnceInOrder`, which is `Fifo!Spec` | |
| | `EventsInOrder` | `Spec =>` always the numbers of P2Pool's own lines in `counted` grow | |
| `PacketBridgeProofs` | `Correct` | `Spec => [](TypeOK /\ StatsBalance /\ AtMostOneLate)` | |
| | `BridgeImplementsFifo` | `Spec => RoutedOnceInOrder`, which is `Fifo!Spec` | |
| | `PacketsInOrder` | `Spec =>` always the numbers in `fed` grow | |
| `StratumEngineProofs` | `Correct` | `Spec => [](TypeOK /\ AtMostOneLateShare)` | |
| `RouterProofs` | `IngressCorrect` | `Spec => [](TypeOK /\ IngressAccounts /\ NoPriorityInversion)` | |
| | `LeasesCorrect` | `DhcpSpec => [](DhcpTypeOK /\ OneHolder)` | |

"Psutil can attach" is `"attach" \notin Faults`: without it a start that fails
after the fork forgets a live process. `MinerIsOwned` needs both its
assumptions. With `"close"` among the requests `MinerSupervisor_close.cfg` is a
counterexample to `LiveIsOwned`, and `StoppedIsDoomed` fails the same way. With
`"slowExit"` among the faults both fail without any `close` and without a
leftover (`MinerSupervisor_stop.cfg` shows it with one): a stop's kill
polls for an old process while the runner publishes a new one, the end of the
kill drops the reference to it, and the runner's monitors then end with
`is_running()` false and take the process for gone. "The monitor may make its request" is
`"ipRestart" \in Requests`: the monitor's steps are requests of a client, and
`Requests` bounds which of them `P2PoolProcess` explores.

*Argument for `P2PoolProcess`.* `LockInv`: whoever is suspended inside
`proc_lock` is the head of `queue`. `ProcInv` adds that only the newest process
can be alive, that it is referenced unless its start waits for the pipes, that
a watcher which has seen an exit watched a dead process, and that processes not
yet spawned have idle watchers. `AtMostOneProcess` alone is not inductive: a
start forks because `procRef` is not running, and only `LiveIsReferenced` tells
that then nothing is. `WatchInv` is the same pattern for the watcher. `StopInv`
adds that the watcher of the process a stop tears down is idle. It stays so
because the stopper is alone in the lock (`StopperIsAlone`), so no start gives
the process a new watcher and no restart finishes under the stop. `ServedInv`
is what fairness alone cannot give: whoever asked for `proc_lock` is in its
queue, or no release would ever reach him, and nobody is there who would not
release it. It needs `LiveIsWatched`, because a stop sends the task `watch_task`
names to sleep, which must not be one in the queue, and `NewIsIdle`, because a
start that finishes after its process died puts the new watcher there.

*Argument for the monitor.* Every step of `MonNext` is a step of `Next` or
leaves `vars` alone; the invariants are inherited. `MonInv` adds `Candidate`
(the hits counted are the newest samples remembered, all of them the candidate,
and a restart is scheduled at `Confirmations` hits and not before) and
`Restarted`: where the coroutine the monitor waits for is in `start_p2pool`,
either a process was spawned since the confirmation, or none is running and no
other start is at its fork, so that this start will not find one to be content
with. The second needs the exclusion of `LockInv`.

*Argument for `MinerSupervisor`.* `MinerInv` adds `ScanSound`: when the runner
is about to write the configuration no XMRig is alive, and while it is about to
force a kill every live one is in its list. This is inductive because only the
runner forks. `WakeInv` adds that a wish and a manual stop exclude each other.
`OwnerInv` says that while the runner holds a process, that process is the
newest one and the reference is its own unless somebody dropped it after
terminating it, that a manual stop moved the generation and no spawn has read
it since, and that a live miner is in a spawn, watched, or somebody is in the
queue to terminate it (`Queued`). `ServedInv` says this of the lock in general
and without the assumptions: its queue holds exactly those who asked, once each;
the runner that `close()` cancels leaves it wherever it stands (`WithoutOnce`).

*Argument for `LossyFifo`.* `InOrder` says that what was received, then what is
on its way, then `last`, grows strictly. The bound of `got` by `last` is what
makes it inductive when the channel is empty. Each of the three steps keeps it
by a lemma of its own: an increasing selection of an increasing sequence, a
prefix moved from one sequence to the end of another.

*Argument for the refinements.* `Lose` and `Deliver` of the channel compare
whole sequences, so a step of an implementation is an abstract step only where
its channel is known to be in order: the invariant `Ordered` of each
implementation is the channel's own, carried along. The shared lemmas of
`LossyFifoProofs` (`OneLost`, `RestLost`, `StretchLost`, `FirstArrives`,
`OldestArrive`, `OneSent`) turn what a step does to a sequence into the abstract
step. The other facts say where things are: `CommandChannel` needs that a
handler holds a command exactly when that is its answer, `PacketBridge` that
the worker holds a packet exactly between its get and the end of its feed.

*Argument for `CommandChannel`.* `Split`: the list, the answer the client waits
for, the client, and the three ways to lose a command (`Causes`) are disjoint and
contain every command appended, which is `Conserved` without the counting. `Ordered` is part of the invariant, because
`pop(0)` moves exactly one command only if none is in the list twice.

*Argument for `PacketBridge`.* `Ledger`: packets received and refused, and the
sources not bound, are those routed, dropped or failed plus the packets held in
the queue, by the drain (`drained`), by the worker or by a producer inside its
call, of which there are finitely many; this is `StatsBalance`. The rest of it bounds the packets numbered by the calls
received, so that the numbers stay within `MaxPackets`; `Numbered` ties them to
the count of packets queued. `PauseHolds`: a pause closes the door before it
drains the queue, so once it has returned the worker can feed what it had
tested before and nothing else, and after that late packet it cannot be
feeding.

*Argument for `StratumEngine`.* The worker asks the sessions table for the
newest version and takes a missing entry for "nothing newer". `Removal` is what
makes that harmless: whoever removes a session has told its worker to stop
before. It needs `Ending` (`stop()` removes a session only when the feeder
cannot register a new one, and the feeder ends sessions at one place) and
`Threads` (a session that was not made has no worker). `Lateness` says for each
worker what a late share implies about where it is.

*Argument for `DHCPServer`.* `NoSharing` and `WithinLimit` with the agreement of
the tables in `DhcpTypeOK`. A lease is taken from the set of available addresses,
which is sound only as long as the leases are; so neither half is inductive
without the other. `WithinLimit` carries the finiteness of the live leases, so
that `Clients` may be infinite; that `min(available_ips)` is one of them is
the well-foundedness of the natural numbers.

*Argument for `RouterIngress`.* `Booked` is the ledger of `IngressAccounts`;
`HeldMoves` says that a step which changes one state's queue and batch changes
the frames held by as much (`SumReplaced`). The limit on ordinary frames is not
inductive as `IngressAccounts` states it, for queues that hold no other: a queue
of a protected frame and too many others satisfies it until the protected one
leaves. `QueueLimits` bounds the weight of the ordinary frames in every queue.
`Unmade` (a state not made has no worker) and `Chosen` (a call at its queue has
got a state) do the rest. What a call does is `PutFacts`: coalescing and every
round of the eviction (`OneRound`) leave a part of the queue (`Left`) that
weighs no more, and what is given up has at most the priority of all that is
left and of the frame that comes. The eviction, `SizeOf` and the sums are
recursive functions: that they exist, with values in given sets, is
`RecursionExists`, by induction over a set of numbers (`AllNumbers`).

*Argument for `EventLog`.* Every step is a flow along `OnTheWay` (`StepFlows`):
it sends a line, drops a stretch of lines for one cause, or takes the oldest
ones out at the far end, of which the last are counted. `Flows` has one lemma
per action. `Places` says where offsets and lines in hand are, `Numbered` that
only lines sent are anywhere, `Room` and `Budget` that offsets stay within the
bounds. From the flows alone follow the accounts (`At`, which counts
occurrences, adds up along concatenations) and the refinement.
`Selected` is a recursive function: that it exists, is a sequence and
distributes over concatenation is proved from the least length at which it
would not (`Least`, `ChainExists`, `SelectedConcat`).

Each invariant was first checked with TLC. The proofs have one step per action;
the lemmas about appending to and leaving a lock's queue carry the sequences.

*Only model-checked.*
- Liveness (`RequestsEnd`, `CrashIsRepaired`, `AddressIsAdopted`,
  `StopIsHonoured`, `StartIsHonoured`, `CallsReturn`, `CommandSettles`,
  `EventSettles`, `EngineSettles`, `AddressReturns`): the prover reasons neither
  about fairness nor about `ENABLED`. `LockServesAll` is the part of
  `RequestsEnd` and `CallsReturn` that is safety.

Every other property a passing run checks is proved. The two properties of
section 4 that have a standing run are false, so nothing is proved of them.

## 6. What is not modelled

- In the modelled components: the tasks that read P2Pool's output and usage
  (they change nothing the life cycle reads), the parsing and the thresholds of
  `OutputMonitor` (a restart it asks for is a free choice), the length of
  delays, and with it `_restart_attempts` beyond its value and
  `restart_attempt`; process settings; the three seconds after which `stop` no
  longer waits for the monitor thread (a tick that ends while the application
  closes can schedule its restart only as a request made then: `ipRestart` is
  possible while closing); the end of the loop in the middle of the
  client's ten-second clean-up.
- Command channel: status and hash rate posts, malformed commands beyond their
  loss, more than one client (each has its own list and nothing is shared but
  the dictionary).
- Event log: files opened or rotated by anything but the code; the caches made
  from a counted line; partially written lines; the death of a thread by an
  exception.
- Packet bridge: detaching the native sources (binding them counts errors and
  nothing else); the thread objects; a pause by the router's stop and one by the
  application's at the same moment, which would drain side by side; a resume
  that finds the bridge running and only binds again. A call without a packet
  changes no statistic, so nothing is said of such calls.
  The `+= 1` of a statistic is part of the step before it: on an interpreter
  that switches threads inside it, figures could be lost.
- Router ingress: several interfaces (their states share only totals),
  classification, logging. `total` has the frames of each
  end; the code keeps `errors` and `rejected` per state and never adds them up.
- Stratum engine: the proxy that relays miners, RPC answers and share
  statistics, keepalives, a job with a seed but without a usable target.
- DHCP: version 6, relay, interface policy, NAKs for other servers; the WAN DHCP
  client, NAT and the other tables of the router; the client's DLL services.
- Not to be modelled: GUIs beyond what they ask of the other parts; packet
  capture, dissectors and transports (data transformation and system calls with
  little control of their own); the sequential block pipeline and BlockNet
  client; the assistants and reports; the legacy single-file programs, which
  nothing imports; build and tax scripts; the vendored tools (Wireshark, Nmap,
  a JDK, PyInstaller output), which make up most of the files.

## 7. Plan

1. The composition of `PacketBridge` with `RouterIngress`, whose producer the
   bridge's worker is, and of `CommandChannel` with `MinerSupervisor`: the
   commands the client executes take the place of free requests.
2. `WanDhcpClient` and `NATManager`: a lease's timers, one flow per port.
