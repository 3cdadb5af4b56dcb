--------------------------- MODULE CommandChannel ---------------------------
(***************************************************************************)
(* The commands of the dashboard on their way to one mining client: the    *)
(* list COMMAND_QUEUE[client_id] of the server, filled by queue_command    *)
(* (server/p2pool_helper.py) and emptied by get_command                    *)
(* (server/p2pool_endpoints.py), and the client's ServerPoller.run         *)
(* (client/xmrig_miner.py).  Clients have separate lists; this is one.     *)
(*                                                                         *)
(* Handlers run on threads of the web server and share the list without a  *)
(* lock, so each of their accesses to it is an action.  A client that      *)
(* waited ten seconds drops its request; the handler does not notice.      *)
(* Commands are numbered in the order they are appended.                   *)
(***************************************************************************)
EXTENDS Naturals, Sequences, Functions, FiniteSets

CONSTANTS Producers,    \* threads that serve the dashboard's requests
          Slots,        \* threads that serve the client's polls
          MaxCommands,  \* bound: commands in a behaviour
          MaxLost       \* bound: requests lost before they reach the server

ASSUME SlotsAssumption == IsFiniteSet(Slots) /\ Slots # {}
ASSUME BoundAssumption == MaxCommands \in Nat /\ MaxLost \in Nat

Nobody == "nobody"
ASSUME NobodyAssumption == Nobody \notin Slots

Causes == {"overwritten", "abandoned", "restart"}

VARIABLES
  listed,   \* client_id is a key of COMMAND_QUEUE
  queue,    \* COMMAND_QUEUE[client_id], empty while unlisted
  last,     \* commands appended so far
  prod,     \* where each queue_command is
  hpc,      \* where each handler of get_command is
  held,     \* the command a handler has taken, 0 for none
  cpc,      \* where ServerPoller.run is
  cur,      \* the handler of the request the client waits for
  got,      \* the commands the client has received
  gone,     \* the commands lost, by cause
  lost      \* requests lost so far

server == <<listed, queue, last, prod, hpc, held>>
client == <<cpc, cur, got>>
vars == <<listed, queue, last, prod, hpc, held, cpc, cur, got, gone, lost>>

Init ==
  /\ listed = FALSE /\ queue = <<>> /\ last = 0
  /\ prod = [p \in Producers |-> "idle"]
  /\ hpc = [s \in Slots |-> "free"]
  /\ held = [s \in Slots |-> 0]
  /\ cpc = "sleep" /\ cur = Nobody /\ got = <<>>
  /\ gone = [c \in Causes |-> {}]
  /\ lost = 0

Lose(cause, S) == gone' = [gone EXCEPT ![cause] = @ \cup S]

----------------------------------------------------------------------------
(* queue_command *)

\* client_id not in COMMAND_QUEUE
QueueTest(p) ==
  /\ prod[p] = "idle" /\ last < MaxCommands
  /\ prod' = [prod EXCEPT ![p] = IF listed THEN "append" ELSE "assign"]
  /\ UNCHANGED <<listed, queue, last, hpc, held, client, gone, lost>>

\* COMMAND_QUEUE[client_id] = []: what another thread put there goes.
QueueAssign(p) ==
  /\ prod[p] = "assign"
  /\ listed' = TRUE /\ queue' = <<>>
  /\ Lose("overwritten", Range(queue))
  /\ prod' = [prod EXCEPT ![p] = "append"]
  /\ UNCHANGED <<last, hpc, held, client, lost>>

QueueAppend(p) ==
  /\ prod[p] = "append" /\ last < MaxCommands
  /\ last' = last + 1 /\ queue' = Append(queue, last + 1)
  /\ prod' = [prod EXCEPT ![p] = "idle"]
  /\ UNCHANGED <<listed, hpc, held, client, gone, lost>>

----------------------------------------------------------------------------
(* get_command: a test, a look and a pop *)

Answer(s, a) == hpc' = [hpc EXCEPT ![s] = a]

\* Who takes a command for a client that has left loses it.
TakeFor(s, c) ==
  /\ held' = [held EXCEPT ![s] = c]
  /\ IF s = cur THEN UNCHANGED gone ELSE Lose("abandoned", {c})

HandlerTest(s) ==
  /\ hpc[s] = "test"
  /\ Answer(s, IF listed THEN "look" ELSE "empty")
  /\ UNCHANGED <<listed, queue, last, prod, held, client, gone, lost>>

HandlerLook(s) ==
  /\ hpc[s] = "look"
  /\ Answer(s, IF queue = <<>> THEN "empty" ELSE "pop")
  /\ UNCHANGED <<listed, queue, last, prod, held, client, gone, lost>>

\* Seeded fault: pop() instead of pop(0).
HandlerPopsNewest(s) ==
  /\ hpc[s] = "pop" /\ queue # <<>>
  /\ queue' = SubSeq(queue, 1, Len(queue) - 1)
  /\ TakeFor(s, queue[Len(queue)]) /\ Answer(s, "command")
  /\ UNCHANGED <<listed, last, prod, client, lost>>

\* Seeded fault: the command is read and left in the list.
HandlerPeeks(s) ==
  /\ hpc[s] = "pop" /\ queue # <<>>
  /\ UNCHANGED queue
  /\ TakeFor(s, Head(queue)) /\ Answer(s, "command")
  /\ UNCHANGED <<listed, last, prod, client, lost>>

HandlerPop(s) ==
  /\ hpc[s] = "pop" /\ queue # <<>>
  /\ queue' = Tail(queue)
  /\ TakeFor(s, Head(queue)) /\ Answer(s, "command")
  /\ UNCHANGED <<listed, last, prod, client, lost>>

\* The list was emptied since the look: IndexError, status 500.
HandlerPopFails(s) ==
  /\ hpc[s] = "pop" /\ queue = <<>>
  /\ Answer(s, "error")
  /\ UNCHANGED <<listed, queue, last, prod, held, client, gone, lost>>

\* The answer to a client that has left goes nowhere.
HandlerEnds(s) ==
  /\ s # cur /\ hpc[s] \in {"empty", "command", "error"}
  /\ Answer(s, "free") /\ held' = [held EXCEPT ![s] = 0]
  /\ UNCHANGED <<listed, queue, last, prod, client, gone, lost>>

----------------------------------------------------------------------------
(* ServerPoller.run *)

Poll(s) ==
  /\ cpc = "sleep" /\ hpc[s] = "free"
  /\ Answer(s, "test")
  /\ cpc' = "wait" /\ cur' = s
  /\ UNCHANGED <<listed, queue, last, prod, held, got, gone, lost>>

\* The response is read: a command to execute, {} or a ClientResponseError.
Receive ==
  /\ cpc = "wait" /\ cur # Nobody
  /\ hpc[cur] \in {"empty", "command", "error"}
  /\ IF hpc[cur] = "command"
       THEN cpc' = "execute" /\ got' = Append(got, held[cur])
       ELSE cpc' = "sleep" /\ UNCHANGED got
  /\ Answer(cur, "free") /\ held' = [held EXCEPT ![cur] = 0]
  /\ cur' = Nobody
  /\ UNCHANGED <<listed, queue, last, prod, gone, lost>>

\* The command has been carried out or was malformed.
Execute ==
  /\ cpc = "execute" /\ cpc' = "sleep"
  /\ UNCHANGED <<server, cur, got, gone, lost>>

\* Ten seconds are over or the connection broke; the handler goes on.
GiveUp ==
  /\ cpc = "wait" /\ cur # Nobody
  /\ cpc' = "sleep" /\ cur' = Nobody
  /\ Lose("abandoned", {held[cur]} \ {0})
  /\ UNCHANGED <<server, got, lost>>

\* Seeded fault: the exception ends the loop.
GiveUpForGood ==
  /\ cpc = "wait" /\ cur = Nobody
  /\ cpc' = "dead"
  /\ UNCHANGED <<server, cur, got, gone, lost>>

\* The same for a request that no handler answers.
GiveUpUnheard ==
  /\ cpc = "wait" /\ cur = Nobody
  /\ cpc' = "sleep"
  /\ UNCHANGED <<server, cur, got, gone, lost>>

\* A request that does not reach the server.
RequestLost ==
  /\ cpc = "sleep" /\ lost < MaxLost
  /\ cpc' = "wait" /\ lost' = lost + 1
  /\ UNCHANGED <<server, cur, got, gone>>

----------------------------------------------------------------------------

\* The server process ends and comes back: COMMAND_QUEUE is in memory only.
ServerRestart ==
  /\ listed' = FALSE /\ queue' = <<>>
  /\ gone' = [gone EXCEPT !["restart"] = @ \cup Range(queue)
                 \cup (IF cur = Nobody THEN {} ELSE {held[cur]} \ {0})]
  /\ prod' = [p \in Producers |-> "idle"]
  /\ hpc' = [s \in Slots |-> "free"] /\ held' = [s \in Slots |-> 0]
  /\ cur' = Nobody
  /\ UNCHANGED <<last, cpc, got, lost>>

Handler(s) ==
  \/ HandlerTest(s) \/ HandlerLook(s) \/ HandlerPop(s)
  \/ HandlerPopFails(s) \/ HandlerEnds(s)

Producer(p) == QueueTest(p) \/ QueueAssign(p) \/ QueueAppend(p)

Client == (\E s \in Slots : Poll(s)) \/ Receive \/ Execute \/ GiveUpUnheard

Next ==
  \/ \E p \in Producers : Producer(p)
  \/ \E s \in Slots : Handler(s)
  \/ Client \/ GiveUp \/ RequestLost
  \/ ServerRestart

Spec == Init /\ [][Next]_vars

\* The web server's threads run and the client's loop goes on: it catches
\* what its requests raise and sleeps.  Losing requests is not forced.
FairSpec ==
  /\ Spec /\ WF_vars(Client)
  /\ \A s \in Slots : WF_vars(Handler(s))

----------------------------------------------------------------------------
Commands == 1..MaxCommands

\* Every variable has a value the code can give it; in particular the poller
\* is always in its loop, whatever its requests raise.
TypeOK ==
  /\ listed \in BOOLEAN /\ queue \in Seq(Commands) /\ last \in 0..MaxCommands
  /\ prod \in [Producers -> {"idle", "assign", "append"}]
  /\ hpc \in [Slots -> {"free", "test", "look", "pop", "empty", "command", "error"}]
  /\ held \in [Slots -> 0..MaxCommands]
  /\ cpc \in {"sleep", "wait", "execute"} /\ cur \in Slots \cup {Nobody}
  /\ got \in Seq(Commands) /\ gone \in [Causes -> SUBSET Commands]
  /\ lost \in 0..MaxLost

\* The places a command that was queued can be in.
Places(c) ==
  {<<"queue", i>> : i \in {j \in 1..Len(queue) : queue[j] = c}}
    \cup (IF cur # Nobody /\ held[cur] = c THEN {<<"answer", 0>>} ELSE {})
    \cup {<<"client", i>> : i \in {j \in 1..Len(got) : got[j] = c}}
    \cup {<<"gone", k>> : k \in {j \in Causes : c \in gone[j]}}

\* A queued command is in one place at a time, and it is lost only to two
\* queue_command that meet on a missing list (p2pool_helper.py:174), to a poll
\* the client gave up, or to a restart of the server.
Conserved == \A c \in 1..last : Cardinality(Places(c)) = 1

\* The abstract channel this module implements.
Fifo == INSTANCE LossyFifo WITH
  last <- last,
  chan <- (IF cur # Nobody /\ held[cur] # 0 THEN <<held[cur]>> ELSE <<>>) \o queue,
  got <- got

\* The client executes what get_command hands out at most once and in the
\* order it was queued, whatever polls overlap, fail or come late.
AtMostOnceInOrder == Fifo!Spec

\* A queued command does not wait for ever: the client gets it or it is lost.
CommandSettles ==
  \A c \in Commands :
    (c <= last) ~> (c \in Range(got) \/ \E k \in Causes : c \in gone[k])
=============================================================================
