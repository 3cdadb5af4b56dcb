------------------------------ MODULE EventLog ------------------------------
(***************************************************************************)
(* The event log pipeline of server/p2pool_data.py: P2Pool's output is     *)
(* appended to RAW_LOG, RawLogProcessor follows that file and logs what it *)
(* recognises with log_event_now, AsyncEventLogger moves log_queue into    *)
(* EVENT_LOG, and EventProcessor follows EVENT_LOG and counts.  Three      *)
(* threads and the asyncio loop meet only in the two files and the queue.  *)
(*                                                                         *)
(* Lines are numbered as they come and have one length: an offset in a     *)
(* file is a number of lines.  An "event" line is one that _classify_line  *)
(* knows, "data" starts a New Miner Data block and "dash" (or a blank line) *)
(* ends one; outside a block it stands for every line that is skipped.     *)
(***************************************************************************)
EXTENDS Naturals, Sequences, Functions, FiniteSets

CONSTANTS MaxPrinted, \* bound: lines P2Pool prints in a behaviour
          MaxDirect,  \* bound: log_event_now calls of other threads
          QueueSize,  \* maxsize of log_queue, 50000 in the code
          Bootstrap   \* bootstrap_lines, 5000 in the code

ASSUME BoundsAssumption ==
  /\ MaxPrinted \in Nat /\ MaxDirect \in Nat
  /\ QueueSize \in Nat \ {0} /\ Bootstrap \in Nat \ {0}

MaxLines == MaxPrinted + MaxDirect
Kinds  == {"event", "data", "dash"}
Causes == {"truncated", "swallowed", "full", "old", "window", "cancelled"}

VARIABLES
  last,     \* lines so far
  kind,     \* the kind of each line, "direct" for a log_event_now of others
  raw,      \* the lines in RAW_LOG
  rawPos,   \* RawLogProcessor's offset in it
  ahead,    \* the lines it has read ahead into its buffer
  block,    \* first line of miner_data_block, 0 when not in_miner_data
  queue,    \* log_queue
  wpc,      \* AsyncEventLogger.writer_loop: at get, write, left
            \* (cancelled, its last get() goes on) or done
  wline,    \* the line it has taken, 0 for none
  evlog,    \* the lines in EVENT_LOG
  epc,      \* EventProcessor: to hydrate, to seek, following the file
  epos,     \* its offset in EVENT_LOG
  counted,  \* the events it has counted
  stop,     \* stop_event
  lost      \* the events lost, by cause

reader == <<raw, rawPos, ahead, block>>
writer == <<wpc, wline, evlog>>
events == <<epc, epos, counted>>
vars == <<last, kind, raw, rawPos, ahead, block, queue, wpc, wline, evlog, epc, epos,
          counted, stop, lost>>

\* Both files have been emptied by application_main_loop.
Init ==
  /\ last = 0 /\ kind = [i \in 1..MaxLines |-> "none"]
  /\ raw = <<>> /\ rawPos = 0 /\ ahead = <<>> /\ block = 0
  /\ queue = <<>> /\ wpc = "get" /\ wline = 0 /\ evlog = <<>>
  /\ epc = "hydrate" /\ epos = 0 /\ counted = <<>>
  /\ stop = FALSE
  /\ lost = [c \in Causes |-> {}]

\* How many lines so far are direct entries, or P2Pool's.
Direct  == Cardinality({i \in 1..last : kind[i] = "direct"})
Printed == last - Direct

Shown(i) == kind[i] \in {"event", "data", "direct"}

Lose(cause, S) == lost' = [lost EXCEPT ![cause] = @ \cup {i \in S : Shown(i)}]

\* What is in s after its first n lines.
After(s, n) == SubSeq(s, n + 1, Len(s))

\* Seeded fault: the queue has no maxsize.
LogEventUnbounded(i) == queue' = Append(queue, i) /\ UNCHANGED lost

\* log_event_now: put_nowait, and on queue.Full the new line is dropped.
LogEvent(i) ==
  IF Len(queue) < QueueSize
    THEN queue' = Append(queue, i) /\ UNCHANGED lost
    ELSE Lose("full", {i}) /\ UNCHANGED queue

----------------------------------------------------------------------------
(* RAW_LOG *)

\* _redirect_output appends a line.  Below the reader's offset nobody sees it.
PrintLine(k) ==
  /\ Printed < MaxPrinted /\ last' = last + 1
  /\ kind' = [kind EXCEPT ![last + 1] = k]
  /\ raw' = Append(raw, last + 1)
  /\ lost' = IF Len(raw) < rawPos /\ k \in {"event", "data"}
               THEN [lost EXCEPT !["truncated"] = @ \cup {last + 1}] ELSE lost
  /\ UNCHANGED <<rawPos, ahead, block, queue, writer, events, stop>>

\* restart_p2pool clears the file: what is not in the reader's buffer is
\* gone, and the reader keeps its offset.
Truncate ==
  /\ raw # <<>> /\ raw' = <<>>
  /\ Lose("truncated", Range(After(raw, rawPos)))
  /\ UNCHANGED <<last, kind, rawPos, ahead, block, queue, writer, events, stop>>

\* readline at the end of the buffer: a chunk of the file holds all of it.
Fetch ==
  /\ ~stop /\ ahead = <<>> /\ rawPos < Len(raw)
  /\ ahead' = After(raw, rawPos) /\ rawPos' = Len(raw)
  /\ UNCHANGED <<last, kind, raw, block, queue, writer, events, stop, lost>>

Unread   == ~stop /\ ahead # <<>>
Line     == Head(ahead)
ReadLine == ahead' = Tail(ahead) /\ UNCHANGED rawPos

ReadEvent ==
  /\ Unread /\ block = 0 /\ kind[Line] = "event"
  /\ ReadLine /\ LogEvent(Line)
  /\ UNCHANGED <<last, kind, raw, block, writer, events, stop>>

\* A block begins, or a line that is neither event nor block is skipped.
ReadOther ==
  /\ Unread /\ block = 0 /\ kind[Line] # "event"
  /\ ReadLine
  /\ block' = IF kind[Line] = "data" THEN Line ELSE 0
  /\ UNCHANGED <<last, kind, raw, queue, writer, events, stop, lost>>

\* Seeded fault: an event inside a block is logged and kept in the block too.
CollectLoosely ==
  /\ Unread /\ block # 0 /\ kind[Line] # "dash"
  /\ ReadLine
  /\ IF kind[Line] = "event" THEN LogEvent(Line) ELSE UNCHANGED <<queue, lost>>
  /\ UNCHANGED <<last, kind, raw, block, writer, events, stop>>

\* Inside a block every line up to the next dash belongs to it.
Collect ==
  /\ Unread /\ block # 0 /\ kind[Line] # "dash"
  /\ ReadLine
  /\ Lose("swallowed", {Line})
  /\ UNCHANGED <<last, kind, raw, block, queue, writer, events, stop>>

EndBlock ==
  /\ Unread /\ block # 0 /\ kind[Line] = "dash"
  /\ ReadLine
  /\ LogEvent(block) /\ block' = 0
  /\ UNCHANGED <<last, kind, raw, writer, events, stop>>

\* log_event_now from any other thread.
LogDirect ==
  /\ Direct < MaxDirect /\ last' = last + 1
  /\ kind' = [kind EXCEPT ![last + 1] = "direct"]
  /\ IF Len(queue) < QueueSize
       THEN queue' = Append(queue, last + 1) /\ UNCHANGED lost
       ELSE lost' = [lost EXCEPT !["full"] = @ \cup {last + 1}] /\ UNCHANGED queue
  /\ UNCHANGED <<reader, writer, events, stop>>

----------------------------------------------------------------------------
(* AsyncEventLogger *)

WriterGet ==
  /\ wpc = "get" /\ queue # <<>>
  /\ wline' = Head(queue) /\ queue' = Tail(queue) /\ wpc' = "write"
  /\ UNCHANGED <<last, kind, reader, evlog, events, stop, lost>>

WriterWrite ==
  /\ wpc = "write"
  /\ evlog' = Append(evlog, wline) /\ wline' = 0 /\ wpc' = "get"
  /\ UNCHANGED <<last, kind, reader, queue, events, stop, lost>>

\* Seeded fault: the loop ends with stop_event, whatever is queued.
WriterStopsAtOnce ==
  /\ wpc = "get" /\ wpc' = "done"
  /\ UNCHANGED <<last, kind, reader, queue, wline, evlog, events, stop, lost>>

\* stop_event is set and the queue is empty.
WriterDone ==
  /\ wpc = "get" /\ stop /\ queue = <<>> /\ wpc' = "done"
  /\ UNCHANGED <<last, kind, reader, queue, wline, evlog, events, stop, lost>>

\* AsyncEventLogger.stop cancels the task: a line that get() has already
\* taken in its thread is not written.
WriterCancelled ==
  /\ stop /\ wpc \in {"get", "write"}
  /\ wpc' = IF wpc = "get" THEN "left" ELSE "done"
  /\ Lose("cancelled", {wline} \ {0}) /\ wline' = 0
  /\ UNCHANGED <<last, kind, reader, queue, evlog, events, stop>>

\* A get() still waiting in its thread may take a line yet, for nobody.
LeftGet ==
  /\ wpc = "left" /\ queue # <<>> /\ wpc' = "done"
  /\ queue' = Tail(queue) /\ Lose("cancelled", {Head(queue)})
  /\ UNCHANGED <<last, kind, reader, wline, evlog, events, stop>>

----------------------------------------------------------------------------
(* EventProcessor *)

\* _hydrate_from_existing_file: the last lines of the file are counted.
Hydrate ==
  LET old == IF Len(evlog) > Bootstrap THEN Len(evlog) - Bootstrap ELSE 0
  IN  /\ epc = "hydrate" /\ ~stop /\ epc' = "seek"
      /\ counted' = counted \o After(evlog, old)
      /\ epos' = Len(evlog)
      /\ Lose("old", {evlog[i] : i \in 1..old})
      /\ UNCHANGED <<last, kind, reader, queue, writer, stop>>

\* Seeded fault: the file is followed from its beginning.
SeekStart ==
  /\ epc = "seek" /\ epc' = "tail" /\ epos' = 0
  /\ UNCHANGED <<last, kind, reader, queue, writer, counted, stop, lost>>

\* The file is opened again and followed from its end: what was written
\* since it was read is not counted.
SeekEnd ==
  /\ epc = "seek" /\ epc' = "tail" /\ epos' = Len(evlog)
  /\ Lose("window", Range(After(evlog, epos)))
  /\ UNCHANGED <<last, kind, reader, queue, writer, counted, stop>>

Count ==
  /\ epc = "tail" /\ ~stop /\ epos < Len(evlog)
  /\ counted' = Append(counted, evlog[epos + 1]) /\ epos' = epos + 1
  /\ UNCHANGED <<last, kind, reader, queue, writer, epc, stop, lost>>

Shutdown ==
  /\ ~stop /\ stop' = TRUE
  /\ UNCHANGED <<last, kind, reader, queue, writer, events, lost>>

----------------------------------------------------------------------------
Reader == Fetch \/ ReadEvent \/ ReadOther \/ Collect \/ EndBlock
Writer == WriterGet \/ WriterWrite \/ WriterDone
Events == Hydrate \/ SeekEnd \/ Count

Next ==
  \/ \E k \in Kinds : PrintLine(k)
  \/ Truncate \/ LogDirect \/ Shutdown \/ WriterCancelled \/ LeftGet
  \/ Reader \/ Writer \/ Events

Spec == Init /\ [][Next]_vars

\* Each thread sleeps a little and looks again for as long as it runs.
FairSpec == Spec /\ WF_vars(Reader) /\ WF_vars(Writer) /\ WF_vars(Events)

----------------------------------------------------------------------------
Lines == 1..MaxLines

\* Every variable has a value the code can give it; in particular log_queue
\* never exceeds its maxsize, whoever logs.
TypeOK ==
  /\ last \in 0..MaxLines /\ kind \in [Lines -> Kinds \cup {"direct", "none"}]
  /\ raw \in Seq(Lines) /\ ahead \in Seq(Lines)
  /\ rawPos \in 0..MaxLines /\ block \in 0..MaxLines
  /\ queue \in Seq(Lines) /\ Len(queue) <= QueueSize
  /\ wpc \in {"get", "write", "left", "done"} /\ wline \in 0..MaxLines
  /\ evlog \in Seq(Lines) /\ epc \in {"hydrate", "seek", "tail"}
  /\ epos \in 0..MaxLines /\ counted \in Seq(Lines)
  /\ stop \in BOOLEAN /\ lost \in [Causes -> SUBSET Lines]

One(i) == IF i = 0 THEN <<>> ELSE <<i>>

\* All that is on its way, oldest first, and what has arrived.
OnTheWay ==
  After(evlog, epos) \o One(wline) \o queue
    \o One(block) \o ahead \o After(raw, rawPos)

At(s, i) == Cardinality({j \in 1..Len(s) : s[j] = i})

\* Every event printed or logged is on its way once, counted once, or lost
\* once for a reason that is named: no thread drops or repeats another one.
EveryEventAccounted ==
  \A i \in 1..last :
    Shown(i) => At(OnTheWay, i) + At(counted, i)
                  + Cardinality({c \in Causes : i \in lost[c]}) = 1

\* The elements of s that are in S, in their order.
Selected(s, S) ==
  LET f[n \in 0..Len(s)] ==
        IF n = 0 THEN <<>>
        ELSE IF s[n] \in S THEN Append(f[n - 1], s[n]) ELSE f[n - 1]
  IN  f[Len(s)]

\* The abstract channel this module implements.
FromP2Pool == {i \in Lines : kind[i] \in {"event", "data"}}
Fifo == INSTANCE LossyFifo WITH
  last <- last,
  chan <- Selected(OnTheWay, FromP2Pool),
  got <- Selected(counted, FromP2Pool)

\* P2Pool's events are counted at most once and in the order P2Pool printed
\* them, through two files that are truncated and reopened and a queue that
\* may be full.
CountedOnceInOrder == Fifo!Spec

\* An event line is counted in the end, or lost for one of the reasons, as
\* long as the application runs.
EventSettles ==
  \A i \in Lines :
    (i <= last /\ kind[i] = "event") ~>
      (stop \/ i \in Range(counted) \/ \E c \in Causes : i \in lost[c])
=============================================================================
