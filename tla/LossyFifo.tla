------------------------------ MODULE LossyFifo ------------------------------
(***************************************************************************)
(* What the server's channels promise: things sent one after another under *)
(* growing numbers are received at most once and in the order they were    *)
(* sent.  Any of them may get lost on the way, and none comes back.  The   *)
(* command channel to a client, the event log pipeline and the packet      *)
(* bridge implement it.                                                    *)
(***************************************************************************)
EXTENDS Naturals, Sequences, Functions

VARIABLES
  last,   \* the number of the newest thing sent
  chan,   \* the numbers still on their way, oldest first
  got     \* the numbers received, oldest first

vars == <<last, chan, got>>

Increasing(s) == \A i, j \in 1..Len(s) : i < j => s[i] < s[j]

Init == last = 0 /\ chan = <<>> /\ got = <<>>

\* Something new is sent; it may be lost at once.
Send ==
  /\ last' \in Nat /\ last < last'
  /\ chan' \in {chan, Append(chan, last')}
  /\ UNCHANGED got

\* What is left is still in order: an increasing selection of the numbers.
Lose ==
  /\ chan' \in Seq(Nat) /\ Increasing(chan')
  /\ Range(chan') \subseteq Range(chan)
  /\ UNCHANGED <<last, got>>

\* Those from the m-th to the n-th arrive; older ones are lost.
Deliver ==
  \E m, n \in 1..Len(chan) :
    /\ m <= n
    /\ got' = got \o SubSeq(chan, m, n)
    /\ chan' = SubSeq(chan, n + 1, Len(chan))
    /\ UNCHANGED last

Next == Send \/ Lose \/ Deliver

Spec == Init /\ [][Next]_vars

----------------------------------------------------------------------------
\* Numbers and sequences of numbers: what the three channels count with.
TypeOK == last \in Nat /\ chan \in Seq(Nat) /\ got \in Seq(Nat)

\* Nothing is received twice or out of order, and nothing that is still on
\* its way is older than something received: pop(0) in get_command
\* (p2pool_endpoints.py), the two log readers and the packet worker.
InOrder ==
  /\ Increasing(got) /\ Increasing(chan)
  /\ \A i \in 1..Len(got), j \in 1..Len(chan) : got[i] < chan[j]
  /\ \A i \in 1..Len(got) : got[i] <= last
  /\ \A j \in 1..Len(chan) : chan[j] <= last
=============================================================================
