----------------------------- MODULE BoundedFIFO -----------------------------
(***************************************************************************)
(* What the ring promises its users (spec.md 1, 4.1, I3): a FIFO queue of  *)
(* at most Capacity elements.  An element enters the queue when a producer *)
(* claims its place (the linearization point is the tail CAS, spec 4.1    *)
(* tie-break note) and leaves it when the consumer takes it; out is the   *)
(* sequence of elements taken so far.  Publishing, waiting, waking and    *)
(* closing are invisible at this level.                                    *)
(***************************************************************************)
EXTENDS Naturals, Sequences

CONSTANTS Capacity, Values

VARIABLES queue, out

fifoVars == <<queue, out>>

Init ==
    /\ queue = <<>>
    /\ out = <<>>

\* A producer claims a place for v; only while fewer than Capacity wait.
Enqueue(v) ==
    /\ Len(queue) < Capacity
    /\ queue' = Append(queue, v)
    /\ UNCHANGED out

\* The consumer takes the oldest element.
Dequeue ==
    /\ queue # <<>>
    /\ out' = Append(out, Head(queue))
    /\ queue' = Tail(queue)

Next == (\E v \in Values : Enqueue(v)) \/ Dequeue

Spec == Init /\ [][Next]_fifoVars

=============================================================================
