------------------------------ MODULE WaitQueue ------------------------------
(***************************************************************************)
(* The intrusive waiter queue of spec.md 4.3 (the Rust type is not under   *)
(* src/; this module is written from the spec).  A queue holds the wait    *)
(* nodes of parked tasks in link order; each node is "unlinked", "linked"  *)
(* or "notified" (popped by a notification its task has not yet consumed   *)
(* by being polled).  Waking a task's token is modelled by adding the task *)
(* to the set woken, which the executor drains by polling the task.        *)
(* Every operation runs under the queue's lock, so each is one step.       *)
(***************************************************************************)
EXTENDS Sequences, Functions

CONSTANT Tasks

VARIABLES
    waiters,    \* the linked nodes, oldest first
    node,       \* node[t]: state of task t's wait node
    qclosed,    \* the queue was closed
    woken       \* tasks whose stored token has been woken

qVars == <<waiters, node, qclosed, woken>>

NodeStates == {"unlinked", "linked", "notified"}

QInit ==
    /\ waiters = <<>>
    /\ node = [t \in Tasks |-> "unlinked"]
    /\ qclosed = FALSE
    /\ woken = {}

(***************************************************************************)
(* start_wait(&node, make_token): Closed if the queue is closed; TryAgain  *)
(* if the condition that blocked the caller (ready) holds when re-checked  *)
(* under the lock; otherwise install the token and link the node (Wait).   *)
(***************************************************************************)
StartWaitLink(t, ready) ==
    /\ ~qclosed
    /\ ~ready
    /\ waiters' = Append(waiters, t)
    /\ node' = [node EXCEPT ![t] = "linked"]
    /\ UNCHANGED <<qclosed, woken>>

(***************************************************************************)
(* continue_wait(&node, update_token): the node is taken to be linked and  *)
(* only its token may be replaced.  Replacing the token is invisible here: *)
(* a token is just "wake this task".  Nothing is linked.                   *)
(***************************************************************************)
ContinueWait == UNCHANGED qVars

\* notify_one: pop the oldest node, hand it the notification, wake it.
NotifyOne ==
    \/ /\ waiters = <<>>
       /\ UNCHANGED qVars
    \/ /\ waiters # <<>>
       /\ waiters' = Tail(waiters)
       /\ node' = [node EXCEPT ![Head(waiters)] = "notified"]
       /\ woken' = woken \cup {Head(waiters)}
       /\ UNCHANGED qclosed

\* close: set closed, drain every linked node and wake each.
CloseQueue ==
    /\ qclosed' = TRUE
    /\ waiters' = <<>>
    /\ node' = [t \in Tasks |-> IF t \in Range(waiters) THEN "notified"
                                                        ELSE node[t]]
    /\ woken' = woken \cup Range(waiters)

\* The woken task is polled: its notification is consumed.
Consume(t) ==
    /\ node' = [node EXCEPT ![t] = "unlinked"]
    /\ woken' = woken \ {t}
    /\ UNCHANGED <<waiters, qclosed>>

\* Faulty variant of Remove: an unconsumed notification is dropped with
\* the node instead of being handed to the next waiter.
RemoveNoPassOn(t) ==
    /\ waiters' = SelectSeq(waiters, LAMBDA x : x # t)
    /\ node' = [node EXCEPT ![t] = "unlinked"]
    /\ woken' = woken \ {t}
    /\ UNCHANGED qclosed

(***************************************************************************)
(* remove(&node), for cancellation: unlink the node if it is linked; if it *)
(* holds a notification not yet consumed, pass that notification on to    *)
(* the next waiter.  Idempotent on an unlinked node.                       *)
(***************************************************************************)
Remove(t) ==
    LET rest == SelectSeq(waiters, LAMBDA x : x # t)
        \* t holds a notification it never consumed and another node waits
        passOn == node[t] = "notified" /\ rest # <<>>
    IN  \/ /\ ~passOn
           /\ waiters' = rest
           /\ node' = [node EXCEPT ![t] = "unlinked"]
           /\ woken' = woken \ {t}
           /\ UNCHANGED qclosed
        \/ /\ passOn
           /\ waiters' = Tail(rest)
           /\ node' = [node EXCEPT ![t] = "unlinked", ![Head(rest)] = "notified"]
           /\ woken' = (woken \ {t}) \cup {Head(rest)}
           /\ UNCHANGED qclosed

=============================================================================
