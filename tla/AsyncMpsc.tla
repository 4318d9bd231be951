------------------------------ MODULE AsyncMpsc ------------------------------
(***************************************************************************)
(* The async MPSC channel of src/src/mpsc/async_impl.rs, composed with the *)
(* ring (Core), the producers' wait queue tx_wait (WaitQueue) and the      *)
(* receiver's wait slot rx_wait.                                           *)
(*                                                                         *)
(* Each producer is an async task owning at most one Sender; it sends with *)
(* send(val), i.e. send_ref().await then a write and the SendRef's drop.   *)
(* A poll of SendRefFuture runs poll_send_ref (one try_send_ref loop       *)
(* iteration and one wait-queue call) and is split at every shared access: *)
(* load tail, load the slot generation and CAS, the wait-queue call.  The  *)
(* single receiver task loops on recv().await.                             *)
(*                                                                         *)
(* Receiver::poll_recv_ref passes no wait node, only a waker factory       *)
(* (src 205-206), so rx_wait holds one registered waker: registering       *)
(* replaces it (the doc comment of src 200-204).                           *)
(***************************************************************************)
EXTENDS Integers, Sequences, FiniteSets, Functions

CONSTANTS
    Producers,  \* producer tasks
    MaxSends,   \* bound on the values one producer sends
    CAP, Wrap, NoValue

ASSUME MaxSends \in Nat /\ Producers # {}

VARIABLES
    tail, head, closed, gen, slotVal,           \* Core
    txWaiters, txNode, txClosed, txWoken,       \* tx_wait and producer wakers
    rxRegistered, rxClosed, rxWoken,            \* rx_wait and the receiver's waker
    pc,             \* pc[p]: where producer task p is
    lt,             \* lt[p]: the tail value p loaded in try_send_ref
    hasBeenQueued,  \* SendRefFuture::has_been_queued of p's pending send
    mode,           \* mode[p]: "send" (send().await) or "try" (try_send)
    sent,           \* sent[p]: values p has published
    txCount,        \* Inner::tx_count
    rxPc,           \* where the receiver task is
    rxIdx,          \* the head value of the slot the receiver holds
    received        \* history: values the receiver took, in order

INSTANCE Core

Tx == INSTANCE WaitQueue WITH Tasks <- Producers, waiters <- txWaiters,
        node <- txNode, qclosed <- txClosed, woken <- txWoken

ringVars == <<tail, head, closed, gen, slotVal>>
txVars == <<txWaiters, txNode, txClosed, txWoken>>
rxVars == <<rxRegistered, rxClosed, rxWoken>>
prodVars == <<pc, lt, hasBeenQueued, mode, sent, txCount>>
recvVars == <<rxPc, rxIdx, received>>
vars == <<ringVars, txVars, rxVars, prodVars, recvVars>>

\* Messages: the i-th value producer p sends.
Msg == Producers \X (1 .. MaxSends)

\* States of a producer whose send is pending (a SendRefFuture exists).
Pending == {"load", "claim", "wait", "parked"}

(***************************************************************************)
(* channel(): one Sender and the Receiver share a fresh Inner; the         *)
(* remaining producer tasks obtain a Sender by Clone.                      *)
(***************************************************************************)
Init ==
    /\ CoreInit
    /\ Tx!QInit
    /\ rxRegistered = FALSE /\ rxClosed = FALSE /\ rxWoken = FALSE
    /\ \E p0 \in Producers :
         pc = [p \in Producers |-> IF p = p0 THEN "idle" ELSE "none"]
    /\ lt = [p \in Producers |-> 0]
    /\ hasBeenQueued = [p \in Producers |-> FALSE]
    /\ mode = [p \in Producers |-> "send"]
    /\ sent = [p \in Producers |-> 0]
    /\ txCount = 1
    /\ rxPc = "idle" /\ rxIdx = 0 /\ received = <<>>

\* The poll returned Ready: has_been_queued is cleared (the .map on Ready).
Ready(p, next) ==
    /\ pc' = [pc EXCEPT ![p] = next]
    /\ hasBeenQueued' = [hasBeenQueued EXCEPT ![p] = FALSE]

\* send(val): build a SendRefFuture (has_been_queued = false) and poll it.
SendStart(p) ==
    /\ pc[p] = "idle"
    /\ sent[p] < MaxSends
    /\ pc' = [pc EXCEPT ![p] = "load"]
    /\ hasBeenQueued' = [hasBeenQueued EXCEPT ![p] = FALSE]
    /\ mode' = [mode EXCEPT ![p] = "send"]
    /\ UNCHANGED <<ringVars, txVars, rxVars, lt, sent, txCount, recvVars>>

\* Sender::try_send(val) / try_send_ref: one claim attempt, no future and no
\* wait node; Full and Closed are returned to the caller.
TrySendStart(p) ==
    /\ pc[p] = "idle"
    /\ sent[p] < MaxSends
    /\ pc' = [pc EXCEPT ![p] = "load"]
    /\ mode' = [mode EXCEPT ![p] = "try"]
    /\ UNCHANGED <<ringVars, txVars, rxVars, lt, hasBeenQueued, sent, txCount,
                   recvVars>>

\* try_send_ref, first load: tail with its closed bit.  Closed ends the poll.
LoadTail(p) ==
    /\ pc[p] = "load"
    /\ \/ /\ closed
          /\ Ready(p, "idle")
          /\ UNCHANGED lt
       \/ /\ ~closed
          /\ lt' = [lt EXCEPT ![p] = tail]
          /\ pc' = [pc EXCEPT ![p] = "claim"]
          /\ UNCHANGED hasBeenQueued
    /\ UNCHANGED <<ringVars, txVars, rxVars, mode, sent, txCount, recvVars>>

\* try_send_ref, second load and compare: claim by CAS, retry, or Full/Closed.
Claim(p) ==
    LET t == lt[p]
        d == SlotDiff(t)
    IN  /\ pc[p] = "claim"
        /\ \/ /\ d = 0
              /\ PushCAS(t)
              /\ Ready(p, "holding")
           \/ /\ d = 0
              /\ ~(tail = t /\ ~closed)
              /\ pc' = [pc EXCEPT ![p] = "load"]
              /\ UNCHANGED <<tail, hasBeenQueued>>
           \/ /\ d > 0
              /\ pc' = [pc EXCEPT ![p] = "load"]
              /\ UNCHANGED <<tail, hasBeenQueued>>
           \/ /\ d < 0
              /\ closed
              /\ Ready(p, "idle")
              /\ UNCHANGED tail
           \/ /\ d < 0
              /\ ~closed
              /\ mode[p] = "send"
              /\ pc' = [pc EXCEPT ![p] = "wait"]
              /\ UNCHANGED <<tail, hasBeenQueued>>
           \/ /\ d < 0
              /\ ~closed
              /\ mode[p] = "try"
              /\ Ready(p, "idle")
              /\ UNCHANGED tail
        /\ UNCHANGED <<head, closed, gen, slotVal, txVars, rxVars, lt, mode, sent,
                       txCount, recvVars>>

\* The condition that made the producer wait, re-checked under the lock.
TxReady == SlotDiff(tail) = 0

\* Faulty variant of StartWait: a TryAgain from the queue is taken as the
\* slot being acquired, without going back to the tail CAS.
StartWaitTakesSlot(p) ==
    /\ pc[p] = "wait"
    /\ \/ /\ txClosed
          /\ Ready(p, "idle")
          /\ UNCHANGED txVars
       \/ /\ ~hasBeenQueued[p]
          /\ ~txClosed /\ TxReady
          /\ Ready(p, "holding")
          /\ UNCHANGED txVars
       \/ /\ ~hasBeenQueued[p]
          /\ Tx!StartWaitLink(p, TxReady)
          /\ hasBeenQueued' = [hasBeenQueued EXCEPT ![p] = TRUE]
          /\ pc' = [pc EXCEPT ![p] = "parked"]
       \/ /\ hasBeenQueued[p]
          /\ ~txClosed
          /\ Tx!ContinueWait
          /\ pc' = [pc EXCEPT ![p] = "parked"]
          /\ UNCHANGED hasBeenQueued
    /\ UNCHANGED <<ringVars, rxVars, lt, mode, sent, txCount, recvVars>>

(***************************************************************************)
(* The wait-queue call of poll_send_ref.  The future passes its node only  *)
(* while has_been_queued is false (src 93-97); the register closure sets   *)
(* has_been_queued when the node is queued (src 100-102).  With           *)
(* has_been_queued set the call is continue_wait.                          *)
(***************************************************************************)
StartWait(p) ==
    /\ pc[p] = "wait"
    /\ \/ /\ txClosed
          /\ Ready(p, "idle")
          /\ UNCHANGED txVars
       \/ /\ ~hasBeenQueued[p]
          /\ ~txClosed /\ TxReady
          /\ pc' = [pc EXCEPT ![p] = "load"]
          /\ UNCHANGED <<txVars, hasBeenQueued>>
       \/ /\ ~hasBeenQueued[p]
          /\ Tx!StartWaitLink(p, TxReady)
          /\ hasBeenQueued' = [hasBeenQueued EXCEPT ![p] = TRUE]
          /\ pc' = [pc EXCEPT ![p] = "parked"]
       \/ /\ hasBeenQueued[p]
          /\ ~txClosed
          /\ Tx!ContinueWait
          /\ pc' = [pc EXCEPT ![p] = "parked"]
          /\ UNCHANGED hasBeenQueued
    /\ UNCHANGED <<ringVars, rxVars, lt, mode, sent, txCount, recvVars>>

\* The executor polls a woken SendRefFuture again.
Poll(p) ==
    /\ pc[p] = "parked"
    /\ p \in txWoken
    /\ Tx!Consume(p)
    /\ pc' = [pc EXCEPT ![p] = "load"]
    /\ UNCHANGED <<ringVars, rxVars, lt, mode, hasBeenQueued, sent, txCount, recvVars>>

\* The pending SendRefFuture is dropped: PinnedDrop removes a queued node.
Cancel(p) ==
    /\ pc[p] = "parked"
    /\ hasBeenQueued[p]
    /\ Tx!Remove(p)
    /\ pc' = [pc EXCEPT ![p] = "idle"]
    /\ UNCHANGED <<ringVars, rxVars, lt, mode, hasBeenQueued, sent, txCount, recvVars>>

\* send: write val through the SendRef; its drop publishes the slot.
Publish(p) ==
    /\ pc[p] = "holding"
    /\ PublishSlot(lt[p], <<p, sent[p] + 1>>)
    /\ sent' = [sent EXCEPT ![p] = @ + 1]
    /\ pc' = [pc EXCEPT ![p] = "notify"]
    /\ UNCHANGED <<tail, head, closed, txVars, rxVars, lt, mode, hasBeenQueued,
                   txCount, recvVars>>

\* The SendRef's drop then notifies rx_wait: wake the registered waker.
NotifyRx(p) ==
    /\ pc[p] = "notify"
    /\ \/ /\ rxRegistered
          /\ rxWoken' = TRUE
          /\ rxRegistered' = FALSE
       \/ /\ ~rxRegistered
          /\ UNCHANGED <<rxRegistered, rxWoken>>
    /\ pc' = [pc EXCEPT ![p] = "idle"]
    /\ UNCHANGED <<ringVars, txVars, rxClosed, lt, mode, hasBeenQueued, sent,
                   txCount, recvVars>>

\* Sender::clone: tx_count + 1, handed to a task without a Sender.
Clone(p, q) ==
    /\ pc[p] = "idle"
    /\ pc[q] = "none"
    /\ txCount' = txCount + 1
    /\ pc' = [pc EXCEPT ![q] = "idle"]
    /\ UNCHANGED <<ringVars, txVars, rxVars, lt, mode, hasBeenQueued, sent, recvVars>>

\* Faulty variant of DropSender: the last sender closes the core only.
DropSenderNoWake(p) ==
    /\ pc[p] = "idle"
    /\ pc' = [pc EXCEPT ![p] = "gone"]
    /\ txCount' = txCount - 1
    /\ closed' = (closed \/ txCount = 1)
    /\ UNCHANGED <<tail, head, gen, slotVal, txVars, rxVars, lt, mode, hasBeenQueued,
                   sent, recvVars>>

(***************************************************************************)
(* Sender::drop: tx_count - 1; the last sender closes the core and closes *)
(* rx_wait, waking the receiver.                                           *)
(***************************************************************************)
DropSender(p) ==
    /\ pc[p] = "idle"
    /\ pc' = [pc EXCEPT ![p] = "gone"]
    /\ txCount' = txCount - 1
    /\ \/ /\ txCount > 1
          /\ UNCHANGED <<closed, rxVars>>
       \/ /\ txCount = 1
          /\ closed' = TRUE
          /\ rxClosed' = TRUE
          /\ rxWoken' = (rxWoken \/ rxRegistered)
          /\ rxRegistered' = FALSE
    /\ UNCHANGED <<tail, head, gen, slotVal, txVars, lt, mode, hasBeenQueued, sent,
                   recvVars>>

\* Receiver::recv: build a RecvFuture and poll it.
RecvStart ==
    /\ rxPc = "idle"
    /\ rxPc' = "pop"
    /\ UNCHANGED <<ringVars, txVars, rxVars, prodVars, rxIdx, received>>

\* Faulty variant of RxPop: a slot claimed but not yet published counts as
\* ready (the generation compared with head instead of head + 1).
RxPopEarly ==
    /\ rxPc = "pop"
    /\ \/ /\ HeadReadyEarly
          /\ head' = Plus(head, 1)
          /\ rxIdx' = head
          /\ rxPc' = "holding"
       \/ /\ ~HeadReadyEarly
          /\ ClosedEmpty
          /\ rxPc' = "ended"
          /\ UNCHANGED <<head, rxIdx>>
       \/ /\ ~HeadReadyEarly
          /\ ~ClosedEmpty
          /\ rxPc' = "wait"
          /\ UNCHANGED <<head, rxIdx>>
    /\ UNCHANGED <<tail, closed, gen, slotVal, txVars, rxVars, prodVars, received>>

\* poll_recv_ref, pop_ref: take the slot at head, end of stream, or wait.
RxPop ==
    /\ rxPc = "pop"
    /\ \/ /\ HeadReady
          /\ head' = Plus(head, 1)
          /\ rxIdx' = head
          /\ rxPc' = "holding"
       \/ /\ ~HeadReady
          /\ ClosedEmpty
          /\ rxPc' = "ended"
          /\ UNCHANGED <<head, rxIdx>>
       \/ /\ ~HeadReady
          /\ ~ClosedEmpty
          /\ rxPc' = "wait"
          /\ UNCHANGED <<head, rxIdx>>
    /\ UNCHANGED <<tail, closed, gen, slotVal, txVars, rxVars, prodVars, received>>

\* The condition that made the receiver wait, re-checked under the lock.
RxReady == HeadReady \/ closed

\* Faulty variant of RxWait: a closed rx_wait is taken as the end of stream.
RxWaitClosedEnds ==
    /\ rxPc = "wait"
    /\ \/ /\ rxClosed
          /\ rxPc' = "ended"
          /\ UNCHANGED rxRegistered
       \/ /\ ~rxClosed /\ RxReady
          /\ rxPc' = "pop"
          /\ UNCHANGED rxRegistered
       \/ /\ ~rxClosed /\ ~RxReady
          /\ rxRegistered' = TRUE
          /\ rxPc' = "parked"
    /\ UNCHANGED <<ringVars, txVars, rxClosed, rxWoken, prodVars, rxIdx, received>>

\* Faulty variant of RxWait: the waker is registered without re-checking.
RxWaitNoRecheck ==
    /\ rxPc = "wait"
    /\ \/ /\ rxClosed
          /\ rxPc' = "pop"
          /\ UNCHANGED rxRegistered
       \/ /\ ~rxClosed
          /\ rxRegistered' = TRUE
          /\ rxPc' = "parked"
    /\ UNCHANGED <<ringVars, txVars, rxClosed, rxWoken, prodVars, rxIdx, received>>

(***************************************************************************)
(* poll_recv_ref, rx_wait call: closed means pop again to drain what is   *)
(* left (spec 4.2: drain allowed); TryAgain pops again; else register the *)
(* waker and return Pending.                                               *)
(***************************************************************************)
RxWait ==
    /\ rxPc = "wait"
    /\ \/ /\ rxClosed
          /\ rxPc' = "pop"
          /\ UNCHANGED rxRegistered
       \/ /\ ~rxClosed /\ RxReady
          /\ rxPc' = "pop"
          /\ UNCHANGED rxRegistered
       \/ /\ ~rxClosed /\ ~RxReady
          /\ rxRegistered' = TRUE
          /\ rxPc' = "parked"
    /\ UNCHANGED <<ringVars, txVars, rxClosed, rxWoken, prodVars, rxIdx, received>>

\* The executor polls the woken RecvFuture again.
RxPoll ==
    /\ rxPc = "parked"
    /\ rxWoken
    /\ rxWoken' = FALSE
    /\ rxPc' = "pop"
    /\ UNCHANGED <<ringVars, txVars, rxRegistered, rxClosed, prodVars, rxIdx,
                   received>>

\* A pending RecvFuture is dropped; it has no Drop impl, nothing is undone.
RxCancel ==
    /\ rxPc = "parked"
    /\ rxPc' = "idle"
    /\ UNCHANGED <<ringVars, txVars, rxVars, prodVars, rxIdx, received>>

\* poll_recv: mem::take the value out; the RecvRef's drop releases the slot.
RxRelease ==
    /\ rxPc = "holding"
    /\ received' = Append(received, slotVal[IdxOf(rxIdx)])
    /\ slotVal' = [slotVal EXCEPT ![IdxOf(rxIdx)] = NoValue]
    /\ ReleaseSlot(rxIdx)
    /\ rxPc' = "notifytx"
    /\ UNCHANGED <<tail, head, closed, txVars, rxVars, prodVars, rxIdx>>

\* Faulty variant of RxNotifyTx: the RecvRef is dropped without NotifyTx.
RxNotifyTxSkipped ==
    /\ rxPc = "notifytx"
    /\ rxPc' = "idle"
    /\ UNCHANGED <<ringVars, txVars, rxVars, prodVars, rxIdx, received>>

\* ... then notifies tx_wait (NotifyTx(&tx_wait)): notify_one.
RxNotifyTx ==
    /\ rxPc = "notifytx"
    /\ Tx!NotifyOne
    /\ rxPc' = "idle"
    /\ UNCHANGED <<ringVars, rxVars, prodVars, rxIdx, received>>

\* Receiver::drop: close_rx sets closed and closes tx_wait, waking all.
DropReceiver ==
    /\ rxPc \in {"idle", "ended"}
    /\ closed' = TRUE
    /\ Tx!CloseQueue
    /\ rxPc' = "dropped"
    /\ UNCHANGED <<tail, head, gen, slotVal, rxVars, prodVars, rxIdx, received>>

\* Receiver::is_closed.
IsClosed == txCount <= 1

\* Every task has finished: the channel is gone.
Terminated ==
    /\ \A p \in Producers : pc[p] \in {"none", "gone"}
    /\ rxPc \in {"ended", "dropped"}

Next ==
    \/ \E p \in Producers :
         \/ SendStart(p) \/ TrySendStart(p) \/ LoadTail(p) \/ Claim(p) \/ StartWait(p)
         \/ Poll(p) \/ Cancel(p) \/ Publish(p) \/ NotifyRx(p) \/ DropSender(p)
    \/ \E p, q \in Producers : Clone(p, q)
    \/ RecvStart \/ RxPop \/ RxWait \/ RxPoll \/ RxCancel \/ RxRelease
    \/ RxNotifyTx \/ DropReceiver
    \/ Terminated /\ UNCHANGED vars

(***************************************************************************)
(* Fairness: a task that is running keeps running (weak fairness on every *)
(* step inside a poll and on the SendRef's write and drop), and a woken    *)
(* task is eventually polled by the executor.  The receiver task loops on  *)
(* recv().await, so it starts its next recv.  Starting a send, dropping a  *)
(* future, cloning and dropping handles are the user's choice: no fairness.*)
(***************************************************************************)
Fairness ==
    /\ \A p \in Producers :
         /\ WF_vars(LoadTail(p)) /\ WF_vars(Claim(p)) /\ WF_vars(StartWait(p))
         /\ WF_vars(Poll(p)) /\ WF_vars(Publish(p)) /\ WF_vars(NotifyRx(p))
    /\ WF_vars(RecvStart) /\ WF_vars(RxPop) /\ WF_vars(RxWait)
    /\ WF_vars(RxPoll) /\ WF_vars(RxRelease) /\ WF_vars(RxNotifyTx)

Spec == Init /\ [][Next]_vars /\ Fairness

-----------------------------------------------------------------------------
(***************************************************************************)
(* Refinement mapping onto BoundedFIFO: the abstract queue holds the       *)
(* values of the claimed indices head .. tail - 1 (a producer still        *)
(* holding its SendRef stands for the value it is writing), and out is    *)
(* what the receiver took plus the slot its RecvRef holds.                 *)
(***************************************************************************)
Writer(i) == {p \in Producers : pc[p] = "holding" /\ lt[p] = i}

ClaimedValue(i) ==
    IF Writer(i) # {} THEN LET p == CHOOSE w \in Writer(i) : TRUE
                           IN  <<p, sent[p] + 1>>
                      ELSE slotVal[IdxOf(i)]

queueMap == [k \in 1 .. RingLen |-> ClaimedValue(Plus(head, k - 1))]

outMap == IF rxPc = "holding" THEN Append(received, slotVal[IdxOf(rxIdx)])
                              ELSE received

Fifo == INSTANCE BoundedFIFO WITH Capacity <- CAP, Values <- Msg,
            queue <- queueMap, out <- outMap

-----------------------------------------------------------------------------
(***************************************************************************)
(* Properties.                                                             *)
(***************************************************************************)

TypeOK ==
    /\ tail \in Index /\ head \in Index /\ closed \in BOOLEAN
    /\ gen \in [Slots -> Index]
    /\ slotVal \in [Slots -> Msg \cup {NoValue}]
    /\ txNode \in [Producers -> Tx!NodeStates]
    /\ txClosed \in BOOLEAN /\ txWoken \subseteq Producers
    /\ rxRegistered \in BOOLEAN /\ rxClosed \in BOOLEAN /\ rxWoken \in BOOLEAN
    /\ pc \in [Producers -> {"none", "idle", "holding", "notify", "gone"} \cup Pending]
    /\ lt \in [Producers -> Index]
    /\ hasBeenQueued \in [Producers -> BOOLEAN]
    /\ mode \in [Producers -> {"send", "try"}]
    /\ sent \in [Producers -> 0 .. MaxSends]
    /\ txCount \in 0 .. Cardinality(Producers)
    /\ rxPc \in {"idle", "pop", "wait", "parked", "holding", "notifytx",
                 "ended", "dropped"}
    /\ rxIdx \in Index
    /\ received \in Seq(Msg \cup {NoValue})

(***************************************************************************)
(* No value is lost, duplicated, reordered or invented between one        *)
(* producer and the receiver (spec 8.3, 8.4): what the receiver has taken *)
(* from producer p is p's values 1, 2, ... in order.  Broken by two        *)
(* producers writing one slot, the receiver reading a slot twice or a      *)
(* slot before it is published.                                            *)
(***************************************************************************)
PerProducerFIFO ==
    /\ \A i \in 1 .. Len(received) : received[i] # NoValue
    /\ \A p \in Producers :
         LET r == SelectSeq(received, LAMBDA m : m[1] = p)
         IN  r = [i \in 1 .. Len(r) |-> <<p, i>>]

(***************************************************************************)
(* Slot ownership (spec I1): no two live references (a SendRef between the *)
(* tail CAS and its publish, the RecvRef between the head advance and its *)
(* release) designate the same slot.                                       *)
(***************************************************************************)
SlotExclusive ==
    LET writers == {p \in Producers : pc[p] = "holding"}
    IN  /\ \A p, q \in writers : p # q => IdxOf(lt[p]) # IdxOf(lt[q])
        /\ rxPc = "holding" => \A p \in writers : IdxOf(lt[p]) # IdxOf(rxIdx)

(***************************************************************************)
(* End of stream only after draining (spec 4.2, E3): when recv returns     *)
(* None, every value any producer published has been received.  Broken if *)
(* the receiver treats a closed rx_wait as the end while values published *)
(* just before the last Sender's drop are still in the ring.               *)
(***************************************************************************)
EndOfStreamOnlyWhenDrained ==
    rxPc = "ended" => Len(received) = SumFunction(sent)

(***************************************************************************)
(* No lost wakeup for the receiver (spec I5): a parked receiver that has   *)
(* not been woken is never looking at a published head slot unless the    *)
(* producer that published it is still about to notify rx_wait, and is    *)
(* never parked on a closed rx_wait.                                       *)
(***************************************************************************)
RxNoLostWakeup ==
    (rxPc = "parked" /\ ~rxWoken) =>
        /\ ~rxClosed
        /\ HeadReady => \E p \in Producers : pc[p] = "notify"

(***************************************************************************)
(* A pending send_ref can still be woken (spec I5, 8.5): a SendRefFuture   *)
(* that returned Pending either has its node linked in tx_wait or has been *)
(* woken.  Otherwise nothing will ever poll it again.                      *)
(***************************************************************************)
TxWakeable ==
    \A p \in Producers :
        pc[p] = "parked" => (txNode[p] = "linked" \/ p \in txWoken)

(***************************************************************************)
(* Receiver::is_closed reports closure: it is true only once the channel  *)
(* is closed (spec 6: "distinguishable via is_closed").                    *)
(***************************************************************************)
IsClosedReportsClosure == IsClosed => closed

(***************************************************************************)
(* The channel implements a bounded FIFO queue (spec 4.1, I1, I3): each    *)
(* send that claims a slot enqueues its value at the tail CAS, recv hands *)
(* the values out in claim order, each once, and no more than CAP values  *)
(* are claimed and not yet received, whatever the waiting, waking,        *)
(* cancelling and closing around them.                                     *)
(***************************************************************************)
FIFORefinement == Fifo!Spec

(***************************************************************************)
(* Every value a send has published is eventually received, unless the   *)
(* Receiver is dropped (spec 8.5 and the drop contract of 6): a published *)
(* slot wakes the parked receiver through rx_wait, and nothing can leave  *)
(* the receiver parked beside a published slot.                            *)
(***************************************************************************)
PublishedReceived ==
    \A p \in Producers, i \in 1 .. MaxSends :
        sent[p] >= i ~> (<<p, i>> \in Range(received) \/ rxPc = "dropped")

(***************************************************************************)
(* A producer whose wait node is linked in tx_wait is eventually polled   *)
(* again, unless it cancels (spec 4.3, 8.5): every release notifies one   *)
(* linked waiter, a waiter whose future is dropped after being notified   *)
(* hands the notification on (PinnedDrop, Waiter::remove), and closing    *)
(* wakes every linked waiter.                                              *)
(***************************************************************************)
LinkedWaiterWoken ==
    \A p \in Producers :
        (pc[p] = "parked" /\ txNode[p] = "linked") ~> pc[p] # "parked"

(***************************************************************************)
(* No producer is stranded in tx_wait (spec 4.3, I5): while a node is     *)
(* linked, something is still on its way to a notify_one, namely a value  *)
(* claimed and not yet released, a producer that was woken or is in the  *)
(* middle of a send and may still claim one, or a receiver between its   *)
(* release and NotifyTx.  Broken if a future dropped after being notified *)
(* (PinnedDrop, Waiter::remove) takes the notification with it while the  *)
(* waiters behind it stay linked beside an empty ring.                    *)
(***************************************************************************)
InFlight ==
    \/ RingLen > 0
    \/ rxPc \in {"holding", "notifytx"}
    \/ \E q \in Producers : q \in txWoken \/ pc[q] \in {"load", "claim", "wait"}

NoStrandedWaiter == (\E p \in Producers : txNode[p] = "linked") => InFlight

(***************************************************************************)
(* Once the last Sender is dropped, the receiver eventually sees the end  *)
(* of the stream (spec 6, drop contract), unless it was dropped itself.    *)
(***************************************************************************)
RecvDrains == txCount = 0 ~> rxPc \in {"ended", "dropped"}

=============================================================================
