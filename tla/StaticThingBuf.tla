--------------------------- MODULE StaticThingBuf ---------------------------
(***************************************************************************)
(* StaticThingBuf<T, CAP> of src/src/static_thingbuf.rs: a Core and a     *)
(* static array of CAP slots whose values start uninitialized             *)
(* (Slot::make_static_array).  Pusher threads call push_with, popper      *)
(* threads call pop_with, and finally the buffer is dropped, which drops   *)
(* the values of slots[..num_initialized].                                 *)
(*                                                                         *)
(* A slot's value is initialized once a producer has claimed it: the       *)
(* SendRef hands push_with's closure a &mut T (src 48-49).  The Core is    *)
(* never closed here: nothing in StaticThingBuf closes it.                 *)
(***************************************************************************)
EXTENDS Integers, Sequences

CONSTANTS
    Pushers,    \* threads calling push_with
    MaxPushes,  \* bound on the push_with calls of all threads together
    Poppers,    \* threads calling pop_with (spec 4.1: one consumer)
    CAP, Wrap, NoValue

VARIABLES
    tail, head, closed, gen, slotVal,   \* Core
    init,       \* init[s]: slot s holds an initialized T
    pc,         \* pc[t]: where pusher t is
    lt,         \* lt[t]: the tail value t loaded
    pushes,     \* push_with calls started, all threads
    popPc,      \* popPc[r]: where popper r is
    popIdx,     \* popIdx[r]: the head value popper r loaded
    popped,     \* history: values pop_with saw, in order
    droppedSlots \* the slots whose value Drop dropped; {} while alive

INSTANCE Core

ringVars == <<tail, head, closed, gen, slotVal>>
vars == <<ringVars, init, pc, lt, pushes, popPc, popIdx, popped, droppedSlots>>

\* StaticThingBuf::new: Core::new(CAP) and CAP uninitialized slots.
Init ==
    /\ CoreInit
    /\ init = [s \in Slots |-> FALSE]
    /\ pc = [t \in Pushers |-> "idle"]
    /\ lt = [t \in Pushers |-> 0]
    /\ pushes = 0
    /\ popPc = [r \in Poppers |-> "idle"]
    /\ popIdx = [r \in Poppers |-> 0]
    /\ popped = <<>>
    /\ droppedSlots = {}

\* The buffer has been dropped.
Dropped == \A r \in Poppers : popPc[r] = "dropped"

\* push_with: call push_ref.
PushStart(t) ==
    /\ ~Dropped
    /\ pc[t] = "idle"
    /\ pushes < MaxPushes
    /\ pushes' = pushes + 1
    /\ pc' = [pc EXCEPT ![t] = "load"]
    /\ UNCHANGED <<ringVars, init, lt, popPc, popIdx, popped, droppedSlots>>

\* push_ref, load tail.  Core's Closed would be unreachable!(): closed is
\* never set on a StaticThingBuf.
LoadTail(t) ==
    /\ pc[t] = "load"
    /\ ~closed
    /\ lt' = [lt EXCEPT ![t] = tail]
    /\ pc' = [pc EXCEPT ![t] = "claim"]
    /\ UNCHANGED <<ringVars, init, pushes, popPc, popIdx, popped, droppedSlots>>

\* push_ref, compare and CAS; Full maps to Err(Full) and push_with returns.
Claim(t) ==
    LET d == SlotDiff(lt[t])
    IN  /\ pc[t] = "claim"
        /\ \/ /\ d = 0
              /\ PushCAS(lt[t])
              /\ init' = [init EXCEPT ![IdxOf(lt[t])] = TRUE]
              /\ pc' = [pc EXCEPT ![t] = "holding"]
           \/ /\ d = 0
              /\ ~(tail = lt[t] /\ ~closed)
              /\ pc' = [pc EXCEPT ![t] = "load"]
              /\ UNCHANGED <<tail, init>>
           \/ /\ d > 0
              /\ pc' = [pc EXCEPT ![t] = "load"]
              /\ UNCHANGED <<tail, init>>
           \/ /\ d < 0
              /\ pc' = [pc EXCEPT ![t] = "idle"]
              /\ UNCHANGED <<tail, init>>
        /\ UNCHANGED <<head, closed, gen, slotVal, lt, pushes, popPc, popIdx,
                       popped, droppedSlots>>

\* push_with: r.with_mut(f) writes the value, the Ref's drop publishes it.
PushWith(t) ==
    /\ pc[t] = "holding"
    /\ PublishSlot(lt[t], <<t, lt[t]>>)
    /\ pc' = [pc EXCEPT ![t] = "idle"]
    /\ UNCHANGED <<tail, head, closed, init, lt, pushes, popPc, popIdx, popped,
                   droppedSlots>>

\* pop_with: pop_ref (Core::pop_ref), first step: load head.
PopLoad(r) ==
    /\ popPc[r] = "idle"
    /\ popIdx' = [popIdx EXCEPT ![r] = head]
    /\ popPc' = [popPc EXCEPT ![r] = "check"]
    /\ UNCHANGED <<ringVars, init, pc, lt, pushes, popped, droppedSlots>>

\* Faulty variant of PopRef: a claimed but unpublished slot counts as ready.
PopRefEarly(r) ==
    LET h == popIdx[r]
    IN  /\ popPc[r] = "check"
        /\ \/ /\ ReadDiff(h) \in {-1, 0}
              /\ head' = Plus(h, 1)
              /\ popPc' = [popPc EXCEPT ![r] = "holding"]
           \/ /\ ReadDiff(h) \notin {-1, 0}
              /\ popPc' = [popPc EXCEPT ![r] = "idle"]
              /\ UNCHANGED head
        /\ UNCHANGED <<tail, closed, gen, slotVal, init, pc, lt, pushes, popIdx,
                       popped, droppedSlots>>

\* pop_ref, second step: compare the slot's generation with the loaded head;
\* a published slot is taken by storing head + 1 (a plain store: head has
\* a single writer in spec 4.1).  Empty becomes None through .ok().
PopRef(r) ==
    LET h == popIdx[r]
    IN  /\ popPc[r] = "check"
        /\ \/ /\ SlotReady(h)
              /\ head' = Plus(h, 1)
              /\ popPc' = [popPc EXCEPT ![r] = "holding"]
           \/ /\ ~SlotReady(h)
              /\ popPc' = [popPc EXCEPT ![r] = "idle"]
              /\ UNCHANGED head
        /\ UNCHANGED <<tail, closed, gen, slotVal, init, pc, lt, pushes, popIdx,
                       popped, droppedSlots>>

\* pop_with: r.with_mut(f) reads the value, the Ref's drop releases the slot.
PopWith(r) ==
    /\ popPc[r] = "holding"
    /\ popped' = Append(popped, slotVal[IdxOf(popIdx[r])])
    /\ ReleaseSlot(popIdx[r])
    /\ popPc' = [popPc EXCEPT ![r] = "idle"]
    /\ UNCHANGED <<tail, head, closed, slotVal, init, pc, lt, pushes, popIdx,
                   droppedSlots>>

\* StaticThingBuf::len and is_empty.
len == RingLen
is_empty == len = 0

\* Drop: (idx, gen) = idx_gen(tail); every slot is initialized after lap 0.
\* Faulty variant: the lap is ignored, only idx slots count.
NumInitializedIdxOnly(t) == IdxOf(t)

NumInitialized(t) ==
    LET idx == IdxOf(t)
        lap == t \div CAP
    IN  IF lap > 0 THEN CAP ELSE idx

DropSlots(t) == 0 .. NumInitialized(t) - 1

\* Drop needs &mut self: no thread is inside an operation.
Drop ==
    /\ \A r \in Poppers : popPc[r] = "idle"
    /\ \A t \in Pushers : pc[t] = "idle"
    /\ droppedSlots' = DropSlots(tail)
    /\ popPc' = [r \in Poppers |-> "dropped"]
    /\ UNCHANGED <<ringVars, init, pc, lt, pushes, popIdx, popped>>

Next ==
    \/ \E t \in Pushers :
         PushStart(t) \/ LoadTail(t) \/ Claim(t) \/ PushWith(t)
    \/ \E r \in Poppers : PopLoad(r) \/ PopRef(r) \/ PopWith(r)
    \/ Drop
    \/ Dropped /\ UNCHANGED vars

Spec == Init /\ [][Next]_vars

-----------------------------------------------------------------------------
(***************************************************************************)
(* Refinement mapping onto BoundedFIFO.  The abstract queue holds the      *)
(* elements of the claimed indices head .. tail - 1, in index order: an    *)
(* index still held by its pusher stands for the value that pusher is     *)
(* writing, a published one for its slot's value.  The abstract out is    *)
(* what pop_with has seen, plus the slot a popper holds (the mapping is   *)
(* for the single consumer of spec 4.1).                                   *)
(***************************************************************************)
Writer(i) == {t \in Pushers : pc[t] = "holding" /\ lt[t] = i}

ClaimedValue(i) ==
    IF Writer(i) # {} THEN LET t == CHOOSE w \in Writer(i) : TRUE IN <<t, i>>
                      ELSE slotVal[IdxOf(i)]

queueMap == [k \in 1 .. RingLen |-> ClaimedValue(Plus(head, k - 1))]

Holding == {r \in Poppers : popPc[r] = "holding"}

outMap ==
    IF Holding = {} THEN popped
    ELSE Append(popped, slotVal[IdxOf(popIdx[CHOOSE r \in Holding : TRUE])])

Fifo == INSTANCE BoundedFIFO WITH Capacity <- CAP, Values <- Pushers \X Index,
            queue <- queueMap, out <- outMap

(***************************************************************************)
(* StaticThingBuf implements a bounded FIFO queue (spec 4.1, I1, I3): every *)
(* push_with that claims a slot enqueues, at its tail CAS, one element    *)
(* that pop_with later sees exactly once and in claim order, and at most  *)
(* CAP elements are ever claimed and not yet popped.                       *)
(***************************************************************************)
FIFORefinement == Fifo!Spec

(***************************************************************************)
(* Drop drops exactly the initialized values (spec 8.8, no leaks): every   *)
(* slot some push_with initialized has its value dropped, and no          *)
(* uninitialized slot is dropped (that would drop garbage).               *)
(***************************************************************************)
DropDropsInitialized ==
    Dropped => droppedSlots = {s \in Slots : init[s]}

(***************************************************************************)
(* pop_with sees the pushed values in claim order (spec 5: FIFO by tail   *)
(* CAS order), each once, none skipped: the i-th value popped is the one  *)
(* written through the slot claimed at tail index i - 1, whichever thread *)
(* claimed it and in whatever order the pushers published.                *)
(***************************************************************************)
ClaimOrderFIFO ==
    \A i \in 1 .. Len(popped) :
        popped[i] # NoValue /\ popped[i][2] = (i - 1) % Wrap

(***************************************************************************)
(* No value is popped twice (spec I1: a slot is readable by one consumer  *)
(* between the head advance that claims it and its release).  Broken if   *)
(* two pop_ref calls load the same head and both store head + 1.           *)
(***************************************************************************)
PoppedOnce ==
    \A i, j \in 1 .. Len(popped) : i # j => popped[i] # popped[j]

=============================================================================
