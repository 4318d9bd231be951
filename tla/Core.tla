-------------------------------- MODULE Core --------------------------------
(***************************************************************************)
(* The ring coordination algorithm of thingbuf's Core (spec.md 4.1, 4.2).  *)
(* The Rust type Core is not part of the sources under src/; this module   *)
(* is written from the spec and is used by StaticThingBuf (which embeds a  *)
(* Core, src/src/static_thingbuf.rs) and by AsyncMpsc (the channel).       *)
(*                                                                         *)
(* An index word is abstracted to a counter modulo Wrap: slot index        *)
(* i % CAP, lap i \div CAP.  Each slot carries a generation in the same    *)
(* space.  Slot s is writable on the lap of index t when gen = t, readable *)
(* after the producer that claimed t published gen = t + 1, and writable   *)
(* again on the next lap once the consumer released it with gen =          *)
(* t + CAP.  Comparisons are the wrap-aware signed difference of the spec. *)
(* The closed flag is kept beside tail: the spec carries it "in the same   *)
(* atomic that producers update", so a tail CAS fails once it is set.      *)
(***************************************************************************)
EXTENDS Integers

CONSTANTS
    CAP,        \* capacity, a power of two (spec 4.1: rounded up)
    Wrap,       \* modulus of an index word: index words wrap with the word
    NoValue     \* the contents of a slot no producer has written yet

ASSUME CoreAssumption ==
    /\ CAP \in {1, 2, 4, 8}
    /\ Wrap \in Nat /\ Wrap % CAP = 0 /\ Wrap > 2 * CAP

VARIABLES
    tail,       \* next index a producer claims (CAS by producers)
    head,       \* next index the consumer reads (stored by the consumer)
    closed,     \* the closed bit carried with tail
    gen,        \* gen[s]: generation of slot s
    slotVal     \* slotVal[s]: the element stored in slot s


Slots == 0 .. CAP - 1
Index == 0 .. Wrap - 1

\* Faulty variant: plain addition, the index word does not wrap.
PlusNoWrap(i, k) == i + k

\* i + k on the index word, wrapping with the word.
Plus(i, k) == (i + k) % Wrap

\* The spec's "unsigned difference treated as signed".
Diff(a, b) ==
    LET d == (a - b) % Wrap
    IN  IF d > Wrap \div 2 THEN d - Wrap ELSE d

IdxOf(i) == i % CAP

\* Number of elements between head and tail (Core::len).
RingLen == Diff(tail, head)

CoreInit ==
    /\ tail = 0
    /\ head = 0
    /\ closed = FALSE
    /\ gen = [s \in Slots |-> s]
    /\ slotVal = [s \in Slots |-> NoValue]

(***************************************************************************)
(* push_ref.  A producer first loads tail (with the closed bit), then      *)
(* loads the generation of the slot it names and compares.  Diff = 0: the  *)
(* slot is writable on this lap and the producer CASes tail from t to      *)
(* t + 1; the CAS fails if tail moved or the closed bit was set.  Diff < 0 *)
(* the slot still holds the previous lap: the ring is full.  Diff > 0: the *)
(* loaded tail is stale.                                                   *)
(***************************************************************************)
SlotDiff(t) == Diff(gen[IdxOf(t)], t)

PushCAS(t) ==
    /\ tail = t
    /\ ~closed
    /\ tail' = Plus(t, 1)

\* The write-ref's drop: store the element and publish generation t + 1.
PublishSlot(t, v) ==
    /\ gen' = [gen EXCEPT ![IdxOf(t)] = Plus(t, 1)]
    /\ slotVal' = [slotVal EXCEPT ![IdxOf(t)] = v]

(***************************************************************************)
(* pop_ref.  The single consumer compares the generation of the slot at   *)
(* head with head + 1.  Diff = 0: the slot is published; head advances.   *)
(* Diff < 0: empty, and Closed-Empty when closed and tail = head.          *)
(***************************************************************************)
ReadDiff(h) == Diff(gen[IdxOf(h)], Plus(h, 1))

\* Faulty variant: off by one, a claimed but unpublished slot counts as ready.
HeadReadyEarly == ReadDiff(head) \in {-1, 0}

\* The slot of index h is published for the lap of h.
SlotReady(h) == ReadDiff(h) = 0

HeadReady == SlotReady(head)

ClosedEmpty == closed /\ tail = head

\* The read-ref's drop: release the slot read at index h for lap h + CAP.
ReleaseSlot(h) == gen' = [gen EXCEPT ![IdxOf(h)] = Plus(h, CAP)]

=============================================================================
