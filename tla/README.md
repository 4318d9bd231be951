# TLA+ models of thingbuf

This directory holds TLA+ models of the lock-free ring buffer `thingbuf` and
of the parts of it under `src/`:

- `src/src/static_thingbuf.rs` (`StaticThingBuf`);
- `src/src/mpsc/async_impl.rs` (the async MPSC channel).

The models are checked with TLC. The ring itself (`Core`), the waiter list
(`WaitQueue`) and the channel's shared state (`Inner`) are not in this
snapshot. They are modelled from `spec.md`, and `PROJECT.json` marks those
definitions `spec_modelled`.

## The system

| Part | Where | State | Operations |
|------|-------|-------|------------|
| Core | spec.md 4.1-4.2 | `tail` (with the closed bit), `head`, per-slot generation `gen`, slot values | push: load tail, compare gen, CAS tail; publish (gen = t+1); pop (gen = head+1); release (gen = head+CAP); close |
| WaitQueue | spec.md 4.3 | linked wait nodes; each node is unlinked, linked or notified; closed flag; tokens | start_wait, continue_wait, notify_one, close, remove (hands an unconsumed notification on) |
| Inner | spec.md 4.2 | Core, `tx_wait` (WaitQueue), `rx_wait`, `tx_count` | poll_send_ref, poll_recv_ref, close_rx |
| async channel | async_impl.rs | `Sender`, `Receiver`, `SendRefFuture{has_been_queued, waiter}`, `RecvFuture` | send, clone, Sender drop, recv / poll_recv, is_closed, Receiver drop, dropping a pending future |
| StaticThingBuf | static_thingbuf.rs | a Core and `CAP` slots, uninitialized until first claimed | new, push_with/push_ref, pop_with/pop_ref, len, is_empty, Drop |

How the parts interact:

- Producers claim slots by a CAS on `tail`.
- The single consumer reads at `head`.
- A producer that finds the ring full parks in `tx_wait`. Each release by
  the receiver calls `notify_one` on `tx_wait`.
- A receiver that finds the ring empty registers its waker in `rx_wait`.
  Each publish notifies `rx_wait`.
- When the last `Sender` is dropped, it closes the Core and `rx_wait`.
- When the `Receiver` is dropped, it closes the Core and `tx_wait`.

## Modules

- **Core.tla** models the ring.
  - The index word is a counter modulo `Wrap`: slot `i % CAP`, lap `i \div CAP`.
  - `Diff` is the spec's signed wrap-aware difference.
  - The module defines operators only. Its state is declared by the module
    that instantiates it.
- **WaitQueue.tla** models the intrusive waiter list, one operator per queue
  operation. Each operation runs under the list's lock, so each one is a
  single step.
- **AsyncMpsc.tla** composes the channel.
  - It has one unnamed `INSTANCE Core` and `Tx == INSTANCE WaitQueue WITH ...`
    for `tx_wait`.
  - `rx_wait` is a single waker cell: `rxRegistered`, `rxClosed`, `rxWoken`.
    `poll_recv_ref` passes no wait node (src 205-206), and its doc comment
    (200-204) says only the most recent waker is kept.
  - Each producer task holds at most one `Sender`. `pc[p]` is where its
    current `send(val).await` is.
  - A poll of `SendRefFuture` is split at each shared access: `LoadTail`,
    `Claim`, then `StartWait`, the wait-queue call.
  - `StartWait` follows src 93-119:
    - a node is passed only while `has_been_queued` is false;
    - linking sets `has_been_queued`;
    - with `has_been_queued` set, the call is `continue_wait`.
  - `Ready` clears `has_been_queued`, as the `.map` on Ready does (120-125).
  - `Cancel` is the `PinnedDrop` (131-137).
  - `Publish` and `NotifyRx` are `send`'s write and the `SendRef` drop.
  - Receiver actions: `RecvStart`, `RxPop`, `RxWait`, `RxPoll` (re-poll after
    a wake), `RxCancel`, `RxRelease` (`mem::take`, then release),
    `RxNotifyTx`, `DropReceiver`.
  - `Clone` and `DropSender` model src 159-179.
  - `TrySendStart` models `try_send`/`try_send_ref` (src 67-74).
    - `mode[p] = "try"` makes `Claim` return Full to the caller instead of
      going on to wait.
    - After that, the claim and publish are the same steps as `send`.
- **StaticThingBuf.tla** models pusher threads calling `push_with`, popper
  threads (the constant `Poppers`) calling `pop_with`, and finally `Drop`.
  - `pop_ref` is two steps: `PopLoad` loads `head`, and `PopRef` checks the
    slot's generation and stores `head + 1`, which is a plain store in
    spec 4.1.
  - The refinement runs use one popper, the consumer of spec 4.1.
  - `init[s]` records which slots hold an initialized `T`.
  - `NumInitialized` is the computation at src 64-66.
- **BoundedFIFO.tla** is the abstract specification of what the ring
  promises: a FIFO queue of at most `Capacity` elements.
  - `Enqueue` happens at the tail CAS, which is the linearization point of
    spec 4.1. `Dequeue` happens when the consumer takes the head.
  - Publishing, waiting, waking and closing are stutter steps at this level.
  - `StaticThingBuf` and `AsyncMpsc` both instantiate it as `Fifo` with a
    refinement mapping:
    - `queueMap` is the values of the claimed indices `head .. tail-1`. An
      index still held by its writer stands for the value being written.
    - `outMap` is the consumer's history, plus the slot it holds.
  - `FIFORefinement == Fifo!Spec` is checked as a PROPERTY.
- **MCAsyncMpsc.tla** and **MCStaticThingBuf.tla** are the TLC entry points.
  They define permutation sets of the tasks.
  - `MCStaticThingBuf.cfg` uses pusher symmetry.
  - The async runs that check liveness do not, because TLC's symmetry
    reduction is not sound for liveness. `MCAsyncMpsc_handoff.cfg` checks
    only an invariant, so it uses producer symmetry.
  - `MCAsyncMpsc.tla` also defines the workload bound `WithinSendBudget`,
    which the hand-off run uses as a state constraint.

## Runs

| Run | cfg | Expect | Shows |
|-----|-----|--------|-------|
| async_channel | MCAsyncMpsc.cfg | pass | With 2 producers × 2 values, CAP 2: per-producer FIFO with no loss or duplication, slot exclusivity, end of stream only after draining, no lost receiver wakeup, `RecvDrains` (after the last Sender drops, the receiver ends), and `LinkedWaiterWoken` (a producer parked with a linked node is eventually woken) |
| async_wrap | MCAsyncMpsc_wrap.cfg | pass | 9 values through CAP 2 with `Wrap` 8: tail, head and generations wrap and FIFO still holds |
| static_thingbuf | MCStaticThingBuf.cfg | pass | 2 pushers, 6 pushes: pops follow tail-claim order, and Drop on lap 0 or 1 drops exactly the initialized slots |
| async_handoff | MCAsyncMpsc_handoff.cfg | pass | Three producers: `NoStrandedWaiter`. A waiter linked in `tx_wait` always has something still on its way to a `notify_one`, even when notified futures are dropped ahead of it |
| static_fifo | MCStaticThingBuf_fifo.cfg | pass | StaticThingBuf refines BoundedFIFO: values in claim order, each once, at most CAP claimed and not yet popped |
| async_fifo | MCAsyncMpsc_fifo.cfg | pass | The channel, with send, try_send, waiting, cancellation and closure, refines BoundedFIFO. `PublishedReceived`: every published value is eventually received unless the Receiver is dropped |
| send_lost_wakeup | MCAsyncMpsc_txwake.cfg | violation | `TxWakeable`: a producer parked with no linked node and no pending wake |
| is_closed | MCAsyncMpsc_isclosed.cfg | violation | `is_closed` is true with one live Sender |
| static_drop_wrap | MCStaticThingBuf_wrap.cfg | violation | Drop leaks values after the generation wraps to 0 |
| static_cap1 | MCStaticThingBuf_cap1.cfg | violation | With CAP = 1, a pusher overwrites the slot the popper holds |
| static_2pop | MCStaticThingBuf_2pop.cfg | violation | Two threads calling `pop_with` on one buffer pop the same value twice |

Every property of a passing run has a mutant in `PROJECT.json`: a plausible
bug in the mapped definition that TLC shows breaks the property. The
mutants are:

- a TryAgain from the wait queue taken as an acquired slot;
- a pop (channel and StaticThingBuf) that accepts a claimed but unpublished slot;
- a receiver that takes Closed as the end of the stream;
- a receiver that registers its waker without re-checking;
- a last Sender that does not wake the receiver;
- a receive whose release does not call `notify_one` on `tx_wait`;
- a `remove` that drops an unconsumed notification instead of handing it on;
- index addition without wrap;
- `num_initialized = idx`.

## Findings

1. **Lost wakeup of a sender** (async_impl.rs 93-97).
   - `notify_one` unlinks the node and wakes the task, but the future still
     has `has_been_queued = true`.
   - On the re-poll, if the ring is full again, the future passes no node.
     `continue_wait` links nothing, and the future returns Pending without
     being queued.
   - This needs only one producer: a notify from an earlier release can
     arrive after the producer has parked again.
2. **`is_closed` is off by one** (async_impl.rs 233). It returns
   `tx_count <= 1`, so it is true while one Sender is alive.
3. **`StaticThingBuf::drop` leaks after the generation wraps**
   (static_thingbuf.rs 66).
   - The count is `idx` whenever tail's generation is 0.
   - Generations wrap with the word, so after a wrap the slots beyond
     `idx` are initialized but never dropped.
   - This is realistic with a 32-bit `usize`.
4. **Spec gap: capacity 1** (static_thingbuf.rs 16, `Core::new(CAP)`).
   - spec.md 5 allows capacity >= 1, and E5/E6 use 1.
   - With `gen_shift = 0`, the publish generation `t+1` equals the release
     generation `head+CAP`. Slot 0 becomes writable for index 1 as soon as
     index 0 is published, even while the popper still reads it.
   - TLC shows the popper returning the second value in place of the first,
     in 10 steps.

5. **Spec gap: several poppers** (static_thingbuf.rs 52, `pop_ref(&self)`).
   - spec.md 1 lists multi-consumer support as a non-goal. spec.md 4.1
     makes `head` single-writer: `pop_ref` advances it with a plain store,
     not a CAS.
   - A `StaticThingBuf` is shared by reference, so safe code may still call
     `pop_with` from two threads.
   - TLC shows two poppers loading the same `head`, both seeing the slot
     published, and both returning its value (11 steps). Both hold a `Ref`
     to one slot at once, and the slot is released twice.
   - The wrapper does nothing to keep poppers to one.

## Bounds

- **CAP = 2** is the smallest capacity for which the ring holds one value
  while a second slot is claimed. It also lets a producer park on a full
  ring.
- **Wrap = 8** is the smallest modulus that satisfies `Wrap > 2*CAP` and
  `Wrap % CAP = 0`, so lap arithmetic and the signed difference are
  exercised.
- **Two producers** can race on the CAS, and each can be parked while the
  other sends.
- **Two values each** fill the ring. `async_wrap` uses 9 values so the index
  word wraps.
- **Six pushes** in `static_thingbuf` let Drop happen on lap 0, at the
  boundary and on lap 1 without wrapping the word. The `_wrap` run uses 9 so
  it does wrap.
- **CAP = 1, Wrap = 4** in `static_cap1` is the smallest instance of the
  capacity-1 encoding. Two pushes are enough.
- **Two poppers, one pusher, two pushes** in `static_2pop` are enough for
  both pops to load the same head.
- `LinkedWaiterWoken` is checked with two producers. A parked producer
  means a full ring, so CAP releases are still to come. A notification
  lost by `remove` then strands a waiter only when CAP notified futures
  are dropped ahead of it. That needs three producers.
- **Three producers** in `async_handoff` check that case:
  - p1 and p2 fill the ring, and all three park;
  - two notified futures are dropped ahead of p3.
  - A liveness run of that size takes too long. The run therefore checks
    the stranded state as the safety invariant `NoStrandedWaiter`, with
    producer symmetry, which is sound for safety.
  - The constraint `WithinSendBudget` (MCAsyncMpsc.tla) stops exploring
    once more than `MaxTotalSends = 2` values are published in all. The
    scenario needs two, and the run takes under a minute.
  - With `remove` not handing the notification on, TLC reaches the stranded
    state in 35 steps.
- The two `_fifo` runs use the same instances as the main runs, without
  symmetry.

## Fairness

- Inside a poll, a task keeps running: weak fairness on every step of a
  poll, on the `SendRef` write and drop, and on the receiver's pop, wait,
  release and notify.
- The executor eventually polls a woken task: weak fairness on
  `Poll`/`RxPoll`.
- The receiver task loops on `recv().await`: weak fairness on `RecvStart`.
- These are user choices, with no fairness:
  - starting a send;
  - dropping a pending future;
  - cloning a Sender;
  - dropping a Sender or the Receiver.

## Not modelled

- A `RecvRef` held across awaits by `recv_ref` users. Holding a slot is
  already a state of the receiver (`rxPc = "holding"`). A held `RecvRef`
  would only drop the fairness on its release, which changes no safety
  property.
- Several tasks receiving on one shared `Receiver`. `recv_ref` takes
  `&self`, so this is possible. The race is in `Core::pop_ref`, and
  `static_2pop` checks it on the same Core operators.
- The `Stream` adapters, which only delegate.
- `loom.rs`, which is test infrastructure: the loom runner, a trace
  buffer, a leak-tracking wrapper, and `UnsafeCell` forwarding for
  non-test builds. None of it has state the channel's behaviour depends on.
- The synchronous channel and the heap `ThingBuf`, whose sources are absent.
- Memory orderings: every atomic access is one sequentially consistent step.

## Plan for later work

- Spurious polls, and a variant with corrected `has_been_queued` handling
  where `SendCompletes`-style liveness can pass.
