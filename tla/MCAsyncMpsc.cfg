\* Two producer tasks, capacity 2, two values each: enough for the ring to
\* fill, for a producer to park while the other races it, and for closure
\* from either side to meet pending operations.
CONSTANTS
    Producers = {p1, p2}
    MaxSends = 2
    CAP = 2
    Wrap = 8
    NoValue = NoValue

SPECIFICATION Spec

INVARIANT PerProducerFIFO
INVARIANT SlotExclusive
INVARIANT EndOfStreamOnlyWhenDrained
INVARIANT RxNoLostWakeup

PROPERTY RecvDrains
PROPERTY LinkedWaiterWoken
