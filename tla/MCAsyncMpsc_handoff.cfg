\* Three producer tasks, capacity 2, two values each: two futures can be
\* notified and dropped ahead of a third waiter, as many as there are
\* releases still to come.  At most two values are published in all.
\* Safety only, so producer symmetry is sound.
CONSTANTS
    Producers = {p1, p2, p3}
    MaxSends = 2
    CAP = 2
    Wrap = 8
    NoValue = NoValue

SPECIFICATION Spec

CONSTRAINT WithinSendBudget

SYMMETRY ProducerSymmetry

INVARIANT NoStrandedWaiter
