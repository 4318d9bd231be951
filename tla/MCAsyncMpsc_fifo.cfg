\* Two producer tasks, capacity 2, two values each, checked against the
\* abstract bounded FIFO queue, and for delivery of every published value.
CONSTANTS
    Producers = {p1, p2}
    MaxSends = 2
    CAP = 2
    Wrap = 8
    NoValue = NoValue

SPECIFICATION Spec

PROPERTY FIFORefinement
PROPERTY PublishedReceived
