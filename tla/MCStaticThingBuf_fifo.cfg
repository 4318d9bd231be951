\* Two pushers and one popper on a 2-slot buffer, six pushes in all, checked
\* against the abstract bounded FIFO queue of BoundedFIFO.
CONSTANTS
    Pushers = {t1, t2}
    MaxPushes = 6
    Poppers = {r1}
    CAP = 2
    Wrap = 8
    NoValue = NoValue

SPECIFICATION Spec

PROPERTY FIFORefinement
