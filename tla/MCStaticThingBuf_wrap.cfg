\* One pusher and the popper on a 2-slot buffer, with enough pushes for the
\* index word (modulus Wrap = 8, standing for the usize word) to wrap back
\* to lap 0 before the buffer is dropped.
CONSTANTS
    Pushers = {t1}
    MaxPushes = 9
    Poppers = {r1}
    CAP = 2
    Wrap = 8
    NoValue = NoValue

SPECIFICATION Spec

INVARIANT DropDropsInitialized
