\* Two pushers and one popper on a 2-slot buffer, six pushes in all: the
\* ring fills, pushers race on the tail CAS and publish out of claim order,
\* and the buffer is dropped on lap 0, at the lap boundary and on lap 1.
\* Six pushes keep tail below Wrap = 8 (the word does not wrap here).
CONSTANTS
    Pushers = {t1, t2}
    MaxPushes = 6
    Poppers = {r1}
    CAP = 2
    Wrap = 8
    NoValue = NoValue

SPECIFICATION Spec
SYMMETRY PusherSymmetry

INVARIANT DropDropsInitialized
INVARIANT ClaimOrderFIFO
