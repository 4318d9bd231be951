\* Capacity 1 (spec.md 5 allows capacity >= 1; examples E5 and E6 use 1):
\* one pusher pushing twice while the popper reads.  With one slot the
\* publish generation t + 1 equals the release generation t + CAP.
CONSTANTS
    Pushers = {t1}
    MaxPushes = 2
    Poppers = {r1}
    CAP = 1
    Wrap = 4
    NoValue = NoValue

SPECIFICATION Spec

INVARIANT ClaimOrderFIFO
