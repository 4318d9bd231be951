\* One producer task sending four values through a 2-slot ring while the
\* receiver drains it: a notify_one issued by an earlier release can reach
\* the producer after it parked on a full ring again.
CONSTANTS
    Producers = {p1}
    MaxSends = 4
    CAP = 2
    Wrap = 8
    NoValue = NoValue

SPECIFICATION Spec

INVARIANT TxWakeable
