\* A single Sender alive on an open channel: Receiver::is_closed must say
\* the channel is open.
CONSTANTS
    Producers = {p1}
    MaxSends = 1
    CAP = 2
    Wrap = 8
    NoValue = NoValue

SPECIFICATION Spec

INVARIANT IsClosedReportsClosure
