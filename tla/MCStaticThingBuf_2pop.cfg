\* Two threads calling pop_with on a shared StaticThingBuf (pop_ref takes
\* &self), one pusher, capacity 2.  spec.md 4.1 stores head with a plain
\* store for a single consumer.
CONSTANTS
    Pushers = {t1}
    MaxPushes = 2
    Poppers = {r1, r2}
    CAP = 2
    Wrap = 8
    NoValue = NoValue

SPECIFICATION Spec

INVARIANT PoppedOnce
