\* One producer task sending nine values through a 2-slot ring whose index
\* word has modulus Wrap = 8: tail and head wrap past the end of the word,
\* and the generation comparisons must stay right across the wrap.
CONSTANTS
    Producers = {p1}
    MaxSends = 9
    CAP = 2
    Wrap = 8
    NoValue = NoValue

SPECIFICATION Spec

INVARIANT TypeOK
INVARIANT PerProducerFIFO

