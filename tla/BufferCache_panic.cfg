\* Two CPUs, two buffers in two buckets: does bget panic while a free buffer sits in a bucket whose lock it saw taken?
SPECIFICATION Spec
CONSTANTS
    Procs = {p1, p2}
    Blocks <- MCBlocksPair
    NBUCKETS = 2
    NBUF = 2
    MaxPins = 1
    MaxOps = 2
    MaxWrites = 1
    None = None
    NoBlock = NoBlock
INVARIANT NoSpuriousPanic
