\* Two CPUs, two buffers in two buckets, under fair scheduling: does every bget return or panic?
SPECIFICATION FairSpec
CONSTANTS
    Procs = {p1, p2}
    Blocks <- MCBlocksPair
    NBUCKETS = 2
    NBUF = 2
    MaxPins = 1
    MaxOps = 2
    MaxWrites = 1
    None = None
    NoBlock = NoBlock
PROPERTY BgetReturns
