\* Two CPUs, two buffers in two buckets, blocks 0 and 2 sharing a bucket,
\* under fair scheduling.  Deadlock is checked: a state where every CPU
\* waits on a lock held by another would be reported.
SPECIFICATION FairSpec
CONSTANTS
    Procs = {p1, p2}
    Blocks <- MCBlocksPair
    NBUCKETS = 2
    NBUF = 2
    MaxPins = 1
    MaxOps = 2
    MaxWrites = 1
    None = None
    NoBlock = NoBlock
INVARIANT TypeOK BufferInItsBucket RefcntCountsUsers CachedCopiesCurrent NoLockCycle
PROPERTY ImplementsBlockOwnership
