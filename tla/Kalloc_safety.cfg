CONSTANTS
    Threads = {t1, t2, t3}
    NCPU <- MCNCPU
    NPages <- MCNPages
    MaxOps = 2
    None = None
SPECIFICATION Spec
INVARIANT TypeOK PagesPartitioned
PROPERTY ImplementsPagePool CallsReturn
