CONSTANTS
    Threads = {t1, t2}
    NCPU <- MCNCPU
    NPages <- MCNPages
    MaxOps = 3
    None = None
SPECIFICATION Spec
PROPERTY KallocZeroOnlyWhenExhausted
