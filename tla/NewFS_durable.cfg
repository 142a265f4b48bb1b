\* Does newfs_destroy leave on disk the tree the daemon served?
CONSTANTS
    Names <- MCNames
    MaxDepth = 2
    BlkSize <- MCBlkSize
    DentrySize <- MCDentrySize
    MaxIno <- MCMaxInoRoomy
    MaxData <- MCMaxData
    MapBits <- MCMapBitsRoomy
    WriteOffsets <- MCOffsetsShort
    WriteLens <- MCLens
    MaxMounts = 2
    MaxDentries = 4
    NodeKinds = {"DIR"}
    NULL = NULL
SPECIFICATION Spec
PROPERTY DurableUnmount
CHECK_DEADLOCK FALSE
