\* Does newfs_lookup report found for a path that does not exist?
CONSTANTS
    Names <- MCNames
    MaxDepth = 2
    BlkSize <- MCBlkSize
    DentrySize <- MCDentrySize
    MaxIno <- MCMaxInoRoomy
    MaxData <- MCMaxData
    MapBits <- MCMapBitsRoomy
    WriteOffsets <- MCOffsetsShort
    WriteLens <- MCLens
    MaxMounts = 2
    MaxDentries = 4
    NodeKinds = {"DIR"}
    NULL = NULL
SPECIFICATION Spec
INVARIANT LookupFindsOnlyPresent
CHECK_DEADLOCK FALSE
