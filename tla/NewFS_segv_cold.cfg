\* Can newfs_lookup dereference NULL on a directory tree alone (no regular files)?
CONSTANTS
    Names <- MCNames
    MaxDepth = 2
    BlkSize <- MCBlkSize
    DentrySize <- MCDentrySize
    MaxIno <- MCMaxInoRoomy
    MaxData <- MCMaxData
    MapBits <- MCMapBitsRoomy
    WriteOffsets <- MCOffsetsShort
    WriteLens <- MCLens
    MaxMounts = 2
    MaxDentries = 4
    NodeKinds = {"DIR"}
    NULL = NULL
SPECIFICATION Spec
INVARIANT NoSegfault
CHECK_DEADLOCK FALSE
