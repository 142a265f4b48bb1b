\* Does newfs_mkdir create anything but the path it is called with?
CONSTANTS
    Names <- MCNames
    MaxDepth = 2
    BlkSize <- MCBlkSize
    DentrySize <- MCDentrySize
    MaxIno <- MCMaxInoRoomy
    MaxData <- MCMaxData
    MapBits <- MCMapBitsRoomy
    WriteOffsets <- MCOffsetsShort
    WriteLens <- MCLens
    MaxMounts = 2
    MaxDentries = 4
    NodeKinds = {"DIR"}
    NULL = NULL
SPECIFICATION Spec
PROPERTY MkdirOnlyRequested
CHECK_DEADLOCK FALSE
