\* After the inode table runs out, can two dentries stand for the same ino?
CONSTANTS
    Names <- MCNames
    MaxDepth = 2
    BlkSize <- MCBlkSize
    DentrySize <- MCDentrySize
    MaxIno <- MCMaxInoTight
    MaxData <- MCMaxData
    MapBits <- MCMapBitsTight
    WriteOffsets <- MCOffsetsShort
    WriteLens <- MCLens
    MaxMounts = 2
    MaxDentries = 4
    NodeKinds = {"DIR"}
    NULL = NULL
SPECIFICATION Spec
INVARIANT NoInoReuse
CHECK_DEADLOCK FALSE
