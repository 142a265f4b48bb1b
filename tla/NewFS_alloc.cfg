\* Allocation and persistence of the inode table across daemons.
CONSTANTS
    Names <- MCNames
    MaxDepth = 2
    BlkSize <- MCBlkSize
    DentrySize <- MCDentrySize
    MaxIno <- MCMaxInoRoomy
    MaxData <- MCMaxData
    MapBits <- MCMapBitsRoomy
    WriteOffsets <- MCOffsetsShort
    WriteLens <- MCLens
    MaxMounts = 2
    MaxDentries = 4
    NodeKinds = {"FILE", "DIR"}
    NULL = NULL
SPECIFICATION Spec
INVARIANT TypeOK
INVARIANT NoInoReuse
PROPERTY BitmapsMonotone
PROPERTY DriverByteExact
\* The daemon may stay unmounted: once MaxMounts daemons ran nothing is enabled.
CHECK_DEADLOCK FALSE
