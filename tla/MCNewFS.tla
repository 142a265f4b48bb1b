------------------------------ MODULE MCNewFS ------------------------------
(* Model values for NewFS.  Sizes are those of types.h on a 64-bit build   *)
(* (sizeof(struct newfs_dentry) = 176); the inode table and the bitmaps    *)
(* are scaled down to a handful of inos.                                   *)
EXTENDS NewFS

\* "a" is a prefix of "ab": the one pair of names lookup can confuse.
MCNames == {<<"a">>, <<"a", "b">>}
MCBlkSize == 1024
MCDentrySize == 176
\* Enough table for every dentry a daemon can create: no NOSPACE.
MCMaxInoRoomy == 12
MCMapBitsRoomy == 13
\* A table that runs out after three inodes (the root and two created nodes).
MCMaxInoTight == 3
MCMapBitsTight == 6
MCMaxData == 12
\* Offsets for newfs_write: 0 and one past an empty file.
MCOffsetsShort == {0, 8192}
MCLens == {4096}

\* The driver calls newfs makes, as <<offset, size>>: the superblock
\* (newfs_super_d, 13 four-byte fields), the two one-block bitmaps, the
\* inode records (32 bytes at NEWFS_INO_OFS) of two blocks of the table,
\* the dentry records (140-byte newfs_dentry_d, one after the other from
\* NEWFS_DA_OFS(0)) of two blocks, of which the 8th and the 15th straddle a
\* block boundary, and a file's data as newfs_sync_inode writes one block
\* of it and newfs_read_inode reads all NEWFS_DATA_PER_FILE blocks.
MCRecords ==
    {<<0, 52>>, <<1024, 1024>>, <<2048, 1024>>}
    \cup {<<3072 + i * 32, 32>> : i \in 0 .. 63}
    \cup {<<130048 + i * 140, 140>> : i \in 0 .. 14}
    \cup {<<130048 + 8192, 1024>>, <<130048 + 8192, 8192>>}
\* ddriver reports 512; smaller and larger units that divide the block too.
MCIoSizes == {256, 512, 1024}

Driver == INSTANCE NewFSDriver WITH IoSizes <- MCIoSizes, Records <- MCRecords

\* newfs_init reads the superblock and both bitmaps, and newfs_destroy
\* writes every inode and dentry record, the superblock and the bitmaps,
\* all through newfs_driver_read and newfs_driver_write.  In every Mount and
\* Unmount step those calls are byte-exact for every record layout
\* (NewFSDriver!DriverByteExact); this is what lets NewFS treat each
\* record I/O as an exact whole-record read or write.
DriverByteExact == [][(Mount \/ Unmount) => Driver!DriverByteExact]_vars
=============================================================================
