---------------------------- MODULE NewFSDriver ----------------------------
(***************************************************************************)
(* Byte I/O of newfs (newfs_driver_read, newfs_driver_write in            *)
(* src/实验五/newfs/src/newfs.c) over the ddriver device, which moves only  *)
(* whole IO units of sz_io bytes from its seek position.  Every record     *)
(* newfs reads or writes (superblock, bitmaps, inode records, dentry       *)
(* records, file data) goes through these two functions; NewFS treats      *)
(* each such call as the exact read or write of one record.                *)
(*                                                                         *)
(* The disk is a function from byte offsets to byte values.                *)
(***************************************************************************)
EXTENDS Integers, Sequences

CONSTANTS
    IoSizes,   \* sz_io values ddriver may report (IOC_REQ_DEVICE_IO_SZ)
    Records    \* <<offset, size>> of the driver calls the callers make

BLOCK_SIZE    == 1024     \* NEWFS_BLOCK_SIZE
INODE_OFS     == 3072     \* NEWFS_INODE_OFS
INODE_SIZE    == 32       \* NEWFS_INODE_SIZE
DATA_OFS      == 130048   \* NEWFS_DATA_OFS
DATA_SIZE     == 1024     \* NEWFS_DATA_SIZE
DATA_PER_FILE == 8        \* NEWFS_DATA_PER_FILE

RoundDown(v, r) == IF v % r = 0 THEN v ELSE (v \div r) * r
RoundUp(v, r)   == IF v % r = 0 THEN v ELSE (v \div r + 1) * r

\* NEWFS_BLKS_SZ(): the logical block, a whole number of IO units
BlksSz(io) == RoundUp(BLOCK_SIZE, io)

InoOfs(ino) == INODE_OFS + ino * INODE_SIZE
DaOfs(ino)  == DATA_OFS + ino * DATA_PER_FILE * DATA_SIZE

\* The read loop: one ddriver_read of io bytes per turn, from the seek
\* position, until size_aligned is 0.
RECURSIVE ReadUnits(_, _, _, _)
ReadUnits(disk, pos, left, io) ==
    IF left = 0 THEN <<>>
    ELSE [k \in 1 .. io |-> disk[pos + k - 1]] \o ReadUnits(disk, pos + io, left - io, io)

\* The write loop: one ddriver_write of the next io bytes of buf per turn.
RECURSIVE WriteUnits(_, _, _, _, _)
WriteUnits(disk, pos, buf, left, io) ==
    IF left = 0 THEN disk
    ELSE WriteUnits([i \in DOMAIN disk |->
                       IF pos <= i /\ i < pos + io THEN buf[i - pos + 1] ELSE disk[i]],
                    pos + io, SubSeq(buf, io + 1, Len(buf)), left - io, io)

\* newfs_driver_read(offset, out, size): read the blocks that cover the
\* range into a temporary buffer, return the size bytes after the bias.
DriverRead(disk, offset, size, io) ==
    LET aligned == RoundDown(offset, BlksSz(io))
        bias    == offset - aligned
        sizeAl  == RoundUp(size + bias, BlksSz(io))
    IN SubSeq(ReadUnits(disk, aligned, sizeAl, io), bias + 1, bias + size)

\* Mutant: the rounded size leaves out the bias.
DriverWriteNoBias(disk, offset, content, io) ==
    LET size    == Len(content)
        aligned == RoundDown(offset, BlksSz(io))
        bias    == offset - aligned
        sizeAl  == RoundUp(size, BlksSz(io))
        temp    == DriverRead(disk, aligned, sizeAl, io)
        patched == [k \in 1 .. sizeAl |->
                      IF bias < k /\ k <= bias + size THEN content[k - bias] ELSE temp[k]]
    IN WriteUnits(disk, aligned, patched, sizeAl, io)

\* newfs_driver_write(offset, content, size): read the covering blocks,
\* copy the content in at the bias, write the blocks back unit by unit.
DriverWrite(disk, offset, content, io) ==
    LET size    == Len(content)
        aligned == RoundDown(offset, BlksSz(io))
        bias    == offset - aligned
        sizeAl  == RoundUp(size + bias, BlksSz(io))
        temp    == DriverRead(disk, aligned, sizeAl, io)
        patched == [k \in 1 .. sizeAl |->
                      IF bias < k /\ k <= bias + size THEN content[k - bias] ELSE temp[k]]
    IN WriteUnits(disk, aligned, patched, sizeAl, io)

-----------------------------------------------------------------------------
(* Reference: what a byte-exact read and write of a record are.           *)

Bytes(disk, offset, size) == [k \in 1 .. size |-> disk[offset + k - 1]]

Spliced(disk, offset, content) ==
    [i \in DOMAIN disk |->
       IF offset <= i /\ i < offset + Len(content) THEN content[i - offset + 1] ELSE disk[i]]

\* A stretch of disk around a record, one block beyond the blocks that
\* cover it on each side, every byte holding its own offset so that any
\* misplaced byte is seen.
Around(off, size, io) ==
    LET lo == RoundDown(off, BlksSz(io)) - BlksSz(io)
        hi == RoundUp(off + size, BlksSz(io)) + BlksSz(io)
    IN [i \in (IF lo < 0 THEN 0 ELSE lo) .. (hi - 1) |-> i]

\* New contents, different from every byte on the disk.
Fresh(size) == [k \in 1 .. size |-> -k]

\* Every record newfs reads through newfs_driver_read comes back exactly,
\* and every record it writes through newfs_driver_write lands exactly at
\* its offset while the read-modify-write of the covering blocks leaves
\* every other byte alone, for records that are not block-aligned and
\* for dentry records that straddle a block boundary.
DriverByteExact ==
    \A io \in IoSizes, r \in Records :
        LET d == Around(r[1], r[2], io)
        IN /\ DriverRead(d, r[1], r[2], io) = Bytes(d, r[1], r[2])
           /\ DriverWrite(d, r[1], Fresh(r[2]), io) = Spliced(d, r[1], Fresh(r[2]))

=============================================================================
