------------------------------- MODULE NewFS -------------------------------
(***************************************************************************)
(* The newfs FUSE filesystem engine (src/实验五/newfs/src/newfs.c).          *)
(*                                                                         *)
(* One FUSE daemon process serves one call at a time.  Its memory holds    *)
(* the superblock (two bitmaps, max_ino, max_data) and a tree of dentries  *)
(* whose inodes are hydrated from disk lazily.  The disk holds the magic   *)
(* number, the two bitmaps, one inode record per ino and, per directory    *)
(* ino, the extent of dentry records.  The process may exit by unmount     *)
(* (newfs_destroy), be killed between calls, or die on a NULL dereference  *)
(* inside newfs_lookup; a new process may then mount the same disk.        *)
(*                                                                         *)
(* Data is abstracted: a name is a short sequence of characters (only so   *)
(* that the prefix comparison of newfs_lookup can be modelled), byte       *)
(* contents of files are not modelled, only their sizes.                   *)
(***************************************************************************)
EXTENDS Integers, Sequences, FiniteSets, SequencesExt, FiniteSetsExt

CONSTANTS
    Names,        \* file names that calls use (sequences of characters)
    MaxDepth,     \* bound: longest path, in components, that a call names
    BlkSize,      \* NEWFS_BLKS_SZ()
    DentrySize,   \* sizeof(struct newfs_dentry)
    MaxIno,       \* NEWFS_INODE_NUM: records in the inode table
    MaxData,      \* NEWFS_DATA_NUM
    MapBits,      \* bits in one bitmap (map_*_blks * NEWFS_BLKS_SZ() * 8)
    WriteOffsets, \* offsets read/write are called with
    WriteLens,    \* sizes read/write are called with
    MaxMounts,    \* bound: number of daemon processes started
    MaxDentries,  \* bound: dentries a daemon holds before it creates one more
    NodeKinds,    \* file types newfs_mknod is called with (S_ISREG, S_ISDIR)
    NULL

FILE == "FILE"
DIR  == "DIR"
NoIno == -1                    \* dentry->ino of a dentry with no inode

MaxKids == Cardinality(Names)   \* no directory lists more entries
Ino == 0 .. (MapBits - 1)
Slot == 0 .. (MaxKids - 1)
Paths == UNION { [1 .. n -> Names] : n \in 1 .. MaxDepth }

ASSUME /\ MaxDepth \in Nat \ {0}
       /\ {BlkSize, DentrySize, MaxIno, MaxData, MapBits} \subseteq Nat \ {0}
       /\ DentrySize < BlkSize
       /\ NULL \notin Nat
       /\ NodeKinds \subseteq {FILE, DIR}

VARIABLES
    phase,      \* "down": no daemon; "mounted": newfs_super.is_mounted
    mem,        \* the daemon's dentries; mem[1] is newfs_super.root_dentry
    imap,       \* newfs_super.map_inode, as the set of set bits
    dmap,       \* newfs_super.map_data
    maxIno,     \* newfs_super.max_ino
    maxData,    \* newfs_super.max_data
    dmagic,     \* the disk superblock carries NEWFS_MAGIC_NUM
    dimap,      \* the inode bitmap on disk
    ddmap,      \* the data bitmap on disk
    dinode,     \* the inode table on disk: ino -> struct newfs_inode_d
    ddir,       \* directory extents on disk: ino -> slot -> struct newfs_dentry_d
    mounts,     \* daemons started so far
    segv        \* some daemon died of a NULL dereference

vars == <<phase, mem, imap, dmap, maxIno, maxData, dmagic, dimap, ddmap,
          dinode, ddir, mounts, segv>>

InodeRec == [ino : Ino, size : Nat, dir_cnt : Nat]
DentryRec == [name : Names \cup {<<>>}, ftype : {FILE, DIR}, ino : Ino \cup {NoIno}]
ZeroInode == [ino |-> 0, size |-> 0, dir_cnt |-> 0]
ZeroDentry == [name |-> <<>>, ftype |-> FILE, ino |-> 0]

-----------------------------------------------------------------------------
(* Helpers translated from newfs.c and types.h.                            *)

\* NEWFS_ROUND_UP
RoundUp(v, r) == IF v % r = 0 THEN v ELSE (v \div r + 1) * r

\* The bit scan of newfs_alloc_inode / newfs_alloc_dentry: the lowest clear
\* bit, NoIno when every bit of the bitmap is set.
FreeBit(map) ==
    LET free == {i \in Ino : i \notin map}
    IN IF free = {} THEN NoIno ELSE Min(free)

\* new_dentry, with the parent link the callers set right after it
NewDentry(fname, ftype, parent) ==
    [name |-> fname, ftype |-> ftype, parent |-> parent, ino |-> NoIno, inode |-> NULL]

\* The daemon state a call works on: dentries and the two bitmaps.
Cur == [mem |-> mem, imap |-> imap, dmap |-> dmap]
Disk == [inode |-> dinode, dir |-> ddir]

\* Mutant: the bit found is not marked in the bitmap.
AllocInodeNoMark(st, d, mi) ==
    LET i == FreeBit(st.imap)
    IN IF i = NoIno \/ i = mi THEN st
       ELSE [st EXCEPT !.mem[d].ino = i,
                       !.mem[d].inode = [ino |-> i, size |-> 0, dir_cnt |-> 0, kids |-> <<>>]]

\* newfs_alloc_inode(dentry st.mem[d]) under max_ino = mi.  The bit is set
\* before the max_ino test; when the test fails the dentry keeps ino -1 and
\* no inode (the caller ignores the returned error).
AllocInode(st, d, mi) ==
    LET i == FreeBit(st.imap)
        marked == [st EXCEPT !.imap = @ \cup {i}]
    IN IF i = NoIno THEN st
       ELSE IF i = mi THEN marked
       ELSE [marked EXCEPT !.mem[d].ino = i,
                           !.mem[d].inode = [ino |-> i, size |-> 0, dir_cnt |-> 0, kids |-> <<>>]]

\* newfs_alloc_dentry(inode of st.mem[p], st.mem[c]) under max_data = md.
\* The entry is always put at the head of the list; a data bit is searched
\* for only when the rounded size grows, and the count and size grow only
\* when a bit was found (and is not max_data).
AllocDentry(st, p, c, md) ==
    LET ind == st.mem[p].inode
        grows == RoundUp(ind.size, BlkSize) # RoundUp(ind.size + DentrySize, BlkSize)
        b == IF grows THEN FreeBit(st.dmap) ELSE NoIno
        ok == b # NoIno /\ b # md
    IN [st EXCEPT !.mem[p].inode = [ind EXCEPT !.kids = <<c>> \o @,
                                              !.dir_cnt = IF ok THEN @ + 1 ELSE @,
                                              !.size = IF ok THEN @ + DentrySize ELSE @],
                  !.dmap = IF b # NoIno THEN @ \cup {b} ELSE @]

\* The inode record newfs_driver_read returns for ino; ino -1 reads the
\* zeroed tail of the data bitmap that precedes the inode table.
ReadRec(dk, ino) == IF ino = NoIno THEN ZeroInode ELSE dk.inode[ino]

\* The loop of newfs_read_inode over the dir_cnt dentry records: each one
\* becomes a new cold dentry linked through newfs_alloc_dentry.
RECURSIVE LoadKids(_, _, _, _, _, _)
LoadKids(st, d, dk, ino, i, md) ==
    IF i >= Min({ReadRec(dk, ino).dir_cnt, MaxKids}) THEN st
    ELSE LET e == dk.dir[ino][i]
             c == Len(st.mem) + 1
             linked == [st EXCEPT !.mem = Append(@, [NewDentry(e.name, e.ftype, d) EXCEPT !.ino = e.ino])]
         IN LoadKids(AllocDentry(linked, d, c, md), d, dk, ino, i + 1, md)

\* dentry->inode = newfs_read_inode(dentry, ino): the inode takes ino,
\* size from the record (not dir_cnt), and a directory reloads its list.
ReadInode(st, d, dk, ino, md) ==
    LET r == ReadRec(dk, ino)
        bound == [st EXCEPT !.mem[d].inode = [ino |-> r.ino, size |-> r.size, dir_cnt |-> 0, kids |-> <<>>]]
    IN IF st.mem[d].ftype = DIR THEN LoadKids(bound, d, dk, ino, 0, md) ELSE bound

\* The first entry of a list whose name starts with fname: memcmp over
\* strlen(fname) bytes.
FirstMatch(m, kids, fname) == SelectInSeq(kids, LAMBDA k : IsPrefix(fname, m[k].name))

\* The loop of newfs_lookup from dentry cur at component lvl.  finds is
\* the set of values *is_find may hold when the loop leaves it unset.
RECURSIVE Walk(_, _, _, _)
Walk(m, cur, path, lvl) ==
    LET ind == m[cur].inode
        j == IF ind = NULL THEN 0 ELSE FirstMatch(m, ind.kids, path[lvl])
    IN CASE ind = NULL -> [segv |-> TRUE, d |-> 0, finds |-> {}]
         [] m[cur].ftype = FILE /\ lvl < Len(path) -> [segv |-> FALSE, d |-> cur, finds |-> BOOLEAN]
         [] m[cur].ftype = DIR /\ j = 0 -> [segv |-> FALSE, d |-> cur, finds |-> {FALSE}]
         [] m[cur].ftype = DIR /\ lvl = Len(path) -> [segv |-> FALSE, d |-> ind.kids[j], finds |-> {TRUE}]
         [] m[cur].ftype = DIR -> Walk(m, ind.kids[j], path, lvl + 1)
         [] OTHER -> [segv |-> TRUE, d |-> 0, finds |-> {}]

\* newfs_lookup(path): the walk, then hydration of the returned dentry.
Lookup(st, path) ==
    IF path = <<>> THEN [segv |-> FALSE, d |-> 1, finds |-> {TRUE}, st |-> st]
    ELSE LET w == Walk(st.mem, 1, path, 1)
         IN IF w.segv THEN [segv |-> TRUE, d |-> 0, finds |-> {}, st |-> st]
            ELSE [segv |-> FALSE, d |-> w.d, finds |-> w.finds,
                  st |-> IF st.mem[w.d].inode = NULL
                         THEN ReadInode(st, w.d, Disk, st.mem[w.d].ino, maxData)
                         ELSE st]

\* newfs_sync_inode(inode of st.mem[d]) and, within it, the loop over the
\* dentry list that writes each record and recurses into resident inodes.
RECURSIVE SyncInode(_, _, _)
RECURSIVE SyncKids(_, _, _, _)
SyncInode(dk, st, d) ==
    LET ind == st.mem[d].inode
        written == [dk EXCEPT !.inode[ind.ino] = [ino |-> ind.ino, size |-> ind.size, dir_cnt |-> ind.dir_cnt]]
    IN IF st.mem[d].ftype = DIR THEN SyncKids(written, st, d, 1) ELSE written
SyncKids(dk, st, d, j) ==
    LET ind == st.mem[d].inode
        k == ind.kids[j]
        rec == [dk EXCEPT !.dir[ind.ino][j - 1] = [name |-> st.mem[k].name, ftype |-> st.mem[k].ftype,
                                                   ino |-> st.mem[k].ino]]
    IN IF j > Len(ind.kids) THEN dk
       ELSE SyncKids(IF st.mem[k].inode # NULL THEN SyncInode(rec, st, k) ELSE rec, st, d, j + 1)

-----------------------------------------------------------------------------
(* The daemon's life cycle.                                                *)

\* The daemon's memory is gone: after newfs_destroy returns, on a kill, or
\* on a fault.
ProcessExit ==
    /\ phase' = "down"
    /\ mem' = <<>>
    /\ imap' = {}
    /\ dmap' = {}
    /\ maxIno' = 0
    /\ maxData' = 0

Commit(st) == mem' = st.mem /\ imap' = st.imap /\ dmap' = st.dmap

Init ==
    /\ phase = "down"
    /\ mem = <<>>
    /\ imap = {}
    /\ dmap = {}
    /\ maxIno = 0
    /\ maxData = 0
    /\ dmagic = FALSE
    /\ dimap = {}
    /\ ddmap = {}
    /\ dinode = [i \in Ino |-> ZeroInode]
    /\ ddir = [i \in Ino |-> [s \in Slot |-> ZeroDentry]]
    /\ mounts = 0
    /\ segv = FALSE

\* Mutant: newfs_init skips reading the bitmaps from disk.
SuperFromDiskNoMaps == [mem |-> <<NewDentry(<<"/">>, DIR, 0)>>, imap |-> {}, dmap |-> {}]

\* The in-memory state newfs_init builds before the root inode: the root
\* dentry, and both bitmaps read verbatim from disk.
SuperFromDisk == [mem |-> <<NewDentry(<<"/">>, DIR, 0)>>, imap |-> dimap, dmap |-> ddmap]

\* newfs_init.  Without the magic number the fixed layout is taken and
\* max_ino/max_data are set; with it they stay 0.  Both bitmaps are read
\* from disk.  A fresh layout gets a root inode, synced at once.  The root
\* is then always read from inode record 0.
Mount ==
    /\ phase = "down"
    /\ mounts < MaxMounts
    /\ LET isInit == ~dmagic
           mi == IF isInit THEN MaxIno ELSE 0
           md == IF isInit THEN MaxData ELSE 0
           st1 == IF isInit THEN AllocInode(SuperFromDisk, 1, mi) ELSE SuperFromDisk
           dk == IF isInit THEN SyncInode(Disk, st1, 1) ELSE Disk
           st2 == ReadInode(st1, 1, dk, 0, md)
       IN /\ Commit(st2)
          /\ dinode' = dk.inode
          /\ ddir' = dk.dir
          /\ maxIno' = mi
          /\ maxData' = md
    /\ phase' = "mounted"
    /\ mounts' = mounts + 1
    /\ UNCHANGED <<dmagic, dimap, ddmap, segv>>

\* newfs_destroy: sync the tree from the root, then write the superblock
\* with the magic number and both bitmaps; the daemon then exits.
Unmount ==
    /\ phase = "mounted"
    /\ LET dk == SyncInode(Disk, Cur, 1)
       IN /\ dinode' = dk.inode
          /\ ddir' = dk.dir
    /\ dmagic' = TRUE
    /\ dimap' = imap
    /\ ddmap' = dmap
    /\ ProcessExit
    /\ UNCHANGED <<mounts, segv>>

\* The daemon is killed between two calls: nothing reaches the disk.
Crash ==
    /\ phase = "mounted"
    /\ ProcessExit
    /\ UNCHANGED <<dmagic, dimap, ddmap, dinode, ddir, mounts, segv>>

\* A call whose newfs_lookup dereferenced NULL: the daemon dies.
Fault ==
    /\ ProcessExit
    /\ segv' = TRUE
    /\ UNCHANGED <<dmagic, dimap, ddmap, dinode, ddir, mounts>>

-----------------------------------------------------------------------------
(* The FUSE calls.  Each one starts with newfs_lookup; its hydration of    *)
(* the returned dentry stays in memory whatever the call returns.          *)

\* Mutant: the new dentry is linked into the root's list, not its parent's.
CreateUnderRoot(st, par, fname, ftype) ==
    LET c == Len(st.mem) + 1
        linked == [st EXCEPT !.mem = Append(@, NewDentry(fname, ftype, par))]
    IN AllocDentry(AllocInode(linked, c, maxIno), 1, c, maxData)

\* newfs_mkdir and newfs_mknod once the lookup returned dentry lk.d: a new
\* dentry named after the last component under lk.d, its inode, and its
\* link into lk.d's list.  The allocators' errors are ignored.
Create(st, par, fname, ftype) ==
    LET c == Len(st.mem) + 1
        linked == [st EXCEPT !.mem = Append(@, NewDentry(fname, ftype, par))]
    IN AllocDentry(AllocInode(linked, c, maxIno), par, c, maxData)

\* newfs_mkdir(path)
Mkdir(path) ==
    /\ phase = "mounted"
    /\ Len(mem) < MaxDentries
    /\ LET lk == Lookup(Cur, path)
       IN IF lk.segv THEN Fault
          ELSE \E found \in lk.finds :
                 /\ IF found \/ lk.st.mem[lk.d].ftype = FILE
                    THEN Commit(lk.st)   \* EXISTS, UNSUPPORTED
                    ELSE Commit(Create(lk.st, lk.d, Last(path), DIR))
                 /\ UNCHANGED <<phase, maxIno, maxData, dmagic, dimap, ddmap, dinode, ddir,
                                mounts, segv>>

\* A call that changes nothing beyond its lookup: newfs_getattr and
\* newfs_readdir (the attributes and the entry they report are not
\* modelled); and newfs_read, whose checks (found, not a directory,
\* offset within the size) only choose the error it returns.
LookupOnly(path) ==
    /\ phase = "mounted"
    /\ LET lk == Lookup(Cur, path)
       IN IF lk.segv THEN Fault
          ELSE /\ Commit(lk.st)
               /\ UNCHANGED <<phase, maxIno, maxData, dmagic, dimap, ddmap, dinode, ddir,
                              mounts, segv>>

Getattr(path) == LookupOnly(path)

Readdir(path) == LookupOnly(path)

Read(path) == LookupOnly(path)

\* newfs_mknod(path, mode): unlike newfs_mkdir it does not refuse a parent
\* that is a regular file, so the new dentry may be linked under a file.
Mknod(path, ftype) ==
    /\ phase = "mounted"
    /\ Len(mem) < MaxDentries
    /\ LET lk == Lookup(Cur, path)
       IN IF lk.segv THEN Fault
          ELSE \E found \in lk.finds :
                 /\ IF found
                    THEN Commit(lk.st)   \* EXISTS
                    ELSE Commit(Create(lk.st, lk.d, Last(path), ftype))
                 /\ UNCHANGED <<phase, maxIno, maxData, dmagic, dimap, ddmap, dinode, ddir,
                                mounts, segv>>

\* newfs_write(path, size, offset): copies into the file's buffer (no bound
\* check against its NEWFS_DATA_PER_FILE blocks) and grows the size.
Write(path, off, len) ==
    /\ phase = "mounted"
    /\ LET lk == Lookup(Cur, path)
           ind == lk.st.mem[lk.d].inode
       IN IF lk.segv THEN Fault
          ELSE \E found \in lk.finds :
                 /\ IF ~found \/ lk.st.mem[lk.d].ftype = DIR \/ ind.size < off
                    THEN Commit(lk.st)   \* NOTFOUND, ISDIR, SEEK
                    ELSE Commit([lk.st EXCEPT !.mem[lk.d].inode.size = Max({@, off + len})])
                 /\ UNCHANGED <<phase, maxIno, maxData, dmagic, dimap, ddmap, dinode, ddir,
                                mounts, segv>>

Next ==
    \/ Mount
    \/ Unmount
    \/ Crash
    \/ \E p \in Paths : Mkdir(p)
    \/ \E p \in Paths, k \in NodeKinds : Mknod(p, k)
    \/ \E p \in Paths \cup {<<>>} : Getattr(p)
    \/ \E p \in Paths \cup {<<>>} : Readdir(p)
    \/ \E p \in Paths, off \in WriteOffsets, len \in WriteLens : Write(p, off, len)
    \/ \E p \in Paths : Read(p)

Spec == Init /\ [][Next]_vars

-----------------------------------------------------------------------------
(* The filesystem a caller sees: the paths reachable from the root through *)
(* directories, over the resident tree where a dentry is hydrated and over *)
(* the disk records where it is not.                                       *)

RECURSIVE DiskSub(_, _)
DiskSub(ino, pre) ==
    IF ino = NoIno \/ Len(pre) >= MaxDepth THEN {}
    ELSE UNION { LET e == ddir[ino][i]
                     q == Append(pre, e.name)
                 IN {q} \cup (IF e.ftype = DIR THEN DiskSub(e.ino, q) ELSE {})
               : i \in 0 .. (Min({dinode[ino].dir_cnt, MaxKids}) - 1) }

RECURSIVE MemSub(_, _)
MemSub(d, pre) ==
    IF mem[d].ftype # DIR \/ Len(pre) >= MaxDepth THEN {}
    ELSE IF mem[d].inode = NULL THEN DiskSub(mem[d].ino, pre)
    ELSE UNION { LET q == Append(pre, mem[k].name) IN {q} \cup MemSub(k, q)
               : k \in Range(mem[d].inode.kids) }

\* What a new daemon would load: nothing on an unformatted disk.
DiskView == IF dmagic THEN DiskSub(0, <<>>) ELSE {}

View == IF phase = "mounted" THEN MemSub(1, <<>>) ELSE DiskView

\* The ino a dentry stands for: its inode's when hydrated.
InoOf(d) == IF mem[d].inode # NULL THEN mem[d].inode.ino ELSE mem[d].ino

-----------------------------------------------------------------------------
(* Properties.                                                             *)

TypeOK ==
    /\ phase \in {"down", "mounted"}
    /\ \A d \in DOMAIN mem :
         /\ mem[d].ftype \in {FILE, DIR}
         /\ mem[d].ino \in Ino \cup {NoIno}
         /\ mem[d].parent \in 0 .. Len(mem)
         /\ mem[d].inode = NULL \/ mem[d].inode.kids \in Seq(DOMAIN mem)
         /\ mem[d].inode # NULL => \A k \in Range(mem[d].inode.kids) : mem[k].parent = d
    /\ imap \subseteq Ino /\ dmap \subseteq Ino
    /\ dimap \subseteq Ino /\ ddmap \subseteq Ino
    /\ dinode \in [Ino -> InodeRec]
    /\ ddir \in [Ino -> [Slot -> DentryRec]]
    /\ dmagic \in BOOLEAN /\ segv \in BOOLEAN
    /\ mounts \in 0 .. MaxMounts

\* Allocation never hands out an ino that is in use: while a daemon runs,
\* no two of its dentries stand for the same ino, and each one's ino is
\* set in the in-memory inode bitmap.  Across daemons this rests on
\* newfs_destroy persisting the bitmap that newfs_init loads back, and on
\* newfs_alloc_inode marking what it hands out.
NoInoReuse ==
    phase = "mounted" =>
      \A d \in DOMAIN mem :
         InoOf(d) # NoIno =>
           /\ InoOf(d) \in imap
           /\ \A e \in DOMAIN mem \ {d} : InoOf(e) # InoOf(d)

\* The bitmaps on disk never lose a bit: what newfs_destroy writes covers
\* what newfs_init read.
BitmapsMonotone == [][dimap \subseteq dimap' /\ ddmap \subseteq ddmap']_vars

\* Spec 8 (scenario, remount): the filesystem newfs_destroy leaves on disk is
\* the one the daemon served.
DurableUnmount == [][Unmount => DiskView' = View]_vars

\* Spec 4.4 / 8 (create_directory("/a/missing/b") returns NotFound):
\* newfs_mkdir adds no path other than the one it is called with.
MkdirOnlyRequested == [][\A p \in Paths : Mkdir(p) => View' \ View \subseteq {p}]_vars

\* Spec 4.4 (fixed-width name comparison) and 7 (AlreadyExists only when
\* the target resolves): newfs_lookup reports found only for a path that
\* exists.
LookupFindsOnlyPresent ==
    phase = "mounted" =>
      \A p \in Paths : LET lk == Lookup(Cur, p)
                       IN (~lk.segv /\ lk.finds = {TRUE}) => p \in View

\* newfs_lookup never dereferences NULL, so the daemon never dies of it.
NoSegfault == ~segv

=============================================================================
