----------------------------- MODULE BufferCache -----------------------------
(***************************************************************************)
(* The xv6 buffer cache with hashed buckets (src/实验三/kernel/bio.c).      *)
(*                                                                         *)
(* Buffers live in NBUCKETS doubly linked lists, one spinlock per list; a *)
(* block k is looked for in bucket k % NBUCKETS.  bget first looks for k  *)
(* in its bucket, then for a free buffer there (refcnt 0, least recently  *)
(* used first), then walks the other buckets, skipping any whose lock it  *)
(* sees taken, and steals a free buffer into its own bucket while holding *)
(* both locks.  Each buffer also has a sleeplock that its user holds      *)
(* between bread and brelse.                                              *)
(*                                                                         *)
(* Every process runs on its own CPU.  A step is one of: acquiring a      *)
(* spinlock (it waits while another CPU holds it), the unsynchronised     *)
(* read of lock.locked, or the code between two of these, which runs      *)
(* with the locks it needs held and so is atomic for every other CPU.     *)
(* The contents of a block are a version number: bwrite stores a new     *)
(* version on the disk, and a buffer holds the version it last read or    *)
(* wrote, tagged with the block it was for.                               *)
(***************************************************************************)
EXTENDS Integers, Sequences, FiniteSets, SequencesExt, FiniteSetsExt, Relation

CONSTANTS
    Procs,      \* processes calling bread/brelse, one per CPU
    Blocks,     \* block numbers they read
    NBUCKETS,   \* NBUCKETS
    NBUF,       \* NBUF
    MaxPins,    \* bound: bpin calls outstanding on one buffer
    MaxOps,     \* bound: bread calls per process
    MaxWrites,  \* bound: bwrite calls per block
    None,       \* no process, no buffer
    NoBlock     \* the (dev 0, blockno 0) binit leaves in every buffer

Bufs == 0 .. (NBUF - 1)
Buckets == 0 .. (NBUCKETS - 1)
Hash(k) == k % NBUCKETS

ASSUME /\ Blocks \subseteq Nat /\ NBUCKETS \in Nat \ {0} /\ NBUF \in Nat \ {0}
       /\ None \notin Procs \cup Bufs /\ NoBlock \notin Blocks

VARIABLES
    bucket,     \* bcache.hashbucket[c]: its buffers from head.next on
    blockno,    \* b->dev, b->blockno
    valid,      \* b->valid
    refcnt,     \* b->refcnt
    lock,       \* bcache.lock[c]: the CPU holding it, or None
    sleep,      \* b->lock: the process holding the sleeplock, or None
    pc,         \* where each process is in bread/brelse/bpin/bunpin
    req,        \* the block of its current bread
    cur,        \* the buffer bget gave it, or None
    fc,         \* findCount of bget's steal loop
    pins,       \* bpin calls not yet undone by bunpin, per buffer
    ops,        \* bread calls made
    panicked,   \* the process that called panic, or None
    data,       \* b->data: [blk, ver], the block and version it was read or written as
    disk        \* the version of each block on the disk

vars == <<bucket, blockno, valid, refcnt, lock, sleep, pc, req, cur, fc, pins, ops, panicked,
          data, disk>>

\* Where a process waits in acquire(), and where it goes once it has the lock.
AcquireNext == [acquire |-> "scan", steal_acquire |-> "steal_scan",
                relse_acquire |-> "relse", pin_acquire |-> "pin", unpin_acquire |-> "unpin"]

\* The bucket lock a waiting process wants.
Wanted(p) == CASE pc[p] = "acquire"       -> Hash(req[p])
               [] pc[p] = "steal_acquire" -> fc[p]
               [] OTHER                   -> Hash(blockno[cur[p]])

\* Process states in which p's buffer is counted in its refcnt.
Using == {"sleep", "hold", "relse_acquire", "relse", "pin_acquire", "pin", "unpin_acquire", "unpin"}

-----------------------------------------------------------------------------

\* binit: buffer b goes to the head of bucket b % NBUCKETS, in order of b.
Init ==
    /\ bucket = [c \in Buckets |-> SetToSortSeq({b \in Bufs : b % NBUCKETS = c}, >)]
    /\ blockno = [b \in Bufs |-> NoBlock]
    /\ valid = [b \in Bufs |-> FALSE]
    /\ refcnt = [b \in Bufs |-> 0]
    /\ lock = [c \in Buckets |-> None]
    /\ sleep = [b \in Bufs |-> None]
    /\ pc = [p \in Procs |-> "idle"]
    /\ req = [p \in Procs |-> NoBlock]
    /\ cur = [p \in Procs |-> None]
    /\ fc = [p \in Procs |-> 0]
    /\ pins = [b \in Bufs |-> 0]
    /\ ops = [p \in Procs |-> 0]
    /\ panicked = None
    /\ data = [b \in Bufs |-> [blk |-> NoBlock, ver |-> 0]]
    /\ disk = [k \in Blocks |-> 0]

\* acquire(&bcache.lock[c]) at each of its call sites: spins while another
\* CPU holds the lock.
Acquire(p) ==
    /\ pc[p] \in DOMAIN AcquireNext
    /\ lock[Wanted(p)] = None
    /\ lock' = [lock EXCEPT ![Wanted(p)] = p]
    /\ pc' = [pc EXCEPT ![p] = AcquireNext[@]]
    /\ UNCHANGED <<bucket, blockno, valid, refcnt, sleep, req, cur, fc, pins, ops, panicked, data, disk>>

\* bread(k) calls bget(k).
Bread(p, k) ==
    /\ pc[p] = "idle"
    /\ ops[p] < MaxOps
    /\ pc' = [pc EXCEPT ![p] = "acquire"]
    /\ req' = [req EXCEPT ![p] = k]
    /\ ops' = [ops EXCEPT ![p] = @ + 1]
    /\ UNCHANGED <<bucket, blockno, valid, refcnt, lock, sleep, cur, fc, pins, panicked, data, disk>>

\* The buffer b is handed to p: bucket locks released, then acquiresleep.
HandOut(p, b, locks) ==
    /\ lock' = [c \in Buckets |-> IF c \in locks THEN None ELSE lock[c]]
    /\ cur' = [cur EXCEPT ![p] = b]
    /\ pc' = [pc EXCEPT ![p] = "sleep"]

\* Mutant: the new owner's reference is not counted.
AssignNoRef(b, k) ==
    /\ blockno' = [blockno EXCEPT ![b] = k]
    /\ valid' = [valid EXCEPT ![b] = FALSE]
    /\ refcnt' = refcnt

\* Mutant: the recycled buffer keeps valid from the block it held before.
AssignKeepValid(b, k) ==
    /\ blockno' = [blockno EXCEPT ![b] = k]
    /\ valid' = valid
    /\ refcnt' = [refcnt EXCEPT ![b] = 1]

\* b takes block k: dev, blockno, valid = 0, refcnt = 1.
Assign(b, k) ==
    /\ blockno' = [blockno EXCEPT ![b] = k]
    /\ valid' = [valid EXCEPT ![b] = FALSE]
    /\ refcnt' = [refcnt EXCEPT ![b] = 1]

\* Mutant: a hit does not take a reference.
BgetHitNoRef(p) ==
    LET h == Hash(req[p])
        i == SelectInSeq(bucket[h], LAMBDA b : blockno[b] = req[p])
    IN /\ pc[p] = "scan"
       /\ i # 0
       /\ HandOut(p, bucket[h][i], {h})
       /\ UNCHANGED <<bucket, blockno, valid, refcnt, sleep, req, fc, pins, ops, panicked, data, disk>>

\* bget: the block is cached in its bucket (the first match from the head).
BgetHit(p) ==
    LET h == Hash(req[p])
        i == SelectInSeq(bucket[h], LAMBDA b : blockno[b] = req[p])
    IN /\ pc[p] = "scan"
       /\ i # 0
       /\ refcnt' = [refcnt EXCEPT ![bucket[h][i]] = @ + 1]
       /\ HandOut(p, bucket[h][i], {h})
       /\ UNCHANGED <<bucket, blockno, valid, sleep, req, fc, pins, ops, panicked, data, disk>>

\* Mutant: a free buffer is reused without first looking for the block.
BgetRecycleNoLookup(p) ==
    LET h == Hash(req[p])
        j == SelectLastInSeq(bucket[h], LAMBDA b : refcnt[b] = 0)
    IN /\ pc[p] = "scan"
       /\ j # 0
       /\ Assign(bucket[h][j], req[p])
       /\ HandOut(p, bucket[h][j], {h})
       /\ UNCHANGED <<bucket, sleep, req, fc, pins, ops, panicked, data, disk>>

\* bget: not cached; the free buffer nearest the tail of the bucket is reused.
BgetRecycle(p) ==
    LET h == Hash(req[p])
        j == SelectLastInSeq(bucket[h], LAMBDA b : refcnt[b] = 0)
    IN /\ pc[p] = "scan"
       /\ SelectInSeq(bucket[h], LAMBDA b : blockno[b] = req[p]) = 0
       /\ j # 0
       /\ Assign(bucket[h][j], req[p])
       /\ HandOut(p, bucket[h][j], {h})
       /\ UNCHANGED <<bucket, sleep, req, fc, pins, ops, panicked, data, disk>>

\* bget: nothing in the own bucket; the steal loop starts at currentCount + 1.
BgetMiss(p) ==
    LET h == Hash(req[p])
    IN /\ pc[p] = "scan"
       /\ SelectInSeq(bucket[h], LAMBDA b : blockno[b] = req[p] \/ refcnt[b] = 0) = 0
       /\ fc' = [fc EXCEPT ![p] = h + 1]
       /\ pc' = [pc EXCEPT ![p] = "loop"]
       /\ UNCHANGED <<bucket, blockno, valid, refcnt, lock, sleep, req, cur, pins, ops, panicked, data, disk>>

\* The loop test findCount != currentCount, then findCount %= NBUCKETS.
BgetLoop(p) ==
    /\ pc[p] = "loop"
    /\ fc[p] # Hash(req[p])
    /\ fc' = [fc EXCEPT ![p] = @ % NBUCKETS]
    /\ pc' = [pc EXCEPT ![p] = "test"]
    /\ UNCHANGED <<bucket, blockno, valid, refcnt, lock, sleep, req, cur, pins, ops, panicked, data, disk>>

\* if(bcache.lock[findCount].locked) continue;  read without the lock.
BgetSkip(p) ==
    /\ pc[p] = "test"
    /\ lock[fc[p]] # None
    /\ fc' = [fc EXCEPT ![p] = @ + 1]
    /\ pc' = [pc EXCEPT ![p] = "loop"]
    /\ UNCHANGED <<bucket, blockno, valid, refcnt, lock, sleep, req, cur, pins, ops, panicked, data, disk>>

\* Mutant: the steal acquires the bucket lock without testing it first.
BgetTryAnyway(p) ==
    /\ pc[p] = "test"
    /\ pc' = [pc EXCEPT ![p] = "steal_acquire"]
    /\ UNCHANGED <<bucket, blockno, valid, refcnt, lock, sleep, req, cur, fc, pins, ops, panicked, data, disk>>

\* The lock was seen free: go on to acquire it.
BgetTry(p) ==
    /\ pc[p] = "test"
    /\ lock[fc[p]] = None
    /\ pc' = [pc EXCEPT ![p] = "steal_acquire"]
    /\ UNCHANGED <<bucket, blockno, valid, refcnt, lock, sleep, req, cur, fc, pins, ops, panicked, data, disk>>

\* Mutant: the stolen buffer stays on the list of the bucket it came from.
BgetStealNoMove(p) ==
    LET h == Hash(req[p])
        f == fc[p]
        j == SelectLastInSeq(bucket[f], LAMBDA b : refcnt[b] = 0)
        b == bucket[f][j]
    IN /\ pc[p] = "steal_scan"
       /\ j # 0
       /\ Assign(b, req[p])
       /\ HandOut(p, b, {f, h})
       /\ UNCHANGED <<bucket, sleep, req, fc, pins, ops, panicked, data, disk>>

\* With both locks held: the free buffer nearest the tail of bucket
\* findCount moves to the head of the own bucket and takes the block.
BgetSteal(p) ==
    LET h == Hash(req[p])
        f == fc[p]
        j == SelectLastInSeq(bucket[f], LAMBDA b : refcnt[b] = 0)
        b == bucket[f][j]
    IN /\ pc[p] = "steal_scan"
       /\ j # 0
       /\ bucket' = [bucket EXCEPT ![f] = RemoveAt(@, j), ![h] = <<b>> \o @]
       /\ Assign(b, req[p])
       /\ HandOut(p, b, {f, h})
       /\ UNCHANGED <<sleep, req, fc, pins, ops, panicked, data, disk>>

\* No free buffer in bucket findCount: release it and go on.
BgetStealNone(p) ==
    /\ pc[p] = "steal_scan"
    /\ SelectInSeq(bucket[fc[p]], LAMBDA b : refcnt[b] = 0) = 0
    /\ lock' = [lock EXCEPT ![fc[p]] = None]
    /\ fc' = [fc EXCEPT ![p] = @ + 1]
    /\ pc' = [pc EXCEPT ![p] = "loop"]
    /\ UNCHANGED <<bucket, blockno, valid, refcnt, sleep, req, cur, pins, ops, panicked, data, disk>>

\* The loop ended: release(&bcache.lock[currentCount]); panic("bget: no buffers").
BgetPanic(p) ==
    /\ pc[p] = "loop"
    /\ fc[p] = Hash(req[p])
    /\ lock' = [lock EXCEPT ![Hash(req[p])] = None]
    /\ panicked' = p
    /\ UNCHANGED <<bucket, blockno, valid, refcnt, sleep, pc, req, cur, fc, pins, ops, data, disk>>

\* acquiresleep(&b->lock) at the end of bget, then bread reads the block
\* from disk if the buffer is not valid.
Sleep(p) ==
    /\ pc[p] = "sleep"
    /\ sleep[cur[p]] = None
    /\ sleep' = [sleep EXCEPT ![cur[p]] = p]
    /\ valid' = [valid EXCEPT ![cur[p]] = TRUE]
    /\ data' = IF valid[cur[p]] THEN data
               ELSE [data EXCEPT ![cur[p]] = [blk |-> blockno[cur[p]], ver |-> disk[blockno[cur[p]]]]]
    /\ pc' = [pc EXCEPT ![p] = "hold"]
    /\ UNCHANGED <<bucket, blockno, refcnt, lock, req, cur, fc, pins, ops, panicked, disk>>

\* The holder changes the block and calls bwrite(b): holdingsleep holds,
\* and virtio_disk_rw writes the buffer to the disk.
Bwrite(p) ==
    LET b == cur[p]
        k == blockno[b]
    IN /\ pc[p] = "hold"
       /\ disk[k] < MaxWrites
       /\ disk' = [disk EXCEPT ![k] = @ + 1]
       /\ data' = [data EXCEPT ![b] = [blk |-> k, ver |-> disk[k] + 1]]
       /\ UNCHANGED <<bucket, blockno, valid, refcnt, lock, sleep, pc, req, cur, fc, pins, ops,
                      panicked>>

\* brelse: holdingsleep holds, releasesleep.
Brelse(p) ==
    /\ pc[p] = "hold"
    /\ sleep' = [sleep EXCEPT ![cur[p]] = None]
    /\ pc' = [pc EXCEPT ![p] = "relse_acquire"]
    /\ UNCHANGED <<bucket, blockno, valid, refcnt, lock, req, cur, fc, pins, ops, panicked, data, disk>>

\* brelse under the bucket lock: refcnt--, and a buffer nobody uses moves
\* to the head of its bucket.
BrelseDone(p) ==
    LET b == cur[p]
        h == Hash(blockno[b])
    IN /\ pc[p] = "relse"
       /\ refcnt' = [refcnt EXCEPT ![b] = @ - 1]
       /\ bucket' = IF refcnt[b] = 1 THEN [bucket EXCEPT ![h] = <<b>> \o Remove(@, b)] ELSE bucket
       /\ lock' = [lock EXCEPT ![h] = None]
       /\ cur' = [cur EXCEPT ![p] = None]
       /\ pc' = [pc EXCEPT ![p] = "idle"]
       /\ UNCHANGED <<blockno, valid, sleep, req, fc, pins, ops, panicked, data, disk>>

\* bpin(b), called by the holder of b (log_write).
Bpin(p) ==
    /\ pc[p] = "hold"
    /\ pins[cur[p]] < MaxPins
    /\ pc' = [pc EXCEPT ![p] = "pin_acquire"]
    /\ UNCHANGED <<bucket, blockno, valid, refcnt, lock, sleep, req, cur, fc, pins, ops, panicked, data, disk>>

PinDone(p) ==
    /\ pc[p] = "pin"
    /\ refcnt' = [refcnt EXCEPT ![cur[p]] = @ + 1]
    /\ pins' = [pins EXCEPT ![cur[p]] = @ + 1]
    /\ lock' = [lock EXCEPT ![Wanted(p)] = None]
    /\ pc' = [pc EXCEPT ![p] = "hold"]
    /\ UNCHANGED <<bucket, blockno, valid, sleep, req, cur, fc, ops, panicked, data, disk>>

\* bunpin(b), called by the holder of a pinned b (install_trans).
Bunpin(p) ==
    /\ pc[p] = "hold"
    /\ pins[cur[p]] > 0
    /\ pc' = [pc EXCEPT ![p] = "unpin_acquire"]
    /\ UNCHANGED <<bucket, blockno, valid, refcnt, lock, sleep, req, cur, fc, pins, ops, panicked, data, disk>>

UnpinDone(p) ==
    /\ pc[p] = "unpin"
    /\ refcnt' = [refcnt EXCEPT ![cur[p]] = @ - 1]
    /\ pins' = [pins EXCEPT ![cur[p]] = @ - 1]
    /\ lock' = [lock EXCEPT ![Wanted(p)] = None]
    /\ pc' = [pc EXCEPT ![p] = "hold"]
    /\ UNCHANGED <<bucket, blockno, valid, sleep, req, cur, fc, ops, panicked, data, disk>>

\* A step of process p; after a panic no CPU takes another step.
Step(p) ==
    /\ panicked = None
    /\ \/ Acquire(p)
       \/ \E k \in Blocks : Bread(p, k)
       \/ BgetHit(p) \/ BgetRecycle(p) \/ BgetMiss(p)
       \/ BgetLoop(p) \/ BgetSkip(p) \/ BgetTry(p)
       \/ BgetSteal(p) \/ BgetStealNone(p) \/ BgetPanic(p)
       \/ Sleep(p) \/ Bwrite(p)
       \/ Brelse(p) \/ BrelseDone(p)
       \/ Bpin(p) \/ PinDone(p) \/ Bunpin(p) \/ UnpinDone(p)

\* The kernel has halted, or every process has made its calls and given
\* its buffers back.
Finished ==
    /\ panicked # None \/ \A p \in Procs : pc[p] = "idle" /\ ops[p] = MaxOps
    /\ UNCHANGED vars

Next == (\E p \in Procs : Step(p)) \/ Finished

Spec == Init /\ [][Next]_vars

\* The scheduling the kernel gives: a CPU that can step keeps stepping; a
\* lock that is free again and again is eventually taken by a CPU waiting
\* for it (strong fairness, so that no run fails only because a spinlock
\* is unfair); a process that holds a buffer eventually calls brelse.
\* Calling bread, bpin and bunpin stays the caller's choice.
Internal(p) ==
    \/ BgetHit(p) \/ BgetRecycle(p) \/ BgetMiss(p)
    \/ BgetLoop(p) \/ BgetSkip(p) \/ BgetTry(p)
    \/ BgetSteal(p) \/ BgetStealNone(p) \/ BgetPanic(p)
    \/ Brelse(p) \/ BrelseDone(p) \/ PinDone(p) \/ UnpinDone(p)

Fairness ==
    \A p \in Procs :
        /\ WF_vars(panicked = None /\ Internal(p))
        /\ SF_vars(panicked = None /\ Acquire(p))
        /\ SF_vars(panicked = None /\ Sleep(p))

FairSpec == Spec /\ Fairness

-----------------------------------------------------------------------------
(* Properties.                                                             *)

TypeOK ==
    /\ bucket \in [Buckets -> Seq(Bufs)]
    /\ blockno \in [Bufs -> Blocks \cup {NoBlock}]
    /\ valid \in [Bufs -> BOOLEAN]
    /\ refcnt \in [Bufs -> Nat]
    /\ lock \in [Buckets -> Procs \cup {None}]
    /\ sleep \in [Bufs -> Procs \cup {None}]
    /\ cur \in [Procs -> Bufs \cup {None}]
    /\ \A p \in Procs : pc[p] \in Using => cur[p] \in Bufs
    /\ fc \in [Procs -> 0 .. NBUCKETS]
    /\ pins \in [Bufs -> 0 .. MaxPins]
    /\ panicked \in Procs \cup {None}
    /\ data \in [Bufs -> [blk : Blocks \cup {NoBlock}, ver : 0 .. MaxWrites]]
    /\ disk \in [Blocks -> 0 .. MaxWrites]

\* Every buffer sits in exactly one bucket, and a buffer that holds a block
\* sits in that block's bucket, the one bget searches and brelse locks.
\* It rests on bget moving a stolen buffer into its own bucket while it
\* holds both locks.
BufferInItsBucket ==
    /\ \A b \in Bufs : Cardinality({c \in Buckets : b \in Range(bucket[c])}) = 1
    /\ \A c \in Buckets : Len(bucket[c]) = Cardinality(Range(bucket[c]))
    /\ \A b \in Bufs : blockno[b] # NoBlock => b \in Range(bucket[Hash(blockno[b])])

\* refcnt of a buffer is the number of processes between bget and the end
\* of brelse on it, plus its pins: bget, brelse, bpin and bunpin change it
\* only under the lock of the bucket the buffer is in.
RefcntCountsUsers ==
    \A b \in Bufs :
        refcnt[b] = Cardinality({p \in Procs : pc[p] \in Using /\ cur[p] = b}) + pins[b]

\* The cache implements exclusive use of blocks: the process that holds a
\* buffer's sleeplock is the only user of that block, and the block is the
\* one it asked bread for (refinement of BlockOwnership).
BO == INSTANCE BlockOwnership WITH
        users <- [k \in Blocks |-> {sleep[b] : b \in {x \in Bufs : blockno[x] = k /\ sleep[x] # None}}],
        asked <- [p \in Procs |-> IF pc[p] \in {"idle", "relse_acquire", "relse"} THEN None ELSE req[p]],
        halted <- (panicked # None)

ImplementsBlockOwnership == BO!Spec

\* bget returns: every call either hands out a buffer or reaches the panic.
BgetReturns == \A p \in Procs : pc[p] = "acquire" ~> (pc[p] = "sleep" \/ panicked # None)

\* p spins on the bucket lock that q holds.
WaitsFor == [pq \in Procs \X Procs |->
               pc[pq[1]] \in DOMAIN AcquireNext /\ lock[Wanted(pq[1])] = pq[2]]

\* No two CPUs wait on each other's bucket locks, directly or through
\* others.  bget holds the lock of its own bucket while it acquires the
\* lock of the bucket it steals from (bio.c:103); only the test of
\* lock.locked before that acquire keeps two CPUs stealing from each
\* other's buckets from deadlocking.
NoLockCycle == IsIrreflexive(TransitiveClosure(WaitsFor, Procs), Procs)

\* A cached copy is never stale: every valid buffer holds the version of
\* its block that is on the disk, so bread never returns old contents.
\* This needs bget never to leave two buffers for one block (a write
\* through one would leave the other stale) and a recycled buffer to be
\* marked invalid so that bread rereads it.
CachedCopiesCurrent ==
    \A b \in Bufs : valid[b] => data[b] = [blk |-> blockno[b], ver |-> disk[blockno[b]]]

\* bget panics only when there is no free buffer: it never skips a bucket
\* that holds a free buffer because another CPU holds that bucket's lock.
NoSpuriousPanic == panicked # None => \A b \in Bufs : refcnt[b] > 0

=============================================================================
