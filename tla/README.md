# Model checking the OS labs: newfs, the xv6 buffer cache and allocator, and the user programs

This directory holds TLA+ models of the code under `src/`. TLC checks them. `PROJECT.json` lists:

- every component and which module models it;
- every run, with its expected result;
- the mutants that show each passing property can fail;
- the map from each definition to the source lines it translates;
- the findings;
- the hazards of the code.

## The system

| Part | Source | State | Concurrency |
|---|---|---|---|
| newfs, a FUSE file system | `src/实验五/newfs/src/newfs.c`, `include/types.h` | in memory: a superblock (inode bitmap, data bitmap, `max_ino`, `max_data`) and a tree of dentries whose inodes are loaded lazily; on the disk: superblock, bitmaps, one inode record per ino, one extent of dentry records per directory | one daemon serving one FUSE call at a time; daemons come and go (mount, unmount, kill) over one disk |
| xv6 buffer cache | `src/实验三/kernel/bio.c` | 13 hash buckets of buffers, a spinlock per bucket, refcounts, a sleeplock per buffer | many CPUs call `bget`/`brelse` concurrently; `bget` steals free buffers from other buckets |
| xv6 page allocator | `src/实验三/kernel/kalloc.c` | one freelist and lock per CPU | `kalloc` pops from its CPU's list, else steals from the others; `kfree` pushes on the current CPU's list |
| user programs | `src/实验一/*.c` | pipes and forked processes (`pingpong`, `primes`), a line tokenizer (`xargs`), a directory walk (`find`) | processes connected by pipes; the lab runs `find . b \| xargs grep hello` |

The four parts do not call each other; they are separate labs. Among the user programs, `find` and `xargs` are connected by the shell: `find` writes into a pipe that `xargs` reads. Inside newfs the parts interact:

- every FUSE call starts with `newfs_lookup`;
- the lookup walks the tree and hydrates the dentry it returns (`newfs_read_inode`);
- the allocators (`newfs_alloc_inode`, `newfs_alloc_dentry`) change the bitmaps and the directory lists;
- `newfs_destroy` writes the tree back through the recursive `newfs_sync_inode`;
- the next `newfs_init` reads it again.

## Modules

### `NewFS.tla`: the newfs engine

**State.**

| Variable | Code |
|---|---|
| `phase` | `newfs_super.is_mounted` |
| `mem` | the daemon's dentries as a sequence, each with its inode record or `NULL` while cold; `mem[1]` is `root_dentry` |
| `imap`, `dmap` | the bitmaps, as sets of set bits |
| `maxIno`, `maxData` | `max_ino`, `max_data` |
| `dmagic`, `dimap`, `ddmap`, `dinode`, `ddir` | the disk: the magic number, the bitmaps, the inode table and the directory extents |

A history flag `segv` records a NULL dereference inside `newfs_lookup`. `mounts` bounds the number of daemon lives.

**Actions.**

| Action | Code |
|---|---|
| `Mount` | `newfs_init` |
| `Unmount` | `newfs_destroy`, then the process exits |
| `Crash` | the daemon is killed between calls |
| `Mkdir` | `newfs_mkdir` |
| `Mknod` | `newfs_mknod` |
| `Getattr` | `newfs_getattr` |
| `Readdir` | `newfs_readdir` |
| `Read` | `newfs_read` |
| `Write` | `newfs_write` |

- Each call takes its whole body as one step: the lookup, the hydration it does as a side effect, the allocations, and the error returns the code takes.
- A call whose lookup dereferences NULL becomes `Fault`: the daemon dies.
- `Getattr`, `Readdir` and `Read` change no state beyond the lookup's hydration, so they share `LookupOnly`.

**Operators translated from the helpers.**

| Operator | Code |
|---|---|
| `AllocInode` | `newfs_alloc_inode` |
| `AllocDentry` | `newfs_alloc_dentry` |
| `ReadInode` / `LoadKids` | `newfs_read_inode` |
| `Walk` / `Lookup` | `newfs_lookup` |
| `SyncInode` / `SyncKids` | `newfs_sync_inode` |

- The bit scans are `FreeBit`, which returns the lowest clear bit.
- Name comparison is `FirstMatch`, a prefix test as `memcmp(…, strlen(fname))` does.
- Where the code reads an uninitialised `*is_find`, the model takes either value.

`MCNewFS.tla` gives the constants concrete values:

- names are sequences of characters: `"a"` and `"ab"`, so the prefix comparison can be observed;
- block size 1024 and dentry size 176, as the code computes them;
- `max_data` 12, so the data bitmap test can be reached;
- inode-table sizes "roomy" (12 records, 13 bits) and "tight" (3 records, 6 bits);
- write offsets and lengths on block boundaries.

### `NewFSDriver.tla`: newfs's byte I/O (`newfs_driver_read`, `newfs_driver_write`)

The ddriver device reads and writes only whole IO units of `sz_io` bytes at its seek position. newfs reads and writes records of any offset and size through two functions:

- `newfs_driver_read` reads the blocks that cover the range into a temporary buffer and copies out the bytes after the bias.
- `newfs_driver_write` reads the covering blocks, copies the record in at the bias, and writes the blocks back one IO unit at a time.

| Operator | Code |
|---|---|
| `DriverRead`, its loop `ReadUnits` | `newfs_driver_read` |
| `DriverWrite`, its loop `WriteUnits` | `newfs_driver_write` |
| `RoundDown`, `RoundUp`, `BlksSz`, `InoOfs`, `DaOfs` | the macros of `types.h` |

The disk is a function from offsets to bytes. The loops are RECURSIVE operators that, like the code, count `size_aligned` down by one IO unit per turn. The reference is `Bytes` (the bytes at the offset) and `Spliced` (the disk with the record's bytes replaced). `DriverByteExact` compares the code's operators with them over every `<<offset, size>>` the callers use (`MCRecords` in `MCNewFS`):

- the superblock (52 bytes at 0);
- both bitmaps;
- 64 inode records (32 bytes each);
- 15 dentry records (140 bytes each, so the 8th and 15th straddle a block boundary);
- a file's data, as it is written and as it is read back.

Each case uses IO units of 256, 512 (what ddriver reports) and 1024 bytes. Every byte of the test disk holds its own offset, and new contents are negative, so a byte written to the wrong place, or a neighbour clobbered, is seen. This check is what justifies `NewFS` treating every record read or write as one exact step. In the `alloc` run, `MCNewFS` checks it as an action property of every `Mount` (`newfs_init` reads the superblock and bitmaps) and every `Unmount` (`newfs_destroy` writes every record). The comparison itself is constant, so TLC computes it once.

### `BufferCache.tla`: the xv6 buffer cache (`bio.c`)

Processes (CPUs running `bread`, `brelse`, `bpin`, `bunpin`) are interleaved at the granularity of the bucket spinlocks. `pc[p]` says where `p` is; `Acquire(p)` is the one step that takes whatever bucket lock `p` waits for (`Wanted(p)`), and `AcquireNext` says where `p` goes once it has it.

| Variable | Code |
|---|---|
| `bucket[c]` | the list of bucket `c`, head first (`bcache.head[c]`) |
| `blockno`, `valid`, `refcnt` | the `struct buf` fields |
| `lock[c]` | the holder of `bcache.lock[c]`, or `None` |
| `sleep[b]` | the holder of `b->lock`, or `None` |
| `req`, `cur`, `fc` | the block asked for, the buffer in hand, `findCount` |
| `panicked` | the process that reached `panic("bget: no buffers")` |

| Action | Code |
|---|---|
| `Bread` | `bread` calls `bget`: wait for the own bucket |
| `BgetHit`, `BgetRecycle`, `BgetMiss` | the search of the own bucket |
| `BgetLoop`, `BgetSkip`, `BgetTry` | the steal loop: the `findCount` test and wrap, the racy `locked` read |
| `BgetSteal`, `BgetStealNone` | with both locks held: move a free buffer to the own bucket, or release and go on |
| `BgetPanic` | the loop ends |
| `Sleep` | `acquiresleep` and the disk read of an invalid buffer |
| `Bwrite` | `bwrite`: the holder writes its buffer to the disk |
| `Brelse`, `BrelseDone` | `releasesleep`, then `refcnt--` and the move to the head under the bucket lock |
| `Bpin`/`PinDone`, `Bunpin`/`UnpinDone` | `bpin`, `bunpin` |

`Init` is `binit`, which puts buffer `b` in bucket `b % NBUCKETS`. Block contents are abstracted to versions: `disk[k]` counts the writes of block `k` (bounded by `MaxWrites`), and `data[b]` is the block and version that buffer `b` holds. The disk read in `bread` copies the disk's version, and `bwrite` raises it and gives the buffer the new version.

`BlockOwnership.tla` is what the interface comment of `bio.c` promises: `bread(k)` returns block `k` to one process at a time until `brelse`. `BufferCache` maps its state onto it (users of a block = holders of the sleeplock of a buffer with that block number) and checks the mapping as a property.

### `Kalloc.tla`: the per-CPU page allocator (`kalloc.c`)

Kernel threads call `kalloc` and `kfree` concurrently. Each call reads `cpuid()` and may be moved to another CPU before it uses the id, so the model lets the read return any CPU, and lets other threads run between the read and the list operation. A section under a `kmems` lock touches only that CPU's list, which no one else can touch meanwhile, so it is one step.

| Variable | Code |
|---|---|
| `freelist[c]` | `kmems[c].freelist`, head first |
| `cpu[t]`, `id[t]`, `pa[t]` | the locals `cpu_id`, the scan index `id`, `kfree`'s argument |
| `held[t]` | the pages `kalloc` returned to `t` that it has not freed |

| Action | Code |
|---|---|
| `KallocCpu` | `push_off; cpuid(); pop_off` in `kalloc` |
| `KallocOwn` | pop the own list; if it is empty, start the scan |
| `KallocSkip`, `KallocSteal` | the scan: skip the own CPU; pop another CPU's list or go on |
| `KallocFail` | `return 0` |
| `KfreeCpu`, `KfreePush` | `kfree`: the id read, then the push under the lock |

`Init` is `kinit`: `freerange` frees every page on the boot CPU, so all pages start on CPU 0's list, highest address first. `PagePool.tla` is the allocator's promise: one pool of free pages, from which `kalloc` takes and to which `kfree` returns. `Kalloc` refines it with `free <- the pages on all lists`.

### The user programs (`src/实验一`)

Each process is a program counter, and each system call it makes is one step. Parent and child interleave freely. `Pipe.tla` gives the pipe rules these programs depend on:
- a pipe is a sequence of items with a capacity;
- a read of an empty pipe blocks while some process holds the write end, and returns nothing once no process does;
- a write to a full pipe blocks.

Each module tracks who holds each write end, and closes happen where the code closes. Items are ints in `primes`, 4-byte strings in `pingpong`, and whole lines for `find | xargs`. Whole lines are enough there because `gets` only returns when a line is complete or `find` has exited.

| Module | Code | Actions |
|---|---|---|
| `Primes.tla` | `primes.c`, one round per `fork` | `Fork`/`ForkFail`/`Finish` (loop head), `ParentClose`, `ParentWrite`, `ParentRead`, `ParentWait`; `ChildClose`, `ChildRead` (the in-place filter with `i`, `j`, `numDivide`), `ChildWrite` |
| `Pingpong.tla` | `pingpong.c` | `Fork`/`ForkFail`, `ChildClose`, `ChildRead`, `ChildWrite`, `ParentClose`, `ParentWrite`, `ParentRead`, `ParentWait` |
| `Find.tla` | `find.c` | the recursion as a stack of open directories: `FindSkip` (inum 0, `.`, `..`), `FindVisit` (print if the name matches, blocking on a full pipe; push if a directory), `FindReturn` (`close(fd)`), `FindExit` (exit closes stdout) |
| `Xargs.tla` | `xargs.c` | `XGets` (`gets` and the blank-line test), `XFork`, `XForkFail` (the unchecked -1), `XChild` (tokenize and `exec`), `XWait` |
| `FindXargs.tla` | the pipeline | `Find` with its `out` pipe instanced as `xargs`'s standard input |

The child's tokenizer is the RECURSIVE operator `Scan`, one call per loop iteration. It is checked against `Split`, a declarative definition: the maximal runs of non-spaces before the end of the line.

`MCUserProgs.tla` composes the programs as the shell runs them: each behaviour runs one program, chosen by `prog` in the initial state. The choices are `primes`, `pingpong`, the pipeline, or `xargs` alone on each line of up to four characters (letters and spaces, with or without a final newline). Each program's steps are one action guarded by `prog`.

## Runs

| Run | Module, cfg | Expect | Checks |
|---|---|---|---|
| `alloc` | `MCNewFS`, `NewFS_alloc.cfg` | pass | `TypeOK`, `NoInoReuse`, `DriverByteExact`, `BitmapsMonotone` |
| `durable` | `MCNewFS`, `NewFS_durable.cfg` | violation | `DurableUnmount` |
| `segv_cold` | `MCNewFS`, `NewFS_segv_cold.cfg` | violation | `NoSegfault` |
| `missing_parent` | `MCNewFS`, `NewFS_missing_parent.cfg` | violation | `MkdirOnlyRequested` |
| `prefix` | `MCNewFS`, `NewFS_prefix.cfg` | violation | `LookupFindsOnlyPresent` |
| `ino_alias` | `MCNewFS`, `NewFS_ino_alias.cfg` | violation | `NoInoReuse` |
| `bcache_safety` | `MCBufferCache`, `BufferCache_safety.cfg` | pass | `TypeOK`, `BufferInItsBucket`, `RefcntCountsUsers`, `CachedCopiesCurrent`, `NoLockCycle`, `ImplementsBlockOwnership` |
| `bcache_panic` | `MCBufferCache`, `BufferCache_panic.cfg` | violation | `NoSpuriousPanic` |
| `bcache_spin` | `MCBufferCache`, `BufferCache_spin.cfg` | violation | `BgetReturns` |
| `kalloc_safety` | `MCKalloc`, `Kalloc_safety.cfg` | pass | `TypeOK`, `PagesPartitioned`, `ImplementsPagePool`, `CallsReturn` |
| `kalloc_oom` | `MCKalloc`, `Kalloc_oom.cfg` | violation | `KallocZeroOnlyWhenExhausted` |
| `userprogs` | `MCUserProgs`, `UserProgs.cfg` | pass | `TypeOK`, `SieveState`, `PingThenPong`, `ExecArgs`, `EachMatchRunOnce`, `Terminates` |

**`alloc`** covers two daemon lives with at most 4 dentries per daemon, paths of depth ≤ 2, and both file kinds (about 11 600 distinct states, 15 s). It fires every action, including faults and kills.
- `TypeOK` also requires every listed child to point back at its directory.
- `NoInoReuse`: no two resident dentries carry the same ino, and every resident ino is marked in the bitmap.
- `BitmapsMonotone`: the bitmaps on disk only gain bits.
- `DriverByteExact`: `newfs_driver_read` and `newfs_driver_write` are byte-exact for every record layout (see `NewFSDriver.tla`).

**`bcache_safety`** runs two CPUs over two buffers in two buckets, blocks 0 and 2 sharing bucket 0, and one write per block, (about 258 000 distinct states, 20 s). Every sub-action fires, including steals, skips of a locked bucket, the panic, and `bwrite`.
- `BufferInItsBucket`: a buffer holding block `k` is in bucket `Hash(k)`, which rests on the steal moving the buffer while both locks are held.
- `RefcntCountsUsers`: `refcnt` equals the processes between `bget` and the end of `brelse`, plus the pins.
- `CachedCopiesCurrent`: a valid buffer holds the latest version of its block on disk. This depends on `bget` clearing `valid` whenever it gives a buffer to another block: otherwise a reused buffer could return the old block's contents, or a version written since.
- `ImplementsBlockOwnership`: the refinement above, i.e. one user per block, and the block is the one asked for.
- `NoLockCycle`: no CPU waits, directly or through others, on a bucket lock it holds itself. `bget` holds its own bucket lock while it takes the lock of the bucket it steals from (bio.c:103), and only the racy `locked` test before that acquire keeps two CPUs stealing from each other's buckets out of a deadlock. The run claims no more than this about waiting: whether every `bget` returns is the question of `bcache_spin`, and the spinner on bucket 0 found there can also keep a `bget` of another bucket waiting on lock 0 (with a fourth block), so termination is not claimed for any bucket.

**`kalloc_safety`** runs three threads, three CPUs, two pages and two calls per thread (about 201 000 distinct states, 1 min).
- `PagesPartitioned`: every page is exactly once on exactly one list, or held by exactly one thread.
- `ImplementsPagePool`: the refinement to one free pool.
- `CallsReturn`: under the fairness below, every `kalloc` and `kfree` returns. The steal scan visits each CPU once and then gives up with 0.

**`userprogs`** checks all four programs in about 1 700 distinct states (4 s).
- `SieveState`: whenever the parent is at the loop head, it has printed a prefix of the primes; `num` holds exactly the numbers up to `MAX` that no printed prime divides, in order, followed by the sentinel.
- `PingThenPong`: the output is a prefix of "child got ping, parent got pong".
- `ExecArgs`: every command `xargs` runs gets `grep hello` followed by exactly the words of its line. This covers every line of up to four characters.
- `EachMatchRunOnce`: when the pipeline ends, the lines `xargs` ran or lost (failed fork) are exactly the paths `find` should report, each once.
- `Terminates`: every program exits. No process waits for ever on a pipe or in `wait`, including when a writer fills a pipe. The deadlock check is also on.

**Violation runs.** Each states what the code must do; TLC finds a counterexample. `findings` in `PROJECT.json` has the details.

| Run | What TLC finds |
|---|---|
| `durable` | mount, unmount, remount, `mkdir /a`, unmount: `/a` is gone. After a remount `max_data` is 0, so the first data bit is refused and `dir_cnt` is not counted. |
| `segv_cold` | `mkdir /a`, unmount, remount, `mkdir /a/x`: the inode loaded for the cold `/a` is discarded and NULL is dereferenced. |
| `missing_parent` | `mkdir /ab/a` without `/ab` creates `/a`. |
| `prefix` | with `/ab` present, `/a` is reported found. |
| `ino_alias` | with the tight table, `mkdir` links a dentry with ino -1; it hydrates from record -1 as a second ino 0 beside the root. |
| `bcache_panic` | one CPU, its home bucket emptied by a steal, skips bucket 0 because the other CPU holds its lock in `brelse`, and panics although bucket 0 has a free buffer. |
| `bcache_spin` | for a block of bucket 0 the steal loop tests `findCount != currentCount` before wrapping `findCount`, so it never ends; the CPU spins holding lock 0, and the `brelse` that would free a buffer waits for lock 0 for ever. |
| `kalloc_oom` | a thread finds its own list empty and starts scanning; another thread frees a page onto that list; the scan finds the other lists empty and `kalloc` returns 0 while a page is free. |

Three newfs bugs found while modelling are listed as hazards, not as runs: a lookup through a file dereferences NULL; `max_ino` is compared with `==`, so inos run past the table after a remount; `newfs_write` writes past the file's `NEWFS_DATA_PER_FILE` blocks.

**Mutants.** Each property of a passing run is broken by a plausible bug in the code it is about (`mutants` in `PROJECT.json`):
- newfs: a create that links into the root breaks `TypeOK`; `AllocInode` not marking the bit breaks `NoInoReuse`; `newfs_init` not reading the bitmaps breaks `BitmapsMonotone`; a `newfs_driver_write` whose rounded size leaves out the bias breaks `DriverByteExact` (at the straddling dentry record).
- bio.c: `Assign` without `refcnt = 1` breaks `TypeOK`; a steal that leaves the buffer in its old bucket breaks `BufferInItsBucket`; a hit without `refcnt++` breaks `RefcntCountsUsers`; recycling without looking for the block first breaks `ImplementsBlockOwnership`; a steal that acquires the other bucket's lock without testing it first breaks `NoLockCycle`; a reuse that keeps `valid` breaks `CachedCopiesCurrent`.
- user programs: the parent skipping `wait` breaks `TypeOK`; the child keeping its divisor breaks `SieveState`; the child answering before it reads breaks `PingThenPong`; a tokenizer that ends an argument at every space breaks `ExecArgs`; `find` not searching a directory whose name matches breaks `EachMatchRunOnce`; the parent reading before writing breaks `Terminates`.
- kalloc.c: an extra `id++` on skip breaks `TypeOK`; a steal that does not advance the list breaks `PagesPartitioned`; a push without `r->next = freelist` breaks `ImplementsPagePool`; a failed scan that starts again from CPU 0 instead of returning 0 breaks `CallsReturn`.

## Bounds, and why they are enough

- **newfs: two daemon lives.** Every disagreement between memory and disk shows up at the first remount; a third life multiplies the state space by about 20 and only repeats it.
- **newfs: four dentries per daemon, two names (`"a"`, `"ab"`), depth 2.** These reach a directory with two entries (the prefix match), a file with a child path, and a cold directory below a directory. The uninitialised `is_find` needs three components and is listed as a hazard, not checked.
- **newfs: block and dentry sizes as in the code** (176-byte dentries in 1024-byte blocks), so the rounding test of `newfs_alloc_dentry` fires as on the real disk. Inode tables of 12 and 3 records; the tight one reaches the `max_ino` test within four dentries.
- **bio.c: 2 CPUs, 2 buckets, 2 buffers, blocks {0, 1, 2}, 2 calls per process, 1 pin, 1 write per block.** One write is enough to make a cached copy stale, because the disk's version then differs from the one an earlier holder read. Every branch of `bget` is reached: hit, recycle, steal, skip of a locked bucket, panic, and the bucket-0 loop. Two buckets instead of 13 keep the steal loop short; the hash and the loop are otherwise the code's.
- **kalloc.c: 3 threads, 3 CPUs, 2 pages, 2 calls per thread.** With three CPUs the scan both skips its own CPU in the middle and visits one after it. With two pages and three threads, two threads can hold every page, or free them onto lists a third thread's scan has passed or not yet reached. Two calls per thread allow a `kalloc` and its `kfree`. Three calls with three threads did not finish in 10 minutes.

- **User programs.**
  - `primes` runs with the code's `MAX` of 35, over pipes of 4 ints: writers block on full pipes, and the program must end because the processes drain each other, not because the data fits in xv6's 128.
  - `find` walks the lab's test tree (`a/b`, `c/b`, `b`), with `c/b` made a directory holding another `b`, a file `x` and a free slot. So a matching directory is both printed and searched. The pipe holds two lines, so `find` blocks while `xargs` runs commands.

## Fairness

- **newfs:** none. The daemon serves calls one at a time, and a mounted file system may wait for calls for ever. The cfgs set `CHECK_DEADLOCK FALSE` because once the bounded daemons have run, no step is enabled; that is the intended end.
- **bio.c:** weak fairness on every internal step of a process (a CPU that can step keeps stepping), and strong fairness on `Acquire` and `Sleep`: a lock that is free again and again is eventually taken by a waiting CPU. RISC-V spinlocks are not fair, but without this assumption a liveness failure could be mere lock starvation, which is not what the runs are about. Calling `bread`, `bpin` and `bunpin` stays the caller's choice. `Finished` lets a halted or completed system stutter, so deadlock is checked.
- **User programs:** weak fairness on each program's steps. xv6 runs every runnable process, and a process blocked in `read` or `wait` becomes runnable when another acts, and stays runnable until it runs. No step undoes another, so the state graphs are acyclic. `Ended` lets a finished program stutter, so the deadlock check catches processes waiting on each other.
- **kalloc.c:** weak fairness on each thread's steps inside a call (`InCall`). A thread that has entered `kalloc` or `kfree` keeps running: the kernel does not abandon a call. Each `kmems` lock is held for one step, so no thread waits on a lock for ever. Starting a call stays the thread's choice. The deadlock check stays on, and `Done` is the stuttering end of a completed run.

## Not modelled, and why

- **newfs: byte contents, timestamps, `newfs_utimens`, the `-ENOSYS` stubs.** No property depends on what they touch.
- **newfs: ddriver I/O errors and a kill inside `newfs_destroy`.** In `NewFS`, I/O is whole-record reads and writes; `NewFSDriver` checks that the driver functions make it so. ddriver itself is assumed to move each IO unit exactly. Kills happen only between calls; newfs has no crash consistency anyway (listed as a hazard).
- **newfs: the `malloc(sizeof(path))` heap overflow in `newfs_lookup`.** Names are abstracted, so there is no byte-level heap (a hazard).
- **bio.c: the bytes of a block.** Only versions are modelled. The `holdingsleep` panic of `bwrite` cannot fire, because `Bwrite` is taken only by the holder.
- **kalloc.c: the junk `memset`s and the `panic("kfree")` range check.** Callers pass pages `kalloc` returned; a double free by a caller is outside the allocator's contract.
- **User programs: argument checks, `open`/`stat` failures, the path-too-long check, file descriptors.** Listed as hazards where they matter: `find` leaks a descriptor on that path and can run out of descriptors in a deep tree.
- **`xargs` limits:** lines longer than 511 bytes, more than `MAXARG` words (a hazard), and a lone-newline line, whose tokenizing reads `stdin[-1]` (a hazard).

## Plan

1. **Done:** `NewFS`, `BufferCache` with `BlockOwnership`, `Kalloc` with `PagePool`, and the user programs.
2. **Also done:** the byte-level driver I/O (`NewFSDriver`, `DriverByteExact`); `bwrite` and block versions in `BufferCache` (`CachedCopiesCurrent`); liveness of `kalloc`/`kfree` (`CallsReturn`); three kalloc threads.
3. **Next:**
   - the newfs hazards that would each need a run of their own, expected to fail: inos past the table after one `NOSPACE` (newfs.c:271) and a kill between the writes of `newfs_destroy` (newfs.c:532);
   - the `xargs` argument limit and `find`'s descriptors, as bounded resources;
   - a refinement of `NewFS` to an abstract file system (a set of paths with kinds), which is expected to fail because of the findings above.
