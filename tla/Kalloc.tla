------------------------------- MODULE Kalloc -------------------------------
(***************************************************************************)
(* The xv6 physical page allocator with one freelist per CPU               *)
(* (src/实验三/kernel/kalloc.c).                                            *)
(*                                                                         *)
(* Kernel threads call kalloc and kfree concurrently.  Each call reads     *)
(* cpuid() between push_off and pop_off, and may then be preempted and     *)
(* moved before it takes kmems[cpu_id].lock: the id read is any CPU, and   *)
(* other threads may run between the read and the use.  Everything done   *)
(* while a kmems lock is held (acquire, read or write the freelist,        *)
(* release) touches only that CPU's list, which nobody else can touch      *)
(* meanwhile, so each such section is one step.  Pages are 1..NPages, so   *)
(* freelist heads can be compared with the order freerange pushes them.    *)
(***************************************************************************)
EXTENDS Naturals, Sequences, SequencesExt

CONSTANTS Threads,   \* kernel threads calling kalloc / kfree
          NCPU,      \* param.h NCPU
          NPages,    \* pages between end and PHYSTOP
          MaxOps,    \* calls per thread, bounding behaviours
          None

CPUs  == 0 .. NCPU - 1
Pages == 1 .. NPages

VARIABLES freelist,  \* kmems[c].freelist, head first
          pc,        \* where each thread is
          cpu,       \* its local cpu_id
          id,        \* the loop index of kalloc's steal scan
          pa,        \* the argument of its kfree
          held,      \* pages kalloc returned to it and it has not freed
          ops        \* calls it has made

vars == <<freelist, pc, cpu, id, pa, held, ops>>

\* The pages on any freelist.
FreePages == UNION {Range(freelist[c]) : c \in CPUs}

\* kinit runs on the boot CPU before the others start: freerange kfree's
\* every page in increasing order, each pushed on CPU 0's list.
Init ==
    /\ freelist = [c \in CPUs |-> IF c = 0 THEN SetToSortSeq(Pages, >) ELSE <<>>]
    /\ pc = [t \in Threads |-> "idle"]
    /\ cpu = [t \in Threads |-> 0]
    /\ id = [t \in Threads |-> 0]
    /\ pa = [t \in Threads |-> None]
    /\ held = [t \in Threads |-> {}]
    /\ ops = [t \in Threads |-> 0]

\* kalloc: push_off; cpu_id = cpuid(); pop_off.
KallocCpu(t, c) ==
    /\ pc[t] = "idle" /\ ops[t] < MaxOps
    /\ pc' = [pc EXCEPT ![t] = "alloc_own"]
    /\ cpu' = [cpu EXCEPT ![t] = c]
    /\ ops' = [ops EXCEPT ![t] = @ + 1]
    /\ UNCHANGED <<freelist, id, pa, held>>

\* Pop the head of list c for t, or report the list empty.
Pop(t, c, emptyPc, emptyId) ==
    IF freelist[c] # <<>>
    THEN /\ freelist' = [freelist EXCEPT ![c] = Tail(@)]
         /\ held' = [held EXCEPT ![t] = @ \cup {Head(freelist[c])}]
         /\ pc' = [pc EXCEPT ![t] = "idle"]
         /\ UNCHANGED id
    ELSE /\ pc' = [pc EXCEPT ![t] = emptyPc]
         /\ id' = [id EXCEPT ![t] = emptyId]
         /\ UNCHANGED <<freelist, held>>

\* The own list under kmems[cpu_id].lock; if it is empty the scan starts at 0.
KallocOwn(t) ==
    /\ pc[t] = "alloc_own"
    /\ Pop(t, cpu[t], "alloc_steal", 0)
    /\ UNCHANGED <<cpu, pa, ops>>

\* Mutant: the skip advances the index twice (an extra id++ before continue).
KallocSkipTwice(t) ==
    /\ pc[t] = "alloc_steal" /\ id[t] < NCPU /\ id[t] = cpu[t]
    /\ id' = [id EXCEPT ![t] = @ + 2]
    /\ UNCHANGED <<freelist, pc, cpu, pa, held, ops>>

\* if(id == cpu_id) continue;
KallocSkip(t) ==
    /\ pc[t] = "alloc_steal" /\ id[t] < NCPU /\ id[t] = cpu[t]
    /\ id' = [id EXCEPT ![t] = @ + 1]
    /\ UNCHANGED <<freelist, pc, cpu, pa, held, ops>>

\* Mutant: the steal returns the head without kmems[id].freelist = r->next.
KallocStealNoAdvance(t) ==
    /\ pc[t] = "alloc_steal" /\ id[t] < NCPU /\ id[t] # cpu[t]
    /\ IF freelist[id[t]] # <<>>
       THEN /\ held' = [held EXCEPT ![t] = @ \cup {Head(freelist[id[t]])}]
            /\ pc' = [pc EXCEPT ![t] = "idle"]
            /\ UNCHANGED id
       ELSE /\ id' = [id EXCEPT ![t] = @ + 1]
            /\ UNCHANGED <<pc, held>>
    /\ UNCHANGED <<freelist, cpu, pa, ops>>

\* Another CPU's list under its lock; return its head, or go on to id + 1.
KallocSteal(t) ==
    /\ pc[t] = "alloc_steal" /\ id[t] < NCPU /\ id[t] # cpu[t]
    /\ Pop(t, id[t], "alloc_steal", id[t] + 1)
    /\ UNCHANGED <<cpu, pa, ops>>

\* Mutant: instead of returning 0, the scan starts again from CPU 0.
KallocFailRetry(t) ==
    /\ pc[t] = "alloc_steal" /\ id[t] = NCPU
    /\ id' = [id EXCEPT ![t] = 0]
    /\ UNCHANGED <<freelist, pc, cpu, pa, held, ops>>

\* The scan ran off the end: return 0.
KallocFail(t) ==
    /\ pc[t] = "alloc_steal" /\ id[t] = NCPU
    /\ pc' = [pc EXCEPT ![t] = "idle"]
    /\ UNCHANGED <<freelist, cpu, id, pa, held, ops>>

\* kfree(pg) of a page t holds: the range check passes, the page is filled
\* with junk, and cpu_id is read.
KfreeCpu(t, pg, c) ==
    /\ pc[t] = "idle" /\ ops[t] < MaxOps /\ pg \in held[t]
    /\ pc' = [pc EXCEPT ![t] = "free_push"]
    /\ cpu' = [cpu EXCEPT ![t] = c]
    /\ pa' = [pa EXCEPT ![t] = pg]
    /\ ops' = [ops EXCEPT ![t] = @ + 1]
    /\ UNCHANGED <<freelist, id, held>>

\* Mutant: the push omits r->next = freelist, dropping the rest of the list.
KfreePushNoLink(t) ==
    /\ pc[t] = "free_push"
    /\ freelist' = [freelist EXCEPT ![cpu[t]] = <<pa[t]>>]
    /\ held' = [held EXCEPT ![t] = @ \ {pa[t]}]
    /\ pc' = [pc EXCEPT ![t] = "idle"]
    /\ pa' = [pa EXCEPT ![t] = None]
    /\ UNCHANGED <<cpu, id, ops>>

\* Under kmems[cpu_id].lock: r->next = freelist; freelist = r.
KfreePush(t) ==
    /\ pc[t] = "free_push"
    /\ freelist' = [freelist EXCEPT ![cpu[t]] = <<pa[t]>> \o @]
    /\ held' = [held EXCEPT ![t] = @ \ {pa[t]}]
    /\ pc' = [pc EXCEPT ![t] = "idle"]
    /\ pa' = [pa EXCEPT ![t] = None]
    /\ UNCHANGED <<cpu, id, ops>>

\* Every thread has made its calls and returned.
Done ==
    /\ \A t \in Threads : pc[t] = "idle" /\ ops[t] = MaxOps
    /\ UNCHANGED vars

Next ==
    \/ \E t \in Threads :
          \/ \E c \in CPUs : KallocCpu(t, c)
          \/ KallocOwn(t) \/ KallocSkip(t) \/ KallocSteal(t) \/ KallocFail(t)
          \/ \E pg \in Pages, c \in CPUs : KfreeCpu(t, pg, c)
          \/ KfreePush(t)
    \/ Done

\* The steps of a call already under way.  Whether and when a thread calls
\* kalloc or kfree is its caller's choice, but a thread inside a call keeps
\* being scheduled, and every kmems lock it waits for is held only for the
\* few instructions of another thread's section.
InCall(t) == KallocOwn(t) \/ KallocSkip(t) \/ KallocSteal(t) \/ KallocFail(t) \/ KfreePush(t)

Spec == Init /\ [][Next]_vars /\ \A t \in Threads : WF_vars(InCall(t))

-----------------------------------------------------------------------------
(* Properties *)

TypeOK ==
    /\ freelist \in [CPUs -> Seq(Pages)]
    /\ pc \in [Threads -> {"idle", "alloc_own", "alloc_steal", "free_push"}]
    /\ cpu \in [Threads -> CPUs]
    /\ id \in [Threads -> 0 .. NCPU]
    /\ pa \in [Threads -> Pages \cup {None}]
    /\ held \in [Threads -> SUBSET Pages]
    /\ ops \in [Threads -> 0 .. MaxOps]

\* Pages are conserved and never shared: every page sits exactly once on
\* exactly one CPU's freelist, or is held by exactly one thread, whatever
\* CPU each kalloc and kfree read and whatever list kalloc stole from.
PagesPartitioned ==
    \A pg \in Pages :
        LET onLists == {<<c, i>> \in CPUs \X (1 .. NPages) :
                            i <= Len(freelist[c]) /\ freelist[c][i] = pg}
            holders == {t \in Threads : pg \in held[t]}
        IN  Cardinality(onLists) + Cardinality(holders) = 1

\* The per-CPU lists implement one pool of free pages: each kalloc that
\* returns a page takes it from the pool, each kfree puts it back, and no
\* other step changes which pages are free or who holds them.
Pool == INSTANCE PagePool WITH free <- FreePages, owned <- held

ImplementsPagePool == Pool!Spec

\* Every kalloc and kfree returns, whatever the other threads do: kalloc's
\* scan visits each other CPU once and then gives up with 0, even when no
\* page is free and no thread will ever free one.
CallsReturn == \A t \in Threads : pc[t] # "idle" ~> pc[t] = "idle"

\* kalloc returns 0 only when no CPU's freelist has a page ("Returns 0 if
\* the memory cannot be allocated").
KallocZeroOnlyWhenExhausted ==
    [][\A t \in Threads : KallocFail(t) => FreePages = {}]_vars

=============================================================================
