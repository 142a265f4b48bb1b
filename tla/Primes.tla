------------------------------- MODULE Primes -------------------------------
(***************************************************************************)
(* The primes program of src/实验一/primes.c.                               *)
(*                                                                         *)
(* One parent process loops: it prints num[0], makes two pipes, forks a    *)
(* child, writes its array to the child up to the sentinel MAX + 1, and    *)
(* reads back what the child returns; the child drops num[0] and every     *)
(* multiple of it.  Parent and child run concurrently; each read or write  *)
(* of one 4-byte int is one step.  A pipe is a sequence of ints holding at *)
(* most Cap of them (xv6 PIPESIZE / 4); a read of an empty pipe blocks     *)
(* while some process still holds its write end, and returns 0 bytes,      *)
(* leaving num[i] as it was, once none does.                               *)
(***************************************************************************)
EXTENDS Naturals, Sequences, SequencesExt, Pipe

CONSTANTS MAX,   \* #define MAX
          Cap    \* ints a pipe holds: PIPESIZE / 4

Idx      == 0 .. MAX - 1
Sentinel == MAX + 1

VARIABLES ppc,       \* the parent's place
          cpc,       \* the child's place, "none" when there is no child
          num,       \* the parent's num[]
          cnum,      \* the child's num[], a copy made by fork
          pi,        \* the parent's loop index i
          ci, cj,    \* the child's loop indices i and j
          nd,        \* the child's numDivide
          toChild,   \* pipe_parent_write_to_child: its contents
          toParent,  \* pipe_child_write_to_parent: its contents
          tcW, tpW,  \* the processes holding each pipe's write end open
          printed    \* the numbers printed as "prime %d"

vars == <<ppc, cpc, num, cnum, pi, ci, cj, nd, toChild, toParent, tcW, tpW, printed>>

\* for(i = 0; i <= MAX - 1; i++) num[i] = i + 2;
Init ==
    /\ ppc = "top" /\ cpc = "none"
    /\ num = [i \in Idx |-> i + 2]
    /\ cnum = [i \in Idx |-> 0]
    /\ pi = 0 /\ ci = 0 /\ cj = 0 /\ nd = 0
    /\ toChild = <<>> /\ toParent = <<>>
    /\ tcW = {} /\ tpW = {}
    /\ printed = <<>>

\* while(num[0] <= MAX): print, pipe() twice, fork().  The child starts
\* with a copy of num and both pipes' ends.
Fork ==
    /\ ppc = "top" /\ num[0] <= MAX
    /\ printed' = Append(printed, num[0])
    /\ ppc' = "close" /\ cpc' = "close"
    /\ cnum' = num
    /\ ci' = 0 /\ cj' = 0
    /\ toChild' = <<>> /\ toParent' = <<>>
    /\ tcW' = {"parent", "child"} /\ tpW' = {"parent", "child"}
    /\ UNCHANGED <<num, pi, nd>>

\* pipe() or fork() fails: printf, exit(-1).
ForkFail ==
    /\ ppc = "top" /\ num[0] <= MAX
    /\ printed' = Append(printed, num[0])
    /\ ppc' = "failed"
    /\ UNCHANGED <<cpc, num, cnum, pi, ci, cj, nd, toChild, toParent, tcW, tpW>>

\* The loop ends: exit(0).
Finish ==
    /\ ppc = "top" /\ num[0] > MAX
    /\ ppc' = "done"
    /\ UNCHANGED <<cpc, num, cnum, pi, ci, cj, nd, toChild, toParent, tcW, tpW, printed>>

\* Mutant: the parent reads the child's answer before writing to it.
ParentCloseReadFirst ==
    /\ ppc = "close"
    /\ tpW' = tpW \ {"parent"}
    /\ ppc' = "read" /\ pi' = 0
    /\ UNCHANGED <<cpc, num, cnum, ci, cj, nd, toChild, toParent, tcW, printed>>

\* Parent: close(pipe_child_write_to_parent[1]); close(...to_child[0]).
ParentClose ==
    /\ ppc = "close"
    /\ tpW' = tpW \ {"parent"}
    /\ ppc' = "write" /\ pi' = 0
    /\ UNCHANGED <<cpc, num, cnum, ci, cj, nd, toChild, toParent, tcW, printed>>

\* Parent: write(num[i]); break after the sentinel; then close the write end.
ParentWrite ==
    /\ ppc = "write" /\ CanWrite(toChild, Cap)
    /\ toChild' = Append(toChild, num[pi])
    /\ IF num[pi] = Sentinel \/ pi = MAX - 1
       THEN /\ tcW' = tcW \ {"parent"}
            /\ ppc' = "read" /\ pi' = 0
       ELSE /\ pi' = pi + 1
            /\ UNCHANGED <<tcW, ppc>>
    /\ UNCHANGED <<cpc, num, cnum, ci, cj, nd, toParent, tpW, printed>>

\* Parent: read(&num[i]); break on the sentinel; then close and wait.
ParentRead ==
    /\ ppc = "read" /\ CanRead(toParent, tpW)
    /\ LET v == ReadVal(toParent, num[pi]) IN
       /\ num' = [num EXCEPT ![pi] = v]
       /\ toParent' = Drained(toParent)
       /\ IF v = Sentinel \/ pi = MAX - 1
          THEN ppc' = "wait" /\ pi' = 0
          ELSE pi' = pi + 1 /\ UNCHANGED ppc
    /\ UNCHANGED <<cpc, cnum, ci, cj, nd, toChild, tcW, tpW, printed>>

\* Mutant: the parent goes round the loop without wait(&statu).
ParentWaitSkipped ==
    /\ ppc = "wait"
    /\ ppc' = "top"
    /\ UNCHANGED <<cpc, num, cnum, pi, ci, cj, nd, toChild, toParent, tcW, tpW, printed>>

\* wait(&statu) returns once the child has exited.
ParentWait ==
    /\ ppc = "wait" /\ cpc = "exited"
    /\ ppc' = "top" /\ cpc' = "none"
    /\ UNCHANGED <<num, cnum, pi, ci, cj, nd, toChild, toParent, tcW, tpW, printed>>

\* Child: close(pipe_child_write_to_parent[0]); close(...to_child[1]).
ChildClose ==
    /\ cpc = "close"
    /\ tcW' = tcW \ {"child"}
    /\ cpc' = "read"
    /\ UNCHANGED <<ppc, num, cnum, pi, ci, cj, nd, toChild, toParent, tpW, printed>>

\* Mutant: the child keeps the divisor it read first as well.
ChildReadKeepsFirst ==
    /\ cpc = "read" /\ CanRead(toChild, tcW)
    /\ LET v    == ReadVal(toChild, cnum[ci])
           read == [cnum EXCEPT ![ci] = v]
       IN
       /\ toChild' = Drained(toChild)
       /\ IF v = Sentinel
          THEN /\ cnum' = [read EXCEPT ![cj] = Sentinel]
               /\ cpc' = "write" /\ ci' = 0
               /\ UNCHANGED <<cj, nd>>
          ELSE /\ nd' = IF ci = 0 THEN v ELSE nd
               /\ IF ci = 0 \/ v % nd # 0
                  THEN cnum' = [read EXCEPT ![cj] = v] /\ cj' = cj + 1
                  ELSE cnum' = read /\ UNCHANGED cj
               /\ IF ci = MAX - 1
                  THEN cpc' = "write" /\ ci' = 0
                  ELSE ci' = ci + 1 /\ UNCHANGED cpc
    /\ UNCHANGED <<ppc, num, pi, toParent, tcW, tpW, printed>>

\* Child: read(&num[i]).  The sentinel is stored at num[j] and ends the
\* loop; the first number becomes numDivide; a later one not divisible by
\* it is kept at num[j++].
ChildRead ==
    /\ cpc = "read" /\ CanRead(toChild, tcW)
    /\ LET v    == ReadVal(toChild, cnum[ci])
           read == [cnum EXCEPT ![ci] = v]
       IN
       /\ toChild' = Drained(toChild)
       /\ IF v = Sentinel
          THEN /\ cnum' = [read EXCEPT ![cj] = Sentinel]
               /\ cpc' = "write" /\ ci' = 0
               /\ UNCHANGED <<cj, nd>>
          ELSE /\ nd' = IF ci = 0 THEN v ELSE nd
               /\ IF ci # 0 /\ v % nd # 0
                  THEN cnum' = [read EXCEPT ![cj] = v] /\ cj' = cj + 1
                  ELSE cnum' = read /\ UNCHANGED cj
               /\ IF ci = MAX - 1
                  THEN cpc' = "write" /\ ci' = 0
                  ELSE ci' = ci + 1 /\ UNCHANGED cpc
    /\ UNCHANGED <<ppc, num, pi, toParent, tcW, tpW, printed>>

\* Child: write(num[i]); after the sentinel it closes both ends and exits.
ChildWrite ==
    /\ cpc = "write" /\ CanWrite(toParent, Cap)
    /\ toParent' = Append(toParent, cnum[ci])
    /\ IF cnum[ci] = Sentinel \/ ci = MAX - 1
       THEN /\ tpW' = tpW \ {"child"}
            /\ cpc' = "exited"
            /\ UNCHANGED ci
       ELSE /\ ci' = ci + 1
            /\ UNCHANGED <<tpW, cpc>>
    /\ UNCHANGED <<ppc, num, cnum, pi, cj, nd, toChild, tcW, printed>>

\* The program has exited.
Exited ==
    /\ ppc \in {"done", "failed"}
    /\ UNCHANGED vars

\* A step of the parent or the child.
Step ==
    \/ Fork \/ ForkFail \/ Finish
    \/ ParentClose \/ ParentWrite \/ ParentRead \/ ParentWait
    \/ ChildClose \/ ChildRead \/ ChildWrite

Next == Step \/ Exited

\* xv6 schedules every runnable process, and a process blocked in read or
\* wait becomes runnable when the other acts and stays so until it runs.
\* Since no step undoes another, fairness on the program's steps as a whole
\* is enough for it to run to its end.
Spec == Init /\ [][Next]_vars /\ WF_vars(Step)

-----------------------------------------------------------------------------
(* Properties *)

Vals == 0 .. Sentinel

TypeOK ==
    /\ ppc \in {"top", "close", "write", "read", "wait", "done", "failed"}
    /\ cpc \in {"none", "close", "read", "write", "exited"}
    /\ (cpc = "none") = (ppc \in {"top", "done", "failed"})
    /\ DOMAIN num = Idx /\ \A i \in Idx : num[i] \in Vals
    /\ DOMAIN cnum = Idx /\ \A i \in Idx : cnum[i] \in Vals
    /\ pi \in Idx /\ ci \in Idx /\ cj \in Idx /\ nd \in Vals
    /\ toChild \in Seq(Vals) /\ Len(toChild) <= Cap
    /\ toParent \in Seq(Vals) /\ Len(toParent) <= Cap
    /\ tcW \subseteq {"parent", "child"} /\ tpW \subseteq {"parent", "child"}
    /\ printed \in Seq(Vals)

\* The reference: trial division.
IsPrime(n) == n > 1 /\ \A d \in 2 .. n - 1 : n % d # 0
Twos == [m \in 1 .. MAX - 1 |-> m + 1]   \* <<2, 3, ..., MAX>>
PrimeSeq == SelectSeq(Twos, IsPrime)

\* The numbers of 2..MAX that no printed number divides, in order.
Survivors == SelectSeq(Twos, LAMBDA n : \A p \in Range(printed) : n % p # 0)

\* The entries of an array before its first sentinel.
BeforeSentinel(f) ==
    LET k == CHOOSE k \in Idx : f[k] = Sentinel /\ \A m \in 0 .. k - 1 : f[m] # Sentinel
    IN  [m \in 1 .. k |-> f[m - 1]]

\* Whenever the parent is back at the top of its loop, every round so far
\* has printed the next prime, and the array the child sent back holds,
\* before its sentinel, exactly the numbers no printed prime divides, in
\* increasing order.  This needs each child to read everything the parent
\* wrote, filter it, and send all of it back before the parent reads it,
\* whatever the interleaving of the two processes on the pipes.  When the
\* program ends (num[0] > MAX) it has printed exactly the primes <= MAX.
SieveState ==
    ppc \in {"top", "done"} =>
        /\ printed = SubSeq(PrimeSeq, 1, Len(printed))
        /\ \E k \in Idx : num[k] = Sentinel
        /\ BeforeSentinel(num) = Survivors


====
