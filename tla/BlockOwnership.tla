--------------------------- MODULE BlockOwnership ---------------------------
(***************************************************************************)
(* What the xv6 buffer cache promises its callers (the interface comment   *)
(* at the top of src/实验三/kernel/bio.c): bread(k) returns the block k     *)
(* locked, so that "only one process at a time can use a buffer", until    *)
(* the caller gives it back with brelse.  A panic halts the kernel.        *)
(*                                                                         *)
(* users[k] is the set of processes using block k; asked[p] is the block   *)
(* p has asked bread for and not yet given back, or None.                  *)
(***************************************************************************)
CONSTANTS Procs, Blocks, None

VARIABLES users, asked, halted

avars == <<users, asked, halted>>

Init ==
    /\ users = [k \in Blocks |-> {}]
    /\ asked = [p \in Procs |-> None]
    /\ halted = FALSE

\* bread(k) is called.
Ask(p, k) ==
    /\ ~halted
    /\ asked[p] = None
    /\ asked' = [asked EXCEPT ![p] = k]
    /\ UNCHANGED <<users, halted>>

\* bread returns: p now uses the block it asked for, which nobody else uses.
Grant(p) ==
    /\ ~halted
    /\ asked[p] # None
    /\ users[asked[p]] = {}
    /\ users' = [users EXCEPT ![asked[p]] = {p}]
    /\ UNCHANGED <<asked, halted>>

\* brelse: p gives the block back.
GiveBack(p) ==
    /\ ~halted
    /\ asked[p] # None
    /\ p \in users[asked[p]]
    /\ users' = [users EXCEPT ![asked[p]] = @ \ {p}]
    /\ asked' = [asked EXCEPT ![p] = None]
    /\ UNCHANGED halted

\* panic()
Halt ==
    /\ ~halted
    /\ halted' = TRUE
    /\ UNCHANGED <<users, asked>>

Next ==
    \/ \E p \in Procs, k \in Blocks : Ask(p, k)
    \/ \E p \in Procs : Grant(p) \/ GiveBack(p)
    \/ Halt

Spec == Init /\ [][Next]_avars

=============================================================================
