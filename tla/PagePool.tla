------------------------------ MODULE PagePool ------------------------------
(***************************************************************************)
(* What the xv6 physical page allocator promises (the comments of          *)
(* src/实验三/kernel/kalloc.c): kalloc hands out a free 4096-byte page or   *)
(* 0, kfree gives a page back; a page is never handed to two callers.      *)
(* The free pages form one pool, whatever lists the allocator keeps.       *)
(***************************************************************************)
CONSTANTS Threads, Pages

VARIABLES free, owned

pvars == <<free, owned>>

Init ==
    /\ free = Pages
    /\ owned = [t \in Threads |-> {}]

\* kalloc returns page pg to t.
Alloc(t, pg) ==
    /\ pg \in free
    /\ free' = free \ {pg}
    /\ owned' = [owned EXCEPT ![t] = @ \cup {pg}]

\* kfree(pg) by t, which was given pg.
Free(t, pg) ==
    /\ pg \in owned[t]
    /\ free' = free \cup {pg}
    /\ owned' = [owned EXCEPT ![t] = @ \ {pg}]

Next == \E t \in Threads, pg \in Pages : Alloc(t, pg) \/ Free(t, pg)

Spec == Init /\ [][Next]_pvars

=============================================================================
