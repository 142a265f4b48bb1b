-------------------------------- MODULE Pipe --------------------------------
(***************************************************************************)
(* xv6 pipe semantics as the user programs of src/实验一 rely on them.  A    *)
(* pipe is the sequence of items written and not yet read, together with  *)
(* the set of processes that still hold its write end open.  An item is   *)
(* what one read or write call moves (4 bytes in primes and pingpong); it  *)
(* is moved whole, since PIPESIZE (512) is a multiple of it.               *)
(***************************************************************************)
EXTENDS Naturals, Sequences

\* read() on pipe p returns at once if p holds an item, or if no write end
\* is open (0 bytes, end of file); otherwise it sleeps.
CanRead(p, writers) == p # <<>> \/ writers = {}

\* What the read buffer holds after the read: the item, or, at end of
\* file, what it held before.
ReadVal(p, old) == IF p # <<>> THEN Head(p) ELSE old

\* The pipe after the read.
Drained(p) == IF p # <<>> THEN Tail(p) ELSE p

\* write() returns once the item fits: p holds fewer than cap items.
CanWrite(p, cap) == Len(p) < cap

=============================================================================
