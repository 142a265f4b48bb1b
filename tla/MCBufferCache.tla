---------------------------- MODULE MCBufferCache ----------------------------
(* Model values for BufferCache: xv6 hashes into 13 buckets; two buckets   *)
(* keep the same code paths (own bucket, steal loop, wrap at the end of    *)
(* the bucket array, bucket 0) with a state space TLC can cover.          *)
EXTENDS BufferCache

\* Blocks 0 and 2 share bucket 0, block 1 is in bucket 1.
MCBlocksPair == {0, 1, 2}

=============================================================================
