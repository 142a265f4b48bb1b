------------------------------ MODULE MCKalloc ------------------------------
EXTENDS Kalloc

\* Three CPUs, so the steal scan both skips its own CPU in the middle and
\* visits a CPU after it; two pages, so one thread can hold every page
\* while another scans.
MCNCPU == 3
MCNPages == 2

=============================================================================
