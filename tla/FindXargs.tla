------------------------------ MODULE FindXargs ------------------------------
(***************************************************************************)
(* The shell pipeline "find . Name | xargs InitArgs" (the lab's test of     *)
(* xargs runs "find . b | xargs grep hello"): sh connects find's standard  *)
(* output to xargs's standard input by one pipe, of which only find holds  *)
(* the write end, and runs both processes concurrently.                    *)
(***************************************************************************)
EXTENDS Naturals, Sequences, SequencesExt

CONSTANTS Dirs, Name, OutCap, InitArgs

VARIABLES fpc, fstack, xpc, xchild, xin, xinW, xline, ran, lost

vars == <<fpc, fstack, xpc, xchild, xin, xinW, xline, ran, lost>>

Fd == INSTANCE Find WITH out <- xin, outW <- xinW
X  == INSTANCE Xargs

Init == Fd!Init /\ X!XInit(<<>>, {"find"})

\* A step of find or of xargs (or of its child).
Step ==
    \/ Fd!Step /\ UNCHANGED <<xpc, xchild, xline, ran, lost>>
    \/ X!Step /\ UNCHANGED <<fpc, fstack>>

Finished == fpc = "exited" /\ xpc = "exited"

-----------------------------------------------------------------------------

TypeOK ==
    /\ fpc \in {"run", "exited"}
    /\ fstack \in Seq([dir : DOMAIN Dirs, pos : Nat])
    /\ xpc \in {"gets", "fork", "wait", "exited"}
    /\ xchild \in {"none", "run", "exited"}
    /\ xinW \subseteq {"find"}
    /\ (xchild # "none") = (xpc = "wait")

\* Every path find should report is run by xargs exactly once, unless the
\* fork for its line failed: the lines xargs ran or lost are exactly the
\* lines of the paths below "." called Name, each once.  This needs find to
\* visit every directory, xargs to read every line before end of input,
\* and end of input to come only after find's last line.
EachMatchRunOnce ==
    xpc = "exited" =>
        LET done == [k \in 1 .. Len(ran) |-> ran[k].line] \o lost
        IN  /\ Len(done) = Cardinality(Fd!Matches)
            /\ Range(done) = {Fd!Line(p) : p \in Fd!Matches}

=============================================================================
