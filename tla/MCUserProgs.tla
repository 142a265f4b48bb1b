----------------------------- MODULE MCUserProgs -----------------------------
(***************************************************************************)
(* The user programs of src/实验一, each run as the shell runs a command    *)
(* line: a behaviour runs one of primes, pingpong, the pipeline            *)
(* "find . b | xargs grep hello", or xargs alone on one line of input.    *)
(* The programs share no state; prog says which one this behaviour runs.  *)
(***************************************************************************)
EXTENDS Naturals, Sequences, TLC

VARIABLES prog,
          ppc, cpc, num, cnum, pi, ci, cj, nd, toChild, toParent, tcW, tpW, printed,
          parent, child, p2c, c2p, p2cW, c2pW, pbuf, cbuf, out,
          fpc, fstack, xpc, xchild, xin, xinW, xline, ran, lost

pvars  == <<ppc, cpc, num, cnum, pi, ci, cj, nd, toChild, toParent, tcW, tpW, printed>>
gvars  == <<parent, child, p2c, c2p, p2cW, c2pW, pbuf, cbuf, out>>
fxvars == <<fpc, fstack, xpc, xchild, xin, xinW, xline, ran, lost>>
vars   == <<prog, pvars, gvars, fxvars>>

Progs == {"primes", "pingpong", "findxargs", "xargs"}

\* primes with its own MAX, over pipes of four ints rather than xv6's 128
\* (PIPESIZE 512 / 4), so that writers block on a full pipe: the program
\* must end whatever the pipes hold, not only because its data fits.
P == INSTANCE Primes WITH MAX <- 35, Cap <- 4

G == INSTANCE Pingpong

\* The tree the lab's xargs test builds (mkdir a; echo hello > a/b; mkdir c;
\* echo hello > c/b; echo hello > b), with c/b made a directory holding
\* another b, one more file x and a free directory slot (inum 0).
Ent(n, i) == [name |-> n, inum |-> i]
MCDirs ==
    (<<>> :> <<Ent(".", 1), Ent("..", 1), Ent("x", 2), Ent("a", 3), Ent("", 0),
               Ent("c", 5), Ent("b", 6)>>)
    @@ (<<"a">> :> <<Ent(".", 3), Ent("..", 1), Ent("b", 4)>>)
    @@ (<<"c">> :> <<Ent(".", 5), Ent("..", 1), Ent("b", 7)>>)
    @@ (<<"c", "b">> :> <<Ent(".", 7), Ent("..", 5), Ent("b", 8)>>)

\* The pipe holds two lines, so that find blocks on a full pipe, as it does
\* in a tree whose matching paths pass the pipe's 512 bytes.
FX == INSTANCE FindXargs WITH Dirs <- MCDirs, Name <- "b", OutCap <- 2,
                              InitArgs <- <<"grep", "hello">>
X  == INSTANCE Xargs WITH InitArgs <- <<"grep", "hello">>

\* xargs alone reads one line of one to four characters, letters and
\* spaces, ended by a newline or by the end of input.
XLines ==
    UNION {{s \o t : s \in [1 .. n -> {"a", X!SP}]} : n \in 1 .. 4, t \in {<<X!NL>>, <<>>}}

Init ==
    /\ prog \in Progs
    /\ P!Init /\ G!Init /\ FX!Fd!Init
    /\ IF prog = "xargs" THEN \E l \in XLines : X!XInit(<<l>>, {})
                         ELSE X!XInit(<<>>, {"find"})

PrimesStep   == prog = "primes"    /\ P!Step  /\ UNCHANGED <<prog, gvars, fxvars>>
PingpongStep == prog = "pingpong"  /\ G!Step  /\ UNCHANGED <<prog, pvars, fxvars>>
PipelineStep == prog = "findxargs" /\ FX!Step /\ UNCHANGED <<prog, pvars, gvars>>
XargsStep    == prog = "xargs"     /\ X!Step  /\ UNCHANGED <<prog, pvars, gvars, fpc, fstack>>

\* The program this behaviour runs has exited.
Ended ==
    CASE prog = "primes"    -> ppc \in {"done", "failed"}
      [] prog = "pingpong"  -> parent = "exited"
      [] prog = "findxargs" -> FX!Finished
      [] prog = "xargs"     -> xpc = "exited"

Next ==
    \/ PrimesStep \/ PingpongStep \/ PipelineStep \/ XargsStep
    \/ Ended /\ UNCHANGED vars

\* The modules' fairness: each program's processes are scheduled.
Spec ==
    /\ Init /\ [][Next]_vars
    /\ WF_vars(PrimesStep) /\ WF_vars(PingpongStep)
    /\ WF_vars(PipelineStep) /\ WF_vars(XargsStep)

-----------------------------------------------------------------------------

TypeOK == prog \in Progs /\ P!TypeOK /\ G!TypeOK /\ FX!TypeOK

\* See Primes.
SieveState == P!SieveState

\* See Pingpong.
PingThenPong == G!PingThenPong

\* See Xargs: checked on the pipeline's lines and on every line of XLines.
ExecArgs == X!ExecArgs

\* See FindXargs.
EachMatchRunOnce == prog = "findxargs" => FX!EachMatchRunOnce

\* Every program exits: no process of it waits for ever on a pipe or in
\* wait(), and every loop ends (primes, the find recursion, the xargs loop
\* at end of input, which comes once find exits and closes the pipe).
Terminates == <>Ended

=============================================================================
