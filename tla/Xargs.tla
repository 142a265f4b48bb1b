-------------------------------- MODULE Xargs --------------------------------
(***************************************************************************)
(* The xargs program of src/实验一/xargs.c.                                 *)
(*                                                                         *)
(* xargs reads standard input a line at a time with gets; for each line    *)
(* that is not blank at its end it forks a child, which splits the line    *)
(* at spaces into extra arguments after its own and execs the command,    *)
(* while the parent waits.  Standard input is a pipe (Pipe): an item is a *)
(* line, which gets returns whole, since it reads until the newline.  A   *)
(* line is a sequence of characters; NL and NUL stand for '\n' and '\0'.  *)
(***************************************************************************)
EXTENDS Naturals, Sequences, SequencesExt, Pipe

CONSTANTS InitArgs   \* argv[1 .. argc - 1]: the command and its arguments

NL  == "NL"
NUL == "NUL"
SP  == " "

VARIABLES xpc,     \* the parent's place
          xchild,  \* its child: "none", "run" or "exited"
          xin,     \* standard input
          xinW,    \* the processes holding its write end open
          xline,   \* char stdin[512] after gets: the line, before its NUL
          ran,     \* the commands exec'd: <<[line, argv]>>
          lost     \* the lines whose fork failed

xvars == <<xpc, xchild, xline, ran, lost>>

\* xargs starts on the given input.
XInit(input, writers) ==
    /\ xpc = "gets" /\ xchild = "none"
    /\ xin = input /\ xinW = writers
    /\ xline = <<>> /\ ran = <<>> /\ lost = <<>>

\* stdin[i] for the 0-based index i: gets ends the line with NUL.
At(line, i) == (line \o <<NUL>>)[i + 1]

\* for(i = 0; i < 512; i++) if(stdin[i] != ' ') { start = i; break; }
Start(line) ==
    CHOOSE i \in 0 .. Len(line) : At(line, i) # SP /\ \A k \in 0 .. i - 1 : At(line, k) = SP

\* Mutant: a space ends the current argument even when a space follows.
RECURSIVE ScanNoLookahead(_, _, _, _)
ScanNoLookahead(line, start, i, st) ==
    LET c == At(line, i) IN
    IF c \notin {SP, NL, NUL}
    THEN ScanNoLookahead(line, start, i + 1,
             IF i = start \/ At(line, i - 1) = SP
             THEN [st EXCEPT !.cur = <<c>>]
             ELSE [st EXCEPT !.cur = Append(@, c)])
    ELSE IF c = SP
    THEN ScanNoLookahead(line, start, i + 1, [args |-> Append(st.args, st.cur), cur |-> <<>>])
    ELSE IF At(line, i - 1) # SP THEN Append(st.args, st.cur) ELSE st.args

\* The child's loop from i = start: a character after a space (or at
\* start) begins a new argument in a fresh buffer, other characters extend
\* it; a space followed by a non-space ends it (q++, *q = 0, j++); NL or
\* NUL ends it unless a space came before, and ends the loop.  st.args are
\* the arguments ended so far, st.cur the one being built.
RECURSIVE Scan(_, _, _, _)
Scan(line, start, i, st) ==
    LET c == At(line, i) IN
    IF c \notin {SP, NL, NUL}
    THEN Scan(line, start, i + 1,
             IF i = start \/ At(line, i - 1) = SP
             THEN [st EXCEPT !.cur = <<c>>]
             ELSE [st EXCEPT !.cur = Append(@, c)])
    ELSE IF c = SP
    THEN Scan(line, start, i + 1,
             IF At(line, i + 1) # SP
             THEN [args |-> Append(st.args, st.cur), cur |-> <<>>]
             ELSE st)
    ELSE IF At(line, i - 1) # SP THEN Append(st.args, st.cur) ELSE st.args

\* The arguments the child adds after InitArgs.  (For a line that is a lone
\* NL, the first test reads stdin[-1]; such lines are not given to Tokens.)
Tokens(line) == Scan(line, Start(line), Start(line), [args |-> <<>>, cur |-> <<>>])

\* gets(stdin, 512), then the blank test: a line whose first non-space is
\* NUL (end of input, or trailing spaces at end of input) ends the loop.
XGets ==
    /\ xpc = "gets" /\ CanRead(xin, xinW)
    /\ LET line == ReadVal(xin, <<>>) IN
       /\ xline' = line
       /\ xpc' = IF At(line, Start(line)) = NUL THEN "exited" ELSE "fork"
    /\ xin' = Drained(xin)
    /\ UNCHANGED <<xchild, xinW, ran, lost>>

\* fork() succeeds: the parent goes on to wait(&statu).
XFork ==
    /\ xpc = "fork"
    /\ xpc' = "wait" /\ xchild' = "run"
    /\ UNCHANGED <<xin, xinW, xline, ran, lost>>

\* fork() returns -1, which the code does not test: the parent branch runs,
\* wait() returns -1 at once as there is no child, and the line is skipped.
XForkFail ==
    /\ xpc = "fork"
    /\ xpc' = "gets"
    /\ lost' = Append(lost, xline)
    /\ UNCHANGED <<xchild, xin, xinW, xline, ran>>

\* The child builds Argv and calls exec(Argv[0], Argv); exit(0).
XChild ==
    /\ xchild = "run"
    /\ ran' = Append(ran, [line |-> xline, argv |-> InitArgs \o Tokens(xline)])
    /\ xchild' = "exited"
    /\ UNCHANGED <<xpc, xin, xinW, xline, lost>>

\* wait(&statu) returns once the child has exited.
XWait ==
    /\ xpc = "wait" /\ xchild = "exited"
    /\ xpc' = "gets" /\ xchild' = "none"
    /\ UNCHANGED <<xin, xinW, xline, ran, lost>>

Step == XGets \/ XFork \/ XForkFail \/ XChild \/ XWait

-----------------------------------------------------------------------------

\* The reference: the maximal runs of non-space characters of the line
\* before its end (NL or NUL), in order.
Body(line) ==
    LET ends == {k \in 1 .. Len(line) : line[k] \in {NL, NUL}}
    IN  IF ends = {} THEN line ELSE SubSeq(line, 1, Min(ends) - 1)

Split(line) ==
    LET b      == Body(line)
        begins == SelectSeq([k \in 1 .. Len(b) |-> k],
                            LAMBDA k : b[k] # SP /\ (k = 1 \/ b[k - 1] = SP))
        last(k) == CHOOSE e \in k .. Len(b) :
                      /\ \A m \in k .. e : b[m] # SP
                      /\ (e = Len(b) \/ b[e + 1] = SP)
    IN  [n \in 1 .. Len(begins) |-> SubSeq(b, begins[n], last(begins[n]))]

\* Every command xargs runs gets its own arguments followed by exactly the
\* space-separated words of the line it was made from, however many
\* spaces separate, lead or trail them and whether or not the line ends
\* with a newline: the lookahead at a space and the look-back at the end of
\* the line must both be right for this to hold.
ExecArgs == \A k \in 1 .. Len(ran) : ran[k].argv = InitArgs \o Split(ran[k].line)

=============================================================================
