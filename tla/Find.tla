-------------------------------- MODULE Find --------------------------------
(***************************************************************************)
(* The find program of src/实验一/find.c, run as "find . Name".            *)
(*                                                                         *)
(* find(path, name) opens path, reads its directory entries one by one,    *)
(* prints path/entry for every entry called name and recurses into every  *)
(* entry that is a directory.  The recursion is a stack of frames, one per *)
(* open directory: the directory's path (a sequence of names below ".")    *)
(* and the next entry its read() returns.  Each entry read is one step.   *)
(* The lines go to standard output, the pipe `out`, whose write end find  *)
(* holds until it exits.                                                  *)
(***************************************************************************)
EXTENDS Naturals, Sequences, SequencesExt, Pipe

CONSTANTS Dirs,     \* directory path -> its entries, <<[name, inum]>>
          Name,     \* argv[2]
          OutCap    \* lines the output pipe holds

VARIABLES fpc,      \* "run" or "exited"
          fstack,   \* the frames of find(), innermost last
          out,      \* the pipe standard output writes to
          outW      \* the processes holding its write end open

fvars == <<fpc, fstack>>

NL == "NL"   \* '\n'

\* The line printf("%s\n", buf) writes for path p: "." then "/name" for
\* each component.
Line(p) == <<".">> \o FlattenSeq([k \in 1 .. Len(p) |-> <<"/", p[k]>>]) \o <<NL>>

\* find(".", Name): open(".") succeeds and "." fits in buf.
Init ==
    /\ fpc = "run"
    /\ fstack = <<[dir |-> <<>>, pos |-> 1]>>

Top == fstack[Len(fstack)]

\* The entry read() returns next in the innermost directory.
Entry == Dirs[Top.dir][Top.pos]

Advanced == [fstack EXCEPT ![Len(fstack)].pos = @ + 1]

\* read(fd, &de) returned an entry with inum 0, or "." or "..": continue.
FindSkip ==
    /\ fpc = "run" /\ Top.pos <= Len(Dirs[Top.dir])
    /\ Entry.inum = 0 \/ Entry.name \in {".", ".."}
    /\ fstack' = Advanced
    /\ UNCHANGED <<fpc, out, outW>>

\* Mutant: "else if(st.type == T_DIR)": a matching directory is not searched.
FindVisitElse ==
    /\ fpc = "run" /\ Top.pos <= Len(Dirs[Top.dir])
    /\ Entry.inum # 0 /\ Entry.name \notin {".", ".."}
    /\ LET p     == Top.dir \o <<Entry.name>>
           match == Entry.name = Name
       IN /\ match => CanWrite(out, OutCap)
          /\ out' = IF match THEN Append(out, Line(p)) ELSE out
          /\ fstack' = IF p \in DOMAIN Dirs /\ ~match
                       THEN Append(Advanced, [dir |-> p, pos |-> 1])
                       ELSE Advanced
    /\ UNCHANGED <<fpc, outW>>

\* An entry: buf = path/name, stat(buf); printf if the name matches (the
\* write blocks while the pipe is full); find(buf, name) if a directory.
FindVisit ==
    /\ fpc = "run" /\ Top.pos <= Len(Dirs[Top.dir])
    /\ Entry.inum # 0 /\ Entry.name \notin {".", ".."}
    /\ LET p     == Top.dir \o <<Entry.name>>
           match == Entry.name = Name
       IN /\ match => CanWrite(out, OutCap)
          /\ out' = IF match THEN Append(out, Line(p)) ELSE out
          /\ fstack' = IF p \in DOMAIN Dirs
                       THEN Append(Advanced, [dir |-> p, pos |-> 1])
                       ELSE Advanced
    /\ UNCHANGED <<fpc, outW>>

\* read() returns 0: close(fd) and return to the caller's loop.
FindReturn ==
    /\ fpc = "run" /\ Top.pos > Len(Dirs[Top.dir]) /\ Len(fstack) > 1
    /\ fstack' = SubSeq(fstack, 1, Len(fstack) - 1)
    /\ UNCHANGED <<fpc, out, outW>>

\* The outermost find() returns; main exits, closing standard output.
FindExit ==
    /\ fpc = "run" /\ Top.pos > Len(Dirs[Top.dir]) /\ Len(fstack) = 1
    /\ fstack' = <<>>
    /\ fpc' = "exited"
    /\ outW' = outW \ {"find"}
    /\ UNCHANGED out

Step == FindSkip \/ FindVisit \/ FindReturn \/ FindExit

-----------------------------------------------------------------------------

\* The reference: every path below "." whose last component is Name,
\* taken from the directory table directly.
Matches ==
    UNION {{d \o <<e.name>> : e \in {x \in Range(Dirs[d]) : x.inum # 0 /\ x.name = Name
                                                        /\ x.name \notin {".", ".."}}}
           : d \in DOMAIN Dirs}

=============================================================================
