------------------------------ MODULE Pingpong ------------------------------
(***************************************************************************)
(* The pingpong program of src/实验一/pingpong.c: the parent sends "ping"   *)
(* to a forked child over one pipe, the child prints it and answers        *)
(* "pong" over another, the parent prints that and waits for the child.   *)
(* Each system call of either process is one step; pipes follow Pipe.      *)
(* buffer is uninitialised stack memory; under xv6 exec the stack page is  *)
(* zeroed, so it starts as Zero.                                           *)
(***************************************************************************)
EXTENDS Sequences, Pipe

Zero == "zero"       \* bytes of a buffer nothing was read into
Cap  == 128          \* PIPESIZE / 4

VARIABLES parent, child, \* where the parent and the child are ("none": no child)
          p2c, c2p,  \* pipe_parent_write_to_child, pipe_child_write_to_parent
          p2cW, c2pW,\* the processes holding each write end open
          pbuf, cbuf,\* the parent's and the child's buffer
          out        \* the lines printed, as <<process, buffer>>

vars == <<parent, child, p2c, c2p, p2cW, c2pW, pbuf, cbuf, out>>

Init ==
    /\ parent = "fork" /\ child = "none"
    /\ p2c = <<>> /\ c2p = <<>> /\ p2cW = {} /\ c2pW = {}
    /\ pbuf = Zero /\ cbuf = Zero
    /\ out = <<>>

\* pipe() twice and fork(): the child starts with copies of every end.
Fork ==
    /\ parent = "fork"
    /\ parent' = "close" /\ child' = "close"
    /\ p2cW' = {"parent", "child"} /\ c2pW' = {"parent", "child"}
    /\ cbuf' = pbuf
    /\ UNCHANGED <<p2c, c2p, pbuf, out>>

\* pipe() or fork() fails: exit(-1).
ForkFail ==
    /\ parent = "fork"
    /\ parent' = "exited"
    /\ UNCHANGED <<child, p2c, c2p, p2cW, c2pW, pbuf, cbuf, out>>

\* Child: close its write end of p2c and its read end of c2p.
ChildClose ==
    /\ child = "close"
    /\ p2cW' = p2cW \ {"child"}
    /\ child' = "read"
    /\ UNCHANGED <<parent, p2c, c2p, c2pW, pbuf, cbuf, out>>

\* Mutant: the child answers before it reads.
ChildWriteFirst ==
    /\ child = "read" /\ CanWrite(c2p, Cap)
    /\ c2p' = Append(c2p, "pong")
    /\ child' = "write"
    /\ UNCHANGED <<parent, p2c, p2cW, c2pW, pbuf, cbuf, out>>

\* Child: read(p2c, buffer, 4); printf("%d: received %s\n").
ChildRead ==
    /\ child = "read" /\ CanRead(p2c, p2cW)
    /\ cbuf' = ReadVal(p2c, cbuf)
    /\ p2c' = Drained(p2c)
    /\ out' = Append(out, <<"child", cbuf'>>)
    /\ child' = "write"
    /\ UNCHANGED <<parent, c2p, p2cW, c2pW, pbuf>>

\* Child: write(c2p, "pong", 4); close both ends; exit(0).
ChildWrite ==
    /\ child = "write" /\ CanWrite(c2p, Cap)
    /\ c2p' = Append(c2p, "pong")
    /\ c2pW' = c2pW \ {"child"}
    /\ child' = "exited"
    /\ UNCHANGED <<parent, p2c, p2cW, pbuf, cbuf, out>>

\* Parent: close its read end of p2c and its write end of c2p.
ParentClose ==
    /\ parent = "close"
    /\ c2pW' = c2pW \ {"parent"}
    /\ parent' = "write"
    /\ UNCHANGED <<child, p2c, c2p, p2cW, pbuf, cbuf, out>>

\* Parent: write(p2c, "ping", 4).
ParentWrite ==
    /\ parent = "write" /\ CanWrite(p2c, Cap)
    /\ p2c' = Append(p2c, "ping")
    /\ parent' = "read"
    /\ UNCHANGED <<child, c2p, p2cW, c2pW, pbuf, cbuf, out>>

\* Parent: read(c2p, buffer, 4); printf; close both ends.
ParentRead ==
    /\ parent = "read" /\ CanRead(c2p, c2pW)
    /\ pbuf' = ReadVal(c2p, pbuf)
    /\ c2p' = Drained(c2p)
    /\ out' = Append(out, <<"parent", pbuf'>>)
    /\ p2cW' = p2cW \ {"parent"}
    /\ parent' = "wait"
    /\ UNCHANGED <<child, p2c, c2pW, cbuf>>

\* Parent: wait(&statu) returns once the child has exited; exit(0).
ParentWait ==
    /\ parent = "wait" /\ child = "exited"
    /\ parent' = "exited" /\ child' = "none"
    /\ UNCHANGED <<p2c, c2p, p2cW, c2pW, pbuf, cbuf, out>>

\* The program has exited.
Exited ==
    /\ parent = "exited"
    /\ UNCHANGED vars

\* A step of the parent or the child.
Step ==
    \/ Fork \/ ForkFail
    \/ ChildClose \/ ChildRead \/ ChildWrite
    \/ ParentClose \/ ParentWrite \/ ParentRead \/ ParentWait

Next == Step \/ Exited

\* xv6 schedules every runnable process, and a process blocked in read or
\* wait becomes runnable when the other acts and stays so until it runs.
\* Since no step undoes another, fairness on the program's steps as a whole
\* is enough for it to run to its end.
Spec == Init /\ [][Next]_vars /\ WF_vars(Step)

-----------------------------------------------------------------------------
(* Properties *)

TypeOK ==
    /\ parent \in {"fork", "close", "write", "read", "wait", "exited"}
    /\ child \in {"none", "close", "read", "write", "exited"}
    /\ p2c \in Seq({"ping"}) /\ c2p \in Seq({"pong"})
    /\ p2cW \subseteq {"parent", "child"} /\ c2pW \subseteq {"parent", "child"}
    /\ {pbuf, cbuf} \subseteq {Zero, "ping", "pong"}
    /\ out \in Seq({"parent", "child"} \X {Zero, "ping", "pong"})

\* The exchange happens in order: the child prints "ping" before the parent
\* prints "pong", and nothing else is printed, whatever the interleaving of
\* the two processes (the parent's print of the answer must wait for the
\* child's print of the question).
PingThenPong ==
    out = SubSeq(<<<<"child", "ping">>, <<"parent", "pong">>>>, 1, Len(out))


=============================================================================
