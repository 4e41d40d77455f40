---- MODULE ReadWrite ----
(***************************************************************************)
(* exercises/ex12/read_write.c: main creates the readers, then the         *)
(* writers, and joins them in that order; each child prints one line.      *)
(* The mutex and the condition variable of the shared structure are made   *)
(* and never used: keeping readers away from a writer is left as an        *)
(* exercise (its TODO), so nothing is promised about the order.            *)
(***************************************************************************)
EXTENDS ForkJoin, Sequences, FiniteSets

CONSTANT NumReaders    \* NUM_READERS; the other children are writers

VARIABLE said   \* the lines on the terminal, in order

vars == <<pc, framevars, said>>

Init ==
    /\ FrameInit
    /\ said = <<>>

\* The entry point main gives to the child it creates next.
Entry == IF made < NumReaders THEN "reader" ELSE "writer"

\* reader_entry, writer_entry: print, then pthread_exit.
Work(t) ==
    /\ pc[t] \in {"reader", "writer"}
    /\ said' = Append(said, pc[t])
    /\ Goto(t, "done")
    /\ UNCHANGED framevars

\* The last join, and the line main prints before it returns.
JoinAndLeave ==
    /\ JoinThread
    /\ said' = IF joined' = NumChildren THEN Append(said, "Parent exiting") ELSE said

Next ==
    \/ Running /\ \/ \E t \in Children : Work(t)
                  \/ (MakeThread(Entry) \/ MakeThreadFails) /\ UNCHANGED said
                  \/ JoinAndLeave
    \/ ~Running /\ UNCHANGED vars

Spec == Init /\ [][Next]_vars

-----------------------------------------------------------------------------
\* "Parent exiting" is the last line, and every child has said its own by then.
ParentLast ==
    /\ \A k \in 1..Len(said) : said[k] = "Parent exiting" => k = Len(said)
    /\ joined = NumChildren =>
        /\ Len(said) = NumChildren + 1
        /\ Cardinality({k \in 1..Len(said) : said[k] = "reader"}) = NumReaders
====
