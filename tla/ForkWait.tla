---- MODULE ForkWait ----
(***************************************************************************)
(* exercises/ex09: fork.c and newshound.c make Children processes and then *)
(* wait for as many.  A child of fork.c prints what it sees of the         *)
(* parent's memory and exits with its number; one of newshound.c becomes a *)
(* script.  Process 0 is main, process i + 1 the child of loop variable i. *)
(* main's pc: "print", "fork", "change", "wait", "exit", "ended"; a         *)
(* child's: "none", "run", "exit", "ended", "reaped".                      *)
(***************************************************************************)
EXTENDS Integers, Sequences, FiniteSets

CONSTANTS Program,     \* "fork" or "newshound"
          Children,    \* num_children, num_feeds
          Terminal,    \* stdout is a terminal: it is flushed at each line
          MaxFaults    \* how many children are killed and forks fail

Main == 0
Ids == 1..Children
Procs == {Main} \cup Ids

VARIABLES
    pc, i,        \* i is main's loop variable, in both loops
    word, heap,   \* each process's copies of global_word and *heap_pointer
    buffer,       \* each process's copy of stdout's buffer
    output,       \* what was printed, in order
    status,       \* exit codes; -1 for a process that was killed
    faults

vars == <<pc, i, word, heap, buffer, output, status, faults>>

Init ==
    /\ pc = [p \in Procs |-> IF p = Main THEN "print" ELSE "none"] /\ i = 0
    /\ word = [p \in Procs |-> "Global"] /\ heap = [p \in Procs |-> "unset"]
    /\ buffer = [p \in Procs |-> <<>>] /\ output = <<>>
    /\ status = [p \in Procs |-> 0] /\ faults = 0

Goto(p, label) == pc' = [pc EXCEPT ![p] = label]
Fault == faults < MaxFaults /\ faults' = faults + 1

\* A line of output goes through the process's buffer, which exit flushes.
printf(p, text) ==
    IF Terminal THEN output' = Append(output, text) /\ UNCHANGED buffer
    ELSE buffer' = [buffer EXCEPT ![p] = Append(@, text)] /\ UNCHANGED output
Flush(p) ==
    /\ output' = output \o buffer[p]
    /\ buffer' = [buffer EXCEPT ![p] = <<>>]

-----------------------------------------------------------------------------
\* newshound prints nothing before it forks.
Creating ==
    /\ pc[Main] = "print" /\ Goto(Main, IF i = Children THEN "change" ELSE "fork")
    /\ IF i < Children /\ Program = "fork" THEN printf(Main, <<"Creating", i>>)
       ELSE UNCHANGED <<buffer, output>>
    /\ UNCHANGED <<i, word, heap, status, faults>>

\* The child gets a copy of all of the parent's memory, what stdout has not
\* written yet included.
Fork ==
    LET child == i + 1 IN
    /\ pc[Main] = "fork"
    /\ pc' = [pc EXCEPT ![Main] = "print", ![child] = "run"]
    /\ i' = i + 1
    /\ word' = [word EXCEPT ![child] = word[Main]]
    /\ heap' = [heap EXCEPT ![child] = heap[Main]]
    /\ buffer' = [buffer EXCEPT ![child] = buffer[Main]]
    /\ UNCHANGED <<output, status, faults>>

\* The parent ends at once, and waits for none of the children it made.
ForkFails ==
    /\ pc[Main] = "fork" /\ Fault
    /\ Goto(Main, "exit") /\ status' = [status EXCEPT ![Main] = 1]
    /\ UNCHANGED <<i, word, heap, buffer, output>>

\* fork.c: the parent changes what the children have copies of.
Change ==
    /\ pc[Main] = "change" /\ Goto(Main, "wait") /\ i' = 0
    /\ IF Program = "fork"
       THEN /\ word' = [word EXCEPT ![Main] = "parent_waz_here"]
            /\ heap' = [heap EXCEPT ![Main] = "Parent_heap"]
            /\ printf(Main, <<"Parent", word'[Main], heap'[Main]>>)
       ELSE UNCHANGED <<word, heap, buffer, output>>
    /\ UNCHANGED <<status, faults>>

\* The 8 bits of WEXITSTATUS, which are 0 for a process that was killed.
WEXITSTATUS(s) == IF s = -1 THEN 0 ELSE s % 256

\* Mutated form: main waits once less.
Wait_Less(n) == n < Children - 1

Wait(n) == n < Children

\* newshound reports the children that failed only.
WaitForOne ==
    /\ pc[Main] = "wait" /\ Wait(i)
    /\ \E c \in Ids :
        /\ pc[c] = "ended" /\ Goto(c, "reaped") /\ i' = i + 1
        /\ IF Program = "fork" \/ WEXITSTATUS(status[c]) # 0
           THEN printf(Main, <<"Status", c, WEXITSTATUS(status[c])>>)
           ELSE UNCHANGED <<buffer, output>>
    /\ UNCHANGED <<word, heap, status, faults>>

WaitEnds ==
    /\ pc[Main] = "wait" /\ ~Wait(i) /\ Goto(Main, "exit")
    /\ UNCHANGED <<i, word, heap, buffer, output, status, faults>>

-----------------------------------------------------------------------------
\* child_code, and exit(i); or the script, or execle fails and error exits
\* with 1.  The script's status is its own.
Run(c) ==
    /\ pc[c] = "run" /\ Goto(c, "exit")
    /\ IF Program = "fork"
       THEN /\ printf(c, <<"Child", c, word[c], heap[c]>>)
            /\ status' = [status EXCEPT ![c] = c - 1]
       ELSE /\ \E s \in {0, 1} : status' = [status EXCEPT ![c] = s]
            /\ UNCHANGED <<buffer, output>>
    /\ UNCHANGED <<i, word, heap, faults>>

Killed(c) ==
    /\ pc[c] \in {"run", "exit"} /\ Fault
    /\ Goto(c, "ended") /\ status' = [status EXCEPT ![c] = -1]
    /\ UNCHANGED <<i, word, heap, buffer, output>>

Exit(p) ==
    /\ pc[p] = "exit" /\ Goto(p, "ended") /\ Flush(p)
    /\ UNCHANGED <<i, word, heap, status, faults>>

Ended == \A p \in Procs : pc[p] \in {"none", "ended", "reaped"}
Parent == Creating \/ Fork \/ Change \/ WaitForOne \/ WaitEnds \/ Exit(Main)
Child(c) == Run(c) \/ Exit(c)

Next == Parent \/ ForkFails \/ \E c \in Ids : Child(c) \/ Killed(c)

Fairness == WF_vars(Parent) /\ \A c \in Ids : WF_vars(Child(c))
Spec == Init /\ [][Next]_vars /\ Fairness

-----------------------------------------------------------------------------
Times(text) == Cardinality({k \in 1..Len(output) : output[k] = text})

\* The children that a failed fork left to be made are not among them.
Made == {c \in Ids : pc[c] # "none"}
Exited == {c \in Made : status[c] # -1}

\* Memory is copied: a child prints what the parent had when it was made, also
\* when it runs after the parent has changed it, or has ended because a fork
\* failed; no child that was not killed fails to print it, and none does so
\* twice.  The buffer is copied too: with no terminal each announcement of a
\* child is printed by main, and again by each child made after it that was not
\* killed.
CopiedAtFork ==
    /\ \A k \in 1..Len(output) : output[k][1] = "Child" =>
            output[k][3] = "Global" /\ output[k][4] = "unset"
    /\ Ended /\ Program = "fork" =>
        /\ \A c \in Exited : Times(<<"Child", c, "Global", "unset">>) = 1
        /\ \A k \in 0..(Children - 1) :
            Times(<<"Creating", k>>) =
                IF k # 0 /\ k \notin Made THEN 0
                ELSE IF Terminal THEN 1
                ELSE 1 + Cardinality({c \in Exited : k < c})

\* When main ends and no fork has failed, it has waited for every child;
\* fork.c has reported each child's code once, and newshound each code that is
\* not 0 of a child that exited.
WaitsForAll ==
    pc[Main] = "ended" /\ status[Main] = 0 =>
        \A c \in Ids : LET code == WEXITSTATUS(status[c]) IN
            /\ pc[c] = "reaped"
            /\ Program = "fork" \/ c \in Exited =>
                Times(<<"Status", c, code>>) = IF Program = "fork" \/ code # 0 THEN 1 ELSE 0

\* What newshound.c:71 says of the report: it is made "if a process did not
\* exit normally", a killed one included.
AbnormalReported ==
    pc[Main] = "ended" /\ status[Main] = 0 =>
        \A c \in Ids : status[c] # 0 =>
            \E k \in 1..Len(output) : output[k][1] = "Status" /\ output[k][2] = c
====
