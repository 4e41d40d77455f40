---- MODULE Barrier ----
(***************************************************************************)
(* exercises/ex12/barrier.c: every child prints part 1, adds one to the    *)
(* shared counter with no lock (a load and a store) and waits, busily,     *)
(* until it reads a counter of NUM_CHILDREN; then it prints part 2.        *)
(***************************************************************************)
EXTENDS ForkJoin, FiniteSets

VARIABLES counter,   \* shared->counter
          loaded     \* the register each child adds one to

vars == <<pc, framevars, counter, loaded>>

Labels == {"new", "part1", "load", "store", "spin", "part2", "done"}

Init ==
    /\ FrameInit
    /\ counter = 0
    /\ loaded = [t \in Children |-> 0]

Part1(t) ==
    /\ pc[t] = "part1"
    /\ Goto(t, "load")
    /\ UNCHANGED <<framevars, counter, loaded>>

Load(t) ==
    /\ pc[t] = "load"
    /\ loaded' = [loaded EXCEPT ![t] = counter]
    /\ Goto(t, "store")
    /\ UNCHANGED <<framevars, counter>>

Store(t) ==
    /\ pc[t] = "store"
    /\ counter' = loaded[t] + 1
    /\ Goto(t, "spin")
    /\ UNCHANGED <<framevars, loaded>>

\* Mutated forms: the barrier opens one child early; it never opens.
SpinExit_Early(t) ==
    /\ pc[t] = "spin"
    /\ counter >= NumChildren - 1
    /\ Goto(t, "part2")
    /\ UNCHANGED <<framevars, counter, loaded>>
SpinExit_Strict(t) ==
    /\ pc[t] = "spin"
    /\ counter > NumChildren
    /\ Goto(t, "part2")
    /\ UNCHANGED <<framevars, counter, loaded>>

\* One turn of the loop that reads a full counter; the others change nothing.
SpinExit(t) ==
    /\ pc[t] = "spin"
    /\ counter >= NumChildren
    /\ Goto(t, "part2")
    /\ UNCHANGED <<framevars, counter, loaded>>

Part2(t) ==
    /\ pc[t] = "part2"
    /\ Goto(t, "done")
    /\ UNCHANGED <<framevars, counter, loaded>>

Child(t) == Part1(t) \/ Load(t) \/ Store(t) \/ SpinExit(t) \/ Part2(t)

\* An endless spin: every child is at the loop and the counter stays short.
Spinning ==
    /\ made = NumChildren
    /\ counter < NumChildren
    /\ \A t \in Children : pc[t] = "spin"

Next ==
    \/ Running /\ \/ \E t \in Children : Child(t)
                  \/ (MakeThread("part1") \/ MakeThreadFails \/ JoinThread)
                         /\ UNCHANGED <<counter, loaded>>
    \/ (~Running \/ Spinning) /\ UNCHANGED vars

Spec == Init /\ [][Next]_vars

-----------------------------------------------------------------------------
\* No thread prints part 2 until all threads have printed part 1 (requirement
\* 2 in child_code): a lost update delays the barrier, it never opens it.
PartsSeparate ==
    (\E t \in Children : pc[t] \in {"part2", "done"})
        => \A t \in Children : pc[t] \notin {"new", "part1"}
====
