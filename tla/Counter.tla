---- MODULE Counter ----
(***************************************************************************)
(* exercises/ex12/counter.c: every child prints the shared counter and     *)
(* adds one to it, with no lock.  shared->counter++ is a load and a store, *)
(* and the store of one child may overwrite another's.                     *)
(***************************************************************************)
EXTENDS ForkJoin, FiniteSets

VARIABLES counter,   \* shared->counter
          loaded     \* the register each child adds one to

vars == <<pc, framevars, counter, loaded>>

Labels == {"new", "print", "load", "store", "done"}

Init ==
    /\ FrameInit
    /\ counter = 0
    /\ loaded = [t \in Children |-> 0]

\* printf("counter = %d\n", shared->counter)
Show(t) ==
    /\ pc[t] = "print"
    /\ Goto(t, "load")
    /\ UNCHANGED <<framevars, counter, loaded>>

Load(t) ==
    /\ pc[t] = "load"
    /\ loaded' = [loaded EXCEPT ![t] = counter]
    /\ Goto(t, "store")
    /\ UNCHANGED <<framevars, counter>>

\* Mutated form: the increment lost altogether.
Store_Same(t) ==
    /\ pc[t] = "store"
    /\ counter' = loaded[t]
    /\ Goto(t, "done")
    /\ UNCHANGED <<framevars, loaded>>

Store(t) ==
    /\ pc[t] = "store"
    /\ counter' = loaded[t] + 1
    /\ Goto(t, "done")
    /\ UNCHANGED <<framevars, loaded>>

Child(t) == Show(t) \/ Load(t) \/ Store(t)

Next ==
    \/ Running /\ \/ \E t \in Children : Child(t)
                  \/ (MakeThread("print") \/ MakeThreadFails \/ JoinThread)
                         /\ UNCHANGED <<counter, loaded>>
    \/ ~Running /\ UNCHANGED vars

Spec == Init /\ [][Next]_vars

-----------------------------------------------------------------------------
Stored == {t \in Children : pc[t] = "done"}

\* Whatever is lost, the final value main prints is between 1 and the number
\* of children, and while they run the counter never claims more increments
\* than were stored.
CounterBounds ==
    /\ counter <= Cardinality(Stored)
    /\ Stored # {} => counter >= 1
====
