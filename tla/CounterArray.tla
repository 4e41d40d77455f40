---- MODULE CounterArray ----
(***************************************************************************)
(* exercises/ex12/counter_array.c: the work queue of CounterArrayMutex     *)
(* without the mutex.  array[counter]++ and counter++ are each loads and   *)
(* stores on shared memory: pc goes "check", "index" (read counter to find *)
(* the element), "get" and "put" (the element's load and store), "load"    *)
(* and "store" (counter's) and back.  The counter can go backwards.        *)
(***************************************************************************)
EXTENDS ForkJoin, FiniteSets

CONSTANT End   \* make_shared's argument: how many units of work there are

VARIABLES
    counter,   \* shared->counter
    array,     \* shared->array and the memory behind it
    index,     \* the element each child works on
    loaded     \* the register each child adds one to

workvars == <<counter, array, index, loaded>>
vars == <<pc, framevars, workvars>>

Labels == {"new", "check", "index", "get", "put", "load", "store", "done"}
\* As far as two children go (Overshoot), and one more for its mutants.
Memory == 0..(End + 2)

Init ==
    /\ FrameInit
    /\ counter = 0
    /\ array = [k \in Memory |-> 0]
    /\ index = [t \in Children |-> 0]
    /\ loaded = [t \in Children |-> 0]

Check(t) ==
    /\ pc[t] = "check"
    /\ Goto(t, IF counter >= End THEN "done" ELSE "index")
    /\ UNCHANGED <<framevars, workvars>>

Index(t) ==
    /\ pc[t] = "index"
    /\ index' = [index EXCEPT ![t] = counter]
    /\ Goto(t, "get")
    /\ UNCHANGED <<framevars, counter, array, loaded>>

Get(t) ==
    /\ pc[t] = "get"
    /\ loaded' = [loaded EXCEPT ![t] = array[index[t]]]
    /\ Goto(t, "put")
    /\ UNCHANGED <<framevars, counter, array, index>>

Put(t) ==
    /\ pc[t] = "put"
    /\ array' = [array EXCEPT ![index[t]] = loaded[t] + 1]
    /\ Goto(t, "load")
    /\ UNCHANGED <<framevars, counter, index, loaded>>

Load(t) ==
    /\ pc[t] = "load"
    /\ loaded' = [loaded EXCEPT ![t] = counter]
    /\ Goto(t, "store")
    /\ UNCHANGED <<framevars, counter, array, index>>

\* Mutated form: back to the work without a test.
Store_NoTest(t) ==
    /\ pc[t] = "store"
    /\ counter' = loaded[t] + 1
    /\ Goto(t, IF counter <= End THEN "index" ELSE "check")
    /\ UNCHANGED <<framevars, array, index, loaded>>

Store(t) ==
    /\ pc[t] = "store"
    /\ counter' = loaded[t] + 1
    /\ Goto(t, "check")
    /\ UNCHANGED <<framevars, array, index, loaded>>

Child(t) == \/ Check(t) \/ Index(t) \/ Get(t) \/ Put(t) \/ Load(t) \/ Store(t)

Next ==
    \/ Running /\ \/ \E t \in Children : Child(t)
                  \/ (MakeThread("check") \/ MakeThreadFails \/ JoinThread) /\ UNCHANGED workvars
    \/ ~Running /\ UNCHANGED vars

Spec == Init /\ [][Next]_vars

-----------------------------------------------------------------------------
\* With the program's two children the counter runs past end by one at most,
\* races on the counter and on the registers included: a stale store that
\* throws the counter back leaves one child at the test.  (Three children can
\* go further: a child that passed the test on a counter thrown back may add to
\* one that is already past end.)
Overshoot == NumChildren = 2 => counter <= End + 1
====
