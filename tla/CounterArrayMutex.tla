---- MODULE CounterArrayMutex ----
(***************************************************************************)
(* exercises/ex12/counter_array_mutex.c: the children share a counter that *)
(* says which element of an array is the next unit of work.  A child tests *)
(* the counter against end before it takes the mutex, so the test is stale *)
(* by the time it works on the element: pc goes "check" (the unlocked      *)
(* test), "lock", "work" (array[counter]++), "count" (counter++), "unlock" *)
(* and back.                                                               *)
(*                                                                         *)
(* The stale test lets counter run past end.  The elements beyond end - 1  *)
(* are memory behind the allocation; malloc gives the program's array      *)
(* whole pages, and with them enough room for the few such writes, so they *)
(* are modelled as memory of the process and not as a crash.               *)
(***************************************************************************)
EXTENDS ForkJoin, FiniteSets

CONSTANTS End,    \* make_shared's argument: how many units of work there are
          Free    \* the owner of a mutex nobody holds

VARIABLES
    counter,    \* shared->counter
    array,      \* shared->array and the memory behind it
    mutex,      \* the child that holds shared->mutex, or Free
    errors      \* what check_array printed, -1 before it did

workvars == <<counter, array, mutex, errors>>
vars == <<pc, framevars, workvars>>

Labels == {"new", "check", "lock", "work", "count", "unlock", "done"}

\* As far as counter is ever seen to go (Overshoot says so).
Memory == 0..(End + NumChildren)

Init ==
    /\ FrameInit
    /\ counter = 0
    /\ array = [k \in Memory |-> 0]
    /\ mutex = Free
    /\ errors = -1

\* The test before the lock; past the end the child returns.
Check(t) ==
    /\ pc[t] = "check"
    /\ Goto(t, IF counter >= End THEN "done" ELSE "lock")
    /\ UNCHANGED <<framevars, workvars>>

\* Mutated form: nothing waits for the mutex.
Lock_NoWait(t) ==
    /\ pc[t] = "lock"
    /\ mutex' = t
    /\ Goto(t, "work")
    /\ UNCHANGED <<framevars, counter, array, errors>>

Lock(t) ==
    /\ pc[t] = "lock"
    /\ mutex = Free
    /\ mutex' = t
    /\ Goto(t, "work")
    /\ UNCHANGED <<framevars, counter, array, errors>>

Work(t) ==
    /\ pc[t] = "work"
    /\ array' = [array EXCEPT ![counter] = @ + 1]
    /\ Goto(t, "count")
    /\ UNCHANGED <<framevars, counter, mutex, errors>>

Count(t) ==
    /\ pc[t] = "count"
    /\ counter' = counter + 1
    /\ Goto(t, "unlock")
    /\ UNCHANGED <<framevars, array, mutex, errors>>

\* Mutated form: back to the lock without the test.
Unlock_NoTest(t) ==
    /\ pc[t] = "unlock"
    /\ mutex' = Free
    /\ Goto(t, "lock")
    /\ UNCHANGED <<framevars, counter, array, errors>>

Unlock(t) ==
    /\ pc[t] = "unlock"
    /\ mutex' = Free
    /\ Goto(t, "check")
    /\ UNCHANGED <<framevars, counter, array, errors>>

Child(t) == Check(t) \/ Lock(t) \/ Work(t) \/ Count(t) \/ Unlock(t)

Main == (MakeThread("check") \/ JoinThread) /\ UNCHANGED workvars

\* The last thing main does.
CheckArray ==
    /\ ~failed
    /\ joined = NumChildren
    /\ errors = -1
    /\ errors' = Cardinality({k \in 0..(End - 1) : array[k] # 1})
    /\ UNCHANGED <<pc, framevars, counter, array, mutex>>

Ended == failed \/ errors # -1

Next ==
    \/ Running /\ \/ \E t \in Children : Child(t)
                  \/ Main
                  \/ MakeThreadFails /\ UNCHANGED workvars
    \/ CheckArray
    \/ Ended /\ UNCHANGED vars

Spec == Init /\ [][Next]_vars

-----------------------------------------------------------------------------
\* Type invariant.
TypeOK ==
    /\ FrameOK(Labels)
    /\ counter \in Memory
    /\ array \in [Memory -> Nat]
    /\ mutex \in Children \cup {Free}
    /\ errors \in Int

\* Every unit of work is done exactly once, although the test is not under
\* the mutex: check_array prints "0 errors."
NoErrors == errors \in {-1, 0}

\* The stale tests let counter pass end, but by one less than the number of
\* children at most: once it has reached end no more child passes the test.
Overshoot == counter <= End + NumChildren - 1
====
