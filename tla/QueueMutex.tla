---- MODULE QueueMutex ----
(***************************************************************************)
(* examples/queue/queue_mutex.c: a mutex around every access, and no way   *)
(* to wait.  queue_pop of an empty queue ends the process, as queue_push   *)
(* of a full one does.  pc is read as in QueueCond.                        *)
(***************************************************************************)
EXTENDS QueueRing, FiniteSets

CONSTANT Free   \* the owner of a mutex nobody holds

VARIABLE mutex  \* the thread that holds queue->mutex, or Free

vars == <<ringvars, pc, localvars, mainvars, mutex>>

Labels == {"new", "call", "check", "access", "incr", "unlock", "exit", "done"}

\* Mutated form: the mutex is not waited for.
Lock_NoWait(t) ==
    /\ pc[t] = "call"
    /\ mutex' = t
    /\ Goto(t, "check")
    /\ UNCHANGED <<ringvars, localvars, mainvars>>

\* Both functions: take the mutex, then test.
Lock(t) ==
    /\ pc[t] = "call"
    /\ mutex = Free
    /\ mutex' = t
    /\ Goto(t, "check")
    /\ UNCHANGED <<ringvars, localvars, mainvars>>

\* A full queue for queue_push, an empty one for queue_pop.
Refuses(t) == IF t \in Producers THEN queue_full ELSE queue_empty

Refuse(t) ==
    /\ pc[t] = "check"
    /\ Refuses(t)
    /\ mutex' = Free
    /\ Goto(t, "exit")
    /\ UNCHANGED <<ringvars, localvars, mainvars>>

Accept(t) ==
    /\ pc[t] = "check"
    /\ ~Refuses(t)
    /\ Goto(t, "access")
    /\ UNCHANGED <<ringvars, localvars, mainvars, mutex>>

PushStore(p) == StoreItem(p) /\ UNCHANGED <<mainvars, mutex>>

PushIncr(p) ==
    /\ pc[p] = "incr"
    /\ AdvanceIn
    /\ Goto(p, "unlock")
    /\ UNCHANGED <<localvars, mainvars, mutex>>

PushUnlock(p) ==
    /\ pc[p] = "unlock"
    /\ mutex' = Free
    /\ NextIteration(p)
    /\ UNCHANGED <<ringvars, item, consumed, mainvars>>

PopLoad(c) == LoadItem(c) /\ UNCHANGED <<mainvars, mutex>>

PopIncr(c) ==
    /\ pc[c] = "incr"
    /\ AdvanceOut
    /\ Goto(c, "unlock")
    /\ UNCHANGED <<localvars, mainvars, mutex>>

PopUnlock(c) ==
    /\ pc[c] = "unlock"
    /\ mutex' = Free
    /\ Consume(c)
    /\ UNCHANGED <<ringvars, item, mainvars>>

Push(p) == Lock(p) \/ Refuse(p) \/ Accept(p) \/ PushStore(p) \/ PushIncr(p) \/ PushUnlock(p)
Pop(c) == Lock(c) \/ Refuse(c) \/ Accept(c) \/ PopLoad(c) \/ PopIncr(c) \/ PopUnlock(c)

Init == RingInit /\ mutex = Free

Next ==
    \/ /\ Running
       /\ \/ \E p \in Producers : Push(p)
          \/ \E c \in Consumers : Pop(c)
          \/ \E t \in Threads : PerrorExit(t) /\ UNCHANGED mutex
          \/ (MakeThread \/ MakeThreadFails \/ JoinThread) /\ UNCHANGED mutex
    \/ ~Running /\ UNCHANGED vars

Spec == Init /\ [][Next]_vars

-----------------------------------------------------------------------------
\* Type invariant.
TypeOK ==
    /\ RingTypeOK
    /\ pc \in [Threads -> Labels]
    /\ mutex \in Threads \cup {Free}

\* The queue is a bounded FIFO queue that ends the process instead of making
\* a consumer wait: neither a thread that is about to exit, nor one that the
\* exit cuts short, disturbs what the others see.
Abstract == INSTANCE Fifo WITH
    Blocking <- FALSE,
    q <- Contents,
    sent <- [p \in Producers |-> IF pc[p] = "unlock" THEN i[p] + 1 ELSE i[p]],
    received <- [c \in Consumers |-> IF pc[c] = "unlock" THEN Append(consumed[c], item[c])
                                                         ELSE consumed[c]],
    failing <- {t \in Threads : pc[t] = "exit"}
====
