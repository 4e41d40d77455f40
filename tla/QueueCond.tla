---- MODULE QueueCond ----
(***************************************************************************)
(* examples/queue/queue_cond.c: the queue with a mutex around every access *)
(* and a condition variable on which queue_pop waits while the queue is    *)
(* empty.  queue_push still ends the process when the queue is full.       *)
(*                                                                         *)
(* pc[t] goes "call" (about to lock), "check" (mutex held, about to test   *)
(* full or empty), "access" (the slot), "incr" (the index), "unlock", and  *)
(* for a producer "signal"; a consumer that found the queue empty is at    *)
(* "wait" until it holds the mutex again.  "exit" is perror_exit after the *)
(* unlock that precedes it.                                                *)
(***************************************************************************)
EXTENDS QueueRing, FiniteSets

CONSTANT Free   \* the owner of a mutex nobody holds

ASSUME FreeAssumption == Free \notin Threads

VARIABLES mutex,     \* the thread that holds queue->mutex, or Free
          waiters    \* the consumers asleep on queue->nonempty

lockvars == <<mutex, waiters>>
vars == <<ringvars, pc, localvars, mainvars, lockvars>>

Labels == {"new", "call", "check", "access", "incr", "unlock", "signal",
           "wait", "exit", "done"}

-----------------------------------------------------------------------------
\* utils.c: the wrappers of the pthread calls.

mutex_lock(t) == mutex = Free /\ mutex' = t
mutex_unlock == mutex' = Free

\* pthread_cond_wait: release the mutex and fall asleep in one step.
cond_wait(c) == mutex_unlock /\ waiters' = waiters \cup {c}

\* Mutated forms: no signal, and a signal only for the first item.
cond_signal_Never == UNCHANGED waiters
cond_signal_First ==
    IF waiters = {} \/ queue_incr(next_out) # next_in
        THEN UNCHANGED waiters
        ELSE \E c \in waiters : waiters' = waiters \ {c}

\* pthread_cond_signal: wake one sleeper if there is one.
cond_signal ==
    IF waiters = {} THEN UNCHANGED waiters
                    ELSE \E c \in waiters : waiters' = waiters \ {c}

-----------------------------------------------------------------------------
\* queue_push

PushLock(p) ==
    /\ pc[p] = "call"
    /\ mutex_lock(p)
    /\ Goto(p, "check")
    /\ UNCHANGED <<ringvars, localvars, mainvars, waiters>>

PushFull(p) ==
    /\ pc[p] = "check"
    /\ queue_full
    /\ mutex_unlock
    /\ Goto(p, "exit")
    /\ UNCHANGED <<ringvars, localvars, mainvars, waiters>>

PushRoom(p) ==
    /\ pc[p] = "check"
    /\ ~queue_full
    /\ Goto(p, "access")
    /\ UNCHANGED <<ringvars, localvars, mainvars, lockvars>>

PushStore(p) ==
    /\ StoreItem(p)
    /\ UNCHANGED <<mainvars, lockvars>>

PushIncr(p) ==
    /\ pc[p] = "incr"
    /\ AdvanceIn
    /\ Goto(p, "unlock")
    /\ UNCHANGED <<localvars, mainvars, lockvars>>

PushUnlock(p) ==
    /\ pc[p] = "unlock"
    /\ mutex_unlock
    /\ Goto(p, "signal")
    /\ UNCHANGED <<ringvars, localvars, mainvars, waiters>>

PushSignal(p) ==
    /\ pc[p] = "signal"
    /\ cond_signal
    /\ NextIteration(p)
    /\ UNCHANGED <<ringvars, item, consumed, mainvars, mutex>>

-----------------------------------------------------------------------------
\* queue_pop

PopLock(c) ==
    /\ pc[c] = "call"
    /\ mutex_lock(c)
    /\ Goto(c, "check")
    /\ UNCHANGED <<ringvars, localvars, mainvars, waiters>>

PopWait(c) ==
    /\ pc[c] = "check"
    /\ queue_empty
    /\ cond_wait(c)
    /\ Goto(c, "wait")
    /\ UNCHANGED <<ringvars, localvars, mainvars>>

\* A spurious wakeup, which POSIX allows.
PopSpurious(c) ==
    /\ c \in waiters
    /\ waiters' = waiters \ {c}
    /\ UNCHANGED <<ringvars, pc, localvars, mainvars, mutex>>

\* Mutated forms: the while is an if; the wait returns without the mutex.
PopRelock_If(c) ==
    /\ pc[c] = "wait"
    /\ c \notin waiters
    /\ mutex_lock(c)
    /\ Goto(c, "access")
    /\ UNCHANGED <<ringvars, localvars, mainvars, waiters>>

PopRelock_Unlocked(c) ==
    /\ pc[c] = "wait"
    /\ c \notin waiters
    /\ Goto(c, "check")
    /\ UNCHANGED <<ringvars, localvars, mainvars, lockvars>>

\* pthread_cond_wait returns with the mutex held; the while tests again.
PopRelock(c) ==
    /\ pc[c] = "wait"
    /\ c \notin waiters
    /\ mutex_lock(c)
    /\ Goto(c, "check")
    /\ UNCHANGED <<ringvars, localvars, mainvars, waiters>>

PopSome(c) ==
    /\ pc[c] = "check"
    /\ ~queue_empty
    /\ Goto(c, "access")
    /\ UNCHANGED <<ringvars, localvars, mainvars, lockvars>>

PopLoad(c) ==
    /\ LoadItem(c)
    /\ UNCHANGED <<mainvars, lockvars>>

PopIncr(c) ==
    /\ pc[c] = "incr"
    /\ AdvanceOut
    /\ Goto(c, "unlock")
    /\ UNCHANGED <<localvars, mainvars, lockvars>>

PopUnlock(c) ==
    /\ pc[c] = "unlock"
    /\ mutex_unlock
    /\ Consume(c)
    /\ UNCHANGED <<ringvars, item, mainvars, waiters>>

-----------------------------------------------------------------------------
Push(p) == \/ PushLock(p) \/ PushFull(p) \/ PushRoom(p) \/ PushStore(p)
           \/ PushIncr(p) \/ PushUnlock(p) \/ PushSignal(p)

Pop(c) == \/ PopLock(c) \/ PopWait(c) \/ PopRelock(c) \/ PopSome(c)
          \/ PopLoad(c) \/ PopIncr(c) \/ PopUnlock(c)

Main == MakeThread \/ JoinThread \/ MakeThreadFails

Init == RingInit /\ mutex = Free /\ waiters = {}

Step ==
    \/ \E p \in Producers : Push(p) \/ (PerrorExit(p) /\ UNCHANGED lockvars)
    \/ \E c \in Consumers : Pop(c) \/ PopSpurious(c)
    \/ Main /\ UNCHANGED lockvars

\* The process has ended; anything else that cannot step is a deadlock.
Ended == ~Running /\ UNCHANGED vars

Next == (Running /\ Step) \/ Ended

Spec == Init /\ [][Next]_vars

\* The operating system schedules main and every thread that can run;
\* spurious wakeups and a failing pthread_create are never owed.
FairSpec ==
    /\ Spec
    /\ \A p \in Producers : WF_vars(Running /\ Push(p))
    /\ \A p \in Producers : WF_vars(Running /\ PerrorExit(p) /\ UNCHANGED lockvars)
    /\ \A c \in Consumers : WF_vars(Running /\ Pop(c))
    /\ WF_vars(Running /\ (MakeThread \/ JoinThread) /\ UNCHANGED lockvars)

-----------------------------------------------------------------------------
(***************************************************************************)
(* Type invariant.  One fact is more than a type: whoever is asleep or on  *)
(* the way to sleep or back is at "wait".                                  *)
(***************************************************************************)
TypeOK ==
    /\ RingTypeOK
    /\ pc \in [Threads -> Labels]
    /\ mutex \in Threads \cup {Free}
    /\ waiters \subseteq {c \in Consumers : pc[c] = "wait"}

\* Where a thread is between mutex_lock and mutex_unlock.
Holding(t) == pc[t] \in {"check", "access", "incr", "unlock"}

\* No two threads are between the lock and the unlock of queue->mutex at
\* once, the return from cond_wait included: the accesses to the indices and
\* the slots in queue_push and queue_pop never race.
MutualExclusion == \A s, t \in Threads : Holding(s) /\ Holding(t) => s = t

\* The producers whose signal is still to come, and the consumers that are
\* in queue_pop, awake, and have not taken their item yet.
Signalling == {p \in Producers : pc[p] \in {"unlock", "signal"}}
AwakeInPop == {c \in Consumers \ waiters : pc[c] \in {"wait", "check", "access", "incr"}}

\* queue_push signals after it unlocks and wakes one sleeper only.  Still no
\* wakeup is lost: while a consumer sleeps and the queue holds items, there
\* are at least as many signals to come and consumers awake inside queue_pop
\* as there are items.
NoLostWakeup ==
    waiters # {} => Count <= Cardinality(Signalling) + Cardinality(AwakeInPop)

\* When main has joined its children (and no call ended the process), every
\* item that was pushed was printed by exactly one consumer, or is still in
\* the queue, whatever the interleaving and the wakeups.
AllDelivered ==
    joined = Len(Children) =>
        LET printed == UNION {{<<c, k>> : k \in 1..Len(consumed[c])} : c \in Consumers}
            pushed == UNION {{<<p, n>> : n \in 0..(Loops[p] - 1)} : p \in Producers}
            out == {consumed[x[1]][x[2]] : x \in printed}
            left == {Contents[k] : k \in 1..Count}
        IN /\ Cardinality(out) = Cardinality(printed)
           /\ out \cap left = {}
           /\ out \cup left = pushed

\* The queue as its callers see it: an item enters when next_in moves past it
\* and leaves when next_out does.
Sent == [p \in Producers |-> IF pc[p] \in {"unlock", "signal"} THEN i[p] + 1 ELSE i[p]]
Received == [c \in Consumers |-> IF pc[c] = "unlock" THEN Append(consumed[c], item[c])
                                                    ELSE consumed[c]]
Failing == {t \in Threads : pc[t] = "exit"}

Abstract == INSTANCE Fifo WITH
    Blocking <- TRUE, q <- Contents, sent <- Sent, received <- Received, failing <- Failing

\* With its waiting consumers the queue is a bounded FIFO queue between the
\* threads, for every interleaving and every wakeup.
ImplementsFifo == Abstract!Spec

\* If spurious wakeups do not go on for ever, the process ends: main returns,
\* or a thread ended it.  No thread waits for ever for an item or for the
\* mutex, as long as the consumers ask for no more than is pushed.
Finishes == (<>[][~\E c \in Consumers : PopSpurious(c)]_vars) => <>~Running

\* What make_queue's comment promises ("we have to add 1 because the
\* implementation wastes one element"): the slot that queue_push is about to
\* write is one of the Length slots that make_queue allocated.
StoreInsideArray == \A p \in Producers : pc[p] = "access" => next_in < Length
====
