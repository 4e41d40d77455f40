---- MODULE QueueCondProofs ----
(***************************************************************************)
(* Proofs about QueueCond, for any producers and consumers, any length of  *)
(* the queue and any loop bounds.                                          *)
(***************************************************************************)
EXTENDS QueueCond, QueueRingProofs, FiniteSetTheorems

\* The children main has not created yet have done nothing.
FrameInv == \A k \in 1..Len(Children) : k > made => pc[Children[k]] = "new"

\* A thread is between lock and unlock exactly when it owns the mutex.
LockInv == \A t \in Threads : Holding(t) <=> mutex = t

Inv == TypeOK /\ FrameInv /\ LockInv

-----------------------------------------------------------------------------
LEMMA InitInv == Init => Inv
<1> SUFFICES ASSUME Init PROVE Inv
    OBVIOUS
<1> USE DEF Init, RingInit
<1>1. TypeOK
  BY QueueAssumption DEF TypeOK, RingTypeOK, Slots, Labels
<1>2. FrameInv /\ LockInv
  BY ChildrenThreads, FreeAssumption DEF FrameInv, LockInv, Holding
<1> QED  BY <1>1, <1>2 DEF Inv

-----------------------------------------------------------------------------
\* What a step of one thread t has to respect for the rest of the invariant
\* to survive it: t moves from one label to another, everyone else stays, and
\* the mutex changes hands only as t enters or leaves a critical section.
LEMMA MoveKeepsLockInv ==
    ASSUME LockInv, TypeOK, NEW t \in Threads, NEW l \in Labels, Goto(t, l),
           \/ mutex' = mutex /\ (Holding(t) <=> l \in {"check", "access", "incr", "unlock"})
           \/ mutex = Free /\ mutex' = t /\ l \in {"check", "access", "incr", "unlock"}
           \/ mutex = t /\ mutex' = Free /\ l \notin {"check", "access", "incr", "unlock"}
    PROVE  LockInv'
<1>1. \A s \in Threads : pc'[s] = IF s = t THEN l ELSE pc[s]
  BY DEF TypeOK, Goto
<1> QED  BY <1>1, FreeAssumption DEF LockInv, Holding

LEMMA MoveKeepsFrameInv ==
    ASSUME FrameInv, TypeOK, NEW t \in Threads, NEW l \in Labels, Goto(t, l),
           pc[t] # "new", made' = made
    PROVE  FrameInv'
BY ChildrenThreads DEF FrameInv, TypeOK, Goto

\* A thread's move keeps the sleepers at "wait" if it is not asleep itself.
LEMMA MoveKeepsTypes ==
    ASSUME TypeOK, NEW t \in Threads, NEW l \in Labels, Goto(t, l)
    PROVE  /\ pc' \in [Threads -> Labels]
           /\ t \notin waiters => waiters \subseteq {c \in Consumers : pc'[c] = "wait"}
BY DEF TypeOK, Goto, Threads

\* The loop counters stay numbers.
LEMMA IterationTypes ==
    ASSUME TypeOK, NEW t \in Threads, NextIteration(t)
    PROVE  i' \in [Threads -> Nat]
<1>1. i \in [Threads -> Nat]
  BY DEF TypeOK, RingTypeOK
<1>2. i' = [i EXCEPT ![t] = i[t] + 1]
  BY DEF NextIteration
<1> QED  BY <1>1, <1>2

-----------------------------------------------------------------------------
\* queue_push keeps the invariant, one step per action.
LEMMA PushInv ==
    ASSUME Inv, NEW p \in Producers, Push(p)
    PROVE  Inv'
<1> USE DEF Inv
<1>p. p \in Threads /\ p \notin Consumers /\ p \notin waiters
  BY QueueAssumption DEF Threads, TypeOK
<1>1. CASE PushLock(p)
  <2>1. Goto(p, "check") /\ "check" \in Labels /\ pc[p] = "call"
    BY <1>1 DEF PushLock, Labels
  <2>2. TypeOK'
    BY <1>1, <1>p, <2>1, MoveKeepsTypes
    DEF PushLock, TypeOK, RingTypeOK, mutex_lock, ringvars, localvars, mainvars
  <2>3. FrameInv'
    BY <1>1, <1>p, <2>1, MoveKeepsFrameInv DEF PushLock, mainvars
  <2>4. LockInv'
    BY <1>1, <1>p, <2>1, MoveKeepsLockInv DEF PushLock, mutex_lock
  <2> QED  BY <2>2, <2>3, <2>4
<1>2. CASE PushFull(p)
  <2>1. Goto(p, "exit") /\ "exit" \in Labels /\ pc[p] = "check" /\ mutex = p
    BY <1>2, <1>p DEF PushFull, Labels, LockInv, Holding
  <2>2. TypeOK'
    BY <1>2, <1>p, <2>1, MoveKeepsTypes
    DEF PushFull, TypeOK, RingTypeOK, mutex_unlock, ringvars, localvars, mainvars
  <2>3. FrameInv'
    BY <1>2, <1>p, <2>1, MoveKeepsFrameInv DEF PushFull, mainvars
  <2>4. LockInv'
    BY <1>2, <1>p, <2>1, MoveKeepsLockInv DEF PushFull, mutex_unlock
  <2> QED  BY <2>2, <2>3, <2>4
<1>3. CASE PushRoom(p)
  <2>1. Goto(p, "access") /\ "access" \in Labels /\ pc[p] = "check"
    BY <1>3 DEF PushRoom, Labels
  <2>2. TypeOK'
    BY <1>3, <1>p, <2>1, MoveKeepsTypes
    DEF PushRoom, TypeOK, RingTypeOK, ringvars, localvars, mainvars, lockvars
  <2>3. FrameInv'
    BY <1>3, <1>p, <2>1, MoveKeepsFrameInv DEF PushRoom, mainvars
  <2>4. LockInv'
    BY <1>3, <1>p, <2>1, MoveKeepsLockInv DEF PushRoom, lockvars, Holding
  <2> QED  BY <2>2, <2>3, <2>4
<1>4. CASE PushStore(p)
  <2>1. Goto(p, "incr") /\ "incr" \in Labels /\ pc[p] = "access"
    BY <1>4 DEF PushStore, StoreItem, Labels
  <2>2. <<p, i[p]>> \in Item
    BY <1>p DEF Item, TypeOK, RingTypeOK
  <2>3. TypeOK'
    BY <1>4, <1>p, <2>1, <2>2, MoveKeepsTypes
    DEF PushStore, StoreItem, TypeOK, RingTypeOK, localvars, mainvars, lockvars
  <2>4. FrameInv'
    BY <1>4, <1>p, <2>1, MoveKeepsFrameInv DEF PushStore, mainvars
  <2>5. LockInv'
    BY <1>4, <1>p, <2>1, MoveKeepsLockInv DEF PushStore, lockvars, Holding
  <2> QED  BY <2>3, <2>4, <2>5
<1>5. CASE PushIncr(p)
  <2>1. Goto(p, "unlock") /\ "unlock" \in Labels /\ pc[p] = "incr"
    BY <1>5 DEF PushIncr, Labels
  <2>2. queue_incr(next_in) \in Slots
    BY IncrSlot DEF TypeOK, RingTypeOK
  <2>3. TypeOK'
    BY <1>5, <1>p, <2>1, <2>2, MoveKeepsTypes
    DEF PushIncr, AdvanceIn, TypeOK, RingTypeOK, localvars, mainvars, lockvars
  <2>4. FrameInv'
    BY <1>5, <1>p, <2>1, MoveKeepsFrameInv DEF PushIncr, mainvars
  <2>5. LockInv'
    BY <1>5, <1>p, <2>1, MoveKeepsLockInv DEF PushIncr, lockvars, Holding
  <2> QED  BY <2>3, <2>4, <2>5
<1>6. CASE PushUnlock(p)
  <2>1. Goto(p, "signal") /\ "signal" \in Labels /\ pc[p] = "unlock" /\ mutex = p
    BY <1>6, <1>p DEF PushUnlock, Labels, LockInv, Holding
  <2>2. TypeOK'
    BY <1>6, <1>p, <2>1, MoveKeepsTypes
    DEF PushUnlock, TypeOK, RingTypeOK, mutex_unlock, ringvars, localvars, mainvars
  <2>3. FrameInv'
    BY <1>6, <1>p, <2>1, MoveKeepsFrameInv DEF PushUnlock, mainvars
  <2>4. LockInv'
    BY <1>6, <1>p, <2>1, MoveKeepsLockInv DEF PushUnlock, mutex_unlock
  <2> QED  BY <2>2, <2>3, <2>4
<1>7. CASE PushSignal(p)
  <2> DEFINE l == LoopHead(p, i[p] + 1)
  <2>1. Goto(p, l) /\ l \in {"call", "done"} /\ pc[p] = "signal"
    BY <1>7, LoopHeadLabel DEF PushSignal, NextIteration
  <2>2. l \in Labels
    BY <2>1 DEF Labels
  <2> HIDE DEF l
  <2>3. waiters' \subseteq waiters
    BY <1>7 DEF PushSignal, cond_signal
  <2>4. i' \in [Threads -> Nat]
    BY <1>7, <1>p, IterationTypes DEF PushSignal
  <2>5. /\ pc' \in [Threads -> Labels]
        /\ waiters' \subseteq {c \in Consumers : pc'[c] = "wait"}
    BY <1>p, <2>1, <2>2, <2>3, MoveKeepsTypes
  <2>6. TypeOK'
    BY <1>7, <2>4, <2>5 DEF PushSignal, TypeOK, RingTypeOK, ringvars, mainvars
  <2>7. FrameInv'
    BY <1>7, <1>p, <2>1, <2>2, MoveKeepsFrameInv DEF PushSignal, mainvars
  <2>8. LockInv'
    BY <1>7, <1>p, <2>1, <2>2, MoveKeepsLockInv DEF PushSignal, Holding
  <2> QED  BY <2>6, <2>7, <2>8
<1> QED  BY <1>1, <1>2, <1>3, <1>4, <1>5, <1>6, <1>7 DEF Push

\* queue_pop keeps the invariant, spurious wakeups included.
LEMMA PopInv ==
    ASSUME Inv, NEW c \in Consumers, Pop(c) \/ PopSpurious(c)
    PROVE  Inv'
<1> USE DEF Inv
<1>c. c \in Threads /\ c \notin Producers
  BY QueueAssumption DEF Threads
<1>w. pc[c] # "wait" => c \notin waiters
  BY DEF TypeOK
<1>1. CASE PopLock(c)
  <2>1. Goto(c, "check") /\ "check" \in Labels /\ pc[c] = "call"
    BY <1>1 DEF PopLock, Labels
  <2>2. TypeOK'
    BY <1>1, <1>c, <1>w, <2>1, MoveKeepsTypes
    DEF PopLock, TypeOK, RingTypeOK, mutex_lock, ringvars, localvars, mainvars
  <2>3. FrameInv'
    BY <1>1, <1>c, <2>1, MoveKeepsFrameInv DEF PopLock, mainvars
  <2>4. LockInv'
    BY <1>1, <1>c, <2>1, MoveKeepsLockInv DEF PopLock, mutex_lock
  <2> QED  BY <2>2, <2>3, <2>4
<1>2. CASE PopWait(c)
  <2>1. Goto(c, "wait") /\ "wait" \in Labels /\ pc[c] = "check" /\ mutex = c
    BY <1>2, <1>c DEF PopWait, Labels, LockInv, Holding
  <2>2. /\ pc' \in [Threads -> Labels]
        /\ waiters' \subseteq {d \in Consumers : pc'[d] = "wait"}
    <3>1. waiters \subseteq {d \in Consumers : pc'[d] = "wait"}
      BY <1>c, <1>w, <2>1, MoveKeepsTypes
    <3>2. pc'[c] = "wait" /\ pc' \in [Threads -> Labels]
      BY <1>c, <2>1, MoveKeepsTypes DEF Goto, TypeOK
    <3> QED  BY <1>2, <3>1, <3>2 DEF PopWait, cond_wait
  <2>3. TypeOK'
    BY <1>2, <2>2
    DEF PopWait, TypeOK, RingTypeOK, cond_wait, mutex_unlock, ringvars, localvars, mainvars
  <2>4. FrameInv'
    BY <1>2, <1>c, <2>1, MoveKeepsFrameInv DEF PopWait, mainvars
  <2>5. LockInv'
    BY <1>2, <1>c, <2>1, MoveKeepsLockInv DEF PopWait, cond_wait, mutex_unlock
  <2> QED  BY <2>3, <2>4, <2>5
<1>3. CASE PopRelock(c)
  <2>1. Goto(c, "check") /\ "check" \in Labels /\ pc[c] = "wait" /\ c \notin waiters
    BY <1>3 DEF PopRelock, Labels
  <2>2. TypeOK'
    BY <1>3, <1>c, <2>1, MoveKeepsTypes
    DEF PopRelock, TypeOK, RingTypeOK, mutex_lock, ringvars, localvars, mainvars
  <2>3. FrameInv'
    BY <1>3, <1>c, <2>1, MoveKeepsFrameInv DEF PopRelock, mainvars
  <2>4. LockInv'
    BY <1>3, <1>c, <2>1, MoveKeepsLockInv DEF PopRelock, mutex_lock
  <2> QED  BY <2>2, <2>3, <2>4
<1>4. CASE PopSome(c)
  <2>1. Goto(c, "access") /\ "access" \in Labels /\ pc[c] = "check"
    BY <1>4 DEF PopSome, Labels
  <2>2. TypeOK'
    BY <1>4, <1>c, <1>w, <2>1, MoveKeepsTypes
    DEF PopSome, TypeOK, RingTypeOK, ringvars, localvars, mainvars, lockvars
  <2>3. FrameInv'
    BY <1>4, <1>c, <2>1, MoveKeepsFrameInv DEF PopSome, mainvars
  <2>4. LockInv'
    BY <1>4, <1>c, <2>1, MoveKeepsLockInv DEF PopSome, lockvars, Holding
  <2> QED  BY <2>2, <2>3, <2>4
<1>5. CASE PopLoad(c)
  <2>1. Goto(c, "incr") /\ "incr" \in Labels /\ pc[c] = "access"
    BY <1>5 DEF PopLoad, LoadItem, Labels
  <2>2. item' \in [Consumers -> Item \cup {NoItem}]
    BY <1>5 DEF PopLoad, LoadItem, TypeOK, RingTypeOK
  <2>3. TypeOK'
    BY <1>5, <1>c, <1>w, <2>1, <2>2, MoveKeepsTypes
    DEF PopLoad, LoadItem, TypeOK, RingTypeOK, ringvars, mainvars, lockvars
  <2>4. FrameInv'
    BY <1>5, <1>c, <2>1, MoveKeepsFrameInv DEF PopLoad, mainvars
  <2>5. LockInv'
    BY <1>5, <1>c, <2>1, MoveKeepsLockInv DEF PopLoad, lockvars, Holding
  <2> QED  BY <2>3, <2>4, <2>5
<1>6. CASE PopIncr(c)
  <2>1. Goto(c, "unlock") /\ "unlock" \in Labels /\ pc[c] = "incr"
    BY <1>6 DEF PopIncr, Labels
  <2>2. queue_incr(next_out) \in Slots
    BY IncrSlot DEF TypeOK, RingTypeOK
  <2>3. TypeOK'
    BY <1>6, <1>c, <1>w, <2>1, <2>2, MoveKeepsTypes
    DEF PopIncr, AdvanceOut, TypeOK, RingTypeOK, localvars, mainvars, lockvars
  <2>4. FrameInv'
    BY <1>6, <1>c, <2>1, MoveKeepsFrameInv DEF PopIncr, mainvars
  <2>5. LockInv'
    BY <1>6, <1>c, <2>1, MoveKeepsLockInv DEF PopIncr, lockvars, Holding
  <2> QED  BY <2>3, <2>4, <2>5
<1>7. CASE PopUnlock(c)
  <2> DEFINE l == LoopHead(c, i[c] + 1)
  <2>1. Goto(c, l) /\ l \in {"call", "done"} /\ pc[c] = "unlock" /\ mutex = c
    BY <1>7, <1>c, LoopHeadLabel DEF PopUnlock, Consume, NextIteration, LockInv, Holding
  <2>2. l \in Labels /\ l \notin {"check", "access", "incr", "unlock"}
    BY <2>1 DEF Labels
  <2> HIDE DEF l
  <2>3. i' \in [Threads -> Nat]
    BY <1>7, <1>c, IterationTypes DEF PopUnlock, Consume
  <2>4. consumed' \in [Consumers -> Seq(Item \cup {NoItem})]
    <3> DEFINE S == Item \cup {NoItem}
    <3>0. consumed \in [Consumers -> Seq(S)] /\ consumed[c] \in Seq(S) /\ item[c] \in S
      BY DEF TypeOK, RingTypeOK
    <3>1. Append(consumed[c], item[c]) \in Seq(S)
      <4> HIDE DEF S
      <4> QED  BY <3>0
    <3> QED  BY <1>7, <3>0, <3>1 DEF PopUnlock, Consume
  <2>5. /\ pc' \in [Threads -> Labels]
        /\ waiters' \subseteq {d \in Consumers : pc'[d] = "wait"}
    BY <1>7, <1>c, <1>w, <2>1, <2>2, MoveKeepsTypes DEF PopUnlock
  <2>6. TypeOK'
    BY <1>7, <2>3, <2>4, <2>5
    DEF PopUnlock, TypeOK, RingTypeOK, mutex_unlock, ringvars, mainvars
  <2>7. FrameInv'
    BY <1>7, <1>c, <2>1, <2>2, MoveKeepsFrameInv DEF PopUnlock, mainvars
  <2>8. LockInv'
    BY <1>7, <1>c, <2>1, <2>2, MoveKeepsLockInv DEF PopUnlock, mutex_unlock
  <2> QED  BY <2>6, <2>7, <2>8
<1>8. CASE PopSpurious(c)
  <2>1. TypeOK'
    BY <1>8 DEF PopSpurious, TypeOK, RingTypeOK, ringvars, localvars, mainvars
  <2>2. FrameInv' /\ LockInv'
    BY <1>8 DEF PopSpurious, FrameInv, LockInv, Holding, mainvars
  <2> QED  BY <2>1, <2>2
<1> QED  BY <1>1, <1>2, <1>3, <1>4, <1>5, <1>6, <1>7, <1>8 DEF Pop

\* main's steps and perror_exit keep it.
LEMMA MainInv ==
    ASSUME Inv, UNCHANGED lockvars,
           Main \/ \E p \in Producers : PerrorExit(p)
    PROVE  Inv'
<1> USE DEF Inv, lockvars
<1>m. Len(Children) \in Nat /\ made \in 0..Len(Children) /\ joined \in 0..Len(Children)
  BY ChildrenThreads DEF TypeOK, RingTypeOK
<1>1. CASE MakeThread
  <2> DEFINE t == Children[made + 1]
             l == LoopHead(t, 0)
  <2>1. made + 1 \in 1..Len(Children) /\ made' = made + 1
    BY <1>1, <1>m DEF MakeThread
  <2>2. t \in Threads /\ pc[t] = "new"
    BY <1>m, <2>1, ChildrenThreads DEF FrameInv
  <2>3. Goto(t, l) /\ l \in {"call", "done"}
    BY <1>1, LoopHeadLabel DEF MakeThread
  <2>4. l \in Labels /\ l \notin {"check", "access", "incr", "unlock"} /\ t \notin waiters
    BY <2>2, <2>3 DEF Labels, TypeOK
  <2>5. FrameInv'
    <3> SUFFICES ASSUME NEW k \in 1..Len(Children), k > made + 1
                 PROVE  pc'[Children[k]] = "new"
      BY <2>1 DEF FrameInv
    <3>1. Children[k] # t /\ Children[k] \in Threads /\ pc[Children[k]] = "new"
      BY <1>m, <2>1, ChildrenAssumption, ChildrenThreads DEF FrameInv
    <3> QED  BY <3>1, <2>2, <2>3 DEF Goto, TypeOK
  <2> HIDE DEF t, l
  <2>6. /\ pc' \in [Threads -> Labels]
        /\ waiters' \subseteq {c \in Consumers : pc'[c] = "wait"}
    BY <2>2, <2>3, <2>4, MoveKeepsTypes
  <2>7. TypeOK'
    <3>1. made' \in 0..Len(Children)
      BY <1>m, <2>1
    <3> QED  BY <1>1, <2>6, <3>1 DEF MakeThread, TypeOK, RingTypeOK, ringvars, localvars
  <2>8. LockInv'
    BY <2>2, <2>3, <2>4, MoveKeepsLockInv DEF Holding
  <2> QED  BY <2>5, <2>7, <2>8
<1>2. CASE JoinThread
  <2>1. TypeOK'
    <3>1. joined' \in 0..Len(Children)
      BY <1>2, <1>m DEF JoinThread
    <3> QED  BY <1>2, <3>1 DEF JoinThread, TypeOK, RingTypeOK, ringvars, localvars
  <2> QED  BY <1>2, <2>1 DEF JoinThread, FrameInv, LockInv, Holding
<1>3. CASE MakeThreadFails
  BY <1>3 DEF MakeThreadFails, TypeOK, RingTypeOK, ringvars, localvars,
              FrameInv, LockInv, Holding
<1>4. CASE \E p \in Producers : PerrorExit(p)
  <2>1. PICK p \in Producers : PerrorExit(p)
    BY <1>4
  <2>2. TypeOK'
    BY <2>1 DEF PerrorExit, TypeOK, RingTypeOK, ringvars, localvars
  <2> QED  BY <2>1, <2>2 DEF PerrorExit, FrameInv, LockInv, Holding
<1> QED  BY <1>1, <1>2, <1>3, <1>4 DEF Main

LEMMA NextInv == Inv /\ [Next]_vars => Inv'
<1> SUFFICES ASSUME Inv, [Next]_vars PROVE Inv'
    OBVIOUS
<1>1. CASE Running /\ Step
  BY <1>1, PushInv, PopInv, MainInv DEF Step
<1>2. CASE UNCHANGED vars
  BY <1>2 DEF vars, ringvars, localvars, mainvars, lockvars,
              Inv, TypeOK, RingTypeOK, FrameInv, LockInv, Holding
<1> QED  BY <1>1, <1>2 DEF Next, Ended

\* The invariant holds in every reachable state.
THEOREM Invariance == Spec => []Inv
<1>1. Init => Inv
  BY InitInv
<1>2. Inv /\ [Next]_vars => Inv'
  BY NextInv
<1> QED  BY <1>1, <1>2, PTL DEF Spec

\* Type correctness of the monitor in queue_cond.c, for any number of threads.
THEOREM TypeCorrect == Spec => []TypeOK
<1>1. Inv => TypeOK
  BY DEF Inv
<1> QED  BY <1>1, Invariance, PTL

\* The mutex of queue_cond.c does what queue_push and queue_pop rely on: at
\* most one thread is between its lock and its unlock.
THEOREM MutexCorrect == Spec => []MutualExclusion
<1>1. Inv => MutualExclusion
  BY DEF Inv, LockInv, MutualExclusion
<1> QED  BY <1>1, Invariance, PTL

-----------------------------------------------------------------------------
(***************************************************************************)
(* The loops and the accesses.  These facts are inductive together with    *)
(* Inv: the tests of queue_full and queue_empty are still true when the    *)
(* index moves, because only the owner of the mutex moves an index.        *)
(***************************************************************************)

\* How far the loop of each thread is, and what a consumer has printed.
LoopInv ==
    /\ \A t \in Threads : pc[t] = "new" => i[t] = 0
    /\ \A t \in Threads : pc[t] \notin {"new", "done"} => i[t] < Loops[t]
    /\ \A t \in Threads : pc[t] = "done" => i[t] = Loops[t]
    /\ \A c \in Consumers : Len(consumed[c]) = i[c]

\* A producer at the slot has room, and has stored its item when it moves
\* next_in; a consumer at the slot has an item, and has read it when it moves
\* next_out.
SlotInv ==
    /\ \A p \in Producers :
        /\ pc[p] \in {"access", "incr"} => ~queue_full
        /\ pc[p] = "incr" => array[next_in] = <<p, i[p]>>
    /\ \A c \in Consumers :
        /\ pc[c] \in {"access", "incr"} => ~queue_empty
        /\ pc[c] = "incr" => item[c] = array[next_out]

\* The children main has joined have finished.
JoinInv == \A k \in 1..joined : pc[Children[k]] = "done"

AccessInv == LoopInv /\ SlotInv /\ JoinInv

\* Where a thread ends up that enters or leaves a call.
LEMMA LoopHeadIs ==
    ASSUME NEW t \in Threads, NEW n \in Nat, n <= Loops[t]
    PROVE  \/ LoopHead(t, n) = "call" /\ n < Loops[t]
           \/ LoopHead(t, n) = "done" /\ n = Loops[t]
<1>1. Loops[t] \in Nat
  BY QueueAssumption
<1> QED  BY <1>1 DEF LoopHead

\* pc after a move, label by label.
LEMMA MovedTo ==
    ASSUME TypeOK, NEW t \in Threads, NEW l, Goto(t, l)
    PROVE  \A s \in Threads : pc'[s] = IF s = t THEN l ELSE pc[s]
BY DEF TypeOK, Goto

\* Who moves an index is alone between lock and unlock.
LEMMA Alone ==
    ASSUME LockInv, NEW t \in Threads, Holding(t)
    PROVE  \A s \in Threads \ {t} : pc[s] \notin {"check", "access", "incr", "unlock"}
BY DEF LockInv, Holding

\* Steps inside a call do not touch the loops.
LEMMA MoveKeepsLoopInv ==
    ASSUME TypeOK, LoopInv, NEW t \in Threads, NEW l, Goto(t, l), l \notin {"new", "done"},
           pc[t] \notin {"new", "done"}, i' = i, consumed' = consumed
    PROVE  LoopInv'
BY MovedTo DEF LoopInv

\* A call returns: the loop counts and tests.
LEMMA IterationKeepsLoopInv ==
    ASSUME TypeOK, LoopInv, NEW t \in Threads, NextIteration(t), pc[t] \notin {"new", "done"},
           \/ t \in Producers /\ consumed' = consumed
           \/ t \in Consumers /\ consumed' = [consumed EXCEPT ![t] = Append(@, item[t])]
    PROVE  LoopInv'
<1>1. i[t] \in Nat /\ Loops[t] \in Nat /\ i[t] < Loops[t]
  BY QueueAssumption DEF TypeOK, RingTypeOK, LoopInv
<1>2. \A s \in Threads : i'[s] = IF s = t THEN i[t] + 1 ELSE i[s]
  BY DEF NextIteration, TypeOK, RingTypeOK
<1> DEFINE l == LoopHead(t, i[t] + 1)
<1>3. \/ l = "call" /\ i[t] + 1 < Loops[t]
      \/ l = "done" /\ i[t] + 1 = Loops[t]
  BY <1>1, LoopHeadIs
<1>4. \A s \in Threads : pc'[s] = IF s = t THEN l ELSE pc[s]
  BY MovedTo DEF NextIteration
<1> HIDE DEF l
<1>5. ASSUME NEW c \in Consumers
      PROVE  Len(consumed'[c]) = i'[c]
  <2>1. c \in Threads /\ c \notin Producers
    BY QueueAssumption DEF Threads
  <2>2. CASE c # t
    BY <1>2, <2>1, <2>2 DEF LoopInv, TypeOK, RingTypeOK
  <2>3. CASE c = t
    <3> DEFINE S == Item \cup {NoItem}
    <3>1. consumed[c] \in Seq(S) /\ item[c] \in S /\ consumed'[c] = Append(consumed[c], item[c])
      BY <2>1, <2>3 DEF TypeOK, RingTypeOK
    <3> HIDE DEF S
    <3>2. Len(consumed'[c]) = Len(consumed[c]) + 1
      BY <3>1
    <3> QED  BY <1>2, <2>1, <2>3, <3>2 DEF LoopInv
  <2> QED  BY <2>2, <2>3
<1>6. \A s \in Threads : pc'[s] = "new" => i'[s] = 0
  BY <1>2, <1>3, <1>4 DEF LoopInv
<1>7. \A s \in Threads : pc'[s] \notin {"new", "done"} => i'[s] < Loops[s]
  BY <1>2, <1>3, <1>4 DEF LoopInv
<1>8. \A s \in Threads : pc'[s] = "done" => i'[s] = Loops[s]
  BY <1>2, <1>3, <1>4 DEF LoopInv
<1> QED  BY <1>5, <1>6, <1>7, <1>8 DEF LoopInv

\* A thread that goes elsewhere than to the slot, or goes there after its
\* test, leaves the others' facts.
LEMMA MoveKeepsSlotInv ==
    ASSUME TypeOK, SlotInv, NEW t \in Threads, NEW l, Goto(t, l), l # "incr",
           l = "access" => (t \in Producers /\ ~queue_full) \/ (t \in Consumers /\ ~queue_empty),
           UNCHANGED ringvars, item' = item, \A s \in Threads \ {t} : i'[s] = i[s]
    PROVE  SlotInv'
<1>1. /\ \A s \in Threads : pc'[s] = IF s = t THEN l ELSE pc[s]
      /\ queue_full' <=> queue_full
      /\ queue_empty' <=> queue_empty
  BY MovedTo, SameContents
<1>2. \A p \in Producers : p \in Threads /\ p \notin Consumers
  BY QueueAssumption DEF Threads
<1>3. \A c \in Consumers : c \in Threads
  BY DEF Threads
<1>4. ASSUME NEW p \in Producers
      PROVE  /\ pc'[p] \in {"access", "incr"} => ~queue_full'
             /\ pc'[p] = "incr" => array'[next_in'] = <<p, i'[p]>>
  BY <1>1, <1>2 DEF SlotInv, ringvars
<1>5. ASSUME NEW c \in Consumers
      PROVE  /\ pc'[c] \in {"access", "incr"} => ~queue_empty'
             /\ pc'[c] = "incr" => item'[c] = array'[next_out']
  BY <1>1, <1>2, <1>3 DEF SlotInv, ringvars
<1> QED  BY <1>4, <1>5 DEF SlotInv

\* After an index has moved nobody is at a slot.
LEMMA IndexKeepsSlotInv ==
    ASSUME TypeOK, LockInv, NEW t \in Threads, Holding(t), Goto(t, "unlock")
    PROVE  SlotInv'
<1>1. \A s \in Threads : pc'[s] \notin {"access", "incr"}
  BY MovedTo, Alone
<1> QED  BY <1>1 DEF SlotInv, Threads

LEMMA MoveKeepsJoinInv ==
    ASSUME TypeOK, JoinInv, NEW t \in Threads, NEW l, Goto(t, l), pc[t] # "done",
           joined' = joined
    PROVE  JoinInv'
<1>1. \A k \in 1..joined : Children[k] \in Threads
  <2>1. joined \in 0..Len(Children) /\ Len(Children) \in Nat
    BY ChildrenThreads DEF TypeOK, RingTypeOK
  <2> QED  BY <2>1, ChildrenThreads
<1> QED  BY <1>1, MovedTo DEF JoinInv

LEMMA PushAccess ==
    ASSUME Inv, AccessInv, NEW p \in Producers, Push(p)
    PROVE  AccessInv'
<1> USE DEF Inv, AccessInv
<1>p. p \in Threads
  BY DEF Threads
<1>1. CASE PushLock(p)
  <2>1. pc[p] = "call" /\ Goto(p, "check")
    BY <1>1 DEF PushLock
  <2>2. LoopInv' /\ JoinInv'
    BY <1>1, <1>p, <2>1, MoveKeepsLoopInv, MoveKeepsJoinInv DEF PushLock, localvars, mainvars
  <2>3. SlotInv'
    BY <1>1, <1>p, <2>1, MoveKeepsSlotInv DEF PushLock, localvars
  <2> QED  BY <2>2, <2>3
<1>2. CASE PushFull(p)
  <2>1. pc[p] = "check" /\ Goto(p, "exit")
    BY <1>2 DEF PushFull
  <2>2. LoopInv' /\ JoinInv'
    BY <1>2, <1>p, <2>1, MoveKeepsLoopInv, MoveKeepsJoinInv DEF PushFull, localvars, mainvars
  <2>3. SlotInv'
    BY <1>2, <1>p, <2>1, MoveKeepsSlotInv DEF PushFull, localvars
  <2> QED  BY <2>2, <2>3
<1>3. CASE PushRoom(p)
  <2>1. pc[p] = "check" /\ Goto(p, "access") /\ ~queue_full
    BY <1>3 DEF PushRoom
  <2>2. LoopInv' /\ JoinInv'
    BY <1>3, <1>p, <2>1, MoveKeepsLoopInv, MoveKeepsJoinInv DEF PushRoom, localvars, mainvars
  <2>3. SlotInv'
    BY <1>3, <1>p, <2>1, MoveKeepsSlotInv DEF PushRoom, localvars
  <2> QED  BY <2>2, <2>3
<1>4. CASE PushStore(p)
  <2>1. pc[p] = "access" /\ Goto(p, "incr") /\ Holding(p) /\ ~queue_full
    BY <1>4 DEF PushStore, StoreItem, Holding, SlotInv
  <2>2. LoopInv' /\ JoinInv'
    BY <1>4, <1>p, <2>1, MoveKeepsLoopInv, MoveKeepsJoinInv
    DEF PushStore, StoreItem, localvars, mainvars
  <2>3. /\ array'[next_in'] = <<p, i'[p]>>
        /\ ~queue_full'
    BY <1>4, <2>1 DEF PushStore, StoreItem, TypeOK, RingTypeOK, localvars, queue_full, queue_incr
  <2>4. \A s \in Threads \ {p} : pc'[s] \notin {"access", "incr"}
    BY <1>p, <2>1, MovedTo, Alone
  <2>5. SlotInv'
    BY <2>3, <2>4, QueueAssumption DEF SlotInv, Threads
  <2> QED  BY <2>2, <2>5
<1>5. CASE PushIncr(p)
  <2>1. pc[p] = "incr" /\ Goto(p, "unlock") /\ Holding(p)
    BY <1>5 DEF PushIncr, Holding
  <2>2. LoopInv' /\ JoinInv'
    BY <1>5, <1>p, <2>1, MoveKeepsLoopInv, MoveKeepsJoinInv DEF PushIncr, localvars, mainvars
  <2>3. SlotInv'
    BY <1>p, <2>1, IndexKeepsSlotInv
  <2> QED  BY <2>2, <2>3
<1>6. CASE PushUnlock(p)
  <2>1. pc[p] = "unlock" /\ Goto(p, "signal")
    BY <1>6 DEF PushUnlock
  <2>2. LoopInv' /\ JoinInv'
    BY <1>6, <1>p, <2>1, MoveKeepsLoopInv, MoveKeepsJoinInv DEF PushUnlock, localvars, mainvars
  <2>3. SlotInv'
    BY <1>6, <1>p, <2>1, MoveKeepsSlotInv DEF PushUnlock, localvars
  <2> QED  BY <2>2, <2>3
<1>7. CASE PushSignal(p)
  <2> DEFINE l == LoopHead(p, i[p] + 1)
  <2>1. pc[p] = "signal" /\ Goto(p, l) /\ l \in {"call", "done"} /\ NextIteration(p)
    BY <1>7, LoopHeadLabel DEF PushSignal, NextIteration
  <2> HIDE DEF l
  <2>2. LoopInv' /\ JoinInv'
    BY <1>7, <1>p, <2>1, IterationKeepsLoopInv, MoveKeepsJoinInv DEF PushSignal, mainvars
  <2>3. \A s \in Threads \ {p} : i'[s] = i[s]
    BY <2>1 DEF NextIteration, TypeOK, RingTypeOK
  <2>4. SlotInv'
    BY <1>7, <1>p, <2>1, <2>3, MoveKeepsSlotInv DEF PushSignal
  <2> QED  BY <2>2, <2>4
<1> QED  BY <1>1, <1>2, <1>3, <1>4, <1>5, <1>6, <1>7 DEF Push

LEMMA PopAccess ==
    ASSUME Inv, AccessInv, NEW c \in Consumers, Pop(c) \/ PopSpurious(c)
    PROVE  AccessInv'
<1> USE DEF Inv, AccessInv
<1>c. c \in Threads
  BY DEF Threads
<1>1. CASE PopLock(c)
  <2>1. pc[c] = "call" /\ Goto(c, "check")
    BY <1>1 DEF PopLock
  <2>2. LoopInv' /\ JoinInv'
    BY <1>1, <1>c, <2>1, MoveKeepsLoopInv, MoveKeepsJoinInv DEF PopLock, localvars, mainvars
  <2>3. SlotInv'
    BY <1>1, <1>c, <2>1, MoveKeepsSlotInv DEF PopLock, localvars
  <2> QED  BY <2>2, <2>3
<1>2. CASE PopWait(c)
  <2>1. pc[c] = "check" /\ Goto(c, "wait")
    BY <1>2 DEF PopWait
  <2>2. LoopInv' /\ JoinInv'
    BY <1>2, <1>c, <2>1, MoveKeepsLoopInv, MoveKeepsJoinInv DEF PopWait, localvars, mainvars
  <2>3. SlotInv'
    BY <1>2, <1>c, <2>1, MoveKeepsSlotInv DEF PopWait, localvars
  <2> QED  BY <2>2, <2>3
<1>3. CASE PopRelock(c)
  <2>1. pc[c] = "wait" /\ Goto(c, "check")
    BY <1>3 DEF PopRelock
  <2>2. LoopInv' /\ JoinInv'
    BY <1>3, <1>c, <2>1, MoveKeepsLoopInv, MoveKeepsJoinInv DEF PopRelock, localvars, mainvars
  <2>3. SlotInv'
    BY <1>3, <1>c, <2>1, MoveKeepsSlotInv DEF PopRelock, localvars
  <2> QED  BY <2>2, <2>3
<1>4. CASE PopSome(c)
  <2>1. pc[c] = "check" /\ Goto(c, "access") /\ ~queue_empty
    BY <1>4 DEF PopSome
  <2>2. LoopInv' /\ JoinInv'
    BY <1>4, <1>c, <2>1, MoveKeepsLoopInv, MoveKeepsJoinInv DEF PopSome, localvars, mainvars
  <2>3. SlotInv'
    BY <1>4, <1>c, <2>1, MoveKeepsSlotInv DEF PopSome, localvars
  <2> QED  BY <2>2, <2>3
<1>5. CASE PopLoad(c)
  <2>1. pc[c] = "access" /\ Goto(c, "incr") /\ Holding(c) /\ ~queue_empty
    BY <1>5 DEF PopLoad, LoadItem, Holding, SlotInv
  <2>2. LoopInv' /\ JoinInv'
    BY <1>5, <1>c, <2>1, MoveKeepsLoopInv, MoveKeepsJoinInv DEF PopLoad, LoadItem, mainvars
  <2>3. /\ item'[c] = array'[next_out']
        /\ ~queue_empty'
    BY <1>5, <2>1 DEF PopLoad, LoadItem, TypeOK, RingTypeOK, ringvars, queue_empty
  <2>4. \A s \in Threads \ {c} : pc'[s] \notin {"access", "incr"}
    BY <1>c, <2>1, MovedTo, Alone
  <2>5. SlotInv'
    BY <2>3, <2>4, QueueAssumption DEF SlotInv, Threads
  <2> QED  BY <2>2, <2>5
<1>6. CASE PopIncr(c)
  <2>1. pc[c] = "incr" /\ Goto(c, "unlock") /\ Holding(c)
    BY <1>6 DEF PopIncr, Holding
  <2>2. LoopInv' /\ JoinInv'
    BY <1>6, <1>c, <2>1, MoveKeepsLoopInv, MoveKeepsJoinInv DEF PopIncr, localvars, mainvars
  <2>3. SlotInv'
    BY <1>c, <2>1, IndexKeepsSlotInv
  <2> QED  BY <2>2, <2>3
<1>7. CASE PopUnlock(c)
  <2> DEFINE l == LoopHead(c, i[c] + 1)
  <2>1. pc[c] = "unlock" /\ Goto(c, l) /\ l \in {"call", "done"} /\ NextIteration(c)
    BY <1>7, LoopHeadLabel DEF PopUnlock, Consume, NextIteration
  <2> HIDE DEF l
  <2>2. LoopInv' /\ JoinInv'
    BY <1>7, <1>c, <2>1, IterationKeepsLoopInv, MoveKeepsJoinInv
    DEF PopUnlock, Consume, mainvars
  <2>3. \A s \in Threads \ {c} : i'[s] = i[s]
    BY <2>1 DEF NextIteration, TypeOK, RingTypeOK
  <2>4. SlotInv'
    BY <1>7, <1>c, <2>1, <2>3, MoveKeepsSlotInv DEF PopUnlock
  <2> QED  BY <2>2, <2>4
<1>8. CASE PopSpurious(c)
  BY <1>8, SameContents
  DEF PopSpurious, LoopInv, SlotInv, JoinInv, ringvars, localvars, mainvars
<1> QED  BY <1>1, <1>2, <1>3, <1>4, <1>5, <1>6, <1>7, <1>8 DEF Pop

LEMMA MainAccess ==
    ASSUME Inv, AccessInv, Main \/ \E p \in Producers : PerrorExit(p)
    PROVE  AccessInv'
<1> USE DEF Inv, AccessInv
<1>m. Len(Children) \in Nat /\ made \in 0..Len(Children) /\ joined \in 0..Len(Children)
  BY ChildrenThreads DEF TypeOK, RingTypeOK
<1>1. CASE MakeThread
  <2> DEFINE t == Children[made + 1]
             l == LoopHead(t, 0)
  <2>1. made + 1 \in 1..Len(Children)
    BY <1>1, <1>m DEF MakeThread
  <2>2. t \in Threads /\ pc[t] = "new" /\ i[t] = 0
    BY <1>m, <2>1, ChildrenThreads DEF FrameInv, LoopInv
  <2>3. /\ Goto(t, l) /\ l \in {"call", "done"}
        /\ (l = "call" /\ 0 < Loops[t]) \/ (l = "done" /\ 0 = Loops[t])
    <3>1. Loops[t] \in Nat
      BY <2>2, QueueAssumption
    <3> QED  BY <1>1, <3>1 DEF MakeThread, LoopHead
  <2> HIDE DEF t, l
  <2>4. LoopInv'
    BY <1>1, <2>2, <2>3, MovedTo DEF MakeThread, LoopInv, localvars
  <2>5. SlotInv' /\ JoinInv'
    BY <1>1, <2>2, <2>3, MoveKeepsSlotInv, MoveKeepsJoinInv DEF MakeThread, localvars
  <2> QED  BY <2>4, <2>5
<1>2. CASE JoinThread
  <2>1. LoopInv' /\ SlotInv'
    BY <1>2, SameContents DEF JoinThread, LoopInv, SlotInv, ringvars, localvars
  <2>2. JoinInv'
    BY <1>2, <1>m DEF JoinThread, JoinInv
  <2> QED  BY <2>1, <2>2
<1>3. CASE MakeThreadFails \/ \E p \in Producers : PerrorExit(p)
  <2>1. UNCHANGED <<ringvars, pc, localvars, joined>>
    BY <1>3 DEF MakeThreadFails, PerrorExit
  <2> QED  BY <2>1, SameContents DEF LoopInv, SlotInv, JoinInv, ringvars, localvars
<1> QED  BY <1>1, <1>2, <1>3 DEF Main

\* The facts about loops and slots hold in every reachable state.
THEOREM AccessInvariance == Spec => []AccessInv
<1>1. Init => AccessInv
  BY ChildrenThreads, QueueAssumption
  DEF Init, RingInit, AccessInv, LoopInv, SlotInv, JoinInv, Threads
<1>2. Inv /\ AccessInv /\ [Next]_vars => AccessInv'
  <2> SUFFICES ASSUME Inv, AccessInv, [Next]_vars PROVE AccessInv'
    OBVIOUS
  <2>1. CASE Running /\ Step
    BY <2>1, PushAccess, PopAccess, MainAccess DEF Step
  <2>2. CASE UNCHANGED vars
    BY <2>2, SameContents
    DEF vars, ringvars, localvars, mainvars, AccessInv, LoopInv, SlotInv, JoinInv
  <2> QED  BY <2>1, <2>2 DEF Next, Ended
<1> QED  BY <1>1, <1>2, Invariance, PTL DEF Spec

-----------------------------------------------------------------------------
(***************************************************************************)
(* The wakeups.  NoLostWakeup is inductive: a push makes one more item and *)
(* one more signal to come, a signal to a sleeper makes one consumer more  *)
(* that is awake, a pop takes one item and one consumer, and a consumer    *)
(* falls asleep only while there are no items.                             *)
(***************************************************************************)

\* Every thread is a child of main, so there are finitely many.
LEMMA ThreadsFinite == IsFiniteSet(Threads)
<1> DEFINE n == Len(Children)
           f == [k \in 1..n |-> Children[k]]
<1>1. n \in Nat /\ \A k \in 1..n : Children[k] \in Threads
  BY ChildrenThreads
<1>2. f \in Surjection(1..n, Threads)
  BY <1>1, ChildrenAssumption DEF Surjection
<1>3. IsFiniteSet(1..n)
  BY <1>1, FS_Interval
<1> HIDE DEF n, f
<1> QED  BY <1>2, <1>3, FS_Surjection

LEMMA WakersFinite ==
    /\ IsFiniteSet(Signalling) /\ IsFiniteSet(AwakeInPop)
    /\ Cardinality(Signalling) \in Nat /\ Cardinality(AwakeInPop) \in Nat
<1>1. Signalling \in SUBSET Threads /\ AwakeInPop \in SUBSET Threads
  BY DEF Signalling, AwakeInPop, Threads
<1>2. IsFiniteSet(Signalling) /\ IsFiniteSet(AwakeInPop)
  BY <1>1, ThreadsFinite, FS_Subset
<1> QED  BY <1>2, FS_CardinalityType

LEMMA WakersFiniteNext ==
    /\ IsFiniteSet(Signalling') /\ IsFiniteSet(AwakeInPop')
    /\ Cardinality(Signalling') \in Nat /\ Cardinality(AwakeInPop') \in Nat
<1>1. Signalling' \in SUBSET Threads /\ AwakeInPop' \in SUBSET Threads
  BY DEF Signalling, AwakeInPop, Threads
<1>2. IsFiniteSet(Signalling') /\ IsFiniteSet(AwakeInPop')
  BY <1>1, ThreadsFinite, FS_Subset
<1> QED  BY <1>2, FS_CardinalityType

\* A step that makes no item, takes nobody from those awake and leaves the
\* signals to come keeps the count right.
LEMMA MoreAwake ==
    ASSUME NoLostWakeup, RingTypeOK, Count' = Count, waiters' \subseteq waiters,
           Signalling \subseteq Signalling', AwakeInPop \subseteq AwakeInPop'
    PROVE  NoLostWakeup'
<1>1. /\ Cardinality(Signalling) <= Cardinality(Signalling')
      /\ Cardinality(AwakeInPop) <= Cardinality(AwakeInPop')
  BY WakersFiniteNext, FS_Subset
<1>2. Count \in Int
  BY CountRange, QueueAssumption
<1> QED  BY <1>1, <1>2, WakersFinite, WakersFiniteNext DEF NoLostWakeup

LEMMA PushWakes ==
    ASSUME Inv, AccessInv, NoLostWakeup, NEW p \in Producers, Push(p)
    PROVE  NoLostWakeup'
<1> USE DEF Inv
<1>p. p \in Threads /\ p \notin Consumers /\ \A c \in Consumers : c \in Threads
  BY QueueAssumption DEF Threads
<1>t. RingTypeOK /\ Count \in Int
  BY CountRange, QueueAssumption DEF TypeOK
<1>1. CASE PushLock(p) \/ PushFull(p) \/ PushRoom(p) \/ PushStore(p) \/ PushUnlock(p)
  <2>1. PICK l : Goto(p, l) /\ (pc[p] = "unlock" => l = "signal") /\ pc[p] # "signal"
    BY <1>1 DEF PushLock, PushFull, PushRoom, PushStore, StoreItem, PushUnlock
  <2>2. waiters' = waiters
    BY <1>1 DEF PushLock, PushFull, PushRoom, PushStore, PushUnlock, lockvars
  <2>3. \A s \in Threads : pc'[s] = IF s = p THEN l ELSE pc[s]
    BY <1>p, <2>1, MovedTo
  <2>4. Count' = Count
    BY <1>1 DEF PushLock, PushFull, PushRoom, PushStore, StoreItem, PushUnlock, Count, ringvars
  <2>5. Signalling \subseteq Signalling' /\ AwakeInPop \subseteq AwakeInPop'
    BY <1>p, <2>1, <2>2, <2>3 DEF Signalling, AwakeInPop, Threads
  <2> QED  BY <1>t, <2>2, <2>4, <2>5, MoreAwake
<1>2. CASE PushIncr(p)
  <2>1. pc[p] = "incr" /\ Goto(p, "unlock") /\ waiters' = waiters
    BY <1>2 DEF PushIncr, lockvars
  <2>2. \A s \in Threads : pc'[s] = IF s = p THEN "unlock" ELSE pc[s]
    BY <1>p, <2>1, MovedTo
  <2>3. Count' = Count + 1
    BY <1>2, <1>t, <2>1, AdvanceInAppends DEF PushIncr, AccessInv, SlotInv
  <2>4. Signalling' = Signalling \cup {p} /\ p \notin Signalling /\ AwakeInPop' = AwakeInPop
    BY <1>p, <2>1, <2>2 DEF Signalling, AwakeInPop, Threads
  <2>5. Cardinality(Signalling') = Cardinality(Signalling) + 1
    BY <2>4, WakersFinite, FS_AddElement
  <2> QED  BY <1>t, <2>1, <2>3, <2>4, <2>5, WakersFinite DEF NoLostWakeup
<1>3. CASE PushSignal(p)
  <2>1. PICK l : Goto(p, l) /\ l \in {"call", "done"} /\ pc[p] = "signal"
    BY <1>3, LoopHeadLabel DEF PushSignal, NextIteration
  <2>2. \A s \in Threads : pc'[s] = IF s = p THEN l ELSE pc[s]
    BY <1>p, <2>1, MovedTo
  <2>3. Count' = Count
    BY <1>3 DEF PushSignal, Count, ringvars
  <2>4. CASE waiters = {}
    BY <1>3, <2>4 DEF PushSignal, cond_signal, NoLostWakeup
  <2>5. CASE waiters # {}
    <3>1. PICK c \in waiters : waiters' = waiters \ {c}
      BY <1>3, <2>5 DEF PushSignal, cond_signal
    <3>2. c \in Consumers /\ pc[c] = "wait"
      BY DEF TypeOK
    <3>3. Signalling' = Signalling \ {p} /\ p \in Signalling
      BY <1>p, <2>1, <2>2 DEF Signalling, Threads
    <3>4. AwakeInPop' = AwakeInPop \cup {c} /\ c \notin AwakeInPop
      BY <1>p, <2>2, <3>1, <3>2 DEF AwakeInPop
    <3>5. /\ Cardinality(Signalling') = Cardinality(Signalling) - 1
          /\ Cardinality(AwakeInPop') = Cardinality(AwakeInPop) + 1
      BY <3>3, <3>4, WakersFinite, FS_AddElement, FS_RemoveElement
    <3> QED  BY <1>t, <2>3, <2>5, <3>5, WakersFinite DEF NoLostWakeup
  <2> QED  BY <2>4, <2>5
<1> QED  BY <1>1, <1>2, <1>3 DEF Push

LEMMA PopWakes ==
    ASSUME Inv, AccessInv, NoLostWakeup, NEW c \in Consumers, Pop(c) \/ PopSpurious(c)
    PROVE  NoLostWakeup'
<1> USE DEF Inv
<1>c. c \in Threads /\ c \notin Producers /\ \A s \in Consumers \cup Producers : s \in Threads
  BY QueueAssumption DEF Threads
<1>t. RingTypeOK /\ Count \in Int
  BY CountRange, QueueAssumption DEF TypeOK
<1>1. CASE PopLock(c) \/ PopRelock(c) \/ PopSome(c) \/ PopLoad(c) \/ PopUnlock(c)
  <2>1. PICK l : Goto(c, l) /\ (pc[c] = "unlock" \/ l \in {"check", "access", "incr"})
    BY <1>1 DEF PopLock, PopRelock, PopSome, PopLoad, LoadItem, PopUnlock, Consume, NextIteration
  <2>2. waiters' = waiters
    BY <1>1 DEF PopLock, PopRelock, PopSome, PopLoad, PopUnlock, lockvars
  <2>3. \A s \in Threads : pc'[s] = IF s = c THEN l ELSE pc[s]
    BY <1>c, <2>1, MovedTo
  <2>4. Count' = Count
    BY <1>1 DEF PopLock, PopRelock, PopSome, PopLoad, LoadItem, PopUnlock, Count, ringvars
  <2>5. Signalling \subseteq Signalling' /\ AwakeInPop \subseteq AwakeInPop'
    BY <1>c, <2>1, <2>2, <2>3 DEF Signalling, AwakeInPop
  <2> QED  BY <1>t, <2>2, <2>4, <2>5, MoreAwake
<1>2. CASE PopWait(c)
  <2>1. Count' = 0
    BY <1>2, <1>t, CountRange DEF PopWait, Count, ringvars
  <2> QED  BY <2>1, WakersFiniteNext DEF NoLostWakeup
<1>3. CASE PopIncr(c)
  <2>1. pc[c] = "incr" /\ Goto(c, "unlock") /\ waiters' = waiters /\ c \notin waiters
    BY <1>3 DEF PopIncr, lockvars, TypeOK
  <2>2. \A s \in Threads : pc'[s] = IF s = c THEN "unlock" ELSE pc[s]
    BY <1>c, <2>1, MovedTo
  <2>3. Count' = Count - 1
    BY <1>3, <1>t, <2>1, AdvanceOutTakes DEF PopIncr, AccessInv, SlotInv
  <2>4. Signalling' = Signalling /\ AwakeInPop' = AwakeInPop \ {c} /\ c \in AwakeInPop
    BY <1>c, <2>1, <2>2 DEF Signalling, AwakeInPop
  <2>5. Cardinality(AwakeInPop') = Cardinality(AwakeInPop) - 1
    BY <2>4, WakersFinite, FS_RemoveElement
  <2> QED  BY <1>t, <2>1, <2>3, <2>4, <2>5, WakersFinite DEF NoLostWakeup
<1>4. CASE PopSpurious(c)
  <2>1. waiters' \subseteq waiters /\ pc' = pc /\ Count' = Count
    BY <1>4 DEF PopSpurious, Count, ringvars
  <2>2. Signalling \subseteq Signalling' /\ AwakeInPop \subseteq AwakeInPop'
    BY <2>1 DEF Signalling, AwakeInPop
  <2> QED  BY <1>t, <2>1, <2>2, MoreAwake
<1> QED  BY <1>1, <1>2, <1>3, <1>4 DEF Pop

LEMMA MainWakes ==
    ASSUME Inv, NoLostWakeup, UNCHANGED lockvars,
           Main \/ \E p \in Producers : PerrorExit(p)
    PROVE  NoLostWakeup'
<1> USE DEF Inv
<1>t. RingTypeOK
  BY DEF TypeOK
<1>1. waiters' = waiters /\ Count' = Count
  BY DEF lockvars, Main, MakeThread, MakeThreadFails, JoinThread, PerrorExit, Count, ringvars
<1>2. \A s \in Threads : pc'[s] = pc[s] \/ pc[s] = "new"
  <2>1. CASE MakeThread
    <3> DEFINE t == Children[made + 1]
    <3>1. Len(Children) \in Nat /\ made \in 0..Len(Children) /\ made < Len(Children)
      BY <2>1, ChildrenThreads DEF TypeOK, RingTypeOK, MakeThread
    <3>2. made + 1 \in 1..Len(Children) /\ made + 1 > made
      BY <3>1
    <3>3. t \in Threads /\ pc[t] = "new"
      BY <3>2, ChildrenThreads DEF FrameInv
    <3>4. Goto(t, LoopHead(t, 0))
      BY <2>1 DEF MakeThread
    <3> HIDE DEF t
    <3> QED  BY <3>3, <3>4, MovedTo
  <2>2. CASE ~MakeThread
    BY <2>2 DEF Main, MakeThreadFails, JoinThread, PerrorExit
  <2> QED  BY <2>1, <2>2
<1>3. Signalling \subseteq Signalling' /\ AwakeInPop \subseteq AwakeInPop'
  BY <1>1, <1>2 DEF Signalling, AwakeInPop, Threads
<1> QED  BY <1>t, <1>1, <1>3, MoreAwake

\* While a consumer of queue_cond.c sleeps there are at least as many signals
\* to come and consumers awake as there are items: no wakeup is lost.
THEOREM WakeupsCorrect == Spec => []NoLostWakeup
<1>1. Init => NoLostWakeup
  BY DEF Init, NoLostWakeup
<1>2. Inv /\ AccessInv /\ NoLostWakeup /\ [Next]_vars => NoLostWakeup'
  <2> SUFFICES ASSUME Inv, AccessInv, NoLostWakeup, [Next]_vars PROVE NoLostWakeup'
    OBVIOUS
  <2>1. CASE Running /\ Step
    BY <2>1, PushWakes, PopWakes, MainWakes DEF Step
  <2>2. CASE UNCHANGED vars
    BY <2>2 DEF vars, ringvars, lockvars, NoLostWakeup, Count, Signalling, AwakeInPop
  <2> QED  BY <2>1, <2>2 DEF Next, Ended
<1> QED  BY <1>1, <1>2, Invariance, AccessInvariance, PTL DEF Spec

-----------------------------------------------------------------------------
(***************************************************************************)
(* The refinement of Fifo.  A push takes effect when it moves next_in, a   *)
(* pop when it moves next_out; everything else inside a call stutters.     *)
(***************************************************************************)

\* The mapping reads pc at these labels only.
LEMMA MoveStutters ==
    ASSUME TypeOK, NEW t \in Threads, NEW l, Goto(t, l), pc[t] # "exit", l # "exit",
           t \in Producers => (pc[t] \in {"unlock", "signal"} <=> l \in {"unlock", "signal"}),
           t \in Consumers => pc[t] # "unlock" /\ l # "unlock",
           Contents' = Contents, exit' = exit, i' = i, consumed' = consumed,
           \A c \in Consumers : pc[c] = "unlock" => item'[c] = item[c]
    PROVE  UNCHANGED Abstract!vars
<1>1. \A s \in Threads : pc'[s] = IF s = t THEN l ELSE pc[s]
  BY MovedTo
<1>2. Sent' = Sent
  BY <1>1, QueueAssumption DEF Sent, Threads
<1>3. Received' = Received
  BY <1>1, QueueAssumption DEF Received, Threads
<1>4. Failing' = Failing
  BY <1>1 DEF Failing
<1> QED  BY <1>2, <1>3, <1>4 DEF Abstract!vars

LEMMA PushRefines ==
    ASSUME Inv, AccessInv, exit = "no", NEW p \in Producers, Push(p)
    PROVE  Abstract!Next \/ UNCHANGED Abstract!vars
<1> USE DEF Inv
<1>p. p \in Threads /\ p \notin Consumers
  BY QueueAssumption DEF Threads
<1>t. RingTypeOK /\ i[p] \in Nat
  BY <1>p DEF TypeOK, RingTypeOK
<1>l. pc[p] \notin {"new", "done"} => i[p] < Loops[p]
  BY <1>p DEF AccessInv, LoopInv
<1>1. CASE PushLock(p) \/ PushRoom(p) \/ PushUnlock(p)
  <2>1. PICK l : /\ Goto(p, l) /\ pc[p] # "exit" /\ l # "exit"
                 /\ pc[p] \in {"unlock", "signal"} <=> l \in {"unlock", "signal"}
    BY <1>1 DEF PushLock, PushRoom, PushUnlock
  <2>2. UNCHANGED <<ringvars, localvars, exit>>
    BY <1>1 DEF PushLock, PushRoom, PushUnlock, mainvars
  <2>3. UNCHANGED Abstract!vars
    BY <1>p, <2>1, <2>2, SameContents, MoveStutters DEF localvars
  <2> QED  BY <2>3
<1>2. CASE PushFull(p)
  <2>1. pc[p] = "check" /\ Goto(p, "exit") /\ queue_full
    BY <1>2 DEF PushFull
  <2>2. UNCHANGED <<ringvars, localvars, exit>>
    BY <1>2 DEF PushFull, mainvars
  <2>3. \A s \in Threads : pc'[s] = IF s = p THEN "exit" ELSE pc[s]
    BY <1>p, <2>1, MovedTo
  <2>4. Len(Contents) = Length
    BY <1>t, <2>1, ContentsType, CountRange
  <2>5. Sent[p] = i[p] /\ Sent' = Sent
    BY <1>p, <2>1, <2>2, <2>3 DEF Sent, localvars, Threads
  <2>6. Received' = Received
    BY <1>p, <2>2, <2>3 DEF Received, localvars, Threads
  <2>7. Failing' = Failing \cup {p}
    BY <1>p, <2>3 DEF Failing
  <2>8. Abstract!Overflow(p)
    BY <1>l, <2>1, <2>2, <2>4, <2>5, <2>6, <2>7, SameContents DEF Abstract!Overflow
  <2> QED  BY <2>8 DEF Abstract!Next
<1>3. CASE PushStore(p)
  <2>1. pc[p] = "access" /\ Goto(p, "incr")
    BY <1>3 DEF PushStore, StoreItem
  <2>2. UNCHANGED <<localvars, exit>>
    BY <1>3 DEF PushStore, StoreItem, mainvars
  <2>3. Contents' = Contents
    BY <1>3, <1>t, StoreKeepsContents DEF PushStore, StoreItem
  <2>4. UNCHANGED Abstract!vars
    BY <1>p, <2>1, <2>2, <2>3, MoveStutters DEF localvars
  <2> QED  BY <2>4
<1>4. CASE PushIncr(p)
  <2>1. pc[p] = "incr" /\ Goto(p, "unlock")
    BY <1>4 DEF PushIncr
  <2>2. UNCHANGED <<localvars, exit>>
    BY <1>4 DEF PushIncr, mainvars
  <2>3. \A s \in Threads : pc'[s] = IF s = p THEN "unlock" ELSE pc[s]
    BY <1>p, <2>1, MovedTo
  <2>4. ~queue_full /\ array[next_in] = <<p, i[p]>>
    BY <2>1 DEF AccessInv, SlotInv
  <2>5. /\ Contents' = Append(Contents, <<p, i[p]>>)
        /\ Len(Contents) < Length
    BY <1>4, <1>t, <2>4, AdvanceInAppends, ContentsType DEF PushIncr
  <2>6. Sent[p] = i[p] /\ Sent' = [Sent EXCEPT ![p] = Sent[p] + 1]
    BY <1>p, <2>1, <2>2, <2>3 DEF Sent, localvars, Threads
  <2>7. Received' = Received
    BY <1>p, <2>2, <2>3 DEF Received, localvars, Threads
  <2>8. Failing' = Failing /\ p \notin Failing
    BY <1>p, <2>1, <2>3 DEF Failing
  <2>9. Abstract!Send(p)
    BY <1>l, <2>1, <2>2, <2>5, <2>6, <2>7, <2>8 DEF Abstract!Send
  <2> QED  BY <2>9 DEF Abstract!Next
<1>5. CASE PushSignal(p)
  <2>1. PICK l : Goto(p, l) /\ l \in {"call", "done"} /\ pc[p] = "signal"
    BY <1>5, LoopHeadLabel DEF PushSignal, NextIteration
  <2>2. UNCHANGED <<ringvars, item, consumed, exit>>
    BY <1>5 DEF PushSignal, mainvars
  <2>3. \A s \in Threads : pc'[s] = IF s = p THEN l ELSE pc[s]
    BY <1>p, <2>1, MovedTo
  <2>4. \A s \in Threads : i'[s] = IF s = p THEN i[p] + 1 ELSE i[s]
    BY <1>5, <1>p DEF PushSignal, NextIteration, TypeOK, RingTypeOK
  <2>5. Sent' = Sent
    BY <1>p, <2>1, <2>3, <2>4 DEF Sent, Threads
  <2>6. Received' = Received
    BY <1>p, <2>2, <2>3 DEF Received, Threads
  <2>7. Failing' = Failing
    BY <1>p, <2>1, <2>3 DEF Failing
  <2>8. UNCHANGED Abstract!vars
    BY <2>2, <2>5, <2>6, <2>7, SameContents DEF Abstract!vars
  <2> QED  BY <2>8
<1> QED  BY <1>1, <1>2, <1>3, <1>4, <1>5 DEF Push

LEMMA PopRefines ==
    ASSUME Inv, AccessInv, exit = "no", NEW c \in Consumers, Pop(c) \/ PopSpurious(c)
    PROVE  Abstract!Next \/ UNCHANGED Abstract!vars
<1> USE DEF Inv
<1>c. c \in Threads /\ c \notin Producers
  BY QueueAssumption DEF Threads
<1>t. RingTypeOK /\ i[c] \in Nat
  BY <1>c DEF TypeOK, RingTypeOK
<1>1. CASE PopLock(c) \/ PopWait(c) \/ PopRelock(c) \/ PopSome(c)
  <2>1. PICK l : /\ Goto(c, l) /\ pc[c] \notin {"exit", "unlock"} /\ l \notin {"exit", "unlock"}
    BY <1>1 DEF PopLock, PopWait, PopRelock, PopSome
  <2>2. UNCHANGED <<ringvars, localvars, exit>>
    BY <1>1 DEF PopLock, PopWait, PopRelock, PopSome, mainvars
  <2>3. UNCHANGED Abstract!vars
    BY <1>c, <2>1, <2>2, SameContents, MoveStutters DEF localvars
  <2> QED  BY <2>3
<1>2. CASE PopLoad(c)
  <2>1. pc[c] = "access" /\ Goto(c, "incr")
    BY <1>2 DEF PopLoad, LoadItem
  <2>2. UNCHANGED <<ringvars, i, consumed, exit>>
    BY <1>2 DEF PopLoad, LoadItem, mainvars
  <2>3. \A d \in Consumers : pc[d] = "unlock" => item'[d] = item[d]
    BY <1>2, <2>1 DEF PopLoad, LoadItem, TypeOK, RingTypeOK
  <2>4. UNCHANGED Abstract!vars
    BY <1>c, <2>1, <2>2, <2>3, SameContents, MoveStutters
  <2> QED  BY <2>4
<1>3. CASE PopIncr(c)
  <2>1. pc[c] = "incr" /\ Goto(c, "unlock")
    BY <1>3 DEF PopIncr
  <2>2. UNCHANGED <<localvars, exit>>
    BY <1>3 DEF PopIncr, mainvars
  <2>3. \A s \in Threads : pc'[s] = IF s = c THEN "unlock" ELSE pc[s]
    BY <1>c, <2>1, MovedTo
  <2>4. ~queue_empty /\ item[c] = array[next_out]
    BY <2>1 DEF AccessInv, SlotInv
  <2>5. Contents # <<>> /\ Contents' = Tail(Contents) /\ item[c] = Head(Contents)
    BY <1>3, <1>t, <2>4, AdvanceOutTakes DEF PopIncr
  <2>6. Sent' = Sent
    BY <1>c, <2>2, <2>3 DEF Sent, localvars, Threads
  <2>7. /\ Received[c] = consumed[c]
        /\ Received' = [Received EXCEPT ![c] = Append(consumed[c], item[c])]
    BY <1>c, <2>1, <2>2, <2>3 DEF Received, localvars, Threads
  <2>8. Failing' = Failing /\ c \notin Failing
    BY <1>c, <2>1, <2>3 DEF Failing
  <2>9. Len(Received[c]) < Loops[c]
    BY <1>c, <2>1, <2>7 DEF AccessInv, LoopInv
  <2>10. Abstract!Receive(c)
    BY <2>2, <2>5, <2>6, <2>7, <2>8, <2>9 DEF Abstract!Receive
  <2> QED  BY <2>10 DEF Abstract!Next
<1>4. CASE PopUnlock(c)
  <2>1. PICK l : Goto(c, l) /\ l \in {"call", "done"} /\ pc[c] = "unlock"
    BY <1>4, LoopHeadLabel DEF PopUnlock, Consume, NextIteration
  <2>2. UNCHANGED <<ringvars, item, exit>>
    BY <1>4 DEF PopUnlock, mainvars
  <2>3. \A s \in Threads : pc'[s] = IF s = c THEN l ELSE pc[s]
    BY <1>c, <2>1, MovedTo
  <2>4. \A s \in Threads : s # c => i'[s] = i[s]
    BY <1>4 DEF PopUnlock, Consume, NextIteration, TypeOK, RingTypeOK
  <2>5. \A d \in Consumers :
            consumed'[d] = IF d = c THEN Append(consumed[c], item[c]) ELSE consumed[d]
    BY <1>4 DEF PopUnlock, Consume, TypeOK, RingTypeOK
  <2>6. Sent' = Sent
    BY <1>c, <2>3, <2>4 DEF Sent, Threads
  <2>7. Received' = Received
    BY <2>1, <2>2, <2>3, <2>5 DEF Received, Threads
  <2>8. Failing' = Failing
    BY <1>c, <2>1, <2>3 DEF Failing
  <2>9. UNCHANGED Abstract!vars
    BY <2>2, <2>6, <2>7, <2>8, SameContents DEF Abstract!vars
  <2> QED  BY <2>9
<1>5. CASE PopSpurious(c)
  BY <1>5, SameContents
  DEF PopSpurious, ringvars, localvars, mainvars, Abstract!vars, Sent, Received, Failing
<1> QED  BY <1>1, <1>2, <1>3, <1>4, <1>5 DEF Pop

LEMMA MainRefines ==
    ASSUME Inv, AccessInv, exit = "no", Main \/ \E p \in Producers : PerrorExit(p)
    PROVE  Abstract!Next \/ UNCHANGED Abstract!vars
<1> USE DEF Inv
<1>1. CASE MakeThread
  <2> DEFINE t == Children[made + 1]
             l == LoopHead(t, 0)
  <2>1. made + 1 \in 1..Len(Children) /\ made + 1 > made
    BY <1>1, ChildrenThreads DEF MakeThread, TypeOK, RingTypeOK
  <2>2. t \in Threads /\ pc[t] = "new"
    BY <2>1, ChildrenThreads DEF FrameInv
  <2>3. Goto(t, l) /\ l \in {"call", "done"}
    BY <1>1, LoopHeadLabel DEF MakeThread
  <2>4. UNCHANGED <<ringvars, localvars, exit>>
    BY <1>1 DEF MakeThread
  <2> HIDE DEF t, l
  <2>5. UNCHANGED Abstract!vars
    BY <2>2, <2>3, <2>4, SameContents, MoveStutters DEF localvars
  <2> QED  BY <2>5
<1>2. CASE JoinThread
  BY <1>2, SameContents
  DEF JoinThread, ringvars, localvars, Abstract!vars, Sent, Received, Failing
<1>3. CASE MakeThreadFails \/ \E p \in Producers : PerrorExit(p)
  <2>1. UNCHANGED <<Contents, Sent, Received, Failing>>
    BY <1>3, SameContents
    DEF MakeThreadFails, PerrorExit, ringvars, localvars, Sent, Received, Failing
  <2>2. \/ exit' = "pthread_create failed"
        \/ Failing \cap Producers # {} /\ exit' = "queue is full"
    BY <1>3 DEF MakeThreadFails, PerrorExit, Failing, Threads
  <2> QED  BY <2>1, <2>2 DEF Abstract!Next, Abstract!Exit
<1> QED  BY <1>1, <1>2, <1>3 DEF Main

\* The waiting queue of queue_cond.c is a bounded FIFO queue whose consumers
\* wait, for every number of threads, items and slots.
THEOREM FifoImplemented == Spec => ImplementsFifo
<1>1. Init => Abstract!Init
  <2> SUFFICES ASSUME Init PROVE Abstract!Init
    OBVIOUS
  <2>1. Contents = <<>>
    <3>1. Count = 0
      BY DEF Init, RingInit, Count
    <3> QED  BY <3>1 DEF Contents
  <2> QED  BY <2>1, QueueAssumption
    DEF Init, RingInit, Abstract!Init, Sent, Received, Failing, Threads
<1>2. Inv /\ AccessInv /\ [Next]_vars => [Abstract!Next]_(Abstract!vars)
  <2> SUFFICES ASSUME Inv, AccessInv, [Next]_vars
               PROVE  Abstract!Next \/ UNCHANGED Abstract!vars
    OBVIOUS
  <2>1. CASE Running /\ Step
    BY <2>1, PushRefines, PopRefines, MainRefines DEF Step, Running
  <2>2. CASE UNCHANGED vars
    BY <2>2, SameContents
    DEF vars, ringvars, localvars, mainvars, Abstract!vars, Sent, Received, Failing
  <2> QED  BY <2>1, <2>2 DEF Next, Ended
<1> QED  BY <1>1, <1>2, Invariance, AccessInvariance, PTL
    DEF Spec, ImplementsFifo, Abstract!Spec

-----------------------------------------------------------------------------
(***************************************************************************)
(* What a program may conclude from its queue being a Fifo: nothing is     *)
(* lost, nothing is handed out twice, and no consumer sees two items of    *)
(* one producer in the wrong order.                                        *)
(***************************************************************************)
FifoTypeOK ==
    /\ Contents \in Seq(Item)
    /\ Sent \in [Producers -> Nat]
    /\ Received \in [Consumers -> Seq(Item)]

\* What is in the queue or was taken out has been put in.
OnlySent ==
    /\ \A k \in 1..Len(Contents) : Contents[k][2] < Sent[Contents[k][1]]
    /\ \A c \in Consumers : \A k \in 1..Len(Received[c]) :
           Received[c][k][2] < Sent[Received[c][k][1]]

\* What was put in is in the queue or was taken out.
NothingLost ==
    \A p \in Producers : \A n \in Nat :
        n < Sent[p] =>
            \/ \E k \in 1..Len(Contents) : Contents[k] = <<p, n>>
            \/ \E c \in Consumers : \E k \in 1..Len(Received[c]) : Received[c][k] = <<p, n>>

\* Items of one producer leave in the order they were put in: in the queue,
\* between the queue and a consumer, and within what one consumer received.
Before(x, y) == x[1] = y[1] => x[2] < y[2]
InOrder ==
    /\ \A j, k \in 1..Len(Contents) : j < k => Before(Contents[j], Contents[k])
    /\ \A c \in Consumers : \A j \in 1..Len(Received[c]), k \in 1..Len(Contents) :
           Before(Received[c][j], Contents[k])
    /\ \A c \in Consumers : \A j, k \in 1..Len(Received[c]) :
           j < k => Before(Received[c][j], Received[c][k])

\* No two consumers receive the same item.
OnlyOnce ==
    \A c, d \in Consumers : \A j \in 1..Len(Received[c]), k \in 1..Len(Received[d]) :
        Received[c][j] = Received[d][k] => c = d

Delivered == FifoTypeOK /\ OnlySent /\ NothingLost /\ InOrder /\ OnlyOnce

-----------------------------------------------------------------------------
\* Append and Tail, element by element.
LEMMA AppendElements ==
    ASSUME NEW S, NEW s \in Seq(S), NEW e \in S
    PROVE  /\ Append(s, e) \in Seq(S)
           /\ Len(Append(s, e)) = Len(s) + 1
           /\ Append(s, e)[Len(s) + 1] = e
           /\ \A k \in 1..Len(s) : Append(s, e)[k] = s[k]
OBVIOUS

LEMMA TailElements ==
    ASSUME NEW S, NEW s \in Seq(S), s # <<>>
    PROVE  /\ Tail(s) \in Seq(S)
           /\ Len(s) \in Nat \ {0}
           /\ Len(Tail(s)) = Len(s) - 1
           /\ Head(s) = s[1]
           /\ s[1] \in S
           /\ \A k \in 1..Len(Tail(s)) : Tail(s)[k] = s[k + 1]
OBVIOUS

LEMMA SendDelivered ==
    ASSUME Delivered, NEW p \in Producers, Abstract!Send(p)
    PROVE  Delivered'
<1> DEFINE e == <<p, Sent[p]>>
<1> USE DEF Delivered
<1>1. e \in Item /\ Contents \in Seq(Item) /\ Sent[p] \in Nat
  BY DEF FifoTypeOK, Item
<1>2. Contents' = Append(Contents, e) /\ Received' = Received
  BY DEF Abstract!Send
<1>3. \A x \in Producers : Sent'[x] = IF x = p THEN Sent[p] + 1 ELSE Sent[x]
  BY DEF Abstract!Send, FifoTypeOK
<1>4. /\ Contents' \in Seq(Item)
      /\ Len(Contents') = Len(Contents) + 1
      /\ Len(Contents) \in Nat
      /\ Contents'[Len(Contents) + 1] = e
      /\ \A k \in 1..Len(Contents) : Contents'[k] = Contents[k] /\ Contents[k] \in Item
  <2> HIDE DEF e
  <2> QED  BY <1>1, <1>2, AppendElements
<1>5. \A c \in Consumers : \A k \in 1..Len(Received[c]) : Received[c][k] \in Item
  BY DEF FifoTypeOK
<1>6. FifoTypeOK'
  BY <1>1, <1>2, <1>4 DEF FifoTypeOK, Abstract!Send
<1>7. OnlySent'
  <2>1. \A x \in Item : x[2] < Sent[x[1]] => x[2] < Sent'[x[1]]
    <3> SUFFICES ASSUME NEW x \in Item, x[2] < Sent[x[1]]
                 PROVE  x[2] < Sent'[x[1]]
      OBVIOUS
    <3>1. x[1] \in Producers /\ x[2] \in Nat /\ Sent[x[1]] \in Nat
      BY DEF Item, FifoTypeOK
    <3>2. Sent'[x[1]] = Sent[x[1]] \/ (x[1] = p /\ Sent'[x[1]] = Sent[p] + 1)
      BY <1>3, <3>1
    <3> QED  BY <3>1, <3>2
  <2>2. e[2] < Sent'[e[1]]
    BY <1>1, <1>3
  <2>3. ASSUME NEW k \in 1..Len(Contents')
        PROVE  Contents'[k][2] < Sent'[Contents'[k][1]]
    <3>1. (k \in 1..Len(Contents) /\ Contents'[k] = Contents[k] /\ Contents[k] \in Item) \/ Contents'[k] = e
      BY <1>4
    <3> HIDE DEF e
    <3> QED  BY <2>1, <2>2, <3>1 DEF OnlySent
  <2>4. ASSUME NEW c \in Consumers, NEW k \in 1..Len(Received'[c])
        PROVE  Received'[c][k][2] < Sent'[Received'[c][k][1]]
    BY <1>2, <1>5, <2>1 DEF OnlySent
  <2> QED  BY <2>3, <2>4 DEF OnlySent
<1>8. NothingLost'
  <2> SUFFICES ASSUME NEW x \in Producers, NEW n \in Nat, n < Sent'[x]
               PROVE  \/ \E k \in 1..Len(Contents') : Contents'[k] = <<x, n>>
                      \/ \E c \in Consumers : \E k \in 1..Len(Received[c]) :
                             Received[c][k] = <<x, n>>
    BY <1>2 DEF NothingLost
  <2>1. CASE x = p /\ n = Sent[p]
    BY <1>4, <2>1
  <2>2. CASE ~(x = p /\ n = Sent[p])
    <3>1. n < Sent[x]
      BY <1>1, <1>3, <2>2
    <3>2. \/ \E k \in 1..Len(Contents) : Contents[k] = <<x, n>>
          \/ \E c \in Consumers : \E k \in 1..Len(Received[c]) : Received[c][k] = <<x, n>>
      BY <3>1 DEF NothingLost
    <3>3. \A k \in 1..Len(Contents) : k \in 1..Len(Contents') /\ Contents'[k] = Contents[k]
      BY <1>4
    <3> QED  BY <3>2, <3>3
  <2> QED  BY <2>1, <2>2
<1>9. InOrder'
  <2>1. \A k \in 1..Len(Contents) : Before(Contents[k], e)
    BY DEF Before, OnlySent
  <2>2. \A c \in Consumers : \A j \in 1..Len(Received[c]) : Before(Received[c][j], e)
    BY DEF Before, OnlySent
  <2> HIDE DEF e
  <2>3. ASSUME NEW j \in 1..Len(Contents'), NEW k \in 1..Len(Contents'), j < k
        PROVE  Before(Contents'[j], Contents'[k])
    <3>1. j \in 1..Len(Contents) /\ (k \in 1..Len(Contents) \/ k = Len(Contents) + 1)
      BY <1>4, <2>3
    <3> QED  BY <1>4, <2>1, <2>3, <3>1 DEF InOrder
  <2>4. ASSUME NEW c \in Consumers, NEW j \in 1..Len(Received[c]), NEW k \in 1..Len(Contents')
        PROVE  Before(Received[c][j], Contents'[k])
    <3>1. k \in 1..Len(Contents) \/ k = Len(Contents) + 1
      BY <1>4
    <3> QED  BY <1>4, <2>2, <3>1 DEF InOrder
  <2> QED  BY <1>2, <2>3, <2>4 DEF InOrder
<1>10. OnlyOnce'
  BY <1>2 DEF OnlyOnce
<1> QED  BY <1>6, <1>7, <1>8, <1>9, <1>10

LEMMA ReceiveDelivered ==
    ASSUME Delivered, NEW c \in Consumers, Abstract!Receive(c)
    PROVE  Delivered'
<1> DEFINE e == Head(Contents)
<1> USE DEF Delivered
<1>1. /\ e = Contents[1] /\ e \in Item
      /\ Contents' \in Seq(Item)
      /\ Len(Contents) \in Nat \ {0}
      /\ Len(Contents') = Len(Contents) - 1
      /\ \A k \in 1..Len(Contents') : Contents'[k] = Contents[k + 1]
      /\ 1 \in 1..Len(Contents) /\ \A k \in 1..Len(Contents') : k + 1 \in 1..Len(Contents) /\ 1 < k + 1
  BY TailElements DEF Abstract!Receive, FifoTypeOK
<1>2. Sent' = Sent
  BY DEF Abstract!Receive
<1> HIDE DEF e
<1>3. \A d \in Consumers : Received'[d] = IF d = c THEN Append(Received[c], e) ELSE Received[d]
  BY DEF Abstract!Receive, FifoTypeOK, e
<1>4. /\ Received'[c] \in Seq(Item)
      /\ Len(Received'[c]) = Len(Received[c]) + 1
      /\ Len(Received[c]) \in Nat
      /\ Received'[c][Len(Received[c]) + 1] = e
      /\ \A k \in 1..Len(Received[c]) : Received'[c][k] = Received[c][k]
  <2>1. Received'[c] = Append(Received[c], e) /\ Received[c] \in Seq(Item)
    BY <1>3 DEF FifoTypeOK
  <2> HIDE DEF Item
  <2> QED  BY <1>1, <2>1, AppendElements
\* What a consumer holds after the step it held before, or it is e, for c.
<1>5. ASSUME NEW d \in Consumers, NEW k \in 1..Len(Received'[d])
      PROVE  \/ k \in 1..Len(Received[d]) /\ Received'[d][k] = Received[d][k]
             \/ d = c /\ k = Len(Received[c]) + 1 /\ Received'[d][k] = e
  BY <1>3, <1>4
<1>6. FifoTypeOK'
  BY <1>1, <1>2, <1>3, <1>4 DEF FifoTypeOK, Abstract!Receive
<1>7. OnlySent'
  BY <1>1, <1>2, <1>5 DEF OnlySent
<1>8. NothingLost'
  <2> SUFFICES ASSUME NEW p \in Producers, NEW n \in Nat, n < Sent[p]
               PROVE  \/ \E k \in 1..Len(Contents') : Contents'[k] = <<p, n>>
                      \/ \E d \in Consumers : \E k \in 1..Len(Received'[d]) :
                             Received'[d][k] = <<p, n>>
    BY <1>2 DEF NothingLost
  <2>1. CASE \E k \in 1..Len(Contents) : Contents[k] = <<p, n>>
    <3>1. PICK k \in 1..Len(Contents) : Contents[k] = <<p, n>>
      BY <2>1
    <3>2. CASE k = 1
      <4>1. e = <<p, n>> /\ Len(Received[c]) + 1 \in 1..Len(Received'[c])
        BY <1>1, <1>4, <3>1, <3>2
      <4> QED  BY <1>4, <4>1
    <3>3. CASE k # 1
      <4>1. k - 1 \in 1..Len(Contents') /\ Contents'[k - 1] = <<p, n>>
        BY <1>1, <3>1, <3>3
      <4> QED  BY <4>1
    <3> QED  BY <3>2, <3>3
  <2>2. CASE \E d \in Consumers : \E k \in 1..Len(Received[d]) : Received[d][k] = <<p, n>>
    <3>1. PICK d \in Consumers : \E k \in 1..Len(Received[d]) : Received[d][k] = <<p, n>>
      BY <2>2
    <3>2. PICK k \in 1..Len(Received[d]) : Received[d][k] = <<p, n>>
      BY <3>1
    <3>3. k \in 1..Len(Received'[d]) /\ Received'[d][k] = Received[d][k]
      BY <1>3, <1>4
    <3> QED  BY <3>2, <3>3
  <2> QED  BY <2>1, <2>2 DEF NothingLost
<1>9. InOrder'
  <2>1. ASSUME NEW j \in 1..Len(Contents'), NEW k \in 1..Len(Contents'), j < k
        PROVE  Before(Contents'[j], Contents'[k])
    BY <1>1, <2>1 DEF InOrder
  <2>2. ASSUME NEW d \in Consumers, NEW j \in 1..Len(Received'[d]), NEW k \in 1..Len(Contents')
        PROVE  Before(Received'[d][j], Contents'[k])
    <3>1. Contents'[k] = Contents[k + 1] /\ k + 1 \in 1..Len(Contents) /\ 1 \in 1..Len(Contents) /\ 1 < k + 1
      BY <1>1
    <3>2. CASE j \in 1..Len(Received[d]) /\ Received'[d][j] = Received[d][j]
      BY <3>1, <3>2 DEF InOrder
    <3>3. CASE Received'[d][j] = e
      BY <1>1, <3>1, <3>3 DEF InOrder
    <3> QED  BY <1>5, <3>2, <3>3
  <2>3. ASSUME NEW d \in Consumers,
               NEW j \in 1..Len(Received'[d]), NEW k \in 1..Len(Received'[d]), j < k
        PROVE  Before(Received'[d][j], Received'[d][k])
    <3>1. j \in 1..Len(Received[d]) /\ Received'[d][j] = Received[d][j]
      BY <1>3, <1>4, <2>3
    <3> QED  BY <1>1, <1>5, <2>3, <3>1 DEF InOrder
  <2> QED  BY <2>1, <2>2, <2>3 DEF InOrder
<1>10. OnlyOnce'
  <2>1. \A d \in Consumers : \A k \in 1..Len(Received[d]) : Received[d][k] # e
    <3> SUFFICES ASSUME NEW d \in Consumers, NEW k \in 1..Len(Received[d])
                 PROVE  Received[d][k] # e
      OBVIOUS
    <3>1. Before(Received[d][k], e) /\ e[2] \in Nat
      BY <1>1 DEF InOrder, Item
    <3> QED  BY <3>1 DEF Before
  <2> QED  BY <1>5, <2>1 DEF OnlyOnce
<1> QED  BY <1>6, <1>7, <1>8, <1>9, <1>10

\* Every behaviour of the abstract queue delivers each item that was pushed
\* to exactly one consumer, in the order of its producer, or still holds it.
THEOREM FifoDelivers == Abstract!Spec => []Delivered
<1>1. Abstract!Init => Delivered
  BY DEF Abstract!Init, Delivered, FifoTypeOK, OnlySent, NothingLost, InOrder, OnlyOnce
<1>2. Delivered /\ [Abstract!Next]_Abstract!vars => Delivered'
  <2> SUFFICES ASSUME Delivered, [Abstract!Next]_Abstract!vars PROVE Delivered'
    OBVIOUS
  <2>1. CASE Contents' = Contents /\ Sent' = Sent /\ Received' = Received
    BY <2>1 DEF Delivered, FifoTypeOK, OnlySent, NothingLost, InOrder, OnlyOnce
  <2>2. CASE \E p \in Producers : Abstract!Send(p)
    BY <2>2, SendDelivered
  <2>3. CASE \E c \in Consumers : Abstract!Receive(c)
    BY <2>3, ReceiveDelivered
  <2> QED  BY <2>1, <2>2, <2>3
      DEF Abstract!Next, Abstract!vars, Abstract!Overflow, Abstract!Underflow, Abstract!Exit
<1> QED  BY <1>1, <1>2, PTL DEF Abstract!Spec

\* By the refinement queue_cond.c delivers as Fifo does.
THEOREM DeliveryInherited == Spec => []Delivered
BY FifoImplemented, FifoDelivers, PTL DEF ImplementsFifo

\* A finite union of runs of positions.
LEMMA PositionsFinite ==
    ASSUME TypeOK
    PROVE  IsFiniteSet(UNION {{<<c, k>> : k \in 1..Len(consumed[c])} : c \in Consumers})
<1> DEFINE R(c) == {<<c, k>> : k \in 1..Len(consumed[c])}
           rows == {R(c) : c \in Consumers}
           f == [c \in Consumers |-> R(c)]
<1>1. IsFiniteSet(Consumers)
  BY ThreadsFinite, FS_Subset DEF Threads
<1>2. f \in Surjection(Consumers, rows)
  BY DEF Surjection
<1>3. ASSUME NEW c \in Consumers
      PROVE  IsFiniteSet(R(c))
  <2> DEFINE n == Len(consumed[c])
             g == [k \in 1..n |-> <<c, k>>]
  <2>1. n \in Nat
    <3>1. consumed[c] \in Seq(Item \cup {NoItem})
      BY DEF TypeOK, RingTypeOK
    <3> QED  BY <3>1
  <2>2. g \in Surjection(1..n, R(c))
    BY DEF Surjection
  <2>3. IsFiniteSet(1..n)
    BY <2>1, FS_Interval
  <2> HIDE DEF n, g, R
  <2> QED  BY <2>2, <2>3, FS_Surjection
<1>4. \A T \in rows : IsFiniteSet(T)
  BY <1>3
<1>5. IsFiniteSet(rows)
  <2> HIDE DEF f, rows
  <2> QED  BY <1>1, <1>2, FS_Surjection
<1>6. IsFiniteSet(UNION rows)
  <2> HIDE DEF rows
  <2> QED  BY <1>4, <1>5, FS_UNION
<1> QED  BY <1>6

\* When main has joined every child each call has returned and each loop has
\* run to its end, so the mapping is the program's own state.
LEMMA AllDone ==
    ASSUME Inv, AccessInv, joined = Len(Children)
    PROVE  /\ \A t \in Threads : pc[t] = "done" /\ i[t] = Loops[t]
           /\ Sent = [p \in Producers |-> Loops[p]]
           /\ Received = consumed
<1>1. ASSUME NEW t \in Threads
      PROVE  pc[t] = "done"
  <2>1. PICK k \in 1..Len(Children) : Children[k] = t
    BY ChildrenAssumption
  <2> QED  BY <2>1 DEF AccessInv, JoinInv
<1>2. \A t \in Threads : i[t] = Loops[t]
  BY <1>1 DEF AccessInv, LoopInv
<1>3. Sent = [p \in Producers |-> Loops[p]]
  BY <1>1, <1>2 DEF Sent, Threads
<1>4. Received = consumed
  BY <1>1 DEF Received, Threads, Inv, TypeOK, RingTypeOK
<1> QED  BY <1>1, <1>2, <1>3, <1>4

\* Every item that was pushed was printed by exactly one consumer or is still
\* in the queue when main has joined its children.
THEOREM EveryItemDelivered == Spec => []AllDelivered
<1>1. Inv /\ AccessInv /\ Delivered => AllDelivered
  <2> DEFINE printed == UNION {{<<c, k>> : k \in 1..Len(consumed[c])} : c \in Consumers}
             pushed == UNION {{<<p, n>> : n \in 0..(Loops[p] - 1)} : p \in Producers}
             out == {consumed[x[1]][x[2]] : x \in printed}
             left == {Contents[k] : k \in 1..Count}
  <2> SUFFICES ASSUME Inv, AccessInv, Delivered, joined = Len(Children)
               PROVE  /\ Cardinality(out) = Cardinality(printed)
                      /\ out \cap left = {}
                      /\ out \cup left = pushed
    BY DEF AllDelivered
  <2>1. Received = consumed /\ \A p \in Producers : Sent[p] = Loops[p] /\ Loops[p] \in Nat
    BY AllDone, QueueAssumption DEF Threads
  <2>2. Len(Contents) = Count /\ RingTypeOK
    BY ContentsType DEF Inv, TypeOK
  <2>m. /\ \A x : x \in out <=> \E c \in Consumers : \E k \in 1..Len(consumed[c]) : x = consumed[c][k]
        /\ \A x : x \in pushed <=> \E p \in Producers : \E n \in 0..(Loops[p] - 1) : x = <<p, n>>
        /\ \A x : x \in left <=> \E k \in 1..Count : x = Contents[k]
        /\ \A x : x \in printed <=> \E c \in Consumers : \E k \in 1..Len(consumed[c]) : x = <<c, k>>
    <3>1. \A x : x \in printed <=> \E c \in Consumers : \E k \in 1..Len(consumed[c]) : x = <<c, k>>
      OBVIOUS
    <3>2. \A x : x \in pushed <=> \E p \in Producers : \E n \in 0..(Loops[p] - 1) : x = <<p, n>>
      OBVIOUS
    <3>3. \A x : x \in out <=> \E c \in Consumers : \E k \in 1..Len(consumed[c]) : x = consumed[c][k]
      <4> HIDE DEF printed
      <4>1. \A x : x \in out <=> \E y \in printed : x = consumed[y[1]][y[2]]
        OBVIOUS
      <4>2. ASSUME NEW c \in Consumers, NEW k \in 1..Len(consumed[c])
            PROVE  <<c, k>> \in printed
        BY <3>1
      <4>3. ASSUME NEW x \in out
            PROVE  \E c \in Consumers : \E k \in 1..Len(consumed[c]) : x = consumed[c][k]
        <5>1. PICK y \in printed : x = consumed[y[1]][y[2]]
          BY <4>1
        <5>2. \E c \in Consumers : \E k \in 1..Len(consumed[c]) : y = <<c, k>>
          BY <3>1
        <5> QED  BY <5>1, <5>2
      <4>4. ASSUME NEW c \in Consumers, NEW k \in 1..Len(consumed[c])
            PROVE  consumed[c][k] \in out
        <5> HIDE DEF out
        <5> DEFINE y == <<c, k>>
        <5>1. y \in printed /\ consumed[c][k] = consumed[y[1]][y[2]]
          BY <4>2
        <5> HIDE DEF y
        <5> QED  BY <4>1, <5>1
      <4> HIDE DEF out
      <4> QED  BY <4>3, <4>4
    <3> QED  BY <3>1, <3>2, <3>3
  \* An item is a producer and a number.
  <2>3. /\ \A c \in Consumers : \A k \in 1..Len(consumed[c]) : consumed[c][k] \in Producers \X Nat
        /\ \A k \in 1..Count : Contents[k] \in Producers \X Nat
    BY <2>1, <2>2 DEF Delivered, FifoTypeOK, Item
  <2>4. /\ \A c \in Consumers : \A k \in 1..Len(consumed[c]) :
               consumed[c][k][2] < Sent[consumed[c][k][1]]
        /\ \A k \in 1..Count : Contents[k][2] < Sent[Contents[k][1]]
    BY <2>1, <2>2 DEF Delivered, OnlySent
  \* What a consumer printed is neither in the queue nor printed elsewhere.
  <2>5. ASSUME NEW c \in Consumers, NEW k \in 1..Len(consumed[c]), NEW j \in 1..Count
        PROVE  consumed[c][k] # Contents[j]
    <3>1. Before(consumed[c][k], Contents[j])
      BY <2>1, <2>2 DEF Delivered, InOrder
    <3>2. consumed[c][k][2] \in Nat /\ Contents[j][2] \in Nat
      BY <2>3
    <3> QED  BY <3>1, <3>2 DEF Before
  <2>6. ASSUME NEW c \in Consumers, NEW k \in 1..Len(consumed[c]),
               NEW d \in Consumers, NEW j \in 1..Len(consumed[d]),
               consumed[c][k] = consumed[d][j]
        PROVE  c = d /\ k = j
    <3>1. c = d
      BY <2>1, <2>6 DEF Delivered, OnlyOnce
    <3>2. ~(k < j) /\ ~(j < k)
      BY <2>1, <2>3, <2>6, <3>1 DEF Delivered, InOrder, Before
    <3> QED  BY <3>1, <3>2
  <2>7. Cardinality(out) = Cardinality(printed)
    <3> DEFINE f == [x \in printed |-> consumed[x[1]][x[2]]]
    <3>1. f \in Surjection(printed, out)
      BY DEF Surjection
    <3>2. f \in Injection(printed, out)
      <4>1. f \in [printed -> out] /\ \A x \in printed : f[x] = consumed[x[1]][x[2]]
        OBVIOUS
      <4> HIDE DEF f, printed, out
      <4>2. ASSUME NEW x \in printed, NEW y \in printed, f[x] = f[y]
            PROVE  x = y
        <5>1. PICK c \in Consumers : \E k \in 1..Len(consumed[c]) : x = <<c, k>>
          BY <2>m
        <5>2. PICK k \in 1..Len(consumed[c]) : x = <<c, k>>
          BY <5>1
        <5>3. PICK d \in Consumers : \E j \in 1..Len(consumed[d]) : y = <<d, j>>
          BY <2>m
        <5>4. PICK j \in 1..Len(consumed[d]) : y = <<d, j>>
          BY <5>3
        <5>5. consumed[c][k] = consumed[d][j]
          BY <4>1, <4>2, <5>2, <5>4
        <5> QED  BY <2>6, <5>2, <5>4, <5>5
      <4> QED  BY <4>1, <4>2 DEF Injection, IsInjective
    <3>3. IsFiniteSet(printed)
      BY PositionsFinite DEF Inv
    <3> HIDE DEF f, printed, out
    <3> QED  BY <3>1, <3>2, <3>3, FS_Surjection
  <2>8. out \cap left = {}
    <3> HIDE DEF out, left
    <3> QED  BY <2>m, <2>5
  <2>9. out \cup left \subseteq pushed
    <3>1. ASSUME NEW x \in Producers \X Nat, x[2] < Sent[x[1]]
          PROVE  x \in pushed
      <4>1. x = <<x[1], x[2]>> /\ x[1] \in Producers /\ x[2] \in 0..(Loops[x[1]] - 1)
        BY <2>1, <3>1
      <4> HIDE DEF pushed
      <4> QED  BY <2>m, <4>1
    <3> HIDE DEF out, left, pushed
    <3> QED  BY <2>m, <2>3, <2>4, <3>1
  <2>10. pushed \subseteq out \cup left
    <3> HIDE DEF out, left, pushed
    <3> SUFFICES ASSUME NEW p \in Producers, NEW n \in 0..(Loops[p] - 1)
                 PROVE  <<p, n>> \in out \/ <<p, n>> \in left
      BY <2>m
    <3>1. n \in Nat /\ n < Sent[p]
      BY <2>1
    <3>2. \/ \E k \in 1..Count : Contents[k] = <<p, n>>
          \/ \E c \in Consumers : \E k \in 1..Len(consumed[c]) : consumed[c][k] = <<p, n>>
      BY <2>1, <2>2, <3>1 DEF Delivered, NothingLost
    <3> QED  BY <2>m, <3>2
  <2> QED  BY <2>7, <2>8, <2>9, <2>10
<1> QED  BY <1>1, Invariance, AccessInvariance, DeliveryInherited, PTL
====
