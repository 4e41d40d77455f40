---- MODULE QueueBuildsProofs ----
(***************************************************************************)
(* Proofs about the two builds of examples/queue that cannot wait.         *)
(*                                                                         *)
(* QueueBare: with one producer and one consumer, as main.c makes them,    *)
(* queue.c needs no lock.  The producer alone moves next_in and the        *)
(* consumer alone next_out, so what each has tested can only become more   *)
(* true until it acts on it.                                               *)
(*                                                                         *)
(* QueueMutex (the names that begin with M!): for any number of threads,   *)
(* what the holder of the mutex has tested stays true because nobody else  *)
(* is between its test and its unlock.                                     *)
(***************************************************************************)
EXTENDS QueueBare, QueueRingProofs

CONSTANT Free   \* of queue_mutex.c
VARIABLE mutex  \* of queue_mutex.c

M == INSTANCE QueueMutex

\* main.c makes one thread of each kind.
OnePair ==
    /\ \A p, q \in Producers : p = q
    /\ \A c, d \in Consumers : c = d

\* The children main has not created yet have done nothing.
FrameInv == \A k \in 1..Len(Children) : k > made => pc[Children[k]] = "new"

\* How far the loop of each thread is, and what a consumer has printed.
LoopInv ==
    /\ \A t \in Threads : pc[t] = "new" => i[t] = 0
    /\ \A t \in Threads : pc[t] \notin {"new", "done"} => i[t] < Loops[t]
    /\ \A c \in Consumers : Len(consumed[c]) = i[c]

\* What the producer relies on, and what the consumer relies on.
ProducerInv ==
    \A p \in Producers :
        /\ pc[p] \in {"access", "incr"} => ~queue_full
        /\ pc[p] = "incr" => array[next_in] = <<p, i[p]>>
ConsumerInv ==
    \A c \in Consumers :
        /\ pc[c] \in {"access", "incr"} => ~queue_empty
        /\ pc[c] = "incr" => item[c] = array[next_out]

Inv == TypeOK /\ FrameInv /\ LoopInv /\ ProducerInv /\ ConsumerInv

-----------------------------------------------------------------------------
\* pc after a move, label by label.
LEMMA MovedTo ==
    ASSUME TypeOK, NEW t \in Threads, NEW l \in Labels, Goto(t, l)
    PROVE  /\ pc' \in [Threads -> Labels]
           /\ \A s \in Threads : pc'[s] = IF s = t THEN l ELSE pc[s]
BY DEF TypeOK, Goto

LEMMA Kinds ==
    /\ \A p \in Producers : p \in Threads /\ p \notin Consumers
    /\ \A c \in Consumers : c \in Threads /\ c \notin Producers
BY QueueAssumption DEF Threads

\* A thread that main has made stays made.
LEMMA FrameAfterMove ==
    ASSUME FrameInv, NEW t \in Threads, NEW l, pc[t] # "new", made' = made,
           \A s \in Threads : pc'[s] = IF s = t THEN l ELSE pc[s]
    PROVE  FrameInv'
BY ChildrenThreads DEF FrameInv

LEMMA MoveKeepsFrameInv ==
    ASSUME FrameInv, TypeOK, NEW t \in Threads, NEW l \in Labels, Goto(t, l),
           pc[t] # "new", made' = made
    PROVE  FrameInv'
BY MovedTo, FrameAfterMove

\* Inside a call the loop stands still.
LEMMA LoopAfterMove ==
    ASSUME LoopInv, NEW t \in Threads, NEW l, i' = i, consumed' = consumed,
           l \notin {"new", "done"}, pc[t] \notin {"new", "done"},
           \A s \in Threads : pc'[s] = IF s = t THEN l ELSE pc[s]
    PROVE  LoopInv'
BY DEF LoopInv

LEMMA MoveKeepsLoopInv ==
    ASSUME TypeOK, LoopInv, NEW t \in Threads, NEW l \in Labels, Goto(t, l),
           l \notin {"new", "done"}, pc[t] \notin {"new", "done"}, i' = i, consumed' = consumed
    PROVE  LoopInv'
BY MovedTo, LoopAfterMove

\* A call returns: the loop counts and tests.
LEMMA Iteration ==
    ASSUME RingTypeOK, LoopInv, NEW L, pc \in [Threads -> L],
           NEW t \in Threads, NextIteration(t), pc[t] \notin {"new", "done"},
           \/ t \in Producers /\ consumed' = consumed
           \/ t \in Consumers /\ consumed' = [consumed EXCEPT ![t] = Append(@, item[t])]
    PROVE  /\ LoopInv'
           /\ i' \in [Threads -> Nat]
           /\ consumed' \in [Consumers -> Seq(Item \cup {NoItem})]
           /\ \A s \in Threads : i'[s] = IF s = t THEN i[t] + 1 ELSE i[s]
<1> DEFINE S == Item \cup {NoItem}
           l == LoopHead(t, i[t] + 1)
<1>1. i[t] \in Nat /\ Loops[t] \in Nat /\ i[t] < Loops[t]
  BY QueueAssumption DEF RingTypeOK, LoopInv
<1>2. /\ i' \in [Threads -> Nat]
      /\ \A s \in Threads : i'[s] = IF s = t THEN i[t] + 1 ELSE i[s]
  <2>1. i \in [Threads -> Nat] /\ i' = [i EXCEPT ![t] = i[t] + 1]
    BY DEF NextIteration, RingTypeOK
  <2> QED  BY <1>1, <2>1
<1>3. \/ l = "call" /\ i[t] + 1 < Loops[t]
      \/ l = "done"
  BY DEF LoopHead
<1>4. \A s \in Threads : pc'[s] = IF s = t THEN l ELSE pc[s]
  BY <1>3 DEF NextIteration, Goto
<1> HIDE DEF l
<1>5. /\ consumed \in [Consumers -> Seq(S)] /\ item \in [Consumers -> S]
  BY DEF RingTypeOK
<1> HIDE DEF S
<1>6. ASSUME NEW c \in Consumers
      PROVE  /\ consumed'[c] \in Seq(S)
             /\ Len(consumed'[c]) = IF c = t THEN Len(consumed[c]) + 1 ELSE Len(consumed[c])
  <2>1. consumed[c] \in Seq(S) /\ item[c] \in S
    BY <1>5
  <2>2. CASE c = t
    <3>1. consumed'[c] = Append(consumed[c], item[c])
      BY <1>5, <2>2, Kinds
    <3> QED  BY <2>1, <2>2, <3>1
  <2>3. CASE c # t
    <3>1. consumed'[c] = consumed[c]
      BY <1>5, <2>3
    <3> QED  BY <2>1, <2>3, <3>1
  <2> QED  BY <2>2, <2>3
<1>7. consumed' \in [Consumers -> Seq(S)]
  <2>1. consumed' = [c \in Consumers |-> consumed'[c]]
    BY <1>5
  <2> QED  BY <1>6, <2>1
<1>8. \A c \in Consumers : Len(consumed'[c]) = i'[c]
  BY <1>2, <1>6, Kinds DEF LoopInv
<1>9. \A s \in Threads : pc'[s] \notin {"new", "done"} => i'[s] < Loops[s]
  BY <1>2, <1>3, <1>4 DEF LoopInv
<1>10. \A s \in Threads : pc'[s] = "new" => i'[s] = 0
  BY <1>2, <1>3, <1>4 DEF LoopInv
<1> QED  BY <1>2, <1>7, <1>8, <1>9, <1>10 DEF LoopInv, S

-----------------------------------------------------------------------------
\* The producer's steps.
LEMMA PushInv ==
    ASSUME OnePair, Inv, NEW p \in Producers, Push(p)
    PROVE  Inv'
<1> USE DEF Inv
<1>p. p \in Threads /\ \A q \in Producers : q = p
  BY Kinds DEF OnePair
<1>t. RingTypeOK /\ pc \in [Threads -> Labels]
  BY DEF TypeOK
<1>1. CASE PushFull(p) \/ PushRoom(p)
  <2>1. PICK l : /\ Goto(p, l) /\ pc[p] = "call"
                 /\ l = "exit" \/ (l = "access" /\ ~queue_full)
    BY <1>1 DEF PushFull, PushRoom
  <2>2. UNCHANGED <<ringvars, localvars, mainvars>>
    BY <1>1 DEF PushFull, PushRoom
  <2>3. l \in Labels
    BY <2>1 DEF Labels
  <2>4. TypeOK' /\ FrameInv' /\ LoopInv'
    BY <1>p, <2>1, <2>2, <2>3, MovedTo, MoveKeepsFrameInv, MoveKeepsLoopInv
    DEF TypeOK, RingTypeOK, ringvars, localvars, mainvars
  <2>5. \A s \in Threads : pc'[s] = IF s = p THEN l ELSE pc[s]
    BY <1>p, <2>1, <2>3, MovedTo
  <2>6. (queue_full' <=> queue_full) /\ (queue_empty' <=> queue_empty)
    BY <2>2, SameContents
  <2>7. ProducerInv'
    BY <1>p, <2>1, <2>5, <2>6 DEF ProducerInv
  <2>8. ConsumerInv'
    BY <2>2, <2>5, <2>6, Kinds DEF ConsumerInv, ringvars, localvars
  <2> QED  BY <2>4, <2>7, <2>8
<1>2. CASE PushStore(p)
  <2>1. pc[p] = "access" /\ Goto(p, "incr") /\ "incr" \in Labels /\ ~queue_full
    BY <1>2 DEF PushStore, StoreItem, Labels, ProducerInv
  <2>2. /\ UNCHANGED <<next_in, next_out, localvars, mainvars>>
        /\ array' = [array EXCEPT ![next_in] = <<p, i[p]>>]
    BY <1>2 DEF PushStore, StoreItem
  <2>3. <<p, i[p]>> \in Item
    BY <1>p DEF Item, TypeOK, RingTypeOK
  <2>4. TypeOK' /\ FrameInv' /\ LoopInv'
    BY <1>p, <2>1, <2>2, <2>3, MovedTo, MoveKeepsFrameInv, MoveKeepsLoopInv
    DEF TypeOK, RingTypeOK, localvars, mainvars
  <2>5. \A s \in Threads : pc'[s] = IF s = p THEN "incr" ELSE pc[s]
    BY <1>p, <2>1, MovedTo
  <2>6. (queue_full' <=> queue_full) /\ (queue_empty' <=> queue_empty)
    BY <2>2 DEF queue_full, queue_empty, queue_incr
  <2>7. array'[next_in'] = <<p, i'[p]>>
    BY <1>t, <2>2 DEF RingTypeOK, localvars
  <2>8. ProducerInv'
    BY <1>p, <2>1, <2>6, <2>7 DEF ProducerInv
  \* The slot the consumer has read is not the one that was written.
  <2>9. ASSUME NEW c \in Consumers
        PROVE  /\ pc'[c] \in {"access", "incr"} => ~queue_empty'
               /\ pc'[c] = "incr" => item'[c] = array'[next_out']
    <3>1. pc'[c] = pc[c]
      BY <2>5, Kinds
    <3>2. ~queue_empty => array'[next_out'] = array[next_out]
      BY <1>t, <2>2 DEF RingTypeOK, queue_empty
    <3> QED  BY <2>2, <2>6, <3>1, <3>2 DEF ConsumerInv, localvars
  <2>10. ConsumerInv'
    BY <2>9 DEF ConsumerInv
  <2> QED  BY <2>4, <2>8, <2>10
<1>3. CASE PushIncr(p)
  <2>1. pc[p] = "incr" /\ NextIteration(p) /\ ~queue_full
    BY <1>3 DEF PushIncr, ProducerInv
  <2>2. AdvanceIn /\ UNCHANGED <<item, consumed, mainvars>>
    BY <1>3 DEF PushIncr
  <2>3. PICK l : Goto(p, l) /\ l \in {"call", "done"}
    BY <2>1, LoopHeadLabel DEF NextIteration
  <2>4. l \in Labels
    BY <2>3 DEF Labels
  <2>5. LoopInv' /\ i' \in [Threads -> Nat]
    BY <1>p, <1>t, <2>1, <2>2, Iteration
  <2>6. queue_incr(next_in) \in Slots
    BY <1>t, IncrSlot DEF RingTypeOK
  <2>7. TypeOK' /\ FrameInv'
    BY <1>p, <2>1, <2>2, <2>3, <2>4, <2>5, <2>6, MovedTo, MoveKeepsFrameInv
    DEF TypeOK, RingTypeOK, AdvanceIn, mainvars
  <2>8. \A s \in Threads : pc'[s] = IF s = p THEN l ELSE pc[s]
    BY <1>p, <2>3, <2>4, MovedTo
  <2>9. ProducerInv'
    BY <1>p, <2>3, <2>8 DEF ProducerInv
  \* One more item does not empty the queue.
  <2>10. ~queue_empty'
    <3>1. Count' = Count + 1 /\ Count \in Nat /\ RingTypeOK'
      BY <1>t, <2>1, <2>2, <2>7, AdvanceInAppends, CountRange, QueueAssumption DEF TypeOK
    <3> QED  BY <3>1, NextCountRange
  <2>11. ConsumerInv'
    BY <2>2, <2>8, <2>10, Kinds DEF ConsumerInv, AdvanceIn
  <2> QED  BY <2>5, <2>7, <2>9, <2>11
<1> QED  BY <1>1, <1>2, <1>3 DEF Push

\* The consumer's steps.
LEMMA PopInv ==
    ASSUME OnePair, Inv, NEW c \in Consumers, Pop(c)
    PROVE  Inv'
<1> USE DEF Inv
<1>c. c \in Threads /\ \A d \in Consumers : d = c
  BY Kinds DEF OnePair
<1>t. RingTypeOK /\ pc \in [Threads -> Labels]
  BY DEF TypeOK
<1>1. CASE PopEmpty(c) \/ PopSome(c)
  <2>1. PICK l : /\ Goto(c, l) /\ pc[c] = "call"
                 /\ l = "exit" \/ (l = "access" /\ ~queue_empty)
    BY <1>1 DEF PopEmpty, PopSome
  <2>2. UNCHANGED <<ringvars, localvars, mainvars>>
    BY <1>1 DEF PopEmpty, PopSome
  <2>3. l \in Labels
    BY <2>1 DEF Labels
  <2>4. TypeOK' /\ FrameInv' /\ LoopInv'
    BY <1>c, <2>1, <2>2, <2>3, MovedTo, MoveKeepsFrameInv, MoveKeepsLoopInv
    DEF TypeOK, RingTypeOK, ringvars, localvars, mainvars
  <2>5. \A s \in Threads : pc'[s] = IF s = c THEN l ELSE pc[s]
    BY <1>c, <2>1, <2>3, MovedTo
  <2>6. (queue_full' <=> queue_full) /\ (queue_empty' <=> queue_empty)
    BY <2>2, SameContents
  <2>7. ConsumerInv'
    BY <1>c, <2>1, <2>5, <2>6 DEF ConsumerInv
  <2>8. ProducerInv'
    BY <2>2, <2>5, <2>6, Kinds DEF ProducerInv, ringvars, localvars
  <2> QED  BY <2>4, <2>7, <2>8
<1>2. CASE PopLoad(c)
  <2>1. pc[c] = "access" /\ Goto(c, "incr") /\ "incr" \in Labels /\ ~queue_empty
    BY <1>2 DEF PopLoad, LoadItem, Labels, ConsumerInv
  <2>2. /\ UNCHANGED <<ringvars, i, consumed, mainvars>>
        /\ item' = [item EXCEPT ![c] = array[next_out]]
    BY <1>2 DEF PopLoad, LoadItem
  <2>3. item' \in [Consumers -> Item \cup {NoItem}]
    BY <1>t, <2>2 DEF RingTypeOK
  <2>4. TypeOK' /\ FrameInv' /\ LoopInv'
    BY <1>c, <2>1, <2>2, <2>3, MovedTo, MoveKeepsFrameInv, MoveKeepsLoopInv
    DEF TypeOK, RingTypeOK, ringvars, mainvars
  <2>5. \A s \in Threads : pc'[s] = IF s = c THEN "incr" ELSE pc[s]
    BY <1>c, <2>1, MovedTo
  <2>6. (queue_full' <=> queue_full) /\ (queue_empty' <=> queue_empty)
    BY <2>2, SameContents
  <2>7. item'[c] = array'[next_out']
    BY <1>t, <2>2 DEF RingTypeOK, ringvars
  <2>8. ConsumerInv'
    BY <1>c, <2>1, <2>6, <2>7 DEF ConsumerInv
  <2>9. ProducerInv'
    BY <2>2, <2>5, <2>6, Kinds DEF ProducerInv, ringvars
  <2> QED  BY <2>4, <2>8, <2>9
<1>3. CASE PopIncr(c)
  <2>1. pc[c] = "incr" /\ NextIteration(c) /\ ~queue_empty
    BY <1>3 DEF PopIncr, Consume, ConsumerInv
  <2>2. /\ AdvanceOut /\ UNCHANGED <<item, mainvars>>
        /\ consumed' = [consumed EXCEPT ![c] = Append(@, item[c])]
    BY <1>3 DEF PopIncr, Consume
  <2>3. PICK l : Goto(c, l) /\ l \in {"call", "done"}
    BY <2>1, LoopHeadLabel DEF NextIteration
  <2>4. l \in Labels
    BY <2>3 DEF Labels
  <2>5. /\ LoopInv' /\ i' \in [Threads -> Nat]
        /\ consumed' \in [Consumers -> Seq(Item \cup {NoItem})]
        /\ \A s \in Threads : s # c => i'[s] = i[s]
    BY <1>c, <1>t, <2>1, <2>2, Iteration
  <2>6. queue_incr(next_out) \in Slots
    BY <1>t, IncrSlot DEF RingTypeOK
  <2>7. TypeOK' /\ FrameInv'
    BY <1>c, <2>1, <2>2, <2>3, <2>4, <2>5, <2>6, MovedTo, MoveKeepsFrameInv
    DEF TypeOK, RingTypeOK, AdvanceOut, mainvars
  <2>8. \A s \in Threads : pc'[s] = IF s = c THEN l ELSE pc[s]
    BY <1>c, <2>3, <2>4, MovedTo
  <2>9. ConsumerInv'
    BY <1>c, <2>3, <2>8 DEF ConsumerInv
  \* One item less does not fill the queue.
  <2>10. ~queue_full'
    <3>1. Count' = Count - 1 /\ Count \in 0..Length /\ Length \in Nat /\ RingTypeOK'
      BY <1>t, <2>1, <2>2, <2>7, AdvanceOutTakes, CountRange, QueueAssumption DEF TypeOK
    <3> QED  BY <3>1, NextCountRange
  <2>11. ProducerInv'
    BY <2>2, <2>5, <2>8, <2>10, Kinds DEF ProducerInv, AdvanceOut
  <2> QED  BY <2>5, <2>7, <2>9, <2>11
<1> QED  BY <1>1, <1>2, <1>3 DEF Pop

\* A step that changes nothing the threads rely on.
LEMMA IdleInv ==
    ASSUME Inv, UNCHANGED <<ringvars, pc, localvars, made>>,
           joined' \in 0..Len(Children),
           exit' \in {"no", "queue is full", "queue is empty", "pthread_create failed"}
    PROVE  Inv'
<1> USE DEF Inv, ringvars, localvars
<1>1. TypeOK'
  BY DEF TypeOK, RingTypeOK
<1>2. FrameInv' /\ LoopInv'
  BY DEF FrameInv, LoopInv
<1>3. queue_full' = queue_full /\ queue_empty' = queue_empty
  BY SameContents
<1>4. ProducerInv' /\ ConsumerInv'
  BY <1>3 DEF ProducerInv, ConsumerInv
<1> QED  BY <1>1, <1>2, <1>4

\* main's steps and perror_exit.
LEMMA MainInv ==
    ASSUME Inv,
           MakeThread \/ MakeThreadFails \/ JoinThread \/ \E t \in Threads : PerrorExit(t)
    PROVE  Inv'
<1> USE DEF Inv
<1>m. Len(Children) \in Nat /\ made \in 0..Len(Children) /\ joined \in 0..Len(Children)
  BY ChildrenThreads DEF TypeOK, RingTypeOK
<1>e. exit \in {"no", "queue is full", "queue is empty", "pthread_create failed"}
  BY DEF TypeOK, RingTypeOK
<1>1. CASE MakeThread
  <2> DEFINE t == Children[made + 1]
             l == LoopHead(t, 0)
  <2>1. made + 1 \in 1..Len(Children) /\ made' = made + 1
    BY <1>1, <1>m DEF MakeThread
  <2>2. t \in Threads /\ pc[t] = "new" /\ i[t] = 0
    BY <1>m, <2>1, ChildrenThreads DEF FrameInv, LoopInv
  <2>3. Goto(t, l) /\ (l = "done" \/ (l = "call" /\ 0 < Loops[t])) /\ l \in Labels
    BY <1>1 DEF MakeThread, LoopHead, Labels
  <2>4. UNCHANGED <<ringvars, localvars, joined, exit>>
    BY <1>1 DEF MakeThread
  <2>5. FrameInv'
    <3> SUFFICES ASSUME NEW k \in 1..Len(Children), k > made + 1
                 PROVE  pc'[Children[k]] = "new"
      BY <2>1 DEF FrameInv
    <3>1. Children[k] # t /\ Children[k] \in Threads /\ pc[Children[k]] = "new"
      BY <1>m, <2>1, ChildrenAssumption, ChildrenThreads DEF FrameInv
    <3> QED  BY <3>1, <2>2, <2>3, MovedTo
  <2> HIDE DEF t, l
  <2>6. \A s \in Threads : pc'[s] = IF s = t THEN l ELSE pc[s]
    BY <2>2, <2>3, MovedTo
  <2>7. TypeOK'
    <3>1. made' \in 0..Len(Children) /\ pc' \in [Threads -> Labels]
      BY <1>m, <2>1, <2>2, <2>3, MovedTo
    <3> QED  BY <2>4, <3>1 DEF TypeOK, RingTypeOK, ringvars, localvars
  <2>8. LoopInv'
    BY <2>2, <2>3, <2>4, <2>6 DEF LoopInv, localvars
  <2>9. (queue_full' <=> queue_full) /\ (queue_empty' <=> queue_empty)
    BY <2>4, SameContents
  <2>10. ProducerInv' /\ ConsumerInv'
    BY <2>3, <2>4, <2>6, <2>9, Kinds DEF ProducerInv, ConsumerInv, ringvars, localvars
  <2> QED  BY <2>5, <2>7, <2>8, <2>10
<1>2. CASE JoinThread
  <2>1. joined' \in 0..Len(Children)
    BY <1>2, <1>m DEF JoinThread
  <2> QED  BY <1>2, <1>e, <2>1, IdleInv DEF JoinThread
<1>3. CASE MakeThreadFails \/ \E t \in Threads : PerrorExit(t)
  BY <1>3, <1>m, IdleInv DEF MakeThreadFails, PerrorExit
<1> QED  BY <1>1, <1>2, <1>3

\* The invariant holds in every reachable state of a program with one pair.
THEOREM Invariance ==
    ASSUME OnePair
    PROVE  Spec => []Inv
<1>1. Init => Inv
  <2> SUFFICES ASSUME Init PROVE Inv
    OBVIOUS
  <2> USE DEF Init, RingInit
  <2>1. TypeOK
    BY QueueAssumption, ChildrenThreads DEF TypeOK, RingTypeOK, Labels, Slots
  <2>2. FrameInv /\ LoopInv /\ ProducerInv /\ ConsumerInv
    BY ChildrenThreads, Kinds DEF FrameInv, LoopInv, ProducerInv, ConsumerInv
  <2> QED  BY <2>1, <2>2 DEF Inv
<1>2. Inv /\ [Next]_vars => Inv'
  <2> SUFFICES ASSUME Inv, [Next]_vars PROVE Inv'
    OBVIOUS
  <2>1. CASE UNCHANGED vars
    <3>1. /\ joined' \in 0..Len(Children)
          /\ exit' \in {"no", "queue is full", "queue is empty", "pthread_create failed"}
      BY <2>1 DEF vars, mainvars, Inv, TypeOK, RingTypeOK
    <3> QED  BY <2>1, <3>1, IdleInv DEF vars, mainvars
  <2> QED  BY <2>1, PushInv, PopInv, MainInv DEF Next
<1> QED  BY <1>1, <1>2, PTL DEF Spec

\* Type correctness of queue.c, for any length of the queue and any loops.
THEOREM TypeCorrect ==
    ASSUME OnePair
    PROVE  Spec => []TypeOK
<1>1. Inv => TypeOK
  BY DEF Inv
<1> QED  BY <1>1, Invariance, PTL

\* Without any lock the producer of queue.c never writes the slot that the
\* consumer is reading.
THEOREM NoRaceOnSlots ==
    ASSUME OnePair
    PROVE  Spec => []SlotsDisjoint
<1>1. Inv => SlotsDisjoint
  BY DEF Inv, ConsumerInv, SlotsDisjoint, queue_empty
<1> QED  BY <1>1, Invariance, PTL
-----------------------------------------------------------------------------
(***************************************************************************)
(* The refinement of Fifo.  A push takes effect when it moves next_in, a   *)
(* pop when it moves next_out; everything else inside a call stutters.     *)
(***************************************************************************)

LEMMA PushRefines ==
    ASSUME Inv, exit = "no", NEW p \in Producers, Push(p)
    PROVE  Abstract!Next \/ UNCHANGED Abstract!vars
<1> USE DEF Inv
<1>p. p \in Threads /\ p \notin Consumers
  BY Kinds
<1>t. RingTypeOK
  BY DEF TypeOK
<1>l. pc[p] \notin {"new", "done"} => i[p] < Loops[p]
  BY <1>p DEF LoopInv
<1>1. CASE PushFull(p)
  <2>1. pc[p] = "call" /\ Goto(p, "exit") /\ "exit" \in Labels /\ queue_full
    BY <1>1 DEF PushFull, Labels
  <2>2. UNCHANGED <<ringvars, localvars, exit>>
    BY <1>1 DEF PushFull, mainvars
  <2>3. \A s \in Threads : pc'[s] = IF s = p THEN "exit" ELSE pc[s]
    BY <1>p, <2>1, MovedTo
  <2>4. Len(Contents) = Length
    BY <1>t, <2>1, ContentsType, CountRange
  <2>5. Sent[p] = i[p] /\ Sent' = Sent /\ consumed' = consumed
    BY <2>2 DEF Sent, localvars
  <2>6. Failing' = Failing \cup {p}
    BY <1>p, <2>3 DEF Failing
  <2>7. Abstract!Overflow(p)
    BY <1>l, <2>1, <2>2, <2>4, <2>5, <2>6, SameContents DEF Abstract!Overflow
  <2> QED  BY <2>7 DEF Abstract!Next
<1>2. CASE PushRoom(p) \/ PushStore(p)
  <2>1. PICK l \in Labels : Goto(p, l) /\ pc[p] # "exit" /\ l # "exit"
    BY <1>2 DEF PushRoom, PushStore, StoreItem, Labels
  <2>2. UNCHANGED <<localvars, exit>>
    BY <1>2 DEF PushRoom, PushStore, StoreItem, mainvars
  <2>3. Contents' = Contents
    BY <1>2, <1>t, SameContents, StoreKeepsContents DEF PushRoom, PushStore, StoreItem
  <2>4. \A s \in Threads : pc'[s] = IF s = p THEN l ELSE pc[s]
    BY <1>p, <2>1, MovedTo
  <2>5. Failing' = Failing
    BY <2>1, <2>4 DEF Failing
  <2> QED  BY <2>2, <2>3, <2>5 DEF Abstract!vars, Sent, localvars
<1>3. CASE PushIncr(p)
  <2>1. pc[p] = "incr" /\ NextIteration(p) /\ ~queue_full /\ array[next_in] = <<p, i[p]>>
    BY <1>3 DEF PushIncr, ProducerInv
  <2>2. AdvanceIn /\ UNCHANGED <<consumed, exit>>
    BY <1>3 DEF PushIncr, mainvars
  <2>3. PICK l \in Labels : Goto(p, l) /\ l # "exit"
    BY <2>1, LoopHeadLabel DEF NextIteration, Labels
  <2>4. \A s \in Threads : pc'[s] = IF s = p THEN l ELSE pc[s]
    BY <1>p, <2>3, MovedTo
  <2>5. Contents' = Append(Contents, <<p, i[p]>>) /\ Len(Contents) < Length
    BY <1>t, <2>1, <2>2, AdvanceInAppends, ContentsType
  <2>6. Sent[p] = i[p] /\ Sent' = [Sent EXCEPT ![p] = Sent[p] + 1]
    <3>1. \A s \in Threads : i'[s] = IF s = p THEN i[p] + 1 ELSE i[s]
      BY <1>p, <1>t, <2>1 DEF NextIteration, RingTypeOK
    <3> QED  BY <3>1, Kinds DEF Sent
  <2>7. Failing' = Failing /\ p \notin Failing
    BY <2>1, <2>3, <2>4 DEF Failing
  <2>8. Abstract!Send(p)
    BY <1>l, <2>1, <2>2, <2>5, <2>6, <2>7 DEF Abstract!Send
  <2> QED  BY <2>8 DEF Abstract!Next
<1> QED  BY <1>1, <1>2, <1>3 DEF Push

LEMMA PopRefines ==
    ASSUME Inv, exit = "no", NEW c \in Consumers, Pop(c)
    PROVE  Abstract!Next \/ UNCHANGED Abstract!vars
<1> USE DEF Inv
<1>c. c \in Threads /\ c \notin Producers
  BY Kinds
<1>t. RingTypeOK
  BY DEF TypeOK
<1>l. pc[c] \notin {"new", "done"} => Len(consumed[c]) < Loops[c]
  BY <1>c DEF LoopInv
<1>1. CASE PopEmpty(c)
  <2>1. pc[c] = "call" /\ Goto(c, "exit") /\ "exit" \in Labels /\ queue_empty
    BY <1>1 DEF PopEmpty, Labels
  <2>2. UNCHANGED <<ringvars, localvars, exit>>
    BY <1>1 DEF PopEmpty, mainvars
  <2>3. \A s \in Threads : pc'[s] = IF s = c THEN "exit" ELSE pc[s]
    BY <1>c, <2>1, MovedTo
  <2>4. Contents = <<>>
    <3>1. Count = 0
      BY <1>t, <2>1, CountRange
    <3> QED  BY <3>1 DEF Contents
  <2>5. Sent' = Sent /\ consumed' = consumed
    BY <2>2 DEF Sent, localvars
  <2>6. Failing' = Failing \cup {c}
    BY <1>c, <2>3 DEF Failing
  <2>7. Abstract!Underflow(c)
    BY <1>l, <2>1, <2>2, <2>4, <2>5, <2>6, SameContents DEF Abstract!Underflow
  <2> QED  BY <2>7 DEF Abstract!Next
<1>2. CASE PopSome(c) \/ PopLoad(c)
  <2>1. PICK l \in Labels : Goto(c, l) /\ pc[c] # "exit" /\ l # "exit"
    BY <1>2 DEF PopSome, PopLoad, LoadItem, Labels
  <2>2. UNCHANGED <<ringvars, i, consumed, exit>>
    BY <1>2 DEF PopSome, PopLoad, LoadItem, localvars, mainvars
  <2>3. \A s \in Threads : pc'[s] = IF s = c THEN l ELSE pc[s]
    BY <1>c, <2>1, MovedTo
  <2>4. Failing' = Failing
    BY <2>1, <2>3 DEF Failing
  <2> QED  BY <2>2, <2>4, SameContents DEF Abstract!vars, Sent
<1>3. CASE PopIncr(c)
  <2>1. pc[c] = "incr" /\ NextIteration(c) /\ ~queue_empty /\ item[c] = array[next_out]
    BY <1>3 DEF PopIncr, Consume, ConsumerInv
  <2>2. /\ AdvanceOut /\ exit' = exit
        /\ consumed' = [consumed EXCEPT ![c] = Append(consumed[c], item[c])]
    BY <1>3 DEF PopIncr, Consume, mainvars
  <2>3. PICK l \in Labels : Goto(c, l) /\ l # "exit"
    BY <2>1, LoopHeadLabel DEF NextIteration, Labels
  <2>4. \A s \in Threads : pc'[s] = IF s = c THEN l ELSE pc[s]
    BY <1>c, <2>3, MovedTo
  <2>5. Contents # <<>> /\ Contents' = Tail(Contents) /\ item[c] = Head(Contents)
    BY <1>t, <2>1, <2>2, AdvanceOutTakes
  <2>6. Sent' = Sent
    <3>1. \A p \in Producers : i'[p] = i[p]
      BY <1>c, <1>t, <2>1, Kinds DEF NextIteration, RingTypeOK
    <3> QED  BY <3>1 DEF Sent
  <2>7. Failing' = Failing /\ c \notin Failing
    BY <2>1, <2>3, <2>4 DEF Failing
  <2>8. Abstract!Receive(c)
    BY <1>l, <2>1, <2>2, <2>5, <2>6, <2>7 DEF Abstract!Receive
  <2> QED  BY <2>8 DEF Abstract!Next
<1> QED  BY <1>1, <1>2, <1>3 DEF Pop

LEMMA MainRefines ==
    ASSUME Inv, exit = "no",
           MakeThread \/ MakeThreadFails \/ JoinThread \/ \E t \in Threads : PerrorExit(t)
    PROVE  Abstract!Next \/ UNCHANGED Abstract!vars
<1> USE DEF Inv
<1>1. CASE MakeThread
  <2> DEFINE t == Children[made + 1]
             l == LoopHead(t, 0)
  <2>1. made + 1 \in 1..Len(Children) /\ made + 1 > made
    BY <1>1, ChildrenThreads DEF MakeThread, TypeOK, RingTypeOK
  <2>2. t \in Threads /\ pc[t] = "new"
    BY <2>1, ChildrenThreads DEF FrameInv
  <2>3. Goto(t, l) /\ l \in Labels /\ l # "exit"
    BY <1>1, LoopHeadLabel DEF MakeThread, Labels
  <2>4. UNCHANGED <<ringvars, localvars, exit>>
    BY <1>1 DEF MakeThread
  <2> HIDE DEF t, l
  <2>5. Failing' = Failing
    BY <2>2, <2>3, MovedTo DEF Failing
  <2> QED  BY <2>4, <2>5, SameContents DEF Abstract!vars, Sent, localvars
<1>2. CASE JoinThread
  BY <1>2, SameContents DEF JoinThread, localvars, Abstract!vars, Sent, Failing
<1>3. CASE MakeThreadFails \/ \E t \in Threads : PerrorExit(t)
  <2>1. UNCHANGED <<Contents, Sent, consumed, Failing>>
    BY <1>3, SameContents DEF MakeThreadFails, PerrorExit, localvars, Sent, Failing
  <2>2. \/ exit' = "pthread_create failed"
        \/ Failing \cap Producers # {} /\ exit' = "queue is full"
        \/ Failing \cap Consumers # {} /\ exit' = "queue is empty"
    BY <1>3 DEF MakeThreadFails, PerrorExit, Failing, Threads
  <2> QED  BY <2>1, <2>2 DEF Abstract!Next, Abstract!Exit
<1> QED  BY <1>1, <1>2, <1>3

\* The unlocked queue.c is a bounded FIFO queue between its two threads, for
\* every length of the queue and any loops.
THEOREM FifoImplemented ==
    ASSUME OnePair
    PROVE  Spec => ImplementsFifo
<1>1. Init => Abstract!Init
  <2> SUFFICES ASSUME Init PROVE Abstract!Init
    OBVIOUS
  <2>1. Contents = <<>>
    <3>1. Count = 0
      BY DEF Init, RingInit, Count
    <3> QED  BY <3>1 DEF Contents
  <2> QED  BY <2>1, Kinds DEF Init, RingInit, Abstract!Init, Sent, Failing
<1>2. Inv /\ [Next]_vars => [Abstract!Next]_(Abstract!vars)
  <2> SUFFICES ASSUME Inv, [Next]_vars
               PROVE  Abstract!Next \/ UNCHANGED Abstract!vars
    OBVIOUS
  <2>1. CASE UNCHANGED vars
    BY <2>1, SameContents DEF vars, localvars, mainvars, Abstract!vars, Sent, Failing
  <2> QED  BY <2>1, PushRefines, PopRefines, MainRefines DEF Next, Running
<1> QED  BY <1>1, <1>2, Invariance, PTL DEF Spec, ImplementsFifo, Abstract!Spec

-----------------------------------------------------------------------------
(***************************************************************************)
(* queue_mutex.c, for any number of producers and consumers.               *)
(***************************************************************************)

\* Where a thread holds the mutex.
Inside == {"check", "access", "incr", "unlock"}

\* A thread is inside only if the mutex names it.
HolderInv == \A t \in Threads : pc[t] \in Inside => mutex = t

MutexInv == M!TypeOK /\ FrameInv /\ LoopInv /\ HolderInv /\ ProducerInv /\ ConsumerInv

\* The ring of QueueMutex is the ring of this module.
LEMMA SameRing ==
    /\ M!Threads = Threads
    /\ M!RingTypeOK <=> RingTypeOK
    /\ M!RingTypeOK' <=> RingTypeOK'
    /\ M!queue_full <=> queue_full
    /\ M!queue_empty <=> queue_empty
    /\ M!Contents = Contents
    /\ M!Contents' = Contents'
    /\ M!AdvanceIn <=> AdvanceIn
    /\ M!AdvanceOut <=> AdvanceOut
<1> USE DEF M!Threads, Threads, M!queue_incr, queue_incr
<1>1. (M!RingTypeOK <=> RingTypeOK) /\ (M!RingTypeOK' <=> RingTypeOK')
  BY Zenon DEF M!RingTypeOK, RingTypeOK, M!Slots, Slots, M!Item, Item, M!NoItem, NoItem
<1>2. M!Contents = Contents /\ M!Contents' = Contents'
  BY Zenon DEF M!Contents, Contents, M!Count, Count, M!SlotAt, SlotAt
<1>3. (M!AdvanceIn <=> AdvanceIn) /\ (M!AdvanceOut <=> AdvanceOut)
  BY Zenon DEF M!AdvanceIn, AdvanceIn, M!AdvanceOut, AdvanceOut
<1>4. (M!queue_full <=> queue_full) /\ (M!queue_empty <=> queue_empty)
  BY Zenon DEF M!queue_full, queue_full, M!queue_empty, queue_empty
<1> QED  BY <1>1, <1>2, <1>3, <1>4

\* The loop of main.c and the accesses, likewise.
LEMMA SameThreads ==
    /\ \A t, l : M!Goto(t, l) <=> Goto(t, l)
    /\ \A t : M!NextIteration(t) <=> NextIteration(t)
    /\ \A t : M!Consume(t) <=> Consume(t)
    /\ \A t : M!StoreItem(t) <=> StoreItem(t)
    /\ \A t : M!LoadItem(t) <=> LoadItem(t)
    /\ \A t : M!PerrorExit(t) <=> PerrorExit(t)
    /\ M!MakeThread <=> MakeThread
    /\ M!MakeThreadFails <=> MakeThreadFails
    /\ M!JoinThread <=> JoinThread
    /\ M!Running <=> Running
<1> USE DEF M!Goto, Goto, M!LoopHead, LoopHead, M!NextIteration, NextIteration,
        M!ringvars, ringvars, M!localvars, localvars
<1>1. /\ \A t, l : M!Goto(t, l) <=> Goto(t, l)
      /\ \A t : M!NextIteration(t) <=> NextIteration(t)
      /\ \A t : M!Consume(t) <=> Consume(t)
  BY Zenon DEF M!Consume, Consume
<1>2. /\ \A t : M!StoreItem(t) <=> StoreItem(t)
      /\ \A t : M!LoadItem(t) <=> LoadItem(t)
  BY Zenon DEF M!StoreItem, StoreItem, M!LoadItem, LoadItem
<1>3. /\ \A t : M!PerrorExit(t) <=> PerrorExit(t)
      /\ M!MakeThread <=> MakeThread
      /\ M!MakeThreadFails <=> MakeThreadFails
      /\ M!JoinThread <=> JoinThread
      /\ M!Running <=> Running
  BY Zenon DEF M!PerrorExit, PerrorExit, M!MakeThread, MakeThread, M!MakeThreadFails,
               MakeThreadFails, M!JoinThread, JoinThread, M!Running, Running
<1> QED  BY <1>1, <1>2, <1>3

\* What every step of a call has in common: one thread moves to a label.
LEMMA MutexMoved ==
    ASSUME M!TypeOK, NEW t \in Threads, NEW l \in M!Labels, Goto(t, l)
    PROVE  /\ pc' \in [Threads -> M!Labels]
           /\ \A s \in Threads : pc'[s] = IF s = t THEN l ELSE pc[s]
BY SameRing DEF M!TypeOK, Goto

\* The thread inside is alone there, and so nobody else is moved by its step.
LEMMA HolderAlone ==
    ASSUME Free \notin Threads, HolderInv, NEW t \in Threads, mutex = t \/ mutex = Free,
           NEW s \in Threads, s # t
    PROVE  pc[s] \notin Inside
BY DEF HolderInv

\* After a step of t alone.
LEMMA HolderAfterMove ==
    ASSUME Free \notin Threads, HolderInv, NEW t \in Threads, NEW l,
           mutex = t \/ mutex = Free,
           \A s \in Threads : pc'[s] = IF s = t THEN l ELSE pc[s],
           l \in Inside => mutex' = t
    PROVE  /\ HolderInv'
           /\ \A s \in Threads : s # t => pc'[s] \notin Inside
BY HolderAlone DEF HolderInv

\* A step of t before its access, or its unlock: only pc and the mutex change.
LEMMA MutexQuiet ==
    ASSUME Free \notin Threads, MutexInv, NEW t \in Threads, NEW l \in M!Labels, Goto(t, l),
           UNCHANGED <<ringvars, localvars, mainvars>>, mutex = t \/ mutex = Free,
           mutex' \in {t, Free}, pc[t] \notin {"new", "done"}, l \in {"check", "exit", "access"},
           l \in Inside => mutex' = t,
           l = "access" => IF t \in Producers THEN ~queue_full ELSE ~queue_empty
    PROVE  MutexInv'
<1> USE DEF MutexInv
<1>1. /\ pc' \in [Threads -> M!Labels]
      /\ \A s \in Threads : pc'[s] = IF s = t THEN l ELSE pc[s]
  BY MutexMoved
<1>2. M!TypeOK'
  <2>1. RingTypeOK'
    BY SameRing DEF M!TypeOK, RingTypeOK, ringvars, localvars, mainvars
  <2> QED  BY <1>1, <2>1, SameRing DEF M!TypeOK
<1>3. FrameInv' /\ LoopInv'
  BY <1>1, FrameAfterMove, LoopAfterMove DEF mainvars, localvars
<1>4. HolderInv' /\ \A s \in Threads : s # t => pc'[s] \notin Inside
  BY <1>1, HolderAfterMove
<1>5. (queue_full' <=> queue_full) /\ (queue_empty' <=> queue_empty)
  BY SameContents
<1>6. ProducerInv'
  BY <1>1, <1>4, <1>5, Kinds DEF ProducerInv, Inside
<1>7. ConsumerInv'
  BY <1>1, <1>4, <1>5, Kinds DEF ConsumerInv, Inside
<1> QED  BY <1>2, <1>3, <1>4, <1>6, <1>7

\* The steps that both kinds of thread take in the same way.
LEMMA MutexTestInv ==
    ASSUME Free \notin Threads, MutexInv, NEW t \in Threads,
           M!Lock(t) \/ M!Refuse(t) \/ M!Accept(t)
    PROVE  MutexInv'
<1>h. pc[t] = "check" => mutex = t
  BY DEF MutexInv, HolderInv, Inside
<1>1. CASE M!Lock(t)
  <2>1. /\ pc[t] = "call" /\ mutex = Free /\ mutex' = t /\ Goto(t, "check")
        /\ "check" \in M!Labels /\ UNCHANGED <<ringvars, localvars, mainvars>>
    BY <1>1, SameThreads DEF M!Lock, M!Labels, M!ringvars, M!localvars, M!mainvars,
       ringvars, localvars, mainvars
  <2> QED  BY <2>1, MutexQuiet
<1>2. CASE M!Refuse(t)
  <2>1. /\ pc[t] = "check" /\ mutex' = Free /\ Goto(t, "exit")
        /\ "exit" \in M!Labels /\ UNCHANGED <<ringvars, localvars, mainvars>>
    BY <1>2, SameThreads DEF M!Refuse, M!Labels, M!ringvars, M!localvars, M!mainvars,
       ringvars, localvars, mainvars
  <2> QED  BY <1>h, <2>1, MutexQuiet DEF Inside
<1>3. CASE M!Accept(t)
  <2>1. /\ pc[t] = "check" /\ mutex' = mutex /\ Goto(t, "access") /\ ~M!Refuses(t)
        /\ "access" \in M!Labels /\ UNCHANGED <<ringvars, localvars, mainvars>>
    BY <1>3, SameThreads DEF M!Accept, M!Labels, M!ringvars, M!localvars, M!mainvars,
       ringvars, localvars, mainvars
  <2>2. IF t \in Producers THEN ~queue_full ELSE ~queue_empty
    BY <2>1, SameRing DEF M!Refuses
  <2> QED  BY <1>h, <2>1, <2>2, MutexQuiet
<1> QED  BY <1>1, <1>2, <1>3

\* The producer's steps after its test.
LEMMA MutexPushInv ==
    ASSUME Free \notin Threads, MutexInv, NEW p \in Producers,
           M!PushStore(p) \/ M!PushIncr(p) \/ M!PushUnlock(p)
    PROVE  MutexInv'
<1> USE DEF MutexInv
<1>p. p \in Threads /\ p \notin Consumers
  BY Kinds
<1>t. RingTypeOK /\ pc \in [Threads -> M!Labels] /\ mutex \in Threads \cup {Free}
  BY SameRing DEF M!TypeOK
<1>l. {"incr", "unlock", "call", "done"} \subseteq M!Labels
  BY DEF M!Labels
<1>1. CASE M!PushStore(p)
  <2>1. /\ pc[p] = "access" /\ Goto(p, "incr") /\ mutex' = mutex
        /\ UNCHANGED <<next_in, next_out, localvars, mainvars>>
        /\ array' = [array EXCEPT ![next_in] = <<p, i[p]>>]
    BY <1>1, SameThreads DEF M!PushStore, StoreItem, M!mainvars, mainvars
  <2>2. mutex = p /\ ~queue_full
    BY <1>p, <2>1 DEF HolderInv, Inside, ProducerInv
  <2>3. /\ pc' \in [Threads -> M!Labels]
        /\ \A s \in Threads : pc'[s] = IF s = p THEN "incr" ELSE pc[s]
    BY <1>p, <1>l, <2>1, MutexMoved
  <2>4. <<p, i[p]>> \in Item
    BY <1>p, <1>t DEF Item, RingTypeOK
  <2>5. M!TypeOK'
    <3>1. RingTypeOK'
      BY <1>t, <2>1, <2>4 DEF RingTypeOK, localvars, mainvars
    <3> QED  BY <1>t, <2>1, <2>3, <3>1, SameRing DEF M!TypeOK
  <2>6. FrameInv' /\ LoopInv'
    BY <1>p, <2>1, <2>3, FrameAfterMove, LoopAfterMove DEF mainvars, localvars
  <2>7. HolderInv' /\ \A s \in Threads : s # p => pc'[s] \notin Inside
    BY <1>p, <2>1, <2>2, <2>3, HolderAfterMove
  <2>8. queue_full' <=> queue_full
    BY <2>1 DEF queue_full, queue_incr
  <2>9. array'[next_in'] = <<p, i'[p]>>
    BY <1>t, <2>1 DEF RingTypeOK, localvars
  <2>10. ProducerInv' /\ ConsumerInv'
    BY <1>p, <2>2, <2>7, <2>8, <2>9, Kinds DEF ProducerInv, ConsumerInv, Inside
  <2> QED  BY <2>5, <2>6, <2>7, <2>10
<1>2. CASE M!PushIncr(p)
  <2>1. /\ pc[p] = "incr" /\ Goto(p, "unlock") /\ mutex' = mutex
        /\ AdvanceIn /\ UNCHANGED <<localvars, mainvars>>
    BY <1>2, SameRing, SameThreads DEF M!PushIncr, M!localvars, localvars, M!mainvars, mainvars
  <2>2. mutex = p
    BY <1>p, <2>1 DEF HolderInv, Inside
  <2>3. /\ pc' \in [Threads -> M!Labels]
        /\ \A s \in Threads : pc'[s] = IF s = p THEN "unlock" ELSE pc[s]
    BY <1>p, <1>l, <2>1, MutexMoved
  <2>4. queue_incr(next_in) \in Slots
    BY <1>t, IncrSlot DEF RingTypeOK
  <2>5. M!TypeOK'
    <3>1. RingTypeOK'
      BY <1>t, <2>1, <2>4 DEF RingTypeOK, AdvanceIn, localvars, mainvars
    <3> QED  BY <1>t, <2>1, <2>3, <3>1, SameRing DEF M!TypeOK
  <2>6. FrameInv' /\ LoopInv'
    BY <1>p, <2>1, <2>3, FrameAfterMove, LoopAfterMove DEF mainvars, localvars
  <2>7. HolderInv' /\ \A s \in Threads : s # p => pc'[s] \notin Inside
    BY <1>p, <2>1, <2>2, <2>3, HolderAfterMove
  <2>8. ProducerInv' /\ ConsumerInv'
    BY <1>p, <2>3, <2>7, Kinds DEF ProducerInv, ConsumerInv, Inside
  <2> QED  BY <2>5, <2>6, <2>7, <2>8
<1>3. CASE M!PushUnlock(p)
  <2>1. /\ pc[p] = "unlock" /\ mutex' = Free /\ NextIteration(p)
        /\ UNCHANGED <<ringvars, item, consumed, mainvars>>
    BY <1>3, SameThreads DEF M!PushUnlock, M!ringvars, ringvars, M!mainvars, mainvars
  <2>2. mutex = p
    BY <1>p, <2>1 DEF HolderInv, Inside
  <2>3. PICK l : Goto(p, l) /\ l \in {"call", "done"}
    BY <2>1, LoopHeadLabel DEF NextIteration
  <2>4. /\ pc' \in [Threads -> M!Labels]
        /\ \A s \in Threads : pc'[s] = IF s = p THEN l ELSE pc[s]
    BY <1>p, <1>l, <2>3, MutexMoved
  <2>5. LoopInv' /\ i' \in [Threads -> Nat]
    BY <1>p, <1>t, <1>l, <2>1, Iteration
  <2>6. M!TypeOK'
    <3>1. RingTypeOK'
      BY <1>t, <2>1, <2>5 DEF RingTypeOK, ringvars, mainvars
    <3> QED  BY <2>1, <2>4, <3>1, SameRing DEF M!TypeOK
  <2>7. FrameInv'
    BY <1>p, <2>1, <2>4, FrameAfterMove DEF mainvars
  <2>8. HolderInv' /\ \A s \in Threads : s # p => pc'[s] \notin Inside
    BY <1>p, <2>2, <2>3, <2>4, HolderAfterMove DEF Inside
  <2>9. ProducerInv' /\ ConsumerInv'
    BY <1>p, <2>3, <2>4, <2>8, Kinds DEF ProducerInv, ConsumerInv, Inside
  <2> QED  BY <2>5, <2>6, <2>7, <2>8, <2>9
<1> QED  BY <1>1, <1>2, <1>3

\* The consumer's steps after its test.
LEMMA MutexPopInv ==
    ASSUME Free \notin Threads, MutexInv, NEW c \in Consumers,
           M!PopLoad(c) \/ M!PopIncr(c) \/ M!PopUnlock(c)
    PROVE  MutexInv'
<1> USE DEF MutexInv
<1>c. c \in Threads /\ c \notin Producers
  BY Kinds
<1>t. RingTypeOK /\ pc \in [Threads -> M!Labels] /\ mutex \in Threads \cup {Free}
  BY SameRing DEF M!TypeOK
<1>l. {"incr", "unlock", "call", "done"} \subseteq M!Labels
  BY DEF M!Labels
<1>1. CASE M!PopLoad(c)
  <2>1. /\ pc[c] = "access" /\ Goto(c, "incr") /\ mutex' = mutex
        /\ UNCHANGED <<ringvars, i, consumed, mainvars>>
        /\ item' = [item EXCEPT ![c] = array[next_out]]
    BY <1>1, SameThreads DEF M!PopLoad, LoadItem, M!mainvars, mainvars
  <2>2. mutex = c /\ ~queue_empty
    BY <1>c, <2>1 DEF HolderInv, Inside, ConsumerInv
  <2>3. /\ pc' \in [Threads -> M!Labels]
        /\ \A s \in Threads : pc'[s] = IF s = c THEN "incr" ELSE pc[s]
    BY <1>c, <1>l, <2>1, MutexMoved
  <2>4. item' \in [Consumers -> Item \cup {NoItem}]
    BY <1>t, <2>1 DEF RingTypeOK
  <2>5. M!TypeOK'
    <3>1. RingTypeOK'
      BY <1>t, <2>1, <2>4 DEF RingTypeOK, ringvars, mainvars
    <3> QED  BY <1>t, <2>1, <2>3, <3>1, SameRing DEF M!TypeOK
  <2>6. FrameInv' /\ LoopInv'
    BY <1>c, <2>1, <2>3, FrameAfterMove, LoopAfterMove DEF mainvars
  <2>7. HolderInv' /\ \A s \in Threads : s # c => pc'[s] \notin Inside
    BY <1>c, <2>1, <2>2, <2>3, HolderAfterMove
  <2>8. queue_empty' <=> queue_empty
    BY <2>1, SameContents
  <2>9. item'[c] = array'[next_out']
    BY <1>t, <2>1 DEF RingTypeOK, ringvars
  <2>10. ProducerInv' /\ ConsumerInv'
    BY <1>c, <2>2, <2>7, <2>8, <2>9, Kinds DEF ProducerInv, ConsumerInv, Inside
  <2> QED  BY <2>5, <2>6, <2>7, <2>10
<1>2. CASE M!PopIncr(c)
  <2>1. /\ pc[c] = "incr" /\ Goto(c, "unlock") /\ mutex' = mutex
        /\ AdvanceOut /\ UNCHANGED <<localvars, mainvars>>
    BY <1>2, SameRing, SameThreads DEF M!PopIncr, M!localvars, localvars, M!mainvars, mainvars
  <2>2. mutex = c
    BY <1>c, <2>1 DEF HolderInv, Inside
  <2>3. /\ pc' \in [Threads -> M!Labels]
        /\ \A s \in Threads : pc'[s] = IF s = c THEN "unlock" ELSE pc[s]
    BY <1>c, <1>l, <2>1, MutexMoved
  <2>4. queue_incr(next_out) \in Slots
    BY <1>t, IncrSlot DEF RingTypeOK
  <2>5. M!TypeOK'
    <3>1. RingTypeOK'
      BY <1>t, <2>1, <2>4 DEF RingTypeOK, AdvanceOut, localvars, mainvars
    <3> QED  BY <1>t, <2>1, <2>3, <3>1, SameRing DEF M!TypeOK
  <2>6. FrameInv' /\ LoopInv'
    BY <1>c, <2>1, <2>3, FrameAfterMove, LoopAfterMove DEF mainvars, localvars
  <2>7. HolderInv' /\ \A s \in Threads : s # c => pc'[s] \notin Inside
    BY <1>c, <2>1, <2>2, <2>3, HolderAfterMove
  <2>8. ProducerInv' /\ ConsumerInv'
    BY <1>c, <2>3, <2>7, Kinds DEF ProducerInv, ConsumerInv, Inside
  <2> QED  BY <2>5, <2>6, <2>7, <2>8
<1>3. CASE M!PopUnlock(c)
  <2>1. /\ pc[c] = "unlock" /\ mutex' = Free /\ NextIteration(c)
        /\ consumed' = [consumed EXCEPT ![c] = Append(@, item[c])]
        /\ UNCHANGED <<ringvars, item, mainvars>>
    BY <1>3, SameThreads DEF M!PopUnlock, Consume, M!ringvars, ringvars, M!mainvars, mainvars
  <2>2. mutex = c
    BY <1>c, <2>1 DEF HolderInv, Inside
  <2>3. PICK l : Goto(c, l) /\ l \in {"call", "done"}
    BY <2>1, LoopHeadLabel DEF NextIteration
  <2>4. /\ pc' \in [Threads -> M!Labels]
        /\ \A s \in Threads : pc'[s] = IF s = c THEN l ELSE pc[s]
    BY <1>c, <1>l, <2>3, MutexMoved
  <2>5. /\ LoopInv' /\ i' \in [Threads -> Nat]
        /\ consumed' \in [Consumers -> Seq(Item \cup {NoItem})]
    BY <1>c, <1>t, <1>l, <2>1, Iteration
  <2>6. M!TypeOK'
    <3>1. RingTypeOK'
      BY <1>t, <2>1, <2>5 DEF RingTypeOK, ringvars, mainvars
    <3> QED  BY <2>1, <2>4, <3>1, SameRing DEF M!TypeOK
  <2>7. FrameInv'
    BY <1>c, <2>1, <2>4, FrameAfterMove DEF mainvars
  <2>8. HolderInv' /\ \A s \in Threads : s # c => pc'[s] \notin Inside
    BY <1>c, <2>2, <2>3, <2>4, HolderAfterMove DEF Inside
  <2>9. ProducerInv' /\ ConsumerInv'
    BY <1>c, <2>3, <2>4, <2>8, Kinds DEF ProducerInv, ConsumerInv, Inside
  <2> QED  BY <2>5, <2>6, <2>7, <2>8, <2>9
<1> QED  BY <1>1, <1>2, <1>3

\* A step that changes nothing the threads rely on.
LEMMA MutexIdleInv ==
    ASSUME MutexInv, UNCHANGED <<ringvars, pc, localvars, made, mutex>>,
           joined' \in 0..Len(Children),
           exit' \in {"no", "queue is full", "queue is empty", "pthread_create failed"}
    PROVE  MutexInv'
<1> USE DEF MutexInv, ringvars, localvars
<1>1. M!TypeOK'
  <2>1. RingTypeOK'
    BY SameRing DEF M!TypeOK, RingTypeOK
  <2> QED  BY <2>1, SameRing DEF M!TypeOK
<1>2. FrameInv' /\ LoopInv' /\ HolderInv'
  BY DEF FrameInv, LoopInv, HolderInv
<1>3. queue_full' = queue_full /\ queue_empty' = queue_empty
  BY SameContents
<1>4. ProducerInv' /\ ConsumerInv'
  BY <1>3 DEF ProducerInv, ConsumerInv
<1> QED  BY <1>1, <1>2, <1>4

\* main's steps and perror_exit.
LEMMA MutexMainInv ==
    ASSUME MutexInv, mutex' = mutex,
           MakeThread \/ MakeThreadFails \/ JoinThread \/ \E t \in Threads : PerrorExit(t)
    PROVE  MutexInv'
<1> USE DEF MutexInv
<1>t. RingTypeOK /\ pc \in [Threads -> M!Labels] /\ mutex \in Threads \cup {Free}
  BY SameRing DEF M!TypeOK
<1>m. Len(Children) \in Nat /\ made \in 0..Len(Children) /\ joined \in 0..Len(Children)
  BY <1>t, ChildrenThreads DEF RingTypeOK
<1>e. exit \in {"no", "queue is full", "queue is empty", "pthread_create failed"}
  BY <1>t DEF RingTypeOK
<1>1. CASE MakeThread
  <2> DEFINE t == Children[made + 1]
             l == LoopHead(t, 0)
  <2>1. made + 1 \in 1..Len(Children) /\ made' = made + 1
    BY <1>1, <1>m DEF MakeThread
  <2>2. t \in Threads /\ pc[t] = "new" /\ i[t] = 0
    BY <1>m, <2>1, ChildrenThreads DEF FrameInv, LoopInv
  <2>3. Goto(t, l) /\ (l = "done" \/ (l = "call" /\ 0 < Loops[t])) /\ l \in M!Labels
    BY <1>1 DEF MakeThread, LoopHead, M!Labels
  <2>4. UNCHANGED <<ringvars, localvars, joined, exit>>
    BY <1>1 DEF MakeThread
  <2>5. FrameInv'
    <3> SUFFICES ASSUME NEW k \in 1..Len(Children), k > made + 1
                 PROVE  pc'[Children[k]] = "new"
      BY <2>1 DEF FrameInv
    <3>1. Children[k] # t /\ Children[k] \in Threads /\ pc[Children[k]] = "new"
      BY <1>m, <2>1, ChildrenAssumption, ChildrenThreads DEF FrameInv
    <3> QED  BY <3>1, <2>2, <2>3, MutexMoved
  <2> HIDE DEF t, l
  <2>6. /\ pc' \in [Threads -> M!Labels]
        /\ \A s \in Threads : pc'[s] = IF s = t THEN l ELSE pc[s]
    BY <2>2, <2>3, MutexMoved
  <2>7. M!TypeOK'
    <3>1. made' \in 0..Len(Children)
      BY <1>m, <2>1
    <3>2. RingTypeOK'
      BY <1>t, <2>4, <3>1 DEF RingTypeOK, ringvars, localvars
    <3> QED  BY <1>t, <2>6, <3>2, SameRing DEF M!TypeOK
  <2>8. LoopInv' /\ HolderInv'
    BY <2>2, <2>3, <2>4, <2>6 DEF LoopInv, HolderInv, localvars, Inside
  <2>9. (queue_full' <=> queue_full) /\ (queue_empty' <=> queue_empty)
    BY <2>4, SameContents
  <2>10. ProducerInv' /\ ConsumerInv'
    BY <2>3, <2>4, <2>6, <2>9, Kinds DEF ProducerInv, ConsumerInv, ringvars, localvars
  <2> QED  BY <2>5, <2>7, <2>8, <2>10
<1>2. CASE JoinThread
  <2>1. joined' \in 0..Len(Children)
    BY <1>2, <1>m DEF JoinThread
  <2> QED  BY <1>2, <1>e, <2>1, MutexIdleInv DEF JoinThread
<1>3. CASE MakeThreadFails \/ \E t \in Threads : PerrorExit(t)
  BY <1>3, <1>m, MutexIdleInv DEF MakeThreadFails, PerrorExit
<1> QED  BY <1>1, <1>2, <1>3

\* The invariant of queue_mutex.c, for any number of threads.
THEOREM MutexInvariance ==
    ASSUME Free \notin Threads
    PROVE  M!Spec => []MutexInv
<1>1. M!Init => MutexInv
  <2> SUFFICES ASSUME M!Init PROVE MutexInv
    OBVIOUS
  <2>1. RingInit /\ mutex = Free
    BY SameRing, Zenon DEF M!Init, M!RingInit, RingInit, M!Slots, Slots, M!NoItem, NoItem
  <2>2. RingTypeOK
    BY <2>1, QueueAssumption, ChildrenThreads DEF RingInit, RingTypeOK, Slots
  <2>3. M!TypeOK
    BY <2>1, <2>2, SameRing DEF M!TypeOK, RingInit, M!Labels
  <2>4. FrameInv /\ LoopInv /\ HolderInv /\ ProducerInv /\ ConsumerInv
    BY <2>1, ChildrenThreads, Kinds
    DEF RingInit, FrameInv, LoopInv, HolderInv, Inside, ProducerInv, ConsumerInv
  <2> QED  BY <2>3, <2>4 DEF MutexInv
<1>2. MutexInv /\ [M!Next]_(M!vars) => MutexInv'
  <2> SUFFICES ASSUME MutexInv, [M!Next]_(M!vars) PROVE MutexInv'
    OBVIOUS
  <2>1. CASE UNCHANGED M!vars
    <3>1. UNCHANGED <<ringvars, pc, localvars, mainvars, mutex>>
      BY <2>1 DEF M!vars, M!ringvars, M!localvars, M!mainvars, ringvars, localvars, mainvars
    <3>2. /\ joined' \in 0..Len(Children)
          /\ exit' \in {"no", "queue is full", "queue is empty", "pthread_create failed"}
      BY <3>1, SameRing DEF mainvars, MutexInv, M!TypeOK, RingTypeOK
    <3> QED  BY <3>1, <3>2, MutexIdleInv DEF mainvars
  <2>2. ASSUME NEW p \in Producers, M!Push(p) PROVE MutexInv'
    BY <2>2, Kinds, MutexTestInv, MutexPushInv DEF M!Push
  <2>3. ASSUME NEW c \in Consumers, M!Pop(c) PROVE MutexInv'
    BY <2>3, Kinds, MutexTestInv, MutexPopInv DEF M!Pop
  <2>4. CASE mutex' = mutex /\ (\/ \E t \in Threads : M!PerrorExit(t)
                               \/ M!MakeThread \/ M!MakeThreadFails \/ M!JoinThread)
    BY <2>4, SameThreads, MutexMainInv
  <2> QED  BY <2>1, <2>2, <2>3, <2>4, SameRing DEF M!Next
<1> QED  BY <1>1, <1>2, PTL DEF M!Spec

\* Type correctness of queue_mutex.c.
THEOREM MutexTypeCorrect ==
    ASSUME Free \notin Threads
    PROVE  M!Spec => []M!TypeOK
<1>1. MutexInv => M!TypeOK
  BY DEF MutexInv
<1> QED  BY <1>1, MutexInvariance, PTL

-----------------------------------------------------------------------------
(***************************************************************************)
(* The refinement of Fifo by queue_mutex.c.  A push takes effect when it   *)
(* moves next_in, a pop when it moves next_out, both before the unlock;    *)
(* the loop of the thread counts only after it.                            *)
(***************************************************************************)
MutexSent == [p \in Producers |-> IF pc[p] = "unlock" THEN i[p] + 1 ELSE i[p]]
MutexReceived ==
    [c \in Consumers |-> IF pc[c] = "unlock" THEN Append(consumed[c], item[c])
                                             ELSE consumed[c]]

\* The mapping of QueueMutex, in this module's names.
LEMMA MutexMapping ==
    /\ M!Abstract!vars = <<Contents, MutexSent, MutexReceived, Failing, exit>>
    /\ M!Abstract!vars' = <<Contents', MutexSent', MutexReceived', Failing', exit'>>
BY SameRing, Zenon DEF M!Abstract!vars, MutexSent, MutexReceived, Failing

\* A thread that moves neither to nor from "unlock" or "exit" stutters.
LEMMA MutexStutters ==
    ASSUME UNCHANGED <<Contents, i, item, consumed, exit>>, NEW t \in Threads, NEW l,
           \A s \in Threads : pc'[s] = IF s = t THEN l ELSE pc[s],
           pc[t] \notin {"unlock", "exit"}, l \notin {"unlock", "exit"}
    PROVE  UNCHANGED M!Abstract!vars
<1>1. \A s \in Threads : /\ pc'[s] = "unlock" <=> pc[s] = "unlock"
                         /\ pc'[s] = "exit" <=> pc[s] = "exit"
  OBVIOUS
<1>2. MutexSent' = MutexSent /\ MutexReceived' = MutexReceived
  BY <1>1, Kinds DEF MutexSent, MutexReceived
<1>3. Failing' = Failing
  BY <1>1 DEF Failing
<1> QED  BY <1>2, <1>3, MutexMapping

LEMMA MutexTestRefines ==
    ASSUME MutexInv, exit = "no", NEW t \in Threads, M!Lock(t) \/ M!Refuse(t) \/ M!Accept(t)
    PROVE  M!Abstract!Next \/ UNCHANGED M!Abstract!vars
<1> USE DEF MutexInv
<1>t. RingTypeOK /\ Loops \in [Threads -> Nat]
  BY QueueAssumption, SameRing DEF M!TypeOK
<1>s. UNCHANGED <<ringvars, localvars, exit>>
  BY DEF M!Lock, M!Refuse, M!Accept, M!ringvars, M!localvars, M!mainvars, ringvars, localvars
<1>c. Contents' = Contents
  BY <1>s, SameContents
<1>1. CASE M!Lock(t) \/ M!Accept(t)
  <2>1. PICK l \in M!Labels : /\ Goto(t, l) /\ pc[t] \notin {"unlock", "exit"}
                             /\ l \notin {"unlock", "exit"}
    BY <1>1, SameThreads DEF M!Lock, M!Accept, M!Labels
  <2>2. \A s \in Threads : pc'[s] = IF s = t THEN l ELSE pc[s]
    BY <2>1, MutexMoved
  <2> QED  BY <1>s, <1>c, <2>1, <2>2, MutexStutters DEF localvars
<1>2. CASE M!Refuse(t)
  <2>1. pc[t] = "check" /\ Goto(t, "exit") /\ "exit" \in M!Labels /\ M!Refuses(t)
    BY <1>2, SameThreads DEF M!Refuse, M!Labels
  <2>2. \A s \in Threads : pc'[s] = IF s = t THEN "exit" ELSE pc[s]
    BY <2>1, MutexMoved
  <2>3. \A s \in Threads : pc'[s] = "unlock" <=> pc[s] = "unlock"
    BY <2>1, <2>2
  <2>4. MutexSent' = MutexSent /\ MutexReceived' = MutexReceived
    BY <1>s, <2>3, Kinds DEF MutexSent, MutexReceived, localvars
  <2>5. Failing' = Failing \cup {t}
    BY <2>2 DEF Failing
  <2>6. i[t] < Loops[t]
    BY <2>1 DEF LoopInv
  <2>7. CASE t \in Producers
    <3>1. Len(Contents) = Length
      BY <1>t, <2>1, <2>7, SameRing, ContentsType, CountRange DEF M!Refuses
    <3>2. MutexSent[t] < Loops[t]
      BY <2>1, <2>6, <2>7 DEF MutexSent
    <3>3. M!Abstract!Overflow(t)
      BY <1>s, <1>c, <2>4, <2>5, <3>1, <3>2, SameRing
      DEF M!Abstract!Overflow, MutexSent, MutexReceived, Failing
    <3> QED  BY <2>7, <3>3 DEF M!Abstract!Next
  <2>8. CASE t \in Consumers
    <3>1. Contents = <<>>
      <4>1. Count = 0
        BY <1>t, <2>1, <2>8, SameRing, CountRange, Kinds DEF M!Refuses
      <4> QED  BY <4>1 DEF Contents
    <3>2. Len(MutexReceived[t]) < Loops[t]
      BY <2>1, <2>6, <2>8 DEF MutexReceived, LoopInv
    <3>3. M!Abstract!Underflow(t)
      BY <1>s, <1>c, <2>4, <2>5, <3>1, <3>2, SameRing
      DEF M!Abstract!Underflow, MutexSent, MutexReceived, Failing
    <3> QED  BY <2>8, <3>3 DEF M!Abstract!Next
  <2> QED  BY <2>7, <2>8 DEF Threads
<1> QED  BY <1>1, <1>2

LEMMA MutexPushRefines ==
    ASSUME MutexInv, exit = "no", NEW p \in Producers,
           M!PushStore(p) \/ M!PushIncr(p) \/ M!PushUnlock(p)
    PROVE  M!Abstract!Next \/ UNCHANGED M!Abstract!vars
<1> USE DEF MutexInv
<1>p. p \in Threads /\ p \notin Consumers
  BY Kinds
<1>t. RingTypeOK /\ Loops \in [Threads -> Nat]
  BY QueueAssumption, SameRing DEF M!TypeOK
<1>l. {"incr", "unlock", "call", "done"} \subseteq M!Labels
  BY DEF M!Labels
<1>1. CASE M!PushStore(p)
  <2>1. /\ pc[p] = "access" /\ Goto(p, "incr")
        /\ UNCHANGED <<next_in, next_out, localvars, exit>>
        /\ array' = [array EXCEPT ![next_in] = <<p, i[p]>>]
    BY <1>1, SameThreads DEF M!PushStore, StoreItem, M!mainvars
  <2>2. \A s \in Threads : pc'[s] = IF s = p THEN "incr" ELSE pc[s]
    BY <1>p, <1>l, <2>1, MutexMoved
  <2>3. Contents' = Contents
    BY <1>t, <2>1, StoreKeepsContents
  <2> QED  BY <1>p, <2>1, <2>2, <2>3, MutexStutters DEF localvars
<1>2. CASE M!PushIncr(p)
  <2>1. pc[p] = "incr" /\ Goto(p, "unlock") /\ ~queue_full /\ array[next_in] = <<p, i[p]>>
    BY <1>2, SameThreads DEF M!PushIncr, ProducerInv
  <2>2. AdvanceIn /\ UNCHANGED <<localvars, exit>>
    BY <1>2, SameRing DEF M!PushIncr, M!localvars, localvars, M!mainvars
  <2>3. \A s \in Threads : pc'[s] = IF s = p THEN "unlock" ELSE pc[s]
    BY <1>p, <1>l, <2>1, MutexMoved
  <2>4. Contents' = Append(Contents, <<p, i[p]>>) /\ Len(Contents) < Length
    BY <1>t, <2>1, <2>2, AdvanceInAppends, ContentsType
  <2>5. MutexSent[p] = i[p] /\ MutexSent' = [MutexSent EXCEPT ![p] = MutexSent[p] + 1]
    BY <1>p, <2>1, <2>2, <2>3, Kinds DEF MutexSent, localvars
  <2>6. MutexReceived' = MutexReceived
    BY <1>p, <2>2, <2>3, Kinds DEF MutexReceived, localvars
  <2>7. Failing' = Failing /\ p \notin Failing
    BY <2>1, <2>3 DEF Failing
  <2>8. MutexSent[p] < Loops[p]
    BY <1>p, <2>1, <2>5 DEF LoopInv
  <2>9. M!Abstract!Send(p)
    BY <2>1, <2>2, <2>4, <2>5, <2>6, <2>7, <2>8, SameRing
    DEF M!Abstract!Send, MutexSent, MutexReceived, Failing
  <2> QED  BY <2>9 DEF M!Abstract!Next
<1>3. CASE M!PushUnlock(p)
  <2>1. /\ pc[p] = "unlock" /\ NextIteration(p)
        /\ UNCHANGED <<ringvars, item, consumed, exit>>
    BY <1>3, SameThreads DEF M!PushUnlock, M!ringvars, ringvars, M!mainvars
  <2>2. PICK l : Goto(p, l) /\ l \in {"call", "done"}
    BY <2>1, LoopHeadLabel DEF NextIteration
  <2>3. \A s \in Threads : pc'[s] = IF s = p THEN l ELSE pc[s]
    BY <1>p, <1>l, <2>2, MutexMoved
  <2>4. \A s \in Threads : i'[s] = IF s = p THEN i[p] + 1 ELSE i[s]
    BY <1>p, <1>t, <2>1 DEF NextIteration, RingTypeOK
  <2>5. MutexSent' = MutexSent
    BY <1>p, <2>1, <2>2, <2>3, <2>4, Kinds DEF MutexSent
  <2>6. MutexReceived' = MutexReceived
    BY <1>p, <2>1, <2>3, Kinds DEF MutexReceived
  <2>7. Failing' = Failing
    BY <2>1, <2>2, <2>3 DEF Failing
  <2> QED  BY <2>1, <2>5, <2>6, <2>7, SameContents, MutexMapping
<1> QED  BY <1>1, <1>2, <1>3

LEMMA MutexPopRefines ==
    ASSUME MutexInv, exit = "no", NEW c \in Consumers,
           M!PopLoad(c) \/ M!PopIncr(c) \/ M!PopUnlock(c)
    PROVE  M!Abstract!Next \/ UNCHANGED M!Abstract!vars
<1> USE DEF MutexInv
<1>c. c \in Threads /\ c \notin Producers
  BY Kinds
<1>t. RingTypeOK /\ Loops \in [Threads -> Nat]
  BY QueueAssumption, SameRing DEF M!TypeOK
<1>l. {"incr", "unlock", "call", "done"} \subseteq M!Labels
  BY DEF M!Labels
<1>1. CASE M!PopLoad(c)
  <2>1. /\ pc[c] = "access" /\ Goto(c, "incr")
        /\ UNCHANGED <<ringvars, i, consumed, exit>>
        /\ item' = [item EXCEPT ![c] = array[next_out]]
    BY <1>1, SameThreads DEF M!PopLoad, LoadItem, M!mainvars
  <2>2. \A s \in Threads : pc'[s] = IF s = c THEN "incr" ELSE pc[s]
    BY <1>c, <1>l, <2>1, MutexMoved
  <2>3. \A s \in Threads : pc'[s] = "unlock" <=> pc[s] = "unlock"
    BY <2>1, <2>2
  <2>4. MutexSent' = MutexSent
    BY <2>1, <2>3, Kinds DEF MutexSent
  <2>5. MutexReceived' = MutexReceived
    <3>1. \A d \in Consumers : d # c => item'[d] = item[d]
      BY <1>t, <2>1 DEF RingTypeOK
    <3> QED  BY <2>1, <2>3, <3>1, Kinds DEF MutexReceived
  <2>6. Failing' = Failing
    BY <2>1, <2>2 DEF Failing
  <2> QED  BY <2>1, <2>4, <2>5, <2>6, SameContents, MutexMapping
<1>2. CASE M!PopIncr(c)
  <2>1. pc[c] = "incr" /\ Goto(c, "unlock") /\ ~queue_empty /\ item[c] = array[next_out]
    BY <1>2, SameThreads DEF M!PopIncr, ConsumerInv
  <2>2. AdvanceOut /\ UNCHANGED <<localvars, exit>>
    BY <1>2, SameRing DEF M!PopIncr, M!localvars, localvars, M!mainvars
  <2>3. \A s \in Threads : pc'[s] = IF s = c THEN "unlock" ELSE pc[s]
    BY <1>c, <1>l, <2>1, MutexMoved
  <2>4. Contents # <<>> /\ Contents' = Tail(Contents) /\ item[c] = Head(Contents)
    BY <1>t, <2>1, <2>2, AdvanceOutTakes
  <2>5. MutexSent' = MutexSent
    BY <1>c, <2>2, <2>3, Kinds DEF MutexSent, localvars
  <2>6. MutexReceived[c] = consumed[c]
    BY <2>1 DEF MutexReceived
  <2>7. MutexReceived' = [MutexReceived EXCEPT ![c] = Append(MutexReceived[c], item[c])]
    BY <1>c, <2>1, <2>2, <2>3, <2>6, Kinds DEF MutexReceived, localvars
  <2>8. Failing' = Failing /\ c \notin Failing
    BY <2>1, <2>3 DEF Failing
  <2>9. Len(MutexReceived[c]) < Loops[c]
    BY <1>c, <2>1, <2>6 DEF LoopInv
  <2>10. M!Abstract!Receive(c)
    BY <2>2, <2>4, <2>5, <2>7, <2>8, <2>9, SameRing
    DEF M!Abstract!Receive, MutexSent, MutexReceived, Failing
  <2> QED  BY <2>10 DEF M!Abstract!Next
<1>3. CASE M!PopUnlock(c)
  <2>1. /\ pc[c] = "unlock" /\ NextIteration(c)
        /\ consumed' = [consumed EXCEPT ![c] = Append(@, item[c])]
        /\ UNCHANGED <<ringvars, item, exit>>
    BY <1>3, SameThreads DEF M!PopUnlock, Consume, M!ringvars, ringvars, M!mainvars
  <2>2. PICK l : Goto(c, l) /\ l \in {"call", "done"}
    BY <2>1, LoopHeadLabel DEF NextIteration
  <2>3. \A s \in Threads : pc'[s] = IF s = c THEN l ELSE pc[s]
    BY <1>c, <1>l, <2>2, MutexMoved
  <2>4. \A p \in Producers : i'[p] = i[p] /\ pc'[p] = pc[p]
    BY <1>c, <1>t, <2>1, <2>3, Kinds DEF NextIteration, RingTypeOK
  <2>5. MutexSent' = MutexSent
    BY <2>4 DEF MutexSent
  <2>6. ASSUME NEW d \in Consumers
        PROVE  (IF pc'[d] = "unlock" THEN Append(consumed'[d], item'[d]) ELSE consumed'[d])
               = (IF pc[d] = "unlock" THEN Append(consumed[d], item[d]) ELSE consumed[d])
    BY <1>t, <2>1, <2>2, <2>3, Kinds DEF RingTypeOK
  <2>7. MutexReceived' = MutexReceived
    BY <2>6 DEF MutexReceived
  <2>8. Failing' = Failing
    BY <2>1, <2>2, <2>3 DEF Failing
  <2> QED  BY <2>1, <2>5, <2>7, <2>8, SameContents, MutexMapping
<1> QED  BY <1>1, <1>2, <1>3

LEMMA MutexMainRefines ==
    ASSUME MutexInv, exit = "no",
           MakeThread \/ MakeThreadFails \/ JoinThread \/ \E t \in Threads : PerrorExit(t)
    PROVE  M!Abstract!Next \/ UNCHANGED M!Abstract!vars
<1> USE DEF MutexInv
<1>1. CASE MakeThread
  <2> DEFINE t == Children[made + 1]
             l == LoopHead(t, 0)
  <2>1. made + 1 \in 1..Len(Children) /\ made + 1 > made
    BY <1>1, ChildrenThreads, SameRing DEF MakeThread, M!TypeOK, RingTypeOK
  <2>2. t \in Threads /\ pc[t] = "new"
    BY <2>1, ChildrenThreads DEF FrameInv
  <2>3. Goto(t, l) /\ l \in M!Labels /\ l \notin {"unlock", "exit"}
    BY <1>1, LoopHeadLabel DEF MakeThread, M!Labels
  <2>4. UNCHANGED <<ringvars, localvars, exit>>
    BY <1>1 DEF MakeThread
  <2> HIDE DEF t, l
  <2>5. \A s \in Threads : pc'[s] = IF s = t THEN l ELSE pc[s]
    BY <2>2, <2>3, MutexMoved
  <2> QED  BY <2>2, <2>3, <2>4, <2>5, SameContents, MutexStutters DEF localvars
<1>2. CASE JoinThread
  BY <1>2, SameContents, MutexMapping
  DEF JoinThread, localvars, MutexSent, MutexReceived, Failing
<1>3. CASE MakeThreadFails \/ \E t \in Threads : PerrorExit(t)
  <2>1. UNCHANGED <<Contents, MutexSent, MutexReceived, Failing>>
    BY <1>3, SameContents
    DEF MakeThreadFails, PerrorExit, localvars, MutexSent, MutexReceived, Failing
  <2>2. \/ exit' = "pthread_create failed"
        \/ Failing \cap Producers # {} /\ exit' = "queue is full"
        \/ Failing \cap Consumers # {} /\ exit' = "queue is empty"
    BY <1>3 DEF MakeThreadFails, PerrorExit, Failing, Threads
  <2>3. M!Abstract!Exit
    BY <2>1, <2>2, SameRing DEF M!Abstract!Exit, MutexSent, MutexReceived, Failing
  <2> QED  BY <2>3 DEF M!Abstract!Next
<1> QED  BY <1>1, <1>2, <1>3

\* queue_mutex.c is a bounded FIFO queue that ends the process when it is full
\* or empty, for any number of threads, any length and any loops.
THEOREM MutexFifoImplemented ==
    ASSUME Free \notin Threads
    PROVE  M!Spec => M!Abstract!Spec
<1>1. M!Init => M!Abstract!Init
  <2> SUFFICES ASSUME M!Init PROVE M!Abstract!Init
    OBVIOUS
  <2>1. RingInit
    BY SameRing, Zenon DEF M!Init, M!RingInit, RingInit, M!Slots, Slots, M!NoItem, NoItem
  <2>2. Contents = <<>>
    <3>1. Count = 0
      BY <2>1 DEF RingInit, Count
    <3> QED  BY <3>1 DEF Contents
  <2> QED  BY <2>1, <2>2, SameRing, Kinds DEF RingInit, M!Abstract!Init
<1>2. MutexInv /\ [M!Next]_(M!vars) => [M!Abstract!Next]_(M!Abstract!vars)
  <2> SUFFICES ASSUME MutexInv, [M!Next]_(M!vars)
               PROVE  M!Abstract!Next \/ UNCHANGED M!Abstract!vars
    OBVIOUS
  <2>1. CASE UNCHANGED M!vars
    BY <2>1, SameContents, MutexMapping
    DEF M!vars, M!ringvars, M!localvars, M!mainvars, ringvars, MutexSent, MutexReceived, Failing
  <2>2. CASE M!Running /\ exit = "no"
    <3>1. ASSUME NEW p \in Producers, M!Push(p)
          PROVE  M!Abstract!Next \/ UNCHANGED M!Abstract!vars
      BY <2>2, <3>1, Kinds, MutexTestRefines, MutexPushRefines DEF M!Push
    <3>2. ASSUME NEW c \in Consumers, M!Pop(c)
          PROVE  M!Abstract!Next \/ UNCHANGED M!Abstract!vars
      BY <2>2, <3>2, Kinds, MutexTestRefines, MutexPopRefines DEF M!Pop
    <3>3. CASE \/ \E t \in Threads : M!PerrorExit(t)
               \/ M!MakeThread \/ M!MakeThreadFails \/ M!JoinThread
      BY <2>2, <3>3, SameThreads, MutexMainRefines
    <3> QED  BY <2>1, <2>2, <3>1, <3>2, <3>3, SameRing DEF M!Next
  <2> QED  BY <2>1, <2>2 DEF M!Next, M!Running
<1> QED  BY <1>1, <1>2, MutexInvariance, PTL DEF M!Spec, M!Abstract!Spec
====
