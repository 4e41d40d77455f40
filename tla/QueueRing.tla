---- MODULE QueueRing ----
(***************************************************************************)
(* The part that examples/queue's three implementations share, written     *)
(* the same way in queue.c, queue_mutex.c and queue_cond.c: the ring       *)
(* buffer of make_queue with its index arithmetic, and the program of      *)
(* main.c around it, whose threads push (producer_entry) or pop            *)
(* (consumer_entry) in a loop while main creates them and joins them.      *)
(*                                                                         *)
(* The unit of interleaving is one access to the shared queue: the test of *)
(* queue_full or queue_empty, the access to a slot, the update of an       *)
(* index.  The modules that extend this one add the locking, or its        *)
(* absence, around these steps.                                            *)
(*                                                                         *)
(* main.c has one producer and one consumer; the sets are constants here   *)
(* because the queue itself sets no limit on its callers.                  *)
(***************************************************************************)
EXTENDS Integers, Sequences

CONSTANTS Producers, Consumers,
          Children,   \* main's child[]: the threads in the order they are made
          Length,     \* make_queue's argument (QUEUE_LENGTH)
          Loops       \* Loops[t]: the bound of t's loop (NUM_ELEMENTS)

Threads == Producers \cup Consumers

ASSUME QueueAssumption ==
    /\ Producers \cap Consumers = {}
    /\ Length \in Nat
    /\ Loops \in [Threads -> Nat]
    /\ Children \in Seq(Threads)

\* Every thread is made once (what TLC's instances satisfy and main.c does).
ASSUME ChildrenAssumption ==
    /\ \A t \in Threads : \E k \in 1..Len(Children) : Children[k] = t
    /\ \A j, k \in 1..Len(Children) : Children[j] = Children[k] => j = k

VARIABLES
    array,      \* the slots, the one past make_queue's allocation included
    next_in,    \* the slot the next push writes
    next_out,   \* the slot the next pop reads
    pc,         \* what each thread does next
    i,          \* the counter of each thread's loop
    item,       \* queue_pop's local, per consumer
    consumed,   \* the items each consumer has printed, in order
    made,       \* how many children main has created
    joined,     \* how many children main has joined
    exit        \* what perror_exit printed, "no" while the process runs

ringvars == <<array, next_in, next_out>>
localvars == <<i, item, consumed>>
mainvars == <<made, joined, exit>>

\* A slot nobody has written: memory fresh from malloc.
NoItem == <<>>
Item == Producers \X Nat
Slots == 0..Length

-----------------------------------------------------------------------------
\* The private helpers of the queue.  queue->length is Length + 1.

\* Mutated form: the wrap forgotten.
queue_incr_NoWrap(k) == k + 1

queue_incr(k) == (k + 1) % (Length + 1)
queue_empty == next_in = next_out
queue_full == queue_incr(next_in) = next_out

-----------------------------------------------------------------------------
\* Control flow of a thread.

Goto(t, label) == pc' = [pc EXCEPT ![t] = label]

\* Where the for loop of an entry function goes when its counter is n.
LoopHead(t, n) == IF n < Loops[t] THEN "call" ELSE "done"

\* queue_push or queue_pop returns and the loop counts.
NextIteration(t) ==
    /\ i' = [i EXCEPT ![t] = @ + 1]
    /\ Goto(t, LoopHead(t, i[t] + 1))

\* consumer_entry prints what queue_pop returned and loops.
Consume(c) ==
    /\ consumed' = [consumed EXCEPT ![c] = Append(@, item[c])]
    /\ NextIteration(c)

-----------------------------------------------------------------------------
\* The accesses to the queue.

StoreItem(p) ==
    /\ pc[p] = "access"
    /\ array' = [array EXCEPT ![next_in] = <<p, i[p]>>]
    /\ Goto(p, "incr")
    /\ UNCHANGED <<next_in, next_out, localvars>>

AdvanceIn ==
    /\ next_in' = queue_incr(next_in)
    /\ UNCHANGED <<array, next_out>>

LoadItem(c) ==
    /\ pc[c] = "access"
    /\ item' = [item EXCEPT ![c] = array[next_out]]
    /\ Goto(c, "incr")
    /\ UNCHANGED <<ringvars, i, consumed>>

AdvanceOut ==
    /\ next_out' = queue_incr(next_out)
    /\ UNCHANGED <<array, next_in>>

-----------------------------------------------------------------------------
\* The process: perror_exit in a thread, and main.

Running == exit = "no" /\ joined < Len(Children)

\* perror_exit in t: exit(-1) ends every thread.
PerrorExit(t) ==
    /\ pc[t] = "exit"
    /\ exit' = IF t \in Producers THEN "queue is full" ELSE "queue is empty"
    /\ UNCHANGED <<ringvars, pc, localvars, made, joined>>

\* main creates its next child.
MakeThread ==
    /\ made < Len(Children)
    /\ made' = made + 1
    /\ LET t == Children[made + 1] IN Goto(t, LoopHead(t, 0))
    /\ UNCHANGED <<ringvars, localvars, joined, exit>>

\* pthread_create fails and make_thread ends the process.
MakeThreadFails ==
    /\ made < Len(Children)
    /\ exit' = "pthread_create failed"
    /\ UNCHANGED <<ringvars, pc, localvars, made, joined>>

\* main joins its next child; after the last one it returns.
JoinThread ==
    /\ made = Len(Children)
    /\ joined < Len(Children)
    /\ pc[Children[joined + 1]] = "done"
    /\ joined' = joined + 1
    /\ UNCHANGED <<ringvars, pc, localvars, made, exit>>

RingInit ==
    /\ array = [s \in Slots |-> NoItem]
    /\ next_in = 0
    /\ next_out = 0
    /\ pc = [t \in Threads |-> "new"]
    /\ i = [t \in Threads |-> 0]
    /\ item = [c \in Consumers |-> NoItem]
    /\ consumed = [c \in Consumers |-> <<>>]
    /\ made = 0
    /\ joined = 0
    /\ exit = "no"

-----------------------------------------------------------------------------
\* What the properties and the refinement are stated with.

\* How many slots separate the two indices, and the items in them.
Count == IF next_in >= next_out THEN next_in - next_out
                                ELSE next_in - next_out + Length + 1
SlotAt(k) == IF next_out + k <= Length THEN next_out + k
                                       ELSE next_out + k - (Length + 1)
Contents == [k \in 1..Count |-> array[SlotAt(k - 1)]]

RingTypeOK ==
    /\ array \in [Slots -> Item \cup {NoItem}]
    /\ next_in \in Slots
    /\ next_out \in Slots
    /\ i \in [Threads -> Nat]
    /\ item \in [Consumers -> Item \cup {NoItem}]
    /\ consumed \in [Consumers -> Seq(Item \cup {NoItem})]
    /\ made \in 0..Len(Children)
    /\ joined \in 0..Len(Children)
    /\ exit \in {"no", "queue is full", "queue is empty", "pthread_create failed"}
====
