---- MODULE MCThreads ----
(***************************************************************************)
(* The threaded programs that do without a condition variable.  A          *)
(* behaviour first picks a program, then runs it:                          *)
(*   queue, queue_mutex   two of the builds of examples/queue,             *)
(*   counter, barrier, counter_array, counter_array_mutex, read_write      *)
(*                        of exercises/ex12.                               *)
(***************************************************************************)
EXTENDS Integers, Sequences, FiniteSets

CONSTANTS p1, p2, c1, c2, Free,
          NumChildren,    \* of counter.c, barrier.c and counter_array_mutex.c
          ArrayChildren,  \* of counter_array.c
          End,
          Readers, Writers    \* NUM_READERS and NUM_WRITERS of read_write.c

ASSUME ThreadsAssumption ==
    /\ p1 # p2 /\ c1 # c2 /\ {p1, p2} \cap {c1, c2} = {}
    /\ Free \notin {p1, p2, c1, c2}
    /\ Free \notin 1..NumChildren
    /\ NumChildren \in Nat \ {0}
    /\ ArrayChildren \in Nat
    /\ End \in Nat
    /\ Readers \in Nat /\ Writers \in Nat
    /\ Readers + Writers > 0

VARIABLES
    program, pc, made, joined,
    array, next_in, next_out, i, item, consumed, exit, mutex,   \* the queues
    failed, counter, loaded, index, errors, said                \* ex12

queueonly == <<next_in, next_out, i, item, consumed, exit>>
ex12only == <<failed, counter, loaded, index, errors, said>>
vars == <<program, pc, made, joined, array, mutex, queueonly, ex12only>>

-----------------------------------------------------------------------------
BareThreads == <<p1, c1>>
MutexThreads == <<p1, c1, p2, c2>>

Bare == INSTANCE QueueBare WITH
    Producers <- {p1}, Consumers <- {c1}, Children <- BareThreads,
    Length <- 2, Loops <- [t \in {p1, c1} |-> 4]

Mutex == INSTANCE QueueMutex WITH
    Producers <- {p1, p2}, Consumers <- {c1, c2}, Children <- MutexThreads,
    Length <- 2, Loops <- [t \in {p1, p2, c1, c2} |-> 2]

C == INSTANCE Counter
B == INSTANCE Barrier
A == INSTANCE CounterArray WITH NumChildren <- ArrayChildren
M == INSTANCE CounterArrayMutex
R == INSTANCE ReadWrite WITH NumChildren <- Readers + Writers, NumReaders <- Readers

NoQueue == /\ next_in = 0 /\ next_out = 0 /\ i = 0 /\ item = 0
           /\ consumed = 0 /\ exit = "no" /\ mutex = Free
NoEx12 == failed = FALSE /\ counter = 0 /\ loaded = 0 /\ index = 0 /\ errors = -1 /\ said = <<>>

Init ==
    \/ program = "queue" /\ Bare!Init /\ mutex = Free /\ NoEx12
    \/ program = "queue_mutex" /\ Mutex!Init /\ NoEx12
    \/ /\ program = "counter" /\ C!Init /\ NoQueue
       /\ index = 0 /\ array = 0 /\ errors = -1 /\ said = <<>>
    \/ /\ program = "barrier" /\ B!Init /\ NoQueue
       /\ index = 0 /\ array = 0 /\ errors = -1 /\ said = <<>>
    \/ program = "counter_array" /\ A!Init /\ errors = -1 /\ said = <<>> /\ NoQueue
    \/ /\ program = "counter_array_mutex" /\ M!Init /\ NoQueue
       /\ loaded = 0 /\ index = 0 /\ said = <<>>
    \/ /\ program = "read_write" /\ R!Init /\ NoQueue
       /\ counter = 0 /\ loaded = 0 /\ index = 0 /\ array = 0 /\ errors = -1

\* What a program of ex12 does not have.
NotCounter == <<queueonly, mutex, index, array, errors, said>>
NotArray == <<queueonly, mutex, errors, said>>
NotMutexArray == <<queueonly, loaded, index, said>>
NotReadWrite == <<queueonly, mutex, counter, loaded, index, array, errors>>

Next ==
    /\ UNCHANGED program
    /\ \/ program = "queue" /\ Bare!Next /\ UNCHANGED <<mutex, ex12only>>
       \/ program = "queue_mutex" /\ Mutex!Next /\ UNCHANGED ex12only
       \/ program = "counter" /\ C!Next /\ UNCHANGED NotCounter
       \/ program = "barrier" /\ B!Next /\ UNCHANGED NotCounter
       \/ program = "counter_array" /\ A!Next /\ UNCHANGED NotArray
       \/ program = "counter_array_mutex" /\ M!Next /\ UNCHANGED NotMutexArray
       \/ program = "read_write" /\ R!Next /\ UNCHANGED NotReadWrite

-----------------------------------------------------------------------------
\* A step of the k-th child that main creates.
QueueStep(k) ==
    \/ /\ program = "queue" /\ k <= Len(BareThreads) /\ Bare!Running
       /\ LET t == BareThreads[k]
          IN Bare!PerrorExit(t) \/ (IF t = p1 THEN Bare!Push(t) ELSE Bare!Pop(t))
       /\ UNCHANGED <<mutex, ex12only>>
    \/ /\ program = "queue_mutex" /\ k <= Len(MutexThreads) /\ Mutex!Running
       /\ LET t == MutexThreads[k]
          IN \/ Mutex!PerrorExit(t) /\ UNCHANGED mutex
             \/ (IF t \in {p1, p2} THEN Mutex!Push(t) ELSE Mutex!Pop(t))
       /\ UNCHANGED ex12only

Ex12Step(k) ==
    \/ /\ program = "counter" /\ C!Running /\ k \in C!Children /\ C!Child(k)
       /\ UNCHANGED NotCounter
    \/ /\ program = "barrier" /\ B!Running /\ k \in B!Children /\ B!Child(k)
       /\ UNCHANGED NotCounter
    \/ /\ program = "counter_array" /\ A!Running /\ k \in A!Children /\ A!Child(k)
       /\ UNCHANGED NotArray
    \/ /\ program = "counter_array_mutex" /\ M!Running /\ k \in M!Children /\ M!Child(k)
       /\ UNCHANGED NotMutexArray
    \/ /\ program = "read_write" /\ R!Running /\ k \in R!Children /\ R!Work(k)
       /\ UNCHANGED NotReadWrite

ChildStep(k) == (QueueStep(k) \/ Ex12Step(k)) /\ UNCHANGED program

\* A step that creates or joins a child, or checks the array.
MainStep == Next /\ <<made, joined, errors>>' # <<made, joined, errors>>

\* The scheduler runs main and every child that can run.
FairSpec ==
    /\ Init /\ [][Next]_vars
    /\ \A k \in 1..4 : WF_vars(ChildStep(k))
    /\ WF_vars(MainStep)

-----------------------------------------------------------------------------
\* Types of both builds, and queue.c: the producer's slot is never the
\* consumer's, with no lock at all.
BareSlotsDisjoint ==
    /\ program = "queue" => Bare!TypeOK /\ Bare!SlotsDisjoint
    /\ program = "queue_mutex" => Mutex!TypeOK

\* queue.c with one producer and one consumer, and queue_mutex.c with two of
\* each, are bounded FIFO queues: each starts as one, and each step is a step
\* of Fifo or changes nothing there.
BuildsImplementFifo ==
    /\ program = "queue" => Bare!Abstract!Init
    /\ program = "queue_mutex" => Mutex!Abstract!Init
    /\ [][program = "queue" => [Bare!Abstract!Next]_(Bare!Abstract!vars)]_vars
    /\ [][program = "queue_mutex" => [Mutex!Abstract!Next]_(Mutex!Abstract!vars)]_vars

\* counter.c: the bounds of the value that main prints, whatever is lost.
CounterBounds == program = "counter" => C!FrameOK(C!Labels) /\ C!CounterBounds

\* barrier.c: no part 2 before every part 1.  read_write.c: main's line is the
\* last, after one line of every reader and writer.
PartsInOrder ==
    /\ program = "barrier" => B!FrameOK(B!Labels) /\ B!PartsSeparate
    /\ program = "read_write" => R!ParentLast

\* counter_array.c: how far the racing children run past the end.
ArrayOvershoot == program = "counter_array" => A!FrameOK(A!Labels) /\ A!Overshoot

\* counter_array_mutex.c: every unit of work is done once although the test is
\* not under the mutex, and the stale tests drive the counter past end by less
\* than the number of children.
WorkDoneOnce == program = "counter_array_mutex" => M!TypeOK /\ M!NoErrors
MutexOvershoot == program = "counter_array_mutex" => M!Overshoot

\* Every program ends: main returns, or exit ends the process.  barrier.c does
\* so if no increment is lost (its busy wait may go on for ever only while the
\* counter stays short of the number of children); counter_array.c's children
\* stop although each store of a stale counter throws the others back.
MustEnd == program = "barrier" => counter = NumChildren

Ended ==
    CASE program = "queue"         -> ~Bare!Running
      [] program = "queue_mutex"   -> ~Mutex!Running
      [] program = "counter"       -> ~C!Running
      [] program = "barrier"       -> ~B!Running
      [] program = "counter_array" -> ~A!Running
      [] program = "counter_array_mutex" -> M!Ended
      [] program = "read_write"    -> ~R!Running

ProgramsEnd == MustEnd ~> Ended
====
