---- MODULE ForkJoin ----
(***************************************************************************)
(* The frame of the programs of exercises/ex12: main creates NUM_CHILDREN  *)
(* threads that run the same code on one shared structure, then joins them *)
(* in the order of their creation.  counter.c, barrier.c, counter_array.c  *)
(* and counter_array_mutex.c each repeat this frame; the modules that      *)
(* extend this one supply what a child does.                               *)
(***************************************************************************)
EXTENDS Integers

CONSTANT NumChildren   \* NUM_CHILDREN

VARIABLES
    pc,         \* what each child does next
    made,       \* how many children main has created
    joined,     \* how many children main has joined
    failed      \* TRUE once pthread_create failed: perror_exit ended the process

framevars == <<made, joined, failed>>

Children == 1..NumChildren

Goto(t, label) == pc' = [pc EXCEPT ![t] = label]

\* Before main returns, or perror_exit ends the process.
Running == ~failed /\ joined < NumChildren

MakeThread(first) ==
    /\ made < NumChildren
    /\ made' = made + 1
    /\ Goto(made + 1, first)
    /\ UNCHANGED <<joined, failed>>

MakeThreadFails ==
    /\ made < NumChildren
    /\ failed' = TRUE
    /\ UNCHANGED <<pc, made, joined>>

JoinThread ==
    /\ made = NumChildren
    /\ joined < NumChildren
    /\ pc[joined + 1] = "done"
    /\ joined' = joined + 1
    /\ UNCHANGED <<pc, made, failed>>

FrameInit ==
    /\ pc = [t \in Children |-> "new"]
    /\ made = 0
    /\ joined = 0
    /\ failed = FALSE

\* The children main has not created yet are exactly those that do nothing,
\* and those main has joined are done.
FrameOK(labels) ==
    /\ pc \in [Children -> labels]
    /\ made \in 0..NumChildren
    /\ joined \in 0..NumChildren
    /\ failed \in BOOLEAN
    /\ \A t \in Children : pc[t] = "new" <=> t > made
    /\ \A t \in Children : t <= joined => pc[t] = "done"
====
