---- MODULE QueueBare ----
(***************************************************************************)
(* examples/queue/queue.c under main.c (the Makefile's target "queue"):    *)
(* the ring buffer with no lock at all, shared by one producer and one     *)
(* consumer.  Each access to the shared fields is a step of its own; each  *)
(* index has one writer, so its increment is one store.  The compiler      *)
(* keeps the order of the accesses (the target is built with -g and no     *)
(* optimisation, and the functions are external), which is the order       *)
(* modelled.  The module is meant for one producer and one consumer, as in *)
(* main.c: with more, StoreItem and AdvanceIn of two pushes could overlap. *)
(***************************************************************************)
EXTENDS QueueRing, FiniteSets

vars == <<ringvars, pc, localvars, mainvars>>

Labels == {"new", "call", "access", "incr", "exit", "done"}

PushFull(p) ==
    /\ pc[p] = "call"
    /\ queue_full
    /\ Goto(p, "exit")
    /\ UNCHANGED <<ringvars, localvars, mainvars>>

PushRoom(p) ==
    /\ pc[p] = "call"
    /\ ~queue_full
    /\ Goto(p, "access")
    /\ UNCHANGED <<ringvars, localvars, mainvars>>

PushStore(p) == StoreItem(p) /\ UNCHANGED mainvars

PushIncr(p) ==
    /\ pc[p] = "incr"
    /\ AdvanceIn
    /\ NextIteration(p)
    /\ UNCHANGED <<item, consumed, mainvars>>

PopEmpty(c) ==
    /\ pc[c] = "call"
    /\ queue_empty
    /\ Goto(c, "exit")
    /\ UNCHANGED <<ringvars, localvars, mainvars>>

\* Mutated form: a pop that does not look whether there is an item.
PopSome_Unchecked(c) ==
    /\ pc[c] = "call"
    /\ Goto(c, "access")
    /\ UNCHANGED <<ringvars, localvars, mainvars>>

PopSome(c) ==
    /\ pc[c] = "call"
    /\ ~queue_empty
    /\ Goto(c, "access")
    /\ UNCHANGED <<ringvars, localvars, mainvars>>

PopLoad(c) == LoadItem(c) /\ UNCHANGED mainvars

PopIncr(c) ==
    /\ pc[c] = "incr"
    /\ AdvanceOut
    /\ Consume(c)
    /\ UNCHANGED <<item, mainvars>>

Push(p) == PushFull(p) \/ PushRoom(p) \/ PushStore(p) \/ PushIncr(p)
Pop(c) == PopEmpty(c) \/ PopSome(c) \/ PopLoad(c) \/ PopIncr(c)

Init == RingInit

Next ==
    \/ /\ Running
       /\ \/ \E p \in Producers : Push(p)
          \/ \E c \in Consumers : Pop(c)
          \/ \E t \in Threads : PerrorExit(t)
          \/ MakeThread \/ MakeThreadFails \/ JoinThread
    \/ ~Running /\ UNCHANGED vars

Spec == Init /\ [][Next]_vars

-----------------------------------------------------------------------------
\* Type invariant.
TypeOK == RingTypeOK /\ pc \in [Threads -> Labels]

\* The slot the producer is writing is never the slot the consumer is
\* reading, although nothing synchronises them: the producer stores before it
\* publishes next_in, the consumer loads before it gives the slot back.
SlotsDisjoint ==
    \A p \in Producers, c \in Consumers :
        pc[p] = "access" /\ pc[c] = "access" => next_in # next_out

\* With one producer and one consumer the unlocked ring is a bounded FIFO
\* queue, for every interleaving of its accesses.
Sent == [p \in Producers |-> i[p]]
Failing == {t \in Threads : pc[t] = "exit"}

Abstract == INSTANCE Fifo WITH
    Blocking <- FALSE, q <- Contents, sent <- Sent, received <- consumed, failing <- Failing

ImplementsFifo == Abstract!Spec
====
