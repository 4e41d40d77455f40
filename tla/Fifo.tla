---- MODULE Fifo ----
(***************************************************************************)
(* What examples/queue promises its callers: a bounded first-in first-out  *)
(* queue between threads that each push, or each pop, a fixed number of    *)
(* items.  A thread that finds the queue full (or empty, where popping     *)
(* does not block) ends the whole process, and nothing else the queue does *)
(* can end it.                                                             *)
(*                                                                         *)
(* QueueBare, QueueMutex and QueueCond are the three implementations, and  *)
(* each is checked to refine this module.                                  *)
(***************************************************************************)
EXTENDS Naturals, Sequences

CONSTANTS Producers, Consumers,
          Length,     \* the most items the queue holds (make_queue's argument)
          Loops,      \* Loops[t]: how many items thread t pushes or pops
          Blocking    \* TRUE when popping from an empty queue waits

VARIABLES q,          \* the items in the queue, oldest first
          sent,       \* sent[p]: how many items p has put in
          received,   \* received[c]: the items c has taken out, in order
          failing,    \* the threads that met a full or an empty queue
          exit        \* the message the process ended with, "no" while it runs

vars == <<q, sent, received, failing, exit>>

Init ==
    /\ q = <<>>
    /\ sent = [p \in Producers |-> 0]
    /\ received = [c \in Consumers |-> <<>>]
    /\ failing = {}
    /\ exit = "no"

Send(p) ==
    /\ exit = "no"
    /\ p \notin failing
    /\ sent[p] < Loops[p]
    /\ Len(q) < Length
    /\ q' = Append(q, <<p, sent[p]>>)
    /\ sent' = [sent EXCEPT ![p] = @ + 1]
    /\ UNCHANGED <<received, failing, exit>>

Receive(c) ==
    /\ exit = "no"
    /\ c \notin failing
    /\ Len(received[c]) < Loops[c]
    /\ q # <<>>
    /\ q' = Tail(q)
    /\ received' = [received EXCEPT ![c] = Append(@, Head(q))]
    /\ UNCHANGED <<sent, failing, exit>>

Overflow(p) ==
    /\ exit = "no"
    /\ Len(q) = Length
    /\ sent[p] < Loops[p]
    /\ failing' = failing \cup {p}
    /\ UNCHANGED <<q, sent, received, exit>>

Underflow(c) ==
    /\ ~Blocking
    /\ exit = "no"
    /\ q = <<>>
    /\ Len(received[c]) < Loops[c]
    /\ failing' = failing \cup {c}
    /\ UNCHANGED <<q, sent, received, exit>>

Exit ==
    /\ exit = "no"
    /\ \/ failing \cap Producers # {} /\ exit' = "queue is full"
       \/ failing \cap Consumers # {} /\ exit' = "queue is empty"
       \/ exit' = "pthread_create failed"
    /\ UNCHANGED <<q, sent, received, failing>>

Next ==
    \/ \E p \in Producers : Send(p) \/ Overflow(p)
    \/ \E c \in Consumers : Receive(c) \/ Underflow(c)
    \/ Exit

Spec == Init /\ [][Next]_vars
====
