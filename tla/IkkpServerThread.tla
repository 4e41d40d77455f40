---- MODULE IkkpServerThread ----
(***************************************************************************)
(* exercises/ex11/ikkp_server_thread.c: a thread holds each conversation.  *)
(* It finds its descriptor behind the pointer main gave it.  The threads   *)
(* share main's descriptors, and end with it.                              *)
(***************************************************************************)
EXTENDS IkkpTalk

VARIABLE heap    \* the descriptors behind the pointers main gives the threads

\* Mutated form: one cell for every thread.
Cell_Shared(t) == 1

\* main allocates a cell for each thread.
Cell(t) == t

\* main stores the new descriptor before it creates the thread that reads it.
AcceptClient ==
    /\ Accept("start")
    /\ heap' = [heap EXCEPT ![Cell(Made + 1)] = Head(queue)]
    /\ UNCHANGED <<pc, conn>>

\* Mutated form: main joins each thread before it creates the next.
make_thread_Join ==
    /\ mainpc = "start"
    /\ Made < MaxTasks
    /\ \A t \in Tasks : pc[t] \in {"free", "ended"}
    /\ Goto(Made + 1, "start")
    /\ mainpc' = "accept"
    /\ UNCHANGED <<heap, up, listening, queue, cur, conn, held, clientvars>>

make_thread ==
    /\ mainpc = "start"
    /\ Made < MaxTasks
    /\ Goto(Made + 1, "start")
    /\ mainpc' = "accept"
    /\ UNCHANGED <<heap, up, listening, queue, cur, conn, held, clientvars>>

\* connect_d = *socket_ptr.
ReadArgument(t) ==
    /\ pc[t] = "start"
    /\ conn' = [conn EXCEPT ![t] = heap[Cell(t)]]
    /\ Goto(t, "say1")
    /\ UNCHANGED <<heap, held, mainvars, clientvars>>

Close(t) ==
    /\ pc[t] = "close"
    /\ held' = [held EXCEPT ![conn[t]] = {}]
    /\ Goto(t, "ended")
    /\ UNCHANGED <<heap, conn, mainvars, clientvars>>

\* error, or a signal: the process ends, every thread with it.
End(how) == MainEnds(how, Tasks, {main}) /\ UNCHANGED heap

make_thread_fails == mainpc = "start" /\ Made = MaxTasks /\ End("crashed")
Interrupt == up = "up" /\ End("interrupted")

Main == AcceptClient \/ make_thread \/ make_thread_fails \/ (AcceptFails /\ End("crashed"))
Task(t) == \/ ReadArgument(t)
           \/ Talk(t) /\ UNCHANGED heap
           \/ Fails(t) /\ End("crashed")
           \/ Close(t)

Init == TalkInit /\ heap = [a \in 1..MaxTasks + 1 |-> NoClient]
Next == Main \/ Interrupt \/ (Environment /\ UNCHANGED heap) \/ \E t \in Tasks : Task(t)
====
