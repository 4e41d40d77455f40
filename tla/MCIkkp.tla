---- MODULE MCIkkp ----
(***************************************************************************)
(* The three knock-knock servers of exercises/ex11.  A behaviour first     *)
(* picks the server and then runs it.                                      *)
(***************************************************************************)
EXTENDS IkkpTalk

VARIABLES server, heap

Iterative == INSTANCE IkkpServer
Forking == INSTANCE IkkpServerFork
Threaded == INSTANCE IkkpServerThread

vars == <<server, heap, clientvars, mainvars, taskvars>>

Init ==
    \/ server \in {"iterative", "fork"} /\ TalkInit /\ heap = <<>>
    \/ server = "thread" /\ Threaded!Init

Next ==
    /\ UNCHANGED server
    /\ \/ server = "iterative" /\ Iterative!Next /\ UNCHANGED heap
       \/ server = "fork" /\ Forking!Next /\ UNCHANGED heap
       \/ server = "thread" /\ Threaded!Next

MainStep ==
    /\ UNCHANGED server
    /\ \/ server = "iterative" /\ Iterative!Main /\ UNCHANGED heap
       \/ server = "fork" /\ Forking!Main /\ UNCHANGED heap
       \/ server = "thread" /\ Threaded!Main

TaskStep(t) ==
    /\ UNCHANGED server
    /\ \/ server = "iterative" /\ Iterative!Task(t) /\ UNCHANGED heap
       \/ server = "fork" /\ Forking!Task(t) /\ UNCHANGED heap
       \/ server = "thread" /\ Threaded!Task(t)

\* The system schedules every process and thread that can run, and a polite
\* client answers in the end.  A rude client owes nothing.
FairSpec ==
    /\ Init /\ [][Next]_vars
    /\ WF_vars(MainStep)
    /\ \A t \in Tasks : WF_vars(TaskStep(t))
    /\ \A c \in Polite : WF_vars(Answer(c) /\ UNCHANGED <<server, heap>>)

-----------------------------------------------------------------------------
TypeOK ==
    /\ TalkTypeOK
    /\ server = "thread" => heap \in [1..MaxTasks + 1 -> Clients \cup {NoClient}]

\* Types, and: each client talks with one task at most: no thread reads the descriptor of
\* the client accepted after its own (the malloc in main).
OneTaskPerClient == TypeOK /\ OwnClient

\* fork had failed when the parent closed the connection.
TurnedAway(c) ==
    /\ Made = MaxTasks
    /\ ~Alive(c)

\* More than one connection at a time (ex11.md, 8 and 10): with a child or a
\* thread per connection a client that answers hears the whole joke whatever
\* the other clients do, as long as main runs and can create the child.
PoliteServed ==
    \A c \in Polite :
        (server # "iterative" /\ peer[c] = "open") ~> (told[c] = 3 \/ up # "up" \/ TurnedAway(c))

\* The server hangs up on a client it has told everything (close in every
\* process that holds a copy).
HangsUp == \A c \in Clients : (told[c] = 3) ~> (held[c] = {})

\* When main has ended no client waits for an accept that will not come,
\* although a child may still be talking (close(listener_d) in the child).
NoneLeftWaiting == (up # "up") ~> (queue = <<>>)
====
