---- MODULE IkkpTalk ----
(***************************************************************************)
(* What the three servers of exercises/ex11 share: clients that connect,   *)
(* answer and hang up, the connections between them and the server, and    *)
(* the knock-knock conversation (say, read_in) that one task of the server *)
(* holds with one client.  A task is a slot for a child process or a       *)
(* thread; the iterative server holds every conversation in slot 1.        *)
(*                                                                         *)
(* A line is one unit; of the lines only their number matters.  What the   *)
(* other end does with a connection, and what the kernel makes of it, is   *)
(* modelled from the calls the servers make (external).                    *)
(***************************************************************************)
EXTENDS Integers, Sequences, FiniteSets

CONSTANTS Polite,     \* clients that wait for each line and answer it
          Rude,       \* clients that are silent, run ahead or hang up as they like
          MaxTasks,   \* how many children or threads the system gives the server
          NoClient

Clients == Polite \cup Rude
Tasks == 1..MaxTasks
main == 0             \* the process or thread that accepts

ASSUME TalkAssumption ==
    /\ MaxTasks \in Nat \ {0}
    /\ Polite \cap Rude = {}
    /\ NoClient \notin Clients

VARIABLES
    up,         \* "up" while main runs, else how it ended
    listening,  \* which of main and the tasks hold listener_d
    queue,      \* clients that wait for accept
    cur,        \* connect_d in main: the client accepted last
    mainpc,     \* what main does next
    peer,       \* the client's end of each connection
    sent,       \* lines each client has sent
    inbox,      \* those that wait in the socket
    told,       \* lines that reached each client
    held,       \* which of main and the tasks hold a descriptor of the connection
    pc, conn    \* what each task does next, and with which client

clientvars == <<peer, sent, inbox, told>>
mainvars == <<up, listening, queue, cur, mainpc>>
taskvars == <<pc, conn, held>>

Labels == {"free", "start", "say1", "read1", "say2", "read2", "say3", "close",
           "exit", "ended"}
Following == [say1 |-> "read1", read1 |-> "say2", say2 |-> "read2",
              read2 |-> "say3", say3 |-> "close"]

Goto(t, label) == pc' = [pc EXCEPT ![t] = label]

-----------------------------------------------------------------------------
(* The clients and the network. *)

Connect(c) ==
    /\ peer[c] = "away"
    /\ listening # {}
    /\ peer' = [peer EXCEPT ![c] = "open"]
    /\ queue' = Append(queue, c)
    /\ UNCHANGED <<up, listening, cur, mainpc, sent, inbox, told, taskvars>>

\* A connection that neither waits nor has a holder is over: what its client
\* does then reaches nobody.
Alive(c) == held[c] # {} \/ \E n \in DOMAIN queue : queue[n] = c

\* A polite client answers the first two lines; a rude one sends as it likes.
Answer(c) ==
    /\ Alive(c)
    /\ peer[c] = "open"
    /\ sent[c] < 2
    /\ c \in Polite => sent[c] < told[c]
    /\ sent' = [sent EXCEPT ![c] = @ + 1]
    /\ inbox' = [inbox EXCEPT ![c] = @ + 1]
    /\ UNCHANGED <<peer, told, mainvars, taskvars>>

\* A client that leaves lines unread resets the connection at once.
HangUp(c) ==
    /\ c \in Rude
    /\ Alive(c)
    /\ peer[c] = "open"
    /\ \E end \in {"closed", "reset"} : peer' = [peer EXCEPT ![c] = end]
    /\ UNCHANGED <<sent, inbox, told, mainvars, taskvars>>

\* The answer to a line sent to a client that has closed its end.
Reset(c) ==
    /\ Alive(c)
    /\ peer[c] = "refused"
    /\ peer' = [peer EXCEPT ![c] = "reset"]
    /\ UNCHANGED <<sent, inbox, told, mainvars, taskvars>>

-----------------------------------------------------------------------------
(* The conversation. *)

\* send succeeds until the other end has refused a line.
say(t) ==
    /\ pc[t] \in {"say1", "say2", "say3"}
    /\ LET c == conn[t]
       IN /\ \/ /\ peer[c] = "open"
                /\ told' = [told EXCEPT ![c] = @ + 1]
                /\ UNCHANGED peer
             \/ /\ peer[c] \in {"closed", "refused"}
                /\ peer' = [peer EXCEPT ![c] = "refused"]
                /\ UNCHANGED told
    /\ Goto(t, Following[pc[t]])
    /\ UNCHANGED <<sent, inbox, conn, held, mainvars>>

\* fdopen makes a new stream, whose first read takes every line that waits in
\* the socket: read_in uses one of them, and the others are lost with the
\* stream.  At the end of the file there is none; the code then looks at the
\* byte before buf and goes on.
read_in(t) ==
    /\ pc[t] \in {"read1", "read2"}
    /\ \/ inbox[conn[t]] > 0
       \/ peer[conn[t]] \in {"closed", "refused"}
    /\ inbox' = [inbox EXCEPT ![conn[t]] = 0]
    /\ Goto(t, Following[pc[t]])
    /\ UNCHANGED <<peer, sent, told, conn, held, mainvars>>

\* After a reset send raises SIGPIPE or fails, and fgetc fails: in each case
\* the process ends, by the signal or by exit(1) in error.
Fails(t) ==
    /\ pc[t] \in DOMAIN Following
    /\ peer[conn[t]] = "reset"
    /\ pc[t] \in {"read1", "read2"} => inbox[conn[t]] = 0

Talk(t) == say(t) \/ read_in(t)

\* What the end of a process leaves of the connections, the listener included.
Release(holders) ==
    /\ held' = [c \in Clients |-> held[c] \ holders]
    /\ listening' = listening \ holders
    /\ queue' = IF listening \subseteq holders THEN <<>> ELSE queue

-----------------------------------------------------------------------------
(* Main. *)

\* main holds the connection it accepts; the client may have gone meanwhile.
Accept(next) ==
    /\ mainpc = "accept"
    /\ queue # <<>>
    /\ cur' = Head(queue)
    /\ queue' = Tail(queue)
    /\ held' = [held EXCEPT ![Head(queue)] = {main}]
    /\ mainpc' = next
    /\ UNCHANGED <<up, listening, clientvars>>

\* accept may report that the connection was reset, and error ends main.
AcceptFails ==
    /\ mainpc = "accept"
    /\ queue # <<>>
    /\ peer[Head(queue)] = "reset"

\* main ends, and with it the tasks in also.
MainEnds(how, also, holders) ==
    /\ up' = how
    /\ mainpc' = "ended"
    /\ pc' = [t \in Tasks |-> IF t \in also /\ pc[t] # "free" THEN "ended" ELSE pc[t]]
    /\ Release(holders)
    /\ UNCHANGED <<cur, conn, clientvars>>

\* How many children or threads main has created: an ended one keeps its slot,
\* because main never waits for it.
Made == Cardinality({t \in Tasks : pc[t] # "free"})

TalkInit ==
    /\ up = "up"
    /\ listening = {main}
    /\ queue = <<>>
    /\ cur = NoClient
    /\ mainpc = "accept"
    /\ peer = [c \in Clients |-> "away"]
    /\ sent = [c \in Clients |-> 0]
    /\ inbox = [c \in Clients |-> 0]
    /\ told = [c \in Clients |-> 0]
    /\ held = [c \in Clients |-> {}]
    /\ pc = [t \in Tasks |-> "free"]
    /\ conn = [t \in Tasks |-> NoClient]

Environment == \E c \in Clients : Connect(c) \/ Answer(c) \/ HangUp(c) \/ Reset(c)

-----------------------------------------------------------------------------
\* Type invariant.
TalkTypeOK ==
    /\ up \in {"up", "interrupted", "crashed"}
    /\ listening \subseteq {main} \cup Tasks
    /\ queue \in Seq(Clients)
    /\ cur \in Clients \cup {NoClient}
    /\ mainpc \in {"accept", "start", "close", "talk", "ended"}
    /\ peer \in [Clients -> {"away", "open", "closed", "refused", "reset"}]
    /\ sent \in [Clients -> 0..2]
    /\ inbox \in [Clients -> 0..2]
    /\ told \in [Clients -> 0..3]
    /\ held \in [Clients -> SUBSET ({main} \cup Tasks)]
    /\ pc \in [Tasks -> Labels]
    /\ conn \in [Tasks -> Clients \cup {NoClient}]

\* Each client talks with one task at most.
OwnClient ==
    \A t, u \in Tasks : (conn[t] = conn[u] /\ conn[t] # NoClient
                         /\ pc[t] # "ended" /\ pc[u] # "ended") => t = u
====
