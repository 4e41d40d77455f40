---- MODULE AdviceServer ----
(***************************************************************************)
(* exercises/ex11: advice_server.c sends one piece of advice to each       *)
(* client that connects, one after the other, with no child or thread;     *)
(* advice_client.c prints what it receives.  wiki_client.c sends a request *)
(* in two parts to a server on the network (external), and prints the page *)
(* in the same way.                                                        *)
(***************************************************************************)
EXTENDS Integers, Sequences

CONSTANTS Clients,
          Service,     \* "advice" or "wiki"
          Texts,       \* the pieces of advice, or the pages
          Chunk,       \* the 255 bytes of one recv
          MaxFaults    \* how many calls fail, and clients are killed

VARIABLES
    main, current,     \* the server: accept, send, close; the socket it has, or 0
    conn,              \* "new", "queued", "accepted", "closed" or "reset"
    client,            \* pc, and what was printed
    unsent,            \* what a client has still to say
    down,              \* bytes on their way to a client
    msg,               \* what the server has sent to a client
    faults

vars == <<main, current, conn, client, unsent, down, msg, faults>>

Ended(c) == client[c].pc \in {"exited", "failed"}

Init ==
    /\ main = "accept" /\ current = 0 /\ faults = 0
    /\ conn = [c \in Clients |-> "new"]
    /\ client = [c \in Clients |-> [pc |-> "open", shown |-> <<>>]]
    /\ unsent = [c \in Clients |-> IF Service = "wiki" THEN <<"request", "host">> ELSE <<>>]
    /\ down = [c \in Clients |-> <<>>] /\ msg = [c \in Clients |-> <<>>]

Fault == faults < MaxFaults /\ faults' = faults + 1

-----------------------------------------------------------------------------
\* accept waits for a client.
MainAccepts ==
    /\ main = "accept" /\ main' = "send"
    /\ \E c \in Clients : /\ conn[c] = "queued" /\ current' = c
                          /\ conn' = [conn EXCEPT ![c] = "accepted"]
    /\ UNCHANGED <<client, unsent, down, msg, faults>>

\* accept's result is not looked at: -1 goes to send, which fails.
MainAcceptFails ==
    /\ main = "accept" /\ Service = "advice" /\ Fault
    /\ main' = "send" /\ current' = 0
    /\ UNCHANGED <<conn, client, unsent, down, msg>>

\* error ends the server, and the connections with it.
MainFails ==
    /\ main' = "failed"
    /\ conn' = [c \in Clients |-> CASE conn[c] = "queued" -> "reset"
                                    [] conn[c] = "accepted" -> "closed"
                                    [] OTHER -> conn[c]]
    /\ UNCHANGED <<client, unsent, down, msg, faults>>

\* The whole message is sent at once.  To a client that is gone it is lost, or
\* send fails, which ends the server.
MainSends ==
    /\ main = "send" /\ UNCHANGED current
    /\ IF current = 0 THEN MainFails
       ELSE \/ /\ unsent[current] = <<>> \/ Ended(current)
               /\ \E text \in Texts :
                    /\ down' = [down EXCEPT ![current] = text]
                    /\ msg' = [msg EXCEPT ![current] = text]
               /\ main' = "close"
               /\ UNCHANGED <<conn, client, unsent, faults>>
            \/ Ended(current) /\ Service = "advice" /\ MainFails

\* Mutated form: the descriptor is not closed.
MainCloses_Forgotten ==
    /\ main = "close" /\ main' = "accept"
    /\ UNCHANGED <<current, conn, client, unsent, down, msg, faults>>

MainCloses ==
    /\ main = "close" /\ main' = "accept"
    /\ conn' = [conn EXCEPT ![current] = "closed"]
    /\ UNCHANGED <<current, client, unsent, down, msg, faults>>

-----------------------------------------------------------------------------
Set(c, pc) == client' = [client EXCEPT ![c].pc = pc]

\* open_socket.  A name that is not found is not noticed (getaddrinfo returns
\* another number than -1) and the program goes on with an unset pointer.
OpenSocket(c) ==
    /\ client[c].pc = "open"
    /\ \/ /\ main # "failed" /\ Set(c, "say")
          /\ conn' = [conn EXCEPT ![c] = "queued"] /\ UNCHANGED faults
       \/ /\ main = "failed" /\ Set(c, "failed") /\ UNCHANGED <<conn, faults>>
       \/ Fault /\ Set(c, "failed") /\ UNCHANGED conn
    /\ UNCHANGED <<main, current, unsent, down, msg>>

\* say, for each part of the request; the advice client has none.
Say(c) ==
    /\ client[c].pc = "say"
    /\ IF unsent[c] = <<>> THEN Set(c, "recv") /\ UNCHANGED unsent
       ELSE \/ Set(c, "say") /\ unsent' = [unsent EXCEPT ![c] = Tail(@)]
            \/ conn[c] \in {"closed", "reset"} /\ Set(c, "failed") /\ UNCHANGED unsent
    /\ UNCHANGED <<main, current, conn, down, msg, faults>>

\* recv returns some of the bytes, 0 at the end, or -1.
Recv(c) ==
    /\ client[c].pc = "recv"
    /\ \/ \E n \in 1..Chunk :
            /\ n <= Len(down[c])
            /\ client' = [client EXCEPT ![c].shown = @ \o SubSeq(down[c], 1, n)]
            /\ down' = [down EXCEPT ![c] = SubSeq(@, n + 1, Len(@))]
       \/ down[c] = <<>> /\ conn[c] = "closed" /\ Set(c, "exited") /\ UNCHANGED down
       \/ conn[c] = "reset" /\ Set(c, "failed") /\ UNCHANGED down
    /\ UNCHANGED <<main, current, conn, unsent, msg, faults>>

Killed(c) ==
    /\ ~Ended(c) /\ Fault /\ Set(c, "failed")
    /\ UNCHANGED <<main, current, conn, unsent, down, msg>>

-----------------------------------------------------------------------------
Main == MainAccepts \/ MainSends \/ MainCloses
Client(c) == OpenSocket(c) \/ Say(c) \/ Recv(c)

\* No failing call is owed.
Next == Main \/ MainAcceptFails \/ \E c \in Clients : Client(c) \/ Killed(c)

Fairness == WF_vars(Main) /\ \A c \in Clients : WF_vars(Client(c))

Spec == Init /\ [][Next]_vars /\ Fairness

-----------------------------------------------------------------------------
\* A client prints the message that was sent to it, in order, and all of it
\* before it ends well; nothing when the server had to give up.
MessagesWhole ==
    \A c \in Clients :
        /\ client[c].shown \o down[c] = msg[c]
        /\ client[c].pc = "exited" => client[c].shown = msg[c]
        /\ client[c].pc = "exited" /\ main # "failed" => msg[c] \in Texts

\* What every client comes to: its end, and with no fault a whole message.
Served(c) == Ended(c) /\ (faults = 0 => client[c].pc = "exited" /\ client[c].shown \in Texts)
====
