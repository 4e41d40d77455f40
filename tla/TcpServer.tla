---- MODULE TcpServer ----
(***************************************************************************)
(* web_server: tcpserv01.c forks a child for each connection, which        *)
(* answers lines (str_echo08.c) or, in the solution, one request with one  *)
(* reply (handle_request); the clients send their input line by line       *)
(* (str_cli08.c) or one request (send_get).  Another client, "batch",      *)
(* sends all of its input, shuts its side down and reads to the end.       *)
(*                                                                         *)
(* main is what the parent does next: accept, fork, close its descriptor.  *)
(* A child and its client have the program counters of StreamIO.           *)
(***************************************************************************)
EXTENDS StreamIO

CONSTANTS Clients,
          Service,      \* "str_echo" or "handle_request"
          Inputs,       \* [Clients -> the <<kind, text>> a client may have]
          Window,       \* how many bytes a connection holds in one direction
          MaxFaults     \* how many calls fail and clients are killed

VARIABLES
    main, current,  \* the parent, and the connection accept returned
    listeners,      \* the processes that hold the listening socket: 0 is main, c a child
    conn,           \* "new", "queued", "accepted" or "reset"
    held,           \* the processes that hold the server's end
    client, child,  \* the two processes of each connection
    input,          \* the <<kind, text>> of a client
    unsent,         \* what is left of the text for fgets
    up, down,       \* bytes on their way to the server, and back
    faults

procvars == <<client, child, up, down, unsent>>
vars == <<main, current, listeners, conn, held, procvars, input, faults>>

\* The reply's first line and its body; the empty lines behind them are left out.
reply == <<"h", NL, "b", NL>>
sendline == <<"g", NL>>

\* str_echo's answer to one line: the sum when sscanf finds two numbers, which
\* "2" stands for.
Reply(line) == IF \E k \in 1..Len(line) : line[k] = "2" THEN <<"s", NL>> ELSE <<"e", NL>>

\* A text character by character: the line that has begun after k of them, and
\* the answers to the lines before it.
Heard(text) ==
    LET heard[k \in 0..Len(text)] ==
            IF k = 0 THEN [line |-> <<>>, said |-> <<>>]
            ELSE LET line == Append(heard[k - 1].line, text[k])
                     said == heard[k - 1].said
                 IN IF text[k] = NL \/ Len(line) = MAXLINE - 1
                    THEN [line |-> <<>>, said |-> said \o Reply(line)]
                    ELSE [line |-> line, said |-> said]
    IN heard

\* What a client is to see in the end: a last line without its end is a line.
AnswersTo(text) ==
    LET last == Heard(text)[Len(text)]
    IN last.said \o (IF last.line = <<>> THEN <<>> ELSE Reply(last.line))
Answers ==
    [i \in UNION {Inputs[c] : c \in Clients} |->
        IF Service = "handle_request" THEN reply ELSE AnswersTo(i[2])]

Kind(c) == input[c][1]

\* What one read may take of a stream, and what it leaves.
Some(stream) == 1..(IF Len(stream) < MAXLINE THEN Len(stream) ELSE MAXLINE)
Rest(stream, n) == SubSeq(stream, n + 1, Len(stream))

\* Init is after Socket, Bind and Listen.
Init ==
    /\ main = "accept" /\ listeners = {0} /\ faults = 0
    /\ current \in Clients
    /\ conn = [c \in Clients |-> "new"]
    /\ held = [c \in Clients |-> {}]
    /\ client = [c \in Clients |-> Process("connect")]
    /\ child = [c \in Clients |-> Process("none")]
    /\ input \in [Clients -> UNION {Inputs[c] : c \in Clients}]
    /\ \A c \in Clients : input[c] \in Inputs[c]
    /\ unsent = [c \in Clients |-> input[c][2]]
    /\ up = [c \in Clients |-> <<>>] /\ down = [c \in Clients |-> <<>>]

Fault == faults < MaxFaults /\ faults' = faults + 1

-----------------------------------------------------------------------------
\* The connections that wait are reset with the last copy of the listener.
Unlisten(p) ==
    /\ listeners' = listeners \ {p}
    /\ conn' = [c \in Clients |-> IF listeners = {p} /\ conn[c] = "queued" THEN "reset"
                                  ELSE conn[c]]

MainAccepts ==
    /\ main = "accept"
    /\ \E c \in Clients :
        /\ conn[c] = "queued"
        /\ \/ /\ Accept(3, "") = "returns"
              /\ conn' = [conn EXCEPT ![c] = "accepted"]
              /\ held' = [held EXCEPT ![c] = {"main"}]
              /\ current' = c /\ main' = "fork"
           \/ /\ Dead(client[c]) /\ Accept(-1, "ECONNABORTED") = "again"
              /\ conn' = [conn EXCEPT ![c] = "reset"]
              /\ UNCHANGED <<held, current, main>>
    /\ UNCHANGED <<listeners, procvars, input, faults>>

\* The process ends with err_sys, and its descriptors with it.
MainFails ==
    /\ main \in {"accept", "fork"} /\ Fault
    /\ main = "fork" => wrapunix("Fork", -1, 0)
    /\ main' = "failed"
    /\ Unlisten(0)
    /\ held' = [held EXCEPT ![current] = @ \ {"main"}]
    /\ UNCHANGED <<current, procvars, input>>

\* The child has a copy of the static buffer, which main has not used.
MainForks ==
    /\ main = "fork" /\ main' = "close"
    /\ child' = [child EXCEPT ![current] = Process("start")]
    /\ held' = [held EXCEPT ![current] = @ \cup {"child"}]
    /\ listeners' = listeners \cup {current}
    /\ UNCHANGED <<current, conn, client, up, down, unsent, input, faults>>

\* Mutated form: main keeps the descriptor.
MainCloses_Forgotten ==
    /\ main = "close" /\ main' = "accept"
    /\ UNCHANGED <<current, listeners, conn, held, procvars, input, faults>>

MainCloses ==
    /\ main = "close" /\ main' = "accept"
    /\ held' = [held EXCEPT ![current] = @ \ {"main"}]
    /\ UNCHANGED <<current, listeners, conn, procvars, input, faults>>

ChildStarts(c) ==
    /\ child[c].pc = "start"
    /\ child' = [child EXCEPT ![c].pc = "readline"]
    /\ Unlisten(c)
    /\ UNCHANGED <<main, current, held, client, up, down, unsent, input, faults>>

-----------------------------------------------------------------------------
\* What the programs do when the library returns.  str_echo answers the line;
\* handle_request answers one.
ChildNext(r) ==
    CASE r.pc = "got" -> [r EXCEPT !.pc = "writen", !.line = <<>>,
                                   !.out = IF Service = "str_echo" THEN Reply(r.line) ELSE reply]
      [] r.pc = "eof" -> exit(r)
      [] r.pc = "written" -> IF Service = "str_echo" THEN [r EXCEPT !.pc = "readline"] ELSE exit(r)
      [] OTHER -> r

\* str_cli prints the answer and goes on with fgets; send_get and the batch
\* client print up to the end.
ClientNext(c, r) ==
    LET cli == Kind(c) = "str_cli" IN
    CASE r.pc = "got" -> [r EXCEPT !.pc = IF cli THEN "fgets" ELSE "readline",
                                   !.shown = @ \o r.line, !.line = <<>>]
      [] r.pc = "eof" -> IF cli THEN err_sys(r) ELSE exit(r)
      [] r.pc = "written" -> [r EXCEPT !.pc = IF cli THEN "readline" ELSE "fgets"]
      [] OTHER -> r

ClientConnects(c) ==
    /\ client[c].pc = "connect"
    /\ IF listeners = {} THEN /\ wrapsock("Connect", -1, 0)
                              /\ client' = [client EXCEPT ![c] = err_sys(@)] /\ conn' = conn
       ELSE /\ client' = [client EXCEPT ![c].pc = "fgets"]
            /\ conn' = [conn EXCEPT ![c] = "queued"]
    /\ UNCHANGED <<main, current, listeners, held, child, up, down, unsent, input, faults>>

ClientGets(c) ==
    /\ client[c].pc = "fgets"
    /\ IF unsent[c] # <<>>
       THEN LET n == fgets(unsent[c]) IN
            /\ client' = [client EXCEPT ![c].pc = "writen", ![c].out = SubSeq(unsent[c], 1, n)]
            /\ unsent' = [unsent EXCEPT ![c] = Rest(@, n)]
       ELSE /\ client' = [client EXCEPT ![c] = IF Kind(c) = "str_cli" THEN exit(@)
                                               ELSE [@ EXCEPT !.pc = "readline"]]
            /\ UNCHANGED unsent
    /\ UNCHANGED <<main, current, listeners, conn, held, child, up, down, input, faults>>

-----------------------------------------------------------------------------
\* Whether nothing more comes from the other side.
ClientDone(c) ==
    Dead(client[c]) \/ (Kind(c) = "batch" /\ client[c].pc = "readline")
ServerDone(c) == conn[c] = "accepted" /\ held[c] = {}

\* A step of a child, and what its exit closes.
SetChild(c, r) ==
    /\ child' = [child EXCEPT ![c] = ChildNext(r)]
    /\ held' = [held EXCEPT ![c] = IF Dead(ChildNext(r)) THEN @ \ {"child"} ELSE @]

\* A client that is gone may have reset the connection: read fails, also with
\* something left to read.
ChildReads(c) ==
    LET r == child[c] IN
    /\ r.pc = "readline"
    /\ IF r.buf # <<>> THEN SetChild(c, readline(r, r.buf)) /\ up' = up
       ELSE \/ \E n \in Some(up[c]) :
                /\ SetChild(c, readline(r, SubSeq(up[c], 1, n)))
                /\ up' = [up EXCEPT ![c] = Rest(@, n)]
            \/ /\ up[c] = <<>> /\ ClientDone(c)
               /\ SetChild(c, readline_eof(r)) /\ up' = up
            \/ Dead(client[c]) /\ SetChild(c, err_sys(r)) /\ up' = up
    /\ UNCHANGED <<main, current, listeners, conn, client, down, unsent, input, faults>>

\* A write takes as many bytes as there is room for, or fewer.  Those for a
\* client that is gone are lost, or the write fails.
ChildWrites(c) ==
    LET r == child[c] IN
    /\ r.pc = "writen"
    /\ IF Dead(client[c])
       THEN (SetChild(c, writen(r, Len(r.out))) \/ SetChild(c, err_sys(r))) /\ down' = down
       ELSE \E n \in 1..Len(r.out) :
                /\ Len(down[c]) + n <= Window
                /\ SetChild(c, writen(r, n))
                /\ down' = [down EXCEPT ![c] = @ \o SubSeq(r.out, 1, n)]
    /\ UNCHANGED <<main, current, listeners, conn, client, up, unsent, input, faults>>

ClientReads(c) ==
    LET r == client[c]
        set(x) == client' = [client EXCEPT ![c] = ClientNext(c, x)]
    IN
    /\ r.pc = "readline"
    /\ IF r.buf # <<>> THEN set(readline(r, r.buf)) /\ down' = down
       ELSE \/ \E n \in Some(down[c]) :
                /\ set(readline(r, SubSeq(down[c], 1, n)))
                /\ down' = [down EXCEPT ![c] = Rest(@, n)]
            \/ /\ down[c] = <<>> /\ ServerDone(c)
               /\ set(readline_eof(r)) /\ down' = down
            \/ conn[c] = "reset" /\ set(err_sys(r)) /\ down' = down
    /\ UNCHANGED <<main, current, listeners, conn, held, child, up, unsent, input, faults>>

ClientWrites(c) ==
    LET r == client[c]
        set(x) == client' = [client EXCEPT ![c] = ClientNext(c, x)]
    IN
    /\ r.pc = "writen"
    /\ IF ServerDone(c) \/ conn[c] = "reset"
       THEN (set(writen(r, Len(r.out))) \/ set(err_sys(r))) /\ up' = up
       ELSE \E n \in 1..Len(r.out) :
                /\ Len(up[c]) + n <= Window
                /\ set(writen(r, n))
                /\ up' = [up EXCEPT ![c] = @ \o SubSeq(r.out, 1, n)]
    /\ UNCHANGED <<main, current, listeners, conn, held, child, down, unsent, input, faults>>

ClientKilled(c) ==
    /\ ~Dead(client[c]) /\ Fault
    /\ client' = [client EXCEPT ![c].pc = "failed"]
    /\ UNCHANGED <<main, current, listeners, conn, held, child, up, down, unsent, input>>

-----------------------------------------------------------------------------
Parent == MainAccepts \/ MainForks \/ MainCloses
Child(c) == ChildStarts(c) \/ ChildReads(c) \/ ChildWrites(c)
Client(c) == ClientConnects(c) \/ ClientGets(c) \/ ClientReads(c) \/ ClientWrites(c)

Next == \/ Parent \/ MainFails
        \/ \E c \in Clients : Child(c) \/ Client(c) \/ ClientKilled(c)

Fairness == /\ WF_vars(Parent)
            /\ \A c \in Clients : WF_vars(Child(c)) /\ WF_vars(Client(c))

Spec == Init /\ [][Next]_vars /\ Fairness

-----------------------------------------------------------------------------
\* What a client has printed is the beginning of the answers to its own text,
\* in the order of its lines, and all of them when it has ended well.
AnswersInOrder ==
    \A c \in Clients :
        /\ \E n \in 0..Len(Answers[input[c]]) :
            client[c].shown = SubSeq(Answers[input[c]], 1, n)
        /\ client[c].pc = "exited" /\ faults = 0 => client[c].shown = Answers[input[c]]

\* A text that str_cli can send: its last line has an end, or is as long as a
\* line can be.  For another, client and child wait for each other for ever.
Complete(text) == Heard(text)[Len(text)].line = <<>>
Patient(c) == Kind(c) = "str_cli" /\ ~Complete(input[c][2])

\* What every client comes to: its end, and with no fault all its answers.
Served(c) ==
    \/ Patient(c)
    \/ Dead(client[c]) /\ (faults = 0 => client[c].pc = "exited")

\* Nothing is left of a connection whose client is gone: the child has ended,
\* and no process keeps the descriptor.
NothingKept(c) == held[c] = {} /\ (child[c].pc = "none" \/ Dead(child[c]))
====
