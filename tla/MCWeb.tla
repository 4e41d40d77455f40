---- MODULE MCWeb ----
(***************************************************************************)
(* The web server that answers lines, the one of the solution, the advice  *)
(* server and the Wikipedia client.                                        *)
(***************************************************************************)
EXTENDS Integers, Sequences

CONSTANTS Clients,
          MAXLINE, Window,               \* of web_server
          EchoInputs, HttpInputs,        \* what each client may have to send
          WebFaults,
          Advices, Pages,                \* what the other two servers send
          Chunk,                         \* what one recv takes
          AdviceFaults, WikiFaults

\* The clients of the solution's server send one request and read to the end;
\* two characters are a reply, which has to fit the line that reads it.
ASSUME WebAssumption ==
    /\ MAXLINE \in Nat /\ MAXLINE >= 3
    /\ 0 \notin Clients
    /\ \A c \in Clients :
        /\ \A x \in EchoInputs[c] : x[2] \in Seq(STRING)
        /\ \A x \in HttpInputs[c] : x[1] = "send_get" /\ x[2] \in Seq(STRING)
    /\ Advices \cup Pages \subseteq Seq(Nat) /\ Chunk \in Nat

VARIABLES server, main, current, listeners, conn, held, client, child, input, unsent, up, down,
          msg, failures

Echo == INSTANCE TcpServer WITH
    Service <- "str_echo", Inputs <- EchoInputs, MaxFaults <- WebFaults, faults <- failures
Http == INSTANCE TcpServer WITH
    Service <- "handle_request", Inputs <- HttpInputs, MaxFaults <- WebFaults, faults <- failures
Advice == INSTANCE AdviceServer WITH
    Service <- "advice", Texts <- Advices, MaxFaults <- AdviceFaults, faults <- failures
Wiki == INSTANCE AdviceServer WITH
    Service <- "wiki", Texts <- Pages, MaxFaults <- WikiFaults, faults <- failures

NoTcp == <<listeners, held, child, input, up>>
webvars == <<server, main, current, listeners, conn, held, client, child, input, unsent, up, down,
             msg, failures>>

Unused ==
    /\ listeners = {} /\ up = <<>>
    /\ held = [c \in Clients |-> {}] /\ child = [c \in Clients |-> Echo!Process("none")]
    /\ input = [c \in Clients |-> <<"none", <<>>>>]

WebInit ==
    \/ server = "echo" /\ Echo!Init /\ msg = <<>>
    \/ server = "http" /\ Http!Init /\ msg = <<>>
    \/ server = "advice" /\ Advice!Init /\ Unused
    \/ server = "wiki" /\ Wiki!Init /\ Unused

Serving(w, A, rest) == server = w /\ A /\ UNCHANGED <<server, rest>>

WebNext ==
    \/ Serving("echo", Echo!Next, msg)
    \/ Serving("http", Http!Next, msg)
    \/ Serving("advice", Advice!Next, NoTcp)
    \/ Serving("wiki", Wiki!Next, NoTcp)

\* The processes: a server's parent, its children, and the clients.
ParentStep == \/ Serving("echo", Echo!Parent, msg) \/ Serving("http", Http!Parent, msg)
              \/ Serving("advice", Advice!Main, NoTcp) \/ Serving("wiki", Wiki!Main, NoTcp)
ServerChildStep(c) == Serving("echo", Echo!Child(c), msg) \/ Serving("http", Http!Child(c), msg)
ClientStep(c) == \/ Serving("echo", Echo!Client(c), msg)
                 \/ Serving("http", Http!Client(c), msg)
                 \/ Serving("advice", Advice!Client(c), NoTcp)
                 \/ Serving("wiki", Wiki!Client(c), NoTcp)

WebSpec ==
    /\ WebInit /\ [][WebNext]_webvars
    /\ WF_webvars(ParentStep)
    /\ \A c \in Clients : WF_webvars(ServerChildStep(c))
    /\ \A c \in Clients : WF_webvars(ClientStep(c))

-----------------------------------------------------------------------------
\* The instance that is checked.
LongAndShort == <<
    {<<"str_cli", <<"x", "2", "\n">>>>, <<"str_cli", <<"2">>>>,
     <<"batch", <<"x", "\n", "2">>>>},
    {<<"str_cli", <<"x", "\n">>>>}>>
OneRequest == [c \in {1, 2} |-> {<<"send_get", <<"g", "\n">>>>}]
TwoAdvices == {<<1, 2, 3>>, <<4>>}
OnePage == {<<1, 2, 3>>}

-----------------------------------------------------------------------------
\* Every client sees the answers to what it sent, in order and whole, however
\* the bytes are cut up on the way.
RightAnswers ==
    CASE server = "echo" -> Echo!AnswersInOrder
      [] server = "http" -> Http!AnswersInOrder
      [] server = "advice" -> Advice!MessagesWhole
      [] server = "wiki" -> Wiki!MessagesWhole

\* Every client comes to an end, well when nothing fails.
ClientsEnd ==
    <>\A c \in Clients :
        CASE server = "echo" -> Echo!Served(c)
          [] server = "http" -> Http!Served(c)
          [] server = "advice" -> Advice!Served(c)
          [] server = "wiki" -> Wiki!Served(c)

\* In the end no process or descriptor is left of a connection whose client is
\* gone.
ConnectionsEnd ==
    <>[](server \in {"echo", "http"} =>
            \A c \in Clients : Echo!Dead(client[c]) => Echo!NothingKept(c))
====
