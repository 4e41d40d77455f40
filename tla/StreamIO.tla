---- MODULE StreamIO ----
(***************************************************************************)
(* The library of the web server (web_server: readline.c, writen.c, the    *)
(* wrap files and error.c): lines and full writes over a stream of bytes,  *)
(* and calls that end the program when they fail.                          *)
(* A process is a record: pc, the static buffer of my_read (buf, from      *)
(* read_ptr on), the line readline has so far, what writen has left (out)  *)
(* and what the program has printed (shown).                               *)
(***************************************************************************)
EXTENDS Integers, Sequences

CONSTANT MAXLINE   \* readline and fgets take MAXLINE - 1 characters at most

NL == "\n"
Process(pc) == [pc |-> pc, buf |-> <<>>, line |-> <<>>, out |-> <<>>, shown |-> <<>>]

Dead(r) == r.pc \in {"exited", "failed"}
err_sys(r) == [r EXCEPT !.pc = "failed"]
exit(r) == [r EXCEPT !.pc = "exited"]

\* Mutated form: what was read behind the line is thrown away.
my_read_Drop(chars, k) == <<>>

\* my_read hands out one character after the other; the rest of what read
\* returned stays in the static buffer.
my_read(chars, k) == SubSeq(chars, k + 1, Len(chars))

\* Where a line may end that has some characters already: at a newline, or when
\* it is as long as the buffer takes.
LineEnds(chars, has) == {k \in 1..Len(chars) : chars[k] = NL \/ has + k = MAXLINE - 1}
First(ends) == CHOOSE k \in ends : \A m \in ends : k <= m

\* readline on the characters at hand: to the end of the line, or all of them,
\* and more are needed.  The line is complete in "got".
readline(r, chars) ==
    LET ends == LineEnds(chars, Len(r.line))
        k == First(ends)
    IN IF ends = {} THEN [r EXCEPT !.line = @ \o chars, !.buf = <<>>]
       ELSE [r EXCEPT !.line = @ \o SubSeq(chars, 1, k), !.buf = my_read(chars, k),
                      !.pc = "got"]

\* At the end of the stream: a line without its end counts as one.
readline_eof(r) == [r EXCEPT !.pc = IF r.line = <<>> THEN "eof" ELSE "got"]

\* writen after a write of n bytes: it writes again until nothing is left.  (As
\* in my_read, a call that a signal interrupts is made again.)
writen(r, n) ==
    [r EXCEPT !.out = SubSeq(@, n + 1, Len(@)),
              !.pc = IF n = Len(r.out) THEN "written" ELSE @]

\* How much of what is left of a file fgets returns.
fgets(rest) == IF LineEnds(rest, 0) = {} THEN Len(rest) ELSE First(LineEnds(rest, 0))

-----------------------------------------------------------------------------
\* The wrappers: which return values of the call behind them they take for a
\* failure, which is the end of the program.  NULL is 0.
wrapunix(call, n, nbytes) ==
    CASE call \in {"Calloc", "Malloc", "Strdup"} -> n = 0
      [] call = "Pipe" -> n < 0
      [] call = "Write" -> n # nbytes
      [] OTHER -> n = -1

wrapsock(call, n, nbytes) ==
    IF call \in {"Send", "Sendto", "Sendmsg"} THEN n # nbytes ELSE n < 0

\* At the end of the file fgets returns NULL without an error.
wrapstdio(call, n, error) ==
    CASE call = "Fclose" -> n # 0
      [] call \in {"Fdopen", "Fopen"} -> n = 0
      [] call = "Fgets" -> n = 0 /\ error
      [] call = "Fputs" -> n = -1

wraplib(call, n) == IF call = "Inet_ntop" THEN n = 0 ELSE n <= 0

\* accept is called again after EPROTO and ECONNABORTED.
Accept(n, errno) ==
    IF n >= 0 THEN "returns" ELSE IF errno \in {"EPROTO", "ECONNABORTED"} THEN "again" ELSE "exits"

-----------------------------------------------------------------------------
\* What a program may rely on when a wrapper has returned: a descriptor, a
\* process or a length is not negative, a pointer not NULL, everything written.
WrappersSound ==
    \A n \in -1..3 :
        /\ \A call \in {"Fork", "Open", "Read", "Fcntl", "Ioctl", "Wait", "Waitpid", "Close"} :
            ~wrapunix(call, n, 2) => n >= 0
        /\ \A call \in {"Socket", "Bind", "Listen", "Connect", "Recv", "Recvfrom", "Select"} :
            ~wrapsock(call, n, 2) => n >= 0
        /\ Accept(n, "EMFILE") = "returns" => n >= 0
        /\ \A call \in {"Calloc", "Malloc", "Strdup"} : ~wrapunix(call, n, 2) => n # 0
        /\ \A call \in {"Fopen", "Fdopen"} : ~wrapstdio(call, n, TRUE) => n # 0
        /\ ~wrapunix("Write", n, 2) \/ ~wrapsock("Send", n, 2) => n = 2
        /\ ~wraplib("Inet_pton", n) => n > 0
====
