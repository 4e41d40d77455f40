---- MODULE TroutUtil ----
(***************************************************************************)
(* What trout does around its probes (exercises/ex04/trout: main.c, util.c *)
(* and the report in trout.c): options, names, system calls that may fail, *)
(* times, and who is named in a line of the output.                        *)
(***************************************************************************)
EXTENDS Integers, Sequences, FiniteSets, SequencesExt

CONSTANT Million   \* the 1000000 microseconds of a second

Quits == -1        \* the outcome of err_quit, err_sys and exit

\* getopt with "m:": an argument "m" is -m and what atoi makes of its
\* value; "x" is another option, or -m with no value.
Given(args, o) == {k \in 1..Len(args) : args[k].is = o}
Hosts(args) == Given(args, "host")

\* Host_serv quits when no address is found; the first one must be an AF_INET.
Host_serv(host, names) == IF host \in DOMAIN names THEN names[host] ELSE "none"

\* The max_ttl that loop_ttl uses; 30 without the option, the last one given.
main(args, names) ==
    LET ms == Given(args, "m")
        last == CHOOSE k \in ms : \A j \in ms : j <= k
        host == CHOOSE k \in Hosts(args) : TRUE
    IN IF \/ Given(args, "x") # {} \/ \E k \in ms : args[k].value <= 1
          \/ Cardinality(Hosts(args)) # 1 THEN Quits
       ELSE IF Host_serv(args[host].value, names) # "AF_INET" THEN Quits
       ELSE IF ms = {} THEN 30 ELSE args[last].value

-----------------------------------------------------------------------------
\* A call through a wrapper with a capital letter ends the program when it
\* fails; the other results are not looked at, but for the raw socket's.
wrapper == {"Calloc", "Pipe", "Bind", "Signal", "Setsockopt", "Gettimeofday"}
Checked == wrapper \cup {"socket_raw"}

\* From main's allocations to the first probe; without a socket Bind fails.
\* The result is how many calls were made.
Calls == <<"Calloc", "Pipe", "socket_raw", "fcntl", "setuid", "socket_udp", "Bind", "Signal",
           "Setsockopt", "Gettimeofday">>

loop_ttl(failing) ==
    LET fails(c) == c \in failing \/ (c = "Bind" /\ "socket_udp" \in failing)
        ends == {k \in 1..Len(Calls) : Calls[k] \in Checked /\ fails(Calls[k])}
    IN IF ends = {} THEN Len(Calls) ELSE Quits

-----------------------------------------------------------------------------
\* A Timeval is <<sec, usec>>.
tv_sub(out, in) ==
    LET usec == out[2] - in[2]
    IN IF usec < 0 THEN <<out[1] - 1 - in[1], usec + Million>> ELSE <<out[1] - in[1], usec>>

sub_tv(plus, minus) ==
    LET res == <<plus[1] - minus[1], plus[2] - minus[2]>>
    IN IF res[2] < 0 THEN <<res[1] - 1, res[2] + Million>> ELSE res

\* In milliseconds, times a thousand.
time_to_double(time) == time[1] * Million + time[2]

-----------------------------------------------------------------------------
\* An address is its family and the rest; bzero leaves family 0.
AF_INET(a) == [family |-> "inet", addr |-> a]
AF_UNIX(path) == [family |-> "unix", addr |-> path]
Zeroed == [family |-> "none", addr |-> ""]
Timeout == [family |-> "timeout", addr |-> ""]

sock_cmp_addr(sa1, sa2) ==
    IF sa1.family # sa2.family THEN -1
    ELSE IF sa1.family \notin {"inet", "unix"} THEN -1
    ELSE IF sa1.addr = sa2.addr THEN 0 ELSE 1

sock_ntop_host(sa) ==
    CASE sa.family = "inet" -> sa.addr
      [] sa.family = "unix" -> IF sa.addr = "" THEN "(no pathname bound)" ELSE sa.addr
      [] OTHER -> "unknown"

\* print_report: the host, when it is another than in the report before, and
\* the time; send_probes forgets the host at each ttl and prints a star for a
\* timeout.  line is what was printed; replies are addresses or Timeout.
print_report(state, from) ==
    LET named == IF sock_cmp_addr(from, state.salast) # 0 THEN <<sock_ntop_host(from)>> ELSE <<>>
    IN [line |-> state.line \o named \o <<"time">>, salast |-> from]

send_probes(replies) ==
    FoldLeft(LAMBDA s, r : IF r = Timeout THEN [s EXCEPT !.line = Append(@, "*")]
                           ELSE print_report(s, r),
             [line |-> <<>>, salast |-> Zeroed], replies).line

-----------------------------------------------------------------------------
\* The program starts probing with a max_ttl above 1, for one host that has an
\* address it can use, whatever the order of its arguments.
OptionsChecked(args, names) ==
    LET m == main(args, names) IN
    m # Quits => /\ m > 1
                 /\ \E k \in 1..Len(args) :
                        /\ args[k].is = "host" /\ names[args[k].value] = "AF_INET"
                        /\ \A j \in 1..Len(args) : args[j].is = "host" => j = k

\* Nothing that was given up is used later: probes are sent only with memory,
\* a pipe for the alarm and both sockets, and only after the handler is set.
NothingMissing(failing) ==
    loop_ttl(failing) # Quits => failing \subseteq {"fcntl", "setuid"}

\* Both subtractions give the microseconds between the two times, below one
\* million and not negative, also across a second.
TimesCorrect(plus, minus) ==
    LET d == sub_tv(plus, minus) IN
    /\ time_to_double(plus) >= time_to_double(minus) =>
        /\ d[1] >= 0 /\ d[2] \in 0..(Million - 1)
        /\ time_to_double(d) = time_to_double(plus) - time_to_double(minus)
    /\ tv_sub(plus, minus) = d

\* In a line of the output the last host before a time is the one that
\* answered, and no host is named twice in a row.
NamesRight(replies) ==
    LET line == send_probes(replies)
        reports == SelectSeq(replies, LAMBDA r : r # Timeout)
        times == SelectSeq([k \in 1..Len(line) |-> k], LAMBDA k : line[k] = "time")
        hosts(k) == {j \in 1..k : line[j] \notin {"time", "*"}}
        latest(k) == line[CHOOSE j \in hosts(k) : \A i \in hosts(k) : i <= j]
    IN /\ Len(times) = Len(reports)
       /\ \A n \in 1..Len(times) : latest(times[n]) = sock_ntop_host(reports[n])
       /\ \A n \in 1..(Len(times) - 1) :
            sock_cmp_addr(reports[n], reports[n + 1]) = 0
                => hosts(times[n]) = hosts(times[n + 1])
====
