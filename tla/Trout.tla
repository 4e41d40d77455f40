---- MODULE Trout ----
(***************************************************************************)
(* exercises/ex04/trout: trace the route to a host by sending UDP probes   *)
(* with a growing time to live and reading the ICMP answers.               *)
(*                                                                         *)
(* For each ttl (loop_ttl) the program sends nprobes probes (send_probes); *)
(* for each it sets an alarm, waits in select for a datagram or for the    *)
(* pipe that the alarm handler writes to (recv_dgram), and prints either a *)
(* star or a report.  pc names the next system call or decision:           *)
(*   "send", "retry"  the sendto calls of send_dgram                       *)
(*   "alarm"          alarm(3), at the start of recv_dgram                 *)
(*   "select", "recv", "pipe"  select, and what follows for each file      *)
(*   "print"          send_probes prints what recv_dgram returned          *)
(*   "end", "exit"    loop_ttl is over; err_sys ended the program          *)
(*                                                                         *)
(* The network may lose, delay, reorder and (Extra times) duplicate        *)
(* answers, and other ICMP messages may reach the raw socket.              *)
(***************************************************************************)
EXTENDS Integers, Sequences

CONSTANTS nprobes, max_ttl,
          Distance,   \* the least ttl with which a probe reaches the host
          Extra       \* how many duplicates and unrelated messages arrive

ASSUME TroutAssumption ==
    /\ nprobes \in Nat \ {0}
    /\ max_ttl \in Nat \ {0}
    /\ Distance \in Nat
    /\ Extra \in Nat

VARIABLES
    pc, ttl,
    probe,      \* send_probes' loop counter
    done,       \* how many probes of this ttl met an unreachable port
    seq,        \* the sequence number, which also selects the probe's port
    rset,       \* the files select reported: a subset of {"recvfd", "pipefd"}
    packet,     \* what the last recvfrom of this call left
    code,       \* what recv_dgram returned
    timer,      \* the alarm is armed
    pipe,       \* the bytes in the pipe
    wire,       \* answers on their way
    queue,      \* messages in the raw socket's buffer
    refused,    \* sendfd has a pending ECONNREFUSED
    extra       \* duplicates and unrelated messages so far

progvars == <<ttl, probe, done, seq>>
callvars == <<rset, packet, code>>
netvars == <<wire, queue, refused, extra>>
vars == <<pc, progvars, callvars, timer, pipe, netvars>>

Labels == {"send", "retry", "alarm", "select", "recv", "pipe", "print", "end", "exit"}
Answer == [kind : {"exceeded", "unreachable"}, seq : Nat]
Other == [kind |-> "other"]      \* ICMP that no probe of ours caused
Nothing == [kind |-> "nothing"]  \* recvfrom failed with EAGAIN
Ended == pc \in {"end", "exit"}

Init ==
    /\ pc = "send" /\ ttl = 1 /\ probe = 0 /\ done = 0 /\ seq = 0
    /\ rset = {} /\ packet = Nothing /\ code = 0
    /\ timer = FALSE /\ pipe = 0
    /\ wire = {} /\ queue = <<>> /\ refused = FALSE /\ extra = 0

-----------------------------------------------------------------------------
\* send_dgram: the probe is out, and an answer to it may come back.
Transmit(s) ==
    /\ \/ wire' = wire
       \/ wire' = wire \cup {[kind |-> IF ttl >= Distance THEN "unreachable" ELSE "exceeded",
                              seq |-> s]}
    /\ pc' = "alarm"

Send ==
    /\ pc = "send"
    /\ seq' = seq + 1
    /\ IF refused THEN pc' = "retry" /\ wire' = wire ELSE Transmit(seq + 1)
    /\ refused' = FALSE
    /\ UNCHANGED <<ttl, probe, done, callvars, timer, pipe, queue, extra>>

\* The second effort; a second refusal is an error like any other.
Retry ==
    /\ pc = "retry"
    /\ IF refused THEN pc' = "exit" /\ wire' = wire ELSE Transmit(seq)
    /\ refused' = FALSE
    /\ UNCHANGED <<progvars, callvars, timer, pipe, queue, extra>>

\* sendto, select or recvfrom fails in a way err_sys ends the program for.
SystemError ==
    /\ pc \in {"send", "retry", "select", "recv"}
    /\ pc' = "exit"
    /\ UNCHANGED <<progvars, callvars, timer, pipe, netvars>>

-----------------------------------------------------------------------------
\* recv_dgram

\* Mutated form: the alarm is not set again.
SetAlarm_Once ==
    /\ pc = "alarm"
    /\ pc' = "select"
    /\ timer' = (timer \/ seq = 1)
    /\ UNCHANGED <<progvars, callvars, pipe, netvars>>

\* alarm(3) replaces an alarm that is still armed.
SetAlarm ==
    /\ pc = "alarm"
    /\ pc' = "select"
    /\ timer' = TRUE
    /\ UNCHANGED <<progvars, callvars, pipe, netvars>>

\* select returns the files that are readable; now and then it also reports a
\* datagram that is not there.
Select ==
    /\ pc = "select"
    /\ LET ready == {f \in {"recvfd", "pipefd"} :
                        IF f = "recvfd" THEN queue # <<>> ELSE pipe > 0}
       IN \/ ready # {} /\ rset' = ready
          \/ rset' = ready \cup {"recvfd"}
    /\ pc' = "recv"
    /\ UNCHANGED <<progvars, packet, code, timer, pipe, netvars>>

\* The alarm goes off and the handler writes a byte.  A select that waits is
\* interrupted and leaves rset as it was set for the call.
Alarm ==
    /\ timer
    /\ timer' = FALSE
    /\ pipe' = pipe + 1
    /\ \/ UNCHANGED <<pc, rset>>
       \/ /\ pc = "select" /\ queue = <<>> /\ pipe = 0
          /\ pc' = "recv"
          /\ rset' = {"recvfd", "pipefd"}
    /\ UNCHANGED <<progvars, packet, code, netvars>>

Recv ==
    /\ pc = "recv"
    /\ IF "recvfd" \in rset /\ queue # <<>>
           THEN packet' = Head(queue) /\ queue' = Tail(queue)
           ELSE packet' = Nothing /\ queue' = queue
    /\ pc' = "pipe"
    /\ UNCHANGED <<progvars, rset, code, timer, pipe, wire, refused, extra>>

\* Mutated form: the port is not compared with the last probe's.
process_ip_AnyPort(p) ==
    CASE p.kind = "exceeded" -> -2
      [] p.kind = "unreachable" -> -1
      [] OTHER -> 0

\* Is the packet an answer to the last probe, and from whom.
process_ip(p) ==
    IF p.kind \notin {"exceeded", "unreachable"} \/ p.seq # seq THEN 0
    ELSE IF p.kind = "exceeded" THEN -2 ELSE -1

\* Mutated form: the byte is left in the pipe.
Pipe_NoRead ==
    /\ pc = "pipe"
    /\ code' = IF "pipefd" \in rset THEN -3 ELSE process_ip(packet)
    /\ pc' = "print"
    /\ UNCHANGED <<progvars, rset, packet, timer, pipe, netvars>>

\* A readable pipe makes it a timeout, whatever recvfrom found.  Read takes
\* one byte, and would wait for it.
Pipe ==
    /\ pc = "pipe"
    /\ IF "pipefd" \in rset
           THEN pipe > 0 /\ pipe' = pipe - 1 /\ code' = -3
           ELSE pipe' = pipe /\ code' = process_ip(packet)
    /\ pc' = "print"
    /\ UNCHANGED <<progvars, rset, packet, timer, netvars>>

-----------------------------------------------------------------------------
\* Mutated form: any router counts as the host.
Reached_Any == IF code \in {-1, -2} THEN done + 1 ELSE done

\* Probes of this ttl that reached the host, the last one included.
Reached == IF code = -1 THEN done + 1 ELSE done

\* Mutated form: one probe too many.
LastProbe_Late == probe = nprobes

LastProbe == probe + 1 = nprobes

\* send_probes and loop_ttl: a star or a report, then the next probe, or the
\* next ttl, or the end if a probe of this ttl reached the host.
Show ==
    /\ pc = "print"
    /\ LET stop == LastProbe /\ (Reached > 0 \/ ttl = max_ttl)
       IN /\ pc' = IF stop THEN "end" ELSE "send"
          /\ probe' = IF LastProbe THEN 0 ELSE probe + 1
          /\ done' = IF LastProbe /\ ~stop THEN 0 ELSE Reached
          /\ ttl' = IF LastProbe /\ ~stop THEN ttl + 1 ELSE ttl
    /\ rset' = {} /\ packet' = Nothing /\ code' = 0   \* locals of the call
    /\ UNCHANGED <<seq, timer, pipe, netvars>>

-----------------------------------------------------------------------------
\* The network.

\* An answer reaches the raw socket; one about an unreachable port may also
\* leave an error on sendfd.
Deliver(a) ==
    /\ a \in wire
    /\ queue' = Append(queue, a)
    /\ \/ wire' = wire \ {a} /\ extra' = extra
       \/ extra < Extra /\ extra' = extra + 1 /\ wire' = wire
    /\ refused' \in {refused, refused \/ a.kind = "unreachable"}
    /\ UNCHANGED <<pc, progvars, callvars, timer, pipe>>

DeliverOther ==
    /\ extra < Extra
    /\ extra' = extra + 1
    /\ queue' = Append(queue, Other)
    /\ UNCHANGED <<pc, progvars, callvars, timer, pipe, wire, refused>>

Program == Send \/ Retry \/ SetAlarm \/ Select \/ Recv \/ Pipe \/ Show

Next ==
    \/ ~Ended /\ \/ DeliverOther \/ \E a \in wire : Deliver(a)
                 \/ Program \/ Alarm \/ SystemError
    \/ Ended /\ UNCHANGED vars

Spec == Init /\ [][Next]_vars

\* Select that finds nothing is no progress the program is owed: it returns
\* when a file is readable.
Ready == Program /\ ~(pc = "select" /\ queue = <<>> /\ pipe = 0)

\* The process is scheduled and an armed alarm goes off.
FairSpec == Spec /\ WF_vars(~Ended /\ Ready) /\ WF_vars(~Ended /\ Alarm)

-----------------------------------------------------------------------------
\* Type invariant.
TypeOK ==
    /\ pc \in Labels
    /\ ttl \in 1..max_ttl
    /\ probe \in 0..(nprobes - 1)
    /\ done \in 0..nprobes
    /\ seq \in Nat
    /\ rset \subseteq {"recvfd", "pipefd"}
    /\ packet \in Answer \cup {Other, Nothing}
    /\ code \in -3..0
    /\ timer \in BOOLEAN
    /\ pipe \in Nat
    /\ wire \subseteq Answer
    /\ queue \in Seq(Answer \cup {Other})
    /\ refused \in BOOLEAN
    /\ extra \in 0..Extra

\* The race that the comment before recv_dgram describes is gone: whenever the
\* program waits in select, an alarm or a byte in the pipe will end the wait,
\* and when it reads the pipe there is a byte to read.
NeverStuck ==
    /\ pc = "select" => timer \/ pipe > 0
    /\ pc = "pipe" /\ "pipefd" \in rset => pipe > 0

\* An alarm that goes off after recv_dgram returned leaves a byte for the next
\* call.  Such bytes do not pile up: there is one at most between the calls,
\* and never more than two bytes and alarms to come.
AlarmsInPlay == pipe + (IF timer THEN 1 ELSE 0)
StaleAlarms ==
    /\ AlarmsInPlay <= 2
    /\ pc \in {"send", "retry", "alarm", "print"} => AlarmsInPlay <= 1

\* The route that is printed is the route: what is shown as the host answered a
\* probe with a ttl that reaches it, and what is shown as a router one with a
\* ttl that does not, however late, repeated or reordered the answers to the
\* probes of earlier ttls come.
RightHop ==
    pc = "print" => /\ code = -1 => ttl >= Distance
                    /\ code = -2 => ttl < Distance

\* The loop ends at a ttl that reaches the host, after an answer from it, or
\* at max_ttl without one.
StopsAtHost == pc = "end" => IF done > 0 THEN ttl >= Distance ELSE ttl = max_ttl

\* The program ends, whatever the network loses.
Finishes == <>Ended

\* print_report "prints all the information about a successful round trip": a
\* packet that is reported answers a probe.
ReportIsRoundTrip ==
    pc = "print" /\ code # -3 /\ packet # Nothing => code \in {-1, -2}
====
