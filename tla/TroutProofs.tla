---- MODULE TroutProofs ----
(***************************************************************************)
(* Proofs about Trout, for any number of probes and hops and any network:  *)
(* the wait in recv_dgram always ends, stale alarms do not pile up, each   *)
(* hop is shown as what it is, and the trace ends at the host.             *)
(***************************************************************************)
EXTENDS Trout, TLAPS

\* The alarms in play, call by call.  Of the two that there may be inside
\* recv_dgram one is gone when it returns: select saw the byte of the first,
\* or it saw an empty pipe and there was no first.
AlarmInv ==
    /\ pipe \in Nat
    /\ timer \in BOOLEAN
    /\ pc \in Labels
    /\ AlarmsInPlay <= 2
    /\ pc \in {"send", "retry", "alarm", "print"} => AlarmsInPlay <= 1
    /\ pc = "select" => timer \/ pipe > 0
    /\ pc \in {"recv", "pipe"} => IF "pipefd" \in rset THEN pipe > 0 ELSE AlarmsInPlay <= 1

-----------------------------------------------------------------------------
\* The alarms

LEMMA AlarmInit == Init => AlarmInv
<1> SUFFICES ASSUME Init PROVE AlarmInv
    OBVIOUS
<1>1. timer = FALSE /\ pipe = 0 /\ pc = "send"
  BY DEF Init
<1>2. timer \in BOOLEAN
  BY <1>1
<1>3. AlarmsInPlay = 0
  BY <1>1 DEF AlarmsInPlay
<1> QED  BY <1>1, <1>2, <1>3 DEF AlarmInv, Labels

\* Sending, the report and the network leave the alarms alone.
LEMMA AlarmQuiet ==
    ASSUME AlarmInv, UNCHANGED <<timer, pipe>>, pc' \in Labels,
           \/ pc' = pc /\ rset' = rset
           \/ pc \in {"send", "retry", "print"} /\ pc' \in {"send", "retry", "alarm", "end", "exit"}
           \/ pc' = "exit"
           \/ pc = "recv" /\ pc' = "pipe" /\ rset' = rset
    PROVE  AlarmInv'
<1>1. AlarmsInPlay' = AlarmsInPlay
  BY DEF AlarmsInPlay
<1> QED  BY <1>1 DEF AlarmInv, Labels

LEMMA AlarmStep == AlarmInv /\ [Next]_vars => AlarmInv'
<1> SUFFICES ASSUME AlarmInv, [Next]_vars PROVE AlarmInv'
    OBVIOUS
<1>a. pipe \in Nat /\ timer \in BOOLEAN /\ pc \in Labels
  BY DEF AlarmInv
<1>1. CASE Send \/ Retry
  BY <1>1, AlarmQuiet DEF Send, Retry, Transmit, Labels
<1>2. CASE SetAlarm
  <2>1. pc = "alarm" /\ pc' = "select" /\ timer' = TRUE /\ pipe' = pipe
    BY <1>2 DEF SetAlarm
  <2>2. pipe <= 1
    BY <1>a, <2>1 DEF AlarmInv, AlarmsInPlay
  <2>3. timer' \in BOOLEAN
    BY <2>1
  <2>4. AlarmsInPlay' = pipe + 1
    BY <2>1 DEF AlarmsInPlay
  <2> QED  BY <1>a, <2>1, <2>2, <2>3, <2>4 DEF AlarmInv, Labels
<1>3. CASE Select
  <2>1. pc = "select" /\ pc' = "recv" /\ UNCHANGED <<timer, pipe>>
        /\ ("pipefd" \in rset' <=> pipe > 0)
    BY <1>3 DEF Select
  <2>2. AlarmsInPlay' = AlarmsInPlay
    BY <2>1 DEF AlarmsInPlay
  <2>3. pipe = 0 => AlarmsInPlay <= 1
    BY DEF AlarmsInPlay
  <2> QED  BY <1>a, <2>1, <2>2, <2>3 DEF AlarmInv, Labels
<1>4. CASE Alarm
  <2>1. timer /\ timer' = FALSE /\ pipe' = pipe + 1
    BY <1>4 DEF Alarm
  <2>2. \/ pc' = pc /\ rset' = rset
        \/ pc = "select" /\ pc' = "recv" /\ "pipefd" \in rset'
    BY <1>4 DEF Alarm
  <2>3. timer' \in BOOLEAN
    BY <2>1
  <2>4. AlarmsInPlay = pipe + 1 /\ AlarmsInPlay' = pipe'
    BY <1>a, <2>1 DEF AlarmsInPlay
  <2> QED  BY <1>a, <2>1, <2>2, <2>3, <2>4 DEF AlarmInv, Labels
<1>5. CASE Recv
  BY <1>5, AlarmQuiet DEF Recv, Labels
<1>6. CASE Pipe
  <2>1. pc = "pipe" /\ pc' = "print" /\ timer' = timer
    BY <1>6 DEF Pipe
  <2>2. CASE "pipefd" \in rset
    <3>1. pipe > 0 /\ pipe' = pipe - 1
      BY <1>6, <2>2 DEF Pipe
    <3>2. AlarmsInPlay' = AlarmsInPlay - 1 /\ AlarmsInPlay \in Nat
      BY <1>a, <2>1, <3>1 DEF AlarmsInPlay
    <3> QED  BY <1>a, <2>1, <3>1, <3>2 DEF AlarmInv, Labels
  <2>3. CASE "pipefd" \notin rset
    <3>1. pipe' = pipe
      BY <1>6, <2>3 DEF Pipe
    <3>2. AlarmsInPlay' = AlarmsInPlay
      BY <2>1, <3>1 DEF AlarmsInPlay
    <3> QED  BY <1>a, <2>1, <2>3, <3>1, <3>2 DEF AlarmInv, Labels
  <2> QED  BY <2>2, <2>3
<1>7. CASE Show
  BY <1>7, AlarmQuiet DEF Show, Labels
<1>8. CASE SystemError \/ DeliverOther \/ \E a \in wire : Deliver(a)
  BY <1>8, <1>a, AlarmQuiet
  DEF SystemError, DeliverOther, Deliver, callvars, Labels
<1>9. CASE UNCHANGED vars
  BY <1>9, <1>a, AlarmQuiet DEF vars, callvars
<1> QED  BY <1>1, <1>2, <1>3, <1>4, <1>5, <1>6, <1>7, <1>8, <1>9 DEF Next, Program

THEOREM AlarmInvariance == Spec => []AlarmInv
<1> QED  BY AlarmInit, AlarmStep, PTL DEF Spec

\* The race described before recv_dgram cannot happen: select never waits
\* without an alarm or a byte to come, and Read never waits for a byte.
THEOREM RaceGone == Spec => []NeverStuck
<1>1. AlarmInv => NeverStuck
  BY DEF AlarmInv, NeverStuck
<1> QED  BY <1>1, AlarmInvariance, PTL

\* Alarms that outlive their call leave one byte in the pipe at most.
THEOREM StaleAlarmsBounded == Spec => []StaleAlarms
<1>1. AlarmInv => StaleAlarms
  BY DEF AlarmInv, StaleAlarms
<1> QED  BY <1>1, AlarmInvariance, PTL

-----------------------------------------------------------------------------
(***************************************************************************)
(* The answers.  A probe's answer says "unreachable" only if the ttl it    *)
(* was sent with reaches the host, and ttl never shrinks; so every such    *)
(* answer still around, and every probe counted in done, shows that the    *)
(* current ttl reaches it.  An answer "exceeded" shows that it does not    *)
(* only while ttl is the one that the answered probe was sent with: from   *)
(* the sendto of that probe, whose number no answer had before, to the     *)
(* report.                                                                 *)
(***************************************************************************)
Probing == pc \in {"retry", "alarm", "select", "recv", "pipe", "print"}

Genuine(a) ==
    /\ a.kind = "unreachable" => ttl >= Distance
    /\ a.kind = "exceeded" /\ Probing /\ a.seq = seq => ttl < Distance
    /\ a.kind \in {"exceeded", "unreachable"} => a.seq \in Nat /\ a.seq <= seq

AnswerInv ==
    /\ ttl \in 1..max_ttl
    /\ queue \in Seq(Answer \cup {Other})
    /\ packet \in Answer \cup {Other, Nothing}
    /\ seq \in Nat
    /\ wire \subseteq Answer
    /\ \A a \in wire : Genuine(a)
    /\ \A k \in 1..Len(queue) : Genuine(queue[k])
    /\ Genuine(packet)

CountInv ==
    /\ done \in Nat
    /\ done > 0 => ttl >= Distance
    /\ pc = "print" /\ code = -1 => ttl >= Distance
    /\ pc = "print" /\ code = -2 => ttl < Distance
    /\ pc = "end" /\ done = 0 => ttl = max_ttl

\* The socket's buffer grows at its end.
LEMMA AppendFacts ==
    ASSUME NEW S, NEW s \in Seq(S), NEW e \in S
    PROVE  /\ Append(s, e) \in Seq(S)
           /\ \A k \in 1..Len(Append(s, e)) :
                  Append(s, e)[k] = e \/ (k \in 1..Len(s) /\ Append(s, e)[k] = s[k])
<1>1. Len(s) \in Nat /\ Len(Append(s, e)) = Len(s) + 1 /\ Append(s, e) \in Seq(S)
  OBVIOUS
<1>2. Append(s, e)[Len(s) + 1] = e
  OBVIOUS
<1>3. \A k \in 1..Len(s) : Append(s, e)[k] = s[k]
  OBVIOUS
<1>4. \A k \in 1..(Len(s) + 1) : k = Len(s) + 1 \/ k \in 1..Len(s)
  BY <1>1
<1> QED  BY <1>1, <1>2, <1>3, <1>4

LEMMA AnswerInit == Init => AnswerInv /\ CountInv
<1> SUFFICES ASSUME Init PROVE AnswerInv /\ CountInv
    OBVIOUS
<1> QED  BY TroutAssumption DEF Init, AnswerInv, CountInv, Genuine, Nothing

\* The network and the socket keep every answer genuine: what is in wire',
\* queue' and packet' was around before, and ttl does not change.
LEMMA AnswersMove ==
    ASSUME AnswerInv, ttl' = ttl, seq' = seq, Probing' => Probing, queue' \in Seq(Answer \cup {Other}),
           packet' \in Answer \cup {Other, Nothing},
           wire' \subseteq wire,
           \A k \in 1..Len(queue') : \/ queue'[k] \in wire \cup {Other}
                                     \/ \E j \in 1..Len(queue) : queue'[k] = queue[j],
           \/ packet' \in {packet, Nothing}
           \/ \E j \in 1..Len(queue) : packet' = queue[j]
    PROVE  AnswerInv'
<1>1. \A a : Genuine(a) => Genuine(a)'
  BY DEF Genuine
<1>2. Genuine(Other) /\ Genuine(Nothing)
  BY DEF Genuine, Other, Nothing
<1>3. \A k \in 1..Len(queue') : Genuine(queue'[k])
  BY <1>2 DEF AnswerInv
<1>4. Genuine(packet')
  BY <1>2 DEF AnswerInv
<1> QED  BY <1>3, <1>4 DEF AnswerInv, Genuine

\* The answer a probe may get.  A new number is above those of all answers.
LEMMA SendingKeepsAnswers ==
    ASSUME AnswerInv, UNCHANGED <<ttl, queue, packet>>,
           seq' = seq + 1 \/ (seq' = seq /\ Probing),
           wire' = wire \/ Transmit(seq')
    PROVE  AnswerInv'
<1>1. seq \in Nat /\ seq' \in Nat /\ ttl \in Nat
  BY DEF AnswerInv
<1>2. \A a : Genuine(a) => Genuine(a)'
  <2> TAKE a
  <2>1. a.kind = "exceeded" /\ Probing' /\ a.seq = seq' /\ Genuine(a) => ttl < Distance
    BY <1>1 DEF Genuine
  <2>2. a.seq \in Nat /\ a.seq <= seq => a.seq <= seq'
    BY <1>1
  <2> QED  BY <2>1, <2>2 DEF Genuine
<1>3. PICK new \in Answer :
        /\ new.kind = IF ttl >= Distance THEN "unreachable" ELSE "exceeded"
        /\ new.seq = seq'
        /\ wire' = wire \/ wire' = wire \cup {new}
  <2> DEFINE n == [kind |-> IF ttl >= Distance THEN "unreachable" ELSE "exceeded", seq |-> seq']
  <2>1. n \in Answer
    BY <1>1 DEF Answer
  <2>2. wire' = wire \/ wire' = wire \cup {n}
    BY DEF Transmit
  <2> QED  BY <2>1, <2>2
<1>4. Genuine(new)'
  BY <1>1, <1>3, TroutAssumption DEF Genuine
<1>5. wire' \subseteq Answer /\ \A a \in wire' : Genuine(a)'
  BY <1>2, <1>3, <1>4 DEF AnswerInv
<1>6. (\A k \in 1..Len(queue) : Genuine(queue[k]))' /\ Genuine(packet)'
  BY <1>2 DEF AnswerInv
<1> QED  BY <1>1, <1>5, <1>6 DEF AnswerInv, Genuine

LEMMA AnswerStep == AnswerInv /\ CountInv /\ [Next]_vars => (AnswerInv /\ CountInv)'
<1> SUFFICES ASSUME AnswerInv, CountInv, [Next]_vars PROVE (AnswerInv /\ CountInv)'
    OBVIOUS
<1>q. queue \in Seq(Answer \cup {Other}) /\ packet \in Answer \cup {Other, Nothing}
  BY DEF AnswerInv
<1>1. CASE Send
  <2>1. pc' \in {"retry", "alarm"} /\ UNCHANGED <<ttl, done, queue, packet>>
        /\ seq' = seq + 1
    BY <1>1 DEF Send, Transmit, callvars
  <2>2. wire' = wire \/ Transmit(seq')
    BY <1>1 DEF Send
  <2>3. AnswerInv'
    BY <2>1, <2>2, SendingKeepsAnswers
  <2> QED  BY <2>1, <2>3 DEF CountInv
<1>2. CASE Retry
  <2>1. pc = "retry" /\ pc' \in {"exit", "alarm"} /\ UNCHANGED <<ttl, done, seq, queue, packet>>
    BY <1>2 DEF Retry, Transmit, callvars, progvars
  <2>2. wire' = wire \/ Transmit(seq')
    BY <1>2, <2>1 DEF Retry
  <2>3. AnswerInv'
    BY <2>1, <2>2, SendingKeepsAnswers DEF Probing
  <2> QED  BY <2>1, <2>3 DEF CountInv
<1>3. CASE SetAlarm \/ Select \/ SystemError
  <2>1. /\ pc' \notin {"print", "end"} /\ UNCHANGED <<ttl, done, seq, queue, packet, wire>>
        /\ Probing' => Probing
    BY <1>3 DEF SetAlarm, Select, SystemError, callvars, progvars, netvars, Probing
  <2>2. AnswerInv'
    BY <1>q, <2>1, AnswersMove
  <2> QED  BY <2>1, <2>2 DEF CountInv
<1>4. CASE Alarm
  <2>1. /\ pc' \in {pc, "recv"} /\ UNCHANGED <<ttl, done, seq, code, queue, packet, wire>>
        /\ Probing' => Probing
    BY <1>4 DEF Alarm, progvars, netvars, Probing
  <2>2. AnswerInv'
    BY <1>q, <2>1, AnswersMove
  <2> QED  BY <2>1, <2>2 DEF CountInv
<1>5. CASE Recv
  <2>1. pc' = "pipe" /\ UNCHANGED <<ttl, done, seq, wire>> /\ (Probing' => Probing)
    BY <1>5 DEF Recv, progvars, Probing
  <2>2. CASE queue # <<>> /\ packet' = Head(queue) /\ queue' = Tail(queue)
    <3>1. 1 \in 1..Len(queue) /\ packet' = queue[1]
      BY <1>q, <2>2
    <3>2. queue' \in Seq(Answer \cup {Other}) /\ packet' \in Answer \cup {Other, Nothing}
      BY <1>q, <2>2
    <3>3. \A k \in 1..Len(queue') : k + 1 \in 1..Len(queue) /\ queue'[k] = queue[k + 1]
      BY <1>q, <2>2
    <3>4. AnswerInv'
      BY <2>1, <3>1, <3>2, <3>3, AnswersMove
    <3> QED  BY <2>1, <3>4 DEF CountInv
  <2>3. CASE packet' = Nothing /\ queue' = queue
    <3>1. AnswerInv'
      BY <1>q, <2>1, <2>3, AnswersMove
    <3> QED  BY <2>1, <3>1 DEF CountInv
  <2> QED  BY <1>5, <2>2, <2>3 DEF Recv
<1>6. CASE Pipe
  <2>1. pc' = "print" /\ UNCHANGED <<ttl, done, seq, queue, packet, wire>>
        /\ code' \in {-3, process_ip(packet)} /\ Probing
    BY <1>6 DEF Pipe, progvars, netvars, Probing
  <2>2. AnswerInv'
    BY <1>q, <2>1, AnswersMove
  <2>3. code' = -2 => packet.kind = "exceeded" /\ packet.seq = seq
    BY <2>1 DEF process_ip
  <2>4. code' = -1 => packet.kind = "unreachable"
    BY <2>1 DEF process_ip
  <2> QED  BY <2>1, <2>2, <2>3, <2>4 DEF AnswerInv, CountInv, Genuine
<1>7. CASE Show
  <2>1. pc = "print" /\ pc' \in {"send", "end"} /\ UNCHANGED <<seq, queue, wire>> /\ packet' = Nothing
    BY <1>7 DEF Show, netvars
  <2>2. ttl' \in {ttl, ttl + 1} /\ ttl' <= max_ttl
    BY <1>7, TroutAssumption DEF Show, AnswerInv
  <2>3. ttl' \in 1..max_ttl /\ (ttl >= Distance => ttl' >= Distance)
    BY <2>2, TroutAssumption DEF AnswerInv
  <2>4. AnswerInv'
    BY <2>1, <2>3 DEF AnswerInv, Genuine, Nothing, Probing
  <2>5. done' \in {0, Reached} /\ Reached \in Nat /\ (Reached > 0 => ttl >= Distance)
    BY <1>7, <2>1 DEF Show, Reached, CountInv
  <2>6. pc' = "end" => ttl' = ttl /\ done' = Reached /\ (Reached > 0 \/ ttl = max_ttl)
    BY <1>7 DEF Show
  <2> QED  BY <2>1, <2>3, <2>4, <2>5, <2>6 DEF CountInv
<1>8. CASE \E a \in wire : Deliver(a)
  <2>1. PICK a \in wire : Deliver(a)
    BY <1>8
  <2>2. UNCHANGED <<pc, ttl, done, seq, code, packet>> /\ wire' \subseteq wire
        /\ queue' = Append(queue, a) /\ (Probing' => Probing)
    BY <2>1 DEF Deliver, progvars, callvars, Probing
  <2>3. a \in Answer \cup {Other}
    BY <2>1 DEF AnswerInv
  <2>4. queue' \in Seq(Answer \cup {Other})
        /\ \A k \in 1..Len(queue') : queue'[k] = a \/ (k \in 1..Len(queue) /\ queue'[k] = queue[k])
    BY <1>q, <2>2, <2>3, AppendFacts
  <2>5. AnswerInv'
    <3>1. a \in wire
      BY <2>1 DEF Deliver
    <3>2. \A k \in 1..Len(queue') : \/ queue'[k] \in wire \cup {Other}
                                     \/ \E j \in 1..Len(queue) : queue'[k] = queue[j]
      BY <2>4, <3>1
    <3> QED  BY <1>q, <2>2, <2>4, <3>2, AnswersMove
  <2> QED  BY <2>2, <2>5 DEF CountInv
<1>9. CASE DeliverOther
  <2>1. UNCHANGED <<pc, ttl, done, seq, code, packet, wire>>
        /\ queue' = Append(queue, Other) /\ (Probing' => Probing)
    BY <1>9 DEF DeliverOther, progvars, callvars, Probing
  <2>2. queue' \in Seq(Answer \cup {Other})
        /\ \A k \in 1..Len(queue') : queue'[k] = Other \/ (k \in 1..Len(queue) /\ queue'[k] = queue[k])
    BY <1>q, <2>1, AppendFacts
  <2>3. AnswerInv'
    <3>1. \A k \in 1..Len(queue') : \/ queue'[k] \in wire \cup {Other}
                                     \/ \E j \in 1..Len(queue) : queue'[k] = queue[j]
      BY <2>2
    <3> QED  BY <1>q, <2>1, <2>2, <3>1, AnswersMove
  <2> QED  BY <2>1, <2>3 DEF CountInv
<1>10. CASE UNCHANGED vars
  BY <1>10 DEF vars, progvars, callvars, netvars, AnswerInv, CountInv, Genuine, Probing
<1> QED  BY <1>1, <1>2, <1>3, <1>4, <1>5, <1>6, <1>7, <1>8, <1>9, <1>10 DEF Next, Program

THEOREM AnswerInvariance == Spec => [](AnswerInv /\ CountInv)
<1> QED  BY AnswerInit, AnswerStep, PTL DEF Spec

\* A probe that is shown as answered by the host had a ttl that reaches it, and
\* one shown as answered by a router had not, for any number of probes and ttls
\* and any distance, whatever answers of earlier ttls are still to come.
THEOREM HopsShown == Spec => []RightHop
<1>1. AnswerInv /\ CountInv => RightHop
  BY DEF CountInv, RightHop
<1> QED  BY <1>1, AnswerInvariance, PTL

\* The trace ends at a ttl that reaches the host or at max_ttl.
THEOREM EndsAtHost == Spec => []StopsAtHost
<1>1. AnswerInv /\ CountInv => StopsAtHost
  BY DEF CountInv, StopsAtHost
<1> QED  BY <1>1, AnswerInvariance, PTL

-----------------------------------------------------------------------------
\* What the type invariant adds: the loop counters stay in their ranges,
\* because a probe is counted in done at most once.
RangeInv ==
    /\ probe \in 0..(nprobes - 1)
    /\ done \in 0..nprobes
    /\ pc # "end" => done <= probe
    /\ rset \subseteq {"recvfd", "pipefd"}
    /\ code \in -3..0
    /\ refused \in BOOLEAN
    /\ extra \in 0..Extra

LEMMA RangeInit == Init => RangeInv
<1> SUFFICES ASSUME Init PROVE RangeInv
    OBVIOUS
<1>1. refused \in BOOLEAN
  BY DEF Init
<1> QED  BY <1>1, TroutAssumption DEF Init, RangeInv

LEMMA RangeStep == RangeInv /\ [Next]_vars => RangeInv'
<1> SUFFICES ASSUME RangeInv, [Next]_vars PROVE RangeInv'
    OBVIOUS
<1>1. CASE Send \/ Retry
  <2>1. refused' \in BOOLEAN
    BY <1>1 DEF Send, Retry
  <2>2. UNCHANGED <<probe, done, rset, code, extra>> /\ pc # "end"
    BY <1>1 DEF Send, Retry, progvars, callvars
  <2> QED  BY <2>1, <2>2 DEF RangeInv
<1>2. CASE SetAlarm \/ SystemError
  <2>1. UNCHANGED <<probe, done, rset, code, refused, extra>> /\ pc # "end"
    BY <1>2 DEF SetAlarm, SystemError, progvars, callvars, netvars
  <2> QED  BY <2>1 DEF RangeInv
<1>3. CASE Select \/ Alarm \/ Recv
  <2>1. UNCHANGED <<probe, done, code, refused, extra>> /\ (pc' = "end" <=> pc = "end")
    BY <1>3 DEF Select, Alarm, Recv, progvars, netvars
  <2>2. rset' \subseteq {"recvfd", "pipefd"}
    BY <1>3 DEF Select, Alarm, Recv, RangeInv
  <2> QED  BY <2>1, <2>2 DEF RangeInv
<1>4. CASE Pipe
  <2>1. UNCHANGED <<probe, done, rset, refused, extra>> /\ pc # "end"
    BY <1>4 DEF Pipe, progvars, netvars
  <2>2. code' \in -3..0
    BY <1>4 DEF Pipe, process_ip
  <2> QED  BY <2>1, <2>2 DEF RangeInv
<1>5. CASE Show
  <2>1. UNCHANGED <<refused, extra>> /\ pc = "print" /\ rset' = {} /\ code' = 0
    BY <1>5 DEF Show, netvars
  <2>2. Reached \in {done, done + 1}
    BY DEF Reached
  <2>3. CASE LastProbe
    <3> DEFINE stop == LastProbe /\ (Reached > 0 \/ ttl = max_ttl)
    <3>0. /\ probe' = 0
          /\ done' = IF LastProbe /\ ~stop THEN 0 ELSE Reached
          /\ pc' = IF stop THEN "end" ELSE "send"
      BY <1>5, <2>3 DEF Show
    <3>1. probe' = 0 /\ (done' = 0 \/ (done' = Reached /\ pc' = "end"))
      <4> HIDE DEF stop
      <4> QED  BY <2>3, <3>0
    <3> QED  BY <2>1, <2>2, <3>1, TroutAssumption DEF RangeInv
  <2>4. CASE ~LastProbe
    <3>1. probe' = probe + 1 /\ done' = Reached /\ probe + 1 # nprobes
      BY <1>5, <2>4 DEF Show, LastProbe
    <3>2. probe + 1 \in 0..(nprobes - 1) /\ done <= probe /\ done + 1 \in 0..nprobes
      BY <2>1, <3>1, TroutAssumption DEF RangeInv
    <3> QED  BY <2>1, <2>2, <3>1, <3>2 DEF RangeInv
  <2> QED  BY <2>3, <2>4
<1>6. CASE DeliverOther \/ \E a \in wire : Deliver(a)
  <2>1. UNCHANGED <<pc, probe, done, rset, code>>
    BY <1>6 DEF DeliverOther, Deliver, progvars, callvars
  <2>2. extra' = extra \/ (extra < Extra /\ extra' = extra + 1)
    <3>1. CASE DeliverOther
      BY <3>1 DEF DeliverOther
    <3>2. CASE \E a \in wire : Deliver(a)
      <4>1. PICK a \in wire : Deliver(a)
        BY <3>2
      <4> QED  BY <4>1 DEF Deliver
    <3> QED  BY <1>6, <3>1, <3>2
  <2>3. refused' \in BOOLEAN
    <3>1. CASE DeliverOther
      BY <3>1 DEF DeliverOther, RangeInv
    <3>2. CASE \E a \in wire : Deliver(a)
      <4>1. PICK a \in wire : refused' \in {refused, refused \/ a.kind = "unreachable"}
        BY <3>2 DEF Deliver
      <4> QED  BY <4>1, Zenon DEF RangeInv
    <3> QED  BY <1>6, <3>1, <3>2
  <2> QED  BY <2>1, <2>2, <2>3, TroutAssumption DEF RangeInv
<1>7. CASE UNCHANGED vars
  BY <1>7 DEF vars, progvars, callvars, netvars, RangeInv
<1> QED  BY <1>1, <1>2, <1>3, <1>4, <1>5, <1>6, <1>7 DEF Next, Program

\* Type correctness: the loops of send_probes and loop_ttl stay in range.
THEOREM TypeCorrect == Spec => []TypeOK
<1>1. Spec => []RangeInv
  BY RangeInit, RangeStep, PTL DEF Spec
<1>2. AlarmInv /\ AnswerInv /\ CountInv /\ RangeInv => TypeOK
  BY DEF AlarmInv, AnswerInv, RangeInv, TypeOK
<1> QED  BY <1>1, <1>2, AlarmInvariance, AnswerInvariance, PTL
====
