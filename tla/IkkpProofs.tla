---- MODULE IkkpProofs ----
(***************************************************************************)
(* Proofs about the knock-knock servers: types, and that no client talks   *)
(* with two tasks, for any number of clients and tasks and whatever the    *)
(* clients do.                                                             *)
(*                                                                         *)
(* A client is accepted once, and what main hands to a task is always a    *)
(* client that was new when main accepted it.  Each server hands it over   *)
(* in its own way: the iterative one keeps it, the forking one copies      *)
(* connect_d when it forks, the threaded one puts it in a cell of its own. *)
(***************************************************************************)
EXTENDS MCIkkp, FiniteSetTheorems, TLAPS

Waiting(c) == \E n \in DOMAIN queue : queue[n] = c

\* Not accepted yet.
New(c) == peer[c] = "away" \/ Waiting(c)

\* Nobody has spoken to c, and no task holds its descriptor.
Untouched(c) == told[c] = 0 /\ \A t \in Tasks : conn[t] # c

\* How many lines the client has heard at most when its task is at a label.
Heard == [say1 |-> 0, read1 |-> 1, say2 |-> 1, read2 |-> 2, say3 |-> 2, close |-> 3]

\* A client waits once, and only after it has connected.
QueueInv ==
    /\ \A m, n \in DOMAIN queue : queue[m] = queue[n] => m = n
    /\ \A n \in DOMAIN queue : peer[queue[n]] # "away"

\* What a task's label says of its conversation.
LineInv ==
    \A t \in Tasks : pc[t] \in DOMAIN Heard => /\ conn[t] \in Clients
                                               /\ told[conn[t]] <= Heard[pc[t]]

Distinct == \A t, u \in Tasks : conn[t] = conn[u] /\ conn[t] # NoClient => t = u

TalkInv ==
    /\ TalkTypeOK
    /\ QueueInv
    /\ LineInv
    /\ Distinct
    /\ \A c \in Clients : inbox[c] <= sent[c]
    /\ \A c \in Clients : New(c) => Untouched(c)

\* The first k tasks have been made.
FirstMade(k) == \A t \in Tasks : pc[t] = "free" <=> t > k

SoloInv == \A t \in Tasks : t # 1 => conn[t] = NoClient

\* A child starts with a client that has heard nothing, ...
StartInv == \A t \in Tasks : pc[t] = "start" => conn[t] \in Clients /\ told[conn[t]] = 0

\* ... the one that main accepted before it forked.
CurInv == mainpc = "start" => cur \in Clients /\ ~New(cur) /\ Untouched(cur)

ForkInv ==
    /\ \E k \in 0..MaxTasks : FirstMade(k)
    /\ StartInv
    /\ CurInv

Cells == 1..MaxTasks + 1

\* The cells hold different clients, and a task that has read its cell holds
\* what is there.
HeapInv ==
    /\ heap \in [Cells -> Clients \cup {NoClient}]
    /\ \A a, b \in Cells : heap[a] = heap[b] /\ heap[a] # NoClient => a = b
    /\ \A a \in Cells : heap[a] # NoClient => ~New(heap[a])
    /\ \A a \in Cells : heap[a] # NoClient /\ (\A t \in Tasks : conn[t] # heap[a])
                        => told[heap[a]] = 0
    /\ \A t \in Tasks : conn[t] = NoClient \/ conn[t] = heap[t]

\* A thread that has not read its argument yet will find a client.
ReadyInv ==
    \A t \in Tasks : /\ pc[t] \in {"free", "start"} => conn[t] = NoClient
                     /\ pc[t] = "start" => heap[t] # NoClient

\* So will the one that main is about to make.
NextInv ==
    \E k \in 0..MaxTasks : FirstMade(k) /\ (mainpc = "start" => heap[k + 1] # NoClient)

ThreadInv == HeapInv /\ ReadyInv /\ NextInv

IkkpInv ==
    /\ TalkInv
    /\ server = "iterative" => SoloInv
    /\ server = "fork" => ForkInv
    /\ server = "thread" => ThreadInv

-----------------------------------------------------------------------------
(* The tables of labels. *)

LEMMA HeardLabels == DOMAIN Heard = {"say1", "read1", "say2", "read2", "say3", "close"}
BY DEF Heard

LEMMA Follows ==
    ASSUME NEW l \in DOMAIN Following
    PROVE  /\ l \in DOMAIN Heard
           /\ Following[l] \in DOMAIN Heard
           /\ Following[l] \in Labels \ {"free", "start", "ended"}
           /\ Heard[l] \in 0..2
           /\ l \in {"say1", "say2", "say3"} => Heard[Following[l]] = Heard[l] + 1
           /\ l \in {"read1", "read2"} => Heard[Following[l]] = Heard[l]
<1>1. l \in {"say1", "read1", "say2", "read2", "say3"}
  BY DEF Following
<1> QED  BY <1>1 DEF Following, Heard, Labels

-----------------------------------------------------------------------------
(* The queue of clients that wait for accept. *)

LEMMA QueueGrows ==
    ASSUME TalkTypeOK, QueueInv, NEW c \in Clients, ~Waiting(c), queue' = Append(queue, c)
    PROVE  /\ queue' \in Seq(Clients)
           /\ \A m, n \in DOMAIN queue' : queue'[m] = queue'[n] => m = n
           /\ \A d \in Clients : Waiting(d)' <=> Waiting(d) \/ d = c
<1>1. queue \in Seq(Clients)
  BY DEF TalkTypeOK
<1>2. /\ Len(queue') = Len(queue) + 1 /\ queue'[Len(queue) + 1] = c
      /\ \A n \in 1..Len(queue) : queue'[n] = queue[n] /\ queue[n] # c
      /\ DOMAIN queue = 1..Len(queue) /\ DOMAIN queue' = 1..Len(queue) + 1
      /\ Len(queue) \in Nat
  BY <1>1 DEF Waiting
<1>3. \A m, n \in DOMAIN queue' : queue'[m] = queue'[n] => m = n
  BY <1>2 DEF QueueInv
<1>4. \A d \in Clients : Waiting(d)' <=> Waiting(d) \/ d = c
  BY <1>2 DEF Waiting
<1> QED  BY <1>1, <1>3, <1>4

LEMMA QueueMoves ==
    ASSUME TalkTypeOK, QueueInv, queue # <<>>, queue' = Tail(queue)
    PROVE  /\ queue' \in Seq(Clients) /\ Head(queue) \in Clients
           /\ \A m, n \in DOMAIN queue' : queue'[m] = queue'[n] => m = n
           /\ \A d \in Clients : Waiting(d)' <=> Waiting(d) /\ d # Head(queue)
           /\ Waiting(Head(queue))
<1>1. queue \in Seq(Clients)
  BY DEF TalkTypeOK
<1>2. /\ Len(queue) \in Nat \ {0} /\ DOMAIN queue = 1..Len(queue)
      /\ Head(queue) = queue[1] /\ Len(queue') = Len(queue) - 1
      /\ DOMAIN queue' = 1..Len(queue) - 1
      /\ \A n \in 1..Len(queue) - 1 : queue'[n] = queue[n + 1]
  BY <1>1
<1>3. \A m, n \in 1..Len(queue) : queue[m] = queue[n] => m = n
  BY <1>2 DEF QueueInv
<1>4. \A m, n \in DOMAIN queue' : queue'[m] = queue'[n] => m = n
  BY <1>2, <1>3
<1>5. ASSUME NEW d \in Clients
      PROVE  Waiting(d)' <=> Waiting(d) /\ d # Head(queue)
  <2>1. ASSUME Waiting(d)' PROVE Waiting(d) /\ d # Head(queue)
    <3>1. PICK n \in 1..Len(queue) - 1 : queue'[n] = d
      BY <1>2, <2>1 DEF Waiting
    <3>2. n + 1 \in 1..Len(queue) /\ queue[n + 1] = d /\ n + 1 # 1 /\ 1 \in 1..Len(queue)
      BY <1>2, <3>1
    <3> QED  BY <1>2, <1>3, <3>2 DEF Waiting
  <2>2. ASSUME Waiting(d), d # Head(queue) PROVE Waiting(d)'
    <3>1. PICK n \in 1..Len(queue) : queue[n] = d
      BY <1>2, <2>2 DEF Waiting
    <3>2. n - 1 \in 1..Len(queue) - 1 /\ n = (n - 1) + 1
      BY <1>2, <2>2, <3>1
    <3> QED  BY <1>2, <3>1, <3>2 DEF Waiting
  <2> QED  BY <2>1, <2>2
<1>6. Head(queue) \in Clients /\ Waiting(Head(queue))
  BY <1>1, <1>2 DEF Waiting
<1> QED  BY <1>1, <1>4, <1>5, <1>6

\* The last holder of the listener takes those that wait with it.
LEMMA QueueStays ==
    ASSUME TalkTypeOK, QueueInv, queue' = queue \/ queue' = <<>>
    PROVE  /\ queue' \in Seq(Clients)
           /\ \A m, n \in DOMAIN queue' : queue'[m] = queue'[n] => m = n
           /\ \A d \in Clients : Waiting(d)' => Waiting(d)
<1>1. CASE queue' = queue
  BY <1>1 DEF TalkTypeOK, QueueInv, Waiting
<1>2. CASE queue' = <<>>
  BY <1>2 DEF Waiting
<1> QED  BY <1>1, <1>2

\* QueueInv in terms of those that wait.
LEMMA WaitingArrived ==
    ASSUME TalkTypeOK, QueueInv, NEW c \in Clients, Waiting(c)
    PROVE  peer[c] # "away"
BY DEF TalkTypeOK, QueueInv, Waiting

LEMMA NextArrived ==
    ASSUME queue' \in Seq(Clients),
           \A m, n \in DOMAIN queue' : queue'[m] = queue'[n] => m = n,
           \A d \in Clients : Waiting(d)' => peer'[d] # "away"
    PROVE  QueueInv'
<1>1. ASSUME NEW n \in DOMAIN queue'
      PROVE  peer'[queue'[n]] # "away"
  <2>1. PICK d \in Clients : d = queue'[n]
    OBVIOUS
  <2>2. Waiting(d)'
    BY <2>1 DEF Waiting
  <2> QED  BY <2>1, <2>2
<1> QED  BY <1>1 DEF QueueInv

-----------------------------------------------------------------------------
(* The steps that the servers share. *)

\* What a client does leaves the server's own variables alone.
LEMMA ClientStep ==
    ASSUME TalkInv, NEW c \in Clients, Connect(c) \/ Answer(c) \/ HangUp(c) \/ Reset(c)
    PROVE  /\ TalkInv'
           /\ UNCHANGED <<pc, conn, told, cur, mainpc>>
           /\ \A d \in Clients : New(d)' => New(d)
<1> USE DEF TalkInv
<1>u. UNCHANGED <<pc, conn, told, cur, mainpc, up, listening, held>>
  BY DEF Connect, Answer, HangUp, Reset, clientvars, mainvars, taskvars
<1>1. CASE Connect(c)
  <2>1. /\ peer[c] = "away" /\ peer' = [peer EXCEPT ![c] = "open"]
        /\ queue' = Append(queue, c) /\ UNCHANGED <<sent, inbox>>
    BY <1>1 DEF Connect
  <2>2. ~Waiting(c)
    BY <2>1, WaitingArrived
  <2>3. \A d \in Clients : peer'[d] = IF d = c THEN "open" ELSE peer[d]
    BY <2>1 DEF TalkTypeOK
  <2>4. /\ queue' \in Seq(Clients)
        /\ \A m, n \in DOMAIN queue' : queue'[m] = queue'[n] => m = n
        /\ \A d \in Clients : Waiting(d)' <=> Waiting(d) \/ d = c
    BY <2>1, <2>2, QueueGrows
  <2>5. \A d \in Clients : New(d)' => New(d)
    BY <2>1, <2>3, <2>4 DEF New
  <2>6. QueueInv'
    <3>1. \A d \in Clients : Waiting(d)' => peer'[d] # "away"
      BY <2>3, <2>4, WaitingArrived
    <3> QED  BY <2>4, <3>1, NextArrived
  <2>7. TalkTypeOK'
    BY <1>u, <2>1, <2>4 DEF TalkTypeOK
  <2>8. LineInv' /\ Distinct' /\ \A d \in Clients : New(d)' => Untouched(d)'
    BY <1>u, <2>5 DEF LineInv, Distinct, Untouched
  <2> QED  BY <1>u, <2>1, <2>5, <2>6, <2>7, <2>8
<1>2. CASE Answer(c) \/ HangUp(c) \/ Reset(c)
  <2>1. queue' = queue
    BY <1>2 DEF Answer, HangUp, Reset, mainvars
  <2>2. /\ peer' \in [Clients -> {"away", "open", "closed", "refused", "reset"}]
        /\ \A d \in Clients : peer'[d] = "away" <=> peer[d] = "away"
    BY <1>2 DEF Answer, HangUp, Reset, TalkTypeOK
  <2>3. /\ sent' \in [Clients -> 0..2] /\ inbox' \in [Clients -> 0..2]
        /\ \A d \in Clients : inbox'[d] <= sent'[d]
    <3>1. CASE Answer(c)
      <4>1. /\ sent[c] < 2 /\ sent' = [sent EXCEPT ![c] = sent[c] + 1]
            /\ inbox' = [inbox EXCEPT ![c] = inbox[c] + 1]
        BY <3>1 DEF Answer
      <4>2. sent[c] \in 0..2 /\ inbox[c] \in 0..2 /\ inbox[c] <= sent[c]
        BY DEF TalkTypeOK
      <4>3. sent[c] + 1 \in 0..2 /\ inbox[c] + 1 \in 0..2 /\ inbox[c] + 1 <= sent[c] + 1
        BY <4>1, <4>2
      <4>4. sent \in [Clients -> 0..2] /\ inbox \in [Clients -> 0..2]
        BY DEF TalkTypeOK
      <4> QED  BY <4>1, <4>3, <4>4
    <3>2. CASE HangUp(c) \/ Reset(c)
      BY <3>2 DEF HangUp, Reset, TalkTypeOK
    <3> QED  BY <1>2, <3>1, <3>2
  <2>4. \A d \in Clients : Waiting(d)' <=> Waiting(d)
    BY <2>1 DEF Waiting
  <2>5. \A d \in Clients : New(d)' => New(d)
    BY <2>2, <2>4 DEF New
  <2>6. QueueInv'
    <3>1. \A d \in Clients : Waiting(d)' => peer'[d] # "away"
      BY <2>2, <2>4, WaitingArrived
    <3> QED  BY <2>1, <3>1, NextArrived DEF TalkTypeOK, QueueInv
  <2>7. TalkTypeOK'
    BY <1>u, <2>1, <2>2, <2>3 DEF TalkTypeOK
  <2>8. LineInv' /\ Distinct' /\ \A d \in Clients : New(d)' => Untouched(d)'
    BY <1>u, <2>5 DEF LineInv, Distinct, Untouched
  <2> QED  BY <1>u, <2>3, <2>5, <2>6, <2>7, <2>8
<1> QED  BY <1>1, <1>2

\* A line said or read: one client has heard more, the task's own.
LEMMA TalkStep ==
    ASSUME TalkInv, NEW t \in Tasks, Talk(t)
    PROVE  /\ TalkInv'
           /\ UNCHANGED <<conn, cur, mainpc>>
           /\ \A d \in Clients : New(d)' => New(d)
           /\ \A d \in Clients : d # conn[t] => told'[d] = told[d]
           /\ pc[t] \notin {"free", "start"} /\ conn[t] \in Clients
           /\ \E l \in Labels \ {"free", "start"} :
                 \A u \in Tasks : pc'[u] = IF u = t THEN l ELSE pc[u]
<1> USE DEF TalkInv
<1> DEFINE c == conn[t]
           l == Following[pc[t]]
<1>1. pc[t] \in DOMAIN Following /\ Goto(t, l) /\ UNCHANGED <<sent, conn, held, mainvars>>
  BY DEF Talk, say, read_in, Following
<1>2. /\ pc[t] \in DOMAIN Heard /\ l \in DOMAIN Heard
      /\ l \in Labels \ {"free", "start", "ended"} /\ Heard[pc[t]] \in 0..2
  BY <1>1, Follows
<1>3. c \in Clients /\ told[c] \in 0..3 /\ told[c] <= Heard[pc[t]] /\ ~New(c)
  BY <1>2 DEF LineInv, Untouched, TalkTypeOK
<1>4. \A u \in Tasks : pc'[u] = IF u = t THEN l ELSE pc[u]
  BY <1>1 DEF Goto, TalkTypeOK
<1>5. pc' \in [Tasks -> Labels]
  BY <1>1, <1>2 DEF Goto, TalkTypeOK
<1>6. /\ told' \in [Clients -> 0..3] /\ told'[c] <= Heard[l]
      /\ \A d \in Clients : d # c => told'[d] = told[d]
  <2>1. told \in [Clients -> 0..3]
    BY DEF TalkTypeOK
  <2>2. CASE told' = [told EXCEPT ![c] = told[c] + 1] /\ pc[t] \in {"say1", "say2", "say3"}
    <3>1. Heard[l] = Heard[pc[t]] + 1
      BY <1>1, <2>2, Follows
    <3>2. told[c] + 1 \in 0..3 /\ told[c] + 1 <= Heard[l]
      BY <1>2, <1>3, <3>1
    <3> QED  BY <1>3, <2>1, <2>2, <3>2
  <2>3. CASE told' = told
    <3>1. Heard[pc[t]] <= Heard[l]
      BY <1>1, <1>2, Follows DEF Following
    <3>2. Heard[l] \in 0..3
      BY <1>2, HeardLabels DEF Heard
    <3> HIDE DEF l
    <3>3. told[c] <= Heard[l]
      BY <1>2, <1>3, <3>1, <3>2
    <3> QED  BY <2>1, <2>3, <3>3
  <2> QED  BY <2>2, <2>3 DEF Talk, say, read_in
<1>7. /\ peer' \in [Clients -> {"away", "open", "closed", "refused", "reset"}]
      /\ \A d \in Clients : peer'[d] = "away" => peer[d] = "away"
  BY <1>3 DEF Talk, say, read_in, TalkTypeOK
<1>8. inbox' \in [Clients -> 0..2] /\ \A d \in Clients : inbox'[d] <= sent'[d]
  <2>1. inbox \in [Clients -> 0..2] /\ sent \in [Clients -> 0..2] /\ sent' = sent
    BY <1>1 DEF TalkTypeOK
  <2>2. inbox' = inbox \/ inbox' = [inbox EXCEPT ![c] = 0]
    BY DEF Talk, say, read_in
  <2> QED  BY <1>3, <2>1, <2>2
<1>9. queue' = queue /\ \A d \in Clients : Waiting(d)' <=> Waiting(d)
  BY <1>1 DEF mainvars, Waiting
<1>10. \A d \in Clients : New(d)' => New(d)
  BY <1>7, <1>9 DEF New
<1>11. QueueInv'
  <2>1. \A d \in Clients : Waiting(d)' => peer'[d] # "away"
    BY <1>7, <1>9, WaitingArrived
  <2> QED  BY <1>9, <2>1, NextArrived DEF TalkTypeOK, QueueInv
<1>12. TalkTypeOK'
  BY <1>1, <1>5, <1>6, <1>7, <1>8, <1>9 DEF TalkTypeOK, mainvars
<1>13. LineInv'
  <2> SUFFICES ASSUME NEW u \in Tasks, pc'[u] \in DOMAIN Heard
               PROVE  conn'[u] \in Clients /\ told'[conn'[u]] <= Heard[pc'[u]]
    BY DEF LineInv, Heard
  <2>1. CASE u = t
    BY <1>1, <1>3, <1>4, <1>6, <2>1
  <2>2. CASE u # t
    <3>1. pc'[u] = pc[u] /\ conn' = conn /\ conn[u] \in Clients /\ told[conn[u]] <= Heard[pc[u]]
      BY <1>1, <1>4, <2>2 DEF LineInv
    <3>2. conn[u] # c
      BY <1>3, <2>2, <3>1, TalkAssumption DEF Distinct
    <3> QED  BY <1>6, <3>1, <3>2
  <2> QED  BY <2>1, <2>2
<1>14. Distinct' /\ \A d \in Clients : New(d)' => Untouched(d)'
  BY <1>1, <1>3, <1>6, <1>10 DEF Distinct, Untouched
<1> HIDE DEF l
<1> QED
  BY <1>1, <1>2, <1>3, <1>4, <1>6, <1>8, <1>10, <1>11, <1>12, <1>13, <1>14, HeardLabels
  DEF mainvars

\* A step that moves no line, hands over nobody who is new, and leaves the
\* queue alone or drops it.
LEMMA QuietStep ==
    ASSUME TalkInv, TalkTypeOK', LineInv', Distinct', UNCHANGED clientvars,
           queue' = queue \/ queue' = <<>>,
           \A t \in Tasks : conn'[t] \in Clients /\ conn'[t] # conn[t] => ~New(conn'[t])
    PROVE  TalkInv' /\ \A d \in Clients : New(d)' => New(d)
<1> USE DEF TalkInv
<1>1. UNCHANGED <<peer, sent, inbox, told>>
  BY DEF clientvars
<1>2. /\ queue' \in Seq(Clients)
      /\ \A m, n \in DOMAIN queue' : queue'[m] = queue'[n] => m = n
      /\ \A d \in Clients : Waiting(d)' => Waiting(d)
  BY QueueStays
<1>3. \A d \in Clients : New(d)' => New(d)
  BY <1>1, <1>2 DEF New
<1>4. QueueInv'
  <2>1. \A d \in Clients : Waiting(d)' => peer'[d] # "away"
    BY <1>1, <1>2, WaitingArrived
  <2> QED  BY <1>2, <2>1, NextArrived
<1>5. ASSUME NEW d \in Clients, New(d)'
      PROVE  Untouched(d)'
  <2>1. New(d) /\ Untouched(d)
    BY <1>3, <1>5
  <2>2. \A t \in Tasks : conn'[t] # d
    BY <2>1 DEF Untouched
  <2> QED  BY <1>1, <2>1, <2>2 DEF Untouched
<1> QED  BY <1>1, <1>3, <1>4, <1>5

\* main accepts a client that was new and is new no more.
LEMMA AcceptStep ==
    ASSUME TalkInv, NEW next \in {"start", "talk"}, Accept(next)
    PROVE  \E c \in Clients :
             /\ c = Head(queue) /\ cur' = c /\ mainpc' = next
             /\ mainpc = "accept"
             /\ New(c) /\ Untouched(c)
             /\ UNCHANGED told
             /\ \A d \in Clients : New(d)' => New(d) /\ d # c
             /\ (/\ pc' \in [Tasks -> Labels]
                 /\ conn' \in [Tasks -> Clients \cup {NoClient}]
                 /\ LineInv' /\ Distinct'
                 /\ \A t \in Tasks : conn'[t] = conn[t] \/ conn'[t] = c) => TalkInv'
<1> USE DEF TalkInv
<1>1. /\ queue # <<>> /\ queue' = Tail(queue) /\ cur' = Head(queue) /\ mainpc' = next
      /\ held' = [held EXCEPT ![Head(queue)] = {main}] /\ mainpc = "accept"
      /\ UNCHANGED <<up, listening, peer, sent, inbox, told>>
  BY DEF Accept, clientvars
<1>2. /\ queue' \in Seq(Clients) /\ Head(queue) \in Clients
      /\ \A m, n \in DOMAIN queue' : queue'[m] = queue'[n] => m = n
      /\ \A d \in Clients : Waiting(d)' <=> Waiting(d) /\ d # Head(queue)
      /\ Waiting(Head(queue))
  BY <1>1, QueueMoves
<1>3. PICK c \in Clients : c = Head(queue)
  BY <1>2
<1>4. New(c) /\ Untouched(c) /\ peer[c] # "away"
  BY <1>2, <1>3, WaitingArrived DEF New
<1>5. \A d \in Clients : New(d)' => New(d) /\ d # c
  BY <1>1, <1>2, <1>3, <1>4 DEF New
<1>6. QueueInv'
  <2>1. \A d \in Clients : Waiting(d)' => peer'[d] # "away"
    BY <1>1, <1>2, WaitingArrived
  <2> QED  BY <1>2, <2>1, NextArrived
<1>7. ASSUME pc' \in [Tasks -> Labels], conn' \in [Tasks -> Clients \cup {NoClient}],
             LineInv', Distinct', \A t \in Tasks : conn'[t] = conn[t] \/ conn'[t] = c
      PROVE  TalkInv'
  <2>1. TalkTypeOK'
    BY <1>1, <1>2, <1>7 DEF TalkTypeOK, main
  <2>2. ASSUME NEW d \in Clients, New(d)'
        PROVE  Untouched(d)'
    <3>1. Untouched(d) /\ d # c
      BY <1>5, <2>2
    <3>2. told'[d] = 0 /\ \A t \in Tasks : conn'[t] # d
      BY <1>1, <1>7, <3>1 DEF Untouched
    <3> QED  BY <3>2 DEF Untouched
  <2> QED  BY <1>1, <1>6, <1>7, <2>1, <2>2
<1> QED  BY <1>1, <1>3, <1>4, <1>5, <1>7

\* When main ends, the tasks it takes along end and the others do not move.
LEMMA EndStep ==
    ASSUME TalkInv, NEW how \in {"interrupted", "crashed"}, NEW also \in SUBSET Tasks,
           NEW holders, MainEnds(how, also, holders)
    PROVE  /\ TalkInv'
           /\ UNCHANGED <<cur, conn, told>>
           /\ mainpc' = "ended"
           /\ \A d \in Clients : New(d)' => New(d)
           /\ \A t \in Tasks : pc'[t] = pc[t] \/ (pc[t] # "free" /\ pc'[t] = "ended")
<1> USE DEF TalkInv
<1>1. /\ up' = how /\ mainpc' = "ended" /\ UNCHANGED <<cur, conn, clientvars>>
      /\ pc' = [t \in Tasks |-> IF t \in also /\ pc[t] # "free" THEN "ended" ELSE pc[t]]
      /\ held' = [c \in Clients |-> held[c] \ holders]
      /\ listening' = listening \ holders
      /\ queue' = queue \/ queue' = <<>>
  BY DEF MainEnds, Release
<1>2. \A t \in Tasks : pc'[t] = pc[t] \/ (pc[t] # "free" /\ pc'[t] = "ended")
  BY <1>1
<1>3. TalkTypeOK'
  <2>1. pc' \in [Tasks -> Labels]
    BY <1>1 DEF TalkTypeOK, Labels
  <2>2. held' \in [Clients -> SUBSET ({main} \cup Tasks)]
    BY <1>1 DEF TalkTypeOK
  <2>3. queue' \in Seq(Clients)
    BY <1>1, QueueStays
  <2> QED  BY <1>1, <2>1, <2>2, <2>3 DEF TalkTypeOK, clientvars
<1>4. LineInv' /\ Distinct'
  BY <1>1, <1>2, HeardLabels DEF LineInv, Distinct, clientvars
<1> QED  BY <1>1, <1>2, <1>3, <1>4, QuietStep DEF clientvars

-----------------------------------------------------------------------------
(* The iterative server: every conversation is in slot 1. *)

\* Its instance of IkkpTalk is the one above.
LEMMA SameIterative ==
    /\ Iterative!Tasks = Tasks /\ Iterative!Clients = Clients /\ Iterative!main = main
    /\ \A next \in {"start", "talk"} : Iterative!Accept(next) => Accept(next)
    /\ \A how : Iterative!MainEnds(how, Tasks, {main}) => MainEnds(how, Tasks, {main})
    /\ Iterative!Environment => Environment
    /\ \A t \in Tasks : Iterative!Talk(t) => Talk(t)
    /\ Iterative!TalkInit => TalkInit
<1>1. Iterative!Tasks = Tasks /\ Iterative!Clients = Clients /\ Iterative!main = main
  BY DEF Iterative!Tasks, Tasks, Iterative!Clients, Clients, Iterative!main, main
<1>2. /\ Iterative!clientvars = clientvars /\ Iterative!mainvars = mainvars
      /\ Iterative!taskvars = taskvars /\ Iterative!Following = Following
  BY DEF Iterative!clientvars, clientvars, Iterative!mainvars, mainvars,
         Iterative!taskvars, taskvars, Iterative!Following, Following
<1>3. /\ UNCHANGED Iterative!clientvars <=> UNCHANGED clientvars
      /\ UNCHANGED Iterative!mainvars <=> UNCHANGED mainvars
      /\ UNCHANGED Iterative!taskvars <=> UNCHANGED taskvars
  BY DEF Iterative!clientvars, clientvars, Iterative!mainvars, mainvars,
         Iterative!taskvars, taskvars
<1>4. \A next \in {"start", "talk"} : Iterative!Accept(next) => Accept(next)
  BY <1>1, <1>3 DEF Iterative!Accept, Accept
<1>5. \A how : Iterative!MainEnds(how, Tasks, {main}) => MainEnds(how, Tasks, {main})
  BY <1>1, <1>3 DEF Iterative!MainEnds, MainEnds, Iterative!Release, Release
<1>6. Iterative!Environment => Environment
  BY <1>1, <1>3 DEF Iterative!Environment, Environment, Iterative!Connect, Connect,
         Iterative!Answer, Answer, Iterative!HangUp, HangUp, Iterative!Reset, Reset,
         Iterative!Alive, Alive
<1>7. \A t \in Tasks : Iterative!Talk(t) => Talk(t)
  BY <1>2, <1>3 DEF Iterative!Talk, Talk, Iterative!say, say, Iterative!read_in, read_in,
         Iterative!Goto, Goto
<1>8. Iterative!TalkInit => TalkInit
  BY <1>1 DEF Iterative!TalkInit, TalkInit
<1> QED  BY <1>1, <1>4, <1>5, <1>6, <1>7, <1>8

LEMMA IterativeStep ==
    ASSUME TalkInv, SoloInv, Iterative!Next
    PROVE  TalkInv' /\ SoloInv'
<1> USE DEF TalkInv
<1>0. 1 \in Tasks /\ TalkTypeOK
  BY TalkAssumption DEF Tasks
<1>1. CASE Iterative!AcceptClient
  <2>1. /\ Accept("talk") /\ pc' = [pc EXCEPT ![1] = "say1"]
        /\ conn' = [conn EXCEPT ![1] = Head(queue)]
    BY <1>1, SameIterative DEF Iterative!AcceptClient
  <2>2. PICK c \in Clients :
          /\ c = Head(queue) /\ New(c) /\ Untouched(c) /\ UNCHANGED told
          /\ (/\ pc' \in [Tasks -> Labels]
              /\ conn' \in [Tasks -> Clients \cup {NoClient}]
              /\ LineInv' /\ Distinct'
              /\ \A t \in Tasks : conn'[t] = conn[t] \/ conn'[t] = c) => TalkInv'
    BY <2>1, AcceptStep
  <2>3. /\ \A t \in Tasks : conn'[t] = IF t = 1 THEN c ELSE conn[t]
        /\ \A t \in Tasks : pc'[t] = IF t = 1 THEN "say1" ELSE pc[t]
        /\ pc' \in [Tasks -> Labels]
        /\ conn' \in [Tasks -> Clients \cup {NoClient}]
    BY <1>0, <2>1, <2>2 DEF TalkTypeOK, Labels
  <2>4. SoloInv'
    BY <2>3 DEF SoloInv
  <2>5. Distinct'
    BY <2>3, <2>4 DEF Distinct, SoloInv
  <2>6. LineInv'
    <3>1. told'[c] <= Heard["say1"]
      BY <2>2 DEF Untouched, Heard
    <3> QED  BY <2>2, <2>3, <3>1 DEF LineInv
  <2> QED  BY <2>2, <2>3, <2>4, <2>5, <2>6
<1>2. CASE Iterative!Close
  <2>1. /\ held' = [held EXCEPT ![cur] = {}] /\ pc' = [pc EXCEPT ![1] = "free"]
        /\ conn' = [conn EXCEPT ![1] = NoClient] /\ mainpc' = "accept"
        /\ UNCHANGED <<up, listening, queue, cur, clientvars>>
    BY <1>2 DEF Iterative!Close, Iterative!Goto, Iterative!clientvars, clientvars
  <2>2. /\ \A t \in Tasks : conn'[t] = IF t = 1 THEN NoClient ELSE conn[t]
        /\ \A t \in Tasks : pc'[t] = IF t = 1 THEN "free" ELSE pc[t]
    BY <2>1, <1>0 DEF TalkTypeOK
  <2>3. SoloInv' /\ Distinct'
    BY <2>2 DEF SoloInv, Distinct
  <2>4. LineInv'
    BY <2>1, <2>2, HeardLabels DEF LineInv, clientvars
  <2>5. TalkTypeOK'
    BY <1>0, <2>1 DEF TalkTypeOK, clientvars, Labels
  <2>6. \A t \in Tasks : conn'[t] \in Clients /\ conn'[t] # conn[t] => ~New(conn'[t])
    BY <2>2, TalkAssumption
  <2> QED  BY <2>1, <2>3, <2>4, <2>5, <2>6, QuietStep
<1>3. CASE \E how \in {"interrupted", "crashed"} : Iterative!End(how)
  <2>1. PICK how \in {"interrupted", "crashed"} : MainEnds(how, Tasks, {main})
    BY <1>3, SameIterative DEF Iterative!End
  <2>2. TalkInv' /\ UNCHANGED conn
    BY <2>1, EndStep
  <2> QED  BY <2>2 DEF SoloInv
<1>4. CASE Environment
  <2>1. PICK c \in Clients : Connect(c) \/ Answer(c) \/ HangUp(c) \/ Reset(c)
    BY <1>4 DEF Environment
  <2>2. TalkInv' /\ UNCHANGED conn
    BY <2>1, ClientStep
  <2> QED  BY <2>2 DEF SoloInv
<1>5. CASE \E t \in Tasks : Talk(t)
  <2>1. TalkInv' /\ UNCHANGED conn
    BY <1>5, TalkStep
  <2> QED  BY <2>1 DEF SoloInv
<1> QED
  BY <1>1, <1>2, <1>3, <1>4, <1>5, SameIterative
  DEF Iterative!Next, Iterative!Main, Iterative!Task, Iterative!Interrupt

-----------------------------------------------------------------------------
(* The forking server. *)

\* How many tasks there are is the number of the last one made.
LEMMA MadeIs ==
    ASSUME NEW k \in 0..MaxTasks, FirstMade(k)
    PROVE  Made = k
<1>1. {t \in Tasks : pc[t] # "free"} = 1..k
  BY TalkAssumption DEF FirstMade, Tasks
<1>2. Cardinality(1..k) = k
  <2>1. 1 \in Int /\ k \in Int /\ k >= 0
    BY TalkAssumption
  <2>2. Cardinality(1..k) = IF 1 > k THEN 0 ELSE k - 1 + 1
    BY <2>1, FS_Interval
  <2> QED  BY <2>1, <2>2
<1> QED  BY <1>1, <1>2 DEF Made

\* Another task is made: the next one.
LEMMA MakesNext ==
    ASSUME TalkTypeOK, NEW k \in 0..MaxTasks, FirstMade(k), k < MaxTasks, Goto(k + 1, "start")
    PROVE  /\ k + 1 \in Tasks /\ pc[k + 1] = "free"
           /\ k + 1 \in 0..MaxTasks /\ FirstMade(k + 1)'
           /\ \A t \in Tasks : pc'[t] = IF t = k + 1 THEN "start" ELSE pc[t]
<1>1. k + 1 \in Tasks /\ pc[k + 1] = "free" /\ k + 1 \in 0..MaxTasks
  BY TalkAssumption DEF Tasks, FirstMade
<1>2. \A t \in Tasks : pc'[t] = IF t = k + 1 THEN "start" ELSE pc[t]
  BY DEF Goto, TalkTypeOK
<1>3. \A t \in Tasks : t > k + 1 <=> t > k /\ t # k + 1
  BY TalkAssumption DEF Tasks
<1>4. \A t \in Tasks : pc'[t] = "free" <=> t > k + 1
  BY <1>2, <1>3 DEF FirstMade
<1> QED  BY <1>1, <1>2, <1>4 DEF FirstMade

\* No step frees a task or takes one out of order.
LEMMA KeepsMade ==
    ASSUME \E k \in 0..MaxTasks : FirstMade(k),
           \A t \in Tasks : pc'[t] = "free" <=> pc[t] = "free"
    PROVE  \E k \in 0..MaxTasks : FirstMade(k)'
BY DEF FirstMade

LEMMA SameForking ==
    /\ Forking!Tasks = Tasks /\ Forking!Clients = Clients /\ Forking!main = main
    /\ Forking!Made = Made
    /\ UNCHANGED Forking!clientvars <=> UNCHANGED clientvars
    /\ UNCHANGED Forking!mainvars <=> UNCHANGED mainvars
    /\ UNCHANGED Forking!taskvars <=> UNCHANGED taskvars
    /\ \A next \in {"start", "talk"} : Forking!Accept(next) => Accept(next)
    /\ \A how, also, holders : Forking!MainEnds(how, also, holders)
                               => MainEnds(how, also, holders)
    /\ Forking!Environment => Environment
    /\ \A t \in Tasks : Forking!Talk(t) => Talk(t)
    /\ \A t \in Tasks : Forking!Fails(t) => pc[t] \in DOMAIN Following
    /\ \A t, l : Forking!Goto(t, l) <=> Goto(t, l)
    /\ Forking!TalkInit => TalkInit
<1>1. Forking!Tasks = Tasks /\ Forking!Clients = Clients /\ Forking!main = main
  BY DEF Forking!Tasks, Tasks, Forking!Clients, Clients, Forking!main, main
<1>2. Forking!Made = Made
  BY DEF Forking!Made, Made, Forking!Tasks, Tasks, Forking!Cardinality, Cardinality
<1>3. /\ UNCHANGED Forking!clientvars <=> UNCHANGED clientvars
      /\ UNCHANGED Forking!mainvars <=> UNCHANGED mainvars
      /\ UNCHANGED Forking!taskvars <=> UNCHANGED taskvars
      /\ Forking!Following = Following
  BY DEF Forking!clientvars, clientvars, Forking!mainvars, mainvars,
         Forking!taskvars, taskvars, Forking!Following, Following
<1>4. \A next \in {"start", "talk"} : Forking!Accept(next) => Accept(next)
  BY <1>1, <1>3 DEF Forking!Accept, Accept
<1>5. \A how, also, holders : Forking!MainEnds(how, also, holders)
                              => MainEnds(how, also, holders)
  BY <1>1, <1>3 DEF Forking!MainEnds, MainEnds, Forking!Release, Release
<1>6. Forking!Environment => Environment
  BY <1>1, <1>3 DEF Forking!Environment, Environment, Forking!Connect, Connect,
         Forking!Answer, Answer, Forking!HangUp, HangUp, Forking!Reset, Reset,
         Forking!Alive, Alive
<1>7. \A t \in Tasks : Forking!Talk(t) => Talk(t)
  BY <1>3 DEF Forking!Talk, Talk, Forking!say, say, Forking!read_in, read_in,
         Forking!Goto, Goto
<1>8. /\ \A t \in Tasks : Forking!Fails(t) => pc[t] \in DOMAIN Following
      /\ \A t, l : Forking!Goto(t, l) <=> Goto(t, l)
  BY <1>3 DEF Forking!Fails, Forking!Goto, Goto
<1>9. Forking!TalkInit => TalkInit
  BY <1>1 DEF Forking!TalkInit, TalkInit
<1> QED  BY <1>1, <1>2, <1>3, <1>4, <1>5, <1>6, <1>7, <1>8, <1>9

\* A step that hands nobody over.
LEMMA ForkKept ==
    ASSUME ForkInv, UNCHANGED <<conn, cur, told>>,
           \A d \in Clients : New(d)' => New(d),
           \A t \in Tasks : /\ pc'[t] = "free" <=> pc[t] = "free"
                            /\ pc'[t] = "start" => pc[t] = "start",
           mainpc' = "start" => mainpc = "start"
    PROVE  ForkInv'
<1>1. \E k \in 0..MaxTasks : FirstMade(k)'
  BY KeepsMade DEF ForkInv
<1>2. StartInv'
  BY DEF ForkInv, StartInv
<1>3. CurInv'
  <2> SUFFICES ASSUME mainpc' = "start"
               PROVE  (cur \in Clients /\ ~New(cur) /\ Untouched(cur))'
    BY DEF CurInv
  <2>1. PICK c \in Clients : c = cur /\ ~New(c) /\ Untouched(c)
    BY DEF ForkInv, CurInv
  <2>2. cur' = c /\ ~New(c)' /\ Untouched(c)'
    BY <2>1 DEF Untouched
  <2> QED  BY <2>2 DEF New, Waiting, Untouched
<1> QED  BY <1>1, <1>2, <1>3 DEF ForkInv

\* A child moves from one label to a later one.
LEMMA ChildStep ==
    ASSUME TalkInv, ForkInv, NEW t \in Tasks, pc[t] # "free",
           NEW l \in Labels \ {"free", "start"}, Goto(t, l),
           l \in DOMAIN Heard => conn[t] \in Clients /\ told[conn[t]] <= Heard[l],
           held' \in [Clients -> SUBSET ({main} \cup Tasks)], listening' \subseteq listening,
           queue' = queue \/ queue' = <<>>,
           UNCHANGED <<up, cur, mainpc, conn, clientvars>>
    PROVE  TalkInv' /\ ForkInv'
<1> USE DEF TalkInv
<1>1. /\ \A u \in Tasks : pc'[u] = IF u = t THEN l ELSE pc[u]
      /\ pc' \in [Tasks -> Labels]
  BY DEF Goto, TalkTypeOK
<1>2. queue' \in Seq(Clients)
  BY QueueStays
<1>3. TalkTypeOK'
  BY <1>1, <1>2 DEF TalkTypeOK, clientvars
<1>4. LineInv' /\ Distinct'
  BY <1>1, HeardLabels DEF LineInv, Distinct, clientvars
<1>5. TalkInv' /\ \A d \in Clients : New(d)' => New(d)
  BY <1>3, <1>4, QuietStep
<1>6. told' = told
  BY DEF clientvars
<1> QED  BY <1>1, <1>5, <1>6, ForkKept

LEMMA ForkingMain ==
    ASSUME TalkInv, ForkInv, Forking!Main
    PROVE  TalkInv' /\ ForkInv'
<1> USE DEF TalkInv
<1>0. TalkTypeOK /\ LineInv /\ Distinct
  OBVIOUS
<1>1. CASE Forking!AcceptClient
  <2>1. Accept("start") /\ UNCHANGED <<pc, conn>>
    BY <1>1, SameForking DEF Forking!AcceptClient
  <2>2. PICK c \in Clients :
          /\ cur' = c /\ New(c) /\ Untouched(c) /\ UNCHANGED told
          /\ \A d \in Clients : New(d)' => New(d) /\ d # c
          /\ (/\ pc' \in [Tasks -> Labels]
              /\ conn' \in [Tasks -> Clients \cup {NoClient}]
              /\ LineInv' /\ Distinct'
              /\ \A t \in Tasks : conn'[t] = conn[t] \/ conn'[t] = c) => TalkInv'
    BY <2>1, AcceptStep
  <2>3. LineInv' /\ Distinct' /\ StartInv'
    BY <2>1, <2>2 DEF LineInv, Distinct, ForkInv, StartInv
  <2>4. TalkInv'
    BY <2>1, <2>2, <2>3 DEF TalkTypeOK
  <2>5. CurInv'
    <3>1. cur' = c /\ c \in Clients /\ ~New(c)' /\ Untouched(c)'
      BY <2>1, <2>2 DEF Untouched
    <3> QED  BY <3>1 DEF CurInv, New, Waiting, Untouched
  <2>6. \E k \in 0..MaxTasks : FirstMade(k)'
    BY <2>1, KeepsMade DEF ForkInv
  <2> QED  BY <2>3, <2>4, <2>5, <2>6 DEF ForkInv
<1>2. CASE Forking!Fork
  <2>1. PICK k \in 0..MaxTasks : FirstMade(k)
    BY DEF ForkInv
  <2>2. Made = k
    BY <2>1, MadeIs
  <2>3. /\ mainpc = "start" /\ k < MaxTasks /\ Goto(k + 1, "start")
        /\ conn' = [conn EXCEPT ![k + 1] = cur]
        /\ held' = [c \in Clients |-> IF main \in held[c] THEN held[c] \cup {k + 1} ELSE held[c]]
        /\ listening' = listening \cup {k + 1}
        /\ mainpc' = "close" /\ UNCHANGED <<up, queue, cur, clientvars>>
    BY <1>2, <2>2, SameForking DEF Forking!Fork
  <2>4. /\ k + 1 \in Tasks /\ pc[k + 1] = "free"
        /\ k + 1 \in 0..MaxTasks /\ FirstMade(k + 1)'
        /\ \A t \in Tasks : pc'[t] = IF t = k + 1 THEN "start" ELSE pc[t]
    BY <2>1, <2>3, MakesNext
  <2>5. PICK c \in Clients : c = cur /\ ~New(c) /\ Untouched(c)
    BY <2>3 DEF ForkInv, CurInv
  <2>6. \A t \in Tasks : conn'[t] = IF t = k + 1 THEN c ELSE conn[t]
    BY <2>3, <2>5 DEF TalkTypeOK
  <2>7. told' = told
    BY <2>3 DEF clientvars
  <2>8. TalkTypeOK'
    <3>1. pc' \in [Tasks -> Labels]
      BY <2>3 DEF Goto, Labels, TalkTypeOK
    <3>2. conn' \in [Tasks -> Clients \cup {NoClient}]
      BY <2>3, <2>5 DEF TalkTypeOK
    <3>3. held' \in [Clients -> SUBSET ({main} \cup Tasks)]
      BY <2>3, <2>4 DEF TalkTypeOK
    <3> QED  BY <2>3, <2>4, <3>1, <3>2, <3>3 DEF TalkTypeOK, clientvars
  <2>9. LineInv'
    BY <2>4, <2>6, <2>7, HeardLabels DEF LineInv
  <2>10. Distinct'
    BY <2>5, <2>6 DEF Distinct, Untouched
  <2>11. StartInv'
    BY <2>4, <2>5, <2>6, <2>7 DEF ForkInv, StartInv, Untouched
  <2>12. TalkInv'
    BY <2>3, <2>5, <2>6, <2>8, <2>9, <2>10, QuietStep
  <2>13. CurInv'
    BY <2>3 DEF CurInv
  <2> QED  BY <2>4, <2>11, <2>12, <2>13 DEF ForkInv
<1>3. CASE Forking!ForkFails \/ Forking!ParentClose
  <2>1. /\ mainpc' \in {"close", "accept"}
        /\ held' = held \/ held' = [held EXCEPT ![cur] = @ \ {main}]
        /\ UNCHANGED <<up, listening, queue, cur, pc, conn, clientvars>>
    BY <1>3, SameForking DEF Forking!ForkFails, Forking!ParentClose, taskvars
  <2>2. TalkTypeOK' /\ LineInv' /\ Distinct'
    BY <2>1 DEF TalkTypeOK, LineInv, Distinct, clientvars
  <2>3. TalkInv' /\ \A d \in Clients : New(d)' => New(d)
    BY <2>1, <2>2, QuietStep
  <2>4. told' = told
    BY <2>1 DEF clientvars
  <2> QED  BY <2>1, <2>3, <2>4, ForkKept
<1>4. CASE Forking!Dies
  <2>1. MainEnds("crashed", {}, {main})
    BY <1>4, SameForking DEF Forking!Dies
  <2>2. /\ TalkInv' /\ UNCHANGED <<cur, conn, told>> /\ mainpc' = "ended"
        /\ \A d \in Clients : New(d)' => New(d)
        /\ \A t \in Tasks : pc'[t] = pc[t] \/ (pc[t] # "free" /\ pc'[t] = "ended")
    BY <2>1, EndStep
  <2> QED  BY <2>2, ForkKept
<1> QED
  BY <1>1, <1>2, <1>3, <1>4 DEF Forking!Main

LEMMA ForkingChild ==
    ASSUME TalkInv, ForkInv, NEW t \in Tasks, Forking!Task(t)
    PROVE  TalkInv' /\ ForkInv'
<1> USE DEF TalkInv
<1>0. TalkTypeOK /\ LineInv /\ Distinct /\ StartInv
  BY DEF ForkInv
<1>1. CASE Forking!CloseListener(t)
  <2>1. /\ pc[t] = "start" /\ listening' = listening \ {t} /\ Goto(t, "say1")
        /\ queue' = queue \/ queue' = <<>>
        /\ UNCHANGED <<up, cur, mainpc, conn, held, clientvars>>
    BY <1>1, SameForking DEF Forking!CloseListener
  <2>2. conn[t] \in Clients /\ told[conn[t]] <= Heard["say1"]
    BY <1>0, <2>1 DEF StartInv, Heard
  <2>3. "say1" \in Labels \ {"free", "start"}
    BY DEF Labels
  <2>4. held' \in [Clients -> SUBSET ({main} \cup Tasks)]
    BY <2>1, <1>0 DEF TalkTypeOK
  <2> QED  BY <2>1, <2>2, <2>3, <2>4, ChildStep
<1>2. CASE Forking!Close(t)
  <2>1. /\ pc[t] = "close" /\ held' = [held EXCEPT ![conn[t]] = @ \ {t}] /\ Goto(t, "exit")
        /\ UNCHANGED <<conn, mainvars, clientvars>>
    BY <1>2, SameForking DEF Forking!Close
  <2>2. "exit" \in Labels \ {"free", "start"} /\ "exit" \notin DOMAIN Heard
    BY HeardLabels DEF Labels
  <2>3. held' \in [Clients -> SUBSET ({main} \cup Tasks)]
    BY <2>1, <1>0 DEF TalkTypeOK
  <2>4. UNCHANGED <<up, listening, queue, cur, mainpc>>
    BY <2>1 DEF mainvars
  <2> QED  BY <2>1, <2>2, <2>3, <2>4, ChildStep
<1>3. CASE Forking!Exit(t)
  <2>1. /\ pc[t] = "exit" \/ pc[t] \in DOMAIN Following
        /\ held' = [c \in Clients |-> held[c] \ {t}]
        /\ listening' = listening \ {t}
        /\ queue' = queue \/ queue' = <<>>
        /\ Goto(t, "ended")
        /\ UNCHANGED <<up, cur, mainpc, conn, clientvars>>
    BY <1>3, SameForking DEF Forking!Exit, Forking!Release
  <2>2. "ended" \in Labels \ {"free", "start"} /\ "ended" \notin DOMAIN Heard
    BY HeardLabels DEF Labels
  <2>3. held' \in [Clients -> SUBSET ({main} \cup Tasks)]
    BY <2>1, <1>0 DEF TalkTypeOK
  <2>4. pc[t] # "free"
    BY <2>1 DEF Following
  <2> QED  BY <2>1, <2>2, <2>3, <2>4, ChildStep
<1>4. CASE Talk(t)
  <2>1. /\ TalkInv' /\ UNCHANGED <<conn, cur, mainpc>>
        /\ \A d \in Clients : New(d)' => New(d)
        /\ \A d \in Clients : d # conn[t] => told'[d] = told[d]
        /\ pc[t] \notin {"free", "start"} /\ conn[t] \in Clients
        /\ \E l \in Labels \ {"free", "start"} :
              \A u \in Tasks : pc'[u] = IF u = t THEN l ELSE pc[u]
    BY <1>4, TalkStep
  <2>2. \A u \in Tasks : /\ pc'[u] = "free" <=> pc[u] = "free"
                         /\ pc'[u] = "start" => pc[u] = "start" /\ u # t
    BY <2>1
  <2>3. \E k \in 0..MaxTasks : FirstMade(k)'
    BY <2>2, KeepsMade DEF ForkInv
  <2>4. StartInv'
    <3> SUFFICES ASSUME NEW u \in Tasks, pc'[u] = "start"
                 PROVE  conn'[u] \in Clients /\ told'[conn'[u]] = 0
      BY DEF StartInv
    <3>1. conn[u] \in Clients /\ told[conn[u]] = 0 /\ conn'[u] = conn[u] /\ u # t
      BY <1>0, <2>1, <2>2 DEF StartInv
    <3>2. conn[u] # conn[t]
      BY <1>0, <2>1, <3>1, TalkAssumption DEF Distinct
    <3> QED  BY <2>1, <3>1, <3>2
  <2>5. CurInv'
    <3> SUFFICES ASSUME mainpc' = "start"
                 PROVE  (cur \in Clients /\ ~New(cur) /\ Untouched(cur))'
      BY DEF CurInv
    <3>1. PICK c \in Clients : c = cur /\ ~New(c) /\ Untouched(c)
      BY <2>1 DEF ForkInv, CurInv
    <3>2. cur' = c /\ ~New(c)' /\ Untouched(c)'
      BY <2>1, <3>1 DEF Untouched
    <3> QED  BY <3>2 DEF New, Waiting, Untouched
  <2> QED  BY <2>1, <2>3, <2>4, <2>5 DEF ForkInv
<1> QED
  BY <1>1, <1>2, <1>3, <1>4, SameForking DEF Forking!Task

LEMMA ForkingStep ==
    ASSUME TalkInv, ForkInv, Forking!Next
    PROVE  TalkInv' /\ ForkInv'
<1>1. CASE Forking!Interrupt
  <2>1. \E hit \in {{}, Tasks} : MainEnds("interrupted", hit, {main} \cup hit)
    BY <1>1, SameForking DEF Forking!Interrupt
  <2>2. PICK hit \in SUBSET Tasks : MainEnds("interrupted", hit, {main} \cup hit)
    BY <2>1
  <2>3. /\ TalkInv' /\ UNCHANGED <<cur, conn, told>> /\ mainpc' = "ended"
        /\ \A d \in Clients : New(d)' => New(d)
        /\ \A t \in Tasks : pc'[t] = pc[t] \/ (pc[t] # "free" /\ pc'[t] = "ended")
    BY <2>2, EndStep
  <2> QED  BY <2>3, ForkKept
<1>2. CASE Environment
  <2>1. PICK c \in Clients : Connect(c) \/ Answer(c) \/ HangUp(c) \/ Reset(c)
    BY <1>2 DEF Environment
  <2>2. /\ TalkInv' /\ UNCHANGED <<pc, conn, told, cur, mainpc>>
        /\ \A d \in Clients : New(d)' => New(d)
    BY <2>1, ClientStep
  <2> QED  BY <2>2, ForkKept
<1> QED
  BY <1>1, <1>2, ForkingMain, ForkingChild, SameForking DEF Forking!Next

-----------------------------------------------------------------------------
(* The threaded server. *)

LEMMA SameThreaded ==
    /\ Threaded!Tasks = Tasks /\ Threaded!Clients = Clients /\ Threaded!main = main
    /\ Threaded!Made = Made
    /\ UNCHANGED Threaded!clientvars <=> UNCHANGED clientvars
    /\ UNCHANGED Threaded!mainvars <=> UNCHANGED mainvars
    /\ UNCHANGED Threaded!taskvars <=> UNCHANGED taskvars
    /\ \A next \in {"start", "talk"} : Threaded!Accept(next) => Accept(next)
    /\ \A how, also, holders : Threaded!MainEnds(how, also, holders)
                               => MainEnds(how, also, holders)
    /\ Threaded!Environment => Environment
    /\ \A t \in Tasks : Threaded!Talk(t) => Talk(t)
    /\ \A t, l : Threaded!Goto(t, l) <=> Goto(t, l)
    /\ Threaded!TalkInit => TalkInit
<1>1. Threaded!Tasks = Tasks /\ Threaded!Clients = Clients /\ Threaded!main = main
  BY DEF Threaded!Tasks, Tasks, Threaded!Clients, Clients, Threaded!main, main
<1>2. Threaded!Made = Made
  BY DEF Threaded!Made, Made, Threaded!Tasks, Tasks, Threaded!Cardinality, Cardinality
<1>3. /\ UNCHANGED Threaded!clientvars <=> UNCHANGED clientvars
      /\ UNCHANGED Threaded!mainvars <=> UNCHANGED mainvars
      /\ UNCHANGED Threaded!taskvars <=> UNCHANGED taskvars
      /\ Threaded!Following = Following
  BY DEF Threaded!clientvars, clientvars, Threaded!mainvars, mainvars,
         Threaded!taskvars, taskvars, Threaded!Following, Following
<1>4. \A next \in {"start", "talk"} : Threaded!Accept(next) => Accept(next)
  BY <1>1, <1>3 DEF Threaded!Accept, Accept
<1>5. \A how, also, holders : Threaded!MainEnds(how, also, holders)
                              => MainEnds(how, also, holders)
  BY <1>1, <1>3 DEF Threaded!MainEnds, MainEnds, Threaded!Release, Release
<1>6. Threaded!Environment => Environment
  BY <1>1, <1>3 DEF Threaded!Environment, Environment, Threaded!Connect, Connect,
         Threaded!Answer, Answer, Threaded!HangUp, HangUp, Threaded!Reset, Reset,
         Threaded!Alive, Alive
<1>7. \A t \in Tasks : Threaded!Talk(t) => Talk(t)
  BY <1>3 DEF Threaded!Talk, Talk, Threaded!say, say, Threaded!read_in, read_in,
         Threaded!Goto, Goto
<1>8. \A t, l : Threaded!Goto(t, l) <=> Goto(t, l)
  BY DEF Threaded!Goto, Goto
<1>9. Threaded!TalkInit => TalkInit
  BY <1>1 DEF Threaded!TalkInit, TalkInit
<1> QED  BY <1>1, <1>2, <1>3, <1>4, <1>5, <1>6, <1>7, <1>8, <1>9


\* A step that leaves the cells alone and hands nobody over.
LEMMA ThreadKept ==
    ASSUME ThreadInv, UNCHANGED <<heap, conn, told>>,
           \A d \in Clients : New(d)' => New(d),
           \A t \in Tasks : /\ pc'[t] = "free" <=> pc[t] = "free"
                            /\ pc'[t] = "start" => pc[t] = "start",
           mainpc' = "start" => mainpc = "start"
    PROVE  ThreadInv'
<1> USE DEF ThreadInv
<1>1. HeapInv'
  <2>1. \A a \in Cells : heap[a] # NoClient => ~New(heap[a])'
    <3> SUFFICES ASSUME NEW a \in Cells, heap[a] # NoClient
                 PROVE  ~New(heap[a])'
      OBVIOUS
    <3>1. PICK c \in Clients : c = heap[a] /\ ~New(c)
      BY DEF HeapInv
    <3>2. heap'[a] = c /\ ~New(c)'
      BY <3>1
    <3> QED  BY <3>2 DEF New, Waiting
  <2> QED  BY <2>1 DEF HeapInv
<1>2. ReadyInv'
  BY DEF ReadyInv
<1>3. NextInv'
  BY DEF NextInv, FirstMade
<1> QED  BY <1>1, <1>2, <1>3

\* Main puts the client it accepts in the cell of the thread it makes next.
LEMMA ThreadedAccepts ==
    ASSUME TalkInv, ThreadInv, Threaded!AcceptClient
    PROVE  TalkInv' /\ ThreadInv'
<1> USE DEF TalkInv, ThreadInv
<1>1. PICK k \in 0..MaxTasks : FirstMade(k)
  BY DEF NextInv
<1>2. Made = k
  BY <1>1, MadeIs
<1>3. /\ Accept("start") /\ UNCHANGED <<pc, conn>>
      /\ heap' = [heap EXCEPT ![k + 1] = Head(queue)]
  BY <1>2, SameThreaded DEF Threaded!AcceptClient, Threaded!Cell
<1>4. PICK c \in Clients :
        /\ c = Head(queue) /\ New(c) /\ Untouched(c) /\ UNCHANGED told
        /\ \A d \in Clients : New(d)' => New(d) /\ d # c
        /\ (/\ pc' \in [Tasks -> Labels]
            /\ conn' \in [Tasks -> Clients \cup {NoClient}]
            /\ LineInv' /\ Distinct'
            /\ \A t \in Tasks : conn'[t] = conn[t] \/ conn'[t] = c) => TalkInv'
  BY <1>3, AcceptStep
<1>5. TalkInv'
  <2>1. LineInv' /\ Distinct'
    BY <1>3, <1>4 DEF LineInv, Distinct
  <2> QED  BY <1>3, <1>4, <2>1 DEF TalkTypeOK
<1>6. /\ k + 1 \in Cells /\ c # NoClient
      /\ heap \in [Cells -> Clients \cup {NoClient}]
      /\ \A a \in Cells : heap'[a] = IF a = k + 1 THEN c ELSE heap[a]
  BY <1>3, <1>4, TalkAssumption DEF Cells, HeapInv
<1>7. \A a \in Cells : heap[a] # c
  BY <1>4, <1>6 DEF HeapInv
<1>8. HeapInv'
  <2>1. heap' \in [Cells -> Clients \cup {NoClient}]
    BY <1>3, <1>4, <1>6
  <2>2. \A a, b \in Cells : heap'[a] = heap'[b] /\ heap'[a] # NoClient => a = b
    BY <1>6, <1>7 DEF HeapInv
  <2>3. \A a \in Cells : heap'[a] # NoClient => ~New(heap[a])'
    <3> SUFFICES ASSUME NEW a \in Cells, heap'[a] # NoClient
                 PROVE  ~New(heap[a])'
      OBVIOUS
    <3>1. PICK d \in Clients : d = heap'[a]
      BY <2>1
    <3>2. d = c \/ ~New(d)
      BY <1>6, <3>1 DEF HeapInv
    <3>3. ~New(d)'
      BY <1>4, <3>2
    <3> QED  BY <3>1, <3>3 DEF New, Waiting
  <2>4. \A a \in Cells : heap'[a] # NoClient /\ (\A t \in Tasks : conn'[t] # heap'[a])
                         => told'[heap'[a]] = 0
    BY <1>3, <1>4, <1>6 DEF HeapInv, Untouched
  <2>5. \A t \in Tasks : conn'[t] = NoClient \/ conn'[t] = heap'[t]
    <3> SUFFICES ASSUME NEW t \in Tasks
                 PROVE  conn'[t] = NoClient \/ conn'[t] = heap'[t]
      OBVIOUS
    <3>1. t \in Cells /\ conn'[t] = conn[t] /\ (conn[t] = NoClient \/ conn[t] = heap[t])
      BY <1>3, TalkAssumption DEF HeapInv, Cells, Tasks
    <3>2. t = k + 1 => conn[t] = NoClient
      BY <1>1 DEF ReadyInv, FirstMade, Tasks
    <3> QED  BY <1>6, <3>1, <3>2
  <2> QED  BY <2>1, <2>2, <2>3, <2>4, <2>5 DEF HeapInv
<1>9. ReadyInv'
  <2>1. \A t \in Tasks : t \in Cells
    BY TalkAssumption DEF Cells, Tasks
  <2> QED  BY <1>3, <1>6, <2>1 DEF ReadyInv
<1>10. FirstMade(k)' /\ heap'[k + 1] # NoClient
  BY <1>1, <1>3, <1>6 DEF FirstMade
<1> QED  BY <1>5, <1>8, <1>9, <1>10 DEF NextInv

LEMMA ThreadedMakes ==
    ASSUME TalkInv, ThreadInv, Threaded!make_thread
    PROVE  TalkInv' /\ ThreadInv'
<1> USE DEF TalkInv, ThreadInv
<1>1. PICK k \in 0..MaxTasks : FirstMade(k) /\ (mainpc = "start" => heap[k + 1] # NoClient)
  BY DEF NextInv
<1>2. Made = k
  BY <1>1, MadeIs
<1>3. /\ mainpc = "start" /\ k < MaxTasks /\ Goto(k + 1, "start") /\ mainpc' = "accept"
      /\ UNCHANGED <<heap, up, listening, queue, cur, conn, held, clientvars>>
  BY <1>2, SameThreaded DEF Threaded!make_thread
<1>4. /\ k + 1 \in Tasks /\ pc[k + 1] = "free"
      /\ k + 1 \in 0..MaxTasks /\ FirstMade(k + 1)'
      /\ \A t \in Tasks : pc'[t] = IF t = k + 1 THEN "start" ELSE pc[t]
  BY <1>1, <1>3, MakesNext
<1>5. TalkTypeOK'
  <2>1. pc' \in [Tasks -> Labels]
    BY <1>3 DEF Goto, Labels, TalkTypeOK
  <2> QED  BY <1>3, <2>1 DEF TalkTypeOK, clientvars
<1>6. told' = told
  BY <1>3 DEF clientvars
<1>7. LineInv' /\ Distinct'
  BY <1>3, <1>4, <1>6, HeardLabels DEF LineInv, Distinct
<1>8. TalkInv' /\ \A d \in Clients : New(d)' => New(d)
  BY <1>3, <1>5, <1>7, QuietStep
<1>9. ReadyInv'
  BY <1>1, <1>3, <1>4 DEF ReadyInv
<1>10. NextInv'
  BY <1>3, <1>4 DEF NextInv
<1>11. HeapInv'
  <2>1. \A a \in Cells : heap[a] # NoClient => ~New(heap[a])'
    <3> SUFFICES ASSUME NEW a \in Cells, heap[a] # NoClient
                 PROVE  ~New(heap[a])'
      OBVIOUS
    <3>1. PICK c \in Clients : c = heap[a] /\ ~New(c)
      BY DEF HeapInv
    <3>2. heap'[a] = c /\ ~New(c)'
      BY <1>3, <1>8, <3>1
    <3> QED  BY <3>2 DEF New, Waiting
  <2> QED  BY <1>3, <1>6, <2>1 DEF HeapInv
<1> QED  BY <1>8, <1>9, <1>10, <1>11

\* A thread reads the cell that main wrote for it, and no other has read it.
LEMMA ThreadedReads ==
    ASSUME TalkInv, ThreadInv, NEW t \in Tasks, Threaded!ReadArgument(t)
    PROVE  TalkInv' /\ ThreadInv'
<1> USE DEF TalkInv, ThreadInv
<1>1. /\ pc[t] = "start" /\ conn' = [conn EXCEPT ![t] = heap[t]] /\ Goto(t, "say1")
      /\ UNCHANGED <<heap, held, mainvars, clientvars>>
  BY SameThreaded DEF Threaded!ReadArgument, Threaded!Cell
<1>2. UNCHANGED <<up, listening, queue, cur, mainpc, told>>
  BY <1>1 DEF mainvars, clientvars
<1>3. \A u \in Tasks : u \in Cells
  BY TalkAssumption DEF Cells, Tasks
<1>4. PICK c \in Clients : c = heap[t]
  BY <1>1, <1>3 DEF HeapInv, ReadyInv
<1>5. c # NoClient /\ ~New(c) /\ conn[t] = NoClient
  BY <1>1, <1>3, <1>4, TalkAssumption DEF HeapInv, ReadyInv
<1>6. \A u \in Tasks : conn[u] # c
  BY <1>3, <1>4, <1>5 DEF HeapInv
<1>7. told[c] = 0
  BY <1>3, <1>4, <1>5, <1>6 DEF HeapInv
<1>8. /\ \A u \in Tasks : conn'[u] = IF u = t THEN c ELSE conn[u]
      /\ \A u \in Tasks : pc'[u] = IF u = t THEN "say1" ELSE pc[u]
      /\ conn' \in [Tasks -> Clients \cup {NoClient}] /\ pc' \in [Tasks -> Labels]
  BY <1>1, <1>4 DEF TalkTypeOK, Goto, Labels
<1>9. TalkTypeOK'
  BY <1>1, <1>2, <1>8 DEF TalkTypeOK, clientvars
<1>10. Distinct'
  BY <1>6, <1>8 DEF Distinct
<1>11. LineInv'
  <2>1. told'[c] <= Heard["say1"]
    BY <1>2, <1>7 DEF Heard
  <2> QED  BY <1>2, <1>8, <2>1 DEF LineInv
<1>12. TalkInv' /\ \A d \in Clients : New(d)' => New(d)
  BY <1>1, <1>2, <1>5, <1>8, <1>9, <1>10, <1>11, QuietStep
<1>13. ReadyInv'
  BY <1>1, <1>8 DEF ReadyInv
<1>14. NextInv'
  BY <1>1, <1>2, <1>8 DEF NextInv, FirstMade
<1>15. HeapInv'
  <2>1. \A a \in Cells : heap[a] # NoClient => ~New(heap[a])'
    <3> SUFFICES ASSUME NEW a \in Cells, heap[a] # NoClient
                 PROVE  ~New(heap[a])'
      OBVIOUS
    <3>1. PICK d \in Clients : d = heap[a] /\ ~New(d)
      BY DEF HeapInv
    <3>2. heap'[a] = d /\ ~New(d)'
      BY <1>1, <1>12, <3>1
    <3> QED  BY <3>2 DEF New, Waiting
  <2>2. \A a \in Cells : heap[a] # NoClient /\ (\A u \in Tasks : conn'[u] # heap[a])
                         => told[heap[a]] = 0
    <3> SUFFICES ASSUME NEW a \in Cells, heap[a] # NoClient,
                        \A u \in Tasks : conn'[u] # heap[a]
                 PROVE  told[heap[a]] = 0
      OBVIOUS
    <3>1. \A u \in Tasks : conn[u] # heap[a]
      BY <1>5, <1>8
    <3> QED  BY <3>1 DEF HeapInv
  <2>3. \A u \in Tasks : conn'[u] = NoClient \/ conn'[u] = heap[u]
    BY <1>4, <1>8 DEF HeapInv
  <2> QED  BY <1>1, <1>2, <2>1, <2>2, <2>3 DEF HeapInv
<1> QED  BY <1>12, <1>13, <1>14, <1>15

LEMMA ThreadedCloses ==
    ASSUME TalkInv, ThreadInv, NEW t \in Tasks, Threaded!Close(t)
    PROVE  TalkInv' /\ ThreadInv'
<1> USE DEF TalkInv
<1>1. /\ pc[t] = "close" /\ held' = [held EXCEPT ![conn[t]] = {}] /\ Goto(t, "ended")
      /\ UNCHANGED <<heap, conn, mainvars, clientvars>>
  BY SameThreaded DEF Threaded!Close
<1>2. UNCHANGED <<up, listening, queue, cur, mainpc, told>>
  BY <1>1 DEF mainvars, clientvars
<1>3. /\ \A u \in Tasks : pc'[u] = IF u = t THEN "ended" ELSE pc[u]
      /\ pc' \in [Tasks -> Labels]
  BY <1>1 DEF TalkTypeOK, Goto, Labels
<1>4. TalkTypeOK'
  BY <1>1, <1>2, <1>3 DEF TalkTypeOK, clientvars
<1>5. LineInv' /\ Distinct'
  BY <1>1, <1>2, <1>3, HeardLabels DEF LineInv, Distinct
<1>6. TalkInv' /\ \A d \in Clients : New(d)' => New(d)
  BY <1>1, <1>2, <1>4, <1>5, QuietStep
<1> QED  BY <1>1, <1>2, <1>3, <1>6, ThreadKept

LEMMA ThreadedTalks ==
    ASSUME TalkInv, ThreadInv, NEW t \in Tasks, Talk(t), UNCHANGED heap
    PROVE  TalkInv' /\ ThreadInv'
<1>1. /\ TalkInv' /\ UNCHANGED <<conn, cur, mainpc>>
      /\ \A d \in Clients : New(d)' => New(d)
      /\ \A d \in Clients : d # conn[t] => told'[d] = told[d]
      /\ pc[t] \notin {"free", "start"} /\ conn[t] \in Clients
      /\ \E l \in Labels \ {"free", "start"} :
            \A u \in Tasks : pc'[u] = IF u = t THEN l ELSE pc[u]
  BY TalkStep
<1>2. \A u \in Tasks : /\ pc'[u] = "free" <=> pc[u] = "free"
                       /\ pc'[u] = "start" <=> pc[u] = "start"
  BY <1>1
<1>3. HeapInv'
  <2>1. \A a \in Cells : heap[a] # NoClient => ~New(heap[a])'
    <3> SUFFICES ASSUME NEW a \in Cells, heap[a] # NoClient
                 PROVE  ~New(heap[a])'
      OBVIOUS
    <3>1. PICK d \in Clients : d = heap[a] /\ ~New(d)
      BY DEF ThreadInv, HeapInv
    <3>2. heap'[a] = d /\ ~New(d)'
      BY <1>1, <3>1
    <3> QED  BY <3>2 DEF New, Waiting
  <2>2. \A a \in Cells : heap[a] # NoClient /\ (\A u \in Tasks : conn[u] # heap[a])
                         => told'[heap[a]] = 0
    BY <1>1 DEF ThreadInv, HeapInv
  <2> QED  BY <1>1, <2>1, <2>2 DEF ThreadInv, HeapInv
<1>4. ReadyInv'
  BY <1>1, <1>2 DEF ThreadInv, ReadyInv
<1>5. NextInv'
  BY <1>1, <1>2 DEF ThreadInv, NextInv, FirstMade
<1> QED  BY <1>1, <1>3, <1>4, <1>5 DEF ThreadInv

LEMMA ThreadedStep ==
    ASSUME TalkInv, ThreadInv, Threaded!Next
    PROVE  TalkInv' /\ ThreadInv'
<1>1. CASE \E how \in {"interrupted", "crashed"} : Threaded!End(how)
  <2>1. PICK how \in {"interrupted", "crashed"} :
          MainEnds(how, Tasks, {main}) /\ UNCHANGED heap
    BY <1>1, SameThreaded DEF Threaded!End
  <2>2. /\ TalkInv' /\ UNCHANGED <<cur, conn, told>> /\ mainpc' = "ended"
        /\ \A d \in Clients : New(d)' => New(d)
        /\ \A t \in Tasks : pc'[t] = pc[t] \/ (pc[t] # "free" /\ pc'[t] = "ended")
    BY <2>1, EndStep
  <2> QED  BY <2>1, <2>2, ThreadKept
<1>2. CASE Environment /\ UNCHANGED heap
  <2>1. PICK c \in Clients : Connect(c) \/ Answer(c) \/ HangUp(c) \/ Reset(c)
    BY <1>2 DEF Environment
  <2>2. /\ TalkInv' /\ UNCHANGED <<pc, conn, told, cur, mainpc>>
        /\ \A d \in Clients : New(d)' => New(d)
    BY <2>1, ClientStep
  <2> QED  BY <1>2, <2>2, ThreadKept
<1>3. Threaded!Main => \/ Threaded!AcceptClient \/ Threaded!make_thread
                       \/ \E how \in {"interrupted", "crashed"} : Threaded!End(how)
  BY DEF Threaded!Main, Threaded!make_thread_fails
<1>4. ASSUME NEW t \in Tasks, Threaded!Task(t)
      PROVE  \/ Threaded!ReadArgument(t) \/ (Talk(t) /\ UNCHANGED heap) \/ Threaded!Close(t)
             \/ \E how \in {"interrupted", "crashed"} : Threaded!End(how)
  BY <1>4, SameThreaded DEF Threaded!Task
<1>5. CASE Threaded!Main
  BY <1>1, <1>3, <1>5, ThreadedAccepts, ThreadedMakes
<1>6. CASE \E t \in Tasks : Threaded!Task(t)
  BY <1>1, <1>4, <1>6, ThreadedReads, ThreadedTalks, ThreadedCloses
<1> QED
  BY <1>1, <1>2, <1>5, <1>6, SameThreaded DEF Threaded!Next, Threaded!Interrupt

-----------------------------------------------------------------------------
(* All three. *)

LEMMA IkkpStarts ==
    ASSUME Init
    PROVE  IkkpInv
<1>1. TalkInit
  BY SameThreaded DEF Init, Threaded!Init
<1>2. TalkInv
  <2>1. TalkTypeOK
    BY <1>1 DEF TalkInit, TalkTypeOK, Labels, main
  <2>2. QueueInv /\ \A c \in Clients : ~Waiting(c)
    BY <1>1 DEF TalkInit, QueueInv, Waiting
  <2>3. LineInv /\ Distinct
    BY <1>1, HeardLabels DEF TalkInit, LineInv, Distinct
  <2>4. \A c \in Clients : inbox[c] <= sent[c] /\ Untouched(c)
    BY <1>1, TalkAssumption DEF TalkInit, Untouched
  <2> QED  BY <2>1, <2>2, <2>3, <2>4 DEF TalkInv
<1>3. FirstMade(0)
  BY <1>1, TalkAssumption DEF TalkInit, FirstMade, Tasks
<1>4. 0 \in 0..MaxTasks
  BY TalkAssumption
<1>5. SoloInv /\ ForkInv
  BY <1>1, <1>3, <1>4 DEF TalkInit, SoloInv, ForkInv, StartInv, CurInv
<1>6. ASSUME server = "thread"
      PROVE  ThreadInv
  <2>1. heap = [a \in Cells |-> NoClient]
    BY <1>6 DEF Init, Threaded!Init, Cells
  <2>2. HeapInv
    BY <1>1, <2>1 DEF TalkInit, HeapInv
  <2>3. ReadyInv /\ NextInv
    BY <1>1, <1>3, <1>4 DEF TalkInit, ReadyInv, NextInv
  <2> QED  BY <2>2, <2>3 DEF ThreadInv
<1> QED  BY <1>2, <1>5, <1>6 DEF IkkpInv

LEMMA IkkpSteps ==
    ASSUME IkkpInv, [Next]_vars
    PROVE  IkkpInv'
<1>1. CASE Next
  <2>1. server' = server
    BY <1>1 DEF Next
  <2>2. CASE server = "iterative"
    BY <1>1, <2>1, <2>2, IterativeStep DEF Next, IkkpInv
  <2>3. CASE server = "fork"
    BY <1>1, <2>1, <2>3, ForkingStep DEF Next, IkkpInv
  <2>4. CASE server = "thread"
    BY <1>1, <2>1, <2>4, ThreadedStep DEF Next, IkkpInv
  <2> QED  BY <1>1, <2>2, <2>3, <2>4 DEF Next
<1>2. CASE UNCHANGED vars
  <2>1. UNCHANGED <<server, heap, up, listening, queue, cur, mainpc, peer, sent, inbox, told,
                    held, pc, conn>>
    BY <1>2 DEF vars, clientvars, mainvars, taskvars
  <2>2. TalkInv => TalkInv'
    BY <2>1 DEF TalkInv, TalkTypeOK, QueueInv, LineInv, Distinct, New, Waiting, Untouched
  <2>3. (SoloInv => SoloInv') /\ (ForkInv => ForkInv')
    BY <2>1 DEF SoloInv, ForkInv, FirstMade, StartInv, CurInv, New, Waiting, Untouched
  <2>4. ThreadInv => ThreadInv'
    BY <2>1 DEF ThreadInv, HeapInv, ReadyInv, NextInv, FirstMade, New, Waiting
  <2> QED  BY <2>1, <2>2, <2>3, <2>4 DEF IkkpInv
<1> QED  BY <1>1, <1>2

\* The servers' types, and: two tasks that talk never talk with the same
\* client, whichever server runs and whatever its clients do.
THEOREM OneTaskCorrect == FairSpec => []OneTaskPerClient
<1>1. Init => IkkpInv
  BY IkkpStarts
<1>2. IkkpInv /\ [Next]_vars => IkkpInv'
  BY IkkpSteps
<1>3. IkkpInv => OneTaskPerClient
  BY DEF IkkpInv, TalkInv, ThreadInv, HeapInv, Cells, Distinct, OneTaskPerClient, TypeOK,
         OwnClient
<1> QED  BY <1>1, <1>2, <1>3, PTL DEF FairSpec
====
