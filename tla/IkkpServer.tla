---- MODULE IkkpServer ----
(***************************************************************************)
(* exercises/ex11/ikkp-server.c: main holds each conversation itself, in   *)
(* slot 1, and accepts the next client when it is over.                    *)
(***************************************************************************)
EXTENDS IkkpTalk

\* open_client_socket, then the first say.
AcceptClient ==
    /\ Accept("talk")
    /\ pc' = [pc EXCEPT ![1] = "say1"]
    /\ conn' = [conn EXCEPT ![1] = Head(queue)]

Close ==
    /\ pc[1] = "close"
    /\ held' = [held EXCEPT ![cur] = {}]
    /\ Goto(1, "free")
    /\ conn' = [conn EXCEPT ![1] = NoClient]
    /\ mainpc' = "accept"
    /\ UNCHANGED <<up, listening, queue, cur, clientvars>>

\* error, or a signal: the process ends with its conversation.
End(how) == MainEnds(how, Tasks, {main})

Interrupt == up = "up" /\ End("interrupted")

Main == AcceptClient \/ (AcceptFails /\ End("crashed"))
Task(t) == t = 1 /\ (Talk(t) \/ Close \/ (Fails(t) /\ End("crashed")))

Init == TalkInit
Next == Main \/ Interrupt \/ Environment \/ \E t \in Tasks : Task(t)
====
