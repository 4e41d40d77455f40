---- MODULE IkkpServerFork ----
(***************************************************************************)
(* exercises/ex11/ikkp_server_fork.c: a child process holds each           *)
(* conversation, with its own copies of main's descriptors.                *)
(***************************************************************************)
EXTENDS IkkpTalk

AcceptClient == Accept("start") /\ UNCHANGED <<pc, conn>>

\* The child gets a copy of every descriptor main holds.
Fork ==
    /\ mainpc = "start"
    /\ Made < MaxTasks
    /\ LET t == Made + 1
       IN /\ Goto(t, "start")
          /\ conn' = [conn EXCEPT ![t] = cur]
          /\ held' = [c \in Clients |-> IF main \in held[c] THEN held[c] \cup {t} ELSE held[c]]
          /\ listening' = listening \cup {t}
    /\ mainpc' = "close"
    /\ UNCHANGED <<up, queue, cur, clientvars>>

\* fork returns -1, which main does not tell from a child's number: it hangs
\* up on the client without a word.
ForkFails ==
    /\ mainpc = "start"
    /\ Made = MaxTasks
    /\ mainpc' = "close"
    /\ UNCHANGED <<up, listening, queue, cur, taskvars, clientvars>>

\* Mutated form: main keeps its copy of the connection.
ParentClose_Forgotten ==
    /\ mainpc = "close"
    /\ mainpc' = "accept"
    /\ UNCHANGED <<up, listening, queue, cur, held, pc, conn, clientvars>>

ParentClose ==
    /\ mainpc = "close"
    /\ held' = [held EXCEPT ![cur] = @ \ {main}]
    /\ mainpc' = "accept"
    /\ UNCHANGED <<up, listening, queue, cur, pc, conn, clientvars>>

\* Mutated form: the child keeps listener_d.
CloseListener_Forgotten(t) ==
    /\ pc[t] = "start"
    /\ Goto(t, "say1")
    /\ UNCHANGED <<up, cur, mainpc, conn, held, listening, queue, clientvars>>

\* The child needs only the connection; the last copy of listener_d takes the
\* waiting clients with it.
CloseListener(t) ==
    /\ pc[t] = "start"
    /\ listening' = listening \ {t}
    /\ queue' = IF listening = {t} THEN <<>> ELSE queue
    /\ Goto(t, "say1")
    /\ UNCHANGED <<up, cur, mainpc, conn, held, clientvars>>

Close(t) ==
    /\ pc[t] = "close"
    /\ held' = [held EXCEPT ![conn[t]] = @ \ {t}]
    /\ Goto(t, "exit")
    /\ UNCHANGED <<conn, mainvars, clientvars>>

\* exit(0), or the end of a child whose client has reset the connection.
Exit(t) ==
    /\ pc[t] = "exit" \/ Fails(t)
    /\ Release({t})
    /\ Goto(t, "ended")
    /\ UNCHANGED <<up, cur, mainpc, conn, clientvars>>

Dies == AcceptFails /\ MainEnds("crashed", {}, {main})

\* Ctrl-C reaches main and its children, a signal to main alone does not.
Interrupt ==
    /\ up = "up"
    /\ \E hit \in {{}, Tasks} : MainEnds("interrupted", hit, {main} \cup hit)

Main == AcceptClient \/ Fork \/ ForkFails \/ ParentClose \/ Dies
Task(t) == CloseListener(t) \/ Talk(t) \/ Close(t) \/ Exit(t)

Init == TalkInit
Next == Main \/ Interrupt \/ Environment \/ \E t \in Tasks : Task(t)
====
