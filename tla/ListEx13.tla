---- MODULE ListEx13 ----
(***************************************************************************)
(* exercises/ex13/list_errors.c, and what solutions/ex13/list_errors_soln.c*)
(* does in its place: free_list instead of popping until -1 comes back.    *)
(***************************************************************************)
EXTENDS LinkedList

CONSTANT Indices   \* the arguments of insert_by_index: any int, below zero too

PopHead == list # NULL /\ At("pop", 0, 0, cell[list].val) /\ TakeHead
PopEmpty == list = NULL /\ At("pop", 0, 0, -1) /\ UNCHANGED heapvars
Push(v) == At("push", v, 0, ret) /\ push(v)

\* The value is in the first node, which pop removes.
RemoveHead(v) ==
    /\ list # NULL /\ cell[list].val = v
    /\ At("remove_by_value", v, 0, 1)
    /\ TakeHead

RemoveNone(v) == list = NULL /\ At("remove_by_value", v, 0, 0) /\ UNCHANGED heapvars

RemoveStart(v) ==
    /\ list # NULL /\ cell[list].val # v
    /\ Enter("remove_by_value", v, 0)
    /\ node' = list
    /\ UNCHANGED <<heapvars, ret, prev, next, i>>

Victim == cell[node].next

\* Mutated form: the successor of the victim is not linked.
RemoveVictim_Cut ==
    /\ pc = "remove_by_value" /\ Victim # NULL /\ cell[Victim].val = call.val
    /\ live' = live \ {Victim}
    /\ cell' = [cell EXCEPT ![node].next = NULL, ![Victim] = Blank]
    /\ Return(1) /\ UNCHANGED list

RemoveVictim ==
    /\ pc = "remove_by_value" /\ Victim # NULL /\ cell[Victim].val = call.val
    /\ live' = live \ {Victim}
    /\ cell' = [cell EXCEPT ![node].next = cell[Victim].next, ![Victim] = Blank]
    /\ Return(1) /\ UNCHANGED list

RemovePass ==
    /\ pc = "remove_by_value" /\ Victim # NULL /\ cell[Victim].val # call.val
    /\ node' = Victim
    /\ Loop /\ UNCHANGED <<heapvars, ret, prev, next, i>>

RemoveFails ==
    pc = "remove_by_value" /\ Victim = NULL /\ Return(0) /\ UNCHANGED heapvars

RemoveByValue == RemoveVictim \/ RemovePass \/ RemoveFails

-----------------------------------------------------------------------------
\* Fewer than two nodes: nothing to do.
ReverseShort ==
    /\ list # NULL => cell[list].next = NULL
    /\ At("reverse", 0, 0, ret) /\ UNCHANGED heapvars

ReverseStart ==
    /\ list # NULL /\ cell[list].next # NULL
    /\ Enter("reverse", 0, 0)
    /\ node' = list /\ next' = cell[list].next
    /\ cell' = [cell EXCEPT ![list].next = NULL]
    /\ UNCHANGED <<live, list, ret, prev, i>>

ReverseStep ==
    /\ pc = "reverse" /\ next # NULL
    /\ cell' = [cell EXCEPT ![next].next = node]
    /\ node' = next /\ next' = cell[next].next
    /\ Loop /\ UNCHANGED <<live, list, ret, prev, i>>

ReverseEnd ==
    /\ pc = "reverse" /\ next = NULL
    /\ list' = node /\ Return(ret) /\ UNCHANGED <<cell, live>>

reverse == ReverseShort \/ ReverseStart \/ ReverseStep \/ ReverseEnd

-----------------------------------------------------------------------------
InsertFirst(v) == At("insert_by_index", v, 0, 0) /\ push(v)

InsertStart(v, k) ==
    /\ k # 0 /\ Room
    /\ Enter("insert_by_index", v, k)
    /\ node' = list /\ i' = 0
    /\ UNCHANGED <<heapvars, ret, prev, next>>

InsertStep ==
    /\ pc = "insert_by_index" /\ i < call.index - 1 /\ node # NULL
    /\ node' = cell[node].next /\ i' = i + 1
    /\ Loop /\ UNCHANGED <<heapvars, ret, prev, next>>

InsertOutside ==
    pc = "insert_by_index" /\ node = NULL /\ Return(-1) /\ UNCHANGED heapvars

\* The new node follows the one the loop stopped at, which for a negative
\* index is the first.
InsertAfter ==
    /\ pc = "insert_by_index" /\ i >= call.index - 1 /\ node # NULL
    /\ \E a \in Nodes \ live :
        /\ live' = live \cup {a}
        /\ cell' = [cell EXCEPT ![a] = [val |-> call.val, next |-> cell[node].next],
                                ![node].next = a]
    /\ Return(0) /\ UNCHANGED list

\* make_something, on an empty list: node1 is made, popped and pushed again.
make_something ==
    /\ list = NULL
    /\ At("make_something", 0, 0, ret)
    /\ \E n1, n2, n3, n4 \in Nodes \ live : \* n4 may be the address of n1 again
        /\ Cardinality({n1, n2, n3}) = 3 /\ n4 \notin {n2, n3}
        /\ live' = live \cup {n2, n3, n4}
        /\ cell' = [cell EXCEPT ![n2] = [val |-> 2, next |-> NULL],
                                ![n4] = [val |-> 1, next |-> n2],
                                ![n3] = [val |-> 3, next |-> n4]]
        /\ list' = n3

-----------------------------------------------------------------------------
\* while(pop(&test_list) != -1) r++
DrainStart == Enter("drain", 0, 0) /\ ret' = 0 /\ UNCHANGED <<heapvars, locals>>

DrainStep ==
    /\ pc = "drain" /\ list # NULL /\ cell[list].val # -1
    /\ TakeHead /\ ret' = ret + 1
    /\ Loop /\ UNCHANGED locals

DrainStops ==
    /\ pc = "drain"
    /\ \/ list = NULL /\ UNCHANGED heapvars
       \/ list # NULL /\ cell[list].val = -1 /\ TakeHead
    /\ Return(ret)

\* free_list of the solution: each node is freed after the call for the rest
\* of the list.  main does not look at the pointer again.
FreeList ==
    /\ At("free_list", 0, 0, ret)
    /\ live' = live \ Reach(list)
    /\ cell' = [a \in Nodes |-> IF a \in Reach(list) THEN Blank ELSE cell[a]]
    /\ list' = NULL

Init == \E s \in {<<>>, <<2, 4, 6>>} : Built(s)

Next ==
    \/ PopHead \/ PopEmpty \/ RemoveByValue \/ reverse
    \/ InsertStep \/ InsertOutside \/ InsertAfter \/ make_something
    \/ DrainStart \/ DrainStep \/ DrainStops \/ FreeList
    \/ \E v \in Vals : \/ Push(v) \/ RemoveHead(v) \/ RemoveNone(v) \/ RemoveStart(v)
                       \/ InsertFirst(v)
                       \/ \E k \in Indices : InsertStart(v, k)

-----------------------------------------------------------------------------
\* "Removes the first element with the given value", "adds a new element to the
\* list before the indexed element" (of the indices from 0 on), and "empty the
\* list" (of one that stores no -1).
CallCorrect ==
    LET v == call.val
        now == Contents(list)
        first == SelectInSeq(before, LAMBDA x : x = v)
    IN (pc = "ready") =>
        CASE call.op = "remove_by_value" ->
                IF first = 0 THEN now = before /\ ret = 0
                ELSE now = RemoveAt(before, first) /\ ret = 1
          [] call.op = "insert_by_index" /\ call.index >= 0 ->
                IF call.index <= Len(before)
                THEN now = InsertAt(before, call.index + 1, v) /\ ret = 0
                ELSE now = before /\ ret = -1
          [] call.op = "drain" /\ -1 \notin Range(before) -> now = <<>> /\ ret = Len(before)
          [] call.op = "make_something" -> now = <<3, 1, 2>>
          [] call.op = "free_list" -> live = {}
          [] OTHER -> Promise(now, ret)

-----------------------------------------------------------------------------
(***************************************************************************)
(* The other list programs.  exercises/ex06/good_list.c only makes and     *)
(* prints a list.  bad_list.c pops with no test of an empty list: main     *)
(* does so once too often.  exercises/ex07/list2.c hands the list over and *)
(* back instead of a pointer to it; its pop is left to be filled in.       *)
(***************************************************************************)
\* bad_list.c's pop: head->next of a NULL head ends the program.
BadPop == list # NULL /\ At("pop", 0, 0, cell[list].val) /\ TakeHead

BadPopCrash ==
    /\ list = NULL
    /\ Call("pop", 0, 0) /\ pc' = "crashed"
    /\ UNCHANGED <<heapvars, locals, ret>>

BadNext == BadPop \/ BadPopCrash
BadInit == Built(<<1, 2>>)

\* good_list.c's main makes the nodes and prints them.
GoodInit == Built(<<1, 2, 3, 4>>)

\* list2.c: list = push(list, value) and list = reverse(list), which takes the
\* same steps as the reverse of list_errors.c.
Push2(v) == At("push", v, 0, ret) /\ push(v)
reverse2 == reverse

\* pop of list2.c: value_p is not written.
Pop2 == At("pop2", 0, 0, ret) /\ UNCHANGED heapvars

Next2 == Pop2 \/ reverse2 \/ \E v \in Vals : Push2(v)
Init2 == Built(<<1, 2, 3>>)

\* What the calls promise, except pop of list2.c, which does nothing yet.
CallCorrect2 ==
    (pc = "ready") =>
        IF call.op = "pop2" THEN Contents(list) = before ELSE Promise(Contents(list), ret)
====
