---- MODULE ListEx06 ----
(***************************************************************************)
(* exercises/ex06/list.c.  remove_by_value goes through the whole list,    *)
(* counts every node with the value, frees none, and takes the node it has *)
(* just unlinked for the predecessor of the next one.                      *)
(***************************************************************************)
EXTENDS LinkedList

PopHead == list # NULL /\ At("pop", 0, 0, cell[list].val) /\ TakeHead
PopEmpty == list = NULL /\ At("pop", 0, 0, -1) /\ UNCHANGED heapvars
Push(v) == At("push", v, 0, ret) /\ push(v)

RemoveStart(v) ==
    /\ Enter("remove_by_value", v, 0)
    /\ prev' = NULL /\ node' = list /\ ret' = 0
    /\ UNCHANGED <<heapvars, next, i>>

\* curr is the head: there is no predecessor yet.
UnlinkHead ==
    /\ pc = "remove_by_value" /\ node # NULL /\ prev = NULL
    /\ cell[node].val = call.val
    /\ list' = cell[node].next
    /\ ret' = ret + 1
    /\ prev' = node /\ node' = cell[node].next
    /\ Loop /\ UNCHANGED <<cell, live, next, i>>

UnlinkLater ==
    /\ pc = "remove_by_value" /\ node # NULL /\ prev # NULL
    /\ cell[node].val = call.val
    /\ cell' = [cell EXCEPT ![prev].next = cell[node].next]
    /\ ret' = ret + 1
    /\ prev' = node /\ node' = cell[node].next
    /\ Loop /\ UNCHANGED <<live, list, next, i>>

RemovePass ==
    /\ pc = "remove_by_value" /\ node # NULL
    /\ cell[node].val # call.val
    /\ prev' = node /\ node' = cell[node].next
    /\ Loop /\ UNCHANGED <<heapvars, ret, next, i>>

RemoveEnd == pc = "remove_by_value" /\ node = NULL /\ Return(ret) /\ UNCHANGED heapvars

ReverseStart ==
    /\ Enter("reverse", 0, 0)
    /\ prev' = NULL /\ node' = list
    /\ UNCHANGED <<heapvars, ret, next, i>>

\* Mutated form: curr keeps its successor.
ReverseStep_NoLink ==
    /\ pc = "reverse" /\ node # NULL
    /\ prev' = node /\ node' = cell[node].next
    /\ Loop /\ UNCHANGED <<heapvars, ret, next, i>>

ReverseStep ==
    /\ pc = "reverse" /\ node # NULL
    /\ cell' = [cell EXCEPT ![node].next = prev]
    /\ prev' = node /\ node' = cell[node].next
    /\ Loop /\ UNCHANGED <<live, list, ret, next, i>>

ReverseEnd ==
    /\ pc = "reverse" /\ node = NULL
    /\ list' = prev /\ Return(ret) /\ UNCHANGED <<cell, live>>

Init == Built(<<1, 2, 3, 4>>)

Next ==
    \/ PopHead \/ PopEmpty
    \/ \E v \in Vals : Push(v) \/ RemoveStart(v)
    \/ UnlinkHead \/ UnlinkLater \/ RemovePass \/ RemoveEnd
    \/ ReverseStart \/ ReverseStep \/ ReverseEnd

-----------------------------------------------------------------------------
\* Two neighbouring nodes have the value.
Neighbours(s, v) == \E k \in 1..(Len(s) - 1) : s[k] = v /\ s[k + 1] = v

\* remove_by_value "removes the first element with the given value" where the
\* list has no other, and returns the "number of nodes removed" where no two
\* neighbours have it.
CallCorrect ==
    LET v == call.val
        now == Contents(list)
    IN (pc = "ready") =>
        IF call.op = "remove_by_value"
            THEN /\ Len(SelectSeq(before, LAMBDA x : x = v)) <= 1 =>
                        now = SelectSeq(before, LAMBDA x : x # v)
                 /\ ~Neighbours(before, v) => ret = Len(before) - Len(now)
            ELSE Promise(now, ret)

\* list.c:85 of remove_by_value: "returns: number of nodes removed".
RemovedCounted ==
    pc = "ready" /\ call.op = "remove_by_value" => ret = Len(before) - Len(Contents(list))
====
