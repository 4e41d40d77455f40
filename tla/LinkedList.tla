---- MODULE LinkedList ----
(***************************************************************************)
(* What the list programs have in common (exercises/ex06, ex07/list2.c,    *)
(* exercises and solutions/ex13): nodes on the heap, linked by pointers,   *)
(* and one list at a time that is called on, one call after the other.     *)
(*                                                                         *)
(* A call without a loop is one action.  A loop is one action for each     *)
(* round, on the locals of the function.  before is the list as it was     *)
(* when the call began: the programs do not have it, the properties do.    *)
(* What free leaves in a node is not modelled: no step may look at it.     *)
(***************************************************************************)
EXTENDS Integers, Sequences, FiniteSets, SequencesExt

CONSTANTS Nodes,    \* the addresses malloc can return: no program checks for NULL
          Vals,     \* the values stored
          NULL

ListAssumption ==
    /\ IsFiniteSet(Nodes) /\ NULL \notin Nodes
    /\ Vals \subseteq Int

VARIABLES
    cell,     \* the node at each address
    live,     \* the addresses malloc returned and free has not taken back
    list,     \* *list, the pointer to the first node
    pc,       \* "ready" between two calls
    call,     \* the last call: [op, val, index]
    prev, node, next, i,  \* the locals of the call in progress
    ret,      \* what the last call returned, or the count so far
    before    \* the values in the list when the call began

heapvars == <<cell, live, list>>
locals == <<prev, node, next, i>>
vars == <<cell, live, list, pc, call, prev, node, next, i, ret, before>>

Blank == [val |-> 0, next |-> NULL]
NoCall == [op |-> "none", val |-> 0, index |-> 0]

-----------------------------------------------------------------------------
\* The pointers that a walk from h meets, for one step more than there are
\* nodes: a walk along a cycle ends here too.
Walk(h) ==
    LET p[k \in 0..Cardinality(Nodes)] ==
            IF k = 0 THEN h ELSE IF p[k - 1] = NULL THEN NULL ELSE cell[p[k - 1]].next
    IN p

Reach(h) == {Walk(h)[k] : k \in 0..Cardinality(Nodes)} \ {NULL}

\* The walk ends at a NULL, so the loops over the list end.
Terminated(h) == Walk(h)[Cardinality(Nodes)] = NULL

\* What print_list prints.
Contents(h) == [k \in 1..Cardinality(Reach(h)) |-> cell[Walk(h)[k - 1]].val]

\* make_node at an address malloc has free.
make_node(a, v, n) ==
    /\ a \in Nodes \ live
    /\ live' = live \cup {a}
    /\ cell' = [cell EXCEPT ![a] = [val |-> v, next |-> n]]

\* Bound: a call that may make a node is made only while an address is free.
Room == live # Nodes

free(a) == live' = live \ {a} /\ cell' = [cell EXCEPT ![a] = Blank]

\* Mutated form: the head is freed and the list still starts there.
TakeHead_Dangling == free(list) /\ UNCHANGED list

\* The head leaves the list.
TakeHead == free(list) /\ list' = cell[list].next

push(v) == \E a \in Nodes : make_node(a, v, list) /\ list' = a

-----------------------------------------------------------------------------
\* A call begins; only one runs at a time.
Call(name, v, k) ==
    /\ pc = "ready"
    /\ call' = [op |-> name, val |-> v, index |-> k]
    /\ before' = Contents(list)

\* A call that is one action.
At(name, v, k, result) == Call(name, v, k) /\ ret' = result /\ UNCHANGED <<pc, locals>>

\* A call with a loop enters it.
Enter(name, v, k) == Call(name, v, k) /\ pc' = name

Loop == UNCHANGED <<pc, call, before>>

\* The function returns and its locals are gone.
Return(result) ==
    /\ pc' = "ready"
    /\ ret' = result
    /\ prev' = NULL /\ node' = NULL /\ next' = NULL /\ i' = 0
    /\ UNCHANGED <<call, before>>

\* The nodes main makes one by one before its calls: somewhere on the heap.
Built(s) ==
    \E addr \in [1..Len(s) -> Nodes] :
        /\ IsInjective(addr)
        /\ LET at(k) == IF k \in DOMAIN addr THEN addr[k] ELSE NULL
               Made(k) == [val |-> s[k], next |-> at(k + 1)]
           IN /\ live = Range(addr)
              /\ list = at(1)
              /\ cell = [a \in Nodes |-> IF a \in live
                                        THEN Made(CHOOSE k \in DOMAIN s : addr[k] = a) ELSE Blank]
        /\ pc = "ready" /\ call = NoCall /\ ret = 0 /\ before = s
        /\ prev = NULL /\ node = NULL /\ next = NULL /\ i = 0

-----------------------------------------------------------------------------
InUse == Reach(list) \cup Reach(prev) \cup Reach(node) \cup Reach(next)

\* What the documentation of each function says the list and the result are.
Promise(s, r) ==
    LET v == call.val IN
    CASE call.op = "pop" -> IF before = <<>> THEN s = <<>> /\ r = -1
                            ELSE s = Tail(before) /\ r = Head(before)
      [] call.op = "push" -> s = <<v>> \o before
      [] call.op = "reverse" -> s = Reverse(before)
      [] OTHER -> TRUE
====
