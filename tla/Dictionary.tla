---- MODULE Dictionary ----
(***************************************************************************)
(* What exercises/ex07/hash.c promises its callers: a map from keys to     *)
(* values.  answer is what the last lookup returned.                       *)
(***************************************************************************)
CONSTANTS Keys, Values,
          NULL        \* what a lookup of an absent key returns

VARIABLES dict, answer

vars == <<dict, answer>>

Init == dict = [k \in Keys |-> NULL] /\ answer = NULL

Add(k, v) == dict' = [dict EXCEPT ![k] = v] /\ UNCHANGED answer
Remove(k) == dict' = [dict EXCEPT ![k] = NULL] /\ UNCHANGED answer
Lookup(k) == answer' = dict[k] /\ UNCHANGED dict

Next == \E k \in Keys : \/ \E v \in Values : Add(k, v)
                        \/ Remove(k)
                        \/ Lookup(k)

Spec == Init /\ [][Next]_vars
====
