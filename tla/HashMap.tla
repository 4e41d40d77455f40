---- MODULE HashMap ----
(***************************************************************************)
(* exercises/ex07/hash.c: a hash table with chaining that doubles its      *)
(* buckets when a new key would make more keys than buckets, and halves    *)
(* them when a removal leaves fewer than one key for four buckets.         *)
(*                                                                         *)
(* A key is a Hashable with its hash function: Hash[k] is hash_hashable of *)
(* it, equal keys are equal values.  hash_int and hash_string (of chars    *)
(* beyond ASCII) can return a negative number, and the remainder of C then *)
(* is negative too.  Calls leave the defined behaviour of C in two ways:   *)
(* any call on a map without buckets divides by zero, and a negative       *)
(* bucket, of the call's key or of one a resize moves, lies before the     *)
(* lists.  The model ends there and remembers why.                         *)
(*                                                                         *)
(* map_remove reads the next pointer of the node it has just freed; the    *)
(* C library's free leaves that field as it was, so the walk goes on.      *)
(***************************************************************************)
EXTENDS Integers, Sequences, FiniteSets

CONSTANTS Keys, Values,
          Hash,        \* hash_hashable of each key
          Buckets,     \* make_map's argument
          NULL         \* the null pointer

ASSUME MapAssumption ==
    /\ Hash \in [Keys -> Int]
    /\ Buckets \in Nat \ {0}
    /\ NULL \notin Values

VARIABLES
    n,         \* map->n
    size,      \* map->size
    lists,     \* map->lists: the chain of each bucket, as a sequence of nodes
    answer,    \* what the last map_lookup returned
    ended      \* why there are no more calls: "no" while there can be

vars == <<n, size, lists, answer, ended>>

Node == [key : Keys, value : Values]

Init ==
    /\ n = Buckets
    /\ size = 0
    /\ lists = [b \in 0..(n - 1) |-> <<>>]
    /\ answer = NULL
    /\ ended = "no"

-----------------------------------------------------------------------------
\* hash_hashable(key) % n: the remainder has the sign of the hash.
BucketOf(k, m) == IF Hash[k] >= 0 THEN Hash[k] % m ELSE -((-Hash[k]) % m)

\* The call computes a bucket it can index lists with.
Defined(k) == n > 0 /\ BucketOf(k, n) >= 0

Chain(k) == lists[BucketOf(k, n)]
Has(k) == \E j \in 1..Len(Chain(k)) : Chain(k)[j].key = k

\* get, of a key the map holds: where in the chain the first node with it is.
get(k) == CHOOSE j \in 1..Len(Chain(k)) :
              Chain(k)[j].key = k /\ \A i \in 1..(j - 1) : Chain(k)[i].key # k

prepend(k, v, list) == <<[key |-> k, value |-> v]>> \o list

\* Mutated form: the nodes stay in the bucket they were in.
map_resize_NoRehash(ls, m) ==
    [b \in 0..(m - 1) |-> IF b \in DOMAIN ls THEN ls[b] ELSE <<>>]

\* map_resize's storage: the nodes of m lists, bucket by bucket.
Storage(ls, m) ==
    LET upto[b \in 0..m] == IF b = 0 THEN <<>> ELSE upto[b - 1] \o ls[b - 1]
    IN upto[m]

\* The second loop of map_resize: m new lists, onto which the nodes of storage
\* are prepended from the last one, each in the bucket it has among m.
Spread(storage, m) ==
    LET moved[i \in 0..Len(storage)] ==
            IF i = 0 THEN [b \in 0..(m - 1) |-> <<>>]
            ELSE LET curr == storage[Len(storage) - i + 1]
                 IN [moved[i - 1] EXCEPT ![BucketOf(curr.key, m)] =
                        prepend(curr.key, curr.value, @)]
    IN moved[Len(storage)]

map_resize(ls, m) == Spread(Storage(ls, n), m)

\* The load factors beyond which the map changes its number of buckets.
TooFull(keys) == keys > n
TooSparse(keys) == 4 * keys < n

-----------------------------------------------------------------------------
\* A call with a key for which the bucket is undefined.
Undefined(k) ==
    /\ ended = "no"
    /\ ~Defined(k)
    /\ ended' = IF n = 0 THEN "division by zero" ELSE "outside lists"
    /\ UNCHANGED <<n, size, lists, answer>>

\* map_add of a key the map holds: its node gets the new value.
AddExisting(k, v) ==
    /\ ended = "no" /\ Defined(k) /\ Has(k)
    /\ lists' = [lists EXCEPT ![BucketOf(k, n)][get(k)].value = v]
    /\ UNCHANGED <<n, size, answer, ended>>

\* The number of buckets after map_add of a new key, and after map_remove.
SizeToAdd == IF TooFull(size + 1) THEN 2 * n ELSE n
SizeToRemove == IF TooSparse(size - 1) THEN n \div 2 ELSE n

\* The keys the map holds.
Stored == {x \in Keys : Defined(x) /\ Has(x)}

\* Every key of a set has a bucket among m.
AllPlaceable(keys, m) == \A x \in keys : BucketOf(x, m) >= 0

\* map_resize, or map_add after it, meets a key whose new bucket is negative.
ResizeOutside(k) ==
    /\ ended = "no" /\ Defined(k)
    /\ IF Has(k) THEN ~AllPlaceable(Stored \ {k}, SizeToRemove)
                 ELSE ~AllPlaceable(Stored \cup {k}, SizeToAdd)
    /\ ended' = "outside lists"
    /\ UNCHANGED <<n, size, lists, answer>>

\* map_add of a new key, after doubling the buckets if the keys outnumber them.
AddNew(k, v) ==
    /\ ended = "no" /\ Defined(k) /\ ~Has(k)
    /\ LET m == SizeToAdd
           resized == IF m # n THEN map_resize(lists, m) ELSE lists
       IN /\ AllPlaceable(Stored \cup {k}, m)
          /\ n' = m
          /\ lists' = [resized EXCEPT ![BucketOf(k, m)] = prepend(k, v, @)]
    /\ size' = size + 1
    /\ UNCHANGED <<answer, ended>>

\* Mutated form: the chain is cut before the removed node.
Unlink_Cut(k) == SubSeq(Chain(k), 1, get(k) - 1)

\* The chain of k after the walk of map_remove, which unlinks (and frees) the
\* nodes with the key.
Unlink(k) ==
    LET walked[j \in 0..Len(Chain(k))] ==
            IF j = 0 THEN <<>>
            ELSE IF Chain(k)[j].key = k THEN walked[j - 1]
            ELSE Append(walked[j - 1], Chain(k)[j])
    IN walked[Len(Chain(k))]

\* map_remove of a key the map holds; then the buckets are halved if the keys
\* are fewer than a quarter of them.
RemovePresent(k) ==
    /\ ended = "no" /\ Defined(k) /\ Has(k)
    /\ LET kept == [lists EXCEPT ![BucketOf(k, n)] = Unlink(k)]
           m == SizeToRemove
       IN /\ AllPlaceable(Stored \ {k}, m)
          /\ n' = m
          /\ lists' = IF m # n THEN map_resize(kept, m) ELSE kept
    /\ size' = size - 1
    /\ UNCHANGED <<answer, ended>>

\* map_remove of a key the map does not hold.
RemoveAbsent(k) ==
    /\ ended = "no" /\ Defined(k) /\ ~Has(k)
    /\ UNCHANGED vars

\* map_lookup: the value of the first node with the key, or NULL.
Lookup(k) ==
    /\ ended = "no" /\ Defined(k)
    /\ answer' = IF Has(k) THEN Chain(k)[get(k)].value ELSE NULL
    /\ UNCHANGED <<n, size, lists, ended>>

\* free_map.
Free ==
    /\ ended = "no"
    /\ ended' = "freed"
    /\ UNCHANGED <<n, size, lists, answer>>

Ended == ended # "no" /\ UNCHANGED vars

Next ==
    \/ \E k \in Keys :
        \/ Undefined(k) \/ ResizeOutside(k) \/ RemovePresent(k) \/ RemoveAbsent(k) \/ Lookup(k)
        \/ \E v \in Values : AddExisting(k, v) \/ AddNew(k, v)
    \/ Free
    \/ Ended

Spec == Init /\ [][Next]_vars

-----------------------------------------------------------------------------
\* Type invariant.
TypeOK ==
    /\ n \in Nat
    /\ size \in Nat
    /\ lists \in [0..(n - 1) -> Seq(Node)]
    /\ answer \in Values \cup {NULL}
    /\ ended \in {"no", "division by zero", "outside lists", "freed"}

Positions == UNION {{b} \X (1..Len(lists[b])) : b \in 0..(n - 1)}
NodeAt(p) == lists[p[1]][p[2]]

\* Every node is in the bucket of its key, no key has two nodes, and size
\* counts them: the storage that map_resize allocates holds them all.
WellFormed ==
    /\ \A p \in Positions : BucketOf(NodeAt(p).key, n) = p[1]
    /\ \A p, r \in Positions : NodeAt(p).key = NodeAt(r).key => p = r
    /\ Cardinality(Positions) = size

\* There are never more keys than buckets (RESIZE_UPPER_BOUND), and a map
\* that lost its last bucket has lost no key with it.
LoadBound == size <= n

\* The map answers as a dictionary, across growing, shrinking and rehashing,
\* until a call whose bucket is undefined ends it.
Abstract == INSTANCE Dictionary WITH
    dict <- [k \in Keys |->
                IF Defined(k) /\ Has(k) THEN Chain(k)[get(k)].value ELSE NULL]

ImplementsDictionary == Abstract!Spec

\* "Looks up a key and returns the corresponding value, or NULL": with keys of
\* non-negative hash no call fails.
CallsDefined == ended # "division by zero"
====
