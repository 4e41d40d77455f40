---- MODULE ContainersProofs ----
(***************************************************************************)
(* Proofs about the hash map, for any keys, values, hashes and number of   *)
(* buckets, and about the linked lists, for any nodes, values and indices. *)
(***************************************************************************)
EXTENDS MCContainers, FiniteSetTheorems, WellFoundedInduction, TLAPS

-----------------------------------------------------------------------------
(***************************************************************************)
(* Induction over the natural numbers, and what follows from it: functions *)
(* defined by recursion exist.                                             *)
(***************************************************************************)
LEMMA Least ==
    ASSUME NEW T \in SUBSET Nat, T # {}
    PROVE  \E m \in T : \A k \in T : m <= k
<1>1. PICK m \in T : \A k \in T : <<k, m>> \notin OpToRel(<, Nat)
  BY NatLessThanWellFounded, WFMin, Zenon
<1>2. \A k \in T : ~(k < m)
  BY <1>1 DEF OpToRel
<1> QED  BY <1>2

LEMMA SetInduction ==
    ASSUME NEW S, 0 \in S, \A k \in Nat : k \in S => k + 1 \in S
    PROVE  \A k \in Nat : k \in S
<1> SUFFICES ASSUME Nat \ S # {} PROVE FALSE
    OBVIOUS
<1>1. PICK m \in Nat \ S : \A k \in Nat \ S : m <= k
  BY Least
<1>2. m # 0 /\ m - 1 \in Nat
  BY <1>1
<1>3. m - 1 \in S
  BY <1>1, <1>2
<1> QED  BY <1>1, <1>2, <1>3

\* The same, up to a bound.
LEMMA BoundedInduction ==
    ASSUME NEW N \in Nat, NEW S, 0 \in S, \A k \in 1..N : k - 1 \in S => k \in S
    PROVE  \A k \in 0..N : k \in S
<1> DEFINE T == {k \in Nat : k <= N => k \in S}
<1>1. 0 \in T
  OBVIOUS
<1>2. \A k \in Nat : k \in T => k + 1 \in T
  <2> SUFFICES ASSUME NEW k \in Nat, k \in T, k + 1 <= N PROVE k + 1 \in S
    OBVIOUS
  <2>1. k \in S /\ k + 1 \in 1..N /\ (k + 1) - 1 = k
    OBVIOUS
  <2> QED  BY <2>1
<1> HIDE DEF T
<1>3. \A k \in Nat : k \in T
  BY <1>1, <1>2, SetInduction
<1> QED  BY <1>3 DEF T

\* step[k] makes a member of S of one; g is what repeating it makes of e.
Steps(step, N, S) == step \in [1..N -> [S -> S]]
Repeats(g, N, S, e, step) ==
    g \in [0..N -> S] /\ g[0] = e /\ \A k \in 1..N : g[k] = step[k][g[k - 1]]

LEMMA RecursionExists ==
    ASSUME NEW S, NEW e \in S, NEW N \in Nat, NEW step, Steps(step, N, S)
    PROVE  \E g : Repeats(g, N, S, e, step)
<1> USE DEF Steps, Repeats
<1> DEFINE Upto(m, g) == g[0] = e /\ \A k \in 1..m : g[k] = step[k][g[k - 1]]
           T == {m \in Nat : \E g \in [0..m -> S] : Upto(m, g)}
<1>1. 0 \in T
  <2>1. [k \in 0..0 |-> e] \in [0..0 -> S] /\ Upto(0, [k \in 0..0 |-> e])
    OBVIOUS
  <2> QED  BY <2>1
<1>2. \A m \in 1..N : m - 1 \in T => m \in T
  <2> SUFFICES ASSUME NEW m \in 1..N, m - 1 \in T PROVE m \in T
    OBVIOUS
  <2>1. PICK g \in [0..(m - 1) -> S] : Upto(m - 1, g)
    OBVIOUS
  <2> DEFINE h == [k \in 0..m |-> IF k = m THEN step[m][g[m - 1]] ELSE g[k]]
  <2>2. g[m - 1] \in S /\ step[m][g[m - 1]] \in S
    OBVIOUS
  <2>3. h \in [0..m -> S]
    BY <2>2
  <2>4. \A k \in 0..(m - 1) : h[k] = g[k]
    OBVIOUS
  <2>5. h[m] = step[m][g[m - 1]]
    OBVIOUS
  <2> HIDE DEF h
  <2>6. h[0] = e
    BY <2>1, <2>4
  <2>7. ASSUME NEW k \in 1..m PROVE h[k] = step[k][h[k - 1]]
    <3>1. CASE k = m
      BY <2>4, <2>5, <3>1
    <3>2. CASE k # m
      <4>1. k \in 1..(m - 1) /\ k - 1 \in 0..(m - 1) /\ k \in 0..(m - 1)
        BY <3>2
      <4> QED  BY <2>1, <2>4, <4>1
    <3> QED  BY <3>1, <3>2
  <2>8. Upto(m, h)
    BY <2>6, <2>7
  <2> QED  BY <2>3, <2>8
<1> HIDE DEF T
<1>3. \A m \in 0..N : m \in T
  BY <1>1, <1>2, BoundedInduction
<1>4. N \in T
  BY <1>3
<1> QED  BY <1>4 DEF T
-----------------------------------------------------------------------------
(***************************************************************************)
(* Chains of nodes, and what the loops of map_resize and map_remove make   *)
(* of them.                                                                *)
(***************************************************************************)
Elements(s) == {s[j] : j \in 1..Len(s)}
OneEach(s) == \A j, m \in 1..Len(s) : s[j].key = s[m].key => j = m

\* A chain of one node for each of its keys, and of these nodes.
Holds(s, X) == s \in Seq(Node) /\ OneEach(s) /\ Elements(s) = X

LEMMA ConcatChains ==
    ASSUME NEW s \in Seq(Node), NEW t \in Seq(Node)
    PROVE  s \o t \in Seq(Node)
OBVIOUS

LEMMA HoldsNothing == Holds(<<>>, {})
BY DEF Holds, OneEach, Elements

LEMMA HoldsConcat ==
    ASSUME NEW s, NEW X, Holds(s, X), NEW t, NEW Y, Holds(t, Y),
           \A x \in X, y \in Y : x.key # y.key
    PROVE  Holds(s \o t, X \cup Y)
<1>1. /\ s \in Seq(Node) /\ t \in Seq(Node)
      /\ \A j \in 1..Len(s) : s[j] \in X
      /\ \A j \in 1..Len(t) : t[j] \in Y
      /\ \A x \in X : \E j \in 1..Len(s) : s[j] = x
      /\ \A y \in Y : \E j \in 1..Len(t) : t[j] = y
  BY DEF Holds, Elements
<1>2. /\ s \o t \in Seq(Node)
      /\ Len(s) \in Nat /\ Len(t) \in Nat
      /\ Len(s \o t) = Len(s) + Len(t)
      /\ \A j \in 1..Len(s) : (s \o t)[j] = s[j]
      /\ \A j \in 1..Len(t) : (s \o t)[Len(s) + j] = t[j]
  BY <1>1
<1> DEFINE u == s \o t
<1> HIDE DEF u
<1>3. /\ u \in Seq(Node)
      /\ Len(u) = Len(s) + Len(t)
      /\ \A j \in 1..Len(s) : u[j] = s[j]
      /\ \A j \in 1..Len(t) : u[Len(s) + j] = t[j]
  BY <1>2 DEF u
<1>4. ASSUME NEW j \in 1..Len(u)
      PROVE  \/ j \in 1..Len(s) /\ u[j] = s[j]
             \/ j - Len(s) \in 1..Len(t) /\ u[j] = t[j - Len(s)]
  <2>1. CASE j \in 1..Len(s)
    BY <1>3, <2>1
  <2>2. CASE j \notin 1..Len(s)
    <3>1. j - Len(s) \in 1..Len(t) /\ Len(s) + (j - Len(s)) = j
      BY <1>2, <1>3, <2>2
    <3> QED  BY <1>3, <3>1
  <2> QED  BY <2>1, <2>2
<1>5. OneEach(u)
  <2> SUFFICES ASSUME NEW j \in 1..Len(u), NEW m \in 1..Len(u), u[j].key = u[m].key
               PROVE  j = m
    BY DEF OneEach
  <2>1. \A x \in X, y \in Y : x.key # y.key
    OBVIOUS
  <2>2. CASE j \in 1..Len(s) /\ u[j] = s[j] /\ m \in 1..Len(s) /\ u[m] = s[m]
    BY <2>2 DEF Holds, OneEach
  <2>3. CASE /\ j - Len(s) \in 1..Len(t) /\ u[j] = t[j - Len(s)]
             /\ m - Len(s) \in 1..Len(t) /\ u[m] = t[m - Len(s)]
    <3>1. j - Len(s) = m - Len(s)
      BY <2>3 DEF Holds, OneEach
    <3> QED  BY <1>2, <3>1
  <2>4. CASE j \in 1..Len(s) /\ u[j] = s[j] /\ m - Len(s) \in 1..Len(t) /\ u[m] = t[m - Len(s)]
    BY <1>1, <2>1, <2>4
  <2>5. CASE m \in 1..Len(s) /\ u[m] = s[m] /\ j - Len(s) \in 1..Len(t) /\ u[j] = t[j - Len(s)]
    BY <1>1, <2>1, <2>5
  <2> QED  BY <1>4, <2>2, <2>3, <2>4, <2>5
<1>6. Elements(u) = X \cup Y
  <2>1. \A j \in 1..Len(u) : u[j] \in X \cup Y
    BY <1>1, <1>4
  <2>2. ASSUME NEW x \in X PROVE \E j \in 1..Len(u) : u[j] = x
    <3>1. PICK j \in 1..Len(s) : s[j] = x
      BY <1>1
    <3>2. j \in 1..Len(u)
      BY <1>2, <1>3
    <3> QED  BY <1>3, <3>1, <3>2
  <2>3. ASSUME NEW y \in Y PROVE \E j \in 1..Len(u) : u[j] = y
    <3>1. PICK j \in 1..Len(t) : t[j] = y
      BY <1>1
    <3>2. Len(s) + j \in 1..Len(u)
      BY <1>2, <1>3
    <3> QED  BY <1>3, <3>1, <3>2
  <2> QED  BY <2>1, <2>2, <2>3 DEF Elements
<1> QED  BY <1>3, <1>5, <1>6 DEF Holds, u

LEMMA HoldsOne ==
    ASSUME NEW x \in Node
    PROVE  Holds(<<x>>, {x})
BY DEF Holds, OneEach, Elements

-----------------------------------------------------------------------------
(***************************************************************************)
(* The lists of a map.                                                     *)
(***************************************************************************)
\* m lists that hold the nodes of X, each in the bucket of its key.
Chained(ls, m, X) ==
    /\ ls \in [0..(m - 1) -> Seq(Node)]
    /\ X \subseteq Node
    /\ \A x \in X : BucketOf(x.key, m) \in 0..(m - 1)
    /\ \A b \in 0..(m - 1) : Holds(ls[b], {x \in X : BucketOf(x.key, m) = b})

LEMMA BucketRange ==
    ASSUME NEW k \in Keys, NEW m \in Nat, m > 0
    PROVE  BucketOf(k, m) >= 0 <=> BucketOf(k, m) \in 0..(m - 1)
<1>1. Hash[k] \in Int
  BY MapAssumption
<1>2. CASE Hash[k] >= 0
  <2>1. Hash[k] % m \in 0..(m - 1)
    BY <1>1
  <2> QED  BY <1>2, <2>1 DEF BucketOf
<1>3. CASE ~(Hash[k] >= 0)
  <2>1. (-Hash[k]) % m \in 0..(m - 1)
    BY <1>1
  <2> QED  BY <1>3, <2>1 DEF BucketOf
<1> QED  BY <1>2, <1>3

LEMMA ChainedNothing ==
    ASSUME NEW m \in Nat
    PROVE  Chained([b \in 0..(m - 1) |-> <<>>], m, {})
<1>1. ASSUME NEW b \in 0..(m - 1)
      PROVE  Holds([c \in 0..(m - 1) |-> <<>>][b], {x \in {} : BucketOf(x.key, m) = b})
  <2>1. {x \in {} : BucketOf(x.key, m) = b} = {}
    OBVIOUS
  <2> QED  BY <2>1, HoldsNothing
<1> QED  BY <1>1 DEF Chained

\* No two nodes have one key.
LEMMA ChainedKeys ==
    ASSUME NEW m \in Nat, NEW ls, NEW X, Chained(ls, m, X), NEW x \in X, NEW y \in X,
           x.key = y.key
    PROVE  x = y
<1> DEFINE b == BucketOf(x.key, m)
<1>1. b \in 0..(m - 1) /\ Holds(ls[b], {z \in X : BucketOf(z.key, m) = b})
  BY DEF Chained
<1>2. x \in {z \in X : BucketOf(z.key, m) = b} /\ y \in {z \in X : BucketOf(z.key, m) = b}
  OBVIOUS
<1> QED  BY <1>1, <1>2 DEF Holds, OneEach, Elements

LEMMA ChainedPrepend ==
    ASSUME NEW m \in Nat, NEW ls, NEW X, Chained(ls, m, X), NEW x \in Node,
           BucketOf(x.key, m) \in 0..(m - 1), \A y \in X : y.key # x.key
    PROVE  Chained([ls EXCEPT ![BucketOf(x.key, m)] = prepend(x.key, x.value, @)],
                   m, X \cup {x})
<1> DEFINE c == BucketOf(x.key, m)
           new == [ls EXCEPT ![c] = prepend(x.key, x.value, @)]
           Of(Y, b) == {y \in Y : BucketOf(y.key, m) = b}
<1>1. /\ ls \in [0..(m - 1) -> Seq(Node)] /\ X \subseteq Node
      /\ \A y \in X : BucketOf(y.key, m) \in 0..(m - 1)
      /\ \A b \in 0..(m - 1) : Holds(ls[b], Of(X, b))
  BY DEF Chained
<1>2. prepend(x.key, x.value, ls[c]) = <<x>> \o ls[c]
  BY DEF prepend, Node
<1>3. \A b \in 0..(m - 1) : new[b] = IF b = c THEN <<x>> \o ls[c] ELSE ls[b]
  BY <1>1, <1>2
<1>4. Holds(<<x>> \o ls[c], {x} \cup Of(X, c))
  <2>1. \A y \in Of(X, c) : y.key # x.key
    OBVIOUS
  <2> HIDE DEF Of
  <2> QED  BY <1>1, <2>1, HoldsOne, HoldsConcat
<1>5. \A b \in 0..(m - 1) : Of(X \cup {x}, b) = IF b = c THEN {x} \cup Of(X, c) ELSE Of(X, b)
  OBVIOUS
<1>6. \A b \in 0..(m - 1) : Holds(new[b], Of(X \cup {x}, b))
  <2> HIDE DEF Of, new
  <2> QED  BY <1>1, <1>3, <1>4, <1>5
<1>7. new \in [0..(m - 1) -> Seq(Node)]
  <2>1. DOMAIN new = 0..(m - 1) /\ new = [b \in 0..(m - 1) |-> new[b]]
    BY <1>1
  <2>2. \A b \in 0..(m - 1) : new[b] \in Seq(Node)
    BY <1>6 DEF Holds
  <2> HIDE DEF new
  <2> QED  BY <2>1, <2>2
<1>8. \A y \in X \cup {x} : BucketOf(y.key, m) \in 0..(m - 1)
  BY <1>1
<1> HIDE DEF new
<1>9. Chained(new, m, X \cup {x})
  BY <1>1, <1>6, <1>7, <1>8 DEF Chained
<1> QED  BY <1>9 DEF new

\* map_resize stores every node.
LEMMA StorageHolds ==
    ASSUME NEW m \in Nat, NEW ls, NEW X, Chained(ls, m, X)
    PROVE  Holds(Storage(ls, m), X)
<1> DEFINE step == [b \in 1..m |-> [s \in Seq(Node) |-> s \o ls[b - 1]]]
           F(h) == [b \in 0..m |-> IF b = 0 THEN <<>> ELSE h[b - 1] \o ls[b - 1]]
           upto == CHOOSE h : h = F(h)
           Below(b) == {x \in X : BucketOf(x.key, m) \in 0..(b - 1)}
           Of(b) == {x \in X : BucketOf(x.key, m) = b}
           T == {b \in 0..m : Holds(upto[b], Below(b))}
<1>1. /\ \A b \in 1..m : b - 1 \in 0..(m - 1) /\ b - 1 \in 0..m /\ b # 0
      /\ \A b \in 0..m : b = 0 \/ b \in 1..m
  OBVIOUS
<1>2. \A b \in 1..m : ls[b - 1] \in Seq(Node) /\ Holds(ls[b - 1], Of(b - 1))
  BY <1>1 DEF Chained
<1>3. upto = F(upto)
  <2>1. Steps(step, m, Seq(Node)) /\ <<>> \in Seq(Node)
    <3>1. \A b \in 1..m : \A s \in Seq(Node) : s \o ls[b - 1] \in Seq(Node)
      BY <1>2, ConcatChains
    <3> QED  BY <3>1 DEF Steps
  <2> HIDE DEF step
  <2>2. PICK g : Repeats(g, m, Seq(Node), <<>>, step)
    BY <2>1, RecursionExists
  <2>3. \A k \in 1..m : g[k - 1] \in Seq(Node) /\ g[k] = g[k - 1] \o ls[k - 1]
    BY <1>1, <2>2 DEF step, Repeats
  <2>4. g = F(g)
    BY <1>1, <2>2, <2>3 DEF Repeats
  <2> HIDE DEF F
  <2> QED  BY <2>4
<1>4. upto[0] = <<>> /\ \A b \in 1..m : upto[b] = upto[b - 1] \o ls[b - 1]
  <2> HIDE DEF upto
  <2> QED  BY <1>1, <1>3
<1>5. Storage(ls, m) = upto[m]
  BY DEF Storage
<1> HIDE DEF upto, F, step
<1>6. 0 \in T
  <2>1. Below(0) = {}
    OBVIOUS
  <2>2. Holds(upto[0], Below(0))
    <3> HIDE DEF Below
    <3> QED  BY <1>4, <2>1, HoldsNothing
  <2> QED  BY <2>2
<1>7. ASSUME NEW b \in 1..m, b - 1 \in T PROVE b \in T
  <2>1. Below(b) = Below(b - 1) \cup Of(b - 1)
    OBVIOUS
  <2>2. \A x \in Below(b - 1), y \in Of(b - 1) : x.key # y.key
    OBVIOUS
  <2>3. Holds(upto[b - 1], Below(b - 1)) /\ Holds(ls[b - 1], Of(b - 1))
    BY <1>2, <1>7
  <2>4. Holds(upto[b], Below(b))
    <3> HIDE DEF Below, Of, T
    <3>1. Holds(upto[b - 1] \o ls[b - 1], Below(b - 1) \cup Of(b - 1))
      BY <2>2, <2>3, HoldsConcat
    <3> QED  BY <1>4, <2>1, <3>1
  <2> QED  BY <2>4
<1>8. Holds(upto[m], Below(m))
  <2> HIDE DEF T
  <2>1. \A b \in 0..m : b \in T
    BY <1>6, <1>7, BoundedInduction
  <2>2. m \in T
    BY <2>1
  <2> QED  BY <2>2 DEF T
<1>9. Below(m) = X
  BY DEF Chained
<1> QED  BY <1>5, <1>8, <1>9

\* map_resize puts every node it stored into the bucket the node has now.
LEMMA SpreadChains ==
    ASSUME NEW m \in Nat, NEW s, NEW X, Holds(s, X),
           \A x \in X : BucketOf(x.key, m) \in 0..(m - 1)
    PROVE  Chained(Spread(s, m), m, X)
<1> DEFINE N == Len(s)
           S == [0..(m - 1) -> Seq(Node)]
           none == [b \in 0..(m - 1) |-> <<>>]
           Onto(ls, x) == [ls EXCEPT ![BucketOf(x.key, m)] = prepend(x.key, x.value, @)]
           At(k) == s[N - k + 1]
           step == [k \in 1..N |-> [ls \in S |-> Onto(ls, At(k))]]
           F(h) == [k \in 0..N |-> IF k = 0 THEN none ELSE Onto(h[k - 1], At(k))]
           moved == CHOOSE h : h = F(h)
           Last(k) == {s[j] : j \in (N - k + 1)..N}
           T == {k \in 0..N : Chained(moved[k], m, Last(k))}
<1>1. /\ N \in Nat
      /\ \A k \in 1..N : N - k + 1 \in 1..N /\ k - 1 \in 0..N /\ k # 0
      /\ \A k \in 0..N : k = 0 \/ k \in 1..N
  BY DEF Holds
<1>2. \A k \in 1..N : /\ At(k) \in Node
                      /\ BucketOf(At(k).key, m) \in 0..(m - 1)
  BY <1>1 DEF Holds, Elements
<1>3. none \in S
  OBVIOUS
<1>4. \A k \in 1..N : \A ls \in S : Onto(ls, At(k)) \in S
  <2> SUFFICES ASSUME NEW k \in 1..N, NEW ls \in S PROVE Onto(ls, At(k)) \in S
    OBVIOUS
  <2> DEFINE x == At(k)
  <2>1. x \in Node /\ BucketOf(x.key, m) \in 0..(m - 1)
    BY <1>2
  <2> HIDE DEF x
  <2>2. \A t \in Seq(Node) : prepend(x.key, x.value, t) \in Seq(Node)
    <3>1. prepend(x.key, x.value, <<>>) = <<x>> \o <<>>
      BY <2>1 DEF prepend, Node
    <3>2. \A t : prepend(x.key, x.value, t) = <<x>> \o t
      BY <2>1 DEF prepend, Node
    <3>3. <<x>> \in Seq(Node)
      BY <2>1
    <3> QED  BY <3>2, <3>3, ConcatChains
  <2>3. Onto(ls, x) \in S
    BY <2>1, <2>2
  <2> QED  BY <2>3 DEF x
<1>5. moved = F(moved)
  <2>1. Steps(step, N, S)
    <3> HIDE DEF S, Onto, At
    <3> QED  BY <1>4 DEF Steps
  <2>2. PICK g : Repeats(g, N, S, none, step)
    <3> HIDE DEF S, none, step, N
    <3> QED  BY <1>1, <1>3, <2>1, RecursionExists
  <2>3. g \in [0..N -> S] /\ g[0] = none /\ \A k \in 1..N : g[k] = step[k][g[k - 1]]
    <3> HIDE DEF S, none, step, N
    <3> QED  BY <2>2 DEF Repeats
  <2>4. \A k \in 1..N : g[k] = Onto(g[k - 1], At(k))
    <3> HIDE DEF S, none, N, Onto, At
    <3> QED  BY <1>1, <2>3
  <2>5. g = F(g)
    <3> HIDE DEF S, none, N, Onto, At
    <3> QED  BY <1>1, <2>3, <2>4
  <2> HIDE DEF F
  <2> QED  BY <2>5
<1>6. moved[0] = none /\ \A k \in 1..N : moved[k] = Onto(moved[k - 1], At(k))
  <2> HIDE DEF moved, Onto, At, none, N
  <2> QED  BY <1>1, <1>5
<1>7. Spread(s, m) = moved[N]
  BY DEF Spread
<1> HIDE DEF moved, F, step, S
<1>8. 0 \in T
  <2>1. Last(0) = {}
    BY <1>1
  <2>2. Chained(none, m, {})
    BY ChainedNothing
  <2>3. Chained(moved[0], m, Last(0))
    <3> HIDE DEF none, Last
    <3> QED  BY <1>6, <2>1, <2>2
  <2> QED  BY <1>1, <2>3
<1>9. ASSUME NEW k \in 1..N, k - 1 \in T PROVE k \in T
  <2>1. Chained(moved[k - 1], m, Last(k - 1))
    BY <1>9
  <2>2. Last(k) = Last(k - 1) \cup {At(k)}
    <3>1. \A j : j \in (N - k + 1)..N <=> j \in (N - (k - 1) + 1)..N \/ j = N - k + 1
      BY <1>1
    <3> QED  BY <3>1
  <2>3. \A y \in Last(k - 1) : y.key # At(k).key
    <3> SUFFICES ASSUME NEW j \in (N - (k - 1) + 1)..N PROVE s[j].key # At(k).key
      OBVIOUS
    <3>1. j \in 1..N /\ N - k + 1 \in 1..N /\ j # N - k + 1
      BY <1>1
    <3> QED  BY <3>1 DEF Holds, OneEach
  <2>4. Chained(moved[k], m, Last(k))
    <3> HIDE DEF Last, T
    <3>1. At(k) \in Node /\ BucketOf(At(k).key, m) \in 0..(m - 1)
      BY <1>2
    <3>2. moved[k] = Onto(moved[k - 1], At(k))
      BY <1>6
    <3> HIDE DEF At
    <3>3. Chained(Onto(moved[k - 1], At(k)), m, Last(k - 1) \cup {At(k)})
      BY <2>1, <2>3, <3>1, ChainedPrepend
    <3> HIDE DEF Onto
    <3> QED  BY <2>2, <3>2, <3>3
  <2> QED  BY <1>1, <2>4
<1>10. Chained(moved[N], m, Last(N))
  <2> HIDE DEF T, N
  <2>1. \A k \in 0..N : k \in T
    BY <1>1, <1>8, <1>9, BoundedInduction
  <2>2. N \in T
    BY <1>1, <2>1
  <2> QED  BY <2>2 DEF T
<1>11. Last(N) = X
  <2>1. (N - N + 1)..N = 1..N
    BY <1>1
  <2> QED  BY <2>1 DEF Holds, Elements
<1> QED  BY <1>7, <1>10, <1>11

\* map_remove takes the node of k out of its chain.
LEMMA UnlinkHolds ==
    ASSUME NEW k, NEW X, Holds(Chain(k), X)
    PROVE  Holds(Unlink(k), {x \in X : x.key # k})
<1> DEFINE s == Chain(k)
           N == Len(s)
           S == Seq(Node)
           Keep(t, j) == IF s[j].key = k THEN t ELSE Append(t, s[j])
           step == [j \in 1..N |-> [t \in S |-> Keep(t, j)]]
           F(h) == [j \in 0..N |-> IF j = 0 THEN <<>> ELSE Keep(h[j - 1], j)]
           walked == CHOOSE h : h = F(h)
           Others(j) == {y \in {s[c] : c \in 1..j} : y.key # k}
           T == {j \in 0..N : Holds(walked[j], Others(j))}
<1>1. Unlink(k) = walked[N]
  BY DEF Unlink
<1>2. Holds(s, X)
  OBVIOUS
<1> HIDE DEF s
<1>3. /\ N \in Nat
      /\ \A j \in 1..N : j - 1 \in 0..N /\ j # 0
      /\ \A j \in 0..N : j = 0 \/ j \in 1..N
      /\ \A j \in 1..N : s[j] \in Node
  BY <1>2 DEF Holds
<1>4. \A j \in 1..N : \A t \in S : Keep(t, j) \in S
  BY <1>3
<1>5. walked = F(walked)
  <2>1. Steps(step, N, S) /\ <<>> \in S
    <3>1. <<>> \in S
      OBVIOUS
    <3> HIDE DEF S, Keep
    <3> QED  BY <1>4, <3>1 DEF Steps
  <2>2. PICK g : Repeats(g, N, S, <<>>, step)
    <3> HIDE DEF S, step, N
    <3> QED  BY <1>3, <2>1, RecursionExists
  <2>3. g \in [0..N -> S] /\ g[0] = <<>> /\ \A j \in 1..N : g[j] = step[j][g[j - 1]]
    <3> HIDE DEF S, step, N
    <3> QED  BY <2>2 DEF Repeats
  <2>4. \A j \in 1..N : g[j] = Keep(g[j - 1], j)
    <3> HIDE DEF S, N, Keep
    <3> QED  BY <1>3, <2>3
  <2>5. g = F(g)
    <3> HIDE DEF S, N
    <3> QED  BY <1>3, <2>3, <2>4
  <2> HIDE DEF F
  <2> QED  BY <2>5
<1>6. walked[0] = <<>> /\ \A j \in 1..N : walked[j] = Keep(walked[j - 1], j)
  <2> HIDE DEF walked, Keep, N
  <2> QED  BY <1>3, <1>5
<1> HIDE DEF walked, F, step, S
<1>7. 0 \in T
  <2>1. Others(0) = {}
    OBVIOUS
  <2>2. Holds(walked[0], Others(0))
    <3> HIDE DEF Others
    <3> QED  BY <1>6, <2>1, HoldsNothing
  <2> QED  BY <1>3, <2>2
<1>8. ASSUME NEW j \in 1..N, j - 1 \in T PROVE j \in T
  <2>1. Holds(walked[j - 1], Others(j - 1)) /\ walked[j - 1] \in Seq(Node)
    BY <1>8 DEF Holds
  <2>2. 1..j = 1..(j - 1) \cup {j}
    BY <1>3
  <2>3. CASE s[j].key = k
    <3>1. Others(j) = Others(j - 1)
      BY <2>2, <2>3
    <3>2. walked[j] = walked[j - 1]
      BY <1>6, <2>3
    <3>3. Holds(walked[j], Others(j))
      <4> HIDE DEF Others, T
      <4> QED  BY <2>1, <3>1, <3>2
    <3> QED  BY <1>3, <3>3
  <2>4. CASE s[j].key # k
    <3>1. Others(j) = Others(j - 1) \cup {s[j]}
      BY <2>2, <2>4
    <3>2. \A y \in Others(j - 1) : y.key # s[j].key
      <4> SUFFICES ASSUME NEW c \in 1..(j - 1) PROVE s[c].key # s[j].key
        OBVIOUS
      <4>1. c \in 1..N /\ c # j
        BY <1>3
      <4> QED  BY <1>2, <4>1 DEF Holds, OneEach
    <3>3. walked[j] = walked[j - 1] \o <<s[j]>>
      <4>1. walked[j] = Append(walked[j - 1], s[j]) /\ s[j] \in Node
        BY <1>3, <1>6, <2>4
      <4> DEFINE t == walked[j - 1]
                 x == s[j]
      <4>2. t \in Seq(Node) /\ x \in Node
        BY <2>1, <4>1
      <4> HIDE DEF t, x
      <4>3. Append(t, x) = t \o <<x>>
        BY <4>2
      <4> QED  BY <4>1, <4>3 DEF t, x
    <3>4. Holds(<<s[j]>>, {s[j]})
      BY <1>3, HoldsOne
    <3>5. Holds(walked[j], Others(j))
      <4> HIDE DEF Others, T
      <4>1. Holds(walked[j - 1] \o <<s[j]>>, Others(j - 1) \cup {s[j]})
        BY <2>1, <3>2, <3>4, HoldsConcat
      <4> QED  BY <3>1, <3>3, <4>1
    <3> QED  BY <1>3, <3>5
  <2> QED  BY <2>3, <2>4
<1>9. Holds(walked[N], Others(N))
  <2> HIDE DEF T, N
  <2>1. \A j \in 0..N : j \in T
    BY <1>3, <1>7, <1>8, BoundedInduction
  <2>2. N \in T
    BY <1>3, <2>1
  <2> QED  BY <2>2 DEF T
<1>10. Others(N) = {x \in X : x.key # k}
  BY <1>2 DEF Holds, Elements
<1> QED  BY <1>1, <1>9, <1>10

-----------------------------------------------------------------------------
(***************************************************************************)
(* The bucket of a key, and what the calls do with it.                     *)
(***************************************************************************)
Others(X, k) == {x \in X : x.key # k}
With(X, k, v) == Others(X, k) \cup {[key |-> k, value |-> v]}

LEMMA DefinedBucket ==
    ASSUME NEW k \in Keys, n \in Nat, Defined(k)
    PROVE  BucketOf(k, n) \in 0..(n - 1)
BY BucketRange DEF Defined

\* A key of a node has a bucket, and is found there.
LEMMA KeyFound ==
    ASSUME n \in Nat, NEW X, Chained(lists, n, X), NEW k \in Keys
    PROVE  (\E x \in X : x.key = k) <=> Defined(k) /\ Has(k)
<1> DEFINE b == BucketOf(k, n)
           Of(c) == {x \in X : BucketOf(x.key, n) = c}
<1>1. ASSUME NEW x \in X, x.key = k PROVE Defined(k) /\ Has(k)
  <2>1. b \in 0..(n - 1) /\ Holds(lists[b], Of(b)) /\ x \in Of(b)
    BY <1>1 DEF Chained
  <2>2. \E j \in 1..Len(lists[b]) : lists[b][j] = x
    BY <2>1 DEF Holds, Elements
  <2> QED  BY <1>1, <2>1, <2>2 DEF Defined, Has, Chain
<1>2. ASSUME Defined(k), Has(k) PROVE \E x \in X : x.key = k
  <2>1. Holds(lists[b], Of(b))
    BY <1>2, DefinedBucket DEF Chained
  <2>2. PICK j \in 1..Len(lists[b]) : lists[b][j].key = k
    BY <1>2 DEF Has, Chain
  <2>3. lists[b][j] \in X
    BY <2>1 DEF Holds, Elements
  <2> QED  BY <2>2, <2>3
<1> QED  BY <1>1, <1>2

\* get finds the node of k.
LEMMA GetFinds ==
    ASSUME n \in Nat, NEW X, Chained(lists, n, X), NEW k \in Keys, Defined(k), Has(k)
    PROVE  /\ get(k) \in 1..Len(Chain(k))
           /\ Chain(k)[get(k)].key = k
           /\ Chain(k)[get(k)] \in X
<1> DEFINE b == BucketOf(k, n)
           Of(c) == {x \in X : BucketOf(x.key, n) = c}
<1>1. Holds(Chain(k), Of(b))
  BY DefinedBucket DEF Chained, Chain
<1>2. PICK j \in 1..Len(Chain(k)) : Chain(k)[j].key = k
  BY DEF Has
<1>3. \A c \in 1..(j - 1) : Chain(k)[c].key # k
  <2>1. \A c \in 1..(j - 1) : c \in 1..Len(Chain(k)) /\ c # j
    BY <1>1 DEF Holds
  <2> QED  BY <1>1, <1>2, <2>1 DEF Holds, OneEach
<1>4. get(k) \in 1..Len(Chain(k)) /\ Chain(k)[get(k)].key = k
  BY <1>2, <1>3 DEF get
<1>5. Chain(k)[get(k)] \in X
  BY <1>1, <1>4 DEF Holds, Elements
<1> QED  BY <1>4, <1>5

LEMMA ResizeChains ==
    ASSUME n \in Nat, NEW ls, NEW X, Chained(ls, n, X), NEW m \in Nat,
           \A x \in X : BucketOf(x.key, m) \in 0..(m - 1)
    PROVE  Chained(map_resize(ls, m), m, X)
BY StorageHolds, SpreadChains DEF map_resize

\* What the state says of the nodes in the map.
Held(X) == Chained(lists, n, X) /\ IsFiniteSet(X) /\ Cardinality(X) = size

LEMMA StoredKeys ==
    ASSUME n \in Nat, NEW X, Held(X)
    PROVE  Stored = {x.key : x \in X}
<1>1. \A x \in X : x.key \in Keys
  BY DEF Held, Chained, Node
<1> QED  BY <1>1, KeyFound DEF Stored, Held

\* The nodes but that of a key of the map are one fewer.
LEMMA OthersCount ==
    ASSUME n \in Nat, NEW X, Held(X), NEW k, NEW x \in X, x.key = k
    PROVE  /\ IsFiniteSet(Others(X, k))
           /\ Cardinality(Others(X, k)) = size - 1
           /\ size \in Nat \ {0}
<1>1. Others(X, k) = X \ {x}
  BY ChainedKeys DEF Others, Held
<1>2. IsFiniteSet(X) /\ Cardinality(X) = size
  BY DEF Held
<1>3. /\ IsFiniteSet(X \ {x})
      /\ Cardinality(X \ {x}) = IF x \in X THEN Cardinality(X) - 1 ELSE Cardinality(X)
  BY <1>2, FS_RemoveElement
<1>4. size \in Nat /\ Cardinality(X \ {x}) \in Nat
  BY <1>2, <1>3, FS_CardinalityType
<1> QED  BY <1>1, <1>2, <1>3, <1>4

LEMMA WithCount ==
    ASSUME NEW X, NEW k, NEW v, IsFiniteSet(Others(X, k))
    PROVE  /\ IsFiniteSet(With(X, k, v))
           /\ Cardinality(With(X, k, v)) = Cardinality(Others(X, k)) + 1
<1> DEFINE x == [key |-> k, value |-> v]
           O == Others(X, k)
<1>1. x \notin O
  BY DEF Others
<1> HIDE DEF x, O
<1>2. /\ IsFiniteSet(O \cup {x})
      /\ Cardinality(O \cup {x}) = IF x \in O THEN Cardinality(O) ELSE Cardinality(O) + 1
  BY FS_AddElement DEF O
<1>3. With(X, k, v) = O \cup {x}
  BY DEF With, O, x
<1> QED  BY <1>1, <1>2, <1>3 DEF O

\* The chain of k, and only it, is exchanged.
LEMMA ChainExchanged ==
    ASSUME NEW m \in Nat, NEW ls, NEW X, Chained(ls, m, X), NEW c \in 0..(m - 1),
           NEW t, NEW Y \in SUBSET Node, Holds(t, {y \in Y : BucketOf(y.key, m) = c}),
           \A b \in 0..(m - 1) : b # c =>
               {y \in Y : BucketOf(y.key, m) = b} = {x \in X : BucketOf(x.key, m) = b},
           \A y \in Y : BucketOf(y.key, m) \in 0..(m - 1)
    PROVE  Chained([ls EXCEPT ![c] = t], m, Y)
<1> DEFINE Of(Z, b) == {z \in Z : BucketOf(z.key, m) = b}
           new == [ls EXCEPT ![c] = t]
<1>1. /\ ls \in [0..(m - 1) -> Seq(Node)]
      /\ \A b \in 0..(m - 1) : Holds(ls[b], Of(X, b))
  BY DEF Chained
<1>2. Holds(t, Of(Y, c)) /\ t \in Seq(Node)
  BY DEF Holds
<1>3. new \in [0..(m - 1) -> Seq(Node)]
  BY <1>1, <1>2
<1>4. \A b \in 0..(m - 1) : new[b] = IF b = c THEN t ELSE ls[b]
  BY <1>1
<1>5. \A b \in 0..(m - 1) : b # c => Of(Y, b) = Of(X, b)
  OBVIOUS
<1>6. \A b \in 0..(m - 1) : Holds(new[b], Of(Y, b))
  <2> HIDE DEF Of, new
  <2> QED  BY <1>1, <1>2, <1>4, <1>5
<1> HIDE DEF new
<1>7. Chained(new, m, Y)
  BY <1>3, <1>6 DEF Chained
<1> QED  BY <1>7 DEF new

LEMMA OthersBuckets ==
    ASSUME NEW m \in Nat, NEW ls, NEW X, Chained(ls, m, X), NEW k
    PROVE  /\ Others(X, k) \in SUBSET Node
           /\ \A x \in Others(X, k) : BucketOf(x.key, m) \in 0..(m - 1)
           /\ {x \in Others(X, k) : BucketOf(x.key, m) = BucketOf(k, m)}
                = {x \in {y \in X : BucketOf(y.key, m) = BucketOf(k, m)} : x.key # k}
           /\ \A b \in 0..(m - 1) : b # BucketOf(k, m) =>
                {x \in Others(X, k) : BucketOf(x.key, m) = b} = {x \in X : BucketOf(x.key, m) = b}
BY DEF Chained, Others

LEMMA AddNewHolds ==
    ASSUME n \in Nat, size \in Nat, size <= n, NEW X, Held(X),
           NEW k \in Keys, NEW v \in Values, AddNew(k, v)
    PROVE  Held(With(X, k, v))' /\ n' \in Nat /\ size' \in Nat /\ size' <= n'
<1> DEFINE m == SizeToAdd
           resized == IF m # n THEN map_resize(lists, m) ELSE lists
           x == [key |-> k, value |-> v]
<1>1. /\ Defined(k) /\ ~Has(k)
      /\ AllPlaceable(Stored \cup {k}, m)
      /\ n' = m /\ size' = size + 1
      /\ lists' = [resized EXCEPT ![BucketOf(k, m)] = prepend(k, v, @)]
  BY DEF AddNew
<1>2. n > 0 /\ m \in Nat /\ m > 0 /\ size + 1 <= m
  BY <1>1 DEF Defined, SizeToAdd, TooFull
<1>3. \A y \in X : y.key # k /\ y.key \in Keys
  BY <1>1, KeyFound DEF Held, Chained, Node
<1> HIDE DEF m
<1>4. /\ \A y \in X : BucketOf(y.key, m) \in 0..(m - 1)
      /\ BucketOf(k, m) \in 0..(m - 1)
  <2>1. \A c \in Stored \cup {k} : BucketOf(c, m) >= 0
    BY <1>1 DEF AllPlaceable
  <2>2. \A y \in X : y.key \in Stored
    BY StoredKeys
  <2> QED  BY <1>2, <1>3, <2>1, <2>2, BucketRange
<1>5. Chained(resized, m, X)
  <2>1. Chained(lists, n, X)
    BY DEF Held
  <2>2. Chained(map_resize(lists, m), m, X)
    BY <1>2, <1>4, <2>1, ResizeChains
  <2> QED  BY <2>1, <2>2
<1> HIDE DEF resized
<1>6. x \in Node /\ x.key = k /\ x.value = v
  BY DEF Node
<1>7. Chained([resized EXCEPT ![BucketOf(k, m)] = prepend(k, v, @)], m, X \cup {x})
  <2> HIDE DEF x
  <2>1. Chained([resized EXCEPT ![BucketOf(x.key, m)] = prepend(x.key, x.value, @)],
                m, X \cup {x})
    BY <1>2, <1>3, <1>4, <1>5, <1>6, ChainedPrepend
  <2> QED  BY <1>6, <2>1
<1>8. Others(X, k) = X /\ With(X, k, v) = X \cup {x}
  BY <1>3 DEF Others, With
<1>9. IsFiniteSet(With(X, k, v)) /\ Cardinality(With(X, k, v)) = size + 1
  BY <1>8, WithCount DEF Held
<1>10. Chained(lists', n', With(X, k, v))
  BY <1>1, <1>7, <1>8
<1> QED  BY <1>1, <1>2, <1>9, <1>10 DEF Held

LEMMA RemovePresentHolds ==
    ASSUME n \in Nat, size \in Nat, size <= n, NEW X, Held(X),
           NEW k \in Keys, RemovePresent(k)
    PROVE  Held(Others(X, k))' /\ n' \in Nat /\ size' \in Nat /\ size' <= n'
<1> DEFINE m == SizeToRemove
           kept == [lists EXCEPT ![BucketOf(k, n)] = Unlink(k)]
           O == Others(X, k)
<1>1. /\ Defined(k) /\ Has(k)
      /\ AllPlaceable(Stored \ {k}, m)
      /\ n' = m /\ size' = size - 1
      /\ lists' = IF m # n THEN map_resize(kept, m) ELSE kept
  BY DEF RemovePresent
<1>2. Chained(lists, n, X)
  BY DEF Held
<1>3. PICK x \in X : x.key = k
  BY <1>1, <1>2, KeyFound
<1>4. IsFiniteSet(O) /\ Cardinality(O) = size - 1 /\ size \in Nat \ {0}
  BY <1>3, OthersCount
<1>5. m \in Nat /\ size - 1 <= m /\ (m = 0 => size = 1)
  <2>1. n > 0
    BY <1>1 DEF Defined
  <2>2. CASE TooSparse(size - 1)
    <3>1. m = n \div 2 /\ 4 * (size - 1) < n
      BY <2>2 DEF SizeToRemove, TooSparse
    <3> QED  BY <1>4, <3>1
  <2>3. CASE ~TooSparse(size - 1)
    BY <1>4, <2>1, <2>3 DEF SizeToRemove
  <2> QED  BY <2>2, <2>3
<1>6. Chained(kept, n, O)
  <2> DEFINE c == BucketOf(k, n)
             Of(b) == {y \in X : BucketOf(y.key, n) = b}
  <2>1. c \in 0..(n - 1)
    BY <1>1, DefinedBucket
  <2>2. Holds(Chain(k), Of(c))
    BY <1>2, <2>1 DEF Chained, Chain
  <2>3. Holds(Unlink(k), {y \in Of(c) : y.key # k})
    <3> HIDE DEF Of
    <3> QED  BY <2>2, UnlinkHolds
  <2>4. /\ O \in SUBSET Node
        /\ \A y \in O : BucketOf(y.key, n) \in 0..(n - 1)
        /\ {y \in O : BucketOf(y.key, n) = c} = {y \in Of(c) : y.key # k}
        /\ \A b \in 0..(n - 1) : b # c => {y \in O : BucketOf(y.key, n) = b} = Of(b)
    BY <1>2, OthersBuckets
  <2>5. Holds(Unlink(k), {y \in O : BucketOf(y.key, n) = c})
    BY <2>3, <2>4
  <2> HIDE DEF O, c
  <2>6. Chained([lists EXCEPT ![c] = Unlink(k)], n, O)
    BY <1>2, <2>1, <2>4, <2>5, ChainExchanged
  <2> QED  BY <2>6 DEF c
<1> HIDE DEF m, kept
<1>7. CASE m = n
  BY <1>1, <1>4, <1>5, <1>6, <1>7 DEF Held
<1>8. CASE m # n
  <2>1. \A y \in O : BucketOf(y.key, m) \in 0..(m - 1)
    <3>1. CASE m = 0
      <4>1. O = {}
        <5> HIDE DEF O
        <5> QED  BY <1>4, <1>5, <3>1, FS_EmptySet
      <4> QED  BY <4>1
    <3>2. CASE m # 0
      <4>1. \A y \in O : y.key \in Stored \ {k} /\ y.key \in Keys
        <5>1. \A y \in O : y \in X /\ y.key # k
          BY DEF Others
        <5>2. \A y \in X : y.key \in Keys
          BY DEF Held, Chained, Node
        <5>3. Stored = {y.key : y \in X}
          BY StoredKeys
        <5> HIDE DEF O
        <5> QED  BY <5>1, <5>2, <5>3
      <4>2. \A y \in O : BucketOf(y.key, m) >= 0
        BY <1>1, <4>1 DEF AllPlaceable
      <4>3. m > 0
        BY <1>5, <3>2
      <4> QED  BY <1>5, <4>1, <4>2, <4>3, BucketRange
    <3> QED  BY <3>1, <3>2
  <2>2. Chained(map_resize(kept, m), m, O)
    <3> HIDE DEF O
    <3> QED  BY <1>5, <1>6, <2>1, ResizeChains
  <2> QED  BY <1>1, <1>4, <1>5, <1>8, <2>2 DEF Held
<1> QED  BY <1>7, <1>8

LEMMA AddExistingHolds ==
    ASSUME n \in Nat, size \in Nat, size <= n, NEW X, Held(X),
           NEW k \in Keys, NEW v \in Values, AddExisting(k, v)
    PROVE  Held(With(X, k, v))' /\ n' \in Nat /\ size' \in Nat /\ size' <= n'
<1> DEFINE b == BucketOf(k, n)
           s == Chain(k)
           g == get(k)
           new == [s EXCEPT ![g].value = v]
           x == [key |-> k, value |-> v]
           Y == With(X, k, v)
           Of(c) == {y \in X : BucketOf(y.key, n) = c}
<1>1. /\ Defined(k) /\ Has(k)
      /\ n' = n /\ size' = size
      /\ lists' = [lists EXCEPT ![b][g].value = v]
  BY DEF AddExisting
<1>2. Chained(lists, n, X)
  BY DEF Held
<1>3. b \in 0..(n - 1) /\ g \in 1..Len(s) /\ s[g].key = k /\ s[g] \in X
  BY <1>1, <1>2, DefinedBucket, GetFinds
<1>4. Holds(s, Of(b))
  BY <1>2, <1>3 DEF Chained, Chain
<1> HIDE DEF g
<1>5. lists' = [lists EXCEPT ![b] = new]
  BY <1>1 DEF Chain
<1> HIDE DEF s
<1>6. x \in Node /\ x.key = k /\ x.value = v
  BY DEF Node
<1>7. /\ s \in Seq(Node) /\ new \in Seq(Node) /\ Len(new) = Len(s)
      /\ \A j \in 1..Len(s) : new[j] = IF j = g THEN x ELSE s[j]
  <2>1. s \in Seq(Node)
    BY <1>4 DEF Holds
  <2>2. s[g] \in Node /\ s[g] = [key |-> k, value |-> s[g].value]
    <3>1. s[g] \in Node
      BY <1>3, <2>1
    <3>2. \A y \in Node : y = [key |-> y.key, value |-> y.value]
      BY DEF Node
    <3> QED  BY <1>3, <3>1, <3>2
  <2>3. [s[g] EXCEPT !.value = v] = x
    BY <2>2
  <2>4. new = [s EXCEPT ![g] = [s[g] EXCEPT !.value = v]]
    OBVIOUS
  <2>5. new = [s EXCEPT ![g] = x]
    BY <2>3, <2>4
  <2> HIDE DEF new, x
  <2> QED  BY <1>3, <1>6, <2>1, <2>5
<1> HIDE DEF new
<1>8. \A j \in 1..Len(s) : s[j].key = k => j = g
  BY <1>3, <1>4 DEF Holds, OneEach
<1>9. Holds(new, {y \in Y : BucketOf(y.key, n) = b})
  <2>1. \A j \in 1..Len(s) : new[j].key = s[j].key
    BY <1>3, <1>6, <1>7
  <2>2. OneEach(new)
    BY <1>4, <1>7, <2>1 DEF OneEach, Holds
  <2>3. \A j \in 1..Len(s) : s[j] \in X /\ BucketOf(s[j].key, n) = b
    BY <1>4 DEF Holds, Elements
  <2>4. \A j \in 1..Len(new) : new[j] \in Y /\ BucketOf(new[j].key, n) = b
    <3> SUFFICES ASSUME NEW j \in 1..Len(s) PROVE new[j] \in Y /\ BucketOf(new[j].key, n) = b
      BY <1>7
    <3>1. CASE j = g
      BY <1>6, <1>7, <3>1 DEF With
    <3>2. CASE j # g
      <4>1. new[j] = s[j] /\ s[j].key # k
        BY <1>7, <1>8, <3>2
      <4> QED  BY <2>3, <4>1 DEF With, Others
    <3> QED  BY <3>1, <3>2
  <2>5. ASSUME NEW y \in Y, BucketOf(y.key, n) = b PROVE \E j \in 1..Len(new) : new[j] = y
    <3>1. CASE y = x
      BY <1>3, <1>7, <3>1
    <3>2. CASE y # x
      <4>1. y \in Of(b) /\ y.key # k
        BY <2>5, <3>2 DEF With, Others
      <4>2. PICK j \in 1..Len(s) : s[j] = y
        BY <1>4, <4>1 DEF Holds, Elements
      <4> QED  BY <1>3, <1>7, <4>1, <4>2
    <3> QED  BY <3>1, <3>2
  <2>6. Elements(new) = {y \in Y : BucketOf(y.key, n) = b}
    <3> HIDE DEF Y
    <3> QED  BY <2>4, <2>5 DEF Elements
  <2> QED  BY <1>7, <2>2, <2>6 DEF Holds
<1>10. /\ Y \in SUBSET Node
       /\ \A y \in Y : BucketOf(y.key, n) \in 0..(n - 1)
       /\ \A c \in 0..(n - 1) : c # b => {y \in Y : BucketOf(y.key, n) = c} = Of(c)
  <2>1. /\ Others(X, k) \in SUBSET Node
        /\ \A y \in Others(X, k) : BucketOf(y.key, n) \in 0..(n - 1)
        /\ \A c \in 0..(n - 1) : c # b =>
               {y \in Others(X, k) : BucketOf(y.key, n) = c} = Of(c)
    BY <1>2, OthersBuckets
  <2>2. \A y : y \in Y <=> y \in Others(X, k) \/ y = x
    BY DEF With
  <2>3. \A c \in 0..(n - 1) : c # b =>
            {y \in Y : BucketOf(y.key, n) = c} = {y \in Others(X, k) : BucketOf(y.key, n) = c}
    <3> HIDE DEF Y, x
    <3> QED  BY <1>6, <2>2
  <2> HIDE DEF Y, x, Of
  <2> QED  BY <1>3, <1>6, <2>1, <2>2, <2>3
<1>11. Chained([lists EXCEPT ![b] = new], n, Y)
  <2> HIDE DEF Y, b
  <2> QED  BY <1>2, <1>3, <1>9, <1>10, ChainExchanged
<1>12. IsFiniteSet(Y) /\ Cardinality(Y) = size
  <2>1. /\ IsFiniteSet(Others(X, k))
        /\ Cardinality(Others(X, k)) = size - 1
        /\ size \in Nat \ {0}
    BY <1>3, OthersCount
  <2> QED  BY <2>1, WithCount
<1> HIDE DEF Y, b
<1>13. Chained(lists', n', Y)
  BY <1>1, <1>5, <1>11
<1>14. Held(Y)'
  BY <1>1, <1>12, <1>13 DEF Held
<1> QED  BY <1>1, <1>14 DEF Y

-----------------------------------------------------------------------------
(***************************************************************************)
(* The map as a dictionary: what it maps a key to depends on its nodes     *)
(* only.                                                                   *)
(***************************************************************************)
ValueIn(X, k) ==
    IF \E x \in X : x.key = k THEN (CHOOSE x \in X : x.key = k).value ELSE NULL

DictOf(X) == [k \in Keys |-> ValueIn(X, k)]

Mapped == [k \in Keys |-> IF Defined(k) /\ Has(k) THEN Chain(k)[get(k)].value ELSE NULL]

MappedByNodes == n \in Nat => \A X : Held(X) => Mapped = DictOf(X)

LEMMA MappedHeld == MappedByNodes
<1> SUFFICES ASSUME n \in Nat, NEW X, Held(X), NEW k \in Keys
             PROVE  (IF Defined(k) /\ Has(k) THEN Chain(k)[get(k)].value ELSE NULL)
                        = ValueIn(X, k)
  BY DEF Mapped, MappedByNodes, DictOf
<1>1. Chained(lists, n, X)
  BY DEF Held
<1>2. (\E x \in X : x.key = k) <=> Defined(k) /\ Has(k)
  BY <1>1, KeyFound
<1>3. CASE Defined(k) /\ Has(k)
  <2>1. Chain(k)[get(k)] \in X /\ Chain(k)[get(k)].key = k
    BY <1>1, <1>3, GetFinds
  <2> DEFINE y == CHOOSE x \in X : x.key = k
  <2>2. y \in X /\ y.key = k
    BY <2>1
  <2> HIDE DEF y
  <2>3. Chain(k)[get(k)] = y
    BY <1>1, <2>1, <2>2, ChainedKeys
  <2> QED  BY <1>2, <1>3, <2>3 DEF ValueIn, y
<1>4. CASE ~(Defined(k) /\ Has(k))
  BY <1>2, <1>4 DEF ValueIn
<1> QED  BY <1>3, <1>4

LEMMA MappedWith ==
    ASSUME NEW X, NEW k \in Keys, NEW v
    PROVE  DictOf(With(X, k, v)) = [DictOf(X) EXCEPT ![k] = v]
<1> DEFINE Y == With(X, k, v)
           x == [key |-> k, value |-> v]
<1>1. \A y : y \in Y <=> (y \in X /\ y.key # k) \/ y = x
  BY DEF With, Others
<1>2. ValueIn(Y, k) = v
  <2>1. x \in Y /\ x.key = k /\ x.value = v /\ \A y \in Y : y.key = k => y = x
    BY <1>1
  <2> HIDE DEF Y, x
  <2> DEFINE y == CHOOSE z \in Y : z.key = k
  <2>2. y \in Y /\ y.key = k
    BY <2>1
  <2>3. y = x
    BY <2>1, <2>2
  <2> QED  BY <2>1, <2>3 DEF ValueIn
<1>3. ASSUME NEW c \in Keys, c # k PROVE ValueIn(Y, c) = ValueIn(X, c)
  <2>1. x.key = k
    OBVIOUS
  <2> HIDE DEF Y, x
  <2>2. \A y : y \in Y /\ y.key = c <=> y \in X /\ y.key = c
    BY <1>1, <1>3, <2>1
  <2>3. (CHOOSE y : y \in Y /\ y.key = c) = (CHOOSE y : y \in X /\ y.key = c)
    BY <2>2
  <2>4. (CHOOSE y \in Y : y.key = c) = (CHOOSE y \in X : y.key = c)
    BY <2>3
  <2> QED  BY <2>2, <2>4 DEF ValueIn
<1> HIDE DEF Y
<1>4. [c \in Keys |-> ValueIn(Y, c)] = [[c \in Keys |-> ValueIn(X, c)] EXCEPT ![k] = v]
  BY <1>2, <1>3
<1> QED  BY <1>4 DEF Y, DictOf

LEMMA MappedOthers ==
    ASSUME NEW X, NEW k \in Keys
    PROVE  DictOf(Others(X, k)) = [DictOf(X) EXCEPT ![k] = NULL]
<1> DEFINE Y == Others(X, k)
<1>1. \A y : y \in Y <=> y \in X /\ y.key # k
  BY DEF Others
<1> HIDE DEF Y
<1>2. ValueIn(Y, k) = NULL
  BY <1>1 DEF ValueIn
<1>3. ASSUME NEW c \in Keys, c # k PROVE ValueIn(Y, c) = ValueIn(X, c)
  <2>1. \A y : y \in Y /\ y.key = c <=> y \in X /\ y.key = c
    BY <1>1, <1>3
  <2>2. (CHOOSE y : y \in Y /\ y.key = c) = (CHOOSE y : y \in X /\ y.key = c)
    BY <2>1
  <2>3. (CHOOSE y \in Y : y.key = c) = (CHOOSE y \in X : y.key = c)
    BY <2>2
  <2> QED  BY <2>1, <2>3 DEF ValueIn
<1>4. [c \in Keys |-> ValueIn(Y, c)] = [[c \in Keys |-> ValueIn(X, c)] EXCEPT ![k] = NULL]
  BY <1>2, <1>3
<1> QED  BY <1>4 DEF Y, DictOf

-----------------------------------------------------------------------------
(***************************************************************************)
(* The invariant of hash.c, its steps, and what follows from it.           *)
(***************************************************************************)
MapInv == TypeOK /\ LoadBound /\ \E X : Held(X)

\* The steps of the map as Dictionary has them.
MapsAs(k, v) == Mapped' = [Mapped EXCEPT ![k] = v] /\ answer' = answer
LooksUp(k) == answer' = Mapped[k] /\ Mapped' = Mapped
DictStep ==
    \/ \E k \in Keys : LooksUp(k) \/ MapsAs(k, NULL) \/ \E v \in Values : MapsAs(k, v)
    \/ Mapped' = Mapped /\ answer' = answer

LEMMA DictStepIsDictionary == DictStep => [Abstract!Next]_Abstract!vars
BY DEF DictStep, MapsAs, LooksUp, Mapped, Abstract!Next, Abstract!vars, Abstract!Add,
       Abstract!Remove, Abstract!Lookup

LEMMA HeldListTypes ==
    ASSUME NEW X, Held(X)
    PROVE  lists \in [0..(n - 1) -> Seq(Node)]
BY DEF Held, Chained

LEMMA MapInit == Init => MapInv /\ Mapped = [k \in Keys |-> NULL]
<1> SUFFICES ASSUME Init PROVE MapInv /\ Mapped = [k \in Keys |-> NULL]
  OBVIOUS
<1>1. /\ n = Buckets /\ n \in Nat /\ size = 0 /\ answer = NULL /\ ended = "no"
      /\ lists = [b \in 0..(n - 1) |-> <<>>]
  BY MapAssumption DEF Init
<1>2. Chained(lists, n, {})
  BY <1>1, ChainedNothing
<1>3. Held({})
  BY <1>1, <1>2, FS_EmptySet DEF Held
<1>4. lists \in [0..(n - 1) -> Seq(Node)]
  BY <1>3, HeldListTypes
<1>5. MapInv
  BY <1>1, <1>3, <1>4 DEF MapInv, TypeOK, LoadBound
<1>6. Mapped = DictOf({})
  BY <1>1, <1>3, MappedHeld DEF MappedByNodes
<1>7. \A k \in Keys : ValueIn({}, k) = NULL
  BY DEF ValueIn
<1> QED  BY <1>5, <1>6, <1>7 DEF DictOf

LEMMA MapKept ==
    ASSUME MapInv, UNCHANGED <<n, size, lists>>, answer' \in Values \cup {NULL},
           ended' \in {"no", "division by zero", "outside lists", "freed"}
    PROVE  MapInv' /\ Mapped' = Mapped
<1>1. Mapped' = Mapped
  <2>1. n' = n /\ lists' = lists
    OBVIOUS
  <2>2. \A k : Chain(k)' = Chain(k) /\ (Defined(k)' <=> Defined(k))
    BY <2>1 DEF Chain, Defined
  <2>3. \A k : get(k)' = get(k) /\ (Has(k)' <=> Has(k))
    BY <2>2 DEF get, Has
  <2> QED  BY <2>2, <2>3 DEF Mapped
<1>2. \A X : Held(X)' <=> Held(X)
  BY DEF Held
<1>3. TypeOK' /\ LoadBound'
  BY DEF MapInv, TypeOK, LoadBound
<1> QED  BY <1>1, <1>2, <1>3 DEF MapInv

LEMMA MapStep ==
    ASSUME MapInv, Next
    PROVE  MapInv' /\ DictStep
<1>1. /\ n \in Nat /\ size \in Nat /\ size <= n
      /\ answer \in Values \cup {NULL}
      /\ ended \in {"no", "division by zero", "outside lists", "freed"}
  BY DEF MapInv, TypeOK, LoadBound
<1>2. PICK X : Held(X)
  BY DEF MapInv
<1>3. Mapped = DictOf(X)
  BY <1>1, <1>2, MappedHeld DEF MappedByNodes
<1>4. MappedByNodes'
  BY MappedHeld, PTL
\* A call that changes the nodes to those of Y.
<1>5. ASSUME NEW Y, Held(Y)', n' \in Nat, size' \in Nat, size' <= n',
             answer' = answer, ended' = ended
      PROVE  MapInv' /\ Mapped' = DictOf(Y)
  <2>1. lists' \in [0..(n' - 1) -> Seq(Node)]
    BY <1>5 DEF Held, Chained
  <2>2. TypeOK' /\ LoadBound'
    BY <1>1, <1>5, <2>1 DEF TypeOK, LoadBound
  <2>3. Mapped' = DictOf(Y)
    BY <1>4, <1>5 DEF MappedByNodes
  <2> QED  BY <1>5, <2>2, <2>3 DEF MapInv
<1>6. ASSUME NEW k \in Keys, NEW v \in Values, AddExisting(k, v) \/ AddNew(k, v)
      PROVE  MapInv' /\ DictStep
  <2>1. Held(With(X, k, v))' /\ n' \in Nat /\ size' \in Nat /\ size' <= n'
    BY <1>1, <1>2, <1>6, AddExistingHolds, AddNewHolds
  <2>2. answer' = answer /\ ended' = ended
    BY <1>6 DEF AddExisting, AddNew
  <2>3. PICK Y : Y = With(X, k, v)
    OBVIOUS
  <2>4. MapInv' /\ Mapped' = DictOf(With(X, k, v))
    BY <1>5, <2>1, <2>2, <2>3
  <2>5. MapsAs(k, v)
    BY <1>3, <2>2, <2>4, MappedWith DEF MapsAs
  <2> QED  BY <2>4, <2>5 DEF DictStep
<1>7. ASSUME NEW k \in Keys, RemovePresent(k)
      PROVE  MapInv' /\ DictStep
  <2>1. Held(Others(X, k))' /\ n' \in Nat /\ size' \in Nat /\ size' <= n'
    BY <1>1, <1>2, <1>7, RemovePresentHolds
  <2>2. answer' = answer /\ ended' = ended
    BY <1>7 DEF RemovePresent
  <2>3. MapInv' /\ Mapped' = DictOf(Others(X, k))
    BY <1>5, <2>1, <2>2
  <2>4. MapsAs(k, NULL)
    BY <1>3, <2>2, <2>3, MappedOthers DEF MapsAs
  <2> QED  BY <2>3, <2>4 DEF DictStep
<1>8. ASSUME NEW k \in Keys, Lookup(k)
      PROVE  MapInv' /\ DictStep
  <2>1. answer' = Mapped[k] /\ UNCHANGED <<n, size, lists, ended>>
    BY <1>8 DEF Lookup, Mapped
  <2>2. Mapped[k] \in Values \cup {NULL}
    <3>1. Chained(lists, n, X)
      BY <1>2 DEF Held
    <3>2. Defined(k) /\ Has(k) => Chain(k)[get(k)] \in X
      BY <1>1, <3>1, GetFinds
    <3>3. \A x \in X : x.value \in Values
      BY <3>1 DEF Chained, Node
    <3> QED  BY <3>2, <3>3 DEF Mapped
  <2>3. MapInv' /\ Mapped' = Mapped
    BY <1>1, <2>1, <2>2, MapKept
  <2> QED  BY <2>1, <2>3 DEF DictStep, LooksUp
<1>9. ASSUME UNCHANGED <<n, size, lists, answer>>,
             ended' \in {"no", "division by zero", "outside lists", "freed"}
      PROVE  MapInv' /\ DictStep
  BY <1>1, <1>9, MapKept DEF DictStep
<1>10. ASSUME NEW k \in Keys, Undefined(k) \/ ResizeOutside(k) \/ RemoveAbsent(k)
       PROVE  MapInv' /\ DictStep
  <2>1. UNCHANGED <<n, size, lists, answer>>
    BY <1>10 DEF Undefined, ResizeOutside, RemoveAbsent, vars
  <2>2. ended' \in {"no", "division by zero", "outside lists", "freed"}
    BY <1>1, <1>10 DEF Undefined, ResizeOutside, RemoveAbsent, vars
  <2> QED  BY <1>9, <2>1, <2>2
<1>11. ASSUME Free \/ Ended
       PROVE  MapInv' /\ DictStep
  <2>1. UNCHANGED <<n, size, lists, answer>>
    BY <1>11 DEF Free, Ended, vars
  <2>2. ended' \in {"no", "division by zero", "outside lists", "freed"}
    BY <1>1, <1>11 DEF Free, Ended, vars
  <2> QED  BY <1>9, <2>1, <2>2
<1> QED  BY <1>6, <1>7, <1>8, <1>10, <1>11 DEF Next

\* size counts the places at which there is a node.
LEMMA MapShape == MapInv => WellFormed
<1> SUFFICES ASSUME MapInv PROVE WellFormed
  OBVIOUS
<1>1. n \in Nat
  BY DEF MapInv, TypeOK
<1>2. PICK X : Held(X)
  BY DEF MapInv
<1> DEFINE P == Positions
           Of(b) == {x \in X : BucketOf(x.key, n) = b}
<1>3. \A p \in P : /\ p[1] \in 0..(n - 1)
                   /\ p[2] \in 1..Len(lists[p[1]])
                   /\ p = <<p[1], p[2]>>
  BY DEF Positions
<1>4. \A b \in 0..(n - 1) : \A j \in 1..Len(lists[b]) :
          /\ <<b, j>> \in P
          /\ NodeAt(<<b, j>>) = lists[b][j]
  BY DEF Positions, NodeAt
<1>5. \A b \in 0..(n - 1) : Holds(lists[b], Of(b))
  BY <1>2 DEF Held, Chained
<1>6. \A p \in P : NodeAt(p) \in X /\ BucketOf(NodeAt(p).key, n) = p[1]
  BY <1>3, <1>5 DEF NodeAt, Holds, Elements
<1>7. ASSUME NEW p \in P, NEW r \in P, NodeAt(p).key = NodeAt(r).key PROVE p = r
  <2>1. p[1] = r[1]
    BY <1>6, <1>7
  <2>2. p[2] = r[2]
    BY <1>3, <1>5, <1>7, <2>1 DEF NodeAt, Holds, OneEach
  <2> QED  BY <1>3, <2>1, <2>2
<1>8. ASSUME NEW x \in X PROVE \E p \in P : NodeAt(p) = x
  <2> DEFINE b == BucketOf(x.key, n)
  <2>1. b \in 0..(n - 1) /\ x \in Of(b)
    BY <1>2 DEF Held, Chained
  <2>2. PICK j \in 1..Len(lists[b]) : lists[b][j] = x
    BY <1>5, <2>1 DEF Holds, Elements
  <2> HIDE DEF b
  <2> QED  BY <1>4, <2>1, <2>2
<1>9. Cardinality(P) = size
  <2> DEFINE f == [p \in P |-> NodeAt(p)]
  <2>1. f \in Injection(P, X)
    BY <1>6, <1>7 DEF Injection, IsInjective
  <2>2. f \in Surjection(P, X)
    BY <1>6, <1>8 DEF Surjection
  <2>3. IsFiniteSet(X) /\ Cardinality(X) = size
    BY <1>2 DEF Held
  <2> HIDE DEF f, P
  <2> QED  BY <2>1, <2>2, <2>3, FS_Injection
<1> QED  BY <1>6, <1>7, <1>9 DEF WellFormed

-----------------------------------------------------------------------------
\* A behaviour of the program of the run is one of hash.c, or of another one.
OfHash == which = "hash.c" => MapInv

LEMMA OfHashInit == MCInit => OfHash
BY MapInit DEF MCInit, OfHash

LEMMA OfHashStep ==
    ASSUME OfHash, [MCNext]_<<which, mapvars, listvars>>
    PROVE  OfHash' /\ (which = "hash.c" => DictStep)
<1>1. CASE which # "hash.c"
  <2>1. which' = which
    BY DEF MCNext
  <2> QED  BY <1>1, <2>1 DEF OfHash
<1>2. CASE which = "hash.c" /\ MCNext
  <2>1. Next /\ which' = which
    BY <1>2 DEF MCNext
  <2> QED  BY <1>2, <2>1, MapStep DEF OfHash
<1>3. CASE which = "hash.c" /\ UNCHANGED <<which, mapvars, listvars>>
  <2>1. MapInv /\ UNCHANGED <<n, size, lists, answer, ended>> /\ which' = which
    BY <1>3 DEF OfHash, mapvars
  <2>2. MapInv' /\ Mapped' = Mapped
    BY <2>1, MapKept DEF MapInv, TypeOK
  <2> QED  BY <2>1, <2>2 DEF OfHash, DictStep
<1> QED  BY <1>1, <1>2, <1>3

LEMMA OfHashAlways == MCSpec => []OfHash
BY OfHashInit, OfHashStep, PTL DEF MCSpec

\* hash.c keeps every node in the bucket of its key, one node for a key, size
\* as their number and no more keys than buckets, however it grows, shrinks
\* and rehashes: for any keys and hashes, negative ones too, any values and
\* any number of buckets to begin with.
THEOREM MapCorrect == MCSpec => []MapWellFormed
<1>1. OfHash => MapWellFormed
  BY MapShape DEF OfHash, MapWellFormed, MapInv
<1> QED  BY <1>1, OfHashAlways, PTL

\* hash.c implements Dictionary: every call adds, removes or looks up one key
\* as Dictionary does, or changes nothing it shows, also when it resizes.
THEOREM DictionaryImplemented == MCSpec => MapImplementsDictionary
<1>1. MCInit => (which = "hash.c" => Abstract!Init)
  BY MapInit DEF MCInit, Init, Abstract!Init, Mapped
<1>2. OfHash /\ [MCNext]_<<which, mapvars, listvars>>
          => [which = "hash.c" => [Abstract!Next]_Abstract!vars]_mapvars
  BY OfHashStep, DictStepIsDictionary
<1> QED  BY <1>1, <1>2, OfHashAlways, PTL DEF MCSpec, MapImplementsDictionary

-----------------------------------------------------------------------------
(***************************************************************************)
(* Nodes linked by pointers.  c is a heap (cell, now or after a step), and *)
(* Path(c, h) what Walk(h) is in it.                                       *)
(***************************************************************************)
Path(c, h) ==
    LET p[k \in 0..Cardinality(Addresses)] ==
            IF k = 0 THEN h ELSE IF p[k - 1] = NULL THEN NULL ELSE c[p[k - 1]].next
    IN p

Reached(c, h) == {Path(c, h)[k] : k \in 0..Cardinality(Addresses)} \ {NULL}

\* The pointers of T stay in T.
Closed(c, T) == NULL \notin T /\ \A a \in T : c[a].next \in T \cup {NULL}

\* And each pointer leads further down, so no walk in T comes back.
Descends(c, T, rank) ==
    rank \in [T -> Nat] /\ \A a \in T : c[a].next # NULL => rank[c[a].next] < rank[a]
Sound(c, T) == Closed(c, T) /\ T \subseteq Addresses /\ \E rank : Descends(c, T, rank)

LEMMA AddressesFinite ==
    /\ IsFiniteSet(Addresses) /\ Cardinality(Addresses) \in Nat
    /\ NULL \notin Addresses /\ ListVals \subseteq Int
<1>1. List06!IsFiniteSet(Addresses) => IsFiniteSet(Addresses)
  BY Zenon DEF List06!IsFiniteSet, IsFiniteSet
<1> QED  BY <1>1, AddressAssumption, FS_CardinalityType DEF List06!ListAssumption

LEMMA PathMoves ==
    ASSUME NEW c, NEW T, Closed(c, T), NEW h \in T \cup {NULL}
    PROVE  /\ Path(c, h) \in [0..Cardinality(Addresses) -> T \cup {NULL}]
           /\ Path(c, h)[0] = h
           /\ \A k \in 1..Cardinality(Addresses) :
                 Path(c, h)[k] = IF Path(c, h)[k - 1] = NULL THEN NULL
                                 ELSE c[Path(c, h)[k - 1]].next
<1> DEFINE N == Cardinality(Addresses)
           S == T \cup {NULL}
           step == [k \in 1..N |-> [a \in S |-> IF a = NULL THEN NULL ELSE c[a].next]]
           F(w) == [k \in 0..N |-> IF k = 0 THEN h
                                   ELSE IF w[k - 1] = NULL THEN NULL ELSE c[w[k - 1]].next]
           p == CHOOSE w : w = F(w)
<1>1. N \in Nat
  BY AddressesFinite
<1>2. /\ \A k \in 1..N : k - 1 \in 0..N /\ k # 0
      /\ \A k \in 0..N : k = 0 \/ k \in 1..N
  BY <1>1
<1> HIDE DEF N
<1>3. PICK g : Repeats(g, N, S, h, step)
  <2>1. Steps(step, N, S)
    BY DEF Steps, Closed
  <2> HIDE DEF step, S
  <2> QED  BY <1>1, <2>1, RecursionExists DEF S
<1>4. \A k \in 1..N : g[k] = IF g[k - 1] = NULL THEN NULL ELSE c[g[k - 1]].next
  BY <1>2, <1>3 DEF Repeats
<1>5. g = F(g)
  BY <1>2, <1>3, <1>4 DEF Repeats
<1>6. p = F(p)
  <2> HIDE DEF F
  <2> QED  BY <1>5
<1>7. Path(c, h) = p
  BY DEF Path, N
<1>8. /\ p[0] = h
      /\ \A k \in 1..N : p[k] = IF p[k - 1] = NULL THEN NULL ELSE c[p[k - 1]].next
      /\ p = [k \in 0..N |-> p[k]]
  <2> HIDE DEF p
  <2> QED  BY <1>1, <1>2, <1>6
<1> DEFINE In == {k \in 0..N : p[k] \in S}
<1> HIDE DEF p, F, step
<1>9. \A k \in 0..N : k \in In
  <2>1. 0 \in In
    BY <1>1, <1>8
  <2>2. \A k \in 1..N : k - 1 \in In => k \in In
    <3> SUFFICES ASSUME NEW k \in 1..N, p[k - 1] \in S PROVE k \in 0..N /\ p[k] \in S
      OBVIOUS
    <3>1. p[k] = IF p[k - 1] = NULL THEN NULL ELSE c[p[k - 1]].next
      BY <1>8
    <3> QED  BY <1>1, <3>1 DEF Closed
  <2> HIDE DEF In
  <2> QED  BY <1>1, <2>1, <2>2, BoundedInduction
<1>10. p \in [0..N -> S]
  BY <1>8, <1>9
<1> QED  BY <1>7, <1>8, <1>10 DEF N

\* What is reached stays in a set that the pointers do not leave.
LEMMA ReachedInside ==
    ASSUME NEW c, NEW T, Closed(c, T), NEW h \in T \cup {NULL}
    PROVE  Reached(c, h) \subseteq T
<1> DEFINE p == Path(c, h)
<1>1. p \in [0..Cardinality(Addresses) -> T \cup {NULL}]
  BY PathMoves
<1>2. Reached(c, h) = {p[k] : k \in 0..Cardinality(Addresses)} \ {NULL}
  BY DEF Reached
<1> HIDE DEF p
<1> QED  BY <1>1, <1>2

\* A walk down ends within as many steps as there are nodes.
LEMMA PathEnds ==
    ASSUME NEW c, NEW T, Sound(c, T), NEW h \in T \cup {NULL}
    PROVE  Path(c, h)[Cardinality(Addresses)] = NULL
<1> DEFINE N == Cardinality(Addresses)
           p == Path(c, h)
<1>1. N \in Nat /\ IsFiniteSet(Addresses)
  BY AddressesFinite
<1>2. /\ p \in [0..N -> T \cup {NULL}]
      /\ \A k \in 1..N : p[k] = IF p[k - 1] = NULL THEN NULL ELSE c[p[k - 1]].next
  BY PathMoves DEF Sound
<1>3. PICK rank : Descends(c, T, rank)
  BY DEF Sound
<1> HIDE DEF p, N
<1> SUFFICES ASSUME p[N] # NULL PROVE FALSE
  BY DEF p, N
<1> DEFINE U == {k \in 0..N : p[k] # NULL => \A j \in 0..k : p[j] # NULL}
<1>4. \A k \in 0..N : k \in U
  <2>1. 0 \in U
    BY <1>1
  <2>2. \A k \in 1..N : k - 1 \in U => k \in U
    <3> SUFFICES ASSUME NEW k \in 1..N, k - 1 \in U, p[k] # NULL, NEW j \in 0..k
                 PROVE  p[j] # NULL
      BY <1>1
    <3>1. p[k - 1] # NULL
      BY <1>2
    <3>2. j = k \/ j \in 0..(k - 1)
      OBVIOUS
    <3> QED  BY <3>1, <3>2
  <2> HIDE DEF U
  <2> QED  BY <1>1, <2>1, <2>2, BoundedInduction
<1>5. \A k \in 0..N : p[k] \in T
  <2>1. N \in U
    BY <1>1, <1>4
  <2> QED  BY <1>2, <2>1
<1>6. PICK x, y \in 0..N : x < y /\ p[x] = p[y]
  <2>1. IsFiniteSet(0..N) /\ Cardinality(0..N) = N + 1
    BY <1>1, FS_Interval
  <2>2. p \in [0..N -> Addresses]
    BY <1>2, <1>5 DEF Sound
  <2>3. \E x, y \in 0..N : x # y /\ p[x] = p[y]
    BY <1>1, <2>1, <2>2, FS_PigeonHole DEF N
  <2> QED  BY <2>3
<1> DEFINE V == {k \in 0..N : k > x => rank[p[k]] < rank[p[x]]}
<1>7. \A k \in 0..N : k \in V
  <2>1. 0 \in V
    BY <1>1
  <2>2. \A k \in 1..N : k - 1 \in V => k \in V
    <3> SUFFICES ASSUME NEW k \in 1..N, k - 1 \in V, k > x
                 PROVE  rank[p[k]] < rank[p[x]]
      BY <1>1
    <3>1. k - 1 \in 0..N /\ k \in 0..N /\ (k - 1 = x \/ k - 1 > x)
      BY <1>1
    <3>2. p[k] = c[p[k - 1]].next /\ p[k] # NULL
      BY <1>2, <1>5, <3>1 DEF Sound, Closed
    <3>3. rank[p[k]] < rank[p[k - 1]]
      BY <1>3, <1>5, <3>1, <3>2 DEF Descends
    <3>4. rank[p[k]] \in Nat /\ rank[p[k - 1]] \in Nat /\ rank[p[x]] \in Nat
      BY <1>3, <1>5, <3>1 DEF Descends
    <3> QED  BY <3>1, <3>3, <3>4
  <2> HIDE DEF V
  <2> QED  BY <1>1, <2>1, <2>2, BoundedInduction
<1>8. rank[p[y]] < rank[p[x]] /\ rank[p[y]] \in Nat
  BY <1>3, <1>5, <1>6, <1>7 DEF Descends
<1> QED  BY <1>6, <1>8

\* A set that is sound is sound without the nodes that lead nowhere into it.
LEMMA SoundPart ==
    ASSUME NEW c, NEW T, Sound(c, T), NEW U, U \subseteq T, Closed(c, U)
    PROVE  Sound(c, U)
<1>1. PICK rank : Descends(c, T, rank)
  BY DEF Sound
<1> DEFINE below == [a \in U |-> rank[a]]
<1>2. below \in [U -> Nat] /\ \A a \in U : below[a] = rank[a]
  BY <1>1 DEF Descends
<1> HIDE DEF below
<1>3. Descends(c, U, below)
  BY <1>1, <1>2 DEF Descends, Closed
<1> QED  BY <1>3 DEF Sound

\* h is the first node of a list that ends.
Ends(c, h) == \E T : Sound(c, T) /\ h \in T \cup {NULL}

LEMMA ReachedSound ==
    ASSUME NEW c, NEW h, Ends(c, h)
    PROVE  /\ Sound(c, Reached(c, h))
           /\ h \in Reached(c, h) \cup {NULL}
           /\ h = NULL => Reached(c, h) = {}
           /\ \A T : Closed(c, T) /\ h \in T \cup {NULL} => Reached(c, h) \subseteq T
<1> DEFINE N == Cardinality(Addresses)
           p == Path(c, h)
<1>1. PICK T : Sound(c, T) /\ h \in T \cup {NULL}
  BY DEF Ends
<1>2. N \in Nat
  BY AddressesFinite
<1>3. /\ p \in [0..N -> T \cup {NULL}]
      /\ p[0] = h
      /\ \A k \in 1..N : p[k] = IF p[k - 1] = NULL THEN NULL ELSE c[p[k - 1]].next
  BY <1>1, PathMoves DEF Sound
<1>4. p[N] = NULL
  BY <1>1, PathEnds
<1>5. Reached(c, h) = {p[k] : k \in 0..N} \ {NULL}
  BY DEF Reached
<1> HIDE DEF p, N
<1>6. Closed(c, Reached(c, h))
  <2> SUFFICES ASSUME NEW a \in Reached(c, h)
               PROVE  c[a].next \in Reached(c, h) \cup {NULL}
    BY <1>5 DEF Closed
  <2>1. PICK k \in 0..N : a = p[k] /\ a # NULL
    BY <1>5
  <2>2. k # N /\ k + 1 \in 1..N /\ k + 1 \in 0..N /\ (k + 1) - 1 = k
    BY <1>2, <1>4, <2>1
  <2>3. p[k + 1] = c[a].next
    BY <1>3, <2>1, <2>2
  <2> QED  BY <1>5, <2>2, <2>3
<1>7. Reached(c, h) \subseteq T
  BY <1>1, ReachedInside DEF Sound
<1>8. Sound(c, Reached(c, h))
  BY <1>1, <1>6, <1>7, SoundPart
<1>9. h \in Reached(c, h) \cup {NULL}
  BY <1>2, <1>3, <1>5
<1>10. ASSUME h = NULL PROVE Reached(c, h) = {}
  <2>1. Closed(c, {})
    BY DEF Closed
  <2> QED  BY <1>10, <2>1, ReachedInside
<1> QED  BY <1>8, <1>9, <1>10, ReachedInside

LEMMA ListTail ==
    ASSUME NEW c, NEW x, Ends(c, x), x # NULL
    PROVE  /\ x \in Addresses
           /\ Ends(c, c[x].next)
           /\ x \notin Reached(c, c[x].next)
           /\ Reached(c, x) = {x} \cup Reached(c, c[x].next)
<1> DEFINE T == Reached(c, x)
           y == c[x].next
           R == Reached(c, y)
<1>1. Sound(c, T) /\ x \in T
  BY ReachedSound
<1>2. PICK rank : Descends(c, T, rank)
  BY <1>1 DEF Sound
<1>3. y \in T \cup {NULL} /\ Closed(c, T) /\ T \subseteq Addresses
  BY <1>1 DEF Sound, Closed
<1>4. Ends(c, y)
  BY <1>1, <1>3 DEF Ends
<1>5. /\ Sound(c, R) /\ y \in R \cup {NULL}
      /\ \A U : Closed(c, U) /\ y \in U \cup {NULL} => R \subseteq U
  BY <1>4, ReachedSound
<1>6. \A U : Closed(c, U) /\ x \in U => T \subseteq U
  BY ReachedSound
<1> HIDE DEF T, R
<1>7. T \subseteq {x} \cup R
  <2>1. Closed(c, {x} \cup R)
    BY <1>5, <1>1, <1>3 DEF Closed, Sound
  <2> QED  BY <1>6, <2>1
<1>8. R \subseteq T
  BY <1>3, <1>5
<1>9. x \notin R
  <2> DEFINE U == {a \in T : rank[a] < rank[x]}
  <2>1. y \in U \cup {NULL}
    BY <1>1, <1>2, <1>3 DEF Descends
  <2>2. Closed(c, U)
    <3> SUFFICES ASSUME NEW a \in T, rank[a] < rank[x], c[a].next # NULL
                 PROVE  c[a].next \in T /\ rank[c[a].next] < rank[x]
      BY <1>3 DEF Closed
    <3>1. c[a].next \in T
      BY <1>3 DEF Closed
    <3>2. rank[c[a].next] < rank[a]
      BY <1>2 DEF Descends
    <3>3. rank[c[a].next] \in Nat /\ rank[a] \in Nat /\ rank[x] \in Nat
      BY <1>1, <1>2, <3>1 DEF Descends
    <3> QED  BY <3>1, <3>2, <3>3
  <2>3. x \notin U
    BY <1>1, <1>2 DEF Descends
  <2> HIDE DEF U
  <2> QED  BY <1>5, <2>1, <2>2, <2>3
<1>10. T = {x} \cup R
  BY <1>1, <1>7, <1>8
<1>11. x \in Addresses
  BY <1>1, <1>3
<1> QED  BY <1>4, <1>9, <1>10, <1>11 DEF T, R

\* Steps that leave the pointers of a list alone leave the list alone.
LEMMA SameList ==
    ASSUME NEW c, NEW h, Ends(c, h), NEW d,
           \A a \in Reached(c, h) : d[a].next = c[a].next
    PROVE  Ends(d, h) /\ Reached(d, h) = Reached(c, h)
<1> DEFINE R == Reached(c, h)
<1>1. /\ Sound(c, R) /\ h \in R \cup {NULL}
      /\ \A T : Closed(c, T) /\ h \in T \cup {NULL} => R \subseteq T
  BY ReachedSound
<1> HIDE DEF R
<1>2. Sound(d, R)
  <2>1. \A a \in R : d[a].next = c[a].next
    BY DEF R
  <2>2. PICK rank : Descends(c, R, rank)
    BY <1>1 DEF Sound
  <2>3. Descends(d, R, rank)
    BY <2>1, <2>2 DEF Descends
  <2> QED  BY <1>1, <2>1, <2>3 DEF Sound, Closed
<1>3. Ends(d, h)
  BY <1>1, <1>2 DEF Ends
<1>4. /\ Sound(d, Reached(d, h)) /\ h \in Reached(d, h) \cup {NULL}
      /\ Reached(d, h) \subseteq R
  BY <1>1, <1>2, <1>3, ReachedSound DEF Sound
<1>5. Closed(c, Reached(d, h))
  BY <1>4 DEF Sound, Closed, R
<1> QED  BY <1>1, <1>3, <1>4, <1>5 DEF R

\* A node put before a list.
LEMMA ListCons ==
    ASSUME NEW c, NEW h, Ends(c, h), NEW x \in Addresses, x \notin Reached(c, h),
           NEW d, d[x].next = h, \A a \in Reached(c, h) : d[a].next = c[a].next
    PROVE  Ends(d, x) /\ Reached(d, x) = {x} \cup Reached(c, h)
<1> DEFINE R == Reached(c, h)
<1>1. Ends(d, h) /\ Reached(d, h) = R
  BY SameList
<1>2. Sound(d, R) /\ h \in R \cup {NULL}
  BY <1>1, ReachedSound
<1>3. PICK rank : Descends(d, R, rank)
  BY <1>2 DEF Sound
<1>4. x # NULL /\ x \notin R
  BY AddressesFinite
<1> HIDE DEF R
<1> DEFINE above == [a \in {x} \cup R |->
                        IF a = x THEN (IF h = NULL THEN 0 ELSE rank[h] + 1) ELSE rank[a]]
<1>5. above \in [{x} \cup R -> Nat]
  BY <1>2, <1>3 DEF Descends
<1>6. Descends(d, {x} \cup R, above)
  <2>1. h # NULL => above[h] = rank[h] /\ above[x] = rank[h] + 1 /\ rank[h] \in Nat
    BY <1>2, <1>3, <1>4 DEF Descends
  <2>2. \A a \in R : /\ above[a] = rank[a]
                     /\ d[a].next # NULL => /\ above[d[a].next] = rank[d[a].next]
                                            /\ rank[d[a].next] < rank[a]
    BY <1>2, <1>3, <1>4 DEF Descends, Sound, Closed
  <2> HIDE DEF above
  <2> QED  BY <1>5, <2>1, <2>2 DEF Descends
<1>7. Sound(d, {x} \cup R)
  <2> HIDE DEF above
  <2> QED  BY <1>2, <1>4, <1>6 DEF Sound, Closed
<1>8. Ends(d, x)
  BY <1>7 DEF Ends
<1> QED  BY <1>1, <1>4, <1>8, ListTail DEF R

\* Each node of a list begins a list of its own, a part of it.
LEMMA ListPart ==
    ASSUME NEW c, NEW h, Ends(c, h), NEW a \in Reached(c, h)
    PROVE  /\ Ends(c, a) /\ Reached(c, a) \subseteq Reached(c, h)
           /\ a \in Reached(c, a) /\ a \in Addresses /\ a # NULL
           /\ c[a].next \in Reached(c, h) \cup {NULL}
<1>1. Sound(c, Reached(c, h))
  BY ReachedSound
<1>2. Ends(c, a)
  BY <1>1 DEF Ends
<1>3. a # NULL /\ a \in Addresses /\ c[a].next \in Reached(c, h) \cup {NULL}
  BY <1>1 DEF Sound, Closed
<1> QED  BY <1>1, <1>2, <1>3, ReachedSound DEF Sound

\* No two nodes of a list have the same successor.
LEMMA OnePredecessor ==
    ASSUME NEW c, NEW h, Ends(c, h), NEW a \in Reached(c, h), NEW b \in Reached(c, h),
           c[a].next = c[b].next, c[a].next # NULL
    PROVE  a = b
<1> DEFINE R == Reached(c, h)
           Before == {x \in R : a \in Reached(c, x)}
           U == Before \cup Reached(c, a)
           v == c[a].next
<1>1. Sound(c, R) /\ h \in R
  BY ReachedSound
<1>2. \A x \in R : /\ Ends(c, x) /\ Reached(c, x) \subseteq R /\ x \in Reached(c, x)
                   /\ x # NULL /\ c[x].next \in R \cup {NULL}
  BY ListPart
<1>3. \A x \in R : /\ x \notin Reached(c, c[x].next)
                   /\ Reached(c, x) = {x} \cup Reached(c, c[x].next)
  BY <1>2, ListTail
<1>4. Closed(c, Reached(c, a))
  BY <1>2, ReachedSound DEF Sound
<1>5. \A x : x \notin Reached(c, NULL)
  <2>1. Closed(c, {})
    BY DEF Closed
  <2> QED  BY <2>1, ReachedInside
<1> HIDE DEF R
<1>6. Closed(c, U)
  <2>1. ASSUME NEW x \in Before, c[x].next # NULL PROVE c[x].next \in U
    <3>1. CASE x = a
      BY <1>2, <1>3, <1>4, <2>1, <3>1 DEF Closed
    <3>2. CASE x # a
      <4>1. a \in Reached(c, c[x].next)
        BY <1>3, <3>2
      <4> QED  BY <1>2, <2>1, <4>1
    <3> QED  BY <3>1, <3>2
  <2> QED  BY <1>2, <1>4, <2>1 DEF Closed
<1>7. R \subseteq U
  <2>1. a \in Reached(c, h)
    OBVIOUS
  <2>2. h \in U
    BY <1>1, <2>1
  <2> HIDE DEF U
  <2> QED  BY <1>6, <2>2, ReachedInside DEF R
<1>8. SUFFICES ASSUME a # b PROVE FALSE
  OBVIOUS
<1>9. a \in R /\ b \in R /\ v \in R
  BY <1>2 DEF R
<1>10. CASE b \in Reached(c, a)
  <2>1. b \in Reached(c, v)
    BY <1>3, <1>8, <1>9, <1>10
  <2> QED  BY <1>3, <1>9, <2>1
<1>11. CASE a \in Reached(c, b)
  <2>1. a \in Reached(c, v)
    BY <1>3, <1>8, <1>9, <1>11
  <2> QED  BY <1>3, <1>9, <2>1
<1> QED  BY <1>7, <1>9, <1>10, <1>11

\* A node taken out of a list behind another one.
LEMMA ListCut ==
    ASSUME NEW c, NEW h, Ends(c, h), NEW a \in Reached(c, h), NEW v, v = c[a].next, v # NULL,
           NEW d, d[a].next = c[v].next,
           \A b \in Reached(c, h) \ {a, v} : d[b].next = c[b].next
    PROVE  Ends(d, h) /\ Reached(d, h) = Reached(c, h) \ {v}
<1> DEFINE R == Reached(c, h)
           Q == R \ {v}
<1>1. /\ Sound(c, R) /\ h \in R
      /\ \A T : Closed(c, T) /\ h \in T => R \subseteq T
  BY ReachedSound
<1>2. PICK rank : Descends(c, R, rank)
  BY <1>1 DEF Sound
<1>3. v \in R /\ rank[v] < rank[a] /\ rank[v] \in Nat /\ rank[a] \in Nat
  BY <1>1, <1>2 DEF Sound, Closed, Descends
<1>4. \A b \in R : c[b].next = v => b = a
  BY OnePredecessor
<1>5. a \in Q /\ c[v].next \in Q \cup {NULL}
      /\ (c[v].next # NULL => rank[c[v].next] < rank[v] /\ rank[c[v].next] \in Nat)
  BY <1>1, <1>2, <1>3 DEF Sound, Closed, Descends
<1>6. h # v
  <2>1. a \in Reached(c, v) \/ h # v
    OBVIOUS
  <2>2. Ends(c, a) /\ a # NULL
    BY ListPart
  <2>3. a \notin Reached(c, v)
    BY <2>2, ListTail
  <2> QED  BY <2>1, <2>3
<1>7. \A b \in Q \ {a} : d[b].next = c[b].next
  OBVIOUS
<1> HIDE DEF R
<1>8. Sound(d, Q)
  <2>1. ASSUME NEW b \in Q, d[b].next # NULL
        PROVE  d[b].next \in Q /\ rank[d[b].next] < rank[b]
    <3>1. CASE b = a
      BY <1>3, <1>5, <2>1, <3>1
    <3>2. CASE b # a
      BY <1>1, <1>2, <1>4, <1>7, <2>1, <3>2 DEF Sound, Closed, Descends
    <3> QED  BY <3>1, <3>2
  <2> DEFINE rest == [b \in Q |-> rank[b]]
  <2>2. rest \in [Q -> Nat] /\ \A b \in Q : rest[b] = rank[b]
    BY <1>2 DEF Descends
  <2> HIDE DEF rest
  <2>3. Descends(d, Q, rest)
    BY <2>1, <2>2 DEF Descends
  <2> QED  BY <1>1, <2>1, <2>3 DEF Sound, Closed
<1>9. h \in Q /\ Ends(d, h)
  BY <1>1, <1>6, <1>8 DEF Ends
<1>10. /\ Sound(d, Reached(d, h)) /\ h \in Reached(d, h) \cup {NULL}
       /\ Reached(d, h) \subseteq Q
  BY <1>8, <1>9, ReachedSound DEF Sound
<1>11. Q \subseteq Reached(d, h)
  <2> DEFINE T == Reached(d, h) \cup {v}
  <2>1. Closed(c, T)
    <3>1. ASSUME NEW b \in Reached(d, h) PROVE c[b].next \in T \cup {NULL}
      <4>1. CASE b = a
        BY <4>1
      <4>2. CASE b # a
        BY <1>7, <1>10, <3>1, <4>2 DEF Sound, Closed
      <4> QED  BY <4>1, <4>2
    <3>2. c[v].next \in T \cup {NULL}
      <4>1. CASE a \in Reached(d, h)
        BY <1>10, <4>1 DEF Sound, Closed
      <4>2. CASE a \notin Reached(d, h)
        <5>1. Closed(c, Reached(d, h))
          BY <1>7, <1>10, <4>2 DEF Sound, Closed
        <5> QED  BY <1>1, <1>5, <1>9, <1>10, <4>2, <5>1 DEF Sound, Closed
      <4> QED  BY <4>1, <4>2
    <3> QED  BY <1>10, <1>1, <1>3, <3>1, <3>2 DEF Sound, Closed
  <2>2. h \in T
    BY <1>9, <1>10, <1>1 DEF Sound, Closed
  <2> HIDE DEF T
  <2>3. R \subseteq T
    BY <1>1, <2>1, <2>2
  <2> QED  BY <2>3 DEF T
<1> QED  BY <1>9, <1>10, <1>11 DEF R

\* A node put into a list behind another one.
LEMMA ListPut ==
    ASSUME NEW c, NEW h, Ends(c, h), NEW a \in Reached(c, h),
           NEW x \in Addresses, x \notin Reached(c, h),
           NEW d, d[a].next = x, d[x].next = c[a].next,
           \A b \in Reached(c, h) \ {a} : d[b].next = c[b].next
    PROVE  Ends(d, h) /\ Reached(d, h) = Reached(c, h) \cup {x}
<1> DEFINE R == Reached(c, h)
           Q == R \cup {x}
<1>1. /\ Sound(c, R) /\ h \in R /\ x # NULL /\ x \notin R /\ a \in R
      /\ \A T : Closed(c, T) /\ h \in T => R \subseteq T
  BY ReachedSound, AddressesFinite
<1>2. PICK rank : Descends(c, R, rank)
  BY <1>1 DEF Sound
<1>3. \A b \in R \ {a} : d[b].next = c[b].next
  OBVIOUS
<1> HIDE DEF R
<1>4. Sound(d, Q)
  <2> DEFINE between == [b \in Q |-> IF b = x THEN 2 * rank[a] ELSE 2 * rank[b] + 1]
  <2>1. \A b \in R : rank[b] \in Nat
    BY <1>2 DEF Descends
  <2>2. between \in [Q -> Nat]
    BY <1>1, <2>1
  <2>3. between[x] = 2 * rank[a] /\ \A b \in R : between[b] = 2 * rank[b] + 1
    BY <1>1
  <2> HIDE DEF between
  <2>4. ASSUME NEW b \in Q, d[b].next # NULL
        PROVE  d[b].next \in Q /\ between[d[b].next] < between[b]
    <3>1. CASE b = x
      <4>1. c[a].next \in R /\ rank[c[a].next] < rank[a]
        BY <1>1, <1>2, <2>4, <3>1 DEF Sound, Closed, Descends
      <4> QED  BY <1>1, <2>1, <2>3, <3>1, <4>1
    <3>2. CASE b = a
      BY <1>1, <2>1, <2>3, <3>2
    <3>3. CASE b # a /\ b # x
      <4>1. d[b].next \in R /\ rank[d[b].next] < rank[b]
        BY <1>1, <1>2, <1>3, <2>4, <3>3 DEF Sound, Closed, Descends
      <4> QED  BY <2>1, <2>3, <3>3, <4>1
    <3> QED  BY <3>1, <3>2, <3>3
  <2>5. Descends(d, Q, between)
    BY <2>2, <2>4 DEF Descends
  <2> QED  BY <1>1, <2>4, <2>5 DEF Sound, Closed
<1>5. h \in Q /\ Ends(d, h)
  BY <1>1, <1>4 DEF Ends
<1>6. /\ Sound(d, Reached(d, h)) /\ h \in Reached(d, h) \cup {NULL}
      /\ Reached(d, h) \subseteq Q
  BY <1>4, <1>5, ReachedSound DEF Sound
<1>7. R \subseteq Reached(d, h)
  <2> DEFINE T == Reached(d, h) \cap R
  <2>1. ASSUME NEW b \in T PROVE c[b].next \in T \cup {NULL}
    <3>1. c[b].next \in R \cup {NULL}
      BY <1>1 DEF Sound, Closed
    <3>2. c[b].next \in Reached(d, h) \cup {NULL}
      <4>1. CASE b = a
        <5>1. x \in Reached(d, h)
          BY <1>1, <1>6, <4>1 DEF Sound, Closed
        <5> QED  BY <1>6, <4>1, <5>1 DEF Sound, Closed
      <4>2. CASE b # a
        BY <1>3, <1>6, <4>2 DEF Sound, Closed
      <4> QED  BY <4>1, <4>2
    <3> QED  BY <3>1, <3>2
  <2>2. Closed(c, T) /\ h \in T
    BY <1>1, <1>6, <2>1 DEF Sound, Closed
  <2> HIDE DEF T
  <2>3. R \subseteq T
    BY <1>1, <2>2
  <2> QED  BY <2>3 DEF T
<1>8. x \in Reached(d, h)
  BY <1>1, <1>6, <1>7 DEF Sound, Closed
<1> QED  BY <1>5, <1>6, <1>7, <1>8 DEF R

\* The walks of the programs are those paths.
LEMMA WalkIsPath ==
    /\ \A h : List13!Walk(h) = Path(cell, h)
    /\ \A h : List13!Reach(h) = Reached(cell, h)
    /\ \A h : List13!Terminated(h) <=> Path(cell, h)[Cardinality(Addresses)] = NULL
<1>1. List13!Cardinality(Addresses) = Cardinality(Addresses)
  BY Zenon DEF List13!Cardinality, Cardinality
<1>2. \A h : List13!Walk(h) = Path(cell, h)
  BY <1>1, Zenon DEF List13!Walk, Path
<1>3. \A h : List13!Reach(h) = Reached(cell, h)
  BY <1>1, <1>2, Zenon DEF List13!Reach, Reached
<1> QED  BY <1>1, <1>2, <1>3 DEF List13!Terminated

-----------------------------------------------------------------------------
(***************************************************************************)
(* The lists of ex06, ex07/list2.c and ex13: what every step leaves whole. *)
(***************************************************************************)
Cells == [Addresses -> [val : Int, next : Addresses \cup {NULL}]]

\* A list that ends, of nodes that malloc returned and free did not take back.
Whole(c, alive, h) == Ends(c, h) /\ Reached(c, h) \subseteq alive

Quiet == prev = NULL /\ node = NULL /\ next = NULL
Heap == cell \in Cells /\ live \subseteq Addresses

\* Between two calls, and in calls that go on from the head.
Idle == Heap /\ Quiet /\ Whole(cell, live, list)

Used == Reached(cell, list) \cup Reached(cell, prev) \cup Reached(cell, node)
            \cup Reached(cell, next)
Lossless == live' \ Used' \subseteq live \ Used

LEMMA WholeNull ==
    ASSUME NEW c, NEW alive
    PROVE  Whole(c, alive, NULL) /\ Ends(c, NULL) /\ Reached(c, NULL) = {}
<1>1. Sound(c, {})
  <2>1. Descends(c, {}, [a \in {} |-> 0])
    BY DEF Descends
  <2> QED  BY <2>1 DEF Sound, Closed
<1>2. Ends(c, NULL)
  BY <1>1 DEF Ends
<1> QED  BY <1>2, ReachedSound DEF Whole

LEMMA QuietUsed ==
    ASSUME Quiet
    PROVE  Used = Reached(cell, list)
BY WholeNull DEF Quiet, Used

LEMMA QuietUsedNext ==
    ASSUME Quiet'
    PROVE  Used' = Reached(cell', list')
<1>1. Quiet => Used = Reached(cell, list)
  BY QuietUsed
<1>2. (Quiet => Used = Reached(cell, list))'
  BY WholeNull DEF Quiet, Used
<1> QED  BY <1>2

LEMMA IdleKept ==
    ASSUME Idle, UNCHANGED <<cell, live, list>>, Quiet'
    PROVE  Idle' /\ Lossless
<1>1. Used = Reached(cell, list) /\ Used' = Reached(cell', list')
  BY QuietUsed, QuietUsedNext DEF Idle
<1> QED  BY <1>1 DEF Idle, Heap, Lossless

\* The head leaves the list and is freed.
LEMMA TakesHead ==
    ASSUME Idle, list # NULL, Quiet',
           live' = live \ {list}, cell' = [cell EXCEPT ![list] = [val |-> 0, next |-> NULL]],
           list' = cell[list].next
    PROVE  Idle' /\ Lossless
<1> DEFINE h == cell[list].next
<1>1. Used = Reached(cell, list) /\ Used' = Reached(cell', list')
  BY QuietUsed, QuietUsedNext DEF Idle
<1>2. Ends(cell, list) /\ Reached(cell, list) \subseteq live
  BY DEF Idle, Whole
<1>3. /\ list \in Addresses /\ Ends(cell, h) /\ list \notin Reached(cell, h)
      /\ Reached(cell, list) = {list} \cup Reached(cell, h)
  BY <1>2, ListTail
<1>4. Reached(cell, h) \subseteq Addresses
  BY <1>3, ReachedSound DEF Sound
<1>5. cell' \in Cells /\ \A a \in Addresses \ {list} : cell'[a] = cell[a]
  BY <1>3 DEF Idle, Heap, Cells
<1>6. Ends(cell', h) /\ Reached(cell', h) = Reached(cell, h)
  BY <1>3, <1>4, <1>5, SameList
<1>7. Whole(cell', live', list')
  BY <1>2, <1>3, <1>6 DEF Whole
<1> QED  BY <1>1, <1>2, <1>3, <1>5, <1>6, <1>7 DEF Idle, Heap, Lossless

\* A new node becomes the head.
LEMMA PutsHead ==
    ASSUME Idle, Quiet', NEW v \in Int, NEW a \in Addresses \ live,
           live' = live \cup {a}, cell' = [cell EXCEPT ![a] = [val |-> v, next |-> list]],
           list' = a
    PROVE  Idle' /\ Lossless
<1>1. Used = Reached(cell, list) /\ Used' = Reached(cell', list')
  BY QuietUsed, QuietUsedNext DEF Idle
<1>2. Ends(cell, list) /\ Reached(cell, list) \subseteq live /\ list \in Addresses \cup {NULL}
  BY ReachedSound DEF Idle, Whole, Sound
<1>3. /\ cell' \in Cells /\ cell'[a].next = list
      /\ \A b \in Addresses \ {a} : cell'[b] = cell[b]
  BY <1>2 DEF Idle, Heap, Cells
<1>4. a \notin Reached(cell, list) /\ Reached(cell, list) \subseteq Addresses
  BY <1>2 DEF Idle, Heap
<1>5. Ends(cell', a) /\ Reached(cell', a) = {a} \cup Reached(cell, list)
  <2>1. \A b \in Reached(cell, list) : cell'[b].next = cell[b].next
    BY <1>3, <1>4
  <2>2. a \in Addresses
    OBVIOUS
  <2>3. Ends(cell, list) /\ a \notin Reached(cell, list) /\ cell'[a].next = list
    BY <1>2, <1>3, <1>4
  <2>4. ASSUME NEW d, d[a].next = list, \A b \in Reached(cell, list) : d[b].next = cell[b].next
        PROVE  Ends(d, a) /\ Reached(d, a) = {a} \cup Reached(cell, list)
    BY <2>2, <2>3, <2>4, ListCons
  <2> QED  BY <2>1, <2>3, <2>4
<1>6. Whole(cell', live', list')
  BY <1>2, <1>5 DEF Whole
<1> QED  BY <1>1, <1>2, <1>3, <1>5, <1>6 DEF Idle, Heap, Lossless

-----------------------------------------------------------------------------
\* reverse in its loop: the nodes before p have been turned, those from r on
\* have not, and *list is still the head the call began with.
Turned(c, alive, l, p, r) ==
    /\ Whole(c, alive, p) /\ Whole(c, alive, r)
    /\ Reached(c, p) \cap Reached(c, r) = {}
    /\ IF p = NULL THEN l = r ELSE l \in Reached(c, p)

LEMMA TurnedWhole ==
    ASSUME NEW c, NEW alive, NEW l, NEW p, NEW r, Turned(c, alive, l, p, r)
    PROVE  Whole(c, alive, l) /\ Reached(c, l) \subseteq Reached(c, p) \cup Reached(c, r)
<1>1. CASE p = NULL
  BY <1>1 DEF Turned
<1>2. CASE p # NULL
  BY <1>2, ListPart DEF Turned, Whole
<1> QED  BY <1>1, <1>2

LEMMA TurnOne ==
    ASSUME NEW c, NEW alive, NEW l, NEW p, NEW r, Turned(c, alive, l, p, r), r # NULL,
           NEW d, d[r].next = p, \A a \in Addresses \ {r} : d[a].next = c[a].next
    PROVE  /\ Turned(d, alive, l, r, c[r].next)
           /\ Reached(d, r) \cup Reached(d, c[r].next) = Reached(c, p) \cup Reached(c, r)
<1> DEFINE s == c[r].next
<1>1. /\ Ends(c, p) /\ Reached(c, p) \subseteq alive
      /\ Ends(c, r) /\ Reached(c, r) \subseteq alive
      /\ Reached(c, p) \cap Reached(c, r) = {}
      /\ IF p = NULL THEN l = r ELSE l \in Reached(c, p)
  BY DEF Turned, Whole
<1>2. /\ r \in Addresses /\ Ends(c, s) /\ r \notin Reached(c, s)
      /\ Reached(c, r) = {r} \cup Reached(c, s)
  BY <1>1, ListTail
<1>3. Reached(c, p) \subseteq Addresses /\ Reached(c, s) \subseteq Addresses
  BY <1>1, <1>2, ReachedSound DEF Sound
<1>4. r \notin Reached(c, p)
  BY <1>1, <1>2
<1>5. Ends(d, r) /\ Reached(d, r) = {r} \cup Reached(c, p)
  BY <1>1, <1>2, <1>3, <1>4, ListCons
<1>6. Ends(d, s) /\ Reached(d, s) = Reached(c, s)
  BY <1>2, <1>3, SameList
<1>7. l \in Reached(d, r)
  BY <1>1, <1>5
<1> QED  BY <1>1, <1>2, <1>5, <1>6, <1>7 DEF Turned, Whole

-----------------------------------------------------------------------------
\* list.c.  A remove_by_value that has unlinked the predecessor of its node
\* goes on from a node that is no longer in the list.
Unlinking ==
    /\ Heap /\ next = NULL
    /\ \E T : /\ Sound(cell, T) /\ T \subseteq live
             /\ {list, prev, node} \subseteq T \cup {NULL}
    /\ prev # NULL => cell[prev].next = node

Turning06 == Heap /\ next = NULL /\ Turned(cell, live, list, prev, node)

Inv06 ==
    \/ pc = "ready" /\ Idle
    \/ pc = "remove_by_value" /\ call.op = "remove_by_value" /\ Unlinking
    \/ pc = "reverse" /\ Turning06

\* What a step of list.c keeps.
Kept06 == Inv06' /\ (Lossless \/ call'.op = "remove_by_value")

LEMMA Idle06 ==
    ASSUME pc' = "ready", Idle' /\ Lossless
    PROVE  Kept06
BY DEF Kept06, Inv06

LEMMA Calls06 ==
    ASSUME Inv06, List06!PopHead \/ List06!PopEmpty \/ \E v \in ListVals : List06!Push(v)
    PROVE  Kept06
<1> USE DEF List06!At, List06!Call, List06!locals
<1>1. pc = "ready" /\ pc' = "ready" /\ Idle /\ Quiet'
  BY DEF Inv06, List06!PopHead, List06!PopEmpty, List06!Push, Idle, Quiet
<1>2. CASE List06!PopHead
  <2>1. Idle' /\ Lossless
    BY <1>1, <1>2, TakesHead DEF List06!PopHead, List06!TakeHead, List06!free, List06!Blank
  <2> QED  BY <1>1, <2>1, Idle06
<1>3. CASE List06!PopEmpty
  <2>1. Idle' /\ Lossless
    BY <1>1, <1>3, IdleKept DEF List06!PopEmpty, List06!heapvars
  <2> QED  BY <1>1, <2>1, Idle06
<1>4. CASE \E v \in ListVals : List06!Push(v)
  <2>1. Idle' /\ Lossless
    BY <1>1, <1>4, PutsHead, AddressesFinite
       DEF List06!Push, List06!push, List06!make_node
  <2> QED  BY <1>1, <2>1, Idle06
<1> QED  BY <1>2, <1>3, <1>4

LEMMA Remove06 ==
    ASSUME Inv06,
           \/ \E v \in ListVals : List06!RemoveStart(v)
           \/ List06!UnlinkHead \/ List06!UnlinkLater \/ List06!RemovePass \/ List06!RemoveEnd
    PROVE  Kept06
<1>1. CASE \E v \in ListVals : List06!RemoveStart(v)
  <2>1. /\ Idle /\ UNCHANGED <<cell, live, list, next>> /\ prev' = NULL /\ node' = list
        /\ pc' = "remove_by_value" /\ call'.op = "remove_by_value"
    BY <1>1 DEF Inv06, List06!RemoveStart, List06!Enter, List06!Call, List06!heapvars
  <2>2. Sound(cell', Reached(cell, list)) /\ list \in Reached(cell, list) \cup {NULL}
        /\ Reached(cell, list) \subseteq live
    BY <2>1, ReachedSound DEF Idle, Whole
  <2>3. Unlinking'
    BY <2>1, <2>2 DEF Unlinking, Idle, Heap, Quiet
  <2> QED  BY <2>1, <2>3 DEF Kept06, Inv06
<1>2. CASE List06!UnlinkHead \/ List06!UnlinkLater \/ List06!RemovePass
  <2> USE DEF List06!UnlinkHead, List06!UnlinkLater, List06!RemovePass, List06!Loop,
              List06!heapvars
  <2>1. /\ pc = "remove_by_value" /\ Unlinking /\ call.op = "remove_by_value"
        /\ pc' = pc /\ call' = call /\ live' = live /\ next' = next
        /\ node # NULL /\ prev' = node /\ node' = cell[node].next
    BY <1>2 DEF Inv06
  <2>2. PICK T : /\ Sound(cell, T) /\ T \subseteq live
                 /\ {list, prev, node} \subseteq T \cup {NULL}
    BY <2>1 DEF Unlinking
  <2>3. /\ T \subseteq Addresses /\ cell \in Cells
        /\ node \in T /\ node \in Addresses /\ cell[node].next \in T \cup {NULL}
    BY <2>1, <2>2 DEF Unlinking, Heap, Sound, Closed
  <2>4. /\ cell' \in Cells /\ Sound(cell', T) /\ list' \in T \cup {NULL}
        /\ cell'[node].next = cell[node].next
    <3>1. CASE UNCHANGED cell
      <4>1. list' \in T \cup {NULL}
        BY <1>2, <2>2, <2>3
      <4> QED  BY <2>2, <2>3, <3>1, <4>1
    <3>2. CASE List06!UnlinkLater
      <4>1. PICK rank : Descends(cell, T, rank)
        BY <2>2 DEF Sound
      <4>2. /\ prev \in T /\ prev \in Addresses /\ cell[prev].next = node /\ list' = list
            /\ cell' = [cell EXCEPT ![prev].next = cell[node].next]
        BY <2>1, <2>2, <2>3, <3>2 DEF Unlinking
      <4>3. rank[node] < rank[prev] /\ prev # node /\ rank[node] \in Nat /\ rank[prev] \in Nat
        BY <2>1, <2>3, <4>1, <4>2 DEF Descends
      <4>4. /\ cell' \in Cells /\ cell'[prev].next = cell[node].next
            /\ \A a \in Addresses \ {prev} : cell'[a] = cell[a]
        BY <2>2, <2>3, <4>2 DEF Cells
      <4>5. cell[node].next # NULL => rank[cell[node].next] < rank[node]
                                      /\ rank[cell[node].next] \in Nat
        BY <2>3, <4>1 DEF Descends
      <4>6. Descends(cell', T, rank)
        <5>1. \A a \in T : cell'[a].next # NULL => rank[cell'[a].next] < rank[a]
          BY <2>3, <4>1, <4>2, <4>3, <4>4, <4>5 DEF Descends
        <5> QED  BY <4>1, <5>1 DEF Descends
      <4>7. Closed(cell', T)
        <5>1. NULL \notin T /\ \A a \in T : cell[a].next \in T \cup {NULL}
          BY <2>2 DEF Sound, Closed
        <5>2. \A a \in T : cell'[a].next \in T \cup {NULL}
          BY <2>3, <4>4, <5>1
        <5> QED  BY <5>1, <5>2 DEF Closed
      <4> QED  BY <2>2, <2>3, <4>2, <4>3, <4>4, <4>6, <4>7 DEF Sound
    <3> QED  BY <1>2, <3>1, <3>2
  <2>5. Unlinking'
    BY <2>1, <2>2, <2>3, <2>4 DEF Unlinking, Heap
  <2> QED  BY <2>1, <2>5 DEF Kept06, Inv06
<1>3. CASE List06!RemoveEnd
  <2>1. /\ Unlinking /\ call'.op = "remove_by_value" /\ pc' = "ready"
        /\ UNCHANGED <<cell, live, list>> /\ Quiet'
    BY <1>3 DEF Inv06, List06!RemoveEnd, List06!Return, List06!heapvars, Quiet
  <2>2. PICK T : Sound(cell, T) /\ T \subseteq live /\ list \in T \cup {NULL}
    BY <2>1 DEF Unlinking
  <2>3. Ends(cell, list) /\ Reached(cell, list) \subseteq T
    BY <2>2, ReachedInside DEF Ends, Sound
  <2>4. Whole(cell', live', list')
    BY <2>1, <2>2, <2>3 DEF Whole
  <2> QED  BY <2>1, <2>4 DEF Kept06, Inv06, Idle, Unlinking, Heap
<1> QED  BY <1>1, <1>2, <1>3

LEMMA Reverse06 ==
    ASSUME Inv06, List06!ReverseStart \/ List06!ReverseStep \/ List06!ReverseEnd
    PROVE  Kept06
<1>1. CASE List06!ReverseStart
  <2>1. /\ Idle /\ UNCHANGED <<cell, live, list>> /\ pc' = "reverse"
        /\ prev' = NULL /\ node' = list /\ next' = NULL
    BY <1>1 DEF Inv06, Idle, Quiet, List06!ReverseStart, List06!Enter, List06!Call,
                List06!heapvars
  <2>2. Turned(cell', live', list', prev', node')
    BY <2>1, WholeNull DEF Idle, Turned
  <2>3. Used' = Reached(cell, list) /\ Used = Reached(cell, list)
    <3>1. Used = Reached(cell, list)
      BY <2>1, QuietUsed DEF Idle
    <3>2. Used' = Reached(cell, list) \cup Reached(cell, NULL)
      BY <2>1 DEF Used
    <3> QED  BY <3>1, <3>2, WholeNull
  <2> QED  BY <2>1, <2>2, <2>3 DEF Kept06, Inv06, Turning06, Idle, Heap, Lossless
<1>2. CASE List06!ReverseStep
  <2>1. /\ Turning06 /\ node # NULL /\ UNCHANGED <<live, list, next, pc>> /\ pc = "reverse"
        /\ cell' = [cell EXCEPT ![node].next = prev]
        /\ prev' = node /\ node' = cell[node].next
    BY <1>2 DEF Inv06, List06!ReverseStep, List06!Loop
  <2>2. Ends(cell, node) /\ Ends(cell, prev)
    BY <2>1 DEF Turning06, Turned, Whole
  <2>3. node \in Addresses /\ prev \in Addresses \cup {NULL}
    BY <2>1, <2>2, ListTail, ReachedSound DEF Sound
  <2>4. /\ cell' \in Cells /\ cell'[node].next = prev
        /\ \A a \in Addresses \ {node} : cell'[a].next = cell[a].next
    BY <2>1, <2>3 DEF Turning06, Heap, Cells
  <2>5. ASSUME NEW d, d[node].next = prev,
               \A a \in Addresses \ {node} : d[a].next = cell[a].next
        PROVE  /\ Turned(d, live, list, node, cell[node].next)
               /\ Reached(d, node) \cup Reached(d, cell[node].next)
                     = Reached(cell, prev) \cup Reached(cell, node)
    BY <2>1, <2>5, TurnOne DEF Turning06
  <2>6. /\ Turned(cell', live', list', prev', node')
        /\ Reached(cell', prev') \cup Reached(cell', node')
              = Reached(cell, prev) \cup Reached(cell, node)
    BY <2>1, <2>4, <2>5
  <2>7. Used \subseteq Reached(cell, prev) \cup Reached(cell, node)
    BY <2>1, TurnedWhole, WholeNull DEF Turning06, Used
  <2>8. Reached(cell', prev') \cup Reached(cell', node') \subseteq Used'
    BY DEF Used
  <2>9. Lossless
    BY <2>1, <2>6, <2>7, <2>8 DEF Lossless
  <2> QED  BY <2>1, <2>4, <2>6, <2>9 DEF Kept06, Inv06, Turning06, Heap
<1>3. CASE List06!ReverseEnd
  <2>1. /\ Turning06 /\ node = NULL /\ UNCHANGED <<cell, live>> /\ list' = prev
        /\ Quiet' /\ pc' = "ready"
    BY <1>3 DEF Inv06, List06!ReverseEnd, List06!Return, Quiet
  <2>2. Whole(cell', live', list') /\ Reached(cell, NULL) = {}
    BY <2>1, WholeNull DEF Turning06, Turned
  <2>3. Used \subseteq Reached(cell, prev) \cup Reached(cell, node)
    BY <2>1, TurnedWhole, WholeNull DEF Turning06, Used
  <2>4. Used' = Reached(cell', list')
    BY <2>1, QuietUsedNext
  <2>5. Lossless
    BY <2>1, <2>2, <2>3, <2>4 DEF Lossless
  <2> QED  BY <2>1, <2>2, <2>5 DEF Kept06, Inv06, Idle, Turning06, Heap
<1> QED  BY <1>1, <1>2, <1>3

LEMMA Step06 ==
    ASSUME Inv06, List06!Next
    PROVE  Kept06
BY Calls06, Remove06, Reverse06 DEF List06!Next

-----------------------------------------------------------------------------
\* list_errors.c, bad_list.c and list2.c.  A search is at a node of the list.
Searching ==
    /\ Heap /\ prev = NULL /\ next = NULL /\ Whole(cell, live, list)
    /\ node \in Reached(cell, list) \cup {NULL}

Turning13 == Heap /\ prev = NULL /\ Turned(cell, live, list, node, next)

Inv13 ==
    \/ pc \in {"ready", "drain"} /\ Idle
    \/ pc = "crashed" /\ which = "bad_list.c" /\ before = <<>> /\ Idle
    \/ pc = "remove_by_value" /\ Searching /\ node # NULL
    \/ pc = "insert_by_index" /\ Searching /\ call.val \in Int
    \/ pc = "reverse" /\ Turning13

Kept13 == Inv13' /\ Lossless

LEMMA Idle13 ==
    ASSUME pc' \in {"ready", "drain"}, Idle' /\ Lossless
    PROVE  Kept13
BY DEF Kept13, Inv13

LEMMA SearchingUsed ==
    ASSUME Searching
    PROVE  Used = Reached(cell, list)
<1>1. Reached(cell, node) \subseteq Reached(cell, list)
  BY ListPart, WholeNull DEF Searching, Whole
<1> QED  BY <1>1, WholeNull DEF Searching, Used

LEMMA Calls13 ==
    ASSUME Inv13,
           \/ List13!PopHead \/ List13!PopEmpty
           \/ List13!DrainStart \/ List13!DrainStep \/ List13!DrainStops \/ List13!FreeList
           \/ List13!BadPop \/ List13!Pop2
           \/ \E v \in ListVals : \/ List13!Push(v) \/ List13!RemoveHead(v)
                                  \/ List13!RemoveNone(v) \/ List13!InsertFirst(v)
                                  \/ List13!Push2(v)
    PROVE  Kept13
<1> USE DEF List13!At, List13!Call, List13!Enter, List13!Loop, List13!locals, List13!heapvars,
            List13!Return
<1>1. ASSUME \E v \in ListVals : List13!Push(v) \/ List13!InsertFirst(v) \/ List13!Push2(v)
      PROVE  Kept13
  <2>1. pc = "ready" /\ pc' = "ready" /\ Idle /\ Quiet'
    BY <1>1 DEF Inv13, List13!Push, List13!InsertFirst, List13!Push2, Idle, Quiet
  <2>2. PICK v \in ListVals : List13!push(v)
    BY <1>1 DEF List13!Push, List13!InsertFirst, List13!Push2
  <2>3. Idle' /\ Lossless
    BY <2>1, <2>2, PutsHead, AddressesFinite DEF List13!push, List13!make_node
  <2> QED  BY <2>1, <2>3, Idle13
<1>2. ASSUME \/ List13!PopHead \/ List13!BadPop \/ List13!DrainStep
             \/ List13!DrainStops /\ list # NULL
             \/ \E v \in ListVals : List13!RemoveHead(v)
      PROVE  Kept13
  <2> USE DEF List13!PopHead, List13!BadPop, List13!DrainStep, List13!DrainStops,
              List13!RemoveHead
  <2>1. pc \in {"ready", "drain"} /\ pc' \in {"ready", "drain"} /\ Idle /\ Quiet'
    BY <1>2 DEF Inv13, Idle, Quiet
  <2>2. list # NULL /\ List13!TakeHead
    BY <1>2
  <2>3. Idle' /\ Lossless
    BY <2>1, <2>2, TakesHead DEF List13!TakeHead, List13!free, List13!Blank
  <2> QED  BY <2>1, <2>3, Idle13
<1>3. ASSUME \/ List13!PopEmpty \/ List13!DrainStart \/ List13!Pop2
             \/ List13!DrainStops /\ list = NULL
             \/ \E v \in ListVals : List13!RemoveNone(v)
      PROVE  Kept13
  <2> USE DEF List13!PopEmpty, List13!DrainStart, List13!Pop2, List13!DrainStops,
              List13!RemoveNone
  <2>1. pc \in {"ready", "drain"} /\ pc' \in {"ready", "drain"} /\ Idle /\ Quiet'
        /\ UNCHANGED <<cell, live, list>>
    BY <1>3 DEF Inv13, Idle, Quiet
  <2>2. Idle' /\ Lossless
    BY <2>1, IdleKept
  <2> QED  BY <2>1, <2>2, Idle13
<1>4. ASSUME List13!FreeList PROVE Kept13
  <2>1. /\ pc = "ready" /\ pc' = "ready" /\ Idle /\ Quiet' /\ list' = NULL
        /\ live' = live \ List13!Reach(list)
        /\ cell' = [a \in Addresses |-> IF a \in List13!Reach(list)
                                         THEN [val |-> 0, next |-> NULL] ELSE cell[a]]
    BY <1>4 DEF Inv13, List13!FreeList, List13!Blank, Idle, Quiet
  <2>2. List13!Reach(list) = Reached(cell, list)
    BY WalkIsPath
  <2>3. cell' \in Cells /\ live' \subseteq Addresses
    BY <2>1 DEF Idle, Heap, Cells
  <2>4. Used = Reached(cell, list) /\ Used' = {} /\ Whole(cell', live', list')
    BY <2>1, QuietUsed, QuietUsedNext, WholeNull DEF Idle
  <2>5. Idle' /\ Lossless
    BY <2>1, <2>2, <2>3, <2>4 DEF Idle, Heap, Lossless
  <2> QED  BY <2>1, <2>5, Idle13
<1> QED  BY <1>1, <1>2, <1>3, <1>4

LEMMA Remove13 ==
    ASSUME Inv13, List13!RemoveByValue \/ \E v \in ListVals : List13!RemoveStart(v)
    PROVE  Kept13
<1> USE DEF List13!heapvars, List13!Loop, List13!Return, List13!Victim
<1>1. CASE \E v \in ListVals : List13!RemoveStart(v)
  <2>1. /\ Idle /\ UNCHANGED <<cell, live, list, prev, next>> /\ pc' = "remove_by_value"
        /\ node' = list /\ list # NULL
    BY <1>1 DEF Inv13, List13!RemoveStart, List13!Enter, List13!Call
  <2>2. list \in Reached(cell, list) \cup {NULL} /\ Used = Reached(cell, list)
    BY <2>1, ReachedSound, QuietUsed DEF Idle, Whole
  <2>3. Searching' /\ node' # NULL
    BY <2>1, <2>2 DEF Searching, Idle, Heap, Quiet
  <2>4. Used' = Reached(cell, list)
    BY <2>1, WholeNull DEF Used, Idle, Quiet
  <2> QED  BY <2>1, <2>2, <2>3, <2>4 DEF Kept13, Inv13, Lossless
<1>2. CASE List13!RemoveByValue
  <2> DEFINE v == cell[node].next
             R == Reached(cell, list)
  <2>1. pc = "remove_by_value" /\ Searching /\ node # NULL /\ Used = R
    BY <1>2, SearchingUsed
       DEF Inv13, List13!RemoveByValue, List13!RemoveVictim, List13!RemovePass,
           List13!RemoveFails
  <2>2. Ends(cell, list) /\ R \subseteq live /\ node \in R
    BY <2>1 DEF Searching, Whole
  <2>3. Ends(cell, node) /\ v \in R \cup {NULL} /\ R \subseteq Addresses
        /\ Reached(cell, node) \subseteq R
    BY <2>2, ListPart, ReachedSound DEF Sound
  <2>4. node \notin Reached(cell, v)
    BY <2>1, <2>3, ListTail
  <2>5. CASE List13!RemoveVictim
    <3>1. /\ v # NULL /\ live' = live \ {v} /\ Quiet' /\ pc' = "ready" /\ list' = list
          /\ cell' = [cell EXCEPT ![node].next = cell[v].next, ![v] = List13!Blank]
      BY <2>5 DEF List13!RemoveVictim, Quiet
    <3>2. v \in R /\ v \in Reached(cell, v) /\ cell[v].next \in R \cup {NULL}
      BY <2>2, <2>3, <3>1, ListPart
    <3>3. node # v /\ node \in Addresses /\ v \in Addresses
      BY <2>2, <2>3, <2>4, <3>2
    <3>4. /\ cell' \in Cells /\ cell'[node].next = cell[v].next
          /\ \A a \in Addresses \ {node, v} : cell'[a] = cell[a]
      BY <2>1, <2>3, <3>1, <3>2, <3>3 DEF Searching, Heap, Cells, List13!Blank
    <3>5. ASSUME NEW d, d[node].next = cell[v].next,
                 \A a \in R \ {node, v} : d[a].next = cell[a].next
          PROVE  Ends(d, list) /\ Reached(d, list) = R \ {v}
      BY <2>2, <3>1, <3>5, ListCut
    <3>6. \A a \in R \ {node, v} : cell'[a].next = cell[a].next
      BY <2>3, <3>4
    <3>7. Ends(cell', list') /\ Reached(cell', list') = R \ {v}
      BY <3>1, <3>4, <3>5, <3>6
    <3>8. Used' = Reached(cell', list')
      BY <3>1, QuietUsedNext
    <3>9. Whole(cell', live', list')
      BY <2>2, <3>1, <3>7 DEF Whole
    <3> QED  BY <2>1, <3>1, <3>4, <3>7, <3>8, <3>9, Idle13
             DEF Idle, Heap, Lossless, Searching
  <2>6. CASE List13!RemovePass
    <3>1. UNCHANGED <<cell, live, list, prev, next, pc>> /\ node' = v /\ v # NULL
      BY <2>6 DEF List13!RemovePass
    <3>2. Searching' /\ node' # NULL
      BY <2>1, <2>3, <3>1 DEF Searching, Heap
    <3>3. Used' = R \cup Reached(cell, v)
      BY <2>1, <3>1, WholeNull DEF Used, Searching
    <3> QED  BY <2>1, <3>1, <3>2, <3>3 DEF Kept13, Inv13, Lossless
  <2>7. CASE List13!RemoveFails
    <3>1. UNCHANGED <<cell, live, list>> /\ Quiet' /\ pc' = "ready"
      BY <2>7 DEF List13!RemoveFails, Quiet
    <3>2. Used' = R
      BY <3>1, QuietUsedNext
    <3> QED  BY <2>1, <3>1, <3>2, Idle13 DEF Searching, Idle, Heap, Lossless
  <2> QED  BY <1>2, <2>5, <2>6, <2>7 DEF List13!RemoveByValue
<1> QED  BY <1>1, <1>2

LEMMA Insert13 ==
    ASSUME Inv13,
           \/ List13!InsertStep \/ List13!InsertOutside \/ List13!InsertAfter
           \/ \E v \in ListVals, k \in ListIndices : List13!InsertStart(v, k)
    PROVE  Kept13
<1> USE DEF List13!heapvars, List13!Loop, List13!Return
<1>1. CASE \E v \in ListVals, k \in ListIndices : List13!InsertStart(v, k)
  <2>1. /\ Idle /\ UNCHANGED <<cell, live, list, prev, next>> /\ pc' = "insert_by_index"
        /\ node' = list /\ call'.val \in Int
    BY <1>1, AddressesFinite DEF Inv13, List13!InsertStart, List13!Enter, List13!Call
  <2>2. list \in Reached(cell, list) \cup {NULL} /\ Used = Reached(cell, list)
    BY <2>1, ReachedSound, QuietUsed DEF Idle, Whole
  <2>3. Searching'
    BY <2>1, <2>2 DEF Searching, Idle, Heap, Quiet
  <2>4. Used' = Reached(cell, list)
    BY <2>1, WholeNull DEF Used, Idle, Quiet
  <2> QED  BY <2>1, <2>2, <2>3, <2>4 DEF Kept13, Inv13, Lossless
<1>2. CASE List13!InsertStep \/ List13!InsertOutside \/ List13!InsertAfter
  <2> DEFINE R == Reached(cell, list)
  <2>1. pc = "insert_by_index" /\ Searching /\ Used = R /\ call.val \in Int
    BY <1>2, SearchingUsed
       DEF Inv13, List13!InsertStep, List13!InsertOutside, List13!InsertAfter
  <2>2. Ends(cell, list) /\ R \subseteq live /\ R \subseteq Addresses
    BY <2>1, ReachedSound DEF Searching, Whole, Sound
  <2>3. CASE List13!InsertStep
    <3>1. UNCHANGED <<cell, live, list, prev, next, pc, call>> /\ node # NULL
          /\ node' = cell[node].next
      BY <2>3 DEF List13!InsertStep
    <3>2. node' \in R \cup {NULL}
      BY <2>1, <2>2, <3>1, ListPart DEF Searching
    <3>3. Searching'
      BY <2>1, <3>1, <3>2 DEF Searching, Heap
    <3>4. R \subseteq Used'
      BY <3>1 DEF Used
    <3> QED  BY <2>1, <3>1, <3>3, <3>4 DEF Kept13, Inv13, Lossless
  <2>4. CASE List13!InsertOutside
    <3>1. UNCHANGED <<cell, live, list>> /\ Quiet' /\ pc' = "ready"
      BY <2>4 DEF List13!InsertOutside, Quiet
    <3>2. Used' = R
      BY <3>1, QuietUsedNext
    <3> QED  BY <2>1, <3>1, <3>2, Idle13 DEF Searching, Idle, Heap, Lossless
  <2>5. CASE List13!InsertAfter
    <3>1. /\ node # NULL /\ Quiet' /\ pc' = "ready" /\ list' = list
          /\ \E a \in Addresses \ live :
                /\ live' = live \cup {a}
                /\ cell' = [cell EXCEPT ![a] = [val |-> call.val, next |-> cell[node].next],
                                        ![node].next = a]
      BY <2>5 DEF List13!InsertAfter, Quiet
    <3>2. PICK a \in Addresses \ live :
                /\ live' = live \cup {a}
                /\ cell' = [cell EXCEPT ![a] = [val |-> call.val, next |-> cell[node].next],
                                        ![node].next = a]
      BY <3>1
    <3>3. node \in R /\ node \in Addresses /\ a \notin R /\ a # node
          /\ cell[node].next \in Addresses \cup {NULL}
      BY <2>1, <2>2, <3>1 DEF Searching, Heap, Cells
    <3>4. /\ cell' \in Cells /\ cell'[node].next = a /\ cell'[a].next = cell[node].next
          /\ \A b \in Addresses \ {node, a} : cell'[b] = cell[b]
      BY <2>1, <3>2, <3>3 DEF Searching, Heap, Cells
    <3>5. ASSUME NEW d, d[node].next = a, d[a].next = cell[node].next,
                 \A b \in R \ {node} : d[b].next = cell[b].next
          PROVE  Ends(d, list) /\ Reached(d, list) = R \cup {a}
      <4>1. a \in Addresses
        OBVIOUS
      <4> QED  BY <2>2, <3>3, <3>5, <4>1, ListPut
    <3>6. \A b \in R \ {node} : cell'[b].next = cell[b].next
      BY <2>2, <3>3, <3>4
    <3>7. Ends(cell', list') /\ Reached(cell', list') = R \cup {a}
      BY <3>1, <3>4, <3>5, <3>6
    <3>8. Used' = Reached(cell', list')
      BY <3>1, QuietUsedNext
    <3>9. Whole(cell', live', list')
      BY <2>2, <3>2, <3>7 DEF Whole
    <3> QED  BY <2>1, <3>1, <3>2, <3>4, <3>7, <3>8, <3>9, Idle13
             DEF Idle, Heap, Lossless, Searching
  <2> QED  BY <1>2, <2>3, <2>4, <2>5
<1> QED  BY <1>1, <1>2

LEMMA Reverse13 ==
    ASSUME Inv13, List13!reverse
    PROVE  Kept13
<1> USE DEF List13!heapvars, List13!locals
<1>1. CASE List13!ReverseShort
  <2>1. /\ pc = "ready" /\ pc' = "ready" /\ Idle /\ Quiet' /\ UNCHANGED <<cell, live, list>>
    BY <1>1 DEF Inv13, List13!ReverseShort, List13!At, List13!Call, Idle, Quiet
  <2> QED  BY <2>1, IdleKept, Idle13
<1>2. CASE List13!ReverseStart
  <2>1. /\ Idle /\ UNCHANGED <<live, list, prev>> /\ pc' = "reverse" /\ list # NULL
        /\ node' = list /\ next' = cell[list].next
        /\ cell' = [cell EXCEPT ![list].next = NULL]
    BY <1>2 DEF Inv13, List13!ReverseStart, List13!Enter, List13!Call
  <2>2. Ends(cell, list) /\ list \in Addresses /\ Used = Reached(cell, list)
    BY <2>1, ListTail, QuietUsed DEF Idle, Whole
  <2>3. /\ cell' \in Cells /\ cell'[list].next = NULL
        /\ \A a \in Addresses \ {list} : cell'[a].next = cell[a].next
    BY <2>1, <2>2 DEF Idle, Heap, Cells
  <2>4. Turned(cell, live, list, NULL, list)
    BY <2>1, WholeNull DEF Turned, Idle
  <2>5. ASSUME NEW d, d[list].next = NULL,
               \A a \in Addresses \ {list} : d[a].next = cell[a].next
        PROVE  /\ Turned(d, live, list, list, cell[list].next)
               /\ Reached(d, list) \cup Reached(d, cell[list].next)
                     = Reached(cell, NULL) \cup Reached(cell, list)
    BY <2>1, <2>4, <2>5, TurnOne
  <2>6. /\ Turned(cell', live', list', node', next')
        /\ Reached(cell', node') \cup Reached(cell', next')
              = Reached(cell, NULL) \cup Reached(cell, list)
    BY <2>1, <2>3, <2>5
  <2>7. Reached(cell', node') \cup Reached(cell', next') \subseteq Used'
    BY DEF Used
  <2>8. Lossless
    BY <2>1, <2>2, <2>6, <2>7 DEF Lossless
  <2> QED  BY <2>1, <2>3, <2>6, <2>8 DEF Kept13, Inv13, Turning13, Heap, Idle, Quiet
<1>3. CASE List13!ReverseStep
  <2>1. /\ Turning13 /\ next # NULL /\ UNCHANGED <<live, list, prev, pc>> /\ pc = "reverse"
        /\ cell' = [cell EXCEPT ![next].next = node]
        /\ node' = next /\ next' = cell[next].next
    BY <1>3 DEF Inv13, List13!ReverseStep, List13!Loop
  <2>2. Ends(cell, node) /\ Ends(cell, next)
    BY <2>1 DEF Turning13, Turned, Whole
  <2>3. next \in Addresses /\ node \in Addresses \cup {NULL}
    BY <2>1, <2>2, ListTail, ReachedSound DEF Sound
  <2>4. /\ cell' \in Cells /\ cell'[next].next = node
        /\ \A a \in Addresses \ {next} : cell'[a].next = cell[a].next
    BY <2>1, <2>3 DEF Turning13, Heap, Cells
  <2>5. ASSUME NEW d, d[next].next = node,
               \A a \in Addresses \ {next} : d[a].next = cell[a].next
        PROVE  /\ Turned(d, live, list, next, cell[next].next)
               /\ Reached(d, next) \cup Reached(d, cell[next].next)
                     = Reached(cell, node) \cup Reached(cell, next)
    BY <2>1, <2>5, TurnOne DEF Turning13
  <2>6. /\ Turned(cell', live', list', node', next')
        /\ Reached(cell', node') \cup Reached(cell', next')
              = Reached(cell, node) \cup Reached(cell, next)
    BY <2>1, <2>4, <2>5
  <2>7. Used \subseteq Reached(cell, node) \cup Reached(cell, next)
    BY <2>1, TurnedWhole, WholeNull DEF Turning13, Used
  <2>8. Reached(cell', node') \cup Reached(cell', next') \subseteq Used'
    BY DEF Used
  <2>9. Lossless
    BY <2>1, <2>6, <2>7, <2>8 DEF Lossless
  <2> QED  BY <2>1, <2>4, <2>6, <2>9 DEF Kept13, Inv13, Turning13, Heap
<1>4. CASE List13!ReverseEnd
  <2>1. /\ Turning13 /\ next = NULL /\ UNCHANGED <<cell, live>> /\ list' = node
        /\ Quiet' /\ pc' = "ready"
    BY <1>4 DEF Inv13, List13!ReverseEnd, List13!Return, Quiet
  <2>2. Whole(cell', live', list') /\ Reached(cell, NULL) = {}
    BY <2>1, WholeNull DEF Turning13, Turned
  <2>3. Used \subseteq Reached(cell, node) \cup Reached(cell, next)
    BY <2>1, TurnedWhole, WholeNull DEF Turning13, Used
  <2>4. Used' = Reached(cell', list')
    BY <2>1, QuietUsedNext
  <2>5. Lossless
    BY <2>1, <2>2, <2>3, <2>4 DEF Lossless
  <2> QED  BY <2>1, <2>2, <2>5 DEF Kept13, Inv13, Idle, Turning13, Heap
<1> QED  BY <1>1, <1>2, <1>3, <1>4 DEF List13!reverse

\* A list of three nodes.
LEMMA ListOfThree ==
    ASSUME NEW d, NEW x \in Addresses, NEW y \in Addresses, NEW z \in Addresses,
           x # y, x # z, y # z, d[x].next = NULL, d[y].next = x, d[z].next = y
    PROVE  Ends(d, z) /\ Reached(d, z) = {x, y, z}
<1>1. Ends(d, NULL) /\ Reached(d, NULL) = {}
  BY WholeNull
<1>2. Ends(d, x) /\ Reached(d, x) = {x} \cup Reached(d, NULL)
  BY <1>1, ListCons
<1>3. Ends(d, y) /\ Reached(d, y) = {y} \cup Reached(d, x)
  BY <1>1, <1>2, ListCons
<1>4. Ends(d, z) /\ Reached(d, z) = {z} \cup Reached(d, y)
  BY <1>1, <1>2, <1>3, ListCons
<1> QED  BY <1>1, <1>2, <1>3, <1>4

LEMMA Make13 ==
    ASSUME Inv13, List13!make_something
    PROVE  Kept13
<1>1. /\ pc = "ready" /\ pc' = "ready" /\ Idle /\ Quiet' /\ list = NULL
  BY DEF Inv13, List13!make_something, List13!At, List13!Call, List13!locals, Idle, Quiet
<1>2. PICK n1, n2, n3, n4 \in Addresses \ live :
        /\ List13!Cardinality({n1, n2, n3}) = 3 /\ n4 \notin {n2, n3}
        /\ live' = live \cup {n2, n3, n4}
        /\ cell' = [cell EXCEPT ![n2] = [val |-> 2, next |-> NULL],
                                ![n4] = [val |-> 1, next |-> n2],
                                ![n3] = [val |-> 3, next |-> n4]]
        /\ list' = n3
  BY DEF List13!make_something
<1>3. n2 # n3
  <2> SUFFICES ASSUME n2 = n3 PROVE FALSE
    OBVIOUS
  <2>1. {n1, n2, n3} = {n1} \cup {n2}
    OBVIOUS
  <2>2. \A S : List13!Cardinality(S) = Cardinality(S)
    BY Zenon DEF List13!Cardinality, Cardinality
  <2>3. IsFiniteSet({n1}) /\ Cardinality({n1}) = 1
    BY FS_Singleton
  <2>4. Cardinality({n1} \cup {n2}) = 1 \/ Cardinality({n1} \cup {n2}) = 2
    BY <2>3, FS_AddElement
  <2> QED  BY <1>2, <2>1, <2>2, <2>4
<1>4. cell' \in Cells /\ cell'[n2].next = NULL /\ cell'[n4].next = n2 /\ cell'[n3].next = n4
  BY <1>1, <1>2, <1>3 DEF Idle, Heap, Cells
<1>5. ASSUME NEW d, d[n2].next = NULL, d[n4].next = n2, d[n3].next = n4
      PROVE  Ends(d, n3) /\ Reached(d, n3) = {n2, n4, n3}
  <2>1. n2 \in Addresses /\ n3 \in Addresses /\ n4 \in Addresses /\ n2 # n4 /\ n4 # n3
    BY <1>2
  <2> QED  BY <1>3, <1>5, <2>1, ListOfThree
<1>6. Ends(cell', list') /\ Reached(cell', list') = {n2, n4, n3}
  BY <1>2, <1>4, <1>5
<1>7. Used = {} /\ Used' = Reached(cell', list')
  BY <1>1, QuietUsed, QuietUsedNext, WholeNull DEF Idle
<1>8. Whole(cell', live', list')
  BY <1>2, <1>6 DEF Whole
<1>9. Idle' /\ Lossless
  BY <1>1, <1>2, <1>4, <1>6, <1>7, <1>8 DEF Idle, Heap, Lossless
<1> QED  BY <1>1, <1>9, Idle13

\* head->next of a NULL head, in bad_list.c.
LEMMA Crash13 ==
    ASSUME Inv13, List13!BadPopCrash, which' = "bad_list.c"
    PROVE  Kept13
<1>1. /\ pc = "ready" /\ pc' = "crashed" /\ Idle /\ Quiet' /\ UNCHANGED <<cell, live, list>>
      /\ list = NULL /\ before' = List13!Contents(NULL)
  BY DEF Inv13, List13!BadPopCrash, List13!Call, List13!locals, List13!heapvars, Idle, Quiet
<1>2. Idle' /\ Lossless
  BY <1>1, IdleKept
<1>3. List13!Reach(NULL) = {}
  BY WalkIsPath, WholeNull
<1>4. List13!Cardinality({}) = 0
  <2>1. List13!Cardinality({}) = Cardinality({})
    BY Zenon DEF List13!Cardinality, Cardinality
  <2> QED  BY <2>1, FS_EmptySet
<1>5. List13!Contents(NULL) = <<>>
  BY <1>3, <1>4 DEF List13!Contents
<1> QED  BY <1>1, <1>2, <1>5 DEF Kept13, Inv13

LEMMA Step13 ==
    ASSUME Inv13,
           \/ List13!Next \/ List13!Next2
           \/ List13!BadNext /\ which' = "bad_list.c"
    PROVE  Kept13
<1>1. CASE List13!Next
  BY <1>1, Calls13, Remove13, Insert13, Reverse13, Make13 DEF List13!Next
<1>2. CASE List13!Next2
  BY <1>2, Calls13, Reverse13 DEF List13!Next2, List13!reverse2
<1>3. CASE List13!BadNext /\ which' = "bad_list.c"
  BY <1>3, Calls13, Crash13 DEF List13!BadNext
<1> QED  BY <1>1, <1>2, <1>3

-----------------------------------------------------------------------------
\* The lists that the mains build are whole.
LEMMA BuiltIdle ==
    ASSUME NEW s \in Seq(Int), List13!Built(s)
    PROVE  pc = "ready" /\ Idle
<1> DEFINE S == 1..Len(s)
<1>1. PICK addr \in [S -> Addresses] :
        /\ List13!IsInjective(addr)
        /\ live = List13!Range(addr)
        /\ list = IF 1 \in DOMAIN addr THEN addr[1] ELSE NULL
        /\ cell = [a \in Addresses |->
              IF a \in live
              THEN LET k == CHOOSE k \in DOMAIN s : addr[k] = a
                   IN [val |-> s[k], next |-> IF k + 1 \in DOMAIN addr THEN addr[k + 1] ELSE NULL]
              ELSE [val |-> 0, next |-> NULL]]
  BY DEF List13!Built, List13!Blank
<1>2. pc = "ready" /\ Quiet
  BY DEF List13!Built, Quiet
<1> DEFINE at == [a \in live |-> CHOOSE k \in DOMAIN s : addr[k] = a]
           follower == [k \in S |-> IF k + 1 \in S THEN addr[k + 1] ELSE NULL]
<1>3. Len(s) \in Nat /\ DOMAIN s = S /\ DOMAIN addr = S /\ \A k \in S : s[k] \in Int
  OBVIOUS
<1>4. live = {addr[k] : k \in S} /\ live \subseteq Addresses
  BY <1>1, <1>3 DEF List13!Range
<1>5. \A j, k \in S : addr[j] = addr[k] => j = k
  BY <1>1, <1>3 DEF List13!IsInjective
<1>6. \A k \in S : at[addr[k]] = k
  BY <1>3, <1>4, <1>5
<1>7. \A a \in live : at[a] \in S /\ addr[at[a]] = a
  BY <1>1, <1>3, <1>4
<1>8. \A a \in live : /\ cell[a] \in [val : Int, next : Addresses \cup {NULL}]
                      /\ cell[a].next = follower[at[a]]
  <2> SUFFICES ASSUME NEW a \in live
               PROVE  /\ cell[a] \in [val : Int, next : Addresses \cup {NULL}]
                      /\ cell[a].next = follower[at[a]]
    OBVIOUS
  <2> DEFINE k == CHOOSE k \in DOMAIN s : addr[k] = a
  <2>1. cell[a] = [val |-> s[k], next |-> IF k + 1 \in DOMAIN addr THEN addr[k + 1] ELSE NULL]
    BY <1>1, <1>4
  <2>2. at[a] = k
    OBVIOUS
  <2> HIDE DEF k, at
  <2>3. k \in S
    BY <1>7, <2>2
  <2> QED  BY <1>3, <2>1, <2>2, <2>3
<1>9. \A a \in Addresses \ live : cell[a] = [val |-> 0, next |-> NULL]
  BY <1>1
<1>10. NULL \notin Addresses
  BY AddressesFinite
<1>11. \A k \in S : /\ follower[k] \in live \cup {NULL}
                    /\ follower[k] # NULL => k + 1 \in S /\ follower[k] = addr[k + 1]
  BY <1>4
<1> HIDE DEF at, follower
<1>12. cell \in Cells
  <2>1. \A a \in Addresses : cell[a] \in [val : Int, next : Addresses \cup {NULL}]
    BY <1>8, <1>9
  <2>2. cell = [a \in Addresses |-> cell[a]]
    BY <1>1
  <2> QED  BY <2>1, <2>2 DEF Cells
<1> DEFINE rank == [a \in live |-> Len(s) - at[a]]
<1>13. Descends(cell, live, rank)
  <2>1. \A a \in live : rank[a] \in Nat /\ rank[a] = Len(s) - at[a]
    BY <1>3, <1>7
  <2>2. ASSUME NEW a \in live, cell[a].next # NULL
        PROVE  rank[cell[a].next] < rank[a]
    <3>1. at[a] + 1 \in S /\ cell[a].next = addr[at[a] + 1] /\ at[a] \in S
      <4> DEFINE z == at[a]
      <4>1. z \in S /\ cell[a].next = follower[z]
        BY <1>7, <1>8
      <4> HIDE DEF z
      <4>2. z + 1 \in S /\ cell[a].next = addr[z + 1]
        BY <1>11, <2>2, <4>1
      <4> QED  BY <4>1, <4>2 DEF z
    <3>2. cell[a].next \in live /\ at[cell[a].next] = at[a] + 1
      BY <1>4, <1>6, <3>1
    <3> HIDE DEF rank
    <3> QED  BY <1>3, <2>1, <3>1, <3>2
  <2>3. rank \in [live -> Nat]
    BY <2>1
  <2> HIDE DEF rank
  <2> QED  BY <2>2, <2>3 DEF Descends
<1>14. Sound(cell, live)
  <2> HIDE DEF rank
  <2> QED  BY <1>4, <1>7, <1>8, <1>10, <1>11, <1>13 DEF Sound, Closed
<1>15. list \in live \cup {NULL}
  BY <1>1, <1>3, <1>4
<1>16. Whole(cell, live, list)
  BY <1>14, <1>15, ReachedInside DEF Whole, Ends, Sound
<1> QED  BY <1>2, <1>4, <1>12, <1>16 DEF Idle, Heap

-----------------------------------------------------------------------------
\* The list of the program of the run; a program of the hash map has none.
ListInv ==
    /\ which = "list.c" => Inv06
    /\ which # "list.c" => Inv13

KeepsNodes == Lossless \/ (which = "list.c" /\ call'.op = "remove_by_value")

\* Each program runs its own steps on its list, and some run none.
LEMMA ListSteps ==
    ASSUME MCNext
    PROVE  /\ which' = which
           /\ \/ which = "list.c" /\ List06!Next
              \/ /\ which # "list.c"
                 /\ \/ List13!Next \/ List13!Next2
                    \/ List13!BadNext /\ which' = "bad_list.c"
              \/ UNCHANGED listvars
<1>1. which' = which
  BY DEF MCNext
<1>2. "list_errors.c" # "list.c" /\ "bad_list.c" # "list.c" /\ "list2.c" # "list.c"
  OBVIOUS
<1> QED  BY <1>1, <1>2, Zenon DEF MCNext

LEMMA ListInit == MCInit => ListInv
<1>1. ASSUME NEW s \in Seq(Int), List13!Built(s)
      PROVE  ListInv
  BY <1>1, BuiltIdle DEF ListInv, Inv06, Inv13
<1>2. \A s : List06!Built(s) => List13!Built(s)
  BY DEF List06!Built, List13!Built, List06!Blank, List13!Blank, List06!NoCall, List13!NoCall,
         List06!IsInjective, List13!IsInjective, List06!Range, List13!Range
<1>3. /\ <<>> \in Seq(Int) /\ <<1, 2>> \in Seq(Int) /\ <<1, 2, 3>> \in Seq(Int)
      /\ <<2, 4, 6>> \in Seq(Int) /\ <<1, 2, 3, 4>> \in Seq(Int)
  OBVIOUS
<1>4. MCInit => \E s \in Seq(Int) : List13!Built(s)
  <2>1. NoList \/ List13!Init => \E s \in Seq(Int) : List13!Built(s)
    BY <1>3 DEF NoList, List13!Init
  <2>2. List06!Init \/ List13!GoodInit \/ List13!BadInit \/ List13!Init2
           => \E s \in Seq(Int) : List13!Built(s)
    BY <1>2, <1>3 DEF List06!Init, List13!GoodInit, List13!BadInit, List13!Init2
  <2> QED  BY <2>1, <2>2, Zenon DEF MCInit
<1> QED  BY <1>1, <1>4

\* What the lists' invariants read is unchanged.
LEMMA ListStays ==
    ASSUME ListInv, which' = which, UNCHANGED listvars
    PROVE  ListInv' /\ Lossless
<1>1. Used' = Used
  BY DEF listvars, Used
<1>2. Quiet' = Quiet /\ Heap' = Heap /\ Idle' = Idle
  BY DEF listvars, Quiet, Heap, Idle
<1>3. Unlinking' = Unlinking /\ Turning06' = Turning06 /\ Searching' = Searching
      /\ Turning13' = Turning13
  BY DEF listvars, Heap, Unlinking, Turning06, Searching, Turning13
<1>4. Inv06' = Inv06 /\ Inv13' = Inv13
  BY <1>2, <1>3 DEF listvars, Inv06, Inv13
<1> QED  BY <1>1, <1>4 DEF ListInv, listvars, Lossless

LEMMA ListStep ==
    ASSUME ListInv, [MCNext]_<<which, mapvars, listvars>>
    PROVE  ListInv' /\ KeepsNodes
<1>1. CASE UNCHANGED listvars /\ which' = which
  BY <1>1, ListStays DEF KeepsNodes
<1>2. CASE MCNext /\ which = "list.c" /\ List06!Next
  <2>1. which' = which
    BY <1>2, ListSteps
  <2> QED  BY <1>2, <2>1, Step06 DEF ListInv, Kept06, KeepsNodes
<1>3. CASE /\ MCNext /\ which # "list.c"
           /\ \/ List13!Next \/ List13!Next2
              \/ List13!BadNext /\ which' = "bad_list.c"
  <2>1. which' = which
    BY <1>3, ListSteps
  <2> QED  BY <1>3, <2>1, Step13 DEF ListInv, Kept13, KeepsNodes
<1>4. UNCHANGED <<which, mapvars, listvars>> => UNCHANGED listvars /\ which' = which
  OBVIOUS
<1> QED  BY <1>1, <1>2, <1>3, <1>4, ListSteps

\* Every pointer is the first of a list that ends, in memory the program owns.
LEMMA ListsEnd ==
    ASSUME ListInv
    PROVE  /\ \A h \in {list, prev, node, next} : Ends(cell, h)
           /\ Used \subseteq live
<1>1. Whole(cell, live, NULL)
  BY WholeNull
<1>2. ASSUME \A h \in {list, prev, node, next} : Whole(cell, live, h)
      PROVE  /\ \A h \in {list, prev, node, next} : Ends(cell, h)
             /\ Used \subseteq live
  BY <1>2 DEF Whole, Used
<1>3. CASE Idle
  BY <1>1, <1>2, <1>3 DEF Idle, Quiet
<1>4. CASE Unlinking
  <2>1. PICK T : /\ Sound(cell, T) /\ T \subseteq live
                 /\ {list, prev, node} \subseteq T \cup {NULL}
    BY <1>4 DEF Unlinking
  <2>2. ASSUME NEW h \in T \cup {NULL} PROVE Whole(cell, live, h)
    BY <2>1, ReachedInside DEF Whole, Ends, Sound
  <2>3. next = NULL
    BY <1>4 DEF Unlinking
  <2> QED  BY <1>2, <2>1, <2>2, <2>3
<1>5. CASE Turning06
  <2>1. Turned(cell, live, list, prev, node) /\ next = NULL
    BY <1>5 DEF Turning06
  <2>2. Whole(cell, live, list) /\ Whole(cell, live, prev) /\ Whole(cell, live, node)
    BY <2>1, TurnedWhole DEF Turned
  <2> QED  BY <1>1, <1>2, <2>1, <2>2
<1>6. CASE Searching
  <2>1. node = NULL \/ Whole(cell, live, node)
    BY <1>6, ListPart DEF Searching, Whole
  <2> QED  BY <1>1, <1>2, <1>6, <2>1 DEF Searching
<1>7. CASE Turning13
  <2>1. Turned(cell, live, list, node, next) /\ prev = NULL
    BY <1>7 DEF Turning13
  <2>2. Whole(cell, live, list) /\ Whole(cell, live, node) /\ Whole(cell, live, next)
    BY <2>1, TurnedWhole DEF Turned
  <2> QED  BY <1>1, <1>2, <2>1, <2>2
<1> QED  BY <1>3, <1>4, <1>5, <1>6, <1>7 DEF ListInv, Inv06, Inv13

\* In every list program no loop over a list runs for ever, no pointer that is
\* still followed leads to memory that was freed or never allocated, and only
\* the pop of bad_list.c, on an empty list, follows NULL: for any number of
\* nodes, whichever malloc returns, and calls with any ints.
THEOREM HeapCorrect == MCSpec => []HeapSafe
<1>1. MCInit => ListInv
  BY ListInit
<1>2. ListInv /\ [MCNext]_<<which, mapvars, listvars>> => ListInv'
  BY ListStep
<1>3. ListInv => HeapSafe
  <2> SUFFICES ASSUME ListInv PROVE HeapSafe
    OBVIOUS
  <2>1. /\ \A h \in {list, prev, node, next} : Ends(cell, h)
        /\ Used \subseteq live
    BY ListsEnd
  <2>2. List13!InUse = Used
    BY WalkIsPath DEF List13!InUse, Used
  <2>3. ASSUME NEW h \in {list, prev, node, next} PROVE List13!Terminated(h)
    <3>1. PICK T : Sound(cell, T) /\ h \in T \cup {NULL}
      BY <2>1 DEF Ends
    <3> QED  BY <3>1, PathEnds, WalkIsPath
  <2>4. pc = "crashed" => which = "bad_list.c" /\ before = <<>>
    BY DEF ListInv, Inv06, Inv13
  <2> QED  BY <2>1, <2>2, <2>3, <2>4 DEF HeapSafe
<1> QED  BY <1>1, <1>2, <1>3, PTL DEF MCSpec

\* No call of a list program loses a node: what it takes out of reach it frees,
\* except for the remove_by_value of list.c.
THEOREM NodesKept == MCSpec => NothingLost
<1>1. MCInit => ListInv
  BY ListInit
<1>2. ListInv /\ [MCNext]_<<which, mapvars, listvars>> => ListInv'
  BY ListStep
<1>3. ListInv /\ [MCNext]_<<which, mapvars, listvars>>
          => [\/ (live' \ List13!InUse') \subseteq (live \ List13!InUse)
              \/ which = "list.c" /\ call'.op = "remove_by_value"]_listvars
  <2>1. List13!InUse = Used
    BY WalkIsPath DEF List13!InUse, Used
  <2>2. List13!InUse' = Used'
    <3>1. \A h : List13!Reach(h) = Reached(cell, h)
      BY WalkIsPath
    <3>2. (\A h : List13!Reach(h) = Reached(cell, h))'
      BY WalkIsPath, PTL
    <3> QED  BY <3>2 DEF List13!InUse, Used
  <2> QED  BY <2>1, <2>2, ListStep DEF KeepsNodes, Lossless
<1> QED  BY <1>1, <1>2, <1>3, PTL DEF MCSpec, NothingLost
====
