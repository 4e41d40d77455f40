---- MODULE ThreadsProofs ----
(***************************************************************************)
(* Proofs about the programs of MCThreads, for any number of children and  *)
(* any amount of work: queue.c without its mutex, and counter.c,           *)
(* barrier.c, counter_array.c, counter_array_mutex.c and read_write.c of   *)
(* exercises/ex12.                                                         *)
(*                                                                         *)
(* counter.c and barrier.c both lose updates.  What saves them is that a   *)
(* value loaded from the counter never exceeds the number of children that *)
(* have stored theirs, however old it is when it is stored again.          *)
(***************************************************************************)
EXTENDS MCThreads, FiniteSetTheorems, TLAPS

\* What ForkJoin says of n children with these labels.
Frame(n, labels) ==
    /\ pc \in [1..n -> labels]
    /\ made \in 0..n
    /\ joined \in 0..n
    /\ failed \in BOOLEAN
    /\ \A t \in 1..n : pc[t] = "new" <=> t > made
    /\ \A t \in 1..n : t <= joined => pc[t] = "done"

\* The children, of n, at the labels of S.
At(n, S) == {t \in 1..n : pc[t] \in S}

-----------------------------------------------------------------------------
\* A child's move, label by label.
LEMMA Moved ==
    ASSUME NEW n \in Nat, NEW labels, pc \in [1..n -> labels], NEW t \in 1..n, NEW l \in labels,
           pc' = [pc EXCEPT ![t] = l]
    PROVE  /\ pc' \in [1..n -> labels]
           /\ \A s \in 1..n : pc'[s] = IF s = t THEN l ELSE pc[s]
OBVIOUS

LEMMA ChildKeepsFrame ==
    ASSUME NEW n \in Nat, NEW labels, Frame(n, labels), NEW t \in 1..n, NEW l \in labels,
           pc[t] \notin {"new", "done"}, l # "new",
           pc' = [pc EXCEPT ![t] = l], made' = made, joined' = joined, failed' = failed
    PROVE  Frame(n, labels)'
BY Moved DEF Frame

LEMMA MainKeepsFrame ==
    ASSUME NEW n \in Nat, NEW labels, Frame(n, labels), NEW first \in labels, first # "new",
           \/ /\ made < n /\ made' = made + 1 /\ pc' = [pc EXCEPT ![made + 1] = first]
              /\ joined' = joined /\ failed' = failed
           \/ /\ failed' = TRUE /\ pc' = pc /\ made' = made /\ joined' = joined
           \/ /\ joined < n /\ pc[joined + 1] = "done" /\ joined' = joined + 1
              /\ pc' = pc /\ made' = made /\ failed' = failed
    PROVE  Frame(n, labels)'
<1>n. made \in 0..n /\ joined \in 0..n /\ pc \in [1..n -> labels]
  BY DEF Frame
<1>1. CASE made < n /\ made' = made + 1 /\ pc' = [pc EXCEPT ![made + 1] = first]
           /\ joined' = joined /\ failed' = failed
  <2>1. made + 1 \in 1..n /\ pc[made + 1] = "new"
    BY <1>n, <1>1 DEF Frame
  <2>2. /\ pc' \in [1..n -> labels]
        /\ \A s \in 1..n : pc'[s] = IF s = made + 1 THEN first ELSE pc[s]
    BY <1>n, <1>1, <2>1, Moved
  <2>3. \A s \in 1..n : pc'[s] = "new" <=> s > made'
    BY <1>n, <1>1, <2>2 DEF Frame
  <2>4. \A s \in 1..n : s <= joined' => pc'[s] = "done"
    BY <1>n, <1>1, <2>1, <2>2 DEF Frame
  <2> QED  BY <1>n, <1>1, <2>2, <2>3, <2>4 DEF Frame
<1>2. CASE failed' = TRUE /\ pc' = pc /\ made' = made /\ joined' = joined
  BY <1>2 DEF Frame
<1>3. CASE joined < n /\ pc[joined + 1] = "done" /\ joined' = joined + 1
           /\ pc' = pc /\ made' = made /\ failed' = failed
  BY <1>n, <1>3 DEF Frame
<1> QED  BY <1>1, <1>2, <1>3

LEMMA FrameInit ==
    ASSUME NEW n \in Nat, NEW labels, "new" \in labels,
           pc = [t \in 1..n |-> "new"], made = 0, joined = 0, failed = FALSE
    PROVE  Frame(n, labels)
<1>1. failed \in BOOLEAN
  OBVIOUS
<1>2. made \in 0..n /\ joined \in 0..n
  OBVIOUS
<1>3. pc \in [1..n -> labels] /\ \A t \in 1..n : pc[t] = "new"
  OBVIOUS
<1>4. \A t \in 1..n : t > made /\ ~(t <= joined)
  OBVIOUS
<1> QED  BY <1>1, <1>2, <1>3, <1>4 DEF Frame

-----------------------------------------------------------------------------
\* How many children are at some labels, and what a move makes of it.
LEMMA AtFinite ==
    ASSUME NEW n \in Nat, NEW S
    PROVE  /\ IsFiniteSet(At(n, S))
           /\ Cardinality(At(n, S)) \in 0..n
           /\ Cardinality(At(n, S)) = n => \A t \in 1..n : pc[t] \in S
<1>1. IsFiniteSet(1..n) /\ Cardinality(1..n) = n
  BY FS_Interval
<1>2. At(n, S) \in SUBSET (1..n)
  BY DEF At
<1>3. /\ IsFiniteSet(At(n, S)) /\ Cardinality(At(n, S)) <= n
      /\ Cardinality(At(n, S)) = n => At(n, S) = 1..n
  BY <1>1, <1>2, FS_Subset
<1>4. Cardinality(At(n, S)) \in Nat
  BY <1>3, FS_CardinalityType
<1> QED  BY <1>3, <1>4 DEF At

LEMMA AtEnters ==
    ASSUME NEW n \in Nat, NEW labels, pc \in [1..n -> labels], NEW t \in 1..n, NEW l \in labels,
           pc' = [pc EXCEPT ![t] = l], NEW S, pc[t] \notin S, l \in S
    PROVE  Cardinality(At(n, S)') = Cardinality(At(n, S)) + 1
<1>1. \A s \in 1..n : pc'[s] = IF s = t THEN l ELSE pc[s]
  BY Moved
<1>2. At(n, S)' = At(n, S) \cup {t} /\ t \notin At(n, S)
  BY <1>1 DEF At
<1> QED  BY <1>2, AtFinite, FS_AddElement

LEMMA AtStays ==
    ASSUME NEW n \in Nat, NEW labels, pc \in [1..n -> labels], NEW t \in 1..n, NEW l \in labels,
           pc' = [pc EXCEPT ![t] = l], NEW S, pc[t] \in S <=> l \in S
    PROVE  At(n, S)' = At(n, S)
BY Moved DEF At

-----------------------------------------------------------------------------
(* counter.c. *)

\* The children that have stored.
Counted == At(NumChildren, {"done"})

CounterInv ==
    /\ Frame(NumChildren, C!Labels)
    /\ counter \in Nat
    /\ loaded \in [1..NumChildren -> Nat]
    /\ counter <= Cardinality(Counted)
    /\ \A t \in 1..NumChildren : pc[t] = "store" => loaded[t] <= Cardinality(Counted)
    /\ Counted # {} => counter >= 1

LEMMA CounterInit == C!Init => CounterInv
<1> SUFFICES ASSUME C!Init PROVE CounterInv
    OBVIOUS
<1> USE DEF C!Init, C!FrameInit, C!Children
<1>1. Counted = {}
  BY DEF Counted, At
<1>2. Cardinality(Counted) = 0
  BY <1>1, FS_EmptySet
<1>3. Frame(NumChildren, C!Labels)
  BY ThreadsAssumption, FrameInit DEF C!Labels
<1> QED  BY <1>1, <1>2, <1>3 DEF CounterInv

LEMMA CounterStep ==
    ASSUME CounterInv, C!Next
    PROVE  CounterInv'
<1> DEFINE n == NumChildren
<1>n. /\ n \in Nat /\ pc \in [1..n -> C!Labels] /\ Cardinality(Counted) \in Nat
      /\ counter \in Nat /\ loaded \in [1..n -> Nat]
  BY ThreadsAssumption, AtFinite DEF CounterInv, Frame, Counted
<1> HIDE DEF n
<1>s. "load" \in C!Labels /\ "store" \in C!Labels /\ "done" \in C!Labels /\ "print" \in C!Labels
  BY DEF C!Labels
\* A move that neither stores nor loads.
<1>i. ASSUME NEW t \in 1..n, NEW l \in C!Labels, pc' = [pc EXCEPT ![t] = l],
             pc[t] # "done", l \notin {"done", "store"}, Frame(n, C!Labels)',
             counter' = counter, loaded' = loaded
      PROVE  CounterInv'
  <2>1. Counted' = Counted
    <3>1. pc[t] \in {"done"} <=> l \in {"done"}
      BY <1>i
    <3> QED  BY <1>n, <1>i, <3>1, AtStays DEF Counted, n
  <2>2. \A s \in 1..n : pc'[s] = "store" => pc[s] = "store"
    BY <1>n, <1>i, Moved
  <2> QED  BY <1>i, <2>1, <2>2 DEF CounterInv, n
<1>1. ASSUME NEW t \in 1..n, C!Show(t)
      PROVE  CounterInv'
  <2>1. /\ pc[t] = "print" /\ pc' = [pc EXCEPT ![t] = "load"]
        /\ UNCHANGED <<made, joined, failed, counter, loaded>>
    BY <1>1 DEF C!Show, C!Goto, C!framevars
  <2>2. Frame(n, C!Labels)'
    BY <1>n, <1>s, <2>1, ChildKeepsFrame DEF CounterInv, n
  <2> QED  BY <1>i, <1>s, <2>1, <2>2
<1>2. ASSUME NEW t \in 1..n, C!Load(t)
      PROVE  CounterInv'
  <2>1. /\ pc[t] = "load" /\ pc' = [pc EXCEPT ![t] = "store"]
        /\ UNCHANGED <<made, joined, failed, counter>>
        /\ loaded' = [loaded EXCEPT ![t] = counter]
    BY <1>2 DEF C!Load, C!Goto, C!framevars
  <2>2. Frame(n, C!Labels)'
    BY <1>n, <1>s, <2>1, ChildKeepsFrame DEF CounterInv, n
  <2>3. Counted' = Counted
    <3>1. pc[t] \in {"done"} <=> "store" \in {"done"}
      BY <2>1
    <3> QED  BY <1>n, <1>s, <2>1, <3>1, AtStays DEF Counted, n
  <2>4. ASSUME NEW s \in 1..n, pc'[s] = "store"
        PROVE  loaded'[s] <= Cardinality(Counted)
    <3>1. CASE s = t
      BY <1>n, <2>1, <3>1 DEF CounterInv
    <3>2. CASE s # t
      BY <1>n, <2>1, <2>4, <3>2 DEF CounterInv, n
    <3> QED  BY <3>1, <3>2
  <2>5. loaded' \in [1..n -> Nat]
    BY <1>n, <2>1
  <2> QED  BY <2>1, <2>2, <2>3, <2>4, <2>5 DEF CounterInv, n
\* The store adds one child to those counted and at most one to their count.
<1>3. ASSUME NEW t \in 1..n, C!Store(t)
      PROVE  CounterInv'
  <2>1. /\ pc[t] = "store" /\ pc' = [pc EXCEPT ![t] = "done"]
        /\ UNCHANGED <<made, joined, failed, loaded>>
        /\ counter' = loaded[t] + 1
    BY <1>3 DEF C!Store, C!Goto, C!framevars
  <2>2. Frame(n, C!Labels)'
    BY <1>n, <1>s, <2>1, ChildKeepsFrame DEF CounterInv, n
  <2>3. Cardinality(Counted') = Cardinality(Counted) + 1
    <3> DEFINE D == {"done"}
    <3>1. pc[t] \notin D /\ "done" \in D
      BY <2>1
    <3> HIDE DEF D
    <3>2. n \in Nat /\ pc \in [1..n -> C!Labels] /\ "done" \in C!Labels
      BY <1>n, <1>s
    <3>3. pc' = [pc EXCEPT ![t] = "done"]
      BY <2>1
    <3>4. Cardinality(At(n, D)') = Cardinality(At(n, D)) + 1
      BY <3>1, <3>2, <3>3, AtEnters
    <3> QED  BY <3>4 DEF Counted, D, n
  <2>4. loaded[t] \in Nat /\ loaded[t] <= Cardinality(Counted)
    BY <1>n, <2>1 DEF CounterInv, n
  <2>5. counter' \in Nat /\ counter' <= Cardinality(Counted') /\ counter' >= 1
    BY <1>n, <2>1, <2>3, <2>4
  <2>6. \A s \in 1..n : pc'[s] = "store" => loaded'[s] <= Cardinality(Counted')
    <3>1. ASSUME NEW s \in 1..n, pc'[s] = "store"
          PROVE  loaded[s] \in Nat /\ loaded[s] <= Cardinality(Counted)
      BY <1>n, <1>s, <2>1, <3>1, Moved DEF CounterInv, n
    <3> QED  BY <1>n, <2>1, <2>3, <3>1
  <2> QED  BY <1>n, <2>1, <2>2, <2>5, <2>6 DEF CounterInv, n
<1>4. ASSUME C!MakeThread("print") \/ C!MakeThreadFails \/ C!JoinThread,
             counter' = counter, loaded' = loaded
      PROVE  CounterInv'
  <2>1. Frame(n, C!Labels)'
    BY <1>n, <1>s, <1>4, MainKeepsFrame
    DEF C!MakeThread, C!MakeThreadFails, C!JoinThread, C!Goto, C!framevars, CounterInv, n
  <2>2. CASE C!MakeThread("print")
    <3>1. made + 1 \in 1..n /\ pc[made + 1] = "new" /\ pc' = [pc EXCEPT ![made + 1] = "print"]
      BY <1>n, <2>2 DEF C!MakeThread, C!Goto, CounterInv, Frame, n
    <3> QED  BY <1>4, <1>i, <1>s, <2>1, <3>1
  <2>3. CASE pc' = pc
    BY <1>4, <2>1, <2>3 DEF CounterInv, Counted, At, n
  <2> QED  BY <1>4, <2>2, <2>3 DEF C!MakeThreadFails, C!JoinThread
<1>5. ASSUME UNCHANGED C!vars
      PROVE  CounterInv'
  BY <1>5 DEF C!vars, C!framevars, CounterInv, Frame, Counted, At
<1> QED  BY <1>1, <1>2, <1>3, <1>4, <1>5 DEF C!Next, C!Child, C!Children, n

\* counter.c: the value main prints is between 1 and the number of children,
\* and the counter never claims more increments than were stored, for every
\* number of children.
THEOREM CountersBounded == FairSpec => []CounterBounds
<1> DEFINE I == program = "counter" => CounterInv
<1>1. Init => I
  BY CounterInit DEF Init
<1>2. I /\ [Next]_vars => I'
  <2>1. ASSUME CounterInv, UNCHANGED vars
        PROVE  CounterInv'
    BY <2>1 DEF vars, ex12only, CounterInv, Frame, Counted, At
  <2> QED  BY <2>1, CounterStep DEF Next, vars
<1>3. I => CounterBounds
  <2> SUFFICES ASSUME CounterInv PROVE C!FrameOK(C!Labels) /\ C!CounterBounds
    BY DEF CounterBounds
  <2>1. C!Stored = Counted
    BY DEF C!Stored, C!Children, Counted, At
  <2>2. C!FrameOK(C!Labels)
    BY DEF CounterInv, Frame, C!FrameOK, C!Children
  <2>3. C!Cardinality(C!Stored) = Cardinality(Counted)
    BY <2>1 DEF C!Cardinality, Cardinality
  <2> QED  BY <2>1, <2>2, <2>3 DEF CounterInv, C!CounterBounds
<1> QED  BY <1>1, <1>2, <1>3, PTL DEF FairSpec

-----------------------------------------------------------------------------
(* barrier.c. *)

\* The children that have stored, and a formula that says what a loaded value
\* and the counter are good for: the counter is full only if all have stored.
Past == At(NumChildren, {"spin", "part2", "done"})

PartsSeparate == (\E t \in 1..NumChildren : pc[t] \in {"part2", "done"})
                     => \A t \in 1..NumChildren : pc[t] \notin {"new", "part1"}

BarrierInv ==
    /\ Frame(NumChildren, B!Labels)
    /\ counter \in Nat
    /\ loaded \in [1..NumChildren -> Nat]
    /\ counter <= Cardinality(Past)
    /\ \A t \in 1..NumChildren : pc[t] = "store" => loaded[t] <= Cardinality(Past)
    /\ PartsSeparate

LEMMA BarrierInit == B!Init => BarrierInv
<1> SUFFICES ASSUME B!Init PROVE BarrierInv
    OBVIOUS
<1> USE DEF B!Init, B!FrameInit, B!Children
<1>1. Past = {}
  BY DEF Past, At
<1>2. Cardinality(Past) = 0
  BY <1>1, FS_EmptySet
<1>3. Frame(NumChildren, B!Labels)
  BY ThreadsAssumption, FrameInit DEF B!Labels
<1> QED  BY <1>1, <1>2, <1>3 DEF BarrierInv, PartsSeparate

LEMMA BarrierStep ==
    ASSUME BarrierInv, B!Next
    PROVE  BarrierInv'
<1> DEFINE n == NumChildren
           S == {"spin", "part2", "done"}
<1>n. /\ n \in Nat /\ pc \in [1..n -> B!Labels] /\ Cardinality(Past) \in Nat
      /\ counter \in Nat /\ loaded \in [1..n -> Nat]
      /\ Cardinality(Past) <= n
      /\ Cardinality(Past) = n => \A t \in 1..n : pc[t] \in S
  BY ThreadsAssumption, AtFinite DEF BarrierInv, Frame, Past
<1>p. Past = At(n, S) /\ Past' = At(n, S)'
  BY DEF Past
<1> HIDE DEF n
\* No child returns to the first part, so that only the first to leave the
\* loop has to be looked at.
<1>q. ASSUME NEW t \in 1..n, NEW l \in B!Labels, l \notin {"new", "part1"},
             pc' = [pc EXCEPT ![t] = l],
             l \in {"part2", "done"} => \/ pc[t] \in {"part2", "done"}
                                        \/ \A s \in 1..n : pc[s] \notin {"new", "part1"}
      PROVE  PartsSeparate'
  BY <1>n, <1>q, Moved DEF BarrierInv, PartsSeparate, n
\* A move that neither stores nor loads.
<1>i. ASSUME NEW t \in 1..n, NEW l \in B!Labels, pc' = [pc EXCEPT ![t] = l],
             pc[t] \in S <=> l \in S, l # "store", Frame(n, B!Labels)',
             counter' = counter, loaded' = loaded, PartsSeparate'
      PROVE  BarrierInv'
  <2>1. Past' = Past
    <3>1. pc[t] \in S <=> l \in S
      BY <1>i
    <3> HIDE DEF S
    <3>2. At(n, S)' = At(n, S)
      BY <1>n, <1>i, <3>1, AtStays
    <3> QED  BY <1>p, <3>2
  <2>2. \A s \in 1..n : pc'[s] = "store" => pc[s] = "store"
    BY <1>n, <1>i, Moved
  <2> QED  BY <1>i, <2>1, <2>2 DEF BarrierInv, n
<1>1. ASSUME NEW t \in 1..n, B!Part1(t) \/ B!SpinExit(t) \/ B!Part2(t)
      PROVE  BarrierInv'
  <2>1. PICK l \in B!Labels :
            /\ pc' = [pc EXCEPT ![t] = l] /\ l \notin {"new", "store", "part1"}
            /\ pc[t] \notin {"new", "done"}
            /\ pc[t] \in S <=> l \in S
            /\ \/ l = "load"
               \/ l = "part2" /\ pc[t] = "spin" /\ counter >= n
               \/ l = "done" /\ pc[t] = "part2"
            /\ UNCHANGED <<made, joined, failed, counter, loaded>>
    BY <1>1 DEF B!Part1, B!SpinExit, B!Part2, B!Goto, B!framevars, B!Labels, n
  <2>2. Frame(n, B!Labels)'
    BY <1>n, <2>1, ChildKeepsFrame DEF BarrierInv, n
  \* The counter a child leaves the loop with is full.
  <2>3. counter >= n => \A s \in 1..n : pc[s] \in S
    BY <1>n DEF BarrierInv
  <2>4. PartsSeparate'
    BY <1>q, <2>1, <2>3
  <2> QED  BY <1>i, <2>1, <2>2, <2>4
<1>2. ASSUME NEW t \in 1..n, B!Load(t)
      PROVE  BarrierInv'
  <2>1. /\ pc[t] = "load" /\ pc' = [pc EXCEPT ![t] = "store"] /\ "store" \in B!Labels
        /\ UNCHANGED <<made, joined, failed, counter>>
        /\ loaded' = [loaded EXCEPT ![t] = counter]
    BY <1>2 DEF B!Load, B!Goto, B!framevars, B!Labels
  <2>2. Frame(n, B!Labels)'
    BY <1>n, <2>1, ChildKeepsFrame DEF BarrierInv, n
  <2>3. Past' = Past
    <3>1. pc[t] \in S <=> "store" \in S
      BY <2>1
    <3> HIDE DEF S
    <3> QED  BY <1>n, <1>p, <2>1, <3>1, AtStays
  <2>4. ASSUME NEW s \in 1..n, pc'[s] = "store"
        PROVE  loaded'[s] <= Cardinality(Past)
    <3>1. CASE s = t
      BY <1>n, <2>1, <3>1 DEF BarrierInv
    <3>2. CASE s # t
      BY <1>n, <2>1, <2>4, <3>2 DEF BarrierInv, n
    <3> QED  BY <3>1, <3>2
  <2>5. loaded' \in [1..n -> Nat]
    BY <1>n, <2>1
  <2>6. PartsSeparate'
    BY <1>q, <2>1
  <2> QED  BY <2>1, <2>2, <2>3, <2>4, <2>5, <2>6 DEF BarrierInv, n
<1>3. ASSUME NEW t \in 1..n, B!Store(t)
      PROVE  BarrierInv'
  <2>1. /\ pc[t] = "store" /\ pc' = [pc EXCEPT ![t] = "spin"] /\ "spin" \in B!Labels
        /\ UNCHANGED <<made, joined, failed, loaded>>
        /\ counter' = loaded[t] + 1
    BY <1>3 DEF B!Store, B!Goto, B!framevars, B!Labels
  <2>2. Frame(n, B!Labels)'
    BY <1>n, <2>1, ChildKeepsFrame DEF BarrierInv, n
  <2>3. Cardinality(Past') = Cardinality(Past) + 1
    <3>1. pc[t] \notin S /\ "spin" \in S
      BY <2>1
    <3> HIDE DEF S
    <3>2. n \in Nat /\ pc \in [1..n -> B!Labels] /\ "spin" \in B!Labels
      BY <1>n, <2>1
    <3>3. pc' = [pc EXCEPT ![t] = "spin"]
      BY <2>1
    <3>4. Cardinality(At(n, S)') = Cardinality(At(n, S)) + 1
      BY <3>1, <3>2, <3>3, AtEnters
    <3> QED  BY <1>p, <3>4
  <2>4. counter' \in Nat /\ counter' <= Cardinality(Past')
    <3>1. loaded[t] \in Nat /\ loaded[t] <= Cardinality(Past)
      BY <1>n, <2>1 DEF BarrierInv, n
    <3> QED  BY <1>n, <2>1, <2>3, <3>1
  <2>5. \A s \in 1..n : pc'[s] = "store" => loaded'[s] <= Cardinality(Past')
    <3>1. ASSUME NEW s \in 1..n, pc'[s] = "store"
          PROVE  loaded[s] \in Nat /\ loaded[s] <= Cardinality(Past)
      BY <1>n, <2>1, <3>1, Moved DEF BarrierInv, n
    <3> QED  BY <1>n, <2>1, <2>3, <3>1
  <2>6. PartsSeparate'
    BY <1>q, <2>1
  <2> QED  BY <1>n, <2>1, <2>2, <2>4, <2>5, <2>6 DEF BarrierInv, n
<1>4. ASSUME B!MakeThread("part1") \/ B!MakeThreadFails \/ B!JoinThread,
             counter' = counter, loaded' = loaded
      PROVE  BarrierInv'
  <2>1. "part1" \in B!Labels /\ Frame(n, B!Labels)'
    BY <1>n, <1>4, MainKeepsFrame
    DEF B!MakeThread, B!MakeThreadFails, B!JoinThread, B!Goto, B!framevars, B!Labels,
        BarrierInv, n
  <2>2. CASE B!MakeThread("part1")
    <3>1. /\ made + 1 \in 1..n /\ pc[made + 1] = "new"
          /\ pc' = [pc EXCEPT ![made + 1] = "part1"]
      BY <1>n, <2>2 DEF B!MakeThread, B!Goto, BarrierInv, Frame, n
    \* As long as a child is to be created none has left the loop.
    <3>2. PartsSeparate'
      BY <1>n, <2>1, <3>1, Moved DEF BarrierInv, PartsSeparate, n
    <3>3. pc[made + 1] \in S <=> "part1" \in S
      BY <3>1
    <3> QED  BY <1>4, <1>i, <2>1, <3>1, <3>2, <3>3
  <2>3. CASE pc' = pc
    BY <1>4, <2>1, <2>3 DEF BarrierInv, PartsSeparate, Past, At, n
  <2> QED  BY <1>4, <2>2, <2>3 DEF B!MakeThreadFails, B!JoinThread
<1>5. ASSUME UNCHANGED B!vars
      PROVE  BarrierInv'
  BY <1>5 DEF B!vars, B!framevars, BarrierInv, PartsSeparate, Frame, Past, At
<1> QED  BY <1>1, <1>2, <1>3, <1>4, <1>5 DEF B!Next, B!Child, B!Children, n

LEMMA BarrierInvariance == FairSpec => [](program = "barrier" => BarrierInv)
<1> DEFINE I == program = "barrier" => BarrierInv
<1>1. Init => I
  BY BarrierInit DEF Init
<1>2. I /\ [Next]_vars => I'
  <2>1. ASSUME BarrierInv, UNCHANGED vars
        PROVE  BarrierInv'
    BY <2>1 DEF vars, ex12only, BarrierInv, PartsSeparate, Frame, Past, At
  <2> QED  BY <2>1, BarrierStep DEF Next, vars
<1> QED  BY <1>1, <1>2, PTL DEF FairSpec

-----------------------------------------------------------------------------
(* counter_array.c. *)

\* A child between its test and the store of the counter.
Active(t) == pc[t] \in {"index", "get", "put", "load", "store"}

\* With two children: when the counter has reached End only one of them can
\* still be on its way to store it, and when it has passed End none is.
OvershootInv ==
    ArrayChildren = 2 =>
        /\ counter <= End + 1
        /\ counter >= End => \A t, u \in 1..2 : Active(t) /\ Active(u) => t = u
        /\ counter > End => \A t \in 1..2 : ~Active(t)
        /\ \A t \in 1..2 : pc[t] = "store" =>
               /\ loaded[t] <= End
               /\ loaded[t] = End => counter >= End

ArrayInv ==
    /\ Frame(ArrayChildren, A!Labels)
    /\ counter \in Nat
    /\ DOMAIN loaded = 1..ArrayChildren
    /\ \A t \in 1..ArrayChildren : pc[t] = "store" => loaded[t] \in Nat
    /\ OvershootInv

LEMMA ArrayInit == A!Init => ArrayInv
<1> SUFFICES ASSUME A!Init PROVE ArrayInv
    OBVIOUS
<1> USE DEF A!Init, A!FrameInit, A!Children
<1>1. Frame(ArrayChildren, A!Labels)
  BY ThreadsAssumption, FrameInit DEF A!Labels
<1>2. \A t \in 1..ArrayChildren : pc[t] = "new"
  OBVIOUS
<1> QED  BY <1>1, <1>2, ThreadsAssumption DEF ArrayInv, OvershootInv, Active

LEMMA ArrayStep ==
    ASSUME ArrayInv, A!Next
    PROVE  ArrayInv'
<1> DEFINE n == ArrayChildren
<1>n. /\ n \in Nat /\ pc \in [1..n -> A!Labels] /\ counter \in Nat /\ End \in Nat
      /\ DOMAIN loaded = 1..n
  BY ThreadsAssumption DEF ArrayInv, Frame
<1> HIDE DEF n
\* A move that stores nothing and leaves the store aside.
<1>i. ASSUME NEW t \in 1..n, NEW l \in A!Labels, pc' = [pc EXCEPT ![t] = l], l # "store",
             l \in {"index", "get", "put", "load"} => Active(t) \/ counter < End,
             Frame(n, A!Labels)', counter' = counter, DOMAIN loaded' = 1..n,
             \A s \in 1..n : pc[s] = "store" => loaded'[s] = loaded[s]
      PROVE  ArrayInv'
  <2>1. \A s \in 1..n : pc'[s] = IF s = t THEN l ELSE pc[s]
    BY <1>n, <1>i, Moved
  <2>2. \A s \in 1..n : pc'[s] = "store" => pc[s] = "store" /\ loaded'[s] = loaded[s]
    BY <1>i, <2>1
  <2>3. \A s \in 1..n : Active(s)' => Active(s) \/ (s = t /\ counter < End)
    BY <1>i, <2>1 DEF Active
  <2>4. OvershootInv'
    BY <1>n, <1>i, <2>2, <2>3 DEF ArrayInv, OvershootInv, n
  <2> QED  BY <1>n, <1>i, <2>2, <2>4 DEF ArrayInv, n
<1>1. ASSUME NEW t \in 1..n, A!Check(t) \/ A!Index(t) \/ A!Get(t) \/ A!Put(t)
      PROVE  ArrayInv'
  <2>1. PICK l \in A!Labels :
            /\ pc' = [pc EXCEPT ![t] = l] /\ l \notin {"new", "store"}
            /\ pc[t] \notin {"new", "done", "store"}
            /\ l \in {"index", "get", "put", "load"} => Active(t) \/ counter < End
    BY <1>n, <1>1, ThreadsAssumption DEF A!Check, A!Index, A!Get, A!Put, A!Goto, A!Labels, Active
  <2>2. UNCHANGED <<made, joined, failed, counter>>
    BY <1>1 DEF A!Check, A!Index, A!Get, A!Put, A!framevars, A!workvars
  <2>3. DOMAIN loaded' = 1..n /\ \A s \in 1..n : s # t => loaded'[s] = loaded[s]
    BY <1>n, <1>1 DEF A!Check, A!Index, A!Get, A!Put, A!workvars
  <2>4. Frame(n, A!Labels)'
    BY <1>n, <2>1, <2>2, ChildKeepsFrame DEF ArrayInv, n
  <2>5. \A s \in 1..n : pc[s] = "store" => loaded'[s] = loaded[s]
    BY <2>1, <2>3
  <2> QED  BY <1>i, <2>1, <2>2, <2>3, <2>4, <2>5
<1>2. ASSUME NEW t \in 1..n, A!Load(t)
      PROVE  ArrayInv'
  <2>1. /\ pc[t] = "load" /\ pc' = [pc EXCEPT ![t] = "store"] /\ "store" \in A!Labels
        /\ UNCHANGED <<made, joined, failed, counter>>
        /\ DOMAIN loaded' = 1..n
        /\ \A s \in 1..n : loaded'[s] = IF s = t THEN counter ELSE loaded[s]
    BY <1>n, <1>2 DEF A!Load, A!Goto, A!framevars, A!Labels
  <2>2. Frame(n, A!Labels)'
    BY <1>n, <2>1, ChildKeepsFrame DEF ArrayInv, n
  <2>3. \A s \in 1..n : pc'[s] = IF s = t THEN "store" ELSE pc[s]
    BY <1>n, <2>1, Moved
  \* t is active: the counter it loads has not passed End.
  <2>4. OvershootInv'
    BY <1>n, <2>1, <2>3 DEF ArrayInv, OvershootInv, Active, n
  <2> QED  BY <1>n, <2>1, <2>2, <2>3, <2>4 DEF ArrayInv, n
<1>3. ASSUME NEW t \in 1..n, A!Store(t)
      PROVE  ArrayInv'
  <2>1. /\ pc[t] = "store" /\ pc' = [pc EXCEPT ![t] = "check"] /\ "check" \in A!Labels
        /\ UNCHANGED <<made, joined, failed, loaded>>
        /\ counter' = loaded[t] + 1 /\ loaded[t] \in Nat
    BY <1>3 DEF A!Store, A!Goto, A!framevars, A!Labels, ArrayInv, n
  <2>2. Frame(n, A!Labels)'
    BY <1>n, <2>1, ChildKeepsFrame DEF ArrayInv, n
  <2>3. \A s \in 1..n : pc'[s] = IF s = t THEN "check" ELSE pc[s]
    BY <1>n, <2>1, Moved
  \* If the other child is on its way too, neither has loaded End.
  <2>4. OvershootInv'
    <3> SUFFICES ASSUME n = 2 PROVE OvershootInv'
      BY DEF OvershootInv, n
    <3>1. loaded[t] <= End /\ (loaded[t] = End => \A u \in 1..2 : u # t => ~Active(u))
      BY <2>1 DEF ArrayInv, OvershootInv, Active, n
    <3>2. \A u \in 1..2 : Active(u)' => u # t /\ Active(u)
      BY <2>3 DEF Active
    <3>3. \A u, v \in 1..2 : u # t /\ v # t => u = v
      OBVIOUS
    <3>4. \A u \in 1..2 : u # t /\ pc[u] = "store" =>
              loaded[u] <= End /\ (loaded[u] = End => ~Active(t))
      BY DEF ArrayInv, OvershootInv, Active, n
    <3> QED  BY <1>n, <2>1, <2>3, <3>1, <3>2, <3>3, <3>4 DEF OvershootInv, Active, n
  <2> QED  BY <1>n, <2>1, <2>2, <2>3, <2>4 DEF ArrayInv, n
<1>4. ASSUME A!MakeThread("check") \/ A!MakeThreadFails \/ A!JoinThread,
             counter' = counter, loaded' = loaded
      PROVE  ArrayInv'
  <2>1. "check" \in A!Labels /\ Frame(n, A!Labels)'
    BY <1>n, <1>4, MainKeepsFrame
    DEF A!MakeThread, A!MakeThreadFails, A!JoinThread, A!Goto, A!framevars, A!Labels,
        ArrayInv, n
  <2>2. CASE A!MakeThread("check")
    <3>1. made + 1 \in 1..n /\ pc' = [pc EXCEPT ![made + 1] = "check"]
      BY <1>n, <2>2 DEF A!MakeThread, A!Goto, ArrayInv, Frame, n
    <3> QED  BY <1>n, <1>4, <1>i, <2>1, <3>1
  <2>3. CASE pc' = pc
    BY <1>4, <2>1, <2>3 DEF ArrayInv, OvershootInv, Active, n
  <2> QED  BY <1>4, <2>2, <2>3 DEF A!MakeThreadFails, A!JoinThread
<1>5. ASSUME UNCHANGED A!vars
      PROVE  ArrayInv'
  BY <1>5 DEF A!vars, A!framevars, A!workvars, ArrayInv, OvershootInv, Active, Frame
<1> QED  BY <1>1, <1>2, <1>3, <1>4, <1>5 DEF A!Next, A!Child, A!Children, A!workvars, n

\* counter_array.c: with two children the racing counter passes the end by one
\* at most, for every end.
THEOREM OvershootBounded == FairSpec => []ArrayOvershoot
<1> DEFINE I == program = "counter_array" => ArrayInv
<1>1. Init => I
  BY ArrayInit DEF Init
<1>2. I /\ [Next]_vars => I'
  <2>1. ASSUME ArrayInv, UNCHANGED vars
        PROVE  ArrayInv'
    BY <2>1 DEF vars, ex12only, ArrayInv, OvershootInv, Active, Frame
  <2> QED  BY <2>1, ArrayStep DEF Next, vars
<1>3. I => ArrayOvershoot
  BY DEF ArrayOvershoot, ArrayInv, OvershootInv, Frame, A!FrameOK, A!Children, A!Overshoot
<1> QED  BY <1>1, <1>2, <1>3, PTL DEF FairSpec

-----------------------------------------------------------------------------
(* read_write.c. *)

Total == Readers + Writers
RWLabels == {"new", "reader", "writer", "done"}
Lines == {"reader", "writer", "Parent exiting"}

\* Which lines the readers wrote, and which readers have written.
ReaderLines == {k \in 1..Len(said) : said[k] = "reader"}
DoneReaders == {t \in 1..Readers : pc[t] = "done"}

\* Readers are made before writers.
RolesInv ==
    \A t \in 1..Total : /\ pc[t] = "reader" => t <= Readers
                        /\ pc[t] = "writer" => t > Readers

\* The lines of the children, then main's.
SaidInv ==
    /\ said \in Seq(Lines)
    /\ IsFiniteSet(ReaderLines)
    /\ Cardinality(ReaderLines) = Cardinality(DoneReaders)
    /\ joined < Total =>
           /\ Len(said) = Cardinality(At(Total, {"done"}))
           /\ \A k \in 1..Len(said) : said[k] # "Parent exiting"
    /\ joined = Total =>
           /\ Len(said) = Total + 1
           /\ \A k \in 1..Len(said) : said[k] = "Parent exiting" => k = Len(said)

ReadWriteInv == Frame(Total, RWLabels) /\ RolesInv /\ SaidInv

LEMMA TotalType ==
    /\ Total \in Nat /\ Total > 0
    /\ Readers \in Nat /\ Readers <= Total
BY ThreadsAssumption DEF Total

LEMMA DoneReadersFinite ==
    /\ IsFiniteSet(DoneReaders)
    /\ Cardinality(DoneReaders) \in Nat
    /\ (\A t \in 1..Readers : pc[t] = "done") => Cardinality(DoneReaders) = Readers
<1>1. IsFiniteSet(1..Readers) /\ Cardinality(1..Readers) = Readers
  BY FS_Interval, ThreadsAssumption
<1>2. DoneReaders \in SUBSET (1..Readers)
  BY DEF DoneReaders
<1>3. (\A t \in 1..Readers : pc[t] = "done") => DoneReaders = 1..Readers
  BY DEF DoneReaders
<1> QED  BY <1>1, <1>2, <1>3, FS_Subset, FS_CardinalityType

\* One more line.
LEMMA Said ==
    ASSUME said \in Seq(Lines), IsFiniteSet(ReaderLines), NEW x \in Lines,
           said' = Append(said, x)
    PROVE  /\ said' \in Seq(Lines)
           /\ Len(said') = Len(said) + 1 /\ Len(said) \in Nat
           /\ said'[Len(said) + 1] = x
           /\ \A k \in 1..Len(said) : said'[k] = said[k]
           /\ IsFiniteSet(ReaderLines')
           /\ Cardinality(ReaderLines')
                  = IF x = "reader" THEN Cardinality(ReaderLines) + 1 ELSE Cardinality(ReaderLines)
<1> HIDE DEF Lines
<1>1. /\ said' \in Seq(Lines)
      /\ Len(said') = Len(said) + 1 /\ Len(said) \in Nat
      /\ said'[Len(said) + 1] = x
      /\ \A k \in 1..Len(said) : said'[k] = said[k]
  OBVIOUS
<1>2. /\ ReaderLines' = IF x = "reader" THEN ReaderLines \cup {Len(said) + 1} ELSE ReaderLines
      /\ Len(said) + 1 \notin ReaderLines
  BY <1>1 DEF ReaderLines
<1> QED  BY <1>1, <1>2, FS_AddElement

LEMMA ReadWriteInit == R!Init => ReadWriteInv
<1> SUFFICES ASSUME R!Init PROVE ReadWriteInv
    OBVIOUS
<1>1. /\ said = <<>> /\ made = 0 /\ joined = 0 /\ failed = FALSE
      /\ pc = [t \in 1..Total |-> "new"]
  BY DEF R!Init, R!FrameInit, R!Children, Total
<1>2. Frame(Total, RWLabels)
  BY <1>1, TotalType, FrameInit DEF RWLabels
<1>3. \A t \in 1..Total : pc[t] = "new"
  BY <1>1
<1>4. ReaderLines = {} /\ At(Total, {"done"}) = {}
  BY <1>1, <1>3 DEF ReaderLines, At
<1>5. DoneReaders = {}
  <2>1. \A t \in 1..Readers : t \in 1..Total
    BY TotalType
  <2> QED  BY <1>3, <2>1 DEF DoneReaders
<1>6. said \in Seq(Lines) /\ Len(said) = 0 /\ ~(\E k \in 1..Len(said) : TRUE) /\ joined < Total
  BY <1>1, TotalType
<1>7. joined # Total /\ Cardinality({}) = 0 /\ IsFiniteSet({})
  BY <1>1, TotalType, FS_EmptySet
<1>8. SaidInv
  BY <1>4, <1>5, <1>6, <1>7 DEF SaidInv
<1>9. RolesInv
  BY <1>3 DEF RolesInv
<1> QED  BY <1>2, <1>8, <1>9 DEF ReadWriteInv

LEMMA ReadWriteStep ==
    ASSUME ReadWriteInv, R!Next
    PROVE  ReadWriteInv'
<1> DEFINE n == Total
<1>n. /\ n \in Nat /\ Readers \in Nat /\ Readers <= n
      /\ pc \in [1..n -> RWLabels] /\ joined \in 0..n /\ made \in 0..n
      /\ said \in Seq(Lines) /\ IsFiniteSet(ReaderLines) /\ Frame(n, RWLabels)
  BY TotalType DEF ReadWriteInv, SaidInv, Frame
<1>l. Len(said) \in Nat
  BY <1>n
<1>e. /\ Cardinality(ReaderLines) = Cardinality(DoneReaders)
      /\ Cardinality(DoneReaders) \in Nat
  BY DoneReadersFinite DEF ReadWriteInv, SaidInv
<1>b. joined < n => /\ Len(said) = Cardinality(At(n, {"done"}))
                    /\ \A k \in 1..Len(said) : said[k] # "Parent exiting"
  BY DEF ReadWriteInv, SaidInv
<1>r. \A t \in 1..n : /\ pc[t] = "reader" => t <= Readers
                      /\ pc[t] = "writer" => t > Readers
  BY DEF ReadWriteInv, RolesInv
<1> HIDE DEF n
<1>1. ASSUME NEW t \in 1..n, R!Work(t), R!Running
      PROVE  ReadWriteInv'
  <2>1. /\ pc[t] \in {"reader", "writer"} /\ pc[t] \in Lines
        /\ pc' = [pc EXCEPT ![t] = "done"] /\ "done" \in RWLabels
        /\ said' = Append(said, pc[t])
        /\ UNCHANGED <<made, joined, failed>>
        /\ joined < n
    BY <1>1 DEF R!Work, R!Goto, R!framevars, R!Running, RWLabels, Lines, n, Total
  <2>2. Frame(n, RWLabels)'
    BY <1>n, <2>1, ChildKeepsFrame
  <2>3. \A s \in 1..n : pc'[s] = IF s = t THEN "done" ELSE pc[s]
    BY <1>n, <2>1, Moved
  <2>4. Cardinality(At(n, {"done"})') = Cardinality(At(n, {"done"})) + 1
    <3> DEFINE D == {"done"}
    <3>1. pc[t] \notin D /\ "done" \in D
      BY <2>1
    <3> HIDE DEF D
    <3>2. Cardinality(At(n, D)') = Cardinality(At(n, D)) + 1
      BY <1>n, <2>1, <3>1, AtEnters
    <3> QED  BY <3>2 DEF D
  <2>5. pc[t] = "reader" <=> t <= Readers
    <3>1. t \in Nat
      BY <1>n
    <3> QED  BY <1>n, <1>r, <2>1, <3>1
  <2>6. /\ DoneReaders' = IF pc[t] = "reader" THEN DoneReaders \cup {t} ELSE DoneReaders
        /\ t \notin DoneReaders
    <3>1. \A s : s \in 1..Readers <=> s \in 1..n /\ s <= Readers
      BY <1>n
    <3> QED  BY <2>1, <2>3, <2>5, <3>1 DEF DoneReaders
  <2>7. Cardinality(DoneReaders') = IF pc[t] = "reader" THEN Cardinality(DoneReaders) + 1
                                                       ELSE Cardinality(DoneReaders)
    BY <2>6, DoneReadersFinite, FS_AddElement
  <2>8. /\ said' \in Seq(Lines) /\ Len(said') = Len(said) + 1 /\ IsFiniteSet(ReaderLines')
        /\ Cardinality(ReaderLines')
              = IF pc[t] = "reader" THEN Cardinality(ReaderLines) + 1 ELSE Cardinality(ReaderLines)
        /\ said'[Len(said) + 1] = pc[t]
        /\ \A k \in 1..Len(said) : said'[k] = said[k]
    BY <1>n, <2>1, Said
  <2>9. ASSUME NEW k \in 1..Len(said')
        PROVE  said'[k] # "Parent exiting"
    <3>1. k \in 1..Len(said) \/ k = Len(said) + 1
      BY <1>l, <2>8
    <3> QED  BY <1>b, <2>1, <2>8, <3>1
  <2>10. Len(said') = Cardinality(At(n, {"done"})')
    BY <1>b, <2>1, <2>4, <2>8
  <2>11. Cardinality(ReaderLines') = Cardinality(DoneReaders')
    BY <1>e, <2>7, <2>8
  <2>12. joined' < n /\ joined' # n
    BY <1>n, <2>1
  <2>13. RolesInv'
    BY <1>r, <2>3 DEF RolesInv, n
  <2>14. SaidInv'
    BY <2>8, <2>9, <2>10, <2>11, <2>12 DEF SaidInv, n
  <2> QED  BY <2>2, <2>13, <2>14 DEF ReadWriteInv, n
<1>2. ASSUME R!MakeThread(R!Entry), UNCHANGED said, R!Running
      PROVE  ReadWriteInv'
  <2> DEFINE e == R!Entry
  <2>1. /\ e \in RWLabels /\ e \notin {"new", "done"}
        /\ e = "reader" => made + 1 <= Readers
        /\ e = "writer" => made + 1 > Readers
    BY <1>n DEF R!Entry, RWLabels
  <2> HIDE DEF e
  <2>2. /\ made < n /\ made' = made + 1
        /\ pc' = [pc EXCEPT ![made + 1] = e]
        /\ UNCHANGED <<joined, failed, said>>
    BY <1>2 DEF R!MakeThread, R!Goto, e, n, Total
  <2>3. made + 1 \in 1..n
    BY <1>n, <2>2
  <2>4. pc[made + 1] = "new"
    <3>1. made + 1 > made
      BY <1>n
    <3> QED  BY <1>n, <2>3, <3>1 DEF Frame
  <2>5. Frame(n, RWLabels)'
    BY <1>n, <2>1, <2>2, MainKeepsFrame
  <2>6. \A s \in 1..n : pc'[s] = IF s = made + 1 THEN e ELSE pc[s]
    BY <1>n, <2>1, <2>2, <2>3, Moved
  <2>7. DoneReaders' = DoneReaders /\ At(n, {"done"})' = At(n, {"done"})
    <3>1. \A s \in 1..Readers : s \in 1..n
      BY <1>n
    <3>2. \A s \in 1..n : pc'[s] = "done" <=> pc[s] = "done"
      BY <2>1, <2>4, <2>6
    <3> QED  BY <3>1, <3>2 DEF DoneReaders, At
  <2>8. ReaderLines' = ReaderLines
    BY <2>2 DEF ReaderLines
  <2>9. RolesInv'
    BY <1>r, <2>1, <2>6 DEF RolesInv, n
  <2>10. SaidInv'
    BY <2>2, <2>7, <2>8 DEF ReadWriteInv, SaidInv, n
  <2> QED  BY <2>5, <2>9, <2>10 DEF ReadWriteInv, n
<1>3. ASSUME R!MakeThreadFails, UNCHANGED said
      PROVE  ReadWriteInv'
  <2>1. /\ failed' = TRUE /\ pc' = pc /\ made' = made /\ joined' = joined
        /\ "done" \in RWLabels
    BY <1>3 DEF R!MakeThreadFails, RWLabels
  <2>2. Frame(n, RWLabels)'
    BY <1>n, <2>1, MainKeepsFrame
  <2>3. RolesInv' /\ SaidInv'
    BY <1>3, <2>1 DEF ReadWriteInv, RolesInv, SaidInv, ReaderLines, DoneReaders, At
  <2> QED  BY <2>2, <2>3 DEF ReadWriteInv, n
<1>4. ASSUME R!JoinAndLeave
      PROVE  ReadWriteInv'
  <2>1. /\ joined < n /\ pc[joined + 1] = "done" /\ joined' = joined + 1
        /\ UNCHANGED <<pc, made, failed>> /\ "done" \in RWLabels
        /\ said' = IF joined' = n THEN Append(said, "Parent exiting") ELSE said
    BY <1>4 DEF R!JoinAndLeave, R!JoinThread, RWLabels, n, Total
  <2>2. Frame(n, RWLabels)'
    BY <1>n, <2>1, MainKeepsFrame
  <2>3. DoneReaders' = DoneReaders /\ At(n, {"done"})' = At(n, {"done"}) /\ RolesInv'
    BY <2>1 DEF DoneReaders, At, ReadWriteInv, RolesInv
  <2>4. CASE joined' = n
    <3>1. \A t \in 1..n : pc[t] = "done"
      <4>1. \A t \in 1..n : t <= joined'
        BY <1>n, <2>4
      <4> QED  BY <2>1, <2>2, <4>1 DEF Frame
    <3>2. At(n, {"done"}) = 1..n
      BY <3>1 DEF At
    <3>3. Cardinality(1..n) = n
      BY <1>n, FS_Interval
    <3>4. Len(said) = n /\ \A k \in 1..Len(said) : said[k] # "Parent exiting"
      BY <1>b, <2>1, <3>2, <3>3
    <3>5. "Parent exiting" \in Lines /\ said' = Append(said, "Parent exiting")
      BY <2>1, <2>4 DEF Lines
    <3>6. /\ said' \in Seq(Lines) /\ Len(said') = n + 1 /\ IsFiniteSet(ReaderLines')
          /\ Cardinality(ReaderLines') = Cardinality(ReaderLines)
          /\ \A k \in 1..n : said'[k] = said[k]
      BY <1>n, <3>4, <3>5, Said
    <3>7. ASSUME NEW k \in 1..(n + 1), said'[k] = "Parent exiting"
          PROVE  k = n + 1
      <4>1. k \in 1..n \/ k = n + 1
        BY <1>n
      <4> QED  BY <3>4, <3>6, <3>7, <4>1
    <3>8. ~(joined' < n) /\ Cardinality(ReaderLines') = Cardinality(DoneReaders')
      BY <1>n, <1>e, <2>3, <2>4, <3>6
    <3>9. SaidInv'
      BY <2>4, <3>6, <3>7, <3>8 DEF SaidInv, n
    <3> QED  BY <2>2, <2>3, <3>9 DEF ReadWriteInv, n
  <2>5. CASE joined' # n
    <3>1. said' = said /\ ReaderLines' = ReaderLines
      BY <2>1, <2>5 DEF ReaderLines
    <3>2. SaidInv'
      BY <1>n, <1>e, <1>b, <2>1, <2>3, <2>5, <3>1 DEF SaidInv, n
    <3> QED  BY <2>2, <2>3, <3>2 DEF ReadWriteInv, n
  <2> QED  BY <2>4, <2>5
<1>5. ASSUME UNCHANGED <<pc, made, joined, failed, said>>
      PROVE  ReadWriteInv'
  BY <1>5 DEF ReadWriteInv, Frame, RolesInv, SaidInv, ReaderLines, DoneReaders, At
<1> QED  BY <1>1, <1>2, <1>3, <1>4, <1>5
    DEF R!Next, R!Children, R!vars, R!framevars, n, Total

LEMMA ReadWriteInvariance == FairSpec => [](program = "read_write" => ReadWriteInv)
<1> DEFINE I == program = "read_write" => ReadWriteInv
<1>1. Init => I
  BY ReadWriteInit DEF Init
<1>2. I /\ [Next]_vars => I'
  <2>1. ASSUME ReadWriteInv, UNCHANGED vars
        PROVE  ReadWriteInv'
    BY <2>1 DEF vars, ex12only, ReadWriteInv, Frame, RolesInv, SaidInv,
                ReaderLines, DoneReaders, At
  <2> QED  BY <2>1, ReadWriteStep DEF Next, vars
<1> QED  BY <1>1, <1>2, PTL DEF FairSpec

\* barrier.c prints no part 2 before every part 1, and read_write.c's main
\* prints its line after one line of every child, for every number of them.
THEOREM PartsOrdered == FairSpec => []PartsInOrder
<1>1. BarrierInv => B!FrameOK(B!Labels) /\ B!PartsSeparate
  BY DEF BarrierInv, PartsSeparate, Frame, B!FrameOK, B!Children, B!PartsSeparate
<1>2. ReadWriteInv => R!ParentLast
  <2> SUFFICES ASSUME ReadWriteInv PROVE R!ParentLast
    OBVIOUS
  <2>1. joined \in 0..Total /\ Total \in Nat /\ Readers <= Total /\ Readers \in Nat
    BY TotalType DEF ReadWriteInv, Frame
  <2>2. \A k \in 1..Len(said) : said[k] = "Parent exiting" => k = Len(said)
    <3>1. joined < Total \/ joined = Total
      BY <2>1
    <3> QED  BY <3>1 DEF ReadWriteInv, SaidInv
  <2>3. ASSUME joined = Total
        PROVE  Len(said) = Total + 1 /\ Cardinality(ReaderLines) = Readers
    <3>1. \A t \in 1..Readers : t \in 1..Total /\ t <= joined
      BY <2>1, <2>3
    <3>2. \A t \in 1..Readers : pc[t] = "done"
      BY <3>1 DEF ReadWriteInv, Frame
    <3> QED  BY <2>3, <3>2, DoneReadersFinite DEF ReadWriteInv, SaidInv
  <2>4. R!Cardinality(ReaderLines) = Cardinality(ReaderLines)
    BY DEF R!Cardinality, Cardinality
  <2> QED  BY <2>2, <2>3, <2>4 DEF R!ParentLast, ReaderLines, Total
<1>3. (program = "barrier" => BarrierInv) /\ (program = "read_write" => ReadWriteInv)
          => PartsInOrder
  BY <1>1, <1>2 DEF PartsInOrder
<1> QED  BY <1>3, BarrierInvariance, ReadWriteInvariance, PTL

-----------------------------------------------------------------------------
(* The two builds of examples/queue. *)

BareProofs == INSTANCE QueueBuildsProofs WITH
    Producers <- {p1}, Consumers <- {c1}, Children <- BareThreads,
    Length <- 2, Loops <- [t \in {p1, c1} |-> 4]

\* What QueueBuildsProofs assumes of its constants holds of main.c's program.
LEMMA BareAssumptions ==
    /\ {p1} \cap {c1} = {}
    /\ 2 \in Nat
    /\ [t \in {p1, c1} |-> 4] \in [{p1} \cup {c1} -> Nat]
    /\ BareThreads \in Seq({p1} \cup {c1})
    /\ \A t \in {p1} \cup {c1} : \E k \in 1..Len(BareThreads) : BareThreads[k] = t
    /\ \A j, k \in 1..Len(BareThreads) : BareThreads[j] = BareThreads[k] => j = k
<1>1. p1 # c1
  BY ThreadsAssumption
<1>2. /\ BareThreads \in Seq({p1} \cup {c1}) /\ Len(BareThreads) = 2
      /\ BareThreads[1] = p1 /\ BareThreads[2] = c1
  BY DEF BareThreads
<1>3. \A k \in 1..2 : k = 1 \/ k = 2
  OBVIOUS
<1>4. \A j, k \in 1..Len(BareThreads) : BareThreads[j] = BareThreads[k] => j = k
  BY <1>1, <1>2, <1>3
<1>5. \A t \in {p1} \cup {c1} : \E k \in 1..Len(BareThreads) : BareThreads[k] = t
  BY <1>2
<1> QED  BY <1>1, <1>2, <1>4, <1>5

\* Bare and BareProofs are instances of the same definitions.
LEMMA SameDefinitions ==
    /\ Bare!Init <=> BareProofs!Init
    /\ Bare!Next <=> BareProofs!Next
    /\ Bare!TypeOK <=> BareProofs!TypeOK
    /\ Bare!SlotsDisjoint <=> BareProofs!SlotsDisjoint
    /\ Bare!Abstract!Init <=> BareProofs!Abstract!Init
    /\ [Bare!Abstract!Next]_(Bare!Abstract!vars)
       <=> [BareProofs!Abstract!Next]_(BareProofs!Abstract!vars)
<1> USE DEF Bare!Threads, BareProofs!Threads, Bare!Slots, BareProofs!Slots, Bare!NoItem,
        BareProofs!NoItem, Bare!Item, BareProofs!Item, Bare!Labels, BareProofs!Labels,
        Bare!queue_incr, BareProofs!queue_incr, Bare!Goto, BareProofs!Goto,
        Bare!LoopHead, BareProofs!LoopHead, Bare!ringvars, BareProofs!ringvars,
        Bare!localvars, BareProofs!localvars, Bare!mainvars, BareProofs!mainvars,
        Bare!vars, BareProofs!vars, Bare!queue_empty, BareProofs!queue_empty,
        Bare!queue_full, BareProofs!queue_full, Bare!AdvanceIn, BareProofs!AdvanceIn,
        Bare!AdvanceOut, BareProofs!AdvanceOut, Bare!NextIteration,
        BareProofs!NextIteration, Bare!StoreItem, BareProofs!StoreItem, Bare!LoadItem,
        BareProofs!LoadItem, Bare!Consume, BareProofs!Consume
<1>1. Bare!Init <=> BareProofs!Init
  BY Zenon DEF Bare!Init, BareProofs!Init, Bare!RingInit, BareProofs!RingInit
<1>2. Bare!TypeOK <=> BareProofs!TypeOK
  BY Zenon DEF Bare!TypeOK, BareProofs!TypeOK, Bare!RingTypeOK, BareProofs!RingTypeOK
<1>3. Bare!SlotsDisjoint <=> BareProofs!SlotsDisjoint
  BY Zenon DEF Bare!SlotsDisjoint, BareProofs!SlotsDisjoint
<1> USE DEF Bare!PushFull, BareProofs!PushFull, Bare!PushRoom, BareProofs!PushRoom,
        Bare!PushStore, BareProofs!PushStore, Bare!PushIncr, BareProofs!PushIncr,
        Bare!PopEmpty, BareProofs!PopEmpty, Bare!PopSome, BareProofs!PopSome,
        Bare!PopLoad, BareProofs!PopLoad, Bare!PopIncr, BareProofs!PopIncr, Bare!Push,
        BareProofs!Push, Bare!Pop, BareProofs!Pop, Bare!PerrorExit,
        BareProofs!PerrorExit, Bare!MakeThread, BareProofs!MakeThread,
        Bare!MakeThreadFails, BareProofs!MakeThreadFails, Bare!JoinThread,
        BareProofs!JoinThread, Bare!Running, BareProofs!Running
<1>4. Bare!Next <=> BareProofs!Next
  BY Zenon DEF Bare!Next, BareProofs!Next
<1>5. Bare!Contents = BareProofs!Contents /\ Bare!Contents' = BareProofs!Contents'
  BY Zenon DEF Bare!Contents, BareProofs!Contents, Bare!Count, BareProofs!Count,
               Bare!SlotAt, BareProofs!SlotAt
<1>6. /\ Bare!Sent = BareProofs!Sent /\ Bare!Sent' = BareProofs!Sent'
      /\ Bare!Failing = BareProofs!Failing /\ Bare!Failing' = BareProofs!Failing'
  BY Zenon DEF Bare!Sent, BareProofs!Sent, Bare!Failing, BareProofs!Failing
<1>7. Bare!Abstract!Init <=> BareProofs!Abstract!Init
  BY <1>5, <1>6, Zenon DEF Bare!Abstract!Init, BareProofs!Abstract!Init
<1>8. (UNCHANGED Bare!Abstract!vars) <=> (UNCHANGED BareProofs!Abstract!vars)
  BY <1>5, <1>6, Zenon DEF Bare!Abstract!vars, BareProofs!Abstract!vars
<1>9. Bare!Abstract!Next <=> BareProofs!Abstract!Next
  BY <1>5, <1>6, Zenon
  DEF Bare!Abstract!Next, BareProofs!Abstract!Next, Bare!Abstract!Send, BareProofs!Abstract!Send,
      Bare!Abstract!Receive, BareProofs!Abstract!Receive, Bare!Abstract!Overflow,
      BareProofs!Abstract!Overflow, Bare!Abstract!Underflow, BareProofs!Abstract!Underflow,
      Bare!Abstract!Exit, BareProofs!Abstract!Exit
<1> QED  BY <1>1, <1>2, <1>3, <1>4, <1>7, <1>8, <1>9

\* A behaviour that picks queue.c is one of QueueBare.
LEMMA BareBehaviour ==
    FairSpec => \/ [](program = "queue") /\ BareProofs!Spec
                \/ []~(program = "queue")
<1> DEFINE Q == program = "queue"
<1>1. Init /\ Q => BareProofs!Init
  BY SameDefinitions, ThreadsAssumption DEF Init
<1>2. UNCHANGED vars => UNCHANGED BareProofs!vars
  BY DEF vars, queueonly, BareProofs!vars, BareProofs!ringvars, BareProofs!localvars,
         BareProofs!mainvars
<1>3. Q /\ Next => Bare!Next
  BY Zenon DEF Next
<1>4. Q /\ [Next]_vars => [BareProofs!Next]_(BareProofs!vars)
  BY <1>2, <1>3, SameDefinitions
<1>5. [Next]_vars => (Q <=> Q')
  BY DEF Next, vars
<1> QED  BY <1>1, <1>4, <1>5, PTL DEF FairSpec, BareProofs!Spec

LEMMA BareCorrect ==
    FairSpec => /\ []((program = "queue") => Bare!TypeOK /\ Bare!SlotsDisjoint)
                /\ program = "queue" => Bare!Abstract!Init
                /\ [][program = "queue" => [Bare!Abstract!Next]_(Bare!Abstract!vars)]_vars
<1> DEFINE Inst == BareProofs!TypeOK /\ BareProofs!SlotsDisjoint
<1>1. BareProofs!Threads = {p1} \cup {c1} /\ BareProofs!OnePair
  BY DEF BareProofs!Threads, BareProofs!OnePair
<1>2. BareProofs!Spec => []BareProofs!TypeOK
  BY <1>1, BareAssumptions, BareProofs!TypeCorrect
<1>3. BareProofs!Spec => []BareProofs!SlotsDisjoint
  BY <1>1, BareAssumptions, BareProofs!NoRaceOnSlots
<1>4. BareProofs!Spec => BareProofs!ImplementsFifo
  BY <1>1, BareAssumptions, BareProofs!FifoImplemented
<1>5. Inst => Bare!TypeOK /\ Bare!SlotsDisjoint
  BY SameDefinitions
<1>6. BareProofs!Abstract!Init => Bare!Abstract!Init
  BY SameDefinitions
<1>7. [BareProofs!Abstract!Next]_(BareProofs!Abstract!vars)
      => (program = "queue" => [Bare!Abstract!Next]_(Bare!Abstract!vars))
  BY SameDefinitions
<1>8. ~(program = "queue") => (program = "queue" => [Bare!Abstract!Next]_(Bare!Abstract!vars))
  OBVIOUS
<1> QED  BY <1>2, <1>3, <1>4, <1>5, <1>6, <1>7, <1>8, BareBehaviour, PTL
         DEF BareProofs!ImplementsFifo, BareProofs!Abstract!Spec

-----------------------------------------------------------------------------
MutexProofs == INSTANCE QueueBuildsProofs WITH
    Producers <- {p1, p2}, Consumers <- {c1, c2}, Children <- MutexThreads,
    Length <- 2, Loops <- [t \in {p1, p2, c1, c2} |-> 2]

LEMMA MutexAssumptions ==
    /\ {p1, p2} \cap {c1, c2} = {}
    /\ 2 \in Nat
    /\ [t \in {p1, p2, c1, c2} |-> 2] \in [{p1, p2} \cup {c1, c2} -> Nat]
    /\ MutexThreads \in Seq({p1, p2} \cup {c1, c2})
    /\ \A t \in {p1, p2} \cup {c1, c2} : \E k \in 1..Len(MutexThreads) : MutexThreads[k] = t
    /\ \A j, k \in 1..Len(MutexThreads) : MutexThreads[j] = MutexThreads[k] => j = k
<1>1. p1 # p2 /\ c1 # c2 /\ p1 # c1 /\ p1 # c2 /\ p2 # c1 /\ p2 # c2
  BY ThreadsAssumption
<1>2. /\ MutexThreads \in Seq({p1, p2} \cup {c1, c2}) /\ Len(MutexThreads) = 4
      /\ MutexThreads[1] = p1 /\ MutexThreads[2] = c1
      /\ MutexThreads[3] = p2 /\ MutexThreads[4] = c2
  BY DEF MutexThreads
<1>3. \A k \in 1..4 : k = 1 \/ k = 2 \/ k = 3 \/ k = 4
  OBVIOUS
<1>4. \A j, k \in 1..Len(MutexThreads) : MutexThreads[j] = MutexThreads[k] => j = k
  BY <1>1, <1>2, <1>3
<1>5. \A t \in {p1, p2} \cup {c1, c2} : \E k \in 1..Len(MutexThreads) : MutexThreads[k] = t
  BY <1>2
<1>6. [t \in {p1, p2, c1, c2} |-> 2] \in [{p1, p2} \cup {c1, c2} -> Nat]
  <2>1. {p1, p2, c1, c2} = {p1, p2} \cup {c1, c2}
    OBVIOUS
  <2> QED  BY <2>1
<1> QED  BY <1>1, <1>2, <1>4, <1>5, <1>6

\* Mutex and MutexProofs!M are instances of the same definitions.
LEMMA SameMutex ==
    /\ Mutex!Init <=> MutexProofs!M!Init
    /\ Mutex!Next <=> MutexProofs!M!Next
    /\ Mutex!TypeOK <=> MutexProofs!M!TypeOK
    /\ Mutex!Abstract!Init <=> MutexProofs!M!Abstract!Init
    /\ [Mutex!Abstract!Next]_(Mutex!Abstract!vars)
       <=> [MutexProofs!M!Abstract!Next]_(MutexProofs!M!Abstract!vars)
<1> USE DEF Mutex!Threads, MutexProofs!M!Threads, Mutex!Slots, MutexProofs!M!Slots, Mutex!NoItem,
        MutexProofs!M!NoItem, Mutex!Item, MutexProofs!M!Item, Mutex!Labels,
        MutexProofs!M!Labels, Mutex!queue_incr, MutexProofs!M!queue_incr, Mutex!Goto,
        MutexProofs!M!Goto, Mutex!LoopHead, MutexProofs!M!LoopHead, Mutex!ringvars,
        MutexProofs!M!ringvars, Mutex!localvars, MutexProofs!M!localvars, Mutex!mainvars,
        MutexProofs!M!mainvars, Mutex!vars, MutexProofs!M!vars, Mutex!queue_empty,
        MutexProofs!M!queue_empty, Mutex!queue_full, MutexProofs!M!queue_full,
        Mutex!AdvanceIn, MutexProofs!M!AdvanceIn, Mutex!AdvanceOut,
        MutexProofs!M!AdvanceOut, Mutex!NextIteration, MutexProofs!M!NextIteration,
        Mutex!StoreItem, MutexProofs!M!StoreItem, Mutex!LoadItem, MutexProofs!M!LoadItem,
        Mutex!Consume, MutexProofs!M!Consume
<1>1. Mutex!Init <=> MutexProofs!M!Init
  BY Zenon DEF Mutex!Init, MutexProofs!M!Init, Mutex!RingInit, MutexProofs!M!RingInit
<1>2. Mutex!TypeOK <=> MutexProofs!M!TypeOK
  BY Zenon DEF Mutex!TypeOK, MutexProofs!M!TypeOK, Mutex!RingTypeOK, MutexProofs!M!RingTypeOK
<1>3. Mutex!Contents = MutexProofs!M!Contents /\ Mutex!Contents' = MutexProofs!M!Contents'
  BY Zenon DEF Mutex!Contents, MutexProofs!M!Contents, Mutex!Count, MutexProofs!M!Count, Mutex!SlotAt,
               MutexProofs!M!SlotAt
<1>4. Mutex!Abstract!Init <=> MutexProofs!M!Abstract!Init
  BY <1>3, Zenon DEF Mutex!Abstract!Init, MutexProofs!M!Abstract!Init
<1>5. (UNCHANGED Mutex!Abstract!vars) <=> (UNCHANGED MutexProofs!M!Abstract!vars)
  BY <1>3, Zenon DEF Mutex!Abstract!vars, MutexProofs!M!Abstract!vars
<1>6. Mutex!Abstract!Next <=> MutexProofs!M!Abstract!Next
  BY <1>3, Zenon
  DEF Mutex!Abstract!Next, MutexProofs!M!Abstract!Next, Mutex!Abstract!Send,
      MutexProofs!M!Abstract!Send, Mutex!Abstract!Receive, MutexProofs!M!Abstract!Receive,
      Mutex!Abstract!Overflow, MutexProofs!M!Abstract!Overflow, Mutex!Abstract!Underflow,
      MutexProofs!M!Abstract!Underflow, Mutex!Abstract!Exit, MutexProofs!M!Abstract!Exit
<1> USE DEF Mutex!Lock, MutexProofs!M!Lock, Mutex!Refuses, MutexProofs!M!Refuses, Mutex!Refuse,
        MutexProofs!M!Refuse, Mutex!Accept, MutexProofs!M!Accept, Mutex!PushStore,
        MutexProofs!M!PushStore, Mutex!PushIncr, MutexProofs!M!PushIncr, Mutex!PushUnlock,
        MutexProofs!M!PushUnlock, Mutex!PopLoad, MutexProofs!M!PopLoad, Mutex!PopIncr,
        MutexProofs!M!PopIncr, Mutex!PopUnlock, MutexProofs!M!PopUnlock, Mutex!Push,
        MutexProofs!M!Push, Mutex!Pop, MutexProofs!M!Pop, Mutex!PerrorExit,
        MutexProofs!M!PerrorExit, Mutex!MakeThread, MutexProofs!M!MakeThread,
        Mutex!MakeThreadFails, MutexProofs!M!MakeThreadFails, Mutex!JoinThread,
        MutexProofs!M!JoinThread, Mutex!Running, MutexProofs!M!Running
<1>7. Mutex!Next <=> MutexProofs!M!Next
  BY Zenon DEF Mutex!Next, MutexProofs!M!Next
<1> QED  BY <1>1, <1>2, <1>4, <1>5, <1>6, <1>7

\* A behaviour that picks queue_mutex.c is one of QueueMutex.
LEMMA MutexBehaviour ==
    FairSpec => \/ [](program = "queue_mutex") /\ MutexProofs!M!Spec
                \/ []~(program = "queue_mutex")
<1> DEFINE Q == program = "queue_mutex"
<1>1. Init /\ Q => MutexProofs!M!Init
  BY SameMutex, ThreadsAssumption DEF Init
<1>2. UNCHANGED vars => UNCHANGED MutexProofs!M!vars
  BY DEF vars, queueonly, MutexProofs!M!vars, MutexProofs!M!ringvars, MutexProofs!M!localvars,
         MutexProofs!M!mainvars
<1>3. Q /\ Next => Mutex!Next
  BY Zenon DEF Next
<1>4. Q /\ [Next]_vars => [MutexProofs!M!Next]_(MutexProofs!M!vars)
  BY <1>2, <1>3, SameMutex
<1>5. [Next]_vars => (Q <=> Q')
  BY DEF Next, vars
<1> QED  BY <1>1, <1>4, <1>5, PTL DEF FairSpec, MutexProofs!M!Spec

LEMMA MutexCorrect ==
    FairSpec =>
      /\ []((program = "queue_mutex") => Mutex!TypeOK)
      /\ program = "queue_mutex" => Mutex!Abstract!Init
      /\ [][program = "queue_mutex" => [Mutex!Abstract!Next]_(Mutex!Abstract!vars)]_vars
<1>1. Free \notin MutexProofs!Threads
  BY ThreadsAssumption DEF MutexProofs!Threads
<1>2. MutexProofs!M!Spec => []MutexProofs!M!TypeOK
  BY <1>1, MutexAssumptions, MutexProofs!MutexTypeCorrect DEF MutexProofs!Threads
<1>3. MutexProofs!M!Spec => MutexProofs!M!Abstract!Spec
  BY <1>1, MutexAssumptions, MutexProofs!MutexFifoImplemented DEF MutexProofs!Threads
<1>4. MutexProofs!M!TypeOK => Mutex!TypeOK
  BY SameMutex
<1>5. MutexProofs!M!Abstract!Init => Mutex!Abstract!Init
  BY SameMutex
<1>6. [MutexProofs!M!Abstract!Next]_(MutexProofs!M!Abstract!vars)
      => (program = "queue_mutex" => [Mutex!Abstract!Next]_(Mutex!Abstract!vars))
  BY SameMutex
<1>7. ~(program = "queue_mutex")
      => (program = "queue_mutex" => [Mutex!Abstract!Next]_(Mutex!Abstract!vars))
  OBVIOUS
<1> QED  BY <1>2, <1>3, <1>4, <1>5, <1>6, <1>7, MutexBehaviour, PTL
         DEF MutexProofs!M!Abstract!Spec

\* Types of both builds, and, in queue.c, a producer and a consumer that are
\* never at the same slot of a queue with no lock.
THEOREM BareSlotsCorrect == FairSpec => []BareSlotsDisjoint
BY BareCorrect, MutexCorrect, PTL DEF BareSlotsDisjoint

\* Both builds are bounded FIFO queues: queue.c with no lock between its two
\* threads, and queue_mutex.c between any.
THEOREM BuildsCorrect == FairSpec => BuildsImplementFifo
BY BareCorrect, MutexCorrect, PTL DEF BuildsImplementFifo

-----------------------------------------------------------------------------
(***************************************************************************)
(* counter_array_mutex.c, for any number of children and any amount of     *)
(* work.  Its inductive invariant says what the mutex protects (the        *)
(* elements below the counter are 1, the others 0, with one element in     *)
(* between while a child is between array[counter]++ and counter++) and    *)
(* how far the children that passed a stale test can still drive the       *)
(* counter.                                                                *)
(***************************************************************************)
LEMMA Workable ==
    /\ NumChildren \in Nat \ {0}
    /\ End \in Nat
    /\ Free \notin M!Children
BY ThreadsAssumption DEF M!Children

USE Workable

Holding(t) == pc[t] \in {"work", "count", "unlock"}

\* The children that passed the test and have not counted yet.
Passed == {t \in M!Children : pc[t] \in {"lock", "work", "count"}}

\* A child is between lock and unlock exactly when it owns the mutex.
LockInv == \A t \in M!Children : Holding(t) <=> mutex = t

\* Which elements are done.
WorkInv ==
    \A k \in M!Memory :
        array[k] = IF k < counter \/ (k = counter /\ \E t \in M!Children : pc[t] = "count")
                   THEN 1 ELSE 0

\* Once the counter is at End no child passes the test any more, and the one
\* that brought it there is not among those still to count.
PassedInv == counter >= End => counter + Cardinality(Passed) <= End + NumChildren - 1

\* A child returns only when the counter has reached End.
DoneInv == \A t \in M!Children : pc[t] = "done" => counter >= End

MutexArrayInv == M!TypeOK /\ LockInv /\ WorkInv /\ PassedInv /\ DoneInv /\ M!NoErrors

-----------------------------------------------------------------------------
LEMMA PassedFinite ==
    /\ IsFiniteSet(Passed)
    /\ Cardinality(Passed) \in Nat
    /\ Cardinality(Passed) <= NumChildren
<1>1. IsFiniteSet(M!Children) /\ Cardinality(M!Children) = NumChildren
  BY FS_Interval DEF M!Children
<1> QED  BY <1>1, FS_Subset, FS_CardinalityType DEF Passed

\* A child that moves joins Passed, leaves it, or neither.
LEMMA PassedMoves ==
    ASSUME M!TypeOK, NEW t \in M!Children, NEW l \in M!Labels, M!Goto(t, l)
    PROVE  Passed' = IF l \in {"lock", "work", "count"} THEN Passed \cup {t}
                                                        ELSE Passed \ {t}
<1>1. pc' = [pc EXCEPT ![t] = l] /\ pc \in [M!Children -> M!Labels]
  BY DEF M!TypeOK, M!FrameOK, M!Goto
<1>2. \A s \in M!Children : pc'[s] = IF s = t THEN l ELSE pc[s]
  BY <1>1
<1>3. \A s : s \in Passed' <=> s \in M!Children /\ pc'[s] \in {"lock", "work", "count"}
  BY DEF Passed
<1>4. \A s : s \in Passed <=> s \in M!Children /\ pc[s] \in {"lock", "work", "count"}
  BY DEF Passed
<1>5. CASE l \in {"lock", "work", "count"}
  <2>1. \A s : s \in Passed' <=> s \in Passed \cup {t}
    BY <1>2, <1>3, <1>4, <1>5
  <2> QED  BY <1>5, <2>1
<1>6. CASE l \notin {"lock", "work", "count"}
  <2>1. \A s : s \in Passed' <=> s \in Passed \ {t}
    BY <1>2, <1>3, <1>4, <1>6
  <2> QED  BY <1>6, <2>1
<1> QED  BY <1>5, <1>6

LEMMA MutexArrayInit == M!Init => MutexArrayInv
<1> SUFFICES ASSUME M!Init PROVE MutexArrayInv
    OBVIOUS
<1> USE DEF M!Init, M!FrameInit
<1>1. M!TypeOK
  <2>1. \A t \in M!Children : ~(t <= 0) /\ t > 0
    BY DEF M!Children
  <2>2. M!FrameOK(M!Labels)
    <3>1. pc \in [M!Children -> M!Labels] /\ \A t \in M!Children : pc[t] = "new"
      BY DEF M!Labels
    <3>2. made \in 0..NumChildren /\ joined \in 0..NumChildren
      BY Workable
    <3>3. failed \in BOOLEAN
      OBVIOUS
    <3> QED  BY <2>1, <3>1, <3>2, <3>3 DEF M!FrameOK
  <2>3. counter \in M!Memory /\ array \in [M!Memory -> Nat]
    BY DEF M!Memory
  <2> QED  BY <2>2, <2>3 DEF M!TypeOK
<1>2. LockInv
  <2>1. \A t \in M!Children : pc[t] = "new" /\ t # Free
    BY Workable
  <2> QED  BY <2>1 DEF LockInv, Holding
<1>3. DoneInv /\ M!NoErrors
  BY DEF DoneInv, M!NoErrors
<1>4. WorkInv
  <2>1. \A k \in M!Memory : ~(k < 0) /\ array[k] = 0
    BY DEF M!Memory
  <2> QED  BY <2>1 DEF WorkInv
<1>5. PassedInv
  <2>1. Passed = {}
    BY DEF Passed
  <2>2. Cardinality(Passed) = 0
    BY <2>1, FS_EmptySet
  <2> QED  BY <2>2 DEF PassedInv
<1> QED  BY <1>1, <1>2, <1>3, <1>4, <1>5 DEF MutexArrayInv

-----------------------------------------------------------------------------
\* A child's move keeps FrameOK, and keeps LockInv if the mutex follows it.
LEMMA MoveKeepsTypes ==
    ASSUME M!TypeOK, NEW t \in M!Children, NEW l \in M!Labels, M!Goto(t, l),
           UNCHANGED M!framevars, pc[t] \notin {"new", "done"}, l # "new"
    PROVE  M!FrameOK(M!Labels)'
<1>1. pc' = [pc EXCEPT ![t] = l] /\ pc \in [M!Children -> M!Labels]
  BY DEF M!TypeOK, M!FrameOK, M!Goto
<1>2. /\ pc' \in [M!Children -> M!Labels]
      /\ \A s \in M!Children : pc'[s] = IF s = t THEN l ELSE pc[s]
  BY <1>1
<1> QED  BY <1>2 DEF M!TypeOK, M!FrameOK, M!framevars

LEMMA MoveKeepsLock ==
    ASSUME M!TypeOK, LockInv,
           NEW t \in M!Children, NEW l \in M!Labels, M!Goto(t, l),
           \/ mutex' = mutex /\ (Holding(t) <=> l \in {"work", "count", "unlock"})
           \/ mutex = Free /\ mutex' = t /\ l \in {"work", "count", "unlock"}
           \/ mutex = t /\ mutex' = Free /\ l \notin {"work", "count", "unlock"}
    PROVE  LockInv'
<1>1. \A s \in M!Children : pc'[s] = IF s = t THEN l ELSE pc[s]
  BY DEF M!TypeOK, M!FrameOK, M!Goto
<1> QED  BY <1>1 DEF LockInv, Holding

\* The test, the lock and the unlock leave the work alone.
LEMMA MoveKeepsWork ==
    ASSUME M!TypeOK, WorkInv,
           NEW t \in M!Children, NEW l \in M!Labels, M!Goto(t, l),
           pc[t] # "count", l # "count", UNCHANGED <<counter, array>>
    PROVE  WorkInv'
<1>1. \A s \in M!Children : pc'[s] = IF s = t THEN l ELSE pc[s]
  BY DEF M!TypeOK, M!FrameOK, M!Goto
<1>2. \A s \in M!Children : pc'[s] = "count" <=> pc[s] = "count"
  BY <1>1
<1> QED  BY <1>2 DEF WorkInv

-----------------------------------------------------------------------------
LEMMA CheckStepInv ==
    ASSUME MutexArrayInv, NEW t \in M!Children, M!Check(t)
    PROVE  MutexArrayInv'
<1> USE DEF MutexArrayInv
<1> DEFINE l == IF counter >= End THEN "done" ELSE "lock"
<1>1. /\ M!Goto(t, l) /\ l \in M!Labels /\ pc[t] = "check"
      /\ UNCHANGED M!framevars /\ UNCHANGED <<counter, array, mutex, errors>>
  BY DEF M!Check, M!Labels, M!workvars
<1>2. counter \in Nat
  BY DEF M!TypeOK, M!Memory
<1>3. M!TypeOK'
  BY <1>1, MoveKeepsTypes DEF M!TypeOK
<1>4. LockInv'
  BY <1>1, MoveKeepsLock DEF Holding
<1>5. WorkInv'
  BY <1>1, MoveKeepsWork
<1>6. PassedInv'
  <2>1. CASE counter >= End
    <3>1. Passed' = Passed
      BY <1>1, <2>1, PassedMoves DEF Passed
    <3> QED  BY <1>1, <3>1 DEF PassedInv
  <2>2. CASE ~(counter >= End)
    BY <1>1, <2>2 DEF PassedInv
  <2> QED  BY <2>1, <2>2
<1>7. DoneInv'
  BY <1>1 DEF DoneInv, M!TypeOK, M!FrameOK, M!Goto
<1>8. M!NoErrors'
  BY <1>1 DEF M!NoErrors
<1> QED  BY <1>3, <1>4, <1>5, <1>6, <1>7, <1>8

LEMMA LockStepInv ==
    ASSUME MutexArrayInv, NEW t \in M!Children, M!Lock(t)
    PROVE  MutexArrayInv'
<1> USE DEF MutexArrayInv
<1>1. /\ M!Goto(t, "work") /\ "work" \in M!Labels /\ pc[t] = "lock"
      /\ mutex = Free /\ mutex' = t
      /\ UNCHANGED M!framevars /\ UNCHANGED <<counter, array, errors>>
  BY DEF M!Lock, M!Labels
<1>2. M!TypeOK'
  BY <1>1, MoveKeepsTypes DEF M!TypeOK
<1>3. LockInv'
  BY <1>1, MoveKeepsLock
<1>4. WorkInv'
  BY <1>1, MoveKeepsWork
<1>5. PassedInv'
  <2>1. Passed' = Passed
    BY <1>1, PassedMoves DEF Passed
  <2> QED  BY <1>1, <2>1 DEF PassedInv
<1>6. DoneInv' /\ M!NoErrors'
  BY <1>1 DEF DoneInv, M!NoErrors, M!TypeOK, M!FrameOK, M!Goto
<1> QED  BY <1>2, <1>3, <1>4, <1>5, <1>6

\* array[counter]++: the element at the counter goes from 0 to 1.
LEMMA WorkStepInv ==
    ASSUME MutexArrayInv, NEW t \in M!Children, M!Work(t)
    PROVE  MutexArrayInv'
<1> USE DEF MutexArrayInv
<1>1. /\ M!Goto(t, "count") /\ "count" \in M!Labels /\ pc[t] = "work"
      /\ array' = [array EXCEPT ![counter] = array[counter] + 1]
      /\ UNCHANGED M!framevars /\ UNCHANGED <<counter, mutex, errors>>
  BY DEF M!Work, M!Labels
<1>2. counter \in M!Memory /\ array \in [M!Memory -> Nat]
  BY DEF M!TypeOK
<1>3. M!TypeOK'
  BY <1>1, <1>2, MoveKeepsTypes DEF M!TypeOK
<1>4. LockInv'
  BY <1>1, MoveKeepsLock DEF Holding
<1>5. WorkInv'
  <2>1. \A s \in M!Children : pc[s] # "count"
    BY <1>1 DEF LockInv, Holding
  <2>2. pc'[t] = "count"
    BY <1>1 DEF M!TypeOK, M!FrameOK, M!Goto
  <2>3. array[counter] = 0
    BY <1>2, <2>1 DEF WorkInv, M!Memory
  <2>4. \A k \in M!Memory : array'[k] = IF k = counter THEN 1 ELSE array[k]
    BY <1>1, <1>2, <2>3
  <2>5. \A k \in M!Memory : array[k] = IF k < counter THEN 1 ELSE 0
    BY <2>1 DEF WorkInv
  <2>6. \A k \in M!Memory : array'[k] = IF k < counter \/ k = counter THEN 1 ELSE 0
    BY <1>2, <2>4, <2>5 DEF M!Memory
  <2> QED  BY <1>1, <2>2, <2>6 DEF WorkInv
<1>6. PassedInv'
  <2>1. Passed' = Passed
    BY <1>1, PassedMoves DEF Passed
  <2> QED  BY <1>1, <2>1 DEF PassedInv
<1>7. DoneInv' /\ M!NoErrors'
  BY <1>1 DEF DoneInv, M!NoErrors, M!TypeOK, M!FrameOK, M!Goto
<1> QED  BY <1>3, <1>4, <1>5, <1>6, <1>7

\* counter++: the last child to bring the counter to End is no longer among
\* those still to count.
LEMMA CountStepInv ==
    ASSUME MutexArrayInv, NEW t \in M!Children, M!Count(t)
    PROVE  MutexArrayInv'
<1> USE DEF MutexArrayInv
<1>1. /\ M!Goto(t, "unlock") /\ "unlock" \in M!Labels /\ pc[t] = "count"
      /\ counter' = counter + 1
      /\ UNCHANGED M!framevars /\ UNCHANGED <<array, mutex, errors>>
  BY DEF M!Count, M!Labels
<1>2. counter \in Nat /\ NumChildren \in Nat \ {0} /\ End \in Nat
  BY DEF M!TypeOK, M!Memory
<1>3. Cardinality(Passed') = Cardinality(Passed) - 1
  <2>1. t \in Passed /\ Passed' = Passed \ {t}
    BY <1>1, PassedMoves DEF Passed
  <2> QED  BY <2>1, PassedFinite, FS_RemoveElement
<1>4. Cardinality(Passed) \in Nat /\ 1 <= Cardinality(Passed) /\ Cardinality(Passed) <= NumChildren
  <2>1. Passed # {}
    BY <1>1 DEF Passed
  <2>2. Cardinality(Passed) # 0
    BY <2>1, PassedFinite, FS_EmptySet
  <2> QED  BY <2>2, PassedFinite
<1>5. PassedInv' /\ counter' <= End + NumChildren - 1
  <2>1. CASE counter >= End
    BY <1>1, <1>2, <1>3, <1>4, <2>1 DEF PassedInv
  <2>2. CASE counter < End
    <3>1. counter + 1 >= End => counter + 1 = End
      BY <1>2, <2>2
    <3>2. counter' + Cardinality(Passed') <= End + NumChildren - 1
      BY <1>1, <1>2, <1>3, <1>4, <2>2
    <3> QED  BY <1>1, <1>2, <1>3, <1>4, <2>2, <3>2 DEF PassedInv
  <2> QED  BY <1>2, <2>1, <2>2
<1>6. M!TypeOK'
  <2>1. counter' \in M!Memory
    BY <1>1, <1>2, <1>5 DEF M!Memory
  <2> QED  BY <1>1, <2>1, MoveKeepsTypes DEF M!TypeOK
<1>7. LockInv'
  BY <1>1, MoveKeepsLock DEF Holding
<1>8. WorkInv'
  <2>1. \A s \in M!Children : pc'[s] # "count"
    <3>1. \A s \in M!Children : pc[s] = "count" => s = t
      BY <1>1 DEF LockInv, Holding
    <3> QED  BY <1>1, <3>1 DEF M!TypeOK, M!FrameOK, M!Goto
  <2>2. \A k \in M!Memory : array[k] = IF k < counter \/ k = counter THEN 1 ELSE 0
    BY <1>1 DEF WorkInv
  <2>3. \A k \in M!Memory : k < counter' <=> k < counter \/ k = counter
    BY <1>1, <1>2 DEF M!Memory
  <2> QED  BY <1>1, <2>1, <2>2, <2>3 DEF WorkInv
<1>9. DoneInv' /\ M!NoErrors'
  BY <1>1, <1>2 DEF DoneInv, M!NoErrors, M!TypeOK, M!FrameOK, M!Goto
<1> QED  BY <1>5, <1>6, <1>7, <1>8, <1>9

LEMMA UnlockStepInv ==
    ASSUME MutexArrayInv, NEW t \in M!Children, M!Unlock(t)
    PROVE  MutexArrayInv'
<1> USE DEF MutexArrayInv
<1>1. /\ M!Goto(t, "check") /\ "check" \in M!Labels /\ pc[t] = "unlock"
      /\ mutex' = Free
      /\ UNCHANGED M!framevars /\ UNCHANGED <<counter, array, errors>>
  BY DEF M!Unlock, M!Labels
<1>2. M!TypeOK'
  BY <1>1, MoveKeepsTypes DEF M!TypeOK
<1>3. LockInv'
  BY <1>1, MoveKeepsLock DEF LockInv, Holding
<1>4. WorkInv'
  BY <1>1, MoveKeepsWork
<1>5. PassedInv'
  <2>1. Passed' = Passed
    BY <1>1, PassedMoves DEF Passed
  <2> QED  BY <1>1, <2>1 DEF PassedInv
<1>6. DoneInv' /\ M!NoErrors'
  BY <1>1 DEF DoneInv, M!NoErrors, M!TypeOK, M!FrameOK, M!Goto
<1> QED  BY <1>2, <1>3, <1>4, <1>5, <1>6

\* main creates and joins children, or pthread_create fails.
LEMMA MainStepInv ==
    ASSUME MutexArrayInv, UNCHANGED M!workvars,
           M!MakeThread("check") \/ M!JoinThread \/ M!MakeThreadFails
    PROVE  MutexArrayInv'
<1> USE DEF MutexArrayInv, M!workvars
<1>1. NumChildren \in Nat \ {0} /\ made \in 0..NumChildren /\ joined \in 0..NumChildren
  BY DEF M!TypeOK, M!FrameOK
<1>2. CASE M!MakeThread("check")
  <2> DEFINE t == made + 1
  <2>1. t \in M!Children /\ M!Goto(t, "check") /\ "check" \in M!Labels /\ made' = t
        /\ UNCHANGED <<joined, failed>>
    BY <1>1, <1>2 DEF M!MakeThread, M!Children, M!Labels
  <2>2. pc[t] = "new" /\ ~(t <= joined)
    <3>1. ~(t <= made)
      BY <1>1
    <3>2. pc[t] = "new"
      BY <1>1, <2>1, <3>1 DEF M!TypeOK, M!FrameOK, M!Children
    <3> QED  BY <2>1, <3>2 DEF M!TypeOK, M!FrameOK
  <2>3. M!FrameOK(M!Labels)'
    <3>1. pc' \in [M!Children -> M!Labels]
          /\ \A s \in M!Children : pc'[s] = IF s = t THEN "check" ELSE pc[s]
      BY <2>1 DEF M!TypeOK, M!FrameOK, M!Goto
    <3>2. \A s \in M!Children : pc'[s] = "new" <=> s > made'
      BY <1>1, <2>1, <3>1 DEF M!TypeOK, M!FrameOK, M!Children
    <3>3. \A s \in M!Children : s <= joined' => pc'[s] = "done"
      BY <2>1, <2>2, <3>1 DEF M!TypeOK, M!FrameOK
    <3>4. made' \in 0..NumChildren
      BY <2>1 DEF M!Children
    <3> QED  BY <2>1, <3>1, <3>2, <3>3, <3>4 DEF M!TypeOK, M!FrameOK
  <2> HIDE DEF t
  <2>4. M!TypeOK'
    BY <2>3 DEF M!TypeOK
  <2>5. LockInv'
    BY <2>1, <2>2, MoveKeepsLock DEF Holding
  <2>6. WorkInv'
    BY <2>1, <2>2, MoveKeepsWork
  <2>7. PassedInv'
    <3>1. Passed' = Passed
      BY <2>1, <2>2, PassedMoves DEF Passed
    <3> QED  BY <3>1 DEF PassedInv
  <2>8. DoneInv' /\ M!NoErrors'
    BY <2>1 DEF DoneInv, M!NoErrors, M!TypeOK, M!FrameOK, M!Goto
  <2> QED  BY <2>4, <2>5, <2>6, <2>7, <2>8
<1>3. CASE M!JoinThread
  <2>1. pc' = pc /\ made' = made /\ failed' = failed /\ joined' = joined + 1
        /\ pc[joined + 1] = "done" /\ joined' \in 0..NumChildren
    BY <1>1, <1>3 DEF M!JoinThread
  <2>2. \A s \in M!Children : s <= joined' => pc'[s] = "done"
    BY <1>1, <2>1 DEF M!TypeOK, M!FrameOK, M!Children
  <2>3. M!TypeOK'
    BY <2>1, <2>2 DEF M!TypeOK, M!FrameOK
  <2>4. Passed' = Passed
    BY <2>1 DEF Passed
  <2> QED  BY <2>1, <2>3, <2>4 DEF LockInv, WorkInv, PassedInv, DoneInv, M!NoErrors, Holding
<1>4. CASE M!MakeThreadFails
  <2>1. pc' = pc /\ made' = made /\ joined' = joined /\ failed' = TRUE
    BY <1>4 DEF M!MakeThreadFails
  <2>2. M!TypeOK'
    BY <2>1 DEF M!TypeOK, M!FrameOK
  <2>3. Passed' = Passed
    BY <2>1 DEF Passed
  <2> QED  BY <2>1, <2>2, <2>3 DEF LockInv, WorkInv, PassedInv, DoneInv, M!NoErrors, Holding
<1> QED  BY <1>2, <1>3, <1>4

\* check_array finds every element at 1: every child is done, so the counter
\* has reached End.
LEMMA CheckArrayInv ==
    ASSUME MutexArrayInv, M!CheckArray
    PROVE  MutexArrayInv'
<1> USE DEF MutexArrayInv
<1>1. UNCHANGED <<pc, M!framevars, counter, array, mutex>> /\ joined = NumChildren
      /\ errors' = M!Cardinality({k \in 0..(End - 1) : array[k] # 1})
  BY DEF M!CheckArray
<1>2. counter >= End
  <2>1. 1 \in M!Children /\ 1 <= joined
    BY <1>1 DEF M!Children
  <2> QED  BY <2>1 DEF M!TypeOK, M!FrameOK, DoneInv
<1>3. \A k \in 0..(End - 1) : array[k] = 1
  <2> TAKE k \in 0..(End - 1)
  <2>1. k \in M!Memory /\ k < counter
    BY <1>2 DEF M!TypeOK, M!Memory
  <2> QED  BY <2>1 DEF WorkInv
<1>4. errors' = 0
  <2>1. {k \in 0..(End - 1) : array[k] # 1} = {}
    BY <1>3
  <2>2. M!Cardinality({}) = Cardinality({})
    BY Zenon DEF M!Cardinality, Cardinality
  <2> QED  BY <1>1, <2>1, <2>2, FS_EmptySet
<1>5. Passed' = Passed
  BY <1>1 DEF Passed
<1> QED  BY <1>1, <1>4, <1>5
    DEF M!TypeOK, M!FrameOK, M!framevars, LockInv, WorkInv, PassedInv, DoneInv,
        M!NoErrors, Holding

LEMMA MutexArrayNext ==
    MutexArrayInv /\ [M!Next]_(M!vars) => MutexArrayInv'
<1> SUFFICES ASSUME MutexArrayInv, [M!Next]_(M!vars) PROVE MutexArrayInv'
    OBVIOUS
<1>1. CASE \E t \in M!Children : M!Child(t)
  BY <1>1, CheckStepInv, LockStepInv, WorkStepInv, CountStepInv, UnlockStepInv DEF M!Child
<1>2. CASE M!Main \/ (M!MakeThreadFails /\ UNCHANGED M!workvars)
  BY <1>2, MainStepInv DEF M!Main
<1>3. CASE M!CheckArray
  BY <1>3, CheckArrayInv
<1>4. CASE UNCHANGED M!vars
  <2>1. UNCHANGED <<pc, made, joined, failed, counter, array, mutex, errors>>
    BY <1>4 DEF M!vars, M!framevars, M!workvars
  <2>2. Passed' = Passed
    BY <2>1 DEF Passed
  <2> QED  BY <2>1, <2>2
           DEF MutexArrayInv, M!TypeOK, M!FrameOK, LockInv, WorkInv, PassedInv, DoneInv,
               M!NoErrors, Holding
<1> QED  BY <1>1, <1>2, <1>3, <1>4 DEF M!Next

OfMutexArray == program = "counter_array_mutex" => MutexArrayInv

LEMMA MutexArrayAlways == FairSpec => []OfMutexArray
<1>1. Init => OfMutexArray
  BY MutexArrayInit DEF Init, OfMutexArray
<1>2. OfMutexArray /\ [Next]_vars => OfMutexArray'
  <2>1. UNCHANGED vars => UNCHANGED M!vars
    BY DEF vars, ex12only, M!vars, M!framevars, M!workvars
  <2> QED  BY <2>1, MutexArrayNext DEF Next, vars, OfMutexArray
<1> QED  BY <1>1, <1>2, PTL DEF FairSpec

\* Every unit of work of counter_array_mutex.c is done once whatever the
\* interleaving ("0 errors."): the test outside the mutex costs none and
\* repeats none, for any number of children and every end.
THEOREM EveryUnitOnce == FairSpec => []WorkDoneOnce
<1>1. OfMutexArray => WorkDoneOnce
  BY DEF OfMutexArray, WorkDoneOnce, MutexArrayInv
<1> QED  BY <1>1, MutexArrayAlways, PTL

\* How far behind its end counter_array_mutex.c writes its array at most.
THEOREM MutexOvershootBounded == FairSpec => []MutexOvershoot
<1>1. OfMutexArray => MutexOvershoot
  <2> SUFFICES ASSUME MutexArrayInv PROVE counter <= End + NumChildren - 1
    BY DEF OfMutexArray, MutexOvershoot, M!Overshoot
  <2>1. counter \in Nat /\ Cardinality(Passed) \in Nat
    BY PassedFinite DEF MutexArrayInv, M!TypeOK, M!Memory
  <2> QED  BY <2>1 DEF MutexArrayInv, PassedInv
<1> QED  BY <1>1, MutexArrayAlways, PTL
====
