---- MODULE QueueRingProofs ----
(***************************************************************************)
(* Lemmas about the ring buffer and the threads' loops that the builds of  *)
(* examples/queue share: the index arithmetic wraps inside the slots, and  *)
(* the slots between the indices change like the items of a FIFO queue.    *)
(***************************************************************************)
EXTENDS QueueRing, TLAPS

\* What % does with the two arguments the ring gives it.
LEMMA ModWrap ==
    ASSUME NEW a \in Nat, NEW n \in Nat, n > 0, a <= n
    PROVE  a % n = IF a = n THEN 0 ELSE a
<1>1. CASE a < n
  BY <1>1
<1>2. CASE a = n
  BY <1>2
<1> QED  BY <1>1, <1>2

\* The index arithmetic stays inside the ring and moves by one slot.
LEMMA IncrSlot ==
    ASSUME NEW k \in Slots
    PROVE  /\ queue_incr(k) \in Slots
           /\ queue_incr(k) = IF k = Length THEN 0 ELSE k + 1
<1>1. k \in Nat /\ Length \in Nat /\ k <= Length
  BY QueueAssumption DEF Slots
<1>2. k + 1 \in Nat /\ Length + 1 \in Nat /\ Length + 1 > 0 /\ k + 1 <= Length + 1
  BY <1>1
<1>3. (k + 1) % (Length + 1) = IF k + 1 = Length + 1 THEN 0 ELSE k + 1
  BY <1>2, ModWrap
<1> QED  BY <1>1, <1>3 DEF queue_incr, Slots

LEMMA ChildrenThreads ==
    /\ Len(Children) \in Nat
    /\ \A k \in 1..Len(Children) : Children[k] \in Threads
BY QueueAssumption

LEMMA LoopHeadLabel ==
    ASSUME NEW t, NEW n
    PROVE  LoopHead(t, n) \in {"call", "done"}
BY DEF LoopHead

\* A sequence is the function of its elements.
LEMMA SeqFunction ==
    ASSUME NEW S, NEW s \in Seq(S)
    PROVE  s = [k \in 1..Len(s) |-> s[k]]
OBVIOUS

-----------------------------------------------------------------------------
\* How far apart two slots are, and what the tests of the queue say of it.
LEMMA Distance ==
    ASSUME NEW a \in Slots, NEW b \in Slots, NEW n,
           n = IF a >= b THEN a - b ELSE a - b + Length + 1
    PROVE  /\ n \in 0..Length
           /\ n = 0 <=> a = b
           /\ n = Length <=> queue_incr(a) = b
<1>1. /\ Length \in Nat /\ a \in 0..Length /\ b \in 0..Length
      /\ queue_incr(a) = IF a = Length THEN 0 ELSE a + 1
  BY QueueAssumption, IncrSlot DEF Slots
<1> QED  BY <1>1

\* How many items the ring holds, in a state and in the next one.
LEMMA CountRange ==
    ASSUME RingTypeOK
    PROVE  /\ Count \in 0..Length
           /\ Count = 0 <=> queue_empty
           /\ Count = Length <=> queue_full
<1>1. next_in \in Slots /\ next_out \in Slots
  BY DEF RingTypeOK
<1>2. Count = IF next_in >= next_out THEN next_in - next_out
                                     ELSE next_in - next_out + Length + 1
  BY DEF Count
<1> QED  BY <1>1, <1>2, Distance DEF queue_empty, queue_full

LEMMA NextCountRange ==
    ASSUME RingTypeOK'
    PROVE  /\ Count' \in 0..Length
           /\ Count' = 0 <=> queue_empty'
           /\ Count' = Length <=> queue_full'
<1>1. next_in' \in Slots /\ next_out' \in Slots
  BY DEF RingTypeOK
<1>2. Count' = IF next_in' >= next_out' THEN next_in' - next_out'
                                        ELSE next_in' - next_out' + Length + 1
  BY DEF Count
<1>3. /\ Count' \in 0..Length
      /\ Count' = 0 <=> next_in' = next_out'
      /\ Count' = Length <=> queue_incr(next_in') = next_out'
  BY ONLY <1>1, <1>2, Distance
<1> QED  BY <1>3 DEF queue_full, queue_empty, queue_incr

\* The k-th slot from next_out is a slot, and never the one the next push
\* writes as long as it holds an item.
LEMMA SlotAtRange ==
    ASSUME RingTypeOK, NEW k \in 0..Length
    PROVE  /\ SlotAt(k) \in Slots
           /\ k < Count => SlotAt(k) # next_in
           /\ SlotAt(Count) = next_in
           /\ SlotAt(0) = next_out
<1>1. Length \in Nat /\ next_in \in 0..Length /\ next_out \in 0..Length
  BY QueueAssumption DEF RingTypeOK, Slots
<1> QED  BY <1>1 DEF SlotAt, Slots, Count

LEMMA ContentsType ==
    ASSUME RingTypeOK
    PROVE  /\ Contents \in Seq(Item \cup {NoItem})
           /\ Len(Contents) = Count
           /\ \A k \in 1..Count : Contents[k] = array[SlotAt(k - 1)]
<1> DEFINE S == Item \cup {NoItem}
<1>1. Length \in Nat /\ Count \in 0..Length /\ Count \in Nat
  BY CountRange, QueueAssumption
<1>2. ASSUME NEW k \in 1..Count
      PROVE  array[SlotAt(k - 1)] \in S
  <2>1. k - 1 \in 0..Length
    BY <1>1
  <2>2. SlotAt(k - 1) \in Slots
    BY <2>1, SlotAtRange
  <2> QED  BY <2>2 DEF RingTypeOK
<1> HIDE DEF S
<1>3. Contents \in [1..Count -> S]
  BY <1>2 DEF Contents
<1>4. Contents \in Seq(S) /\ Len(Contents) = Count
  BY <1>1, <1>3
<1> QED  BY <1>4 DEF Contents, S

\* A store into the slot at next_in disturbs no item of the queue.
LEMMA StoreKeepsContents ==
    ASSUME RingTypeOK, NEW x, array' = [array EXCEPT ![next_in] = x],
           next_in' = next_in, next_out' = next_out
    PROVE  Contents' = Contents
<1>1. Length \in Nat /\ Count \in 0..Length
  BY CountRange, QueueAssumption
<1>2. Count' = Count
  BY DEF Count
<1>3. ASSUME NEW k \in 1..Count
      PROVE  array'[SlotAt(k - 1)'] = array[SlotAt(k - 1)]
  <2>1. k - 1 \in 0..Length /\ k - 1 < Count
    BY <1>1
  <2>2. SlotAt(k - 1) \in Slots /\ SlotAt(k - 1) # next_in
    BY <2>1, SlotAtRange
  <2>3. SlotAt(k - 1)' = SlotAt(k - 1)
    BY DEF SlotAt
  <2> QED  BY <2>2, <2>3 DEF RingTypeOK
<1> QED  BY <1>2, <1>3 DEF Contents

\* Moving next_in past its slot appends the slot's item.
LEMMA AdvanceInAppends ==
    ASSUME RingTypeOK, ~queue_full, AdvanceIn
    PROVE  /\ Contents' = Append(Contents, array[next_in])
           /\ Count' = Count + 1
           /\ Count < Length
<1>1. /\ Length \in Nat /\ next_in \in 0..Length /\ next_out \in 0..Length
      /\ next_in' = (IF next_in = Length THEN 0 ELSE next_in + 1)
      /\ next_out' = next_out /\ array' = array
      /\ next_in' # next_out
  BY QueueAssumption, IncrSlot DEF RingTypeOK, Slots, AdvanceIn, queue_full
<1>2. Count \in 0..(Length - 1) /\ Count' = Count + 1
  BY <1>1 DEF Count
<1>3. \A k : SlotAt(k)' = SlotAt(k)
  BY <1>1 DEF SlotAt
<1>4. SlotAt(Count) = next_in
  BY <1>1 DEF SlotAt, Count
<1> DEFINE S == Item \cup {NoItem}
<1>5. /\ Contents \in Seq(S) /\ Len(Contents) = Count
      /\ \A k \in 1..Count : Contents[k] = array[SlotAt(k - 1)]
      /\ array[next_in] \in S
  BY ContentsType DEF RingTypeOK
<1> HIDE DEF S
<1>6. /\ Append(Contents, array[next_in]) \in Seq(S)
      /\ Len(Append(Contents, array[next_in])) = Count + 1
      /\ Append(Contents, array[next_in])[Count + 1] = array[next_in]
      /\ \A k \in 1..Count : Append(Contents, array[next_in])[k] = Contents[k]
  BY <1>5
<1>7. Contents' = [k \in 1..(Count + 1) |-> array[SlotAt(k - 1)]]
  BY <1>1, <1>2, <1>3 DEF Contents
<1>8. \A k \in 1..(Count + 1) :
          Append(Contents, array[next_in])[k] = array[SlotAt(k - 1)]
  <2> SUFFICES ASSUME NEW k \in 1..(Count + 1)
               PROVE  Append(Contents, array[next_in])[k] = array[SlotAt(k - 1)]
    OBVIOUS
  <2>1. CASE k \in 1..Count
    BY <1>5, <1>6, <2>1
  <2>2. CASE k = Count + 1
    <3>1. k - 1 = Count
      BY <1>2, <2>2
    <3> QED  BY <1>4, <1>6, <2>2, <3>1
  <2>3. k \in 1..Count \/ k = Count + 1
    BY <1>1, <1>2
  <2> QED  BY <2>1, <2>2, <2>3
<1>9. Append(Contents, array[next_in])
          = [k \in 1..(Count + 1) |-> array[SlotAt(k - 1)]]
  BY <1>2, <1>6, <1>8
<1> QED  BY <1>1, <1>2, <1>7, <1>9

\* Moving next_out past its slot takes the first item out.
LEMMA AdvanceOutTakes ==
    ASSUME RingTypeOK, ~queue_empty, AdvanceOut
    PROVE  /\ Contents # <<>>
           /\ Head(Contents) = array[next_out]
           /\ Contents' = Tail(Contents)
           /\ Count' = Count - 1
<1>1. /\ Length \in Nat /\ next_in \in 0..Length /\ next_out \in 0..Length
      /\ next_out' = (IF next_out = Length THEN 0 ELSE next_out + 1)
      /\ next_in' = next_in /\ array' = array
      /\ next_in # next_out
  BY QueueAssumption, IncrSlot DEF RingTypeOK, Slots, AdvanceOut, queue_empty
<1>2. Count \in 1..Length /\ Count' = Count - 1
  BY <1>1 DEF Count
<1>3. \A k \in 0..(Count - 2) : SlotAt(k)' = SlotAt(k + 1)
  BY <1>1, <1>2 DEF SlotAt
<1> DEFINE S == Item \cup {NoItem}
<1>5. /\ Contents \in Seq(S) /\ Len(Contents) = Count
      /\ \A k \in 1..Count : Contents[k] = array[SlotAt(k - 1)]
      /\ SlotAt(0) = next_out
  BY <1>1, ContentsType, SlotAtRange
<1> HIDE DEF S
<1>6. /\ Contents # <<>>
      /\ Head(Contents) = Contents[1]
      /\ Tail(Contents) \in Seq(S)
      /\ Len(Tail(Contents)) = Count - 1
      /\ \A k \in 1..(Count - 1) : Tail(Contents)[k] = Contents[k + 1]
  BY <1>2, <1>5
<1>7. Contents' = [k \in 1..(Count - 1) |-> array[SlotAt(k - 1)']]
  BY <1>1, <1>2 DEF Contents
<1>8. \A k \in 1..(Count - 1) : Tail(Contents)[k] = array[SlotAt(k - 1)']
  <2> SUFFICES ASSUME NEW k \in 1..(Count - 1)
               PROVE  Tail(Contents)[k] = array[SlotAt(k - 1)']
    OBVIOUS
  <2>1. k - 1 \in 0..(Count - 2) /\ k + 1 \in 1..Count /\ (k + 1) - 1 = k /\ (k - 1) + 1 = k
    BY <1>2
  <2>2. SlotAt(k - 1)' = SlotAt(k)
    BY <1>3, <2>1
  <2> QED  BY <1>5, <1>6, <2>1, <2>2
<1>9. Tail(Contents) = [k \in 1..(Count - 1) |-> array[SlotAt(k - 1)']]
  <2>1. Tail(Contents) = [k \in 1..Len(Tail(Contents)) |-> Tail(Contents)[k]]
    BY <1>6, SeqFunction
  <2> QED  BY <1>6, <1>8, <2>1
<1>10. Head(Contents) = array[next_out]
  BY <1>2, <1>5, <1>6
<1> QED  BY <1>2, <1>6, <1>7, <1>9, <1>10

\* Steps that leave the ring alone leave its contents alone.
LEMMA SameContents ==
    ASSUME UNCHANGED ringvars
    PROVE  /\ Contents' = Contents
           /\ Count' = Count
           /\ queue_full' = queue_full
           /\ queue_empty' = queue_empty
BY DEF ringvars, Contents, Count, SlotAt, queue_full, queue_empty, queue_incr
====
