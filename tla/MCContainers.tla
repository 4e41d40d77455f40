---- MODULE MCContainers ----
(***************************************************************************)
(* One of the programs on linked structures: the hash map (hash.c), list.c,*)
(* list_errors.c, or one of the other lists.                               *)
(***************************************************************************)
EXTENDS HashMap, TLC

CONSTANTS k1, k2, k3, k4,
          Addresses,    \* the nodes that malloc may return
          ListVals, ListIndices    \* what the calls on the lists are made with

VARIABLES which, line, cell, live, list, pc, call, prev, node, next, i, ret, before

mapvars == <<line, n, size, lists, answer, ended>>
listvars == <<cell, live, list, pc, call, prev, node, next, i, ret, before>>

FourKeys == {k1, k2, k3, k4}

\* k1 and k2 collide among four buckets and not among eight; the hash of k4 is
\* negative: a bucket among one or two lists, and none among four or eight.
Hashes == (k1 :> 0) @@ (k2 :> 4) @@ (k3 :> 9) @@ (k4 :> -2)

TwoVals == {-1, 2}
FiveIndices == {-1, 0, 1, 2, 3}

List06 == INSTANCE ListEx06 WITH Nodes <- Addresses, Vals <- ListVals
List13 == INSTANCE ListEx13 WITH Nodes <- Addresses, Vals <- ListVals, Indices <- ListIndices
Main == INSTANCE HashMain

ASSUME AddressAssumption == List06!ListAssumption

NoList == List13!Built(<<>>) /\ line = 0
IdleMap == line = 0 /\ n = Buckets /\ size = 0 /\ lists = <<>> /\ answer = NULL /\ ended = "idle"

MCInit ==
    \/ which = "hash.c" /\ Init /\ NoList
    \/ which = "main of hash.c" /\ Main!Init /\ NoList
    \/ which = "list.c" /\ List06!Init /\ IdleMap
    \/ which = "list_errors.c" /\ List13!Init /\ IdleMap
    \/ which = "bad_list.c" /\ List13!BadInit /\ IdleMap
    \/ which = "good_list.c" /\ List13!GoodInit /\ IdleMap
    \/ which = "list2.c" /\ List13!Init2 /\ IdleMap

MCNext ==
    /\ UNCHANGED which
    /\ \/ which = "hash.c" /\ Next /\ UNCHANGED <<line, listvars>>
       \/ which = "main of hash.c" /\ Main!Next /\ UNCHANGED listvars
       \/ which = "list.c" /\ List06!Next /\ UNCHANGED mapvars
       \/ which = "list_errors.c" /\ List13!Next /\ UNCHANGED mapvars
       \/ which = "bad_list.c" /\ List13!BadNext /\ UNCHANGED mapvars
       \/ which = "list2.c" /\ List13!Next2 /\ UNCHANGED mapvars
       \/ /\ which \in {"good_list.c", "bad_list.c", "main of hash.c"}
          /\ UNCHANGED <<mapvars, listvars>>

MCSpec == MCInit /\ [][MCNext]_<<which, mapvars, listvars>>

\* malloc may return any free address: they are interchangeable.
AnyAddress == Permutations(Addresses)

-----------------------------------------------------------------------------
\* Type and shape of the map: every node is in the bucket of its key, no key
\* has two, size counts them (map_resize's storage holds them all), and there
\* are never more keys than buckets, so a map that lost its last bucket has
\* lost no key with it.
MapWellFormed == which = "hash.c" => TypeOK /\ WellFormed /\ LoadBound

\* The map answers as a dictionary, across growing, shrinking and rehashing,
\* until a call whose bucket is undefined ends it.
MapImplementsDictionary ==
    /\ which = "hash.c" => Abstract!Init
    /\ [][which = "hash.c" => [Abstract!Next]_Abstract!vars]_mapvars

\* No loop over a list runs for ever, no pointer that a program still follows
\* leads to memory that was freed or never allocated, and only the pop of
\* bad_list.c follows NULL.
HeapSafe ==
    /\ \A h \in {list, prev, node, next} : List13!Terminated(h)
    /\ List13!InUse \subseteq live
    /\ pc = "crashed" => which = "bad_list.c" /\ before = <<>>

\* A call loses no node: what it takes out of reach it frees.  Only the
\* remove_by_value of list.c keeps what it unlinks.
NothingLost ==
    [][\/ (live' \ List13!InUse') \subseteq (live \ List13!InUse)
       \/ which = "list.c" /\ call'.op = "remove_by_value"]_listvars

\* What is right of the map of main of hash.c.
MainMapRight ==
    /\ Main!Map!TypeOK /\ Main!Map!WellFormed /\ Main!Map!LoadBound
    /\ Main!KeysDistinct /\ Main!MainFreesWhatIsLeft

\* remove_by_value of list.c returns the number of nodes it removed, as its
\* comment says.
RemovedCounted == which = "list.c" => List06!RemovedCounted

\* When a call has returned, the list and the result are what its
\* documentation says, for the list as it was before: pop, push, reverse,
\* remove_by_value, insert_by_index and emptying a list, each where the known
\* faults leave that true.  main of hash.c makes no undefined call, and its
\* map, whose ints and strings are told apart, is freed with the keys it did not
\* remove.
CallsKeepPromise ==
    CASE which = "list.c" -> List06!CallCorrect
      [] which = "list_errors.c" -> List13!CallCorrect
      [] which = "main of hash.c" -> MainMapRight
      [] OTHER -> List13!CallCorrect2
====
