---- MODULE HashMain ----
(***************************************************************************)
(* What main of exercises/ex07/hash.c does with its map: ints and strings  *)
(* are keys of one map, each with the hash and the equality of its type.   *)
(***************************************************************************)
EXTENDS Integers, Sequences, SequencesExt

CONSTANT NULL

VARIABLES n, size, lists, answer, ended,
          line   \* how many calls main has made

\* A char * is the sequence of its characters, a terminating 0 not counted.
make_int_value(x) == [type |-> "INT", i |-> x]
make_string_value(w) == [type |-> "STRING", s |-> w]
make_hashable_int(x) == [type |-> "INT", i |-> x]
make_hashable_string(w) == [type |-> "STRING", s |-> w]

\* int total of 32 bits; >> keeps the sign.
hash_string(w) == FoldLeft(LAMBDA total, c : total + (223 * c) \div 16, 0, w)
hash_int(x) == x

hash_hashable(h) == IF h.type = "INT" THEN hash_int(h.i) ELSE hash_string(h.s)

\* The bytes of a key taken for the other type, as equal_int and equal_string do
\* with a second key of that type: an int, lowest byte first, and a string up
\* to its first 0.  main's ints have one byte.
IntAt(h) == IF h.type = "INT" THEN h.i
            ELSE LET b == h.s \o <<0, 0, 0>>
                 IN b[1] + 256 * (b[2] + 256 * (b[3] + 256 * b[4]))
StringAt(h) == IF h.type = "STRING" THEN h.s ELSE IF h.i = 0 THEN <<>> ELSE <<h.i>>

equal_int(h1, h2) == h1.i = IntAt(h2)

equal_string(h1, h2) == h1.s = StringAt(h2)

\* The function of the first key, whatever the second key is.
equal_hashable(h1, h2) == IF h1.type = "INT" THEN equal_int(h1, h2) ELSE equal_string(h1, h2)

Word(s) == [x \in 1..Len(s) |-> CASE s[x] = "a" -> 97 [] s[x] = "b" -> 98
                                 [] s[x] = "m" -> 109 [] s[x] = "n" -> 110]
strs == << Word(<<"b", "a", "n", "a", "n", "a">>), Word(<<"a", "n", "a", "n", "a", "b">>),
           Word(<<"a", "a", "a", "b", "n", "n">>), Word(<<"n", "a", "n", "a", "b", "a">>),
           Word(<<"a", "a", "a", "a", "n", "n">>), Word(<<"a", "a", "a", "a", "n", "m">>) >>

Ints == {make_hashable_int(x) : x \in 0..11}
Strings == {make_hashable_string(strs[x]) : x \in 1..6}

Map == INSTANCE HashMap WITH
    Keys <- Ints \cup Strings,
    Values <- {make_int_value(x) : x \in 0..9} \cup {make_string_value(strs[x]) : x \in 1..6},
    Hash <- [h \in Ints \cup Strings |-> hash_hashable(h)],
    Buckets <- 8

vars == <<Map!vars, line>>

-----------------------------------------------------------------------------
Init == Map!Init /\ line = 0

map_add(h, v) == Map!AddExisting(h, v) \/ Map!AddNew(h, v)
map_remove(h) == Map!RemovePresent(h) \/ Map!RemoveAbsent(h)

\* The loops of main: 0 to 9 are added, 2 to 11 removed, the strings added,
\* the first of them removed, and the map is freed.
Next ==
    /\ line' = line + 1
    /\ \/ line < 10 /\ map_add(make_hashable_int(line), make_int_value(line))
       \/ line \in 10..19 /\ map_remove(make_hashable_int(line - 8))
       \/ /\ line \in 20..25
          /\ LET s == strs[line - 19] IN map_add(make_hashable_string(s), make_string_value(s))
       \/ line = 26 /\ map_remove(make_hashable_string(strs[1]))
       \/ line = 27 /\ Map!Free

\* equal_hashable asks for keys of the same type and main's map has ints beside
\* strings: still no two keys of main are taken for each other, among them
\* words of the same letters, whose hash is the same.
KeysDistinct == \A h1, h2 \in Ints \cup Strings : equal_hashable(h1, h2) <=> h1 = h2

\* main makes no undefined call, and the map it frees holds 0, 1 and all the
\* strings but the first.
MainFreesWhatIsLeft ==
    /\ ended \in {"no", "freed"}
    /\ ended = "freed" =>
        Map!Stored = {make_hashable_int(x) : x \in {0, 1}}
                     \cup {make_hashable_string(strs[x]) : x \in 2..6}
====
