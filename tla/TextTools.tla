---- MODULE TextTools ----
(***************************************************************************)
(* Functions on strings, and programs on lines: endswith (exercises/ex03,  *)
(* ex04), strsplit1 to 7 and strfilter1 to 4 (examples), tee (ex03), and   *)
(* the three versions of find_track (ex02.5/find_track.c,                  *)
(* ex05/find_track.c, find_track_oo.c) and of word_count (ex08, ex13).  A  *)
(* string is the sequence of its characters, without the terminator.       *)
(* Undefined stands for a call whose outcome C leaves open.                *)
(***************************************************************************)
EXTENDS Integers, Sequences, FiniteSets, SequencesExt

CONSTANTS Size,         \* the 128 characters of ex13's line
          Punctuation   \* the characters ex08 splits at, the newline among them

Undefined == [outcome |-> "undefined"]
Result(a, b) == [outcome |-> "split", first |-> a, second |-> b]
Kept(s) == [outcome |-> "filtered", string |-> s]

\* strchr: the first place of c in s, 0 when there is none.
strchr(s, c) == SelectInSeq(s, LAMBDA x : x = c)

\* strstr: the first place where t starts in s, 0 when there is none.
strstr(s, t) ==
    LET at == {k \in 1..(Len(s) - Len(t) + 1) : SubSeq(s, k, k + Len(t) - 1) = t}
    IN IF at = {} THEN 0 ELSE CHOOSE k \in at : \A m \in at : k <= m

-----------------------------------------------------------------------------
\* ex03's stub.
endswith03(s, suffix) == FALSE

\* A suffix longer than s puts location before s, where nothing is found.
endswith(s, suffix) ==
    LET found == strstr(s, suffix)
        location == Len(s) - Len(suffix) + 1
    IN found # 0 /\ found = location

\* The three tests of ex03's main and of ex04's test_endswith.c: string, suffix
\* and what the call should return.
Ends == <<"e", "n", "d", "s">>
With == <<"w", "i", "t", "h">>
Tests == {<<Ends \o With, <<"s">> \o With, TRUE>>,
          <<Ends \o With, Ends, FALSE>>,
          <<Ends \o With, <<"o", "f", "f">> \o Ends \o With, FALSE>>}

\* ex04's function passes the tests, and ex03's stub does not.
TestsTell ==
    /\ \A t \in Tests : endswith(t[1], t[2]) = t[3]
    /\ \E t \in Tests : endswith03(t[1], t[2]) # t[3]

\* "Checks whether s ends with suffix": 1 only if it does, and 1 whenever it
\* does and the suffix does not also occur before the end.
EndsWithCorrect(s, suffix) ==
    LET right == IsSuffix(suffix, s)
        earlier == strstr(s, suffix) \in 1..(Len(s) - Len(suffix))
    IN /\ endswith(s, suffix) => right
       /\ right /\ ~earlier => endswith(s, suffix)

-----------------------------------------------------------------------------
\* strsplit1: strchr finds the separator; NULL - string is no length.
strsplit1(s, sep) ==
    LET n == strchr(s, sep)
    IN IF n = 0 THEN Undefined ELSE Result(SubSeq(s, 1, n - 1), SubSeq(s, n + 1, Len(s)))

\* strsplit2: character by character into first up to the separator, then
\* into second; the loop does not end without a separator.
strsplit2(s, sep) ==
    LET r == FoldLeft(LAMBDA a, c : IF a.seen THEN [a EXCEPT !.second = Append(@, c)]
                                    ELSE IF c = sep THEN [a EXCEPT !.seen = TRUE]
                                    ELSE [a EXCEPT !.first = Append(@, c)],
                      [seen |-> FALSE, first |-> <<>>, second |-> <<>>], s)
    IN IF r.seen THEN Result(r.first, r.second) ELSE Undefined

\* strsplit3: the same with pointers.
strsplit3(s, sep) == strsplit2(s, sep)

\* strtok: the runs of characters between separators.
Tokens(s, sep) ==
    SelectSeq(FoldLeft(LAMBDA ts, c : IF c = sep THEN Append(ts, <<>>)
                                      ELSE [ts EXCEPT ![Len(ts)] = Append(@, c)], <<(<<>>)>>, s),
              LAMBDA t : t # <<>>)

\* strsplit4: the first two tokens; strcpy of a missing one fails.
strsplit4(s, sep) ==
    IF Len(Tokens(s, sep)) < 2 THEN Undefined ELSE Result(Tokens(s, sep)[1], Tokens(s, sep)[2])

\* strsplit5 and strsplit6 change neither of the caller's buffers.
strsplit5(s, sep, first, second) == Result(first, second)
strsplit6(s, sep, first, second) == Result(first, second)

\* strsplit7: the terminator is written over the separator of a copy; first and
\* second point into it.
strsplit7(s, sep) ==
    LET p == strchr(s, sep)
        copy == [s EXCEPT ![p] = "\\0"]
    IN IF p = 0 THEN Undefined
       ELSE Result(SubSeq(copy, 1, strchr(copy, "\\0") - 1), SubSeq(copy, p + 1, Len(copy)))

\* All versions that split give the two parts around the first separator;
\* strsplit4 does so when there are two tokens and nothing else.
SplitsCorrect(s, sep) ==
    LET p == strchr(s, sep)
        parts == Result(SubSeq(s, 1, p - 1), SubSeq(s, p + 1, Len(s)))
        f == <<"u">>
    IN /\ p # 0 => \A r \in {strsplit1(s, sep), strsplit2(s, sep), strsplit3(s, sep),
                             strsplit7(s, sep)} : r = parts
       /\ strsplit4(s, sep) = parts
            <=> p > 1 /\ p < Len(s) /\ strchr(SubSeq(s, p + 1, Len(s)), sep) = 0
       /\ strsplit5(s, sep, f, f) = strsplit6(s, sep, f, f)

-----------------------------------------------------------------------------
strfilter1(s, letters) ==
    Kept(FoldLeftDomain(LAMBDA buffer, k :
            IF strchr(letters, s[k]) # 0 THEN Append(buffer, s[k]) ELSE buffer, <<>>, s))

strfilter2(s, letters) == Kept(SelectSeq(s, LAMBDA c : strchr(letters, c) # 0))

\* strfilter3 returns a buffer of its own frame, with no terminator; strfilter4
\* appends to a buffer it has not set, with a character for a pointer.
strfilter3(s, letters) == Undefined
strfilter4(s, letters) == Undefined

FiltersCorrect(s, letters) ==
    LET r == strfilter1(s, letters) IN
    /\ r = strfilter2(s, letters)
    /\ \A k \in 1..Len(r.string) : strchr(letters, r.string[k]) # 0
    /\ \A c \in ToSet(letters) :
        Len(SelectSeq(r.string, LAMBDA x : x = c)) = Len(SelectSeq(s, LAMBDA x : x = c))

-----------------------------------------------------------------------------
\* An argument of tee is a name or an option of one or two letters.  getopt
\* takes options from anywhere among the arguments, the letters of one by one.
\* The loop also takes optind away from argc, so that with three arguments or
\* fewer before the name getopt does not see one behind the first option.
IsOption(arg) == arg # "name"
LettersOf == [a |-> {"a"}, i |-> {"i"}, aa |-> {"a"}, ai |-> {"a", "i"}, name |-> {}]

OptionsSeen(args) ==
    LET options == SelectSeq(args, IsOption)
    IN SubSeq(options, 1, IF options = <<>> THEN 0 ELSE 1)

\* The mode for fopen, or "refused" for an option that is not handled.
mode(args) ==
    LET letters == UNION {LettersOf[o] : o \in ToSet(OptionsSeen(args))}
    IN IF letters = {} THEN "w" ELSE IF letters = {"a"} THEN "a" ELSE "refused"

\* argv is the arguments, the last of which is the file's name; old is what the
\* file holds, or nothing can be opened.  fopen's result is used as it is.
tee(argv, old, opens, lines) ==
    LET m == mode(SubSeq(argv, 1, Len(argv) - 1))
    IN IF argv = <<>> \/ m = "refused" THEN [status |-> "error", shown |-> <<>>, file |-> old]
       ELSE IF ~opens THEN [status |-> "crash", shown |-> SubSeq(lines, 1, 1), file |-> old]
       ELSE [status |-> "ok", shown |-> lines, file |-> IF m = "a" THEN old \o lines ELSE lines]

\* Whenever tee succeeds, what was typed is shown and at the end of the file,
\* and what the file held is kept only in append mode; an option other than
\* -a is refused when it comes first and ignored behind another one.
TeeCorrect(argv, old, opens, lines) ==
    LET r == tee(argv, old, opens, lines)
        options == SelectSeq(SubSeq(argv, 1, Len(argv) - 1), IsOption)
    IN /\ r.status = "ok" => r.shown = lines /\ IsSuffix(lines, r.file)
       /\ r.status = "ok" /\ options = <<>> => r.file = lines
       /\ r.status = "ok" /\ options # <<>> => r.file = old \o lines
       /\ r.status = "error" => r.file = old
       /\ options # <<>> /\ "i" \in LettersOf[options[1]] => r.status = "error"
       /\ options # <<>> /\ options[1] = "a" /\ opens => r.status = "ok"

-----------------------------------------------------------------------------
\* compiled tells whether regcomp accepts the pattern, and matches what
\* regexec returns for each track.
NUM_TRACKS == 5
Tracks == 1..NUM_TRACKS

\* The loop over the tracks ends at the first one regexec fails on.
Failed(matches) == {t \in Tracks : matches[t] = "error"}
Searched(matches) == {t \in Tracks : \A f \in Failed(matches) : t < f}
Printed(matches) == {t \in Searched(matches) : matches[t] = "match"}

\* ex02.5: says so when nothing matches.
find_track_regex(compiled, matches) ==
    IF ~compiled THEN [status |-> 1, tracks |-> {}, none |-> FALSE]
    ELSE [status |-> IF Failed(matches) = {} THEN 0 ELSE 1,
          tracks |-> Printed(matches),
          none |-> Failed(matches) = {} /\ Printed(matches) = {}]

\* find_track of ex02.5: strstr finds the string in a track.
find_track(contains) == {t \in Tracks : contains[t]}

\* ex05: one track after the other, with continue where there is no match.
find_track_05(compiled, matches) ==
    IF ~compiled THEN [status |-> 1, tracks |-> {}]
    ELSE FoldLeftDomain(LAMBDA r, t :
            IF r.status = 1 \/ matches[t] = "nomatch" THEN r
            ELSE IF matches[t] = "match" THEN [r EXCEPT !.tracks = @ \cup {t}]
            ELSE [r EXCEPT !.status = 1], [status |-> 0, tracks |-> {}], matches)

\* find_track_oo.c: make_regex and regex_match exit on an error.
exit == -1
make_regex(compiled) == IF compiled THEN 1 ELSE exit
regex_match(ret) == CASE ret = "match" -> 1 [] ret = "nomatch" -> 0 [] ret = "error" -> exit

find_track_oo(compiled, matches) ==
    LET exits == {t \in Tracks : regex_match(matches[t]) = exit}
    IN IF make_regex(compiled) = exit THEN [status |-> 1, tracks |-> {}]
       ELSE [status |-> IF exits = {} THEN 0 ELSE 1,
             tracks |-> {t \in Tracks : /\ regex_match(matches[t]) = 1
                                        /\ \A x \in exits : t < x}]

\* The three versions find the same tracks and fail together: a failure is
\* never taken for a track that does not match, and a status of 0 means that
\* every track was compared.
VersionsAgree(compiled, matches) ==
    LET r == find_track_regex(compiled, matches)
        five == find_track_05(compiled, matches)
    IN /\ five = [status |-> r.status, tracks |-> r.tracks]
       /\ find_track_oo(compiled, matches) = five
       /\ r.status = 0 => r.tracks = find_track([t \in Tracks |-> matches[t] = "match"])
       /\ r.none => r.status = 0 /\ r.tracks = {}

-----------------------------------------------------------------------------
(***************************************************************************)
(* exercises/ex08/word_count.c, and ex13/word_count.c with its solution.   *)
(* A text is a sequence of characters; a histogram a function from the     *)
(* words it holds to their counts, which stands for GLib's hash table.     *)
(***************************************************************************)
\* g_strsplit and g_strsplit_set: the pieces between separators, empty ones too.
Pieces(text, seps) ==
    FoldLeft(LAMBDA ps, c : IF c \in seps THEN Append(ps, <<>>)
                            ELSE [ps EXCEPT ![Len(ps)] = Append(@, c)], <<(<<>>)>>, text)

\* Mutated form: the entry of a word found again starts over.
incr_Restart(hash, key) == [w \in DOMAIN hash \cup {key} |-> IF w = key THEN 1 ELSE hash[w]]

incr(hash, key) ==
    [w \in DOMAIN hash \cup {key} |->
        IF w # key THEN hash[w] ELSE IF w \in DOMAIN hash THEN hash[w] + 1 ELSE 1]

None == [w \in {} |-> 0]

\* ex08: the whole text at once, without the empty pieces.
histogram08(text) ==
    FoldLeft(LAMBDA h, w : IF w = <<>> THEN h ELSE incr(h, w), None, Pieces(text, Punctuation))

\* fgets: at most Size - 1 characters, and at most one line.
Chunks(text) ==
    SelectSeq(FoldLeft(LAMBDA cs, c :
                LET chunk == Append(cs[Len(cs)], c)
                    full == c = "\n" \/ Len(chunk) = Size - 1
                IN [cs EXCEPT ![Len(cs)] = chunk] \o (IF full THEN <<(<<>>)>> ELSE <<>>),
                <<(<<>>)>>, text),
              LAMBDA c : c # <<>>)

\* ex13: every piece of every chunk.
histogram13(text) ==
    FoldLeft(LAMBDA h, chunk : FoldLeft(incr, h, Pieces(chunk, {" "})), None, Chunks(text))

\* accumulator, enum_kvs: the pairs of the table, in the order it has them,
\* and sorted: by growing frequency in ex13, by falling frequency in ex08.
Pairs(hash) == SetToSeq({[word |-> w, freq |-> hash[w]] : w \in DOMAIN hash})
compare_pair(p1, p2) == p1.freq < p2.freq
com_pair(a, b) == b.freq < a.freq
output13(text) == SortSeq(Pairs(histogram13(text)), compare_pair)
output08(text) == SortSeq(Pairs(histogram08(text)), com_pair)

-----------------------------------------------------------------------------
\* The places where a word of the text stands: between two separators.
Words(text, seps) ==
    {p \in (1..Len(text)) \X (1..Len(text)) :
        /\ p[1] <= p[2]
        /\ \A k \in p[1]..p[2] : text[k] \notin seps
        /\ p[1] = 1 \/ text[p[1] - 1] \in seps
        /\ p[2] = Len(text) \/ text[p[2] + 1] \in seps}

CountIn(text, seps, w) ==
    Cardinality({p \in Words(text, seps) : SubSeq(text, p[1], p[2]) = w})

\* ex08 counts each word as often as it stands in the text, and no other.
CountsWords(text) ==
    LET h == histogram08(text) IN
    /\ \A p \in Words(text, Punctuation) : SubSeq(text, p[1], p[2]) \in DOMAIN h
    /\ \A w \in DOMAIN h : h[w] = CountIn(text, Punctuation, w)

\* ex13 counts the same words when no line fills the buffer, but the last word
\* of a line has the newline in it: both entries together are the word's count.
CountsLines(text) ==
    LET h == histogram13(text)
        n(w) == IF w \in DOMAIN h THEN h[w] ELSE 0
        lines == Pieces(text, {"\n"})
    IN (\A k \in 1..Len(lines) : Len(lines[k]) < Size - 1) =>
        \A p \in Words(text, {" ", "\n"}) :
            LET w == SubSeq(text, p[1], p[2])
            IN n(w) + n(Append(w, "\n")) = CountIn(text, {" ", "\n"}, w)

\* The output has every word once, by growing frequency in ex13 and by falling
\* frequency in ex08.
OutputOrdered(text) ==
    LET a == output13(text)
        d == output08(text)
    IN /\ \A k \in 1..(Len(a) - 1) : a[k].freq <= a[k + 1].freq
       /\ \A k \in 1..(Len(d) - 1) : d[k].freq >= d[k + 1].freq
       /\ Len(a) = Cardinality(DOMAIN histogram13(text))
       /\ Len(d) = Cardinality(DOMAIN histogram08(text))
====
