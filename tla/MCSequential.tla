---- MODULE MCSequential ----
(***************************************************************************)
(* The programs without processes, one at a time: the hash map and the     *)
(* lists of MCContainers, or a program without state, whose input grows,   *)
(* character by character, and for each input the results are compared     *)
(* with what they should be.                                               *)
(***************************************************************************)
EXTENDS MCContainers, SequencesExt

VARIABLES program,      \* "none" while the program is one of MCContainers
          input

BigLeftovers == {<<>>, <<200>>, <<49, 7>>}
Big == INSTANCE BigInt WITH Room <- 5, Leftovers <- BigLeftovers
Big80 == INSTANCE BigInt WITH Room <- 80, Leftovers <- BigLeftovers
Small == INSTANCE SmallPrograms WITH
    Cells <- 3, IntMax <- 7, Behind <- {0, 4}, Bits <- 6, Mant <- 3
Tools == INSTANCE TextTools WITH Size <- 5, Punctuation <- {" ", "-", "\n"}
Lib == INSTANCE StreamIO WITH MAXLINE <- 3
Trace == INSTANCE TroutUtil WITH Million <- 4

ASSUME Small!BitsAssumption

-----------------------------------------------------------------------------
\* What an input of each program is made of, and how long it gets.
Pairs3 == {"a", "b", " "}
Alphabet == [
    bigint |-> {48, 49, 57}, bigbadint |-> {48, 49, 57},
    adder |-> {Small!Line(x) : x \in {0, 1, 5, -2, 7, 8, 17}} \cup {Small!LongLine},
    cards |-> {<<>>, <<(<<"K">>)>>, <<(<<"A", "c", "e">>), <<"K">>>>, <<(<<"1", "0">>)>>,
               <<(<<"7", "x">>)>>, <<(<<"j">>)>>},
    endswith |-> {"a", "n"}, strsplit |-> Pairs3, strfilter |-> Pairs3,
    tee |-> {"a", "i", "aa", "ai", "name"},
    find_track |-> {"match", "nomatch", "error"},
    word_count |-> {"a", "b", " ", "-", "\n"},
    trout |-> {[is |-> "m", value |-> 1], [is |-> "m", value |-> 2], [is |-> "m", value |-> 9],
               [is |-> "x"], [is |-> "host", value |-> "h4"], [is |-> "host", value |-> "h6"],
               [is |-> "host", value |-> "nohost"]},
    report |-> {Trace!AF_INET("r1"), Trace!AF_INET("r2"), Trace!AF_UNIX("r1"), Trace!Timeout},
    rand |-> {0, 1}, tree |-> {0, 1}, shapes |-> 0..2]

Longest == [
    bigint |-> 4, bigbadint |-> 2, adder |-> 3, cards |-> 3, endswith |-> 5, strsplit |-> 5,
    strfilter |-> 5, tee |-> 4, find_track |-> 5, word_count |-> 5, trout |-> 4,
    report |-> 4, rand |-> 6, tree |-> 6,
    shapes |-> 6]

containers == <<which, mapvars, listvars>>

\* Beside a program without state stands a list program that does nothing:
\* every behaviour of AnySpec is one of MCSpec.
AnyInit ==
    /\ program \in DOMAIN Alphabet \cup {"none"} /\ input = <<>>
    /\ MCInit
    /\ program # "none" => which = "good_list.c"

Whole == Len(input) = Longest[program]

AnyNext ==
    \/ program = "none" /\ MCNext /\ UNCHANGED <<program, input>>
    \/ /\ program # "none" /\ Len(input) < Longest[program]
       /\ \E c \in Alphabet[program] : input' = Append(input, c)
       /\ UNCHANGED <<program, containers>>
    \/ program # "none" /\ Whole /\ UNCHANGED <<program, input, containers>>

AnySpec == AnyInit /\ [][AnyNext]_<<program, input, containers>>

Strings(S, len) == BoundedSeq(S, len)

\* A number whose bits are the input.
Number == FoldLeft(LAMBDA v, b : 2 * v + b, 0, input)

\* A tree of up to seven nodes: the input says which of six are there.
Tree ==
    LET leaf(k) == IF input[k] = 1 THEN Small!newNode(k) ELSE <<>>
        right == IF input[4] = 1 THEN <<leaf(5), 4, leaf(6)>> ELSE <<>>
    IN <<(<<leaf(2), input[1], leaf(3)>>), 7, right>>

-----------------------------------------------------------------------------
\* Numbers: the big integers, the adder and the card game give the sums, of the
\* inputs that the known faults leave alone, and the random floats are in
\* [0, 1) (or [0, 1]) and evenly spread.
NumbersCorrect ==
    CASE program = "bigint" ->
            /\ \A y \in Strings({48, 49, 57}, 3), c \in {48, 49} : Big!AddsTwoBigInts(input, y, c)
            /\ Big!RoundTrip(input) /\ Big80!TestsPass
      [] program = "bigbadint" ->
            /\ \A y \in Strings({48, 57}, 2), c \in {48, 49} : Big!NeverAdds(input, y, c)
            /\ Big!DeliberateErrors
      [] program = "adder" -> Small!TotalIsSum(Append(input, Small!EndOfInput))
      [] program = "cards" -> Small!TotalCorrect(input)
      [] program = "trout" ->
            /\ Trace!OptionsChecked(input, [h4 |-> "AF_INET", h6 |-> "AF_INET6"])
            /\ input = <<>> => /\ \A a, b \in (0..2) \X (0..3) : Trace!TimesCorrect(a, b)
                              /\ \A failing \in SUBSET ToSet(Trace!Calls) :
                                    Trace!NothingMissing(failing)
      [] program = "rand" -> /\ Whole => Small!InRange(Number)
                             /\ input = <<>> => Small!FloatsEven
      [] OTHER -> TRUE

\* Texts: suffixes, parts, filtered letters, saved lines, found tracks and
\* counted words are those of the input, and versions of one function agree
\* wherever they should.
TextsCorrect ==
    CASE program = "endswith" ->
            /\ \A t \in Strings({"a", "n"}, 3) : Tools!EndsWithCorrect(input, t)
            /\ Tools!TestsTell
      [] program = "strsplit" -> Tools!SplitsCorrect(input, " ")
      [] program = "strfilter" ->
            \A letters \in Strings({"a", "b"}, 2) : Tools!FiltersCorrect(input, letters)
      [] program = "tee" ->
            \A opens \in BOOLEAN : Tools!TeeCorrect(input, <<"old">>, opens, <<"l1", "l2">>)
      [] program = "report" -> Trace!NamesRight(input)
      [] program = "find_track" ->
            Whole => \A compiled \in BOOLEAN : Tools!VersionsAgree(compiled, input)
      [] program = "word_count" ->
            /\ Tools!CountsWords(input) /\ Tools!CountsLines(input)
            /\ Tools!OutputOrdered(input)
      [] OTHER -> TRUE

\* Objects: a rotation keeps the order of a tree, a point is in a rectangle iff
\* it is between its corners, and no object is used after it was freed, freed
\* twice or left over.
ObjectsCorrect ==
    CASE program = "trout" -> Lib!WrappersSound
      [] program = "tree" -> Whole => Small!RotationKeepsOrder(Tree)
      [] program = "shapes" ->
            Whole => Small!ShapesCorrect(<<input[1], input[2]>>, input[3], input[4],
                                            <<input[5], input[6]>>)
      [] OTHER -> TRUE
====
