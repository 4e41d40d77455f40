---- MODULE SmallPrograms ----
(***************************************************************************)
(* Five small programs, as operators on their input: adder.c (ex02),       *)
(* cards.c (ex01), tree.c (ex10), rand.c and shapes_soln.c (ex05).         *)
(***************************************************************************)
EXTENDS Integers, Sequences, FiniteSets, SequencesExt, TLC

CONSTANTS Cells,       \* the 20 elements of adder.c's nums
          IntMax,      \* the greatest int
          Behind,      \* what the memory behind nums may hold
          Bits,        \* the 31 bits of random()
          Mant         \* the bits of a mantissa: 23 of a float, 52 of a double

-----------------------------------------------------------------------------
(***************************************************************************)
(* adder.c: numbers are read until the end of the input, an unusable line, *)
(* or the end of the array; then they are added up to the first that is    *)
(* not positive, which the -1 of the last call is meant to be.  The number *)
(* is a long long, and an int on its way into the array.                   *)
(***************************************************************************)
\* A line is a number that strtoll finds (0 when there is none), "long" when
\* it fills the 17 characters of the buffer, or "eof".
Line(x) == [kind |-> "number", num |-> x]
LongLine == [kind |-> "long"]
EndOfInput == [kind |-> "eof"]

Stops(line) == line.kind # "number" \/ line.num = 0

getInput(line) == IF Stops(line) THEN -1 ELSE line.num

\* running and error after a call.
Error(line) == CASE line.kind = "long" -> 1
                 [] line.kind = "number" /\ line.num = 0 -> 2
                 [] OTHER -> 0

\* int num = getInput(): the lower half of the long long.
ToInt(x) == ((x + IntMax + 1) % (2 * (IntMax + 1))) - (IntMax + 1)

\* How many lines are read: up to the first that stops, or Cells of them.
Taken(lines) ==
    LET stops == {k \in 1..Len(lines) : Stops(lines[k]) \/ k = Cells}
    IN CHOOSE k \in stops : \A m \in stops : k <= m

nums(lines) == [k \in 1..Taken(lines) |-> ToInt(getInput(lines[k]))]

\* addNums on the elements of a: stopped tells whether it ended among them.
addNums(a) ==
    FoldLeft(LAMBDA s, x : IF s.stopped \/ x <= 0 THEN [s EXCEPT !.stopped = TRUE]
                           ELSE [s EXCEPT !.sum = @ + x],
             [sum |-> 0, stopped |-> FALSE], a)

\* What main may print: a total, or which complaint.
main(lines) ==
    LET error == Error(lines[Taken(lines)])
        added == addNums(nums(lines))
    IN IF error # 0 THEN {[error |-> error, total |-> 0]}
       ELSE {[error |-> 0, total |-> t] :
                t \in IF added.stopped THEN {added.sum} ELSE {added.sum + x : x \in Behind}}

-----------------------------------------------------------------------------
\* "Type numbers to add.  Press return to add a new number, Ctrl-D to calculate
\* sum": of positive ints, fewer than the array has elements, the one total is
\* the sum.  Nothing is said of a full array, of which main announces that the
\* input ends there, nor of numbers that are negative or no ints.
TotalIsSum(lines) ==
    LET k == Taken(lines)
        given == [m \in 1..(k - 1) |-> lines[m].num]
        small == \A m \in 1..(k - 1) : given[m] \in 1..IntMax
    IN lines[k].kind = "eof" /\ small =>
            main(lines) = {[error |-> 0, total |-> FoldLeft(LAMBDA a, b : a + b, 0, given)]}

-----------------------------------------------------------------------------
(***************************************************************************)
(* cards.c: card names are read and their values added up, until the       *)
(* player interrupts.  The input is a sequence of lines, a line a sequence *)
(* of words, a word a sequence of characters.                              *)
(***************************************************************************)
Digits == <<"0", "1", "2", "3", "4", "5", "6", "7", "8", "9">>
DigitOf(c) == SelectInSeq(Digits, LAMBDA d : d = c) - 1

\* atoi: the number the string begins with, 0 when it begins with none.
atoi(s) ==
    LET end == SelectInSeq(s, LAMBDA c : DigitOf(c) = -1)
        digits == IF end = 0 THEN s ELSE SubSeq(s, 1, end - 1)
    IN FoldLeft(LAMBDA v, c : 10 * v + DigitOf(c), 0, digits)

\* scanf("%2s"): two characters of a word, blank lines skipped; the rest of the
\* line is thrown away.
get_card_name(line) == SubSeq(line[1], 1, IF Len(line[1]) < 2 THEN Len(line[1]) ELSE 2)

get_face_value(card_name) ==
    CASE card_name[1] \in {"K", "Q", "J", "k", "q", "j"} -> 10
      [] card_name[1] \in {"A", "a"} -> 11
      [] OTHER -> atoi(card_name)

update_score(val, total) == total + val

\* main: the total after all lines.
play(lines) ==
    FoldLeft(LAMBDA total, line : update_score(get_face_value(get_card_name(line)), total),
             0, SelectSeq(lines, LAMBDA l : l # <<>>))

-----------------------------------------------------------------------------
\* "Face cards => 10, Ace => 11, 1-10 => 1-10", whatever else is on the lines,
\* in any order of the cards.
Deck == (10 :> {<<"K">>, <<"Q">>, <<"j">>, <<"1", "0">>}) @@ (11 :> {<<"A">>}) @@ (7 :> {<<"7">>})
TotalCorrect(lines) ==
    LET played == SelectSeq(lines, LAMBDA l : l # <<>>)
        worth(l) == CHOOSE v \in DOMAIN Deck : \E c \in Deck[v] : IsPrefix(c, l[1])
    IN (\A k \in 1..Len(played) : \E v \in DOMAIN Deck : \E c \in Deck[v] : IsPrefix(c, played[k][1]))
        => play(lines) = FoldLeft(LAMBDA t, l : t + worth(l), 0, played)

-----------------------------------------------------------------------------
(***************************************************************************)
(* tree.c: a binary tree of nodes and one rotation.  A tree is <<>>, the   *)
(* NULL pointer, or <<left, data, right>>.                                 *)
(***************************************************************************)
newNode(data) == <<(<<>>), data, <<>>>>

\* The loop-free recursion over the two children.
RECURSIVE print_tree(_)
print_tree(root) ==
    IF root = <<>> THEN <<>>
    ELSE print_tree(root[1]) \o <<root[2]>> \o print_tree(root[3])

\* print2D: the right child first, each line with its depth.
RECURSIVE print2D(_, _)
print2D(root, space) ==
    IF root = <<>> THEN <<>>
    ELSE print2D(root[3], space + 1) \o <<(<<space, root[2]>>)>> \o print2D(root[1], space + 1)

\* The left child becomes the root; it must not be NULL.
rotate_right(root) ==
    LET pivot == root[1]
    IN <<pivot[1], pivot[2], <<pivot[3], root[2], root[3]>>>>

\* main's tree, before and after.
MainTree == <<(<<newNode(2), 3, newNode(4)>>), 5, newNode(7)>>

\* A rotation leaves the order of the nodes as it was, moves the left child to
\* the root and the nodes on the right one level down.
RotationKeepsOrder(root) ==
    LET after == rotate_right(root)
        Lines(t) == print2D(t, 0)
    IN /\ print_tree(after) = print_tree(root)
       /\ \E k \in 1..Len(Lines(after)) : Lines(after)[k] = <<0, root[1][2]>>
       /\ \A k \in 1..Len(Lines(root)) :
            k <= Len(print_tree(root[3])) => Lines(after)[k][1] = Lines(root)[k][1] + 1

-----------------------------------------------------------------------------
(***************************************************************************)
(* rand.c: floats in [0, 1) from random bits, with more of them the        *)
(* smaller they are.  A float is the pair of its exponent, as the number   *)
(* of halvings below 1 (1 is [1/2, 1)), and its mantissa.                  *)
(***************************************************************************)
BitsAssumption == Bits \in Nat /\ Mant \in 1..(Bits - 1)

Bit(x, k) == (x \div 2^k) % 2
FirstWhere(S) == CHOOSE k \in S : \A m \in S : k <= m

\* bsfl: the place of the first set bit; undefined for 0.
bsf(x) == FirstWhere({k \in 0..(Bits - 1) : Bit(x, k) = 1})

Float(halvings, mant) == [halvings |-> halvings, mant |-> mant]

my_random_float(x) == Float(1 + bsf(x), x \div 2^(Bits - Mant))

\* The second version draws again, Bits lower, for every 0, and then goes down
\* for every set bit, while there are any.
my_random_float2(zeros, x) ==
    Float(1 + Bits * zeros + FirstWhere({k \in 0..Bits : Bit(x, k) = 0}),
          x \div 2^(Bits - Mant))

\* The double: two draws in a long, the first Bits + 1 to the left of the
\* second; expo goes down from below 1 at every bit that is not set.
Wide == 2 * Bits + 1
my_random_double(first, second) ==
    LET x == first * 2^(Bits + 1) + second
        low == {k \in 0..(Wide - 1) : Bit(x, k) = 1}
        k == IF low = {} THEN Wide ELSE FirstWhere(low)
        mant == x \div 2^(Wide - Mant)
        up == IF mant = 0 /\ Bit(x, k + 1) = 1 THEN 1 ELSE 0
    IN Float(1 + k - up, mant)

Draws == 0..(2^Bits - 1)

-----------------------------------------------------------------------------
\* Half of the draws give a float in [1/2, 1), half of the others one in
\* [1/4, 1/2), and so on; among those of one size each mantissa that the bits
\* above leave free comes as often as any other.
Even(draws, f(_)) ==
    \A h \in 1..(Bits - Mant) :
        LET size == {x \in draws : f(x).halvings = h}
        IN /\ Cardinality(size) = 2^(Bits - h)
           /\ \A m \in 0..(2^Mant - 1) :
                Cardinality({x \in size : f(x).mant = m}) = 2^(Bits - h - Mant)

\* The version in assembly and the one without are both even, but for the 0
\* that the second draws again: it looks for the first bit that is not set, and
\* would use 0 like any other number.
FloatsEven ==
    /\ Even(Draws \ {0}, my_random_float)
    /\ Even(Draws, LAMBDA x : my_random_float2(0, x))

\* No draw is outside: only the double can be 1.  The bit of the long between
\* the two draws is never set: no double is halved exactly Bits times.
InRange(x) ==
    /\ x # 0 => my_random_float(x).halvings \in 1..Bits
    /\ my_random_float2(0, x).halvings \in 1..(Bits + 1)
    /\ \A y \in Draws :
        LET d == my_random_double(x, y)
        IN /\ d.halvings = 0 => d.mant = 0
           /\ d.halvings >= 0
           /\ d.halvings = Bits + 1 => d.mant = 0

-----------------------------------------------------------------------------
(***************************************************************************)
(* shapes_soln.c, its test, and lines.c: points and rectangles on the      *)
(* heap.  An object is freed once and not used after; a rectangle has a    *)
(* copy of its corner.  Coordinates are integers here.                     *)
(***************************************************************************)
\* The heap: objects in the order of their allocation, which of them are
\* freed, and whether a call used one that was.
Empty == [objects |-> <<>>, freed |-> {}, misused |-> FALSE]
Newest(h) == Len(h.objects)
New(h, object) == [h EXCEPT !.objects = Append(@, object)]
Use(h, p) == [h EXCEPT !.misused = @ \/ p \in h.freed]
free(h, p) == [Use(h, p) EXCEPT !.freed = @ \cup {p}]

make_point(h, x, y) == New(h, [x |-> x, y |-> y])

\* Mutated form: the rectangle shares its corner with the caller.
make_rectangle_Share(h, corner, width, height) ==
    New(h, [corner |-> corner, width |-> width, height |-> height])

\* The rectangle is the last object, the copy of its corner the one before.
make_rectangle(h, corner, width, height) ==
    LET c == h.objects[corner]
        copied == make_point(Use(h, corner), c.x, c.y)
    IN New(copied, [corner |-> Newest(copied), width |-> width, height |-> height])

buffer == [text |-> "formatted"]

\* The caller gets a buffer; the one for the corner's text is not freed.
point_to_string(h, p) == New(Use(h, p), buffer)
rectangle_to_string(h, r) == New(point_to_string(Use(h, r), h.objects[r].corner), buffer)

free_point(h, p) == free(h, p)
free_rectangle(h, r) == free(free_point(Use(h, r), h.objects[r].corner), r)

point_in_rect(h, p, rect) ==
    LET at == h.objects[p]
        r == h.objects[rect]
        c == h.objects[r.corner]
    IN ~(at.x < c.x \/ at.y < c.y \/ at.x > c.x + r.width \/ at.y > c.y + r.height)

upper_right_rect(h, rect) ==
    LET r == h.objects[rect]
        c == h.objects[r.corner]
    IN make_point(Use(h, rect), c.x + r.width, c.y + r.height)

equal_point(h, p, q) == h.objects[p] = h.objects[q]

\* test_rectangle and the rest of main, on any corner, size and second point:
\* <<heap, corner, rectangle, point>> before anything is freed.
Test(corner, width, height, other) ==
    LET a == make_point(Empty, corner[1], corner[2])
        b == make_rectangle(a, Newest(a), width, height)
        c == make_point(rectangle_to_string(b, Newest(b)), other[1], other[2])
    IN <<c, Newest(a), Newest(b), Newest(c)>>

\* The test frees the corner, the point and the rectangle, in this order.
Ending(t) == free_rectangle(free_point(free_point(t[1], t[2]), t[4]), t[3])

Buffers(h) == {p \in 1..Newest(h) : h.objects[p] = buffer}

\* "On the line is in": a point is in the rectangle iff it is one of the points
\* between the corners, lower left and upper right included.  Nothing is used
\* after it was freed or freed twice, and only the buffers stay allocated.
ShapesCorrect(corner, width, height, other) ==
    LET t == Test(corner, width, height, other)
        u == upper_right_rect(t[1], t[3])
        h == Ending(t)
    IN /\ point_in_rect(t[1], t[4], t[3])
            <=> \E i \in 0..width, j \in 0..height : other = <<corner[1] + i, corner[2] + j>>
       /\ point_in_rect(t[1], t[2], t[3])
       /\ point_in_rect(u, Newest(u), t[3])
       /\ equal_point(u, Newest(u), t[2]) <=> width = 0 /\ height = 0
       /\ ~h.misused /\ 1..Newest(h) = h.freed \cup Buffers(h)
====
