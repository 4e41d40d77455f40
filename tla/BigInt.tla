---- MODULE BigInt ----
(***************************************************************************)
(* exercises/ex02.5/bigint.c, with the functions its header asks for, and  *)
(* exercises/ex04/bigbadint.c, which is the same program with two errors.  *)
(* A BigInt is a string of digits, the lowest first; characters are their  *)
(* codes.                                                                  *)
(***************************************************************************)
EXTENDS Integers, Sequences, SequencesExt

CONSTANTS Room,       \* the 80 characters jsmalloc gives to every string
          Leftovers   \* what memory may hold up to the next 0: <<>> when it is 0

-----------------------------------------------------------------------------
(* The addition, the same in both programs but for the itoc it calls: conv *)
(* gives the character of each digit.                                      *)

Zero == 48
IsDigit(c) == c \in 48..57

\* assert(isdigit(c)) ends the program for another character.
ctoi(c) == c - Zero

add_digits_by(conv, a, b, c) ==
    LET sum == ctoi(a) + ctoi(b) + ctoi(c)
    IN [total |-> conv[sum % 10], carry |-> conv[sum \div 10]]

\* *x, or '0' behind the end, where the pointer stays.
DigitAt(x, k) == IF k <= Len(x) THEN x[k] ELSE Zero

\* No sum of two columns carries beyond this one.
Columns(x, y) == (IF Len(x) > Len(y) THEN Len(x) ELSE Len(y)) + 2

\* add_bigint after k calls: z so far, the carry into the next column, and how
\* it ended, "done" at the first column where total and carry are both '0'.
add_bigint_by(conv, x, y, carry_in) ==
    LET step[k \in 0..Columns(x, y)] ==
            IF k = 0 THEN [z |-> <<>>, carry |-> carry_in, end |-> "no"]
            ELSE LET s == step[k - 1]
                     d == add_digits_by(conv, DigitAt(x, k), DigitAt(y, k), s.carry)
                 IN IF s.end # "no" THEN s
                    ELSE IF ~ /\ IsDigit(DigitAt(x, k)) /\ IsDigit(DigitAt(y, k))
                              /\ IsDigit(s.carry)
                         THEN [s EXCEPT !.end = "aborted"]
                    ELSE IF d.total = Zero /\ d.carry = Zero THEN [s EXCEPT !.end = "done"]
                    ELSE [z |-> Append(s.z, d.total), carry |-> d.carry, end |-> "no"]
    IN step[Columns(x, y)]

\* print_bigint: the digits in the usual order.
print_bigint(big) == Reverse(big)

\* The number a string of digits stands for.
Value(big) == FoldRight(LAMBDA c, v : 10 * v + ctoi(c), big, 0)

-----------------------------------------------------------------------------
(* bigint.c. *)

nums == <<48, 49, 50, 51, 52, 53, 54, 55, 56, 57>>
itoc == [i \in 0..9 |-> nums[i + 1]]

\* Of a longer string the first Room - 1 characters.
reverse_string(s) ==
    LET i == IF Len(s) < Room - 1 THEN Len(s) ELSE Room - 1
    IN [k \in 1..i |-> s[i - k + 1]]

make_bigint(s) == reverse_string(s)

\* Mutated form: a column with a total of '0' ends the sum whatever it carries.
add_bigint_NoCarry(x, y, carry_in) ==
    LET r == add_bigint_by(itoc, x, y, carry_in)
        zeros == {k \in 1..Len(r.z) : r.z[k] = 48}
    IN IF zeros = {} THEN r
       ELSE [r EXCEPT !.z = SubSeq(@, 1, (CHOOSE k \in zeros : \A m \in zeros : k <= m) - 1)]

add_bigint(x, y, carry_in) == add_bigint_by(itoc, x, y, carry_in)

-----------------------------------------------------------------------------
\* Nothing is left to add from column k on: both digits are '0', and the
\* columns below carry nothing into it.
Below(x, k) == Value([m \in 1..(k - 1) |-> DigitAt(x, m)])
ZeroColumn(x, y, c, k) ==
    DigitAt(x, k) = 48 /\ DigitAt(y, k) = 48 /\ Below(x, k) + Below(y, k) + (c - 48) < 10^(k - 1)

\* "Adds two BigInts": z is the sum, for all numbers that have no digit behind a
\* column that adds up to nothing (there the addition stops too early), and the
\* recursion ends for all.
AddsTwoBigInts(x, y, c) ==
    LET r == add_bigint(x, y, c)
        hidden == \E k \in 1..Columns(x, y) : \E m \in (k + 1)..Columns(x, y) :
                    ZeroColumn(x, y, c, k) /\ ~(DigitAt(x, m) = 48 /\ DigitAt(y, m) = 48)
    IN /\ r.end = "done"
       /\ ~hidden => Value(r.z) = Value(x) + Value(y) + (c - 48)

\* make_bigint and print_bigint are inverse, for a string that fits.
RoundTrip(s) == Len(s) < Room => print_bigint(make_bigint(s)) = s

\* The four tests of main.
Ones(n, c) == [k \in 1..n |-> c]
TestsPass ==
    /\ reverse_string(<<49, 50, 51>>) = <<51, 50, 49>>
    /\ itoc[3] = 51
    /\ add_digits_by(itoc, 55, 52, 49) = [total |-> 50, carry |-> 49]
    /\ add_bigint(make_bigint(<<49>>), make_bigint(Ones(44, 57)), 48).z
        = Ones(44, 48) \o <<49>>

-----------------------------------------------------------------------------
(***************************************************************************)
(* exercises/ex04/bigbadint.c, which has two errors on purpose: itoc       *)
(* returns the integer itself, and reverse_string writes no terminator, so *)
(* its string goes on with what the memory held before.                    *)
(***************************************************************************)
bad_itoc == [i \in 0..9 |-> i]

\* The strings a call may return.  (Of an empty string, which no call has, the
\* character before it would be copied.)
bad_reverse_string(s) == {Reverse(s) \o rest : rest \in Leftovers}

bad_make_bigint(s) == bad_reverse_string(s)

bad_add_bigint(x, y, carry_in) == add_bigint_by(bad_itoc, x, y, carry_in)

test_reverse_string == <<51, 50, 49>> \in bad_reverse_string(<<49, 50, 51>>)
test_reverse_string_again == bad_reverse_string(<<49, 50, 51>>) = {<<51, 50, 49>>}
test_itoc == bad_itoc[3] = 51
test_add_digits == add_digits_by(bad_itoc, 55, 52, 49) = [total |-> 50, carry |-> 49]

-----------------------------------------------------------------------------
\* "You should see that reverse_string passes its test, but itoc and
\* add_digits don't", and that reverse_string is not correct even so.
DeliberateErrors ==
    /\ test_reverse_string /\ ~test_reverse_string_again
    /\ ~test_itoc /\ ~test_add_digits

\* With this itoc no sum is completed: the carry is no digit, and the second
\* column ends the program.
NeverAdds(x, y, c) == bad_add_bigint(x, y, c).end = "aborted" /\ Len(bad_add_bigint(x, y, c).z) = 1
====
