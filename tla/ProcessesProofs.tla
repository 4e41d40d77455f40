---- MODULE ProcessesProofs ----
(***************************************************************************)
(* Proofs about the programs of MCProcesses and MCWeb: the times-table     *)
(* game, for any products and any number of answers and questions; the     *)
(* forking parents, for any number of children and of faults; the web      *)
(* servers, the advice server and their clients, for any number of         *)
(* clients, any texts, and any way the bytes of a connection are cut up.   *)
(*                                                                         *)
(* Several programs run the same module with other constants.  What is     *)
(* said of all of them is said of an instance with those constants as      *)
(* parameters.                                                             *)
(***************************************************************************)
EXTENDS MCProcesses, MCWeb, FiniteSetTheorems, FunctionTheorems, SequenceTheorems,
        WellFoundedInduction, TLAPS

G(sol, typed, rnds) == INSTANCE TimesTables WITH
    Solution <- sol, MaxTyped <- typed, MaxRounds <- rnds, pc <- game

-----------------------------------------------------------------------------
(***************************************************************************)
(* The game.  While the player types no 100 and goes on, what waits in     *)
(* stdin is what was typed and not yet taken, in order, so that the answer *)
(* to a question is the line with its number.                              *)
(***************************************************************************)

\* How many answers were taken: one of them is not checked yet at "check".
Taken == Len(asked) + (IF game = "check" THEN 1 ELSE 0)

\* What ScoreFair asks of the player.
Plays == (\A n \in 1..Len(lines) : lines[n] # 100) /\ ~eof

Hits == {n \in 1..Len(asked) : asked[n] = lines[n]}

PlayTypes ==
    /\ game \in {"ask", "alarm", "get", "check", "flag", "over"}
    /\ product \in Int /\ txt \in Int
    /\ stdin \in Seq(Int) /\ lines \in Seq(Int) /\ asked \in Seq(Int)
    /\ eof \in BOOLEAN
    /\ score \in Nat /\ late \in Nat

\* The questions answered so far and their score; and, unless the game is over,
\* what is left to be taken.
AnswerInv ==
    Plays =>
        /\ Len(asked) <= Len(lines)
        /\ score = Cardinality(Hits)
        /\ game # "over" =>
            /\ Len(lines) = Taken + Len(stdin)
            /\ \A k \in 1..Len(stdin) : stdin[k] = lines[Taken + k]
            /\ game = "check" => txt = lines[Taken]

\* An alarm is set when an answer is read and checked, or it went off.  Then the
\* first program is over; the solution's handler has left its flag, with which
\* the game is over after this answer.
LateInv(sol) ==
    /\ game \in {"get", "check"} => timer = "on" \/ (sol /\ end_flag)
    /\ ~sol => ~end_flag /\ late = 0 /\ game # "flag"
    /\ game \in {"ask", "alarm", "get", "check"} => late = 0
    /\ game = "flag" => late = 0 \/ (late = 1 /\ end_flag)
    /\ late <= 1

FinalInv == game = "over" => final = score

PlayInv(sol) == PlayTypes /\ AnswerInv /\ LateInv(sol) /\ FinalInv

-----------------------------------------------------------------------------
LEMMA HeadAndTail ==
    ASSUME NEW S, NEW s \in Seq(S), s # <<>>
    PROVE  /\ Head(s) = s[1] /\ Head(s) \in S
           /\ Tail(s) \in Seq(S) /\ Len(s) >= 1 /\ Len(Tail(s)) = Len(s) - 1
           /\ \A k \in 1..Len(Tail(s)) : Tail(s)[k] = s[k + 1]
OBVIOUS

LEMMA HitsFinite ==
    ASSUME PlayTypes
    PROVE  IsFiniteSet(Hits) /\ Cardinality(Hits) \in Nat
<1>1. IsFiniteSet(1..Len(asked)) /\ Hits \subseteq 1..Len(asked)
  BY FS_Interval DEF PlayTypes, Hits
<1> QED  BY <1>1, FS_Subset, FS_CardinalityType

\* A step that leaves the answers alone, and takes none.
LEMMA PlayQuiet ==
    ASSUME AnswerInv, UNCHANGED <<asked, lines, stdin, eof, score>>,
           \/ game' = "over"
           \/ game # "over" /\ game # "check" /\ game' # "check"
           \/ game' = game /\ txt' = txt
    PROVE  AnswerInv'
<1>1. Hits' = Hits /\ (Plays' <=> Plays)
  BY DEF Hits, Plays
<1> QED  BY <1>1 DEF AnswerInv, Taken

LEMMA AskInv ==
    ASSUME NEW sol \in BOOLEAN, NEW ty, NEW ro, PlayInv(sol), Products \subseteq Int,
           G(sol, ty, ro)!Ask
    PROVE  PlayInv(sol)'
<1>1. /\ game = "ask" /\ game' = "alarm" /\ product' \in Int
      /\ UNCHANGED <<txt, stdin, eof, lines, timer, end_flag, score, final, asked, late>>
  BY DEF G!Ask, G!inputs, G!ghosts
<1>2. AnswerInv'
  BY <1>1, PlayQuiet DEF PlayInv
<1> QED  BY <1>1, <1>2 DEF PlayInv, PlayTypes, LateInv, FinalInv

LEMMA SetAlarmInv ==
    ASSUME NEW sol \in BOOLEAN, NEW ty, NEW ro, PlayInv(sol), G(sol, ty, ro)!SetAlarm
    PROVE  PlayInv(sol)'
<1>1. /\ game = "alarm" /\ game' = "get" /\ timer' = "on"
      /\ UNCHANGED <<product, txt, stdin, eof, lines, end_flag, score, final, asked, late>>
  BY DEF G!SetAlarm, G!inputs, G!ghosts
<1>2. AnswerInv'
  BY <1>1, PlayQuiet DEF PlayInv
<1> QED  BY <1>1, <1>2 DEF PlayInv, PlayTypes, LateInv, FinalInv

\* The answer that is taken is the next line.
LEMMA GetInv ==
    ASSUME NEW sol \in BOOLEAN, NEW ty, NEW ro, PlayInv(sol), G(sol, ty, ro)!Get
    PROVE  PlayInv(sol)'
<1>1. /\ game = "get" /\ game' = "check"
      /\ UNCHANGED <<product, eof, lines, timer, end_flag, score, final, asked, late>>
      /\ IF stdin # <<>> THEN txt' = Head(stdin) /\ stdin' = Tail(stdin)
         ELSE eof /\ UNCHANGED <<txt, stdin>>
  BY DEF G!Get, G!ghosts
<1>2. stdin \in Seq(Int) /\ asked \in Seq(Int) /\ lines \in Seq(Int) /\ txt \in Int
  BY DEF PlayInv, PlayTypes
<1>3. PlayTypes'
  <2>1. CASE stdin # <<>>
    <3>1. txt' \in Int /\ stdin' \in Seq(Int)
      BY <1>1, <1>2, <2>1, HeadAndTail
    <3> QED  BY <1>1, <3>1 DEF PlayInv, PlayTypes
  <2>2. CASE stdin = <<>>
    BY <1>1, <1>2, <2>2 DEF PlayInv, PlayTypes
  <2> QED  BY <2>1, <2>2
<1>4. AnswerInv'
  <2> SUFFICES ASSUME Plays' PROVE Len(asked') <= Len(lines') /\ score' = Cardinality(Hits')
                  /\ Len(lines') = Taken' + Len(stdin')
                  /\ (\A k \in 1..Len(stdin') : stdin'[k] = lines'[Taken' + k])
                  /\ txt' = lines'[Taken']
    BY DEF AnswerInv
  <2>1. Plays /\ ~eof /\ Hits' = Hits
    BY <1>1 DEF Plays, Hits
  <2>2. /\ Len(asked) <= Len(lines) /\ score = Cardinality(Hits)
        /\ Len(lines) = Len(asked) + Len(stdin)
        /\ \A k \in 1..Len(stdin) : stdin[k] = lines[Len(asked) + k]
    BY <1>1, <1>2, <2>1 DEF PlayInv, AnswerInv, Taken
  <2>3. /\ stdin # <<>> /\ txt' = stdin[1] /\ Len(stdin') = Len(stdin) - 1
        /\ \A k \in 1..Len(stdin') : stdin'[k] = stdin[k + 1]
    <3>1. stdin # <<>> /\ txt' = Head(stdin) /\ stdin' = Tail(stdin)
      BY <1>1, <2>1
    <3>2. /\ Head(stdin) = stdin[1] /\ Len(Tail(stdin)) = Len(stdin) - 1
          /\ \A k \in 1..Len(Tail(stdin)) : Tail(stdin)[k] = stdin[k + 1]
      BY <1>2, <3>1, HeadAndTail
    <3> QED  BY <3>1, <3>2
  <2>4. Taken' = Len(asked) + 1
    BY <1>1 DEF Taken
  <2>5. Len(stdin) \in Nat /\ Len(stdin) >= 1 /\ Len(asked) \in Nat
    BY <1>2, <2>3
  <2>6. \A k \in 1..Len(stdin') : stdin'[k] = lines[Len(asked) + 1 + k]
    <3> TAKE k \in 1..Len(stdin')
    <3>1. k + 1 \in 1..Len(stdin) /\ Len(asked) + (k + 1) = Len(asked) + 1 + k
      BY <2>3, <2>5
    <3> QED  BY <2>2, <2>3, <3>1
  <2>7. txt' = lines[Len(asked) + 1]
    BY <2>2, <2>3, <2>5
  <2> QED  BY <1>1, <2>1, <2>2, <2>3, <2>4, <2>5, <2>6, <2>7
<1>5. LateInv(sol)' /\ FinalInv'
  BY <1>1 DEF PlayInv, LateInv, FinalInv
<1> QED  BY <1>3, <1>4, <1>5 DEF PlayInv

\* The answer is right exactly when the question's line is its product.
LEMMA CheckInv ==
    ASSUME NEW sol \in BOOLEAN, NEW ty, NEW ro, PlayInv(sol), G(sol, ty, ro)!Check
    PROVE  PlayInv(sol)'
<1>1. /\ game = "check" /\ game' = IF sol THEN "flag" ELSE "ask"
      /\ score' = IF txt = product THEN score + 1 ELSE score
      /\ asked' = Append(asked, product)
      /\ late' = IF timer = "off" \/ end_flag THEN late + 1 ELSE late
      /\ UNCHANGED <<product, txt, stdin, eof, lines, timer, end_flag, final>>
  BY DEF G!Check, G!inputs
<1>2. /\ stdin \in Seq(Int) /\ asked \in Seq(Int) /\ lines \in Seq(Int)
      /\ product \in Int /\ txt \in Int /\ score \in Nat /\ late \in Nat
  BY DEF PlayInv, PlayTypes
<1>3. /\ asked' \in Seq(Int) /\ Len(asked') = Len(asked) + 1 /\ Len(asked) \in Nat
      /\ \A k \in 1..Len(asked) : asked'[k] = asked[k]
      /\ asked'[Len(asked) + 1] = product
  BY <1>1, <1>2
<1>4. PlayTypes'
  BY <1>1, <1>2, <1>3 DEF PlayInv, PlayTypes
<1>5. AnswerInv'
  <2> SUFFICES ASSUME Plays'
               PROVE  /\ Len(asked') <= Len(lines') /\ score' = Cardinality(Hits')
                      /\ Len(lines') = Taken' + Len(stdin')
                      /\ \A k \in 1..Len(stdin') : stdin'[k] = lines'[Taken' + k]
    BY <1>1 DEF AnswerInv
  <2>1. /\ Plays /\ Taken = Len(asked) + 1 /\ Taken' = Len(asked) + 1
    BY <1>1, <1>3 DEF Plays, Taken
  <2>2. /\ score = Cardinality(Hits) /\ Len(lines) = Len(asked) + 1 + Len(stdin)
        /\ \A k \in 1..Len(stdin) : stdin[k] = lines[Len(asked) + 1 + k]
        /\ txt = lines[Len(asked) + 1]
    BY <1>1, <2>1 DEF PlayInv, AnswerInv
  <2>3. score' = Cardinality(Hits')
    <3>1. CASE txt = product
      <4>1. \A n : n \in Hits' <=> n \in Hits \/ n = Len(asked) + 1
        <5>1. Hits' = {n \in 1..(Len(asked) + 1) : asked'[n] = lines[n]}
          BY <1>1, <1>3 DEF Hits
        <5>2. asked'[Len(asked) + 1] = lines[Len(asked) + 1]
          BY <1>3, <2>2, <3>1
        <5> QED  BY <1>3, <5>1, <5>2 DEF Hits
      <4>2. Hits' = Hits \cup {Len(asked) + 1} /\ Len(asked) + 1 \notin Hits
        BY <1>3, <4>1 DEF Hits
      <4> QED  BY <1>1, <2>2, <3>1, <4>2, HitsFinite, FS_AddElement DEF PlayInv
    <3>2. CASE txt # product
      <4>1. Hits' = Hits
        BY <1>1, <1>3, <2>2, <3>2 DEF Hits
      <4> QED  BY <1>1, <2>2, <3>2, <4>1
    <3> QED  BY <3>1, <3>2
  <2> QED  BY <1>1, <1>2, <1>3, <2>1, <2>2, <2>3
<1>6. LateInv(sol)' /\ FinalInv'
  BY <1>1, <1>2 DEF PlayInv, LateInv, FinalInv
<1> QED  BY <1>4, <1>5, <1>6 DEF PlayInv

LEMMA CheckFlagInv ==
    ASSUME NEW sol \in BOOLEAN, NEW ty, NEW ro, PlayInv(sol), G(sol, ty, ro)!CheckFlag
    PROVE  PlayInv(sol)'
<1>1. /\ game = "flag"
      /\ IF end_flag THEN game' = "over" /\ final' = score ELSE game' = "ask" /\ UNCHANGED final
      /\ UNCHANGED <<product, txt, stdin, eof, lines, timer, end_flag, score, asked, late>>
  BY DEF G!CheckFlag, G!inputs, G!ghosts
<1>2. AnswerInv'
  BY <1>1, PlayQuiet DEF PlayInv
<1> QED  BY <1>1, <1>2 DEF PlayInv, PlayTypes, LateInv, FinalInv

\* The alarm and the interrupt come at any point.
LEMMA SignalInv ==
    ASSUME NEW sol \in BOOLEAN, NEW ty, NEW ro, PlayInv(sol),
           G(sol, ty, ro)!Alarm \/ G(sol, ty, ro)!Interrupt
    PROVE  PlayInv(sol)'
<1>1. /\ UNCHANGED <<product, txt, stdin, eof, lines, score, asked, late>>
      /\ \/ game' = "over" /\ final' = score /\ end_flag' = end_flag
         \/ /\ sol /\ timer' = "off" /\ end_flag' = TRUE
            /\ game' = game /\ final' = final
  BY DEF G!Alarm, G!Interrupt, G!end_game, G!inputs, G!ghosts
<1>2. AnswerInv'
  BY <1>1, PlayQuiet DEF PlayInv
<1> QED  BY <1>1, <1>2 DEF PlayInv, PlayTypes, LateInv, FinalInv

\* What is typed is the last thing to be taken.
LEMMA TypeInv ==
    ASSUME NEW sol \in BOOLEAN, NEW ty, NEW ro, PlayInv(sol), Products \subseteq Int,
           G(sol, ty, ro)!Type
    PROVE  PlayInv(sol)'
<1>1. /\ game # "over" /\ ~eof
      /\ UNCHANGED <<game, product, txt, timer, end_flag, score, final, asked, late>>
  BY DEF G!Type, G!ghosts
<1>2. PICK p \in Int :
        \/ /\ stdin' = stdin \o G(sol, ty, ro)!Pieces(p)
           /\ lines' = Append(lines, p) /\ eof' = eof
        \/ eof' = TRUE /\ UNCHANGED <<stdin, lines>>
  BY DEF G!Type
<1>3. /\ stdin \in Seq(Int) /\ asked \in Seq(Int) /\ lines \in Seq(Int)
      /\ Len(stdin) \in Nat /\ Len(asked) \in Nat /\ Len(lines) \in Nat
  BY DEF PlayInv, PlayTypes
<1>4. LateInv(sol)' /\ FinalInv'
  BY <1>1 DEF PlayInv, LateInv, FinalInv
<1>5. CASE eof' = TRUE /\ UNCHANGED <<stdin, lines>>
  <2>1. PlayTypes' /\ AnswerInv'
    BY <1>1, <1>5 DEF PlayInv, PlayTypes, AnswerInv, Plays
  <2> QED  BY <1>4, <2>1 DEF PlayInv
<1>6. CASE /\ stdin' = stdin \o G(sol, ty, ro)!Pieces(p)
           /\ lines' = Append(lines, p) /\ eof' = eof
  <2>1. /\ lines' \in Seq(Int) /\ Len(lines') = Len(lines) + 1
        /\ \A k \in 1..Len(lines) : lines'[k] = lines[k]
        /\ lines'[Len(lines) + 1] = p
    BY <1>3, <1>6
  <2>2. stdin' \in Seq(Int)
    <3>1. G(sol, ty, ro)!Pieces(p) \in Seq(Int)
      BY DEF G!Pieces
    <3> QED  BY <1>3, <1>6, <3>1
  <2>3. PlayTypes'
    BY <1>1, <1>6, <2>1, <2>2 DEF PlayInv, PlayTypes
  <2>4. AnswerInv'
    <3> SUFFICES ASSUME Plays'
                 PROVE  /\ Len(asked') <= Len(lines') /\ score' = Cardinality(Hits')
                        /\ Len(lines') = Taken' + Len(stdin')
                        /\ \A k \in 1..Len(stdin') : stdin'[k] = lines'[Taken' + k]
                        /\ game' = "check" => txt' = lines'[Taken']
      BY DEF AnswerInv
    <3>1. Plays /\ p # 100
      BY <1>3, <1>6, <2>1 DEF Plays
    <3>2. stdin' = Append(stdin, p)
      BY <1>3, <1>6, <3>1 DEF G!Pieces
    <3>3. /\ Len(stdin') = Len(stdin) + 1 /\ stdin'[Len(stdin) + 1] = p
          /\ \A k \in 1..Len(stdin) : stdin'[k] = stdin[k]
      BY <1>3, <3>2
    <3>4. /\ Len(asked) <= Len(lines) /\ score = Cardinality(Hits)
          /\ Len(lines) = Taken + Len(stdin)
          /\ \A k \in 1..Len(stdin) : stdin[k] = lines[Taken + k]
          /\ game = "check" => txt = lines[Taken]
      BY <1>1, <3>1 DEF PlayInv, AnswerInv
    <3>5. Taken' = Taken /\ Taken \in Nat /\ (game = "check" => Taken \in 1..Len(lines))
      BY <1>1, <1>3, <3>4 DEF Taken
    <3>6. Hits' = Hits
      BY <1>1, <1>3, <2>1, <3>4 DEF Hits
    <3>7. \A k \in 1..Len(stdin') : stdin'[k] = lines'[Taken + k]
      <4> TAKE k \in 1..Len(stdin')
      <4>1. CASE k \in 1..Len(stdin)
        <5>1. Taken + k \in 1..Len(lines)
          BY <1>3, <3>4, <3>5, <4>1
        <5> QED  BY <2>1, <3>3, <3>4, <4>1, <5>1
      <4>2. CASE k = Len(stdin) + 1
        <5>1. stdin'[k] = p
          BY <3>3, <4>2
        <5>2. Taken + k = Len(lines) + 1
          BY <1>3, <3>4, <3>5, <4>2
        <5>3. lines'[Len(lines) + 1] = p
          BY <2>1
        <5> QED  BY <5>1, <5>2, <5>3
      <4> QED  BY <1>3, <3>3, <4>1, <4>2
    <3> QED  BY <1>1, <1>3, <2>1, <3>3, <3>4, <3>5, <3>6, <3>7
  <2> QED  BY <1>4, <2>3, <2>4 DEF PlayInv
<1> QED  BY <1>2, <1>5, <1>6

LEMMA PlayStep ==
    ASSUME NEW sol \in BOOLEAN, NEW ty, NEW ro, PlayInv(sol), Products \subseteq Int,
           G(sol, ty, ro)!Next
    PROVE  PlayInv(sol)'
<1> QED  BY AskInv, SetAlarmInv, GetInv, CheckInv, CheckFlagInv, SignalInv, TypeInv
         DEF G!Next, G!Game

LEMMA PlayStart ==
    ASSUME NEW sol \in BOOLEAN, NEW ty, NEW ro, G(sol, ty, ro)!Init
    PROVE  PlayInv(sol)
<1>1. /\ game = "ask" /\ product = 0 /\ txt \in {0, 1}
      /\ stdin = <<>> /\ eof = FALSE /\ lines = <<>> /\ asked = <<>>
      /\ timer = "off" /\ end_flag = FALSE /\ score = 0 /\ late = 0
  BY DEF G!Init
<1>2. PlayTypes
  <2>1. <<>> \in Seq(Int)
    OBVIOUS
  <2>2. stdin \in Seq(Int) /\ lines \in Seq(Int) /\ asked \in Seq(Int)
    BY Zenon, <1>1, <2>1
  <2>3. product \in Int /\ txt \in Int /\ score \in Nat /\ late \in Nat
    BY <1>1
  <2> QED  BY Zenon, <1>1, <2>2, <2>3 DEF PlayTypes
<1>3. LateInv(sol) /\ FinalInv
  BY <1>1 DEF LateInv, FinalInv
<1>4. Hits = {} /\ Taken = 0
  BY <1>1 DEF Hits, Taken
<1>5. AnswerInv
  BY <1>1, <1>4, FS_EmptySet DEF AnswerInv
<1> QED  BY <1>2, <1>3, <1>5 DEF PlayInv

LEMMA PlaySame ==
    /\ Example!Init => G(FALSE, ExampleTyped, ExampleRounds)!Init
    /\ Example!Next => G(FALSE, ExampleTyped, ExampleRounds)!Next
    /\ Soln!Init => G(TRUE, SolutionTyped, SolutionRounds)!Init
    /\ Soln!Next => G(TRUE, SolutionTyped, SolutionRounds)!Next
<1>1. /\ Example!Init => G(FALSE, ExampleTyped, ExampleRounds)!Init
      /\ Soln!Init => G(TRUE, SolutionTyped, SolutionRounds)!Init
  BY Zenon DEF Example!Init, Soln!Init, G!Init
<1>2. Example!Next => G(FALSE, ExampleTyped, ExampleRounds)!Next
  BY Zenon DEF Example!Next, Example!Game, Example!Ask, Example!SetAlarm, Example!Get,
     Example!Check, Example!CheckFlag, Example!Alarm, Example!Interrupt, Example!Type,
     Example!end_game, Example!Pieces, Example!inputs, Example!ghosts,
     G!Next, G!Game, G!Ask, G!SetAlarm, G!Get, G!Check, G!CheckFlag, G!Alarm, G!Interrupt,
     G!Type, G!end_game, G!Pieces, G!inputs, G!ghosts
<1>3. Soln!Next => G(TRUE, SolutionTyped, SolutionRounds)!Next
  BY Zenon DEF Soln!Next, Soln!Game, Soln!Ask, Soln!SetAlarm, Soln!Get,
     Soln!Check, Soln!CheckFlag, Soln!Alarm, Soln!Interrupt, Soln!Type,
     Soln!end_game, Soln!Pieces, Soln!inputs, Soln!ghosts,
     G!Next, G!Game, G!Ask, G!SetAlarm, G!Get, G!Check, G!CheckFlag, G!Alarm, G!Interrupt,
     G!Type, G!end_game, G!Pieces, G!inputs, G!ghosts
<1> QED  BY <1>1, <1>2, <1>3

LEMMA PlayMeans ==
    /\ PlayInv(FALSE) => Example!ScoreFair /\ Example!NothingLate /\ Example!FinalIsScore
    /\ PlayInv(TRUE) => Soln!ScoreFair /\ Soln!NothingLate /\ Soln!FinalIsScore
<1>1. ASSUME NEW S
      PROVE  Example!Cardinality(S) = Cardinality(S) /\ Soln!Cardinality(S) = Cardinality(S)
  BY Zenon DEF Example!Cardinality, Soln!Cardinality, Cardinality
<1>2. AnswerInv => Example!ScoreFair /\ Soln!ScoreFair
  <2> DEFINE H == {n \in 1..Len(asked) : asked[n] = lines[n]}
  <2>1. Example!Cardinality(H) = Cardinality(H) /\ Soln!Cardinality(H) = Cardinality(H)
    BY <1>1
  <2> QED  BY <2>1 DEF AnswerInv, Plays, Hits, Example!ScoreFair, Soln!ScoreFair
<1>3. PlayInv(FALSE) => Example!NothingLate /\ Example!FinalIsScore
  BY DEF PlayInv, PlayTypes, LateInv, FinalInv, Example!NothingLate, Example!FinalIsScore
<1>4. PlayInv(TRUE) => Soln!NothingLate /\ Soln!FinalIsScore
  BY DEF PlayInv, PlayTypes, LateInv, FinalInv, Soln!NothingLate, Soln!FinalIsScore
<1> QED  BY <1>2, <1>3, <1>4 DEF PlayInv

\* What holds in the behaviours that play the game.
GameInv ==
    /\ which = "example" => PlayInv(FALSE)
    /\ which = "solution" => PlayInv(TRUE)

LEMMA GameStart == Init => GameInv
<1> SUFFICES ASSUME Init PROVE GameInv
    OBVIOUS
<1>1. which = "example" => Example!Init
  BY DEF Init
<1>2. which = "solution" => Soln!Init
  BY DEF Init
<1> QED  BY <1>1, <1>2, PlaySame, PlayStart DEF GameInv

LEMMA GameStep == GameInv /\ [Next]_vars => GameInv'
<1> SUFFICES ASSUME GameInv, [Next]_vars PROVE GameInv'
    OBVIOUS
<1>1. which' = which /\ Products \subseteq Int
  BY ProcessesAssumption DEF Next, Of, vars
<1>2. CASE which = "example"
  <2>1. CASE Example!Next
    BY <1>1, <1>2, <2>1, PlaySame, PlayStep DEF GameInv
  <2>2. CASE UNCHANGED vars
    BY <1>1, <1>2, <2>2 DEF GameInv, PlayInv, PlayTypes, AnswerInv, LateInv, FinalInv, Plays, Hits,
       Taken, vars, gamevars
  <2> QED  BY <1>2, <2>1, <2>2 DEF Next, Of
<1>3. CASE which = "solution"
  <2>1. CASE Soln!Next
    BY <1>1, <1>3, <2>1, PlaySame, PlayStep DEF GameInv
  <2>2. CASE UNCHANGED vars
    BY <1>1, <1>3, <2>2 DEF GameInv, PlayInv, PlayTypes, AnswerInv, LateInv, FinalInv, Plays, Hits,
       Taken, vars, gamevars
  <2> QED  BY <1>3, <2>1, <2>2 DEF Next, Of
<1> QED  BY <1>1, <1>2, <1>3 DEF GameInv

\* The score is the number of questions whose answer was the player's line to
\* it, no answer counts after the time is up (one in the solution), and the
\* score shown at the end is the last one, for any answers, and the alarm and
\* the interrupt at any point.
THEOREM GameCorrect == Spec => []GameRight
<1>1. GameInv => GameRight
  BY PlayMeans DEF GameInv, GameRight
<1> QED  BY <1>1, GameStart, GameStep, PTL DEF Spec

-----------------------------------------------------------------------------
(***************************************************************************)
(* The forking parents.  What was printed is counted: the parent's line    *)
(* about each child that it makes, which a child's copy of the buffer may  *)
(* repeat, and the line about each child that it has waited for.           *)
(***************************************************************************)
P(prog, term, max) == INSTANCE ForkWait WITH
    Program <- prog, Terminal <- term, MaxFaults <- max

Kids == 1..Children
All == {0} \cup Kids

Creation(k) == <<"Creating", k>>
Report(c, x) == <<"Status", c, x>>
ChildLine(c) == <<"Child", c, "Global", "unset">>
ParentLine == <<"Parent", "parent_waz_here", "Parent_heap">>

\* What may be printed: of the children's memory, only what it was at the fork.
Texts ==
    {Creation(k) : k \in Nat} \cup {Report(c, x) : c \in Kids, x \in Int}
        \cup {ChildLine(c) : c \in Kids} \cup {ParentLine}

Count(s, x) == Cardinality({k \in 1..Len(s) : s[k] = x})

-----------------------------------------------------------------------------
LEMMA CreationText == \A k \in Nat : Creation(k) \in Texts
BY DEF Texts

LEMMA ReportText == \A c \in Kids, x \in Int : Report(c, x) \in Texts
BY DEF Texts

LEMMA ChildText == \A c \in Kids : ChildLine(c) \in Texts
BY DEF Texts

LEMMA ParentText == ParentLine \in Texts
BY DEF Texts

LEMMA CreationsDiffer ==
    /\ \A j, k : Creation(j) = Creation(k) => j = k
    /\ \A k, c, x : Creation(k) # Report(c, x)
    /\ \A k, c : Creation(k) # ChildLine(c)
    /\ \A k : Creation(k) # ParentLine
<1>1. /\ \A k : Creation(k)[1] = "Creating" /\ Creation(k)[2] = k
      /\ \A c, x : Report(c, x)[1] = "Status"
      /\ \A c : ChildLine(c)[1] = "Child"
      /\ ParentLine[1] = "Parent"
  BY DEF Creation, Report, ChildLine, ParentLine
<1> QED  BY <1>1

LEMMA LinesDiffer ==
    /\ \A c, d : ChildLine(c) = ChildLine(d) => c = d
    /\ \A c, k : Creation(k) # ChildLine(c)
    /\ \A c, d, x : Report(d, x) # ChildLine(c)
    /\ \A c : ParentLine # ChildLine(c)
<1>1. /\ \A c : ChildLine(c)[1] = "Child" /\ ChildLine(c)[2] = c
      /\ \A k : Creation(k)[1] = "Creating"
      /\ \A c, x : Report(c, x)[1] = "Status"
      /\ ParentLine[1] = "Parent"
  BY DEF Creation, Report, ChildLine, ParentLine
<1> QED  BY <1>1

LEMMA ReportsDiffer ==
    /\ \A c, x, d, y : Report(c, x) = Report(d, y) => c = d /\ x = y
    /\ \A c, x, k : Creation(k) # Report(c, x)
    /\ \A c, x, d : ChildLine(d) # Report(c, x)
    /\ \A c, x : ParentLine # Report(c, x)
<1>1. /\ \A c, x : Report(c, x)[1] = "Status" /\ Report(c, x)[2] = c /\ Report(c, x)[3] = x
      /\ \A k : Creation(k)[1] = "Creating"
      /\ \A c : ChildLine(c)[1] = "Child"
      /\ ParentLine[1] = "Parent"
  BY DEF Creation, Report, ChildLine, ParentLine
<1> QED  BY <1>1

-----------------------------------------------------------------------------
LEMMA CountType ==
    ASSUME NEW S, NEW s \in Seq(S), NEW x
    PROVE  Count(s, x) \in Nat /\ IsFiniteSet({k \in 1..Len(s) : s[k] = x})
<1>1. IsFiniteSet(1..Len(s))
  BY FS_Interval
<1>2. IsFiniteSet({k \in 1..Len(s) : s[k] = x})
  BY <1>1, FS_Subset
<1> QED  BY <1>2, FS_CardinalityType DEF Count

LEMMA CountEmpty == \A x : Count(<<>>, x) = 0
<1> SUFFICES ASSUME NEW x PROVE Count(<<>>, x) = 0
    OBVIOUS
<1>1. {k \in 1..Len(<<>>) : <<>>[k] = x} = {}
  OBVIOUS
<1> QED  BY <1>1, FS_EmptySet DEF Count

LEMMA CountAppend ==
    ASSUME NEW S, NEW s \in Seq(S), NEW y \in S, NEW x
    PROVE  Count(Append(s, y), x) = Count(s, x) + (IF y = x THEN 1 ELSE 0)
<1> DEFINE n == Len(s) + 1
           r == Append(s, y)
           A == {k \in 1..Len(s) : s[k] = x}
           B == {k \in 1..Len(r) : r[k] = x}
<1>1. n \in Nat /\ Len(r) = n /\ r[n] = y /\ (\A k \in 1..Len(s) : r[k] = s[k]) /\ Len(s) \in Nat
  OBVIOUS
<1>2. IsFiniteSet(A) /\ Cardinality(A) \in Nat
  BY CountType DEF Count
<1> HIDE DEF r
<1>3. CASE y = x
  <2>1. \A k : k \in B <=> k \in A \/ k = n
    BY <1>1, <1>3
  <2> HIDE DEF A, B, n
  <2>2. B = A \cup {n}
    BY <2>1
  <2>3. n \notin A
    BY <1>1 DEF A, n
  <2>4. Cardinality(B) = Cardinality(A) + 1
    BY <1>2, <2>2, <2>3, FS_AddElement
  <2> QED  BY <1>3, <2>4 DEF Count, A, B, r
<1>4. CASE y # x
  <2>1. \A k : k \in B <=> k \in A
    BY <1>1, <1>4
  <2> HIDE DEF A, B, n
  <2>2. B = A
    BY <2>1
  <2>3. Count(s, x) = Cardinality(A) /\ Count(Append(s, y), x) = Cardinality(B)
    BY DEF Count, A, B, r
  <2> HIDE DEF r
  <2> QED  BY <1>2, <1>4, <2>2, <2>3
<1> QED  BY <1>3, <1>4

LEMMA CountConcat ==
    ASSUME NEW S, NEW s \in Seq(S), NEW u \in Seq(S), NEW x
    PROVE  Count(s \o u, x) = Count(s, x) + Count(u, x)
<1> DEFINE n == Len(s)
           r == s \o u
           A == {k \in 1..Len(s) : s[k] = x}
           C == {k \in 1..Len(u) : u[k] = x}
           B == {k \in 1..Len(r) : r[k] = x}
           D == {k \in (n + 1)..(n + Len(u)) : u[k - n] = x}
           f == [k \in C |-> n + k]
<1>1. /\ n \in Nat /\ Len(u) \in Nat /\ Len(r) = n + Len(u)
      /\ \A k \in 1..n : r[k] = s[k]
      /\ \A k \in (n + 1)..(n + Len(u)) : r[k] = u[k - n]
  OBVIOUS
<1>2. /\ IsFiniteSet(A) /\ Cardinality(A) \in Nat
      /\ IsFiniteSet(C) /\ Cardinality(C) \in Nat
  BY CountType DEF Count
<1> HIDE DEF r
<1>3. IsFiniteSet(D) /\ Cardinality(D) = Cardinality(C)
  <2>1. \A k \in C : k \in Nat /\ n + k \in D
    BY <1>1
  <2>2. \A k \in D : k - n \in C /\ n + (k - n) = k
    BY <1>1
  <2> HIDE DEF C, D
  <2>3. f \in Bijection(C, D)
    <3>1. f \in [C -> D]
      BY <2>1
    <3>2. \A a, b \in C : f[a] = f[b] => a = b
      BY <1>1, <2>1
    <3>3. \A k \in D : \E a \in C : f[a] = k
      BY <2>2
    <3> HIDE DEF f
    <3> QED  BY <3>1, <3>2, <3>3, Fun_IsBij
  <2>4. ExistsBijection(C, D)
    BY <2>3 DEF ExistsBijection
  <2> QED  BY <1>2, <2>4, FS_Bijection
<1>4. \A k : k \in B <=> k \in A \/ k \in D
  BY <1>1
<1>5. \A k : ~(k \in A /\ k \in D)
  BY <1>1
<1> HIDE DEF A, B, C, D
<1>6. B = A \cup D /\ A \cap D = {}
  BY <1>4, <1>5
<1>7. Cardinality(B) = Cardinality(A) + Cardinality(C)
  <2>1. Cardinality(A \cup D) = Cardinality(A) + Cardinality(D) - Cardinality(A \cap D)
    BY <1>2, <1>3, FS_Union
  <2>2. Cardinality(A \cap D) = 0
    BY <1>6, FS_EmptySet
  <2> QED  BY <1>2, <1>3, <1>6, <2>1, <2>2
<1> QED  BY <1>7 DEF Count, A, B, C, r

-----------------------------------------------------------------------------
Labels == {"print", "fork", "change", "wait", "exit", "ended", "none", "run", "reaped"}

ParentTypes ==
    /\ pc \in [All -> Labels]
    /\ i \in 0..Children
    /\ word \in [All -> {"Global", "parent_waz_here"}]
    /\ heap \in [All -> {"unset", "Parent_heap"}]
    /\ buffer \in [All -> Seq(Texts)] /\ output \in Seq(Texts)
    /\ status \in [All -> Int] /\ faults \in Nat

Reaped == {c \in Kids : pc[c] = "reaped"}

\* Which children were made (the status of main is not 0 when a fork failed), and
\* how many of them main has waited for.  A process that goes on was not killed.
PlaceInv ==
    /\ pc[0] \in {"print", "fork", "change", "wait", "exit", "ended"}
    /\ \A c \in Kids : pc[c] \in {"none", "run", "exit", "ended", "reaped"}
    /\ pc[0] \in {"print", "fork"} \/ status[0] # 0 =>
        \A c \in Kids : pc[c] # "reaped" /\ (pc[c] = "none" <=> c > i)
    /\ pc[0] = "fork" \/ status[0] # 0 => i < Children
    /\ pc[0] = "change" => \A c \in Kids : pc[c] \notin {"none", "reaped"}
    /\ pc[0] = "wait" => Cardinality(Reaped) = i
    /\ pc[0] \in {"exit", "ended"} => status[0] # 0 \/ \A c \in Kids : pc[c] = "reaped"
    /\ pc[0] \notin {"exit", "ended"} => status[0] = 0
    /\ status[0] # -1 /\ \A c \in Kids : pc[c] \notin {"ended", "reaped"} => status[c] # -1

\* Main changes its memory when all the copies are made.
CopyInv ==
    /\ pc[0] \in {"print", "fork", "change"} => word[0] = "Global" /\ heap[0] = "unset"
    /\ \A c \in Kids : word[c] = "Global" /\ heap[c] = "unset"

\* With a terminal no line waits in a buffer, and none does after exit.
BufferInv(term) ==
    /\ term => \A p \in All : buffer[p] = <<>>
    /\ \A p \in All : pc[p] \in {"ended", "reaped"} /\ status[p] # -1 => buffer[p] = <<>>

Code(s) == IF s = -1 THEN 0 ELSE s % 256

\* Main's lines about the children that it has waited for are printed or in its
\* buffer, and in no child's.
ReportInv(prog) ==
    \A c \in Kids, x \in Int :
        /\ Count(output, Report(c, x)) + Count(buffer[0], Report(c, x)) =
            IF pc[c] = "reaped" /\ x = Code(status[c]) /\ (prog = "fork" \/ x # 0) THEN 1 ELSE 0
        /\ \A d \in Kids : Count(buffer[d], Report(c, x)) = 0

\* How many creations main has announced, that of a fork that failed included.
Announced ==
    IF pc[0] = "print" THEN i
    ELSE IF pc[0] = "fork" \/ status[0] # 0 THEN i + 1 ELSE Children

\* Who has announcement k in the buffer that it writes at its end.
Carries(p, k) == IF p = 0 THEN k < Announced ELSE k < p

\* The processes that had it there, and have ended without being killed.
Flushed(k) == {p \in All : pc[p] \in {"ended", "reaped"} /\ status[p] # -1 /\ Carries(p, k)}

\* Announcement k was printed once, or is in the buffers of main and of the
\* children made after it, until they end.
CreationInv(term) ==
    \A k \in 0..(Children - 1) :
        /\ term => Count(output, Creation(k)) = IF k < Announced THEN 1 ELSE 0
        /\ ~term =>
            /\ Count(output, Creation(k)) = Cardinality(Flushed(k))
            /\ \A p \in All : pc[p] \notin {"none", "ended", "reaped"} =>
                Count(buffer[p], Creation(k)) = IF Carries(p, k) THEN 1 ELSE 0

\* The line of a child that was not killed is printed or in its own buffer, once,
\* after the child has run, and is in no other buffer.
LineInv ==
    \A c \in Kids :
        /\ status[c] # -1 =>
            Count(output, ChildLine(c)) + Count(buffer[c], ChildLine(c)) =
                IF pc[c] \in {"exit", "ended", "reaped"} THEN 1 ELSE 0
        /\ \A p \in All : p # c => Count(buffer[p], ChildLine(c)) = 0

ParentInv(prog, term) ==
    /\ ParentTypes
    /\ PlaceInv
    /\ CopyInv
    /\ BufferInv(term)
    /\ ReportInv(prog)
    /\ prog = "fork" => CreationInv(term) /\ LineInv

-----------------------------------------------------------------------------
LEMMA Members ==
    ASSUME Children \in Nat
    PROVE  /\ 0 \in All /\ Kids \subseteq All /\ 0 \notin Kids
           /\ \A p \in All : p = 0 \/ p \in Kids
           /\ \A c \in Kids : c \in Nat /\ c > 0 /\ c <= Children
BY DEF All, Kids

\* What printf does to the counts: with a terminal to those of the output,
\* otherwise to those of the process's buffer.
Prints(term, p, t) ==
    /\ output' \in Seq(Texts) /\ buffer' \in [All -> Seq(Texts)]
    /\ \A x : Count(output', x) = Count(output, x) + (IF term /\ t = x THEN 1 ELSE 0)
    /\ \A q \in All : \A x :
        Count(buffer'[q], x) = Count(buffer[q], x) + (IF ~term /\ q = p /\ t = x THEN 1 ELSE 0)
    /\ \A q \in All : term \/ q # p => buffer'[q] = buffer[q]

LEMMA Counts ==
    ASSUME ParentTypes
    PROVE  \A x : Count(output, x) \in Nat /\ \A p \in All : Count(buffer[p], x) \in Nat
BY CountType DEF ParentTypes

LEMMA Printing ==
    ASSUME ParentTypes, NEW prog, NEW term \in BOOLEAN, NEW max, NEW p \in All, NEW t \in Texts,
           P(prog, term, max)!printf(p, t)
    PROVE  Prints(term, p, t)
<1>1. /\ output \in Seq(Texts) /\ buffer \in [All -> Seq(Texts)]
      /\ \A x : Count(output, x) \in Nat /\ \A q \in All : Count(buffer[q], x) \in Nat
  BY Counts DEF ParentTypes
<1>2. CASE term
  <2>1. output' = Append(output, t) /\ buffer' = buffer
    BY <1>2 DEF P!printf
  <2>2. output' \in Seq(Texts)
    BY <1>1, <2>1
  <2>3. \A x : Count(output', x) = Count(output, x) + (IF t = x THEN 1 ELSE 0)
    BY <1>1, <2>1, CountAppend
  <2>4. \A q \in All : \A x : Count(buffer'[q], x) = Count(buffer[q], x) + 0
    <3> TAKE q \in All
    <3> TAKE x
    <3>1. Count(buffer[q], x) \in Nat /\ buffer'[q] = buffer[q]
      BY <1>1, <2>1
    <3> QED  BY <3>1
  <2> QED  BY <1>1, <1>2, <2>1, <2>2, <2>3, <2>4 DEF Prints
<1>3. CASE ~term
  <2>1. output' = output /\ buffer' = [buffer EXCEPT ![p] = Append(buffer[p], t)]
    BY <1>3 DEF P!printf
  <2>2. Append(buffer[p], t) \in Seq(Texts)
    BY <1>1
  <2>3. /\ buffer' \in [All -> Seq(Texts)]
        /\ \A q \in All : buffer'[q] = IF q = p THEN Append(buffer[p], t) ELSE buffer[q]
    BY <1>1, <2>1, <2>2
  <2>4. \A x : Count(Append(buffer[p], t), x) = Count(buffer[p], x) + (IF t = x THEN 1 ELSE 0)
    BY <1>1, CountAppend
  <2>5. \A q \in All : \A x :
            Count(buffer'[q], x) = Count(buffer[q], x) + (IF q = p /\ t = x THEN 1 ELSE 0)
    <3> TAKE q \in All
    <3> TAKE x
    <3>1. Count(buffer[q], x) \in Nat
      BY <1>1
    <3>2. CASE q = p
      BY <1>1, <2>3, <2>4, <3>2
    <3>3. CASE q # p
      <4>1. buffer'[q] = buffer[q]
        BY <2>3, <3>3
      <4> QED  BY <3>1, <3>3, <4>1
    <3> QED  BY <3>2, <3>3
  <2> QED  BY <1>1, <1>3, <2>1, <2>3, <2>5 DEF Prints
<1> QED  BY <1>2, <1>3

\* The counts of the reports, or of the creations, stay as they are.
SameReports ==
    \A c \in Kids, x \in Int :
        /\ Count(output', Report(c, x)) = Count(output, Report(c, x))
        /\ \A p \in All : Count(buffer'[p], Report(c, x)) = Count(buffer[p], Report(c, x))
SameCreations ==
    \A k \in Nat :
        /\ Count(output', Creation(k)) = Count(output, Creation(k))
        /\ \A p \in All : Count(buffer'[p], Creation(k)) = Count(buffer[p], Creation(k))

SameLines ==
    \A c \in Kids :
        /\ Count(output', ChildLine(c)) = Count(output, ChildLine(c))
        /\ \A p \in All : Count(buffer'[p], ChildLine(c)) = Count(buffer[p], ChildLine(c))

LEMMA NoReport ==
    ASSUME ParentTypes, NEW term \in BOOLEAN, NEW p \in All, NEW t, Prints(term, p, t),
           \A c \in Kids, x \in Int : t # Report(c, x)
    PROVE  SameReports
BY Counts DEF Prints, SameReports

LEMMA NoCreation ==
    ASSUME ParentTypes, NEW term \in BOOLEAN, NEW p \in All, NEW t, Prints(term, p, t),
           \A k \in Nat : t # Creation(k)
    PROVE  SameCreations
BY Counts DEF Prints, SameCreations

LEMMA NoLine ==
    ASSUME ParentTypes, NEW term \in BOOLEAN, NEW p \in All, NEW t, Prints(term, p, t),
           \A c \in Kids : t # ChildLine(c)
    PROVE  SameLines
BY Counts DEF Prints, SameLines

\* The same processes are over, with the same status.
SameOver ==
    \A p \in All : /\ pc'[p] \in {"ended", "reaped"} <=> pc[p] \in {"ended", "reaped"}
                   /\ pc[p] \in {"ended", "reaped"} => status'[p] = status[p]

LEMMA BuffersStay ==
    ASSUME ParentTypes, NEW term \in BOOLEAN, BufferInv(term), NEW p \in All, NEW t,
           Prints(term, p, t), pc[p] \notin {"ended", "reaped"}, SameOver
    PROVE  BufferInv(term)'
<1>1. term => \A q \in All : buffer'[q] = <<>>
  BY DEF Prints, BufferInv
<1>2. ASSUME NEW q \in All, pc'[q] \in {"ended", "reaped"}, status'[q] # -1
      PROVE  buffer'[q] = <<>>
  <2>1. pc[q] \in {"ended", "reaped"} /\ status[q] # -1 /\ q # p
    BY <1>2 DEF SameOver
  <2> QED  BY <2>1 DEF Prints, BufferInv
<1> QED  BY <1>1, <1>2 DEF BufferInv

LEMMA ReportsStay ==
    ASSUME NEW prog, ReportInv(prog), SameReports,
           \A c \in Kids : /\ pc'[c] = "reaped" <=> pc[c] = "reaped"
                           /\ pc[c] = "reaped" => status'[c] = status[c]
    PROVE  ReportInv(prog)'
<1>1. 0 \in All /\ Kids \subseteq All
  BY DEF All
<1> QED  BY <1>1 DEF ReportInv, SameReports

LEMMA CreationsStay ==
    ASSUME NEW term \in BOOLEAN, CreationInv(term), SameCreations, Announced' = Announced,
           SameOver, \A p \in All : pc'[p] # "none" => pc[p] # "none"
    PROVE  CreationInv(term)'
<1> SUFFICES ASSUME NEW k \in 0..(Children - 1)
             PROVE  /\ term => Count(output', Creation(k)) = IF k < Announced' THEN 1 ELSE 0
                    /\ ~term =>
                        /\ Count(output', Creation(k)) = Cardinality(Flushed(k)')
                        /\ \A p \in All : pc'[p] \notin {"none", "ended", "reaped"} =>
                            Count(buffer'[p], Creation(k)) = IF Carries(p, k)' THEN 1 ELSE 0
  BY DEF CreationInv
<1>1. k \in Nat
  OBVIOUS
<1>2. \A p \in All : Carries(p, k)' <=> Carries(p, k)
  BY DEF Carries
<1>3. Flushed(k)' = Flushed(k)
  BY <1>2 DEF Flushed, SameOver
<1>4. \A p \in All : pc'[p] \notin {"none", "ended", "reaped"} =>
                        pc[p] \notin {"none", "ended", "reaped"}
  BY DEF SameOver
<1> QED  BY <1>1, <1>2, <1>3, <1>4 DEF CreationInv, SameCreations

LEMMA LinesStay ==
    ASSUME LineInv, SameLines, Children \in Nat,
           \A c \in Kids :
            /\ pc'[c] \in {"exit", "ended", "reaped"} <=> pc[c] \in {"exit", "ended", "reaped"}
            /\ status'[c] # -1 => status[c] # -1
    PROVE  LineInv'
BY Members DEF LineInv, SameLines

-----------------------------------------------------------------------------
LEMMA Moves ==
    ASSUME ParentTypes, NEW p \in All, NEW l \in Labels, pc' = [pc EXCEPT ![p] = l]
    PROVE  /\ pc' \in [All -> Labels]
           /\ \A q \in All : pc'[q] = IF q = p THEN l ELSE pc[q]
BY DEF ParentTypes

LEMMA CreatingInv ==
    ASSUME NEW prog, NEW term \in BOOLEAN, NEW max, ParentInv(prog, term), Children \in Nat,
           P(prog, term, max)!Creating
    PROVE  ParentInv(prog, term)'
<1> DEFINE l == IF i = Children THEN "change" ELSE "fork"
<1>1. /\ pc[0] = "print" /\ pc' = [pc EXCEPT ![0] = l]
      /\ IF i < Children /\ prog = "fork"
         THEN P(prog, term, max)!printf(0, Creation(i)) ELSE UNCHANGED <<buffer, output>>
      /\ UNCHANGED <<i, word, heap, status, faults>>
  BY Zenon DEF P!Creating, P!Goto, P!Main, Creation
<1>2. /\ ParentTypes /\ PlaceInv /\ CopyInv /\ BufferInv(term) /\ ReportInv(prog)
      /\ i \in 0..Children /\ 0 \in All /\ l \in Labels
  BY Members DEF ParentInv, ParentTypes, Labels
<1>3. pc' \in [All -> Labels] /\ \A q \in All : pc'[q] = IF q = 0 THEN l ELSE pc[q]
  BY <1>1, <1>2, Moves
<1>4. pc'[0] = l /\ \A c \in Kids : pc'[c] = pc[c]
  BY <1>3, Members
<1>5. PlaceInv' /\ CopyInv'
  <2>1. (l = "change" /\ i = Children) \/ (l = "fork" /\ i < Children)
    BY <1>2
  <2>2. /\ status[0] = 0
        /\ \A c \in Kids : pc[c] # "reaped" /\ (pc[c] = "none" <=> c > i)
    BY <1>1, <1>2 DEF PlaceInv
  <2>3. i = Children => \A c \in Kids : pc[c] \notin {"none", "reaped"}
    BY <2>2, Members
  <2> HIDE DEF l
  <2>4. status'[0] = 0 /\ (\A c \in Kids : pc'[c] = pc[c] /\ status'[c] = status[c]) /\ i' = i
    BY <1>1, <1>4, <2>2
  <2>5. PlaceInv'
    BY <1>2, <1>4, <2>1, <2>2, <2>3, <2>4 DEF PlaceInv
  <2> QED  BY <1>1, <1>2, <1>4, <2>1, <2>5 DEF CopyInv
<1>8. SameOver
  BY <1>1, <1>2, <1>3 DEF SameOver
<1>9. \A c \in Kids : pc'[c] = pc[c] /\ status'[c] = status[c]
  BY <1>1, <1>4
<1>6. CASE ~(i < Children /\ prog = "fork")
  <2>1. UNCHANGED <<buffer, output>>
    BY <1>1, <1>6
  <2>2. ParentTypes' /\ BufferInv(term)'
    BY <1>1, <1>2, <1>3, <2>1 DEF ParentTypes, BufferInv
  <2>3. SameReports /\ SameCreations /\ SameLines
    BY <2>1 DEF SameReports, SameCreations, SameLines
  <2>4. ReportInv(prog)'
    BY <1>1, <1>2, <1>4, <2>3, ReportsStay
  <2>5. ASSUME prog = "fork" PROVE CreationInv(term)' /\ LineInv'
    <3>1. Announced' = Announced /\ l = "change"
      BY <1>1, <1>2, <1>4, <1>6, <2>5 DEF Announced, PlaceInv
    <3>2. \A p \in All : pc'[p] # "none" => pc[p] # "none"
      BY <1>1, <1>3, <3>1
    <3> QED  BY <1>8, <1>9, <2>3, <2>5, <3>1, <3>2, CreationsStay, LinesStay DEF ParentInv
  <2> QED  BY <1>5, <2>2, <2>4, <2>5 DEF ParentInv
<1>7. CASE i < Children /\ prog = "fork"
  <2>1. Creation(i) \in Texts /\ l = "fork"
    BY <1>2, <1>7, CreationText
  <2>2. Prints(term, 0, Creation(i))
    BY <1>1, <1>2, <1>7, <2>1, Printing
  <2>3. ParentTypes'
    BY <1>1, <1>2, <1>3, <2>2 DEF ParentTypes, Prints
  <2>4. BufferInv(term)'
    BY <1>1, <1>2, <1>8, <2>2, BuffersStay
  <2>5. ReportInv(prog)'
    <3>1. SameReports
      BY <1>2, <2>2, NoReport, ReportsDiffer
    <3> QED  BY <1>1, <1>2, <1>4, <3>1, ReportsStay
  <2>6. CreationInv(term)'
    <3> SUFFICES ASSUME NEW k \in 0..(Children - 1)
                 PROVE  /\ term => Count(output', Creation(k)) = IF k < Announced' THEN 1 ELSE 0
                        /\ ~term =>
                            /\ Count(output', Creation(k)) = Cardinality(Flushed(k)')
                            /\ \A p \in All : pc'[p] \notin {"none", "ended", "reaped"} =>
                                Count(buffer'[p], Creation(k)) = IF Carries(p, k)' THEN 1 ELSE 0
      BY DEF CreationInv
    <3>1. Announced = i /\ Announced' = i + 1
      BY <1>1, <1>4, <2>1 DEF Announced
    <3>2. Creation(i) = Creation(k) <=> i = k
      BY CreationsDiffer
    <3>3. Flushed(k)' = Flushed(k)
      BY <1>1, <1>2, <1>3, <1>8, <2>1, Members DEF Flushed, Carries, SameOver
    <3>4. /\ term => Count(output, Creation(k)) = IF k < i THEN 1 ELSE 0
          /\ ~term =>
              /\ Count(output, Creation(k)) = Cardinality(Flushed(k))
              /\ \A p \in All : pc[p] \notin {"none", "ended", "reaped"} =>
                  Count(buffer[p], Creation(k)) = IF Carries(p, k) THEN 1 ELSE 0
      BY <1>7, <3>1 DEF ParentInv, CreationInv
    <3>5. /\ Count(output', Creation(k)) =
                Count(output, Creation(k)) + (IF term /\ i = k THEN 1 ELSE 0)
          /\ \A p \in All : Count(buffer'[p], Creation(k)) =
                Count(buffer[p], Creation(k)) + (IF ~term /\ p = 0 /\ i = k THEN 1 ELSE 0)
      BY <2>2, <3>2 DEF Prints
    <3>6. CASE term
      BY <1>2, <3>1, <3>4, <3>5, <3>6
    <3>7. CASE ~term
      <4>1. Count(output', Creation(k)) = Cardinality(Flushed(k)')
        BY <1>2, <3>3, <3>4, <3>5, <3>7, Counts
      <4>2. ASSUME NEW p \in All, pc'[p] \notin {"none", "ended", "reaped"}
            PROVE  Count(buffer'[p], Creation(k)) = IF Carries(p, k)' THEN 1 ELSE 0
        <5>1. pc[p] \notin {"none", "ended", "reaped"}
          BY <1>1, <1>3, <4>2
        <5>2. Count(buffer[p], Creation(k)) = IF Carries(p, k) THEN 1 ELSE 0
          BY <3>4, <3>7, <5>1
        <5> QED  BY <1>2, <3>1, <3>5, <3>7, <5>2 DEF Carries
      <4> QED  BY <3>7, <4>1, <4>2
    <3> QED  BY <3>6, <3>7
  <2>7. LineInv'
    <3>1. SameLines
      BY <1>2, <2>2, NoLine, LinesDiffer
    <3> QED  BY <1>7, <1>9, <3>1, LinesStay DEF ParentInv
  <2> QED  BY <1>5, <2>3, <2>4, <2>5, <2>6, <2>7 DEF ParentInv
<1> QED  BY <1>6, <1>7

\* The child has main's buffer, with what main has announced; and no report,
\* since main waits for no child before it has made all.
LEMMA ForkInv ==
    ASSUME NEW prog, NEW term \in BOOLEAN, NEW max, ParentInv(prog, term), Children \in Nat,
           P(prog, term, max)!Fork
    PROVE  ParentInv(prog, term)'
<1> DEFINE n == i + 1
<1>1. /\ pc[0] = "fork" /\ pc' = [pc EXCEPT ![0] = "print", ![n] = "run"] /\ i' = n
      /\ word' = [word EXCEPT ![n] = word[0]]
      /\ heap' = [heap EXCEPT ![n] = heap[0]]
      /\ buffer' = [buffer EXCEPT ![n] = buffer[0]]
      /\ UNCHANGED <<output, status, faults>>
  BY Zenon DEF P!Fork, P!Main
<1>2. /\ ParentTypes /\ PlaceInv /\ CopyInv /\ BufferInv(term) /\ ReportInv(prog)
      /\ 0 \in All /\ i \in 0..Children /\ i < Children /\ n \in Kids /\ n \in All /\ n # 0
  BY <1>1, Members DEF ParentInv, ParentTypes, PlaceInv, Kids, All
<1> HIDE DEF n
<1>3. /\ pc' \in [All -> Labels]
      /\ \A q \in All : pc'[q] = IF q = 0 THEN "print" ELSE IF q = n THEN "run" ELSE pc[q]
      /\ \A q \in All : buffer'[q] = IF q = n THEN buffer[0] ELSE buffer[q]
      /\ \A q \in All : word'[q] = IF q = n THEN word[0] ELSE word[q]
      /\ \A q \in All : heap'[q] = IF q = n THEN heap[0] ELSE heap[q]
  BY <1>1, <1>2 DEF ParentTypes, Labels
<1>4. ParentTypes'
  <2>1. n \in 0..Children
    BY <1>2, Members
  <2> QED  BY <1>1, <1>2, <1>3, <2>1 DEF ParentTypes
<1>5. pc'[0] = "print" /\ \A c \in Kids : pc'[c] = IF c = n THEN "run" ELSE pc[c]
  BY <1>2, <1>3, Members
<1>6. PlaceInv'
  <2>1. \A c \in Kids : pc'[c] # "reaped" /\ (pc'[c] = "none" <=> c > i')
    <3> TAKE c \in Kids
    <3>1. c \in Nat /\ pc[c] # "reaped" /\ (pc[c] = "none" <=> c > i)
      BY <1>1, <1>2, Members DEF PlaceInv
    <3>2. i \in Nat /\ n = i + 1 /\ i' = n
      BY <1>1, <1>2 DEF n
    <3>3. CASE c = n
      <4>1. pc'[c] = "run" /\ ~(c > i')
        BY <1>5, <3>1, <3>2, <3>3
      <4> QED  BY <4>1
    <3>4. CASE c # n
      <4>1. pc'[c] = pc[c] /\ (c > i' <=> c > i)
        BY <1>5, <3>1, <3>2, <3>4
      <4> QED  BY <3>1, <4>1
    <3> QED  BY <3>3, <3>4
  <2>2. status[0] = 0 /\ pc[n] = "none"
    BY <1>1, <1>2 DEF PlaceInv, n
  <2>3. \A c \in Kids : /\ pc'[c] \in {"none", "run", "exit", "ended", "reaped"}
                        /\ pc'[c] \notin {"ended", "reaped"} => status'[c] # -1
    BY <1>1, <1>2, <1>5, <2>2 DEF PlaceInv
  <2>4. pc'[0] = "print" /\ status'[0] = 0
    BY <1>1, <1>5, <2>2
  <2> QED  BY <2>1, <2>3, <2>4 DEF PlaceInv
<1>7. CopyInv'
  BY <1>1, <1>2, <1>3, Members DEF CopyInv
<1>8. BufferInv(term)'
  <2>1. ASSUME NEW q \in All, pc'[q] \in {"ended", "reaped"}, status'[q] # -1
        PROVE  buffer'[q] = <<>>
    <3>1. q # n /\ pc[q] = pc'[q]
      BY <1>3, <2>1
    <3> QED  BY <1>1, <1>2, <1>3, <2>1, <3>1 DEF BufferInv
  <2>2. term => \A q \in All : buffer'[q] = <<>>
    BY <1>2, <1>3 DEF BufferInv
  <2> QED  BY <2>1, <2>2 DEF BufferInv
<1>9. ReportInv(prog)'
  <2> SUFFICES ASSUME NEW c \in Kids, NEW x \in Int
               PROVE  /\ Count(output', Report(c, x)) + Count(buffer'[0], Report(c, x)) =
                            IF pc'[c] = "reaped" /\ x = Code(status'[c]) /\ (prog = "fork" \/ x # 0)
                            THEN 1 ELSE 0
                      /\ \A d \in Kids : Count(buffer'[d], Report(c, x)) = 0
    BY DEF ReportInv
  <2>1. pc[c] # "reaped" /\ pc'[c] # "reaped"
    <3>1. pc[c] # "reaped"
      BY <1>1, <1>2 DEF PlaceInv
    <3> QED  BY <1>5, <3>1
  <2>2. Count(output, Report(c, x)) + Count(buffer[0], Report(c, x)) = 0
    BY <1>2, <2>1 DEF ReportInv
  <2>3. Count(buffer[0], Report(c, x)) = 0
    BY <1>2, <2>2, Counts
  <2>4. \A d \in Kids : Count(buffer'[d], Report(c, x)) = 0
    BY <1>2, <1>3, <2>3, Members DEF ReportInv
  <2> QED  BY <1>1, <1>2, <1>3, <2>1, <2>2, <2>4
<1>10. ASSUME prog = "fork" PROVE CreationInv(term)'
  <2> SUFFICES ASSUME NEW k \in 0..(Children - 1)
               PROVE  /\ term => Count(output', Creation(k)) = IF k < Announced' THEN 1 ELSE 0
                      /\ ~term =>
                          /\ Count(output', Creation(k)) = Cardinality(Flushed(k)')
                          /\ \A p \in All : pc'[p] \notin {"none", "ended", "reaped"} =>
                              Count(buffer'[p], Creation(k)) = IF Carries(p, k)' THEN 1 ELSE 0
    BY DEF CreationInv
  <2>1. Announced = n /\ Announced' = n
    BY <1>1, <1>5 DEF Announced, n
  <2>6. \A p \in All : Carries(p, k)' <=> Carries(p, k)
    BY <2>1 DEF Carries
  <2>2. pc[n] = "none"
    BY <1>1, <1>2 DEF PlaceInv, n
  <2>3. Flushed(k)' = Flushed(k)
    <3>1. \A p \in All : pc'[p] \in {"ended", "reaped"} <=> pc[p] \in {"ended", "reaped"}
      BY <1>1, <1>2, <1>3, <2>2
    <3> QED  BY <1>1, <2>6, <3>1 DEF Flushed
  <2>4. /\ term => Count(output, Creation(k)) = IF k < n THEN 1 ELSE 0
        /\ ~term =>
            /\ Count(output, Creation(k)) = Cardinality(Flushed(k))
            /\ \A p \in All : pc[p] \notin {"none", "ended", "reaped"} =>
                Count(buffer[p], Creation(k)) = IF Carries(p, k) THEN 1 ELSE 0
    BY <1>10, <2>1 DEF ParentInv, CreationInv
  <2>5. ASSUME ~term, NEW p \in All, pc'[p] \notin {"none", "ended", "reaped"}
        PROVE  Count(buffer'[p], Creation(k)) = IF Carries(p, k)' THEN 1 ELSE 0
    <3>1. Carries(p, k)' <=> IF p = 0 THEN k < n ELSE k < p
      BY <2>1 DEF Carries
    <3>2. CASE p = n
      <4>1. Count(buffer[0], Creation(k)) = IF k < n THEN 1 ELSE 0
        BY <1>1, <1>2, <2>1, <2>4, <2>5 DEF Carries
      <4> QED  BY <1>2, <1>3, <3>1, <3>2, <4>1
    <3>3. CASE p # n
      <4>1. pc[p] \notin {"none", "ended", "reaped"} /\ buffer'[p] = buffer[p]
        BY <1>1, <1>3, <2>5, <3>3
      <4> QED  BY <2>1, <2>4, <2>5, <3>1, <4>1 DEF Carries
    <3> QED  BY <3>2, <3>3
  <2> QED  BY <1>1, <2>1, <2>3, <2>4, <2>5
<1>11. ASSUME prog = "fork" PROVE LineInv'
  <2> SUFFICES ASSUME NEW c \in Kids
               PROVE  /\ status'[c] # -1 =>
                            Count(output', ChildLine(c)) + Count(buffer'[c], ChildLine(c)) =
                                IF pc'[c] \in {"exit", "ended", "reaped"} THEN 1 ELSE 0
                      /\ \A p \in All : p # c => Count(buffer'[p], ChildLine(c)) = 0
    BY DEF LineInv
  <2>1. /\ status[c] # -1 =>
            Count(output, ChildLine(c)) + Count(buffer[c], ChildLine(c)) =
                IF pc[c] \in {"exit", "ended", "reaped"} THEN 1 ELSE 0
        /\ \A p \in All : p # c => Count(buffer[p], ChildLine(c)) = 0
        /\ Count(output, ChildLine(c)) \in Nat /\ Count(buffer[c], ChildLine(c)) \in Nat
    BY <1>2, <1>11, Counts, Members DEF ParentInv, LineInv
  <2>2. Count(buffer[0], ChildLine(c)) = 0
    BY <2>1, Members
  <2>3. \A p \in All : p # c => Count(buffer'[p], ChildLine(c)) = 0
    BY <1>3, <2>1, <2>2
  <2>4. CASE c = n
    <3>1. pc[n] = "none"
      BY <1>1, <1>2 DEF PlaceInv, n
    <3>2. status[n] # -1 /\ pc'[n] = "run"
      BY <1>2, <1>5, <3>1 DEF PlaceInv
    <3>3. Count(output, ChildLine(c)) = 0
      BY <2>1, <2>4, <3>1, <3>2
    <3> QED  BY <1>1, <1>2, <1>3, <2>2, <2>3, <2>4, <3>2, <3>3
  <2>5. CASE c # n
    <3>1. pc'[c] = pc[c] /\ buffer'[c] = buffer[c]
      BY <1>3, <1>5, <2>5, Members
    <3> QED  BY <1>1, <2>1, <2>3, <3>1
  <2> QED  BY <2>4, <2>5
<1> QED  BY <1>4, <1>6, <1>7, <1>8, <1>9, <1>10, <1>11 DEF ParentInv

\* A fork that fails, or a child that is killed: nothing is printed.
LEMMA FaultInv ==
    ASSUME NEW prog, NEW term \in BOOLEAN, NEW max, ParentInv(prog, term), Children \in Nat,
           P(prog, term, max)!ForkFails \/ \E c \in Kids : P(prog, term, max)!Killed(c)
    PROVE  ParentInv(prog, term)'
<1>1. /\ UNCHANGED <<i, word, heap, buffer, output>> /\ faults' = faults + 1
      /\ \/ pc[0] = "fork" /\ pc' = [pc EXCEPT ![0] = "exit"] /\ status' = [status EXCEPT ![0] = 1]
         \/ \E c \in Kids : /\ pc[c] \in {"run", "exit"} /\ pc' = [pc EXCEPT ![c] = "ended"]
                            /\ status' = [status EXCEPT ![c] = -1]
  BY DEF P!ForkFails, P!Killed, P!Fault, P!Goto, P!Main
<1>2. /\ ParentTypes /\ PlaceInv /\ CopyInv /\ BufferInv(term) /\ ReportInv(prog)
      /\ 0 \in All /\ Kids \subseteq All /\ 0 \notin Kids
      /\ faults \in Nat /\ status \in [All -> Int] /\ pc \in [All -> Labels]
  BY Members DEF ParentInv, ParentTypes
<1>3. SameReports /\ SameCreations /\ SameLines
  BY <1>1 DEF SameReports, SameCreations, SameLines
<1>5. CASE /\ pc[0] = "fork" /\ pc' = [pc EXCEPT ![0] = "exit"]
           /\ status' = [status EXCEPT ![0] = 1]
  <2>1. /\ pc' \in [All -> Labels] /\ \A q \in All : pc'[q] = IF q = 0 THEN "exit" ELSE pc[q]
        /\ status' \in [All -> Int] /\ \A q \in All : status'[q] = IF q = 0 THEN 1 ELSE status[q]
    BY <1>2, <1>5 DEF Labels
  <2>2. /\ pc'[0] = "exit" /\ status'[0] = 1
        /\ \A c \in Kids : pc'[c] = pc[c] /\ status'[c] = status[c]
    BY <1>2, <2>1
  <2>3. ParentTypes' /\ PlaceInv' /\ CopyInv' /\ BufferInv(term)'
    BY <1>1, <1>2, <1>5, <2>1, <2>2 DEF ParentTypes, PlaceInv, CopyInv, BufferInv
  <2>4. ReportInv(prog)'
    BY <1>2, <1>3, <2>2, ReportsStay
  <2>5. ASSUME prog = "fork" PROVE CreationInv(term)' /\ LineInv'
    <3>1. Announced' = Announced
      BY <1>1, <1>5, <2>2 DEF Announced
    <3>2. SameOver /\ \A p \in All : pc'[p] # "none" => pc[p] # "none"
      BY <1>5, <2>1 DEF SameOver
    <3> QED  BY <1>3, <2>2, <2>5, <3>1, <3>2, CreationsStay, LinesStay DEF ParentInv
  <2> QED  BY <2>3, <2>4, <2>5 DEF ParentInv
<1>6. ASSUME NEW c \in Kids, pc[c] \in {"run", "exit"}, pc' = [pc EXCEPT ![c] = "ended"],
             status' = [status EXCEPT ![c] = -1]
      PROVE  ParentInv(prog, term)'
  <2>1. /\ pc' \in [All -> Labels] /\ \A q \in All : pc'[q] = IF q = c THEN "ended" ELSE pc[q]
        /\ status' \in [All -> Int] /\ \A q \in All : status'[q] = IF q = c THEN -1 ELSE status[q]
    BY <1>2, <1>6 DEF Labels
  <2>2. /\ pc'[0] = pc[0] /\ status'[0] = status[0]
        /\ \A d \in Kids : /\ pc'[d] = "reaped" <=> pc[d] = "reaped"
                           /\ pc'[d] = "none" <=> pc[d] = "none"
                           /\ pc[d] = "reaped" => status'[d] = status[d]
                           /\ pc'[d] \in {"none", "run", "exit", "ended", "reaped"}
    BY <1>2, <1>6, <2>1 DEF PlaceInv
  <2>3. Reaped' = Reaped
    BY <2>2 DEF Reaped
  <2>4. PlaceInv'
    BY <1>1, <1>2, <2>2, <2>3 DEF PlaceInv
  <2>5. ParentTypes' /\ CopyInv' /\ BufferInv(term)'
    BY <1>1, <1>2, <2>1, <2>2 DEF ParentTypes, CopyInv, BufferInv
  <2>6. ReportInv(prog)'
    BY <1>2, <1>3, <2>2, ReportsStay
  <2>7. ASSUME prog = "fork" PROVE CreationInv(term)'
    <3>1. Announced' = Announced
      BY <1>1, <2>2 DEF Announced
    <3>2. \A p \in All : pc'[p] \notin {"none", "ended", "reaped"} =>
                            pc[p] \notin {"none", "ended", "reaped"}
      BY <2>1
    <3>3. \A k : Flushed(k)' = Flushed(k) /\ \A p : Carries(p, k)' <=> Carries(p, k)
      BY <1>6, <2>1, <3>1 DEF Flushed, Carries
    <3> QED  BY <1>1, <2>7, <3>1, <3>2, <3>3 DEF ParentInv, CreationInv
  <2>8. ASSUME prog = "fork" PROVE LineInv'
    <3>1. /\ status'[c] = -1
          /\ \A d \in Kids : d # c => pc'[d] = pc[d] /\ status'[d] = status[d]
      BY <1>2, <2>1
    <3> QED  BY <1>1, <2>8, <3>1 DEF ParentInv, LineInv
  <2> QED  BY <2>4, <2>5, <2>6, <2>7, <2>8 DEF ParentInv
<1> QED  BY <1>1, <1>5, <1>6

\* Main changes its copies and prints them.
LEMMA ChangeInv ==
    ASSUME NEW prog, NEW term \in BOOLEAN, NEW max, ParentInv(prog, term), Children \in Nat,
           P(prog, term, max)!Change
    PROVE  ParentInv(prog, term)'
<1>1. /\ pc[0] = "change" /\ pc' = [pc EXCEPT ![0] = "wait"] /\ i' = 0
      /\ UNCHANGED <<status, faults>>
      /\ IF prog = "fork"
         THEN /\ word' = [word EXCEPT ![0] = "parent_waz_here"]
              /\ heap' = [heap EXCEPT ![0] = "Parent_heap"]
              /\ P(prog, term, max)!printf(0, <<"Parent", word'[0], heap'[0]>>)
         ELSE UNCHANGED <<word, heap, buffer, output>>
  BY Zenon DEF P!Change, P!Goto, P!Main
<1>2. /\ ParentTypes /\ PlaceInv /\ CopyInv /\ BufferInv(term) /\ ReportInv(prog)
      /\ 0 \in All /\ Kids \subseteq All /\ 0 \notin Kids /\ "wait" \in Labels
  BY Members DEF ParentInv, Labels
<1>3. /\ pc' \in [All -> Labels] /\ \A q \in All : pc'[q] = IF q = 0 THEN "wait" ELSE pc[q]
  BY <1>1, <1>2, Moves
<1>4. pc'[0] = "wait" /\ \A c \in Kids : pc'[c] = pc[c]
  BY <1>2, <1>3
<1>5. PlaceInv'
  <2>1. Reaped' = {}
    BY <1>1, <1>2, <1>4 DEF PlaceInv, Reaped
  <2>2. Cardinality(Reaped') = i'
    BY <1>1, <2>1, FS_EmptySet
  <2>3. status'[0] = 0 /\ \A c \in Kids : pc'[c] = pc[c] /\ status'[c] = status[c]
    BY <1>1, <1>2, <1>4 DEF PlaceInv
  <2> QED  BY <1>2, <1>4, <2>2, <2>3 DEF PlaceInv
<1>6. /\ Announced' = Announced /\ SameOver
      /\ \A p \in All : pc'[p] # "none" => pc[p] # "none"
      /\ \A c \in Kids : pc'[c] = pc[c] /\ status'[c] = status[c]
  BY <1>1, <1>2, <1>3, <1>4 DEF Announced, SameOver, PlaceInv
<1>7. CASE prog = "fork"
  <2>1. /\ word' \in [All -> {"Global", "parent_waz_here"}]
        /\ heap' \in [All -> {"unset", "Parent_heap"}]
        /\ word'[0] = "parent_waz_here" /\ heap'[0] = "Parent_heap"
        /\ \A c \in Kids : word'[c] = word[c] /\ heap'[c] = heap[c]
    BY <1>1, <1>2, <1>7 DEF ParentTypes
  <2>2. P(prog, term, max)!printf(0, ParentLine)
    BY <1>1, <1>7, <2>1 DEF ParentLine
  <2>3. Prints(term, 0, ParentLine)
    BY <1>2, <2>2, Printing, ParentText
  <2>4. ParentTypes'
    <3>1. i' \in 0..Children
      BY <1>1
    <3> QED  BY <1>1, <1>2, <1>3, <2>1, <2>3, <3>1 DEF ParentTypes, Prints
  <2>5. CopyInv'
    BY <1>2, <1>4, <2>1 DEF CopyInv
  <2>6. BufferInv(term)'
    BY <1>1, <1>2, <1>6, <2>3, BuffersStay
  <2>7. SameReports /\ SameCreations /\ SameLines
    BY <1>2, <2>3, NoReport, NoCreation, NoLine, ReportsDiffer, CreationsDiffer, LinesDiffer
  <2>8. ReportInv(prog)'
    BY <1>1, <1>2, <1>4, <2>7, ReportsStay
  <2>9. CreationInv(term)' /\ LineInv'
    BY <1>6, <1>7, <2>7, CreationsStay, LinesStay DEF ParentInv
  <2> QED  BY <1>5, <2>4, <2>5, <2>6, <2>8, <2>9 DEF ParentInv
<1>8. CASE prog # "fork"
  <2>1. UNCHANGED <<word, heap, buffer, output>>
    BY <1>1, <1>8
  <2>2. ParentTypes'
    <3>1. i' \in 0..Children
      BY <1>1
    <3> QED  BY <1>1, <1>2, <1>3, <2>1, <3>1 DEF ParentTypes
  <2>3. CopyInv' /\ BufferInv(term)'
    BY <1>1, <1>2, <1>4, <2>1 DEF CopyInv, BufferInv
  <2>4. SameReports
    BY <2>1 DEF SameReports
  <2>5. ReportInv(prog)'
    BY <1>1, <1>2, <1>4, <2>4, ReportsStay
  <2> QED  BY <1>5, <1>8, <2>2, <2>3, <2>5 DEF ParentInv
<1> QED  BY <1>7, <1>8

\* A child that has ended is waited for once, and its code reported once.
LEMMA WaitForOneInv ==
    ASSUME NEW prog, NEW term \in BOOLEAN, NEW max, ParentInv(prog, term), Children \in Nat,
           P(prog, term, max)!WaitForOne
    PROVE  ParentInv(prog, term)'
<1>1. pc[0] = "wait" /\ i < Children /\ UNCHANGED <<word, heap, status, faults>>
  BY DEF P!WaitForOne, P!Main, P!Wait
<1>2. PICK c \in Kids :
        /\ pc[c] = "ended" /\ pc' = [pc EXCEPT ![c] = "reaped"] /\ i' = i + 1
        /\ IF prog = "fork" \/ Code(status[c]) # 0
           THEN P(prog, term, max)!printf(0, Report(c, Code(status[c])))
           ELSE UNCHANGED <<buffer, output>>
  BY Zenon DEF P!WaitForOne, P!Main, P!Ids, P!Goto, P!WEXITSTATUS, Kids, Code, Report
<1>3. /\ ParentTypes /\ PlaceInv /\ CopyInv /\ BufferInv(term) /\ ReportInv(prog)
      /\ 0 \in All /\ Kids \subseteq All /\ 0 \notin Kids /\ c # 0 /\ c \in All
      /\ "reaped" \in Labels /\ i \in 0..Children
  BY Members DEF ParentInv, ParentTypes, Labels
<1>4. /\ pc' \in [All -> Labels] /\ \A q \in All : pc'[q] = IF q = c THEN "reaped" ELSE pc[q]
  BY <1>2, <1>3, Moves
<1>5. pc'[0] = "wait" /\ \A d \in Kids : pc'[d] = IF d = c THEN "reaped" ELSE pc[d]
  BY <1>1, <1>3, <1>4
<1>6. PlaceInv'
  <2>1. Reaped' = Reaped \cup {c} /\ c \notin Reaped
    BY <1>2, <1>5 DEF Reaped
  <2>2. IsFiniteSet(Reaped)
    <3>1. IsFiniteSet(Kids) /\ Reaped \subseteq Kids
      BY FS_Interval DEF Kids, Reaped
    <3> QED  BY <3>1, FS_Subset
  <2>3. Cardinality(Reaped') = i'
    <3>1. Cardinality(Reaped) = i
      BY <1>1, <1>3 DEF PlaceInv
    <3>2. Cardinality(Reaped \cup {c}) = Cardinality(Reaped) + 1
      BY <2>1, <2>2, FS_AddElement
    <3> QED  BY <1>2, <2>1, <3>1, <3>2
  <2>4. status'[0] = 0 /\ \A d \in Kids : status'[d] = status[d]
    BY <1>1, <1>3 DEF PlaceInv
  <2>5. \A d \in Kids : /\ pc'[d] \in {"none", "run", "exit", "ended", "reaped"}
                        /\ pc'[d] \notin {"ended", "reaped"} => status'[d] # -1
    BY <1>3, <1>5, <2>4 DEF PlaceInv
  <2> QED  BY <1>5, <2>3, <2>4, <2>5 DEF PlaceInv
<1>7. /\ Announced' = Announced /\ SameOver
      /\ \A p \in All : pc'[p] # "none" => pc[p] # "none"
      /\ \A d \in Kids :
            /\ pc'[d] \in {"exit", "ended", "reaped"} <=> pc[d] \in {"exit", "ended", "reaped"}
            /\ status'[d] = status[d]
  BY <1>1, <1>2, <1>3, <1>4, <1>5 DEF Announced, SameOver, PlaceInv
<1>8. i' \in 0..Children /\ CopyInv'
  BY <1>1, <1>2, <1>3, <1>5 DEF CopyInv
<1> DEFINE t == Report(c, Code(status[c]))
<1>9. t \in Texts /\ Code(status[c]) \in Int
  <2>1. Code(status[c]) \in Int
    BY <1>3 DEF ParentTypes, Code
  <2> QED  BY <2>1, ReportText
<1>10. CASE prog = "fork" \/ Code(status[c]) # 0
  <2>1. Prints(term, 0, t)
    BY <1>2, <1>3, <1>9, <1>10, Printing
  <2>2. ParentTypes'
    BY <1>1, <1>3, <1>4, <1>8, <2>1 DEF ParentTypes, Prints
  <2>3. BufferInv(term)'
    BY <1>1, <1>3, <1>7, <2>1, BuffersStay
  <2>4. ReportInv(prog)'
    <3> SUFFICES ASSUME NEW d \in Kids, NEW x \in Int
                 PROVE  /\ Count(output', Report(d, x)) + Count(buffer'[0], Report(d, x)) =
                            IF pc'[d] = "reaped" /\ x = Code(status'[d]) /\ (prog = "fork" \/ x # 0)
                            THEN 1 ELSE 0
                        /\ \A e \in Kids : Count(buffer'[e], Report(d, x)) = 0
      BY DEF ReportInv
    <3>1. /\ Count(output, Report(d, x)) + Count(buffer[0], Report(d, x)) =
                IF pc[d] = "reaped" /\ x = Code(status[d]) /\ (prog = "fork" \/ x # 0) THEN 1 ELSE 0
          /\ \A e \in Kids : Count(buffer[e], Report(d, x)) = 0
      BY <1>3 DEF ReportInv
    <3>2. \A e \in Kids : Count(buffer'[e], Report(d, x)) = 0
      BY <1>3, <2>1, <3>1 DEF Prints
    <3>3. Count(output, Report(d, x)) \in Nat /\ Count(buffer[0], Report(d, x)) \in Nat
      BY <1>3, Counts
    <3>4. t = Report(d, x) <=> d = c /\ x = Code(status[c])
      BY ReportsDiffer
    <3>5. /\ Count(output', Report(d, x)) =
                Count(output, Report(d, x)) + (IF term /\ t = Report(d, x) THEN 1 ELSE 0)
          /\ Count(buffer'[0], Report(d, x)) =
                Count(buffer[0], Report(d, x)) + (IF ~term /\ t = Report(d, x) THEN 1 ELSE 0)
      BY <1>3, <2>1 DEF Prints
    <3> HIDE DEF t
    <3>6. Count(output', Report(d, x)) + Count(buffer'[0], Report(d, x)) =
            Count(output, Report(d, x)) + Count(buffer[0], Report(d, x))
                + (IF t = Report(d, x) THEN 1 ELSE 0)
      BY <3>3, <3>5
    <3>7. CASE d = c
      BY <1>1, <1>2, <1>5, <1>10, <3>1, <3>2, <3>4, <3>6, <3>7
    <3>8. CASE d # c
      BY <1>1, <1>5, <3>1, <3>2, <3>3, <3>4, <3>6, <3>8
    <3> QED  BY <3>7, <3>8
  <2>5. ASSUME prog = "fork" PROVE CreationInv(term)' /\ LineInv'
    <3>1. SameCreations /\ SameLines
      BY <1>3, <2>1, NoCreation, CreationsDiffer, NoLine, LinesDiffer
    <3> QED  BY <1>7, <2>5, <3>1, CreationsStay, LinesStay DEF ParentInv
  <2> QED  BY <1>6, <1>8, <2>2, <2>3, <2>4, <2>5 DEF ParentInv
<1>11. CASE ~(prog = "fork" \/ Code(status[c]) # 0)
  <2>1. UNCHANGED <<buffer, output>>
    BY <1>2, <1>11
  <2>2. ParentTypes' /\ BufferInv(term)'
    BY <1>1, <1>3, <1>4, <1>7, <1>8, <2>1 DEF ParentTypes, BufferInv, SameOver
  <2>3. ReportInv(prog)'
    BY <1>1, <1>2, <1>3, <1>5, <1>11, <2>1 DEF ReportInv
  <2> QED  BY <1>6, <1>8, <1>11, <2>2, <2>3 DEF ParentInv
<1> QED  BY <1>10, <1>11

\* The loop ends when as many children were waited for as there are: all.
LEMMA WaitEndsInv ==
    ASSUME NEW prog, NEW term \in BOOLEAN, NEW max, ParentInv(prog, term), Children \in Nat,
           P(prog, term, max)!WaitEnds
    PROVE  ParentInv(prog, term)'
<1>1. /\ pc[0] = "wait" /\ ~(i < Children) /\ pc' = [pc EXCEPT ![0] = "exit"]
      /\ UNCHANGED <<i, word, heap, buffer, output, status, faults>>
  BY DEF P!WaitEnds, P!Main, P!Wait, P!Goto
<1>2. /\ ParentTypes /\ PlaceInv /\ CopyInv /\ BufferInv(term) /\ ReportInv(prog)
      /\ 0 \in All /\ Kids \subseteq All /\ 0 \notin Kids /\ "exit" \in Labels /\ i \in 0..Children
  BY Members DEF ParentInv, ParentTypes, Labels
<1>3. /\ pc' \in [All -> Labels] /\ \A q \in All : pc'[q] = IF q = 0 THEN "exit" ELSE pc[q]
  BY <1>1, <1>2, Moves
<1>4. pc'[0] = "exit" /\ \A c \in Kids : pc'[c] = pc[c]
  BY <1>2, <1>3
<1>5. \A c \in Kids : pc[c] = "reaped"
  <2>1. IsFiniteSet(Kids) /\ Cardinality(Kids) = Children /\ Reaped \subseteq Kids
    BY FS_Interval DEF Kids, Reaped
  <2>2. Cardinality(Reaped) = Children
    BY <1>1, <1>2 DEF PlaceInv
  <2>3. Reaped = Kids
    BY <2>1, <2>2, FS_Subset
  <2> QED  BY <2>3 DEF Reaped
<1>10. status'[0] = 0 /\ \A c \in Kids : pc'[c] = pc[c] /\ status'[c] = status[c]
  BY <1>1, <1>2, <1>4 DEF PlaceInv
<1>6. PlaceInv'
  BY <1>2, <1>4, <1>5, <1>10 DEF PlaceInv
<1>7. ParentTypes' /\ CopyInv' /\ BufferInv(term)'
  BY <1>1, <1>2, <1>3, <1>4 DEF ParentTypes, CopyInv, BufferInv
<1>8. SameReports /\ SameCreations /\ SameLines
  BY <1>1 DEF SameReports, SameCreations, SameLines
<1>9. ReportInv(prog)'
  BY <1>1, <1>2, <1>4, <1>8, ReportsStay
<1>11. ASSUME prog = "fork" PROVE CreationInv(term)' /\ LineInv'
  <2>1. /\ Announced' = Announced /\ SameOver
        /\ \A p \in All : pc'[p] # "none" => pc[p] # "none"
    BY <1>1, <1>2, <1>3, <1>4 DEF Announced, SameOver, PlaceInv
  <2> QED  BY <1>8, <1>10, <1>11, <2>1, CreationsStay, LinesStay DEF ParentInv
<1> QED  BY <1>6, <1>7, <1>9, <1>11 DEF ParentInv

\* A child prints what it sees: the memory main had when it was made.
LEMMA RunInv ==
    ASSUME NEW prog, NEW term \in BOOLEAN, NEW max, ParentInv(prog, term), Children \in Nat,
           NEW c \in Kids, P(prog, term, max)!Run(c)
    PROVE  ParentInv(prog, term)'
<1>1. /\ pc[c] = "run" /\ pc' = [pc EXCEPT ![c] = "exit"]
      /\ UNCHANGED <<i, word, heap, faults>>
      /\ \E s \in Nat : status' = [status EXCEPT ![c] = s]
      /\ IF prog = "fork"
         THEN P(prog, term, max)!printf(c, <<"Child", c, word[c], heap[c]>>)
         ELSE UNCHANGED <<buffer, output>>
  <2>1. c - 1 \in Nat /\ 0 \in Nat /\ 1 \in Nat
    BY DEF Kids
  <2> QED  BY <2>1 DEF P!Run, P!Goto
<1>2. /\ ParentTypes /\ PlaceInv /\ CopyInv /\ BufferInv(term) /\ ReportInv(prog)
      /\ 0 \in All /\ Kids \subseteq All /\ 0 \notin Kids /\ c # 0 /\ c \in All /\ "exit" \in Labels
  BY Members DEF ParentInv, Labels
<1>3. /\ pc' \in [All -> Labels] /\ \A q \in All : pc'[q] = IF q = c THEN "exit" ELSE pc[q]
  BY <1>1, <1>2, Moves
<1>4. /\ pc'[0] = pc[0] /\ status'[0] = status[0] /\ status' \in [All -> Int]
      /\ \A d \in Kids : /\ pc'[d] = IF d = c THEN "exit" ELSE pc[d]
                         /\ d # c => status'[d] = status[d]
                         /\ d = c => status'[d] # -1 /\ status[d] # -1
  <2>1. PICK s \in Nat : status' = [status EXCEPT ![c] = s]
    BY <1>1
  <2>2. /\ status' \in [All -> Int]
        /\ \A q \in All : status'[q] = IF q = c THEN s ELSE status[q]
    BY <1>2, <2>1 DEF ParentTypes
  <2>3. s # -1 /\ status[c] # -1
    BY <1>1, <1>2, <2>1 DEF PlaceInv
  <2> QED  BY <1>2, <1>3, <2>2, <2>3
<1>5. PlaceInv'
  <2>1. Reaped' = Reaped
    BY <1>1, <1>4 DEF Reaped
  <2>2. \A d \in Kids : /\ pc'[d] = "none" <=> pc[d] = "none"
                        /\ pc'[d] = "reaped" <=> pc[d] = "reaped"
                        /\ pc'[d] \in {"none", "run", "exit", "ended", "reaped"}
                        /\ pc'[d] \notin {"ended", "reaped"} => status'[d] # -1
    BY <1>1, <1>2, <1>4 DEF PlaceInv
  <2> QED  BY <1>1, <1>2, <1>4, <2>1, <2>2 DEF PlaceInv
<1>6. CopyInv'
  BY <1>1, <1>2, <1>4 DEF CopyInv
<1>7. /\ Announced' = Announced /\ SameOver
      /\ \A p \in All : pc'[p] # "none" => pc[p] # "none"
  BY <1>1, <1>2, <1>3, <1>4, Members DEF Announced, SameOver
<1>8. ASSUME SameReports PROVE ReportInv(prog)'
  <2>1. \A d \in Kids : /\ pc'[d] = "reaped" <=> pc[d] = "reaped"
                        /\ pc[d] = "reaped" => status'[d] = status[d]
    BY <1>1, <1>4
  <2> QED  BY <1>2, <1>8, <2>1, ReportsStay
<1>9. CASE prog = "fork"
  <2>1. P(prog, term, max)!printf(c, ChildLine(c))
    BY <1>1, <1>2, <1>9 DEF ChildLine, CopyInv
  <2>2. Prints(term, c, ChildLine(c))
    BY <1>2, <2>1, Printing, ChildText
  <2>3. ParentTypes'
    BY <1>1, <1>2, <1>3, <1>4, <2>2 DEF ParentTypes, Prints
  <2>4. BufferInv(term)'
    BY <1>1, <1>2, <1>7, <2>2, BuffersStay
  <2>5. SameReports /\ SameCreations
    BY <1>2, <2>2, NoReport, NoCreation, ReportsDiffer, CreationsDiffer
  <2>6. CreationInv(term)'
    BY <1>7, <1>9, <2>5, CreationsStay DEF ParentInv
  <2>7. LineInv'
    <3> SUFFICES ASSUME NEW d \in Kids
                 PROVE  /\ status'[d] # -1 =>
                            Count(output', ChildLine(d)) + Count(buffer'[d], ChildLine(d)) =
                                IF pc'[d] \in {"exit", "ended", "reaped"} THEN 1 ELSE 0
                        /\ \A p \in All : p # d => Count(buffer'[p], ChildLine(d)) = 0
      BY DEF LineInv
    <3>1. /\ status[d] # -1 =>
                Count(output, ChildLine(d)) + Count(buffer[d], ChildLine(d)) =
                    IF pc[d] \in {"exit", "ended", "reaped"} THEN 1 ELSE 0
          /\ \A p \in All : p # d => Count(buffer[p], ChildLine(d)) = 0
          /\ Count(output, ChildLine(d)) \in Nat
          /\ \A p \in All : Count(buffer[p], ChildLine(d)) \in Nat
      BY <1>2, <1>9, Counts DEF ParentInv, LineInv
    <3>2. ChildLine(c) = ChildLine(d) <=> c = d
      BY LinesDiffer
    <3>3. /\ Count(output', ChildLine(d)) =
                Count(output, ChildLine(d)) + (IF term /\ c = d THEN 1 ELSE 0)
          /\ \A p \in All : Count(buffer'[p], ChildLine(d)) =
                Count(buffer[p], ChildLine(d)) + (IF ~term /\ p = c /\ c = d THEN 1 ELSE 0)
      BY <2>2, <3>2 DEF Prints
    <3>4. \A p \in All : p # d => Count(buffer'[p], ChildLine(d)) = 0
      BY <3>1, <3>3
    <3>5. d \in All
      BY <1>2
    <3>6. CASE d = c
      <4>1. Count(output, ChildLine(d)) + Count(buffer[d], ChildLine(d)) = 0
        BY <1>1, <1>4, <3>1, <3>6
      <4>2. pc'[d] = "exit"
        BY <1>4, <3>6
      <4> QED  BY <3>1, <3>3, <3>4, <3>5, <3>6, <4>1, <4>2
    <3>7. CASE d # c
      <4>1. pc'[d] = pc[d] /\ status'[d] = status[d]
        BY <1>4, <3>7
      <4> QED  BY <3>1, <3>3, <3>4, <3>5, <3>7, <4>1
    <3> QED  BY <3>6, <3>7
  <2> QED  BY <1>5, <1>6, <1>8, <1>9, <2>3, <2>4, <2>5, <2>6, <2>7 DEF ParentInv
<1>10. CASE prog # "fork"
  <2>1. UNCHANGED <<buffer, output>>
    BY <1>1, <1>10
  <2>2. ParentTypes' /\ BufferInv(term)' /\ SameReports
    BY <1>1, <1>2, <1>3, <1>4, <1>7, <2>1 DEF ParentTypes, BufferInv, SameReports, SameOver
  <2> QED  BY <1>5, <1>6, <1>8, <1>10, <2>2 DEF ParentInv
<1> QED  BY <1>9, <1>10

\* exit writes what is left in the buffer.
LEMMA ExitInv ==
    ASSUME NEW prog, NEW term \in BOOLEAN, NEW max, ParentInv(prog, term), Children \in Nat,
           NEW p \in All, P(prog, term, max)!Exit(p)
    PROVE  ParentInv(prog, term)'
<1>1. /\ pc[p] = "exit" /\ pc' = [pc EXCEPT ![p] = "ended"]
      /\ output' = output \o buffer[p] /\ buffer' = [buffer EXCEPT ![p] = <<>>]
      /\ UNCHANGED <<i, word, heap, status, faults>>
  BY DEF P!Exit, P!Goto, P!Flush
<1>2. /\ ParentTypes /\ PlaceInv /\ CopyInv /\ BufferInv(term) /\ ReportInv(prog)
      /\ 0 \in All /\ Kids \subseteq All /\ 0 \notin Kids /\ "ended" \in Labels
      /\ output \in Seq(Texts) /\ buffer \in [All -> Seq(Texts)] /\ buffer[p] \in Seq(Texts)
  BY Members DEF ParentInv, ParentTypes, Labels
<1>3. /\ pc' \in [All -> Labels] /\ \A q \in All : pc'[q] = IF q = p THEN "ended" ELSE pc[q]
  BY <1>1, <1>2, Moves
<1>4. <<>> \in Seq(Texts)
  OBVIOUS
<1>5. /\ buffer' \in [All -> Seq(Texts)]
      /\ \A q \in All : buffer'[q] = IF q = p THEN <<>> ELSE buffer[q]
  BY <1>1, <1>2, <1>4
<1>6. output' \in Seq(Texts)
  BY <1>1, <1>2
<1>7. ParentTypes' /\ CopyInv'
  BY <1>1, <1>2, <1>3, <1>5, <1>6 DEF ParentTypes, CopyInv
<1>8. BufferInv(term)'
  BY <1>1, <1>2, <1>3, <1>5 DEF BufferInv
<1>9. \A c \in Kids : pc'[c] = IF c = p THEN "ended" ELSE pc[c]
  BY <1>2, <1>3
<1>10. pc'[0] = IF p = 0 THEN "ended" ELSE pc[0]
  BY <1>2, <1>3
<1>11. \A c \in Kids : /\ pc'[c] = "reaped" <=> pc[c] = "reaped"
                       /\ pc'[c] = "none" <=> pc[c] = "none"
  BY <1>1, <1>9
<1>12. PlaceInv'
  <2>1. Reaped' = Reaped
    BY <1>11 DEF Reaped
  <2>2. \A c \in Kids : pc'[c] \in {"none", "run", "exit", "ended", "reaped"}
    BY <1>2, <1>9 DEF PlaceInv
  <2>3. /\ pc'[0] \in {"exit", "ended"} <=> pc[0] \in {"exit", "ended"}
        /\ pc'[0] = pc[0] \/ pc'[0] = "ended"
    BY <1>1, <1>10
  <2>4. status'[0] = status[0] /\ \A c \in Kids : status'[c] = status[c]
    BY <1>1
  <2>5. \A c \in Kids : pc'[c] \notin {"ended", "reaped"} => status'[c] # -1
    BY <1>2, <1>9, <2>4 DEF PlaceInv
  <2>6. \A c \in Kids : pc[c] \notin {"none", "reaped"} => pc'[c] \notin {"none", "reaped"}
    BY <1>11
  <2> QED  BY <1>1, <1>2, <1>11, <2>1, <2>2, <2>3, <2>4, <2>5, <2>6 DEF PlaceInv
<1>13. \A x : /\ Count(output', x) = Count(output, x) + Count(buffer[p], x)
              /\ Count(output, x) \in Nat /\ Count(buffer[p], x) \in Nat
              /\ Count(<<>>, x) = 0
  BY <1>1, <1>2, CountConcat, CountEmpty, Counts
<1>14. ReportInv(prog)'
  <2> SUFFICES ASSUME NEW c \in Kids, NEW x \in Int
               PROVE  /\ Count(output', Report(c, x)) + Count(buffer'[0], Report(c, x)) =
                            IF pc'[c] = "reaped" /\ x = Code(status'[c]) /\ (prog = "fork" \/ x # 0)
                            THEN 1 ELSE 0
                      /\ \A d \in Kids : Count(buffer'[d], Report(c, x)) = 0
    BY DEF ReportInv
  <2>1. /\ Count(output, Report(c, x)) + Count(buffer[0], Report(c, x)) =
            IF pc[c] = "reaped" /\ x = Code(status[c]) /\ (prog = "fork" \/ x # 0) THEN 1 ELSE 0
        /\ \A d \in Kids : Count(buffer[d], Report(c, x)) = 0
    BY <1>2 DEF ReportInv
  <2>2. \A d \in Kids : Count(buffer'[d], Report(c, x)) = 0
    BY <1>2, <1>5, <1>13, <2>1
  <2>3. Count(output', Report(c, x)) + Count(buffer'[0], Report(c, x)) =
            Count(output, Report(c, x)) + Count(buffer[0], Report(c, x))
    <3>1. CASE p = 0
      BY <1>2, <1>5, <1>13, <3>1
    <3>2. CASE p # 0
      <4>1. p \in Kids /\ buffer'[0] = buffer[0]
        BY <1>2, <1>5, <3>2, Members
      <4> QED  BY <1>13, <2>1, <4>1
    <3> QED  BY <3>1, <3>2
  <2> QED  BY <1>1, <1>11, <2>1, <2>2, <2>3
<1>15. ASSUME prog = "fork" PROVE CreationInv(term)'
  <2> SUFFICES ASSUME NEW k \in 0..(Children - 1)
               PROVE  /\ term => Count(output', Creation(k)) = IF k < Announced' THEN 1 ELSE 0
                      /\ ~term =>
                          /\ Count(output', Creation(k)) = Cardinality(Flushed(k)')
                          /\ \A q \in All : pc'[q] \notin {"none", "ended", "reaped"} =>
                              Count(buffer'[q], Creation(k)) = IF Carries(q, k)' THEN 1 ELSE 0
    BY DEF CreationInv
  <2>1. Announced' = Announced
    BY <1>1, <1>2, <1>10 DEF Announced
  <2>2. /\ term => Count(output, Creation(k)) = IF k < Announced THEN 1 ELSE 0
        /\ ~term =>
            /\ Count(output, Creation(k)) = Cardinality(Flushed(k))
            /\ \A q \in All : pc[q] \notin {"none", "ended", "reaped"} =>
                Count(buffer[q], Creation(k)) = IF Carries(q, k) THEN 1 ELSE 0
    BY <1>15 DEF ParentInv, CreationInv
  <2>3. CASE term
    <3>1. buffer[p] = <<>>
      BY <1>2, <2>3 DEF BufferInv
    <3> QED  BY <1>13, <2>1, <2>2, <2>3, <3>1
  <2>4. CASE ~term
    <3>1. Count(buffer[p], Creation(k)) = IF Carries(p, k) THEN 1 ELSE 0
      BY <1>1, <2>2, <2>4
    <3>2. status[p] # -1
      BY <1>1, <1>2, Members DEF PlaceInv
    <3>6. \A q : Carries(q, k)' <=> Carries(q, k)
      BY <2>1 DEF Carries
    <3>3. IsFiniteSet(Flushed(k)) /\ p \notin Flushed(k)
      <4>1. IsFiniteSet(All)
        <5>1. IsFiniteSet(Kids)
          BY FS_Interval DEF Kids
        <5>2. IsFiniteSet(Kids \cup {0})
          BY <5>1, FS_AddElement
        <5>3. Kids \cup {0} = All
          BY DEF All
        <5> QED  BY <5>2, <5>3
      <4>2. Flushed(k) \subseteq All /\ p \notin Flushed(k)
        BY <1>1 DEF Flushed
      <4> QED  BY <4>1, <4>2, FS_Subset
    <3>4. Count(output', Creation(k)) = Cardinality(Flushed(k)')
      <4>1. CASE Carries(p, k)
        <5>1. Flushed(k)' = Flushed(k) \cup {p}
          BY <1>1, <1>2, <1>3, <3>2, <3>6, <4>1 DEF Flushed
        <5>2. Cardinality(Flushed(k) \cup {p}) = Cardinality(Flushed(k)) + 1
          BY <3>3, FS_AddElement
        <5> QED  BY <1>13, <2>2, <2>4, <3>1, <4>1, <5>1, <5>2
      <4>2. CASE ~Carries(p, k)
        <5>1. Flushed(k)' = Flushed(k)
          BY <1>1, <1>2, <1>3, <3>6, <4>2 DEF Flushed
        <5> QED  BY <1>13, <2>2, <2>4, <3>1, <4>2, <5>1
      <4> QED  BY <4>1, <4>2
    <3>5. ASSUME NEW q \in All, pc'[q] \notin {"none", "ended", "reaped"}
          PROVE  Count(buffer'[q], Creation(k)) = IF Carries(q, k)' THEN 1 ELSE 0
      <4>1. pc'[q] = pc[q] /\ buffer'[q] = buffer[q]
        BY <1>3, <1>5, <3>5
      <4> QED  BY <2>1, <2>2, <2>4, <3>5, <4>1 DEF Carries
    <3> QED  BY <2>4, <3>4, <3>5
  <2> QED  BY <2>3, <2>4
<1>16. ASSUME prog = "fork" PROVE LineInv'
  <2> SUFFICES ASSUME NEW c \in Kids
               PROVE  /\ status'[c] # -1 =>
                            Count(output', ChildLine(c)) + Count(buffer'[c], ChildLine(c)) =
                                IF pc'[c] \in {"exit", "ended", "reaped"} THEN 1 ELSE 0
                      /\ \A q \in All : q # c => Count(buffer'[q], ChildLine(c)) = 0
    BY DEF LineInv
  <2>1. /\ status[c] # -1 =>
            Count(output, ChildLine(c)) + Count(buffer[c], ChildLine(c)) =
                IF pc[c] \in {"exit", "ended", "reaped"} THEN 1 ELSE 0
        /\ \A q \in All : q # c => Count(buffer[q], ChildLine(c)) = 0
    BY <1>16 DEF ParentInv, LineInv
  <2>2. \A q \in All : q # c => Count(buffer'[q], ChildLine(c)) = 0
    BY <1>5, <1>13, <2>1
  <2>3. Count(output', ChildLine(c)) + Count(buffer'[c], ChildLine(c)) =
            Count(output, ChildLine(c)) + Count(buffer[c], ChildLine(c))
    <3>1. CASE p = c
      BY <1>2, <1>5, <1>13, <3>1
    <3>2. CASE p # c
      <4>1. Count(buffer[p], ChildLine(c)) = 0 /\ buffer'[c] = buffer[c]
        BY <1>2, <1>5, <2>1, <3>2
      <4> QED  BY <1>13, <4>1
    <3> QED  BY <3>1, <3>2
  <2>4. /\ status'[c] = status[c]
        /\ pc'[c] \in {"exit", "ended", "reaped"} <=> pc[c] \in {"exit", "ended", "reaped"}
    BY <1>1, <1>9
  <2> QED  BY <2>1, <2>2, <2>3, <2>4
<1> QED  BY <1>7, <1>8, <1>12, <1>14, <1>15, <1>16 DEF ParentInv

LEMMA ForkingStep ==
    ASSUME NEW prog, NEW term \in BOOLEAN, NEW max, ParentInv(prog, term), Children \in Nat,
           P(prog, term, max)!Next
    PROVE  ParentInv(prog, term)'
<1>1. CASE P(prog, term, max)!Parent
  <2>1. P(prog, term, max)!Exit(0) => ParentInv(prog, term)'
    BY Members, ExitInv
  <2> QED  BY <1>1, <2>1, CreatingInv, ForkInv, ChangeInv, WaitForOneInv, WaitEndsInv
           DEF P!Parent, P!Main
<1>2. CASE P(prog, term, max)!ForkFails
  BY <1>2, FaultInv
<1>3. CASE \E c \in Kids : P(prog, term, max)!Child(c) \/ P(prog, term, max)!Killed(c)
  <2>1. \A c \in Kids : P(prog, term, max)!Exit(c) => ParentInv(prog, term)'
    BY Members, ExitInv
  <2> QED  BY <1>3, <2>1, RunInv, FaultInv DEF P!Child
<1> QED  BY <1>1, <1>2, <1>3 DEF P!Next, P!Ids, Kids

LEMMA ParentStart ==
    ASSUME NEW prog, NEW term \in BOOLEAN, NEW max, Children \in Nat, P(prog, term, max)!Init
    PROVE  ParentInv(prog, term)
<1>1. /\ pc = [p \in All |-> IF p = 0 THEN "print" ELSE "none"] /\ i = 0
      /\ word = [p \in All |-> "Global"] /\ heap = [p \in All |-> "unset"]
      /\ buffer = [p \in All |-> <<>>] /\ output = <<>>
      /\ status = [p \in All |-> 0] /\ faults = 0
  BY DEF P!Init, P!Procs, P!Main, P!Ids, All, Kids
<1>2. 0 \in All /\ Kids \subseteq All /\ 0 \notin Kids /\ \A c \in Kids : c > 0
  BY Members
<1>3. pc[0] = "print" /\ \A c \in Kids : pc[c] = "none"
  BY <1>1, <1>2
<1>4. ParentTypes
  <2>1. <<>> \in Seq(Texts)
    OBVIOUS
  <2>2. buffer \in [All -> Seq(Texts)] /\ output \in Seq(Texts)
    BY <1>1, <2>1
  <2>3. /\ pc \in [All -> Labels] /\ i \in 0..Children
        /\ status \in [All -> Int] /\ faults \in Nat
        /\ word \in [All -> {"Global", "parent_waz_here"}]
        /\ heap \in [All -> {"unset", "Parent_heap"}]
    BY <1>1 DEF Labels
  <2> QED  BY <2>2, <2>3 DEF ParentTypes
<1>5. PlaceInv /\ CopyInv /\ BufferInv(term)
  BY <1>1, <1>2, <1>3 DEF PlaceInv, CopyInv, BufferInv
<1>6. \A p \in All : buffer[p] = <<>>
  BY <1>1
<1>7. \A x : Count(output, x) = 0 /\ \A p \in All : Count(buffer[p], x) = 0
  BY <1>1, <1>6, CountEmpty
<1>8. ReportInv(prog)
  BY <1>2, <1>3, <1>7 DEF ReportInv
<1>9. CreationInv(term)
  <2>1. Announced = 0
    BY <1>1, <1>3 DEF Announced
  <2>2. ASSUME NEW k \in 0..(Children - 1)
        PROVE  Cardinality(Flushed(k)) = 0 /\ ~(k < Announced) /\ ~Carries(0, k)
    <3>1. Flushed(k) = {}
      BY <1>1 DEF Flushed
    <3> QED  BY <2>1, <3>1, FS_EmptySet DEF Carries
  <2>3. \A p \in All : pc[p] \notin {"none", "ended", "reaped"} => p = 0
    BY <1>1
  <2> QED  BY <1>2, <1>7, <2>2, <2>3 DEF CreationInv
<1>10. LineInv
  BY <1>2, <1>3, <1>7 DEF LineInv
<1> QED  BY <1>4, <1>5, <1>8, <1>9, <1>10 DEF ParentInv

\* What WaitsForAll and CopiedAtFork say, of a program and its stdout.
ChildrenRight ==
    \A k \in 1..Len(output) : output[k][1] = "Child" =>
        output[k][3] = "Global" /\ output[k][4] = "unset"

AllEnded == \A p \in All : pc[p] \in {"none", "ended", "reaped"}
MadeKids == {c \in Kids : pc[c] # "none"}
ExitedKids == {c \in MadeKids : status[c] # -1}

LinesRight == AllEnded => \A c \in ExitedKids : Count(output, ChildLine(c)) = 1

CreationsRight(term) ==
    AllEnded => \A k \in 0..(Children - 1) :
        Count(output, Creation(k)) =
            IF k # 0 /\ k \notin MadeKids THEN 0
            ELSE IF term THEN 1 ELSE 1 + Cardinality({c \in ExitedKids : k < c})

ReportsRight(prog) ==
    pc[0] = "ended" /\ status[0] = 0 =>
        \A c \in Kids :
            /\ pc[c] = "reaped"
            /\ Count(output, Report(c, Code(status[c]))) =
                IF prog = "fork" \/ Code(status[c]) # 0 THEN 1 ELSE 0

LEMMA ParentMeans ==
    ASSUME NEW prog, NEW term \in BOOLEAN, Children \in Nat, ParentInv(prog, term)
    PROVE  /\ ChildrenRight /\ ReportsRight(prog)
           /\ prog = "fork" => LinesRight /\ CreationsRight(term)
<1>1. /\ ParentTypes /\ PlaceInv /\ CopyInv /\ BufferInv(term) /\ ReportInv(prog)
      /\ 0 \in All /\ Kids \subseteq All /\ 0 \notin Kids
  BY Members DEF ParentInv
<1>2. \A k \in 1..Len(output) : output[k][1] = "Child" =>
            output[k][3] = "Global" /\ output[k][4] = "unset"
  <2> SUFFICES ASSUME NEW k \in 1..Len(output), output[k][1] = "Child"
               PROVE  output[k][3] = "Global" /\ output[k][4] = "unset"
    OBVIOUS
  <2>1. output[k] \in Texts
    BY <1>1 DEF ParentTypes
  <2>2. \E c \in Kids : output[k] = ChildLine(c)
    BY <2>1 DEF Texts, Creation, Report, ParentLine
  <2> QED  BY <2>2 DEF ChildLine
<1>3. ASSUME AllEnded, prog = "fork", NEW k \in 0..(Children - 1)
      PROVE  Count(output, Creation(k)) =
                IF k # 0 /\ k \notin MadeKids THEN 0
                ELSE IF term THEN 1 ELSE 1 + Cardinality({c \in ExitedKids : k < c})
  <2>1. pc[0] = "ended" /\ status[0] # -1
    BY <1>1, <1>3 DEF PlaceInv, AllEnded
  <2>2. k \in Nat /\ k < Children /\ (k # 0 => k \in Kids) /\ i \in Nat
    BY <1>1 DEF Kids, ParentTypes
  <2>3. /\ status[0] # 0 => /\ i < Children /\ Announced = i + 1
                           /\ \A c \in Kids : pc[c] = "none" <=> c > i
        /\ status[0] = 0 => Announced = Children /\ \A c \in Kids : pc[c] = "reaped"
    BY <1>1, <2>1 DEF PlaceInv, Announced
  <2>4. k < Announced <=> k = 0 \/ k \in MadeKids
    BY <2>2, <2>3, Members DEF MadeKids
  <2>5. /\ term => Count(output, Creation(k)) = IF k < Announced THEN 1 ELSE 0
        /\ ~term => Count(output, Creation(k)) = Cardinality(Flushed(k))
    BY <1>3 DEF ParentInv, CreationInv
  <2>6. CASE ~(k < Announced)
    <3>1. ASSUME NEW c \in Kids, k < c PROVE pc[c] = "none"
      BY <2>2, <2>3, <2>6, <3>1, Members
    <3>2. \A p : p \notin Flushed(k)
      BY <1>1, <2>6, <3>1, Members DEF Flushed, Carries
    <3>3. Flushed(k) = {}
      BY <3>2
    <3>4. Cardinality(Flushed(k)) = 0
      BY <3>3, FS_EmptySet
    <3> QED  BY <2>4, <2>5, <2>6, <3>4
  <2>7. CASE k < Announced
    <3> DEFINE Copies == {c \in ExitedKids : k < c}
    <3>1. \A p : p \in Flushed(k) <=> p = 0 \/ p \in Copies
      BY <1>1, <1>3, <2>1, <2>7, Members DEF Flushed, Carries, ExitedKids, MadeKids, AllEnded
    <3>2. 0 \notin Copies /\ Copies \subseteq Kids
      BY <1>1 DEF ExitedKids, MadeKids
    <3> HIDE DEF Copies
    <3>3. Flushed(k) = Copies \cup {0}
      BY <3>1
    <3>4. IsFiniteSet(Copies)
      <4>1. IsFiniteSet(Kids)
        BY FS_Interval DEF Kids
      <4> QED  BY <3>2, <4>1, FS_Subset
    <3>5. /\ Cardinality(Flushed(k)) = Cardinality(Copies) + 1 /\ Cardinality(Copies) \in Nat
      BY <3>2, <3>3, <3>4, FS_AddElement, FS_CardinalityType
    <3>6. Count(output, Creation(k)) = IF term THEN 1 ELSE 1 + Cardinality(Copies)
      BY <2>5, <2>7, <3>5
    <3> QED  BY <2>4, <2>7, <3>6 DEF Copies
  <2> QED  BY <2>6, <2>7
<1>8. ASSUME AllEnded, prog = "fork", NEW c \in ExitedKids
      PROVE  Count(output, ChildLine(c)) = 1
  <2>1. c \in Kids /\ status[c] # -1 /\ pc[c] \in {"ended", "reaped"}
    BY <1>1, <1>8 DEF ExitedKids, MadeKids, AllEnded
  <2>2. buffer[c] = <<>>
    BY <1>1, <2>1 DEF BufferInv
  <2>3. Count(buffer[c], ChildLine(c)) = 0 /\ Count(output, ChildLine(c)) \in Nat
    BY <1>1, <2>2, CountEmpty, Counts
  <2>4. Count(output, ChildLine(c)) + Count(buffer[c], ChildLine(c)) = 1
    BY <1>8, <2>1 DEF ParentInv, LineInv
  <2> QED  BY <2>3, <2>4
<1>4. ASSUME pc[0] = "ended", status[0] = 0, NEW c \in Kids
      PROVE  /\ pc[c] = "reaped"
             /\ Count(output, Report(c, Code(status[c]))) =
                    IF prog = "fork" \/ Code(status[c]) # 0 THEN 1 ELSE 0
  <2>1. pc[c] = "reaped" /\ buffer[0] = <<>>
    BY <1>1, <1>4 DEF PlaceInv, BufferInv
  <2>2. Code(status[c]) \in Int
    BY <1>1 DEF ParentTypes, Code
  <2>3. Count(output, Report(c, Code(status[c]))) + Count(buffer[0], Report(c, Code(status[c]))) =
            IF prog = "fork" \/ Code(status[c]) # 0 THEN 1 ELSE 0
    BY <1>1, <2>1, <2>2 DEF ReportInv
  <2>4. /\ Count(buffer[0], Report(c, Code(status[c]))) = 0
        /\ Count(output, Report(c, Code(status[c]))) \in Nat
    BY <1>1, <2>1, Counts, CountEmpty
  <2> QED  BY <2>1, <2>3, <2>4
<1>5. ChildrenRight
  BY <1>2 DEF ChildrenRight
<1>6. prog = "fork" => LinesRight /\ CreationsRight(term)
  BY <1>3, <1>8 DEF LinesRight, CreationsRight
<1>7. ReportsRight(prog)
  BY <1>4 DEF ReportsRight
<1> QED  BY <1>5, <1>6, <1>7

-----------------------------------------------------------------------------
LEMMA ParentsSame ==
    /\ Typed!Init => P("fork", TRUE, ForkFaults)!Init
    /\ Typed!Next => P("fork", TRUE, ForkFaults)!Next
    /\ Filed!Init => P("fork", FALSE, ForkFaults)!Init
    /\ Filed!Next => P("fork", FALSE, ForkFaults)!Next
    /\ News!Init => P("newshound", TRUE, NewsFaults)!Init
    /\ News!Next => P("newshound", TRUE, NewsFaults)!Next
<1> USE DEF P!Init, P!Next, P!Parent, P!Creating, P!Fork, P!Change, P!WaitForOne, P!WaitEnds,
            P!Exit, P!ForkFails, P!Child, P!Run, P!Killed, P!Goto, P!Fault, P!printf, P!Flush,
            P!Wait, P!WEXITSTATUS, P!Main, P!Ids, P!Procs
<1>1. /\ Typed!Init => P("fork", TRUE, ForkFaults)!Init
      /\ Typed!Next => P("fork", TRUE, ForkFaults)!Next
  BY Zenon DEF Typed!Init, Typed!Next, Typed!Parent, Typed!Creating, Typed!Fork, Typed!Change,
     Typed!WaitForOne, Typed!WaitEnds, Typed!Exit, Typed!ForkFails, Typed!Child, Typed!Run,
     Typed!Killed, Typed!Goto, Typed!Fault, Typed!printf, Typed!Flush, Typed!Wait,
     Typed!WEXITSTATUS, Typed!Main, Typed!Ids, Typed!Procs
<1>2. /\ Filed!Init => P("fork", FALSE, ForkFaults)!Init
      /\ Filed!Next => P("fork", FALSE, ForkFaults)!Next
  BY Zenon DEF Filed!Init, Filed!Next, Filed!Parent, Filed!Creating, Filed!Fork, Filed!Change,
     Filed!WaitForOne, Filed!WaitEnds, Filed!Exit, Filed!ForkFails, Filed!Child, Filed!Run,
     Filed!Killed, Filed!Goto, Filed!Fault, Filed!printf, Filed!Flush, Filed!Wait,
     Filed!WEXITSTATUS, Filed!Main, Filed!Ids, Filed!Procs
<1>3. /\ News!Init => P("newshound", TRUE, NewsFaults)!Init
      /\ News!Next => P("newshound", TRUE, NewsFaults)!Next
  BY Zenon DEF News!Init, News!Next, News!Parent, News!Creating, News!Fork, News!Change,
     News!WaitForOne, News!WaitEnds, News!Exit, News!ForkFails, News!Child, News!Run,
     News!Killed, News!Goto, News!Fault, News!printf, News!Flush, News!Wait,
     News!WEXITSTATUS, News!Main, News!Ids, News!Procs
<1> QED  BY <1>1, <1>2, <1>3

\* What holds in the behaviours of the forking parents.
ForkInvariant ==
    /\ which = "typed" => ParentInv("fork", TRUE)
    /\ which = "filed" => ParentInv("fork", FALSE)
    /\ which = "news" => ParentInv("newshound", TRUE)

LEMMA ForkStart == Init => ForkInvariant
<1> SUFFICES ASSUME Init PROVE ForkInvariant
    OBVIOUS
<1>1. /\ which = "typed" => Typed!Init
      /\ which = "filed" => Filed!Init
      /\ which = "news" => News!Init
  BY DEF Init
<1> QED  BY <1>1, ParentsSame, ParentStart, ProcessesAssumption DEF ForkInvariant

LEMMA ParentQuiet ==
    ASSUME NEW prog, NEW term, ParentInv(prog, term), UNCHANGED forkvars
    PROVE  ParentInv(prog, term)'
<1>1. UNCHANGED <<pc, i, word, heap, buffer, output, status, faults>>
  BY DEF forkvars
<1>2. Reaped' = Reaped
  BY <1>1 DEF Reaped
<1>3. ParentTypes' /\ PlaceInv' /\ CopyInv' /\ BufferInv(term)' /\ ReportInv(prog)'
  BY <1>1, <1>2 DEF ParentInv, ParentTypes, PlaceInv, CopyInv, BufferInv, ReportInv
<1>4. ASSUME prog = "fork" PROVE CreationInv(term)' /\ LineInv'
  <2>1. Announced' = Announced
    BY <1>1 DEF Announced
  <2>2. \A k : Flushed(k)' = Flushed(k) /\ \A p : Carries(p, k)' <=> Carries(p, k)
    BY <1>1, <2>1 DEF Flushed, Carries
  <2> QED  BY <1>1, <1>4, <2>1, <2>2 DEF ParentInv, CreationInv, LineInv
<1> QED  BY <1>3, <1>4 DEF ParentInv

LEMMA ForkStep == ForkInvariant /\ [Next]_vars => ForkInvariant'
<1> SUFFICES ASSUME ForkInvariant, [Next]_vars PROVE ForkInvariant'
    OBVIOUS
<1>1. /\ which' = which
      /\ which = "typed" => Typed!Next \/ UNCHANGED forkvars
      /\ which = "filed" => Filed!Next \/ UNCHANGED forkvars
      /\ which = "news" => News!Next \/ UNCHANGED forkvars
  BY DEF Next, Of, vars
<1>2. CASE which = "typed"
  BY <1>1, <1>2, ParentsSame, ForkingStep, ParentQuiet, ProcessesAssumption DEF ForkInvariant
<1>3. CASE which = "filed"
  BY <1>1, <1>3, ParentsSame, ForkingStep, ParentQuiet, ProcessesAssumption DEF ForkInvariant
<1>4. CASE which = "news"
  BY <1>1, <1>4, ParentsSame, ForkingStep, ParentQuiet, ProcessesAssumption DEF ForkInvariant
<1> QED  BY <1>1, <1>2, <1>3, <1>4 DEF ForkInvariant

LEMMA ParentsMean == ForkInvariant => ParentsRight
<1>1. /\ \A x : Typed!Times(x) = Count(output, x)
      /\ \A x : Filed!Times(x) = Count(output, x)
      /\ \A x : News!Times(x) = Count(output, x)
  BY Zenon DEF Typed!Times, Filed!Times, News!Times, Count, Typed!Cardinality,
     Filed!Cardinality, News!Cardinality, Cardinality
<1>2. /\ ParentInv("fork", TRUE) => Typed!CopiedAtFork /\ Typed!WaitsForAll
      /\ ParentInv("fork", FALSE) => Filed!CopiedAtFork /\ Filed!WaitsForAll
      /\ ParentInv("newshound", TRUE) => News!CopiedAtFork /\ News!WaitsForAll
  <2>1. ASSUME ParentInv("fork", TRUE) PROVE Typed!CopiedAtFork /\ Typed!WaitsForAll
    <3>1. ChildrenRight /\ LinesRight /\ CreationsRight(TRUE) /\ ReportsRight("fork")
      BY <2>1, ParentMeans, ProcessesAssumption
    <3>2. Typed!CopiedAtFork
      <4>1. Typed!Ended <=> AllEnded
        BY DEF Typed!Ended, Typed!Procs, Typed!Main, Typed!Ids, AllEnded, All, Kids
      <4>2. Typed!Made = MadeKids /\ Typed!Exited = ExitedKids
        BY DEF Typed!Made, Typed!Exited, Typed!Ids, MadeKids, ExitedKids, Kids
      <4>3. /\ Typed!Ended => \A c \in ExitedKids : Typed!Times(ChildLine(c)) = 1
            /\ Typed!Ended => \A k \in 0..(Children - 1) :
                Typed!Times(Creation(k)) =
                    IF k # 0 /\ k \notin MadeKids THEN 0
                    ELSE IF TRUE THEN 1 ELSE 1 + Cardinality({c \in ExitedKids : k < c})
        BY <1>1, <3>1, <4>1 DEF LinesRight, CreationsRight
      <4> QED  BY <3>1, <4>2, <4>3 DEF ChildrenRight, Typed!CopiedAtFork, ChildLine, Creation
    <3>3. Typed!WaitsForAll
      BY <1>1, <3>1 DEF ReportsRight, Typed!WaitsForAll, Typed!Main, Typed!Ids, Typed!WEXITSTATUS,
         Code, Kids, Report
    <3> QED  BY <3>2, <3>3
  <2>2. ASSUME ParentInv("fork", FALSE) PROVE Filed!CopiedAtFork /\ Filed!WaitsForAll
    <3>1. ChildrenRight /\ LinesRight /\ CreationsRight(FALSE) /\ ReportsRight("fork")
      BY <2>2, ParentMeans, ProcessesAssumption
    <3>2. Filed!CopiedAtFork
      <4>1. Filed!Ended <=> AllEnded
        BY DEF Filed!Ended, Filed!Procs, Filed!Main, Filed!Ids, AllEnded, All, Kids
      <4>2. Filed!Made = MadeKids /\ Filed!Exited = ExitedKids
        BY DEF Filed!Made, Filed!Exited, Filed!Ids, MadeKids, ExitedKids, Kids
      <4>3. /\ Filed!Ended => \A c \in ExitedKids : Filed!Times(ChildLine(c)) = 1
            /\ Filed!Ended => \A k \in 0..(Children - 1) :
                Filed!Times(Creation(k)) =
                    IF k # 0 /\ k \notin MadeKids THEN 0
                    ELSE IF FALSE THEN 1 ELSE 1 + Cardinality({c \in ExitedKids : k < c})
        BY <1>1, <3>1, <4>1 DEF LinesRight, CreationsRight
      <4>4. \A S : Filed!Cardinality(S) = Cardinality(S)
        BY Zenon DEF Filed!Cardinality, Cardinality
      <4> QED  BY <3>1, <4>2, <4>3, <4>4 DEF ChildrenRight, Filed!CopiedAtFork, ChildLine, Creation
    <3>3. Filed!WaitsForAll
      BY <1>1, <3>1 DEF ReportsRight, Filed!WaitsForAll, Filed!Main, Filed!Ids, Filed!WEXITSTATUS,
         Code, Kids, Report
    <3> QED  BY <3>2, <3>3
  <2>3. ASSUME ParentInv("newshound", TRUE) PROVE News!CopiedAtFork /\ News!WaitsForAll
    <3>1. ChildrenRight /\ ReportsRight("newshound")
      BY <2>3, ParentMeans, ProcessesAssumption
    <3>2. News!CopiedAtFork
      BY <3>1 DEF ChildrenRight, News!CopiedAtFork
    <3>3. News!WaitsForAll
      BY <1>1, <3>1 DEF ReportsRight, News!WaitsForAll, News!Main, News!Ids, News!WEXITSTATUS,
         Code, Kids, Report
    <3> QED  BY <3>2, <3>3
  <2> QED  BY <2>1, <2>2, <2>3
<1> QED  BY <1>2 DEF ForkInvariant, ParentsRight

\* Whatever fails, what a child prints is a copy of main's memory at the fork,
\* each child that was not killed prints its line once, and an announcement is
\* printed by main and again by exactly the later children that got it in their
\* copy of the buffer and were not killed.  When no fork failed, main ends after
\* it has waited for every child, and has reported the code of each (newshound:
\* of each that exited, if not 0) once.  For any number of children and faults.
THEOREM ParentsCorrect == Spec => []ParentsRight
<1> QED  BY ForkStart, ForkStep, ParentsMean, PTL DEF Spec

-----------------------------------------------------------------------------
(***************************************************************************)
(* The web servers.                                                        *)
(***************************************************************************)
T(svc, inputs) == INSTANCE TcpServer WITH
    Service <- svc, Inputs <- inputs, MaxFaults <- WebFaults, faults <- failures

\* Characters.  Those of the replies are named for the provers, to which STRING
\* is any set.
Char == STRING \cup Nat \cup {"\n", "s", "e", "h", "b"}
Chars == Seq(Char)
Behind(s, k) == SubSeq(s, k + 1, Len(s))

LEMMA Least ==
    ASSUME NEW S \in SUBSET Nat, S # {}
    PROVE  \E m \in S : \A k \in S : m <= k
<1>1. PICK m \in S : \A k \in S : <<k, m>> \notin OpToRel(<, Nat)
  BY NatLessThanWellFounded, WFMin, Zenon
<1>2. \A k \in S : ~(k < m)
  BY <1>1 DEF OpToRel
<1> QED  BY <1>2

\* Induction up to a bound.
LEMMA BoundedInduction ==
    ASSUME NEW N \in Nat, NEW S, 0 \in S, \A k \in 1..N : k - 1 \in S => k \in S
    PROVE  \A k \in 0..N : k \in S
<1> DEFINE Q == {k \in 0..N : k \notin S}
<1> SUFFICES ASSUME Q # {} PROVE FALSE
    OBVIOUS
<1>0. Q \in SUBSET Nat
  OBVIOUS
<1>1. PICK m \in Q : \A k \in Q : m <= k
  <2> HIDE DEF Q
  <2> QED  BY <1>0, Least
<1>2. m \in 1..N /\ m - 1 \in 0..N /\ m - 1 \in S
  BY <1>1
<1> QED  BY <1>1, <1>2

\* step[k] makes a member of S of one; g is what repeating it makes of e.
Steps(step, N, S) == step \in [1..N -> [S -> S]]
Repeats(g, N, S, e, step) ==
    g \in [0..N -> S] /\ g[0] = e /\ \A k \in 1..N : g[k] = step[k][g[k - 1]]

LEMMA RecursionExists ==
    ASSUME NEW S, NEW e \in S, NEW N \in Nat, NEW step, Steps(step, N, S)
    PROVE  \E g : Repeats(g, N, S, e, step)
<1> USE DEF Steps, Repeats
<1> DEFINE Upto(m, g) == g[0] = e /\ \A k \in 1..m : g[k] = step[k][g[k - 1]]
           Q == {m \in Nat : \E g \in [0..m -> S] : Upto(m, g)}
<1>1. 0 \in Q
  <2>1. [k \in 0..0 |-> e] \in [0..0 -> S] /\ Upto(0, [k \in 0..0 |-> e])
    OBVIOUS
  <2> QED  BY <2>1
<1>2. \A m \in 1..N : m - 1 \in Q => m \in Q
  <2> SUFFICES ASSUME NEW m \in 1..N, m - 1 \in Q PROVE m \in Q
    OBVIOUS
  <2>1. PICK g \in [0..(m - 1) -> S] : Upto(m - 1, g)
    OBVIOUS
  <2> DEFINE h == [k \in 0..m |-> IF k = m THEN step[m][g[m - 1]] ELSE g[k]]
  <2>2. g[m - 1] \in S /\ step[m][g[m - 1]] \in S
    OBVIOUS
  <2>3. h \in [0..m -> S]
    BY <2>2
  <2>4. \A k \in 0..(m - 1) : h[k] = g[k]
    OBVIOUS
  <2>5. h[m] = step[m][g[m - 1]]
    OBVIOUS
  <2> HIDE DEF h
  <2>6. h[0] = e
    BY <2>1, <2>4
  <2>7. ASSUME NEW k \in 1..m PROVE h[k] = step[k][h[k - 1]]
    <3>1. CASE k = m
      BY <2>4, <2>5, <3>1
    <3>2. CASE k # m
      <4>1. k \in 1..(m - 1) /\ k - 1 \in 0..(m - 1) /\ k \in 0..(m - 1)
        BY <3>2
      <4> QED  BY <2>1, <2>4, <4>1
    <3> QED  BY <3>1, <3>2
  <2>8. Upto(m, h)
    BY <2>6, <2>7
  <2> QED  BY <2>3, <2>8
<1> HIDE DEF Q
<1>3. \A m \in 0..N : m \in Q
  BY <1>1, <1>2, BoundedInduction
<1>4. N \in Q
  BY <1>3
<1> QED  BY <1>4 DEF Q

-----------------------------------------------------------------------------
LEMMA Joined ==
    ASSUME NEW s \in Chars, NEW t \in Chars
    PROVE  /\ s \o t \in Chars /\ Len(s \o t) = Len(s) + Len(t)
           /\ \A k \in 1..Len(s) : (s \o t)[k] = s[k]
           /\ \A k \in 1..Len(t) : (s \o t)[Len(s) + k] = t[k]
<1>1. Len(s) \in Nat /\ Len(t) \in Nat
  BY DEF Chars
<1>2. /\ s \o t \in Chars /\ Len(s \o t) = Len(s) + Len(t)
      /\ \A k \in 1..Len(s) + Len(t) : (s \o t)[k] = IF k <= Len(s) THEN s[k] ELSE t[k - Len(s)]
  BY ConcatProperties, Zenon DEF Chars
<1> QED  BY <1>1, <1>2

LEMMA Assoc ==
    ASSUME NEW s \in Chars, NEW t \in Chars, NEW v \in Chars
    PROVE  (s \o t) \o v = s \o (t \o v)
BY ConcatAssociative DEF Chars

LEMMA NothingJoined ==
    ASSUME NEW s \in Chars
    PROVE  s \o <<>> = s /\ <<>> \o s = s /\ <<>> \in Chars
<1>1. s \in Seq(Char)
  BY DEF Chars
<1> QED  BY <1>1, ConcatEmptySeq, EmptySeq DEF Chars

LEMMA JoinedEmpty ==
    ASSUME NEW s \in Chars, NEW t \in Chars, s \o t = <<>>
    PROVE  s = <<>> /\ t = <<>>
BY ConcatEqualIffEmpty DEF Chars

LEMMA LenChars ==
    ASSUME NEW s \in Chars
    PROVE  Len(s) \in Nat /\ (s = <<>> <=> Len(s) = 0) /\ \A k \in 1..Len(s) : s[k] \in Char
BY EmptySeq DEF Chars

LEMMA SameChars ==
    ASSUME NEW s \in Chars, NEW t \in Chars, Len(s) = Len(t), \A k \in 1..Len(s) : s[k] = t[k]
    PROVE  s = t
<1>1. s \in Seq(Char) /\ t \in Seq(Char)
  BY DEF Chars
<1> QED  BY <1>1, SeqEqual, Zenon

\* A text is cut in two.
LEMMA Cut ==
    ASSUME NEW s \in Chars, NEW n \in 0..Len(s)
    PROVE  /\ SubSeq(s, 1, n) \in Chars /\ Len(SubSeq(s, 1, n)) = n
           /\ Behind(s, n) \in Chars /\ Len(Behind(s, n)) = Len(s) - n
           /\ \A k \in 1..n : SubSeq(s, 1, n)[k] = s[k]
           /\ \A k \in 1..(Len(s) - n) : Behind(s, n)[k] = s[n + k]
           /\ SubSeq(s, 1, n) \o Behind(s, n) = s
<1> USE DEF Chars, Behind
<1>1. Len(s) \in Nat /\ \A k \in 1..Len(s) : s[k] \in Char
  OBVIOUS
<1>2. /\ SubSeq(s, 1, n) \in Chars /\ Len(SubSeq(s, 1, n)) = n
      /\ \A k \in 1..n : SubSeq(s, 1, n)[k] = s[k]
  BY <1>1, SubSeqProperties
<1>3. /\ Behind(s, n) \in Chars /\ Len(Behind(s, n)) = Len(s) - n
      /\ \A k \in 1..(Len(s) - n) : Behind(s, n)[k] = s[n + k]
  BY <1>1, SubSeqProperties
<1>4. SubSeq(s, 1, n) \o Behind(s, n) = SubSeq(s, 1, Len(s))
  <2>1. /\ s \in Seq(Char) /\ 1 \in 1..Len(s) + 1 /\ n \in 1 - 1..Len(s)
        /\ Len(s) \in n..Len(s)
    BY <1>1
  <2>2. SubSeq(s, 1, n) \o SubSeq(s, n + 1, Len(s)) = SubSeq(s, 1, Len(s))
    BY <2>1, ConcatAdjacentSubSeq, Zenon
  <2> QED  BY <2>2
<1>5. SubSeq(s, 1, Len(s)) = s
  BY SubSeqFull
<1> QED  BY <1>2, <1>3, <1>4, <1>5, Zenon

LEMMA CutAtEnd ==
    ASSUME NEW s \in Chars
    PROVE  SubSeq(s, 1, Len(s)) = s /\ Behind(s, Len(s)) = <<>> /\ Behind(s, 0) = s
<1>1. Len(s) \in 0..Len(s) /\ 0 \in 0..Len(s)
  BY LenChars
<1>2. SubSeq(s, 1, Len(s)) = s
  BY SubSeqFull DEF Chars
<1>3. Behind(s, 0) = s
  BY <1>2, <1>1 DEF Behind
<1>4. Behind(s, Len(s)) \in Chars /\ Len(Behind(s, Len(s))) = 0
  BY <1>1, Cut, LenChars
<1>5. Behind(s, Len(s)) = <<>>
  BY <1>4, LenChars
<1> QED  BY <1>2, <1>3, <1>5

\* What is left of a text begins with t: t is the next part of the text.
LEMMA NextPart ==
    ASSUME NEW text \in Chars, NEW k \in 0..Len(text), NEW t \in Chars, NEW v \in Chars,
           Behind(text, k) = t \o v
    PROVE  /\ k + Len(t) \in 0..Len(text) /\ v = Behind(text, k + Len(t))
           /\ \A m \in 1..Len(t) : t[m] = text[k + m]
<1>0. Len(text) \in Nat /\ Len(t) \in Nat /\ Len(v) \in Nat
  BY LenChars
<1>1. /\ Len(Behind(text, k)) = Len(text) - k
      /\ \A m \in 1..(Len(text) - k) : Behind(text, k)[m] = text[k + m]
  BY Cut
<1>2. /\ Len(t \o v) = Len(t) + Len(v)
      /\ \A m \in 1..Len(t) : (t \o v)[m] = t[m]
      /\ \A m \in 1..Len(v) : (t \o v)[Len(t) + m] = v[m]
  BY Joined
<1>3. k + Len(t) \in 0..Len(text) /\ Len(v) = Len(text) - (k + Len(t))
  BY <1>0, <1>1, <1>2
<1>4. \A m \in 1..Len(t) : t[m] = text[k + m]
  <2> SUFFICES ASSUME NEW m \in 1..Len(t) PROVE t[m] = text[k + m]
      OBVIOUS
  <2>1. m \in 1..(Len(text) - k)
    BY <1>0, <1>3
  <2> QED  BY <1>1, <1>2, <2>1
<1>5. \A m \in 1..Len(v) : v[m] = text[(k + Len(t)) + m]
  <2> SUFFICES ASSUME NEW m \in 1..Len(v) PROVE v[m] = text[(k + Len(t)) + m]
      OBVIOUS
  <2>1. Len(t) + m \in 1..(Len(text) - k)
    BY <1>0, <1>3
  <2>2. (t \o v)[Len(t) + m] = text[k + (Len(t) + m)]
    BY <1>1, <2>1
  <2>3. k + (Len(t) + m) = (k + Len(t)) + m
    BY <1>0
  <2> QED  BY <1>2, <2>2, <2>3
<1>6. /\ Behind(text, k + Len(t)) \in Chars
      /\ Len(Behind(text, k + Len(t))) = Len(text) - (k + Len(t))
      /\ \A m \in 1..(Len(text) - (k + Len(t))) :
            Behind(text, k + Len(t))[m] = text[(k + Len(t)) + m]
  BY <1>3, Cut
<1>7. v = Behind(text, k + Len(t))
  BY <1>3, <1>5, <1>6, SameChars
<1> QED  BY <1>3, <1>4, <1>7

-----------------------------------------------------------------------------
(***************************************************************************)
(* How lines are read.  A line that has "has" characters may end at        *)
(* position k of what follows.                                             *)
(***************************************************************************)
ProgramAt(pcs) == [pc : pcs, buf : Chars, line : Chars, out : Chars, shown : Chars]

IsEnd(s, has, k) == s[k] = "\n" \/ has + k = MAXLINE - 1
NoEnd(s, has, n) == \A k \in 1..n : ~IsEnd(s, has, k)
FirstEnd(s, has, j) == j \in 1..Len(s) /\ IsEnd(s, has, j) /\ NoEnd(s, has, j - 1)

\* What readline makes of r: x, which goes on, or has a line.
GoesOn(r, s, x) ==
    NoEnd(s, Len(r.line), Len(s)) /\ x = [r EXCEPT !.line = r.line \o s, !.buf = <<>>]
HasLine(r, s, j, x) ==
    /\ FirstEnd(s, Len(r.line), j)
    /\ x = [r EXCEPT !.line = r.line \o SubSeq(s, 1, j), !.buf = Behind(s, j), !.pc = "got"]

LEMMA ReadLine ==
    ASSUME NEW svc, NEW inputs, NEW r, NEW s \in Chars
    PROVE  \/ GoesOn(r, s, T(svc, inputs)!readline(r, s))
           \/ \E j \in 1..Len(s) : HasLine(r, s, j, T(svc, inputs)!readline(r, s))
<1> DEFINE ends == T(svc, inputs)!LineEnds(s, Len(r.line))
           j == T(svc, inputs)!First(ends)
<1>1. ends = {k \in 1..Len(s) : IsEnd(s, Len(r.line), k)}
  BY DEF T!LineEnds, T!NL, IsEnd
<1>2. CASE ends = {}
  <2>1. T(svc, inputs)!readline(r, s) = [r EXCEPT !.line = r.line \o s, !.buf = <<>>]
    BY <1>2 DEF T!readline
  <2>2. NoEnd(s, Len(r.line), Len(s))
    BY <1>1, <1>2 DEF NoEnd
  <2> QED  BY <2>1, <2>2 DEF GoesOn
<1>3. CASE ends # {}
  <2>1. ends \in SUBSET Nat
    BY <1>1
  <2> HIDE DEF ends
  <2>2. \E k \in ends : \A m \in ends : k <= m
    BY <1>3, <2>1, Least
  <2>3. j \in ends /\ \A m \in ends : j <= m
    BY <2>2 DEF T!First
  <2> HIDE DEF j
  <2>4. j \in 1..Len(s) /\ FirstEnd(s, Len(r.line), j)
    BY <1>1, <2>3 DEF FirstEnd, NoEnd
  <2>5. T(svc, inputs)!readline(r, s)
          = [r EXCEPT !.line = r.line \o SubSeq(s, 1, j), !.buf = Behind(s, j), !.pc = "got"]
    BY <1>3 DEF T!readline, T!my_read, Behind, ends, j
  <2> QED  BY <2>4, <2>5 DEF HasLine
<1> QED  BY <1>2, <1>3

-----------------------------------------------------------------------------
(***************************************************************************)
(* The lines of a text.                                                    *)
(***************************************************************************)
LineState == [line : Chars, said : Chars]

\* str_echo after one more character.
Hears(svc, inputs, x, char) ==
    LET line == Append(x.line, char)
    IN IF char = "\n" \/ Len(line) = MAXLINE - 1
       THEN [line |-> <<>>, said |-> x.said \o T(svc, inputs)!Reply(line)]
       ELSE [line |-> line, said |-> x.said]

LEMMA TwoChars ==
    ASSUME NEW S, NEW a \in S, NEW b \in S
    PROVE  <<a, b>> \in Seq(S)
OBVIOUS

LEMMA ReplyChars ==
    ASSUME NEW svc, NEW inputs, NEW s
    PROVE  /\ T(svc, inputs)!Reply(s) \in Chars /\ Len(T(svc, inputs)!Reply(s)) = 2
           /\ T(svc, inputs)!Reply(s)[1] # "\n" /\ T(svc, inputs)!Reply(s)[2] = "\n"
<1>1. T(svc, inputs)!Reply(s) \in {<<"s", "\n">>, <<"e", "\n">>}
  BY DEF T!Reply, T!NL
<1>2. <<"s", "\n">> \in Chars /\ <<"e", "\n">> \in Chars
  <2>1. "s" \in Char /\ "e" \in Char /\ "\n" \in Char
    BY DEF Char
  <2> QED  BY <2>1, TwoChars DEF Chars
<1>3. /\ Len(<<"s", "\n">>) = 2 /\ <<"s", "\n">>[1] = "s" /\ <<"s", "\n">>[2] = "\n"
      /\ Len(<<"e", "\n">>) = 2 /\ <<"e", "\n">>[1] = "e" /\ <<"e", "\n">>[2] = "\n"
  OBVIOUS
<1>4. "s" # "\n" /\ "e" # "\n"
  OBVIOUS
<1> QED  BY <1>1, <1>2, <1>3, <1>4

LEMMA HearsState ==
    ASSUME NEW svc, NEW inputs, NEW x \in LineState, NEW char \in Char
    PROVE  Hears(svc, inputs, x, char) \in LineState
<1>1. Append(x.line, char) \in Chars
  BY DEF LineState, Chars
<1>2. x.said \o T(svc, inputs)!Reply(Append(x.line, char)) \in Chars
  BY ReplyChars, Joined DEF LineState
<1>3. <<>> \in Chars
  BY DEF Chars
<1> QED  BY <1>1, <1>2, <1>3 DEF LineState, Hears

LEMMA HearsSaid ==
    ASSUME NEW svc, NEW inputs, NEW x \in LineState, NEW char \in Char
    PROVE  \E w \in Chars : Hears(svc, inputs, x, char).said = x.said \o w
<1>1. CASE char = "\n" \/ Len(Append(x.line, char)) = MAXLINE - 1
  <2>1. Hears(svc, inputs, x, char).said = x.said \o T(svc, inputs)!Reply(Append(x.line, char))
    BY <1>1 DEF Hears
  <2> QED  BY <2>1, ReplyChars
<1>2. CASE ~(char = "\n" \/ Len(Append(x.line, char)) = MAXLINE - 1)
  <2>1. Hears(svc, inputs, x, char).said = x.said
    BY <1>2 DEF Hears
  <2>2. x.said \o <<>> = x.said /\ <<>> \in Chars
    BY NothingJoined DEF LineState
  <2> QED  BY <2>1, <2>2
<1> QED  BY <1>1, <1>2

HeardAs(svc, inputs, text, h) ==
    /\ h \in [0..Len(text) -> LineState]
    /\ h[0] = [line |-> <<>>, said |-> <<>>]
    /\ \A k \in 1..Len(text) : h[k] = Hears(svc, inputs, h[k - 1], text[k])

LEMMA HeardSteps ==
    ASSUME NEW svc, NEW inputs, NEW text \in Chars
    PROVE  HeardAs(svc, inputs, text, T(svc, inputs)!Heard(text))
<1> DEFINE N == Len(text)
           e == [line |-> <<>>, said |-> <<>>]
           step == [k \in 1..N |-> [x \in LineState |-> Hears(svc, inputs, x, text[k])]]
           IsHeard(h) == h = [k \in 0..N |-> IF k = 0 THEN e
                                             ELSE Hears(svc, inputs, h[k - 1], text[k])]
           H == T(svc, inputs)!Heard(text)
<1>1. N \in Nat /\ \A k \in 1..N : text[k] \in Char
  BY LenChars
<1>2. e \in LineState
  BY DEF LineState, Chars
<1>3. Steps(step, N, LineState)
  <2> SUFFICES ASSUME NEW k \in 1..N, NEW x \in LineState
               PROVE  Hears(svc, inputs, x, text[k]) \in LineState
      BY DEF Steps
  <2> QED  BY <1>1, HearsState
<1>4. \E h : IsHeard(h)
  <2> HIDE DEF N, e, step
  <2>1. PICK h : Repeats(h, N, LineState, e, step)
    BY <1>1, <1>2, <1>3, RecursionExists
  <2>2. \A k \in 1..N : h[k - 1] \in LineState
    BY <1>1, <2>1 DEF Repeats
  <2>3. \A k \in 1..N : h[k] = Hears(svc, inputs, h[k - 1], text[k])
    BY <2>1, <2>2 DEF Repeats, step
  <2>4. h = [k \in 0..N |-> h[k]] /\ h[0] = e
    BY <2>1 DEF Repeats
  <2>5. [k \in 0..N |-> h[k]]
          = [k \in 0..N |-> IF k = 0 THEN e ELSE Hears(svc, inputs, h[k - 1], text[k])]
    <3>1. \A k \in 0..N : h[k] = IF k = 0 THEN e ELSE Hears(svc, inputs, h[k - 1], text[k])
      <4> SUFFICES ASSUME NEW k \in 0..N
                   PROVE  h[k] = IF k = 0 THEN e ELSE Hears(svc, inputs, h[k - 1], text[k])
          OBVIOUS
      <4>1. k # 0 => k \in 1..N
        BY <1>1
      <4> QED  BY <2>3, <2>4, <4>1, Zenon
    <3> QED  BY <3>1, Zenon
  <2> QED  BY <2>4, <2>5
<1>5. H = CHOOSE h : IsHeard(h)
  BY Zenon DEF T!Heard, T!NL, Hears
<1> HIDE DEF N, e, step, H
<1>6. IsHeard(H)
  BY <1>4, <1>5, Zenon
<1> HIDE DEF IsHeard
<1>7. H[0] = e /\ \A k \in 1..N : H[k] = Hears(svc, inputs, H[k - 1], text[k])
  BY <1>1, <1>6 DEF IsHeard
<1>8. \A k \in 0..N : H[k] \in LineState
  <2> DEFINE S == {k \in 0..N : H[k] \in LineState}
  <2>1. 0 \in S
    BY <1>1, <1>2, <1>7
  <2>2. \A k \in 1..N : k - 1 \in S => k \in S
    <3> SUFFICES ASSUME NEW k \in 1..N, k - 1 \in S PROVE k \in S
        OBVIOUS
    <3>1. k \in 0..N /\ H[k - 1] \in LineState /\ text[k] \in Char
      BY <1>1
    <3>2. Hears(svc, inputs, H[k - 1], text[k]) \in LineState
      BY <3>1, HearsState
    <3> QED  BY <1>7, <3>1, <3>2
  <2> HIDE DEF S
  <2>3. \A k \in 0..N : k \in S
    BY <1>1, <2>1, <2>2, BoundedInduction
  <2> QED  BY <2>3 DEF S
<1>9. H \in [0..N -> LineState]
  BY <1>6, <1>8 DEF IsHeard
<1> QED  BY <1>7, <1>9 DEF HeardAs, H, N, e

\* After n more characters with no end, and after a line's end.
HeardOn(svc, inputs, text, k, s, n) ==
    T(svc, inputs)!Heard(text)[k + n]
        = [line |-> T(svc, inputs)!Heard(text)[k].line \o SubSeq(s, 1, n),
           said |-> T(svc, inputs)!Heard(text)[k].said]
HeardLine(svc, inputs, text, k, s, n) ==
    T(svc, inputs)!Heard(text)[k + n]
        = [line |-> <<>>,
           said |-> T(svc, inputs)!Heard(text)[k].said
                      \o T(svc, inputs)!Reply(
                              T(svc, inputs)!Heard(text)[k].line \o SubSeq(s, 1, n))]

LEMMA OneMore ==
    ASSUME NEW t \in Chars, NEW s \in Chars, NEW n \in 1..Len(s)
    PROVE  /\ t \o SubSeq(s, 1, n) \in Chars /\ Len(t \o SubSeq(s, 1, n)) = Len(t) + n
           /\ Append(t \o SubSeq(s, 1, n - 1), s[n]) = t \o SubSeq(s, 1, n)
<1>0. Len(t) \in Nat /\ Len(s) \in Nat /\ n - 1 \in 0..Len(s) /\ n \in 0..Len(s) /\ s[n] \in Char
  BY LenChars
<1>1. /\ SubSeq(s, 1, n) \in Chars /\ Len(SubSeq(s, 1, n)) = n
      /\ \A k \in 1..n : SubSeq(s, 1, n)[k] = s[k]
  BY <1>0, Cut
<1>2. /\ SubSeq(s, 1, n - 1) \in Chars /\ Len(SubSeq(s, 1, n - 1)) = n - 1
      /\ \A k \in 1..(n - 1) : SubSeq(s, 1, n - 1)[k] = s[k]
  BY <1>0, Cut
<1> DEFINE v == SubSeq(s, 1, n)
           w == SubSeq(s, 1, n - 1)
<1> HIDE DEF v, w
<1>3. /\ t \o v \in Chars /\ Len(t \o v) = Len(t) + n
      /\ \A k \in 1..Len(t) : (t \o v)[k] = t[k]
      /\ \A k \in 1..n : (t \o v)[Len(t) + k] = s[k]
  BY <1>1, Joined DEF v
<1>4. /\ t \o w \in Chars /\ Len(t \o w) = Len(t) + (n - 1)
      /\ \A k \in 1..Len(t) : (t \o w)[k] = t[k]
      /\ \A k \in 1..(n - 1) : (t \o w)[Len(t) + k] = s[k]
  BY <1>2, Joined DEF w
<1>5. /\ Append(t \o w, s[n]) \in Chars /\ Len(Append(t \o w, s[n])) = Len(t) + n
      /\ \A k \in 1..(Len(t) + (n - 1)) : Append(t \o w, s[n])[k] = (t \o w)[k]
      /\ Append(t \o w, s[n])[Len(t) + n] = s[n]
  BY <1>0, <1>4 DEF Chars
<1>6. \A k \in 1..(Len(t) + n) : Append(t \o w, s[n])[k] = (t \o v)[k]
  <2> SUFFICES ASSUME NEW k \in 1..(Len(t) + n) PROVE Append(t \o w, s[n])[k] = (t \o v)[k]
      OBVIOUS
  <2>1. CASE k <= Len(t)
    BY <1>0, <1>3, <1>4, <1>5, <2>1
  <2>2. CASE k > Len(t) /\ k < Len(t) + n
    <3>1. k - Len(t) \in 1..(n - 1) /\ k - Len(t) \in 1..n /\ Len(t) + (k - Len(t)) = k
      BY <1>0, <2>2
    <3>2. (t \o w)[k] = s[k - Len(t)] /\ (t \o v)[k] = s[k - Len(t)]
      BY <1>3, <1>4, <3>1
    <3> QED  BY <1>0, <1>5, <2>2, <3>2
  <2>3. CASE k = Len(t) + n
    BY <1>0, <1>3, <1>5, <2>3
  <2>4. k \in Int /\ Len(t) \in Int /\ n \in Int /\ k <= Len(t) + n
    BY <1>0
  <2>5. \/ k <= Len(t) \/ (k > Len(t) /\ k < Len(t) + n) \/ k = Len(t) + n
    BY <2>4
  <2> QED  BY <2>1, <2>2, <2>3, <2>5
<1>7. Append(t \o w, s[n]) = t \o v
  BY <1>3, <1>5, <1>6, SameChars
<1> QED  BY <1>3, <1>7 DEF v, w

LEMMA HearOn ==
    ASSUME NEW svc, NEW inputs, NEW text \in Chars, NEW k \in 0..Len(text), NEW s \in Chars,
           k + Len(s) <= Len(text), \A m \in 1..Len(s) : s[m] = text[k + m],
           NEW n \in 0..Len(s), NoEnd(s, Len(T(svc, inputs)!Heard(text)[k].line), n),
           MAXLINE \in Nat
    PROVE  HeardOn(svc, inputs, text, k, s, n)
<1> DEFINE H == T(svc, inputs)!Heard(text)
           t == H[k].line
           S == {m \in 0..n : HeardOn(svc, inputs, text, k, s, m)}
<1>1. Len(text) \in Nat /\ Len(s) \in Nat /\ n \in Nat /\ k \in Nat
  BY LenChars
<1>2. /\ H[k] \in LineState
      /\ \A m \in 1..Len(text) : H[m] = Hears(svc, inputs, H[m - 1], text[m])
  <2>1. HeardAs(svc, inputs, text, H)
    BY HeardSteps
  <2> HIDE DEF H
  <2> QED  BY <2>1 DEF HeardAs
<1>3. t \in Chars /\ H[k].said \in Chars /\ H[k] = [line |-> t, said |-> H[k].said]
  BY <1>2 DEF LineState
<1> HIDE DEF H
<1>4. 0 \in S
  <2>1. SubSeq(s, 1, 0) = <<>>
    BY SubSeqEmpty
  <2>2. t \o <<>> = t
    BY <1>3, NothingJoined
  <2>3. H[k + 0] = [line |-> t \o SubSeq(s, 1, 0), said |-> H[k].said]
    <3> HIDE DEF t
    <3>1. k + 0 = k
      BY <1>1
    <3>2. t \o SubSeq(s, 1, 0) = t
      BY <2>1, <2>2, Zenon
    <3> QED  BY <1>3, <3>1, <3>2, Zenon
  <2> QED  BY <1>1, <2>3 DEF HeardOn, H
<1>5. ASSUME NEW m \in 1..n, m - 1 \in S PROVE m \in S
  <2>1. k + m \in 1..Len(text) /\ (k + m) - 1 = k + (m - 1) /\ m \in 1..Len(s) /\ s[m] = text[k + m]
    BY <1>1
  <2>2. H[k + (m - 1)] = [line |-> t \o SubSeq(s, 1, m - 1), said |-> H[k].said]
    BY <1>5 DEF HeardOn, H
  <2>3. H[k + m] = Hears(svc, inputs, H[k + (m - 1)], s[m])
    BY <1>2, <2>1
  <2>4. /\ Len(t \o SubSeq(s, 1, m)) = Len(t) + m
        /\ Append(t \o SubSeq(s, 1, m - 1), s[m]) = t \o SubSeq(s, 1, m)
    BY <1>3, <2>1, OneMore
  <2>5. s[m] # "\n" /\ Len(t) + m # MAXLINE - 1
    BY DEF NoEnd, IsEnd, H
  <2>6. H[k + m] = [line |-> t \o SubSeq(s, 1, m), said |-> H[k].said]
    <3> DEFINE x == [line |-> t \o SubSeq(s, 1, m - 1), said |-> H[k].said]
    <3>1. x.line = t \o SubSeq(s, 1, m - 1) /\ x.said = H[k].said
      OBVIOUS
    <3>2. H[k + m] = Hears(svc, inputs, x, s[m])
      BY <2>2, <2>3
    <3> HIDE DEF x
    <3> QED  BY <2>4, <2>5, <3>1, <3>2 DEF Hears
  <2> QED  BY <1>1, <2>6 DEF HeardOn, H
<1> HIDE DEF S
<1>6. \A m \in 0..n : m \in S
  BY <1>1, <1>4, <1>5, BoundedInduction
<1>7. n \in S
  BY <1>1, <1>6
<1> QED  BY <1>7 DEF S

LEMMA HearLine ==
    ASSUME NEW svc, NEW inputs, NEW text \in Chars, NEW k \in 0..Len(text), NEW s \in Chars,
           k + Len(s) <= Len(text), \A m \in 1..Len(s) : s[m] = text[k + m],
           NEW n, FirstEnd(s, Len(T(svc, inputs)!Heard(text)[k].line), n), MAXLINE \in Nat
    PROVE  HeardLine(svc, inputs, text, k, s, n)
<1> DEFINE H == T(svc, inputs)!Heard(text)
           t == H[k].line
<1>1. Len(text) \in Nat /\ Len(s) \in Nat /\ n \in 1..Len(s) /\ n - 1 \in 0..Len(s) /\ k \in Nat
  BY LenChars DEF FirstEnd
<1>2. /\ H[k] \in LineState
      /\ \A m \in 1..Len(text) : H[m] = Hears(svc, inputs, H[m - 1], text[m])
  <2>1. HeardAs(svc, inputs, text, H)
    BY HeardSteps
  <2> HIDE DEF H
  <2> QED  BY <2>1 DEF HeardAs
<1>3. t \in Chars
  BY <1>2 DEF LineState
<1>4. HeardOn(svc, inputs, text, k, s, n - 1)
  BY <1>1, HearOn DEF FirstEnd
<1> HIDE DEF H
<1>5. k + n \in 1..Len(text) /\ (k + n) - 1 = k + (n - 1) /\ s[n] = text[k + n]
  BY <1>1
<1>6. H[k + n] = Hears(svc, inputs, [line |-> t \o SubSeq(s, 1, n - 1), said |-> H[k].said], s[n])
  BY <1>2, <1>4, <1>5 DEF HeardOn, H
<1>7. /\ Len(t \o SubSeq(s, 1, n)) = Len(t) + n
      /\ Append(t \o SubSeq(s, 1, n - 1), s[n]) = t \o SubSeq(s, 1, n)
  BY <1>1, <1>3, OneMore
<1>8. s[n] = "\n" \/ Len(t) + n = MAXLINE - 1
  BY DEF FirstEnd, IsEnd, H
<1> QED  BY <1>6, <1>7, <1>8 DEF Hears, HeardLine, H

\* What has been said stays said.
LEMMA SaidFirst ==
    ASSUME NEW svc, NEW inputs, NEW text \in Chars, NEW k \in 0..Len(text)
    PROVE  \E v \in Chars : T(svc, inputs)!Heard(text)[Len(text)].said
                              = T(svc, inputs)!Heard(text)[k].said \o v
<1> DEFINE H == T(svc, inputs)!Heard(text)
           N == Len(text)
           S == {m \in 0..N : m >= k => \E v \in Chars : H[m].said = H[k].said \o v}
<1>1. N \in Nat /\ k \in Nat
  BY LenChars
<1>2. /\ \A m \in 0..N : H[m] \in LineState
      /\ \A m \in 1..N : H[m] = Hears(svc, inputs, H[m - 1], text[m])
  <2>1. HeardAs(svc, inputs, text, H)
    BY HeardSteps
  <2> HIDE DEF H
  <2> QED  BY <2>1 DEF HeardAs
<1> HIDE DEF H, N
<1>3. \A m \in 0..N : H[m].said \in Chars
  BY <1>2 DEF LineState
<1>4. k \in S
  <2>1. H[k].said = H[k].said \o <<>> /\ <<>> \in Chars
    BY <1>3, NothingJoined DEF N
  <2> QED  BY <2>1 DEF N
<1>5. 0 \in S
  BY <1>1, <1>4
<1>6. ASSUME NEW m \in 1..N, m - 1 \in S PROVE m \in S
  <2>1. CASE m <= k
    BY <1>1, <1>4, <2>1
  <2>2. CASE m > k
    <3>1. PICK v \in Chars : H[m - 1].said = H[k].said \o v
      BY <1>1, <1>6, <2>2
    <3>2. PICK w \in Chars : H[m].said = H[m - 1].said \o w
      <4>1. m - 1 \in 0..N /\ H[m - 1] \in LineState
        BY <1>1, <1>2
      <4>2. H[m] = Hears(svc, inputs, H[m - 1], text[m])
        BY <1>2
      <4>3. \E w \in Chars : Hears(svc, inputs, H[m - 1], text[m]).said = H[m - 1].said \o w
        <5> DEFINE x == H[m - 1]
                   char == text[m]
        <5>1. x \in LineState /\ char \in Char
          BY <4>1, LenChars DEF N
        <5> HIDE DEF x, char
        <5>2. \E w \in Chars : Hears(svc, inputs, x, char).said = x.said \o w
          BY <5>1, HearsSaid, Zenon
        <5> QED  BY <5>2 DEF x, char
      <4> QED  BY <4>2, <4>3
    <3>3. H[m].said = H[k].said \o (v \o w) /\ v \o w \in Chars
      <4>1. H[k].said \in Chars
        BY <1>3 DEF N
      <4>2. (H[k].said \o v) \o w = H[k].said \o (v \o w)
        BY <4>1, Assoc
      <4>3. v \o w \in Chars
        BY Joined
      <4> QED  BY <3>1, <3>2, <4>2, <4>3
    <3>4. m \in 0..N
      BY <1>1
    <3> QED  BY <3>3, <3>4
  <2>3. m \in Int /\ k \in Int
    BY <1>1
  <2> QED  BY <2>1, <2>2, <2>3
<1> HIDE DEF S
<1>7. \A m \in 0..N : m \in S
  BY <1>1, <1>5, <1>6, BoundedInduction
<1>8. N \in S
  BY <1>1, <1>7
<1> QED  BY <1>1, <1>8 DEF S, H, N

-----------------------------------------------------------------------------
(***************************************************************************)
(* One line on its way: its only end is behind its last character.         *)
(***************************************************************************)
Piece(s) == s \in Chars /\ s # <<>> /\ \A k \in 1..Len(s) : IsEnd(s, 0, k) => k = Len(s)

LEMMA ReplyPiece ==
    ASSUME NEW svc, NEW inputs, NEW s, MAXLINE \in Nat, MAXLINE >= 3
    PROVE  Piece(T(svc, inputs)!Reply(s))
<1> DEFINE r == T(svc, inputs)!Reply(s)
<1>1. r \in Chars /\ Len(r) = 2 /\ r[1] # "\n"
  BY ReplyChars
<1> HIDE DEF r
<1>2. r # <<>>
  <2>1. r = <<>> => Len(r) = 0
    OBVIOUS
  <2> QED  BY <1>1, <2>1
<1>3. \A k \in 1..Len(r) : IsEnd(r, 0, k) => k = Len(r)
  BY <1>1 DEF IsEnd
<1>4. Piece(r)
  BY <1>1, <1>2, <1>3 DEF Piece
<1> QED  BY <1>4 DEF r

\* What fgets takes of a text.
LEMMA FgetsPiece ==
    ASSUME NEW svc, NEW inputs, NEW s \in Chars, s # <<>>, MAXLINE \in Nat
    PROVE  /\ T(svc, inputs)!fgets(s) \in 1..Len(s)
           /\ Piece(SubSeq(s, 1, T(svc, inputs)!fgets(s)))
<1> DEFINE ends == T(svc, inputs)!LineEnds(s, 0)
           n == T(svc, inputs)!fgets(s)
<1>0. Len(s) \in Nat /\ Len(s) # 0
  BY LenChars
<1>1. ends = {k \in 1..Len(s) : IsEnd(s, 0, k)}
  BY DEF T!LineEnds, T!NL, IsEnd
<1>2. n \in 1..Len(s) /\ \A k \in 1..(n - 1) : ~IsEnd(s, 0, k)
  <2>1. CASE ends = {}
    BY <1>0, <1>1, <2>1 DEF T!fgets
  <2>2. CASE ends # {}
    <3>1. ends \in SUBSET Nat
      BY <1>1
    <3>2. n = T(svc, inputs)!First(ends)
      BY <2>2 DEF T!fgets
    <3> HIDE DEF ends, n
    <3>3. \E k \in ends : \A m \in ends : k <= m
      BY <2>2, <3>1, Least
    <3>4. n \in ends /\ \A m \in ends : n <= m
      BY <3>2, <3>3 DEF T!First
    <3> QED  BY <1>1, <3>4
  <2> QED  BY <2>1, <2>2
<1> HIDE DEF n
<1> DEFINE v == SubSeq(s, 1, n)
<1>3. v \in Chars /\ Len(v) = n /\ \A k \in 1..n : v[k] = s[k]
  BY <1>0, <1>2, Cut
<1> HIDE DEF v
<1>4. v # <<>>
  BY <1>2, <1>3, LenChars
<1>5. ASSUME NEW k \in 1..Len(v), IsEnd(v, 0, k) PROVE k = Len(v)
  <2>1. IsEnd(s, 0, k)
    BY <1>3, <1>5 DEF IsEnd
  <2>2. k \in 1..n /\ k \notin 1..(n - 1) /\ n \in Nat
    BY <1>2, <1>3, <2>1
  <2> QED  BY <1>3, <2>2
<1>6. Piece(v)
  BY <1>3, <1>4, <1>5 DEF Piece
<1> QED  BY <1>2, <1>6 DEF v, n

\* The line's end is the end of the piece.
LEMMA PieceRead ==
    ASSUME NEW t \in Chars, NEW s \in Chars, NEW v \in Chars, NEW j,
           Piece(t \o (s \o v)), FirstEnd(s, Len(t), j)
    PROVE  j = Len(s) /\ v = <<>>
<1>1. Len(t) \in Nat /\ Len(s) \in Nat /\ Len(v) \in Nat /\ j \in 1..Len(s)
  BY LenChars DEF FirstEnd
<1>2. /\ s \o v \in Chars /\ Len(s \o v) = Len(s) + Len(v)
      /\ \A k \in 1..Len(s) : (s \o v)[k] = s[k]
  BY Joined
<1> DEFINE w == s \o v
           p == t \o w
<1> HIDE DEF w
<1>3. /\ p \in Chars /\ Len(p) = Len(t) + Len(w)
      /\ \A k \in 1..Len(w) : p[Len(t) + k] = w[k]
  BY <1>2, Joined DEF w
<1>4. Piece(p)
  BY DEF w
<1> HIDE DEF p
<1>5. j \in 1..Len(w) /\ p[Len(t) + j] = s[j]
  BY <1>1, <1>2, <1>3 DEF w
<1>6. IsEnd(p, 0, Len(t) + j)
  BY <1>1, <1>5 DEF FirstEnd, IsEnd
<1>7. Len(t) + j \in 1..Len(p)
  BY <1>1, <1>2, <1>3, <1>5 DEF w
<1>8. Len(t) + j = Len(p)
  BY <1>4, <1>6, <1>7 DEF Piece
<1>9. j = Len(s) /\ Len(v) = 0
  BY <1>1, <1>2, <1>3, <1>8 DEF w
<1> QED  BY <1>9, LenChars

-----------------------------------------------------------------------------
(***************************************************************************)
(* The invariant.  What a connection holds, from the client's own buffers  *)
(* to the child's and back, is in order: the child has heard the beginning *)
(* of the client's text, up to what is still on its way (ToHear), and the  *)
(* answers to the lines in it are what the client has printed or will      *)
(* (Printed).                                                              *)
(***************************************************************************)
Over(r) == r.pc \in {"exited", "failed"}
Text(c) == input[c][2]
IsCli(c) == input[c][1] = "str_cli"
ToHear(c) == child[c].buf \o (up[c] \o (client[c].out \o unsent[c]))
Flight(c) == child[c].line \o (child[c].buf \o (up[c] \o client[c].out))
Pending(c) == client[c].line \o (client[c].buf \o (down[c] \o child[c].out))
Printed(c) == client[c].shown \o Pending(c)
Empty(pc0) == [pc |-> pc0, buf |-> <<>>, line |-> <<>>, out |-> <<>>, shown |-> <<>>]

\* What the inputs of a server are.
Setting(svc, inputs) ==
    /\ svc \in {"str_echo", "handle_request"}
    /\ MAXLINE \in Nat /\ MAXLINE >= 3 /\ 0 \notin Clients
    /\ \A c \in Clients : \A x \in inputs[c] :
        x[2] \in Chars /\ (svc = "handle_request" => x[1] = "send_get")

ClientPrograms == ProgramAt({"connect", "fgets", "writen", "readline", "exited", "failed"})
ChildPrograms == ProgramAt({"none", "start", "readline", "writen", "exited", "failed"})

WebTypes(inputs) ==
    /\ main \in {"accept", "fork", "close", "failed"} /\ current \in Clients
    /\ failures \in Nat
    /\ conn \in [Clients -> {"new", "queued", "accepted", "reset"}]
    /\ held \in [Clients -> SUBSET {"main", "child"}]
    /\ client \in [Clients -> ClientPrograms] /\ child \in [Clients -> ChildPrograms]
    /\ unsent \in [Clients -> Chars] /\ up \in [Clients -> Chars] /\ down \in [Clients -> Chars]
    /\ input \in [Clients -> UNION {inputs[c] : c \in Clients}]
    /\ \A c \in Clients : input[c] \in inputs[c]

\* Where main, a connection and its child are.
PlaceInvOf(c) ==
    /\ client[c].pc = "connect" => conn[c] = "new"
    /\ conn[c] # "accepted" => child[c].pc = "none"
    /\ conn[c] = "reset" => Over(client[c]) \/ failures > 0
    /\ conn[c] = "accepted" /\ child[c].pc = "none" =>
         (main = "fork" /\ current = c) \/ main = "failed"
    /\ child[c].pc \in {"start", "readline", "writen"} => "child" \in held[c]
    /\ child[c].pc \in {"none", "start"} => child[c] = Empty(child[c].pc)

ControlInv ==
    /\ main = "failed" => failures > 0
    /\ main # "failed" => 0 \in listeners
    /\ main \in {"fork", "close"} => conn[current] = "accepted" /\ "main" \in held[current]
    /\ main = "fork" => child[current].pc = "none"
    /\ \A c \in Clients : PlaceInvOf(c)

\* A connection that no child will answer.
Gone(c) ==
    /\ child[c].pc = "none"
    /\ conn[c] = "reset" \/ (conn[c] = "accepted" /\ main = "failed")

Same(c) == UNCHANGED <<client[c], child[c], up[c], down[c], unsent[c], input[c]>>
StaysGone == \A c \in Clients : Gone(c) => Gone(c)'

-----------------------------------------------------------------------------
LEMMA MainAcceptsPlaces ==
    ASSUME NEW svc, NEW inputs, Setting(svc, inputs), WebTypes(inputs), ControlInv,
           T(svc, inputs)!MainAccepts
    PROVE  WebTypes(inputs)' /\ ControlInv' /\ StaysGone /\ \A c \in Clients : Same(c)
<1>1. PICK c \in Clients :
        /\ main = "accept" /\ conn[c] = "queued"
        /\ \/ /\ conn' = [conn EXCEPT ![c] = "accepted"] /\ held' = [held EXCEPT ![c] = {"main"}]
              /\ current' = c /\ main' = "fork"
           \/ /\ Over(client[c]) /\ conn' = [conn EXCEPT ![c] = "reset"]
              /\ UNCHANGED <<held, current, main>>
        /\ UNCHANGED <<listeners, client, child, up, down, unsent, input, failures>>
  BY DEF T!MainAccepts, T!procvars, T!Dead, Over
<1>2. WebTypes(inputs)'
  BY <1>1 DEF WebTypes
<1>3. StaysGone
  BY <1>1 DEF StaysGone, Gone, WebTypes
<1>4. ControlInv'
  <2>1. child[c].pc = "none" /\ failures \in Nat
    BY <1>1 DEF ControlInv, PlaceInvOf, WebTypes
  <2>2. \A d \in Clients : PlaceInvOf(d)'
    BY <1>1, <2>1 DEF ControlInv, PlaceInvOf, WebTypes, Over
  <2> QED  BY <1>1, <2>1, <2>2 DEF ControlInv, WebTypes
<1> QED  BY <1>1, <1>2, <1>3, <1>4 DEF Same

LEMMA MainFailsPlaces ==
    ASSUME NEW svc, NEW inputs, Setting(svc, inputs), WebTypes(inputs), ControlInv,
           T(svc, inputs)!MainFails
    PROVE  WebTypes(inputs)' /\ ControlInv' /\ StaysGone /\ \A c \in Clients : Same(c)
<1>1. /\ main \in {"accept", "fork"} /\ main' = "failed" /\ failures' = failures + 1
      /\ conn' = [c \in Clients |-> IF listeners = {0} /\ conn[c] = "queued" THEN "reset"
                                    ELSE conn[c]]
      /\ held' = [held EXCEPT ![current] = @ \ {"main"}]
      /\ UNCHANGED <<current, client, child, up, down, unsent, input>>
  BY DEF T!MainFails, T!Fault, T!Unlisten, T!procvars
<1>2. WebTypes(inputs)'
  BY <1>1 DEF WebTypes
<1>3. StaysGone
  BY <1>1 DEF StaysGone, Gone, WebTypes
<1>4. ControlInv'
  <2>1. failures \in Nat /\ failures' > 0
    BY <1>1 DEF WebTypes
  <2>2. ASSUME NEW d \in Clients PROVE PlaceInvOf(d)'
    BY <1>1, <2>1 DEF ControlInv, PlaceInvOf, WebTypes, Over
  <2> QED  BY <1>1, <2>1, <2>2 DEF ControlInv
<1> QED  BY <1>1, <1>2, <1>3, <1>4 DEF Same

LEMMA MainForksPlaces ==
    ASSUME NEW svc, NEW inputs, Setting(svc, inputs), WebTypes(inputs), ControlInv,
           T(svc, inputs)!MainForks
    PROVE  /\ WebTypes(inputs)' /\ ControlInv' /\ StaysGone
           /\ \A c \in Clients \ {current} : Same(c)
           /\ UNCHANGED <<client, up, down, unsent, input, failures>>
           /\ child[current] = Empty("none") /\ child'[current] = Empty("start")
           /\ ~Gone(current)
<1>1. /\ main = "fork" /\ main' = "close"
      /\ child' = [child EXCEPT ![current] = Empty("start")]
      /\ held' = [held EXCEPT ![current] = @ \cup {"child"}]
      /\ listeners' = listeners \cup {current}
      /\ UNCHANGED <<current, conn, client, up, down, unsent, input, failures>>
  BY DEF T!MainForks, T!Process, Empty
<1>2. WebTypes(inputs)'
  <2>1. Empty("start") \in ChildPrograms
    BY NothingJoined DEF Empty, ChildPrograms, ProgramAt, Chars
  <2> QED  BY <1>1, <2>1 DEF WebTypes
<1>3. StaysGone
  <2> SUFFICES ASSUME NEW d \in Clients, Gone(d) PROVE Gone(d)'
      BY DEF StaysGone
  <2>1. d # current
    BY <1>1 DEF Gone, ControlInv
  <2> QED  BY <1>1, <2>1 DEF Gone, WebTypes
<1>4. current \in Clients /\ child[current] = Empty("none") /\ child'[current] = Empty("start")
  BY <1>1 DEF ControlInv, PlaceInvOf, WebTypes
<1>5. ControlInv'
  <2>1. Empty("start").pc = "start"
    BY DEF Empty
  <2>2. ASSUME NEW d \in Clients PROVE PlaceInvOf(d)'
    <3>1. CASE d = current
      BY <1>1, <1>4, <2>1, <3>1 DEF ControlInv, PlaceInvOf, WebTypes
    <3>2. CASE d # current
      BY <1>1, <3>2 DEF ControlInv, PlaceInvOf, WebTypes, Over
    <3> QED  BY <3>1, <3>2
  <2> QED  BY <1>1, <1>4, <2>2 DEF ControlInv, WebTypes
<1>6. ~Gone(current)
  BY <1>1 DEF ControlInv, Gone
<1> QED  BY <1>1, <1>2, <1>3, <1>4, <1>5, <1>6 DEF Same, WebTypes

LEMMA MainClosesPlaces ==
    ASSUME NEW svc, NEW inputs, Setting(svc, inputs), WebTypes(inputs), ControlInv,
           T(svc, inputs)!MainCloses
    PROVE  WebTypes(inputs)' /\ ControlInv' /\ StaysGone /\ \A c \in Clients : Same(c)
<1>1. /\ main = "close" /\ main' = "accept"
      /\ held' = [held EXCEPT ![current] = @ \ {"main"}]
      /\ UNCHANGED <<current, listeners, conn, client, child, up, down, unsent, input, failures>>
  BY DEF T!MainCloses, T!procvars
<1>2. WebTypes(inputs)'
  BY <1>1 DEF WebTypes
<1>3. StaysGone
  BY <1>1 DEF StaysGone, Gone, WebTypes
<1>4. ControlInv'
  <2>1. ASSUME NEW d \in Clients PROVE PlaceInvOf(d)'
    BY <1>1 DEF ControlInv, PlaceInvOf, WebTypes, Over
  <2> QED  BY <1>1, <2>1 DEF ControlInv, WebTypes
<1> QED  BY <1>1, <1>2, <1>3, <1>4 DEF Same

LEMMA ChildStartsPlaces ==
    ASSUME NEW svc, NEW inputs, Setting(svc, inputs), WebTypes(inputs), ControlInv,
           NEW c \in Clients, T(svc, inputs)!ChildStarts(c)
    PROVE  /\ WebTypes(inputs)' /\ ControlInv' /\ StaysGone
           /\ \A d \in Clients \ {c} : Same(d)
           /\ UNCHANGED <<client, up, down, unsent, input, failures>>
           /\ child[c] = Empty("start") /\ child'[c] = Empty("readline")
           /\ ~Gone(c)
<1>1. /\ child[c].pc = "start" /\ child' = [child EXCEPT ![c].pc = "readline"]
      /\ listeners' = listeners \ {c}
      /\ conn' = [d \in Clients |-> IF listeners = {c} /\ conn[d] = "queued" THEN "reset"
                                    ELSE conn[d]]
      /\ UNCHANGED <<main, current, held, client, up, down, unsent, input, failures>>
  BY DEF T!ChildStarts, T!Unlisten
<1>2. WebTypes(inputs)'
  BY <1>1 DEF WebTypes, ChildPrograms, ProgramAt
<1>3. StaysGone
  BY <1>1 DEF StaysGone, Gone, WebTypes
<1>4. child[c] = Empty("start")
  BY <1>1 DEF ControlInv, PlaceInvOf
<1>5. child'[c] = Empty("readline")
  BY <1>1, <1>4 DEF Empty, WebTypes
<1>6. c # 0 /\ failures \in Nat
  BY DEF Setting, WebTypes
<1>7. listeners = {c} => failures > 0
  BY <1>6 DEF ControlInv
<1>8. ControlInv'
  <2>1. ASSUME NEW d \in Clients PROVE PlaceInvOf(d)'
    <3>1. PlaceInvOf(d) /\ conn'[d] = IF listeners = {c} /\ conn[d] = "queued" THEN "reset"
                                       ELSE conn[d]
      BY <1>1 DEF ControlInv
    <3>2. CASE d = c
      BY <1>1, <1>5, <1>7, <3>1, <3>2 DEF PlaceInvOf, Over, Empty
    <3>3. CASE d # c
      <4>1. child'[d] = child[d]
        BY <1>1, <3>3 DEF WebTypes
      <4>2. conn'[d] = conn[d] \/ (conn[d] = "queued" /\ conn'[d] = "reset" /\ failures > 0)
        BY <1>7, <3>1
      <4> QED  BY <1>1, <3>1, <4>1, <4>2 DEF PlaceInvOf, Over
    <3> QED  BY <3>2, <3>3
  <2> QED  BY <1>1, <1>6, <2>1 DEF ControlInv, WebTypes
<1>9. ~Gone(c)
  BY <1>1 DEF Gone
<1> QED  BY <1>1, <1>2, <1>3, <1>4, <1>5, <1>8, <1>9 DEF Same, WebTypes

-----------------------------------------------------------------------------
(***************************************************************************)
(* What a read comes to.  s is what was taken, of the buffer or of the     *)
(* connection.                                                             *)
(***************************************************************************)
AnswerTo(svc, inputs, s) ==
    IF svc = "str_echo" THEN T(svc, inputs)!Reply(s) ELSE T(svc, inputs)!reply

ChildGoesOn(c, s) ==
    /\ NoEnd(s, Len(child[c].line), Len(s))
    /\ child'[c] = [child[c] EXCEPT !.line = child[c].line \o s, !.buf = <<>>]
ChildAnswers(svc, inputs, c, s, j) ==
    /\ FirstEnd(s, Len(child[c].line), j)
    /\ child'[c] = [child[c] EXCEPT
           !.pc = "writen", !.line = <<>>, !.buf = Behind(s, j),
           !.out = AnswerTo(svc, inputs, child[c].line \o SubSeq(s, 1, j))]
ChildRead(svc, inputs, c) ==
    \E s \in Chars :
        /\ s # <<>> /\ up'[c] \in Chars /\ child[c].buf \o up[c] = s \o up'[c]
        /\ ChildGoesOn(c, s) \/ \E j \in 1..Len(s) : ChildAnswers(svc, inputs, c, s, j)

\* At the end of the stream.
ChildEnds(svc, inputs, c) ==
    /\ child[c].buf = <<>> /\ up[c] = <<>> /\ up'[c] = <<>>
    /\ Over(client[c]) \/ (input[c][1] = "batch" /\ client[c].pc = "readline")
    /\ IF child[c].line = <<>> THEN child'[c] = [child[c] EXCEPT !.pc = "exited"]
       ELSE child'[c] = [child[c] EXCEPT !.pc = "writen", !.line = <<>>,
                                         !.out = AnswerTo(svc, inputs, child[c].line)]

\* When the client is gone a read may also fail.
ChildFails(c) ==
    Over(client[c]) /\ up'[c] = up[c] /\ child'[c] = [child[c] EXCEPT !.pc = "failed"]

LEMMA AnswerChars ==
    ASSUME NEW svc, NEW inputs, NEW s \in Chars
    PROVE  AnswerTo(svc, inputs, s) \in Chars
<1>1. T(svc, inputs)!reply \in Chars
  <2>1. "h" \in Char /\ "b" \in Char /\ "\n" \in Char
    BY DEF Char
  <2> HIDE DEF Char
  <2>2. \A S : \A a, b, d \in S : <<a, d, b, d>> \in Seq(S)
    OBVIOUS
  <2>3. T(svc, inputs)!reply = <<"h", "\n", "b", "\n">>
    BY DEF T!reply, T!NL
  <2> QED  BY <2>1, <2>2, <2>3, Zenon DEF Chars
<1> QED  BY <1>1, ReplyChars DEF AnswerTo

\* A child at readline, after readline has returned or needs more.
ChildReadsTo(svc, inputs, r, s, y) ==
    \/ NoEnd(s, Len(r.line), Len(s)) /\ y = [r EXCEPT !.line = r.line \o s, !.buf = <<>>]
    \/ \E j \in 1..Len(s) :
        /\ FirstEnd(s, Len(r.line), j)
        /\ y = [r EXCEPT !.pc = "writen", !.line = <<>>, !.buf = Behind(s, j),
                         !.out = AnswerTo(svc, inputs, r.line \o SubSeq(s, 1, j))]

LEMMA ChildReadNext ==
    ASSUME NEW svc, NEW inputs, Setting(svc, inputs), NEW r \in ChildPrograms, r.pc = "readline",
           NEW s \in Chars
    PROVE  ChildReadsTo(svc, inputs, r, s,
                        T(svc, inputs)!ChildNext(T(svc, inputs)!readline(r, s)))
<1> DEFINE x == T(svc, inputs)!readline(r, s)
           y == T(svc, inputs)!ChildNext(x)
<1>0. r = [pc |-> r.pc, buf |-> r.buf, line |-> r.line, out |-> r.out, shown |-> r.shown]
  BY DEF ChildPrograms, ProgramAt
<1>1. CASE GoesOn(r, s, x)
  <2>1. x = [r EXCEPT !.line = r.line \o s, !.buf = <<>>] /\ NoEnd(s, Len(r.line), Len(s))
    BY <1>1 DEF GoesOn
  <2> HIDE DEF x
  <2>2. x.pc = "readline"
    BY <1>0, <2>1
  <2>3. y = x
    BY <2>2 DEF T!ChildNext
  <2> QED  BY <2>1, <2>3 DEF x, ChildReadsTo
<1>2. CASE \E j \in 1..Len(s) : HasLine(r, s, j, x)
  <2>1. PICK j \in 1..Len(s) : HasLine(r, s, j, x)
    BY <1>2
  <2>2. /\ FirstEnd(s, Len(r.line), j)
        /\ x = [r EXCEPT !.line = r.line \o SubSeq(s, 1, j), !.buf = Behind(s, j), !.pc = "got"]
    BY <2>1 DEF HasLine
  <2> HIDE DEF x
  <2>3. x.pc = "got" /\ x.line = r.line \o SubSeq(s, 1, j)
    BY <1>0, <2>2
  <2>4. y = [x EXCEPT !.pc = "writen", !.line = <<>>, !.out = AnswerTo(svc, inputs, x.line)]
    BY <2>3, Zenon DEF T!ChildNext, AnswerTo
  <2>5. y = [r EXCEPT !.pc = "writen", !.line = <<>>, !.buf = Behind(s, j),
                      !.out = AnswerTo(svc, inputs, x.line)]
    BY <1>0, <2>2, <2>4
  <2> QED  BY <2>2, <2>3, <2>5 DEF x, ChildReadsTo
<1> QED  BY <1>1, <1>2, ReadLine

LEMMA ChildReadsShape ==
    ASSUME NEW svc, NEW inputs, Setting(svc, inputs), WebTypes(inputs),
           NEW c \in Clients, T(svc, inputs)!ChildReads(c)
    PROVE  /\ child[c].pc = "readline"
           /\ ChildRead(svc, inputs, c) \/ ChildEnds(svc, inputs, c) \/ ChildFails(c)
           /\ child' = [child EXCEPT ![c] = child'[c]] /\ up' = [up EXCEPT ![c] = up'[c]]
           /\ held' = [held EXCEPT ![c] = IF Over(child'[c]) THEN @ \ {"child"} ELSE @]
           /\ UNCHANGED <<main, current, listeners, conn, client, down, unsent, input, failures>>
<1> DEFINE r == child[c]
           next(x) == T(svc, inputs)!ChildNext(x)
           sets(x) == /\ child' = [child EXCEPT ![c] = next(x)]
                      /\ held' = [held EXCEPT ![c] = IF Over(next(x)) THEN @ \ {"child"} ELSE @]
<1>0. /\ r \in ChildPrograms /\ r.buf \in Chars /\ r.line \in Chars /\ up[c] \in Chars
      /\ child \in [Clients -> ChildPrograms] /\ up \in [Clients -> Chars]
  BY DEF WebTypes, ChildPrograms, ProgramAt
<1>1. /\ r.pc = "readline"
      /\ UNCHANGED <<main, current, listeners, conn, client, down, unsent, input, failures>>
      /\ \/ r.buf # <<>> /\ sets(T(svc, inputs)!readline(r, r.buf)) /\ up' = up
         \/ /\ r.buf = <<>>
            /\ \E n \in T(svc, inputs)!Some(up[c]) :
                /\ sets(T(svc, inputs)!readline(r, SubSeq(up[c], 1, n)))
                /\ up' = [up EXCEPT ![c] = T(svc, inputs)!Rest(@, n)]
         \/ /\ r.buf = <<>> /\ up[c] = <<>> /\ T(svc, inputs)!ClientDone(c)
            /\ sets(T(svc, inputs)!readline_eof(r)) /\ up' = up
         \/ Over(client[c]) /\ sets(T(svc, inputs)!err_sys(r)) /\ up' = up
  BY DEF T!ChildReads, T!SetChild, T!Dead, Over
<1> DEFINE frame == /\ child' = [child EXCEPT ![c] = child'[c]] /\ up' = [up EXCEPT ![c] = up'[c]]
                    /\ held' = [held EXCEPT ![c] = IF Over(child'[c]) THEN @ \ {"child"} ELSE @]
<1>a. ASSUME NEW x, sets(x) PROVE child'[c] = next(x) /\ child' = [child EXCEPT ![c] = child'[c]]
                    /\ held' = [held EXCEPT ![c] = IF Over(child'[c]) THEN @ \ {"child"} ELSE @]
  <2> HIDE DEF next
  <2> QED  BY <1>0, <1>a
<1>b. ASSUME NEW s \in Chars, s # <<>>, sets(T(svc, inputs)!readline(r, s)), up'[c] \in Chars,
             r.buf \o up[c] = s \o up'[c], up' = [up EXCEPT ![c] = up'[c]]
      PROVE  ChildRead(svc, inputs, c) /\ frame
  <2>1. frame /\ child'[c] = next(T(svc, inputs)!readline(r, s))
    BY <1>a, <1>b
  <2>2. ChildGoesOn(c, s) \/ \E j \in 1..Len(s) : ChildAnswers(svc, inputs, c, s, j)
    <3>1. ChildReadsTo(svc, inputs, r, s, child'[c])
      BY <1>0, <1>1, <2>1, ChildReadNext
    <3> QED  BY <3>1 DEF ChildReadsTo, ChildGoesOn, ChildAnswers
  <2> HIDE DEF frame, sets
  <2> QED  BY <1>b, <2>1, <2>2 DEF ChildRead
<1>2. CASE r.buf # <<>> /\ sets(T(svc, inputs)!readline(r, r.buf)) /\ up' = up
  <2>1. up'[c] \in Chars /\ r.buf \o up[c] = r.buf \o up'[c] /\ up' = [up EXCEPT ![c] = up'[c]]
    BY <1>0, <1>2
  <2> HIDE DEF sets, frame
  <2>2. ChildRead(svc, inputs, c) /\ frame
    BY <1>0, <1>2, <1>b, <2>1
  <2> QED  BY <1>1, <2>2 DEF frame
<1>3. ASSUME r.buf = <<>>, NEW n \in T(svc, inputs)!Some(up[c]),
             sets(T(svc, inputs)!readline(r, SubSeq(up[c], 1, n))),
             up' = [up EXCEPT ![c] = T(svc, inputs)!Rest(@, n)]
      PROVE  ChildRead(svc, inputs, c) /\ frame
  <2> DEFINE s == SubSeq(up[c], 1, n)
  <2>1. n \in 1..Len(up[c]) /\ n \in 0..Len(up[c]) /\ n # 0
    BY <1>0, <1>3, LenChars DEF T!Some, Setting
  <2>2. /\ s \in Chars /\ Len(s) = n /\ Behind(up[c], n) \in Chars
        /\ up[c] = s \o Behind(up[c], n)
    BY <1>0, <2>1, Cut
  <2>3. up'[c] = Behind(up[c], n) /\ up' = [up EXCEPT ![c] = up'[c]]
    BY <1>0, <1>3 DEF T!Rest, Behind
  <2>4. s # <<>>
    BY <2>1, <2>2, LenChars
  <2>5. r.buf \o up[c] = s \o up'[c]
    BY <1>0, <1>3, <2>2, <2>3, NothingJoined
  <2>6. sets(T(svc, inputs)!readline(r, s))
    BY <1>3
  <2> HIDE DEF s, sets, frame
  <2> QED  BY <1>b, <2>2, <2>3, <2>4, <2>5, <2>6
<1>4. CASE /\ r.buf = <<>> /\ up[c] = <<>> /\ T(svc, inputs)!ClientDone(c)
           /\ sets(T(svc, inputs)!readline_eof(r)) /\ up' = up
  <2> DEFINE x == T(svc, inputs)!readline_eof(r)
  <2>1. /\ child'[c] = next(x) /\ child' = [child EXCEPT ![c] = child'[c]]
        /\ held' = [held EXCEPT ![c] = IF Over(child'[c]) THEN @ \ {"child"} ELSE @]
    <3> HIDE DEF next, x
    <3> QED  BY <1>0, <1>4, <1>a DEF x
  <2>2. up'[c] = <<>> /\ up' = [up EXCEPT ![c] = up'[c]]
    BY <1>0, <1>4
  <2>3. r = [pc |-> r.pc, buf |-> r.buf, line |-> r.line, out |-> r.out, shown |-> r.shown]
    BY <1>0 DEF ChildPrograms, ProgramAt
  <2>4. x = [r EXCEPT !.pc = IF r.line = <<>> THEN "eof" ELSE "got"]
    BY DEF T!readline_eof
  <2>5. CASE r.line = <<>>
    <3>1. x.pc = "eof" /\ x = [r EXCEPT !.pc = "eof"]
      BY <2>3, <2>4, <2>5
    <3> HIDE DEF x
    <3>2. next(x) = [x EXCEPT !.pc = "exited"]
      BY <3>1 DEF T!ChildNext, T!exit
    <3>3. child'[c] = [r EXCEPT !.pc = "exited"]
      BY <2>1, <2>3, <3>1, <3>2
    <3> QED  BY <1>1, <1>4, <2>1, <2>2, <2>5, <3>3 DEF ChildEnds, T!ClientDone, T!Kind, T!Dead, Over
  <2>6. CASE r.line # <<>>
    <3>1. x.pc = "got" /\ x = [r EXCEPT !.pc = "got"] /\ x.line = r.line
      BY <2>3, <2>4, <2>6
    <3> HIDE DEF x
    <3>2. next(x) = [x EXCEPT !.pc = "writen", !.line = <<>>, !.out = AnswerTo(svc, inputs, x.line)]
      BY <3>1, Zenon DEF T!ChildNext, AnswerTo
    <3>3. child'[c] = [r EXCEPT !.pc = "writen", !.line = <<>>,
                                !.out = AnswerTo(svc, inputs, r.line)]
      BY <2>1, <2>3, <3>1, <3>2
    <3> QED  BY <1>1, <1>4, <2>1, <2>2, <2>6, <3>3 DEF ChildEnds, T!ClientDone, T!Kind, T!Dead, Over
  <2> QED  BY <2>5, <2>6
<1>5. CASE Over(client[c]) /\ sets(T(svc, inputs)!err_sys(r)) /\ up' = up
  <2> DEFINE x == T(svc, inputs)!err_sys(r)
  <2>1. x = [r EXCEPT !.pc = "failed"] /\ x.pc = "failed"
    BY <1>0 DEF T!err_sys, ChildPrograms, ProgramAt
  <2>2. /\ child'[c] = next(x) /\ child' = [child EXCEPT ![c] = child'[c]]
        /\ held' = [held EXCEPT ![c] = IF Over(child'[c]) THEN @ \ {"child"} ELSE @]
    <3> HIDE DEF next, x
    <3> QED  BY <1>0, <1>5, <1>a DEF x
  <2> HIDE DEF x
  <2>3. next(x) = x
    BY <2>1 DEF T!ChildNext
  <2>4. up'[c] = up[c] /\ up' = [up EXCEPT ![c] = up'[c]]
    BY <1>0, <1>5
  <2> HIDE DEF sets
  <2> QED  BY <1>1, <1>5, <2>1, <2>2, <2>3, <2>4 DEF ChildFails
<1> QED
  <2> HIDE DEF sets
  <2> QED  BY <1>1, <1>2, <1>3, <1>4, <1>5

\* What the child has after a write of s, and before one of v.
AfterWrite(svc, v) ==
    IF v # <<>> THEN "writen" ELSE IF svc = "str_echo" THEN "readline" ELSE "exited"
ChildWrote(svc, c) ==
    \E s, v \in Chars :
        /\ child[c].out = s \o v /\ down'[c] = down[c] \o s
        /\ child'[c] = [child[c] EXCEPT !.out = v, !.pc = AfterWrite(svc, v)]
ChildWroteNobody(c) ==
    /\ Over(client[c]) /\ down'[c] = down[c]
    /\ child'[c] \in ChildPrograms /\ child'[c].pc \in {"readline", "exited", "failed"}

ChildWritesTo(svc, r, n, y) ==
    y = [r EXCEPT !.out = Behind(r.out, n), !.pc = AfterWrite(svc, Behind(r.out, n))]

LEMMA ChildWriteNext ==
    ASSUME NEW svc, NEW inputs, Setting(svc, inputs), NEW r \in ChildPrograms, r.pc = "writen",
           NEW n \in Nat, n <= Len(r.out)
    PROVE  ChildWritesTo(svc, r, n, T(svc, inputs)!ChildNext(T(svc, inputs)!writen(r, n)))
<1> DEFINE x == T(svc, inputs)!writen(r, n)
           v == Behind(r.out, n)
<1>0. /\ r = [pc |-> r.pc, buf |-> r.buf, line |-> r.line, out |-> r.out, shown |-> r.shown]
      /\ r.out \in Chars /\ n \in 0..Len(r.out)
  BY LenChars DEF ChildPrograms, ProgramAt
<1>1. v \in Chars /\ (v = <<>> <=> n = Len(r.out))
  <2>1. v \in Chars /\ Len(v) = Len(r.out) - n /\ Len(r.out) \in Nat
    BY <1>0, Cut, LenChars
  <2> HIDE DEF v
  <2> QED  BY <2>1, LenChars
<1>2. x = [r EXCEPT !.out = v, !.pc = IF n = Len(r.out) THEN "written" ELSE r.pc]
  BY <1>0 DEF T!writen, Behind
<1> HIDE DEF v, x
<1>3. CASE n = Len(r.out)
  <2>1. x.pc = "written" /\ x = [r EXCEPT !.out = v, !.pc = "written"]
    BY <1>0, <1>2, <1>3
  <2>2. T(svc, inputs)!ChildNext(x)
          = IF svc = "str_echo" THEN [x EXCEPT !.pc = "readline"] ELSE [x EXCEPT !.pc = "exited"]
    BY <2>1 DEF T!ChildNext, T!exit
  <2>3. T(svc, inputs)!ChildNext(x) = [r EXCEPT !.out = v, !.pc = AfterWrite(svc, v)]
    BY <1>0, <1>1, <1>3, <2>1, <2>2 DEF AfterWrite
  <2> QED  BY <2>3 DEF x, v, ChildWritesTo
<1>4. CASE n # Len(r.out)
  <2>1. x.pc = "writen" /\ x = [r EXCEPT !.out = v, !.pc = "writen"]
    BY <1>0, <1>2, <1>4
  <2>2. T(svc, inputs)!ChildNext(x) = x
    BY <2>1 DEF T!ChildNext
  <2>3. T(svc, inputs)!ChildNext(x) = [r EXCEPT !.out = v, !.pc = AfterWrite(svc, v)]
    BY <1>1, <1>4, <2>1, <2>2 DEF AfterWrite
  <2> QED  BY <2>3 DEF x, v, ChildWritesTo
<1> QED  BY <1>3, <1>4

LEMMA ChildWritesShape ==
    ASSUME NEW svc, NEW inputs, Setting(svc, inputs), WebTypes(inputs),
           NEW c \in Clients, T(svc, inputs)!ChildWrites(c)
    PROVE  /\ child[c].pc = "writen"
           /\ ChildWrote(svc, c) \/ ChildWroteNobody(c)
           /\ child' = [child EXCEPT ![c] = child'[c]] /\ down' = [down EXCEPT ![c] = down'[c]]
           /\ held' = [held EXCEPT ![c] = IF Over(child'[c]) THEN @ \ {"child"} ELSE @]
           /\ UNCHANGED <<main, current, listeners, conn, client, up, unsent, input, failures>>
<1> DEFINE r == child[c]
           next(x) == T(svc, inputs)!ChildNext(x)
           sets(x) == /\ child' = [child EXCEPT ![c] = next(x)]
                      /\ held' = [held EXCEPT ![c] = IF Over(next(x)) THEN @ \ {"child"} ELSE @]
<1>0. /\ r \in ChildPrograms /\ r.out \in Chars /\ down[c] \in Chars /\ Len(r.out) \in Nat
      /\ child \in [Clients -> ChildPrograms] /\ down \in [Clients -> Chars]
      /\ r = [pc |-> r.pc, buf |-> r.buf, line |-> r.line, out |-> r.out, shown |-> r.shown]
  BY LenChars DEF WebTypes, ChildPrograms, ProgramAt
<1>1. /\ r.pc = "writen"
      /\ UNCHANGED <<main, current, listeners, conn, client, up, unsent, input, failures>>
      /\ \/ /\ Over(client[c]) /\ sets(T(svc, inputs)!writen(r, Len(r.out))) /\ down' = down
         \/ Over(client[c]) /\ sets(T(svc, inputs)!err_sys(r)) /\ down' = down
         \/ \E n \in 1..Len(r.out) :
                /\ sets(T(svc, inputs)!writen(r, n))
                /\ down' = [down EXCEPT ![c] = @ \o SubSeq(r.out, 1, n)]
  BY DEF T!ChildWrites, T!SetChild, T!Dead, Over
<1>a. ASSUME NEW x, sets(x) PROVE child'[c] = next(x) /\ child' = [child EXCEPT ![c] = child'[c]]
                    /\ held' = [held EXCEPT ![c] = IF Over(child'[c]) THEN @ \ {"child"} ELSE @]
  <2> HIDE DEF next
  <2> QED  BY <1>0, <1>a
<1>b. ASSUME NEW n \in 0..Len(r.out), sets(T(svc, inputs)!writen(r, n))
      PROVE  /\ child'[c] = [r EXCEPT !.out = Behind(r.out, n),
                                      !.pc = AfterWrite(svc, Behind(r.out, n))]
             /\ child' = [child EXCEPT ![c] = child'[c]]
             /\ held' = [held EXCEPT ![c] = IF Over(child'[c]) THEN @ \ {"child"} ELSE @]
  <2>1. /\ child'[c] = next(T(svc, inputs)!writen(r, n)) /\ child' = [child EXCEPT ![c] = child'[c]]
        /\ held' = [held EXCEPT ![c] = IF Over(child'[c]) THEN @ \ {"child"} ELSE @]
    BY <1>a, <1>b
  <2> HIDE DEF sets
  <2>2. ChildWritesTo(svc, r, n, child'[c])
    <3>1. n \in Nat /\ n <= Len(r.out) /\ r \in ChildPrograms /\ r.pc = "writen"
      BY <1>0, <1>1
    <3> HIDE DEF r
    <3>2. ChildWritesTo(svc, r, n, T(svc, inputs)!ChildNext(T(svc, inputs)!writen(r, n)))
      BY <3>1, ChildWriteNext
    <3>3. child'[c] = T(svc, inputs)!ChildNext(T(svc, inputs)!writen(r, n))
      BY <2>1
    <3> QED  BY <3>2, <3>3
  <2> QED  BY <2>1, <2>2 DEF ChildWritesTo
<1>2. CASE Over(client[c]) /\ sets(T(svc, inputs)!writen(r, Len(r.out))) /\ down' = down
  <2>1. /\ child'[c] = [r EXCEPT !.out = Behind(r.out, Len(r.out)),
                                 !.pc = AfterWrite(svc, Behind(r.out, Len(r.out)))]
        /\ child' = [child EXCEPT ![c] = child'[c]]
        /\ held' = [held EXCEPT ![c] = IF Over(child'[c]) THEN @ \ {"child"} ELSE @]
    <3>1. Len(r.out) \in 0..Len(r.out)
      BY <1>0
    <3> HIDE DEF sets
    <3> QED  BY <1>2, <1>b, <3>1
  <2>2. Behind(r.out, Len(r.out)) = <<>>
    BY <1>0, CutAtEnd
  <2>3. <<>> \in Chars
    BY DEF Chars
  <2>4. /\ child'[c] \in ChildPrograms
        /\ child'[c].pc \in {"readline", "exited", "failed"}
    <3>1. AfterWrite(svc, <<>>) \in {"readline", "exited"}
      BY DEF AfterWrite
    <3>2. child'[c] = [r EXCEPT !.out = <<>>, !.pc = AfterWrite(svc, <<>>)]
      BY <2>1, <2>2
    <3> HIDE DEF sets
    <3> QED  BY <1>0, <2>3, <3>1, <3>2 DEF ChildPrograms, ProgramAt
  <2>5. down' = [down EXCEPT ![c] = down'[c]]
    BY <1>0, <1>2
  <2> HIDE DEF sets
  <2> QED  BY <1>1, <1>2, <2>1, <2>4, <2>5 DEF ChildWroteNobody
<1>3. CASE Over(client[c]) /\ sets(T(svc, inputs)!err_sys(r)) /\ down' = down
  <2> DEFINE x == T(svc, inputs)!err_sys(r)
  <2>1. x = [r EXCEPT !.pc = "failed"] /\ x.pc = "failed"
    BY <1>0 DEF T!err_sys
  <2>2. /\ child'[c] = next(x) /\ child' = [child EXCEPT ![c] = child'[c]]
        /\ held' = [held EXCEPT ![c] = IF Over(child'[c]) THEN @ \ {"child"} ELSE @]
    <3> HIDE DEF next, x
    <3> QED  BY <1>0, <1>3, <1>a DEF x
  <2> HIDE DEF x
  <2>3. next(x) = x
    BY <2>1 DEF T!ChildNext
  <2>4. /\ child'[c] \in ChildPrograms
        /\ child'[c].pc \in {"readline", "exited", "failed"}
    BY <1>0, <2>1, <2>2, <2>3 DEF ChildPrograms, ProgramAt
  <2>5. down' = [down EXCEPT ![c] = down'[c]]
    BY <1>0, <1>3
  <2> HIDE DEF sets
  <2> QED  BY <1>1, <1>3, <2>2, <2>4, <2>5 DEF ChildWroteNobody
<1>4. ASSUME NEW n \in 1..Len(r.out), sets(T(svc, inputs)!writen(r, n)),
             down' = [down EXCEPT ![c] = @ \o SubSeq(r.out, 1, n)]
      PROVE  /\ ChildWrote(svc, c) /\ child' = [child EXCEPT ![c] = child'[c]]
             /\ down' = [down EXCEPT ![c] = down'[c]]
             /\ held' = [held EXCEPT ![c] = IF Over(child'[c]) THEN @ \ {"child"} ELSE @]
  <2>1. n \in 0..Len(r.out)
    BY <1>0
  <2>2. /\ child'[c] = [r EXCEPT !.out = Behind(r.out, n),
                                 !.pc = AfterWrite(svc, Behind(r.out, n))]
        /\ child' = [child EXCEPT ![c] = child'[c]]
        /\ held' = [held EXCEPT ![c] = IF Over(child'[c]) THEN @ \ {"child"} ELSE @]
    <3> HIDE DEF sets
    <3> QED  BY <1>4, <1>b, <2>1
  <2>3. /\ SubSeq(r.out, 1, n) \in Chars /\ Behind(r.out, n) \in Chars
        /\ r.out = SubSeq(r.out, 1, n) \o Behind(r.out, n)
    BY <1>0, <2>1, Cut
  <2>4. down'[c] = down[c] \o SubSeq(r.out, 1, n) /\ down' = [down EXCEPT ![c] = down'[c]]
    BY <1>0, <1>4
  <2> HIDE DEF sets
  <2> QED  BY <2>2, <2>3, <2>4 DEF ChildWrote
<1> QED
  <2> HIDE DEF sets
  <2> QED  BY <1>1, <1>2, <1>3, <1>4

-----------------------------------------------------------------------------
\* A step of a child that runs.
LEMMA ChildRunsPlaces ==
    ASSUME NEW inputs, WebTypes(inputs), ControlInv, NEW c \in Clients,
           child[c].pc \in {"readline", "writen"}, child'[c] \in ChildPrograms,
           child'[c].pc \in {"readline", "writen", "exited", "failed"},
           child' = [child EXCEPT ![c] = child'[c]],
           up' \in [Clients -> Chars], down' \in [Clients -> Chars],
           held' = [held EXCEPT ![c] = IF Over(child'[c]) THEN @ \ {"child"} ELSE @],
           UNCHANGED <<main, current, listeners, conn, client, unsent, input, failures>>
    PROVE  /\ WebTypes(inputs)' /\ ControlInv' /\ StaysGone /\ ~Gone(c)
<1>1. WebTypes(inputs)'
  BY DEF WebTypes
<1>2. StaysGone /\ ~Gone(c)
  BY DEF StaysGone, Gone, WebTypes
<1>3. ControlInv'
  <2>1. ASSUME NEW d \in Clients PROVE PlaceInvOf(d)'
    <3>1. CASE d = c
      <4>1. conn[c] = "accepted" /\ "child" \in held[c]
        BY DEF ControlInv, PlaceInvOf
      <4>2. child'[c].pc \in {"readline", "writen"} => "child" \in held'[c]
        BY <4>1 DEF WebTypes, Over
      <4> QED  BY <3>1, <4>1, <4>2 DEF ControlInv, PlaceInvOf, Over
    <3>2. CASE d # c
      <4>1. child'[d] = child[d] /\ held'[d] = held[d]
        BY <3>2 DEF WebTypes
      <4> QED  BY <4>1 DEF ControlInv, PlaceInvOf, Over
    <3> QED  BY <3>1, <3>2
  <2>2. main \in {"fork", "close"} => conn[current] = "accepted" /\ "main" \in held'[current]
    BY DEF ControlInv, WebTypes
  <2>3. main = "fork" => child'[current].pc = "none"
    BY DEF ControlInv, WebTypes
  <2> QED  BY <2>1, <2>2, <2>3 DEF ControlInv
<1> QED  BY <1>1, <1>2, <1>3

LEMMA ChildReadsPlaces ==
    ASSUME NEW svc, NEW inputs, Setting(svc, inputs), WebTypes(inputs), ControlInv,
           NEW c \in Clients, T(svc, inputs)!ChildReads(c)
    PROVE  /\ WebTypes(inputs)' /\ ControlInv' /\ StaysGone /\ ~Gone(c)
           /\ \A d \in Clients \ {c} : Same(d)
           /\ ChildRead(svc, inputs, c) \/ ChildEnds(svc, inputs, c) \/ ChildFails(c)
           /\ child[c].pc = "readline" /\ UNCHANGED <<client, down, unsent, input, failures>>
<1>1. /\ child[c].pc = "readline"
      /\ ChildRead(svc, inputs, c) \/ ChildEnds(svc, inputs, c) \/ ChildFails(c)
      /\ child' = [child EXCEPT ![c] = child'[c]] /\ up' = [up EXCEPT ![c] = up'[c]]
      /\ held' = [held EXCEPT ![c] = IF Over(child'[c]) THEN @ \ {"child"} ELSE @]
      /\ UNCHANGED <<main, current, listeners, conn, client, down, unsent, input, failures>>
  BY ChildReadsShape
<1>2. /\ child[c] \in ChildPrograms /\ child[c].line \in Chars /\ <<>> \in Chars
      /\ child[c] = [pc |-> child[c].pc, buf |-> child[c].buf, line |-> child[c].line,
                     out |-> child[c].out, shown |-> child[c].shown]
      /\ child[c].buf \in Chars /\ child[c].out \in Chars /\ child[c].shown \in Chars
  BY NothingJoined DEF WebTypes, ChildPrograms, ProgramAt, Chars
<1>3. /\ up'[c] \in Chars /\ child'[c] \in ChildPrograms
      /\ child'[c].pc \in {"readline", "writen", "exited", "failed"}
  <2>1. CASE ChildRead(svc, inputs, c)
    <3>1. PICK s \in Chars :
            /\ up'[c] \in Chars
            /\ ChildGoesOn(c, s) \/ \E j \in 1..Len(s) : ChildAnswers(svc, inputs, c, s, j)
      BY <2>1 DEF ChildRead
    <3>2. CASE ChildGoesOn(c, s)
      <4>1. child[c].line \o s \in Chars
        BY <1>2, Joined
      <4>2. child'[c] = [child[c] EXCEPT !.line = child[c].line \o s, !.buf = <<>>]
        BY <3>2 DEF ChildGoesOn
      <4> QED  BY <1>1, <1>2, <3>1, <4>1, <4>2 DEF ChildPrograms, ProgramAt
    <3>3. ASSUME NEW j \in 1..Len(s), ChildAnswers(svc, inputs, c, s, j)
          PROVE  /\ child'[c] \in ChildPrograms
                 /\ child'[c].pc \in {"readline", "writen", "exited", "failed"}
      <4> DEFINE v == AnswerTo(svc, inputs, child[c].line \o SubSeq(s, 1, j))
      <4>1. j \in 0..Len(s)
        BY LenChars
      <4>2. SubSeq(s, 1, j) \in Chars /\ Behind(s, j) \in Chars
        BY <4>1, Cut
      <4>3. v \in Chars
        BY <1>2, <4>2, Joined, AnswerChars
      <4>4. child'[c] = [child[c] EXCEPT !.pc = "writen", !.line = <<>>, !.buf = Behind(s, j),
                                         !.out = v]
        BY <3>3 DEF ChildAnswers
      <4> HIDE DEF v
      <4> QED  BY <1>2, <4>2, <4>3, <4>4 DEF ChildPrograms, ProgramAt
    <3> QED  BY <3>1, <3>2, <3>3
  <2>2. CASE ChildEnds(svc, inputs, c)
    <3>1. AnswerTo(svc, inputs, child[c].line) \in Chars
      BY <1>2, AnswerChars
    <3>2. /\ up'[c] = <<>>
          /\ \/ child'[c] = [child[c] EXCEPT !.pc = "exited"]
             \/ child'[c] = [child[c] EXCEPT !.pc = "writen", !.line = <<>>,
                                             !.out = AnswerTo(svc, inputs, child[c].line)]
      BY <2>2 DEF ChildEnds
    <3> QED  BY <1>2, <3>1, <3>2 DEF ChildPrograms, ProgramAt
  <2>3. CASE ChildFails(c)
    BY <1>2, <2>3 DEF ChildFails, WebTypes, ChildPrograms, ProgramAt
  <2> QED  BY <1>1, <2>1, <2>2, <2>3
<1>4. up' \in [Clients -> Chars] /\ down' \in [Clients -> Chars]
  BY <1>1, <1>3 DEF WebTypes
<1>5. WebTypes(inputs)' /\ ControlInv' /\ StaysGone /\ ~Gone(c)
  BY <1>1, <1>3, <1>4, ChildRunsPlaces
<1>6. \A d \in Clients \ {c} : Same(d)
  BY <1>1 DEF Same, WebTypes
<1> QED  BY <1>1, <1>5, <1>6

LEMMA ChildWritesPlaces ==
    ASSUME NEW svc, NEW inputs, Setting(svc, inputs), WebTypes(inputs), ControlInv,
           NEW c \in Clients, T(svc, inputs)!ChildWrites(c)
    PROVE  /\ WebTypes(inputs)' /\ ControlInv' /\ StaysGone /\ ~Gone(c)
           /\ \A d \in Clients \ {c} : Same(d)
           /\ ChildWrote(svc, c) \/ ChildWroteNobody(c)
           /\ child[c].pc = "writen" /\ UNCHANGED <<client, up, unsent, input, failures>>
<1>1. /\ child[c].pc = "writen"
      /\ ChildWrote(svc, c) \/ ChildWroteNobody(c)
      /\ child' = [child EXCEPT ![c] = child'[c]] /\ down' = [down EXCEPT ![c] = down'[c]]
      /\ held' = [held EXCEPT ![c] = IF Over(child'[c]) THEN @ \ {"child"} ELSE @]
      /\ UNCHANGED <<main, current, listeners, conn, client, up, unsent, input, failures>>
  BY ChildWritesShape
<1>2. /\ child[c] \in ChildPrograms /\ down[c] \in Chars
      /\ child[c] = [pc |-> child[c].pc, buf |-> child[c].buf, line |-> child[c].line,
                     out |-> child[c].out, shown |-> child[c].shown]
  BY DEF WebTypes, ChildPrograms, ProgramAt
<1>3. /\ down'[c] \in Chars /\ child'[c] \in ChildPrograms
      /\ child'[c].pc \in {"readline", "writen", "exited", "failed"}
  <2>1. CASE ChildWrote(svc, c)
    <3>1. PICK s \in Chars, v \in Chars :
            /\ down'[c] = down[c] \o s
            /\ child'[c] = [child[c] EXCEPT !.out = v, !.pc = AfterWrite(svc, v)]
      BY <2>1 DEF ChildWrote
    <3>2. AfterWrite(svc, v) \in {"readline", "writen", "exited"}
      BY DEF AfterWrite
    <3>3. down'[c] \in Chars
      BY <1>2, <3>1, Joined
    <3> QED  BY <1>2, <3>1, <3>2, <3>3 DEF ChildPrograms, ProgramAt
  <2>2. CASE ChildWroteNobody(c)
    BY <1>2, <2>2 DEF ChildWroteNobody
  <2> QED  BY <1>1, <2>1, <2>2
<1>4. up' \in [Clients -> Chars] /\ down' \in [Clients -> Chars]
  BY <1>1, <1>3 DEF WebTypes
<1>5. WebTypes(inputs)' /\ ControlInv' /\ StaysGone /\ ~Gone(c)
  BY <1>1, <1>3, <1>4, ChildRunsPlaces
<1>6. \A d \in Clients \ {c} : Same(d)
  BY <1>1 DEF Same, WebTypes
<1> QED  BY <1>1, <1>5, <1>6

-----------------------------------------------------------------------------
(***************************************************************************)
(* The same of a client.                                                   *)
(***************************************************************************)
Unheard(c) == conn[c] = "reset" \/ (conn[c] = "accepted" /\ held[c] = {})

AfterLine(c) == IF IsCli(c) THEN "fgets" ELSE "readline"
ClientGoesOn(c, s) ==
    /\ NoEnd(s, Len(client[c].line), Len(s))
    /\ client'[c] = [client[c] EXCEPT !.line = client[c].line \o s, !.buf = <<>>]
ClientPrints(c, s, j) ==
    /\ FirstEnd(s, Len(client[c].line), j)
    /\ client'[c] = [client[c] EXCEPT
           !.pc = AfterLine(c), !.shown = client[c].shown \o (client[c].line \o SubSeq(s, 1, j)),
           !.line = <<>>, !.buf = Behind(s, j)]
ClientRead(c) ==
    \E s \in Chars :
        /\ s # <<>> /\ down'[c] \in Chars /\ client[c].buf \o down[c] = s \o down'[c]
        /\ ClientGoesOn(c, s) \/ \E j \in 1..Len(s) : ClientPrints(c, s, j)

ClientEnds(c) ==
    /\ client[c].buf = <<>> /\ down[c] = <<>> /\ down'[c] = <<>> /\ Unheard(c)
    /\ IF client[c].line = <<>>
       THEN client'[c] = [client[c] EXCEPT !.pc = IF IsCli(c) THEN "failed" ELSE "exited"]
       ELSE client'[c] = [client[c] EXCEPT !.pc = AfterLine(c), !.line = <<>>,
                                           !.shown = client[c].shown \o client[c].line]
ClientReset(c) ==
    Unheard(c) /\ down'[c] = down[c] /\ client'[c] = [client[c] EXCEPT !.pc = "failed"]

AfterSend(c, v) == IF v # <<>> THEN "writen" ELSE IF IsCli(c) THEN "readline" ELSE "fgets"
ClientWrote(c) ==
    /\ ~Unheard(c)
    /\ \E s, v \in Chars :
        /\ client[c].out = s \o v /\ up'[c] = up[c] \o s
        /\ client'[c] = [client[c] EXCEPT !.out = v, !.pc = AfterSend(c, v)]
ClientWroteNobody(c) ==
    /\ Unheard(c) /\ up'[c] = up[c]
    /\ \/ client'[c] = [client[c] EXCEPT !.out = <<>>, !.pc = AfterSend(c, <<>>)]
       \/ client'[c] = [client[c] EXCEPT !.pc = "failed"]

ClientReadsTo(c, r, s, y) ==
    \/ NoEnd(s, Len(r.line), Len(s)) /\ y = [r EXCEPT !.line = r.line \o s, !.buf = <<>>]
    \/ \E j \in 1..Len(s) :
        /\ FirstEnd(s, Len(r.line), j)
        /\ y = [r EXCEPT !.pc = AfterLine(c), !.shown = r.shown \o (r.line \o SubSeq(s, 1, j)),
                         !.line = <<>>, !.buf = Behind(s, j)]

LEMMA ClientReadNext ==
    ASSUME NEW svc, NEW inputs, Setting(svc, inputs), NEW c \in Clients,
           NEW r \in ClientPrograms, r.pc = "readline", NEW s \in Chars
    PROVE  ClientReadsTo(c, r, s, T(svc, inputs)!ClientNext(c, T(svc, inputs)!readline(r, s)))
<1> DEFINE x == T(svc, inputs)!readline(r, s)
           y == T(svc, inputs)!ClientNext(c, x)
<1>0. r = [pc |-> r.pc, buf |-> r.buf, line |-> r.line, out |-> r.out, shown |-> r.shown]
  BY DEF ClientPrograms, ProgramAt
<1>1. CASE GoesOn(r, s, x)
  <2>1. x = [r EXCEPT !.line = r.line \o s, !.buf = <<>>] /\ NoEnd(s, Len(r.line), Len(s))
    BY <1>1 DEF GoesOn
  <2> HIDE DEF x
  <2>2. x.pc = "readline"
    BY <1>0, <2>1
  <2>3. y = x
    BY <2>2 DEF T!ClientNext
  <2> QED  BY <2>1, <2>3 DEF x, ClientReadsTo
<1>2. CASE \E j \in 1..Len(s) : HasLine(r, s, j, x)
  <2>1. PICK j \in 1..Len(s) : HasLine(r, s, j, x)
    BY <1>2
  <2>2. /\ FirstEnd(s, Len(r.line), j)
        /\ x = [r EXCEPT !.line = r.line \o SubSeq(s, 1, j), !.buf = Behind(s, j), !.pc = "got"]
    BY <2>1 DEF HasLine
  <2> HIDE DEF x
  <2>3. x.pc = "got" /\ x.line = r.line \o SubSeq(s, 1, j) /\ x.shown = r.shown
    BY <1>0, <2>2
  <2>4. y = [x EXCEPT !.pc = AfterLine(c), !.shown = x.shown \o x.line, !.line = <<>>]
    BY <2>3, Zenon DEF T!ClientNext, T!Kind, AfterLine, IsCli
  <2>5. y = [r EXCEPT !.pc = AfterLine(c), !.shown = x.shown \o x.line,
                      !.line = <<>>, !.buf = Behind(s, j)]
    BY <1>0, <2>2, <2>4
  <2> QED  BY <2>2, <2>3, <2>5 DEF x, ClientReadsTo
<1> QED  BY <1>1, <1>2, ReadLine

LEMMA ClientReadsShape ==
    ASSUME NEW svc, NEW inputs, Setting(svc, inputs), WebTypes(inputs),
           NEW c \in Clients, T(svc, inputs)!ClientReads(c)
    PROVE  /\ client[c].pc = "readline"
           /\ ClientRead(c) \/ ClientEnds(c) \/ ClientReset(c)
           /\ client' = [client EXCEPT ![c] = client'[c]]
           /\ down' = [down EXCEPT ![c] = down'[c]]
           /\ UNCHANGED <<main, current, listeners, conn, held, child, up, unsent, input, failures>>
<1> DEFINE r == client[c]
           next(x) == T(svc, inputs)!ClientNext(c, x)
           sets(x) == client' = [client EXCEPT ![c] = next(x)]
<1>0. /\ r \in ClientPrograms /\ r.buf \in Chars /\ r.line \in Chars /\ down[c] \in Chars
      /\ client \in [Clients -> ClientPrograms] /\ down \in [Clients -> Chars]
  BY DEF WebTypes, ClientPrograms, ProgramAt
<1>1. /\ r.pc = "readline"
      /\ UNCHANGED <<main, current, listeners, conn, held, child, up, unsent, input, failures>>
      /\ \/ r.buf # <<>> /\ sets(T(svc, inputs)!readline(r, r.buf)) /\ down' = down
         \/ /\ r.buf = <<>>
            /\ \E n \in T(svc, inputs)!Some(down[c]) :
                /\ sets(T(svc, inputs)!readline(r, SubSeq(down[c], 1, n)))
                /\ down' = [down EXCEPT ![c] = T(svc, inputs)!Rest(@, n)]
         \/ /\ r.buf = <<>> /\ down[c] = <<>> /\ T(svc, inputs)!ServerDone(c)
            /\ sets(T(svc, inputs)!readline_eof(r)) /\ down' = down
         \/ conn[c] = "reset" /\ sets(T(svc, inputs)!err_sys(r)) /\ down' = down
  BY DEF T!ClientReads
<1> DEFINE frame == /\ client' = [client EXCEPT ![c] = client'[c]]
                    /\ down' = [down EXCEPT ![c] = down'[c]]
<1>a. ASSUME NEW x, sets(x)
      PROVE  client'[c] = next(x) /\ client' = [client EXCEPT ![c] = client'[c]]
  <2> HIDE DEF next
  <2> QED  BY <1>0, <1>a
<1>b. ASSUME NEW s \in Chars, s # <<>>, sets(T(svc, inputs)!readline(r, s)), down'[c] \in Chars,
             r.buf \o down[c] = s \o down'[c], down' = [down EXCEPT ![c] = down'[c]]
      PROVE  ClientRead(c) /\ frame
  <2>1. frame /\ client'[c] = next(T(svc, inputs)!readline(r, s))
    BY <1>a, <1>b
  <2>2. ClientGoesOn(c, s) \/ \E j \in 1..Len(s) : ClientPrints(c, s, j)
    <3>1. r \in ClientPrograms /\ r.pc = "readline"
      BY <1>0, <1>1
    <3>2. ClientReadsTo(c, r, s, client'[c])
      <4> HIDE DEF r
      <4>1. ClientReadsTo(c, r, s, T(svc, inputs)!ClientNext(c, T(svc, inputs)!readline(r, s)))
        BY <3>1, ClientReadNext
      <4> QED  BY <2>1, <4>1
    <3> QED  BY <3>2 DEF ClientReadsTo, ClientGoesOn, ClientPrints
  <2> HIDE DEF frame, sets
  <2> QED  BY <1>b, <2>1, <2>2 DEF ClientRead
<1>2. CASE r.buf # <<>> /\ sets(T(svc, inputs)!readline(r, r.buf)) /\ down' = down
  <2>1. /\ down'[c] \in Chars /\ r.buf \o down[c] = r.buf \o down'[c]
        /\ down' = [down EXCEPT ![c] = down'[c]]
    BY <1>0, <1>2
  <2> HIDE DEF sets, frame
  <2>2. ClientRead(c) /\ frame
    BY <1>0, <1>2, <1>b, <2>1
  <2> QED  BY <1>1, <2>2 DEF frame
<1>3. ASSUME r.buf = <<>>, NEW n \in T(svc, inputs)!Some(down[c]),
             sets(T(svc, inputs)!readline(r, SubSeq(down[c], 1, n))),
             down' = [down EXCEPT ![c] = T(svc, inputs)!Rest(@, n)]
      PROVE  ClientRead(c) /\ frame
  <2> DEFINE s == SubSeq(down[c], 1, n)
  <2>1. n \in 1..Len(down[c]) /\ n \in 0..Len(down[c]) /\ n # 0
    BY <1>0, <1>3, LenChars DEF T!Some, Setting
  <2>2. /\ s \in Chars /\ Len(s) = n /\ Behind(down[c], n) \in Chars
        /\ down[c] = s \o Behind(down[c], n)
    BY <1>0, <2>1, Cut
  <2>3. down'[c] = Behind(down[c], n) /\ down' = [down EXCEPT ![c] = down'[c]]
    BY <1>0, <1>3 DEF T!Rest, Behind
  <2>4. s # <<>>
    BY <2>1, <2>2, LenChars
  <2>5. r.buf \o down[c] = s \o down'[c]
    BY <1>0, <1>3, <2>2, <2>3, NothingJoined
  <2>6. sets(T(svc, inputs)!readline(r, s))
    BY <1>3
  <2> HIDE DEF s, sets, frame
  <2> QED  BY <1>b, <2>2, <2>3, <2>4, <2>5, <2>6
<1>c. r = [pc |-> r.pc, buf |-> r.buf, line |-> r.line, out |-> r.out, shown |-> r.shown]
  BY <1>0 DEF ClientPrograms, ProgramAt
<1>4. CASE /\ r.buf = <<>> /\ down[c] = <<>> /\ T(svc, inputs)!ServerDone(c)
           /\ sets(T(svc, inputs)!readline_eof(r)) /\ down' = down
  <2> DEFINE x == T(svc, inputs)!readline_eof(r)
  <2>1. client'[c] = next(x) /\ client' = [client EXCEPT ![c] = client'[c]]
    <3> HIDE DEF next, x
    <3> QED  BY <1>0, <1>4, <1>a DEF x
  <2>2. down'[c] = <<>> /\ down' = [down EXCEPT ![c] = down'[c]] /\ Unheard(c)
    BY <1>0, <1>4 DEF T!ServerDone, Unheard
  <2>4. x = [r EXCEPT !.pc = IF r.line = <<>> THEN "eof" ELSE "got"]
    BY DEF T!readline_eof
  <2>5. CASE r.line = <<>>
    <3>1. x.pc = "eof" /\ x = [r EXCEPT !.pc = "eof"]
      BY <1>c, <2>4, <2>5
    <3> HIDE DEF x
    <3>2. next(x) = IF IsCli(c) THEN [x EXCEPT !.pc = "failed"] ELSE [x EXCEPT !.pc = "exited"]
      BY <3>1 DEF T!ClientNext, T!exit, T!err_sys, T!Kind, IsCli
    <3>3. client'[c] = [r EXCEPT !.pc = IF IsCli(c) THEN "failed" ELSE "exited"]
      BY <1>c, <2>1, <3>1, <3>2
    <3> QED  BY <1>1, <1>4, <2>1, <2>2, <2>5, <3>3 DEF ClientEnds
  <2>6. CASE r.line # <<>>
    <3>1. x.pc = "got" /\ x = [r EXCEPT !.pc = "got"] /\ x.line = r.line /\ x.shown = r.shown
      BY <1>c, <2>4, <2>6
    <3> HIDE DEF x
    <3>2. next(x) = [x EXCEPT !.pc = AfterLine(c), !.shown = x.shown \o x.line, !.line = <<>>]
      BY <3>1, Zenon DEF T!ClientNext, T!Kind, AfterLine, IsCli
    <3>3. client'[c] = [r EXCEPT !.pc = AfterLine(c), !.line = <<>>, !.shown = r.shown \o r.line]
      BY <1>c, <2>1, <3>1, <3>2
    <3> QED  BY <1>1, <1>4, <2>1, <2>2, <2>6, <3>3 DEF ClientEnds
  <2> QED  BY <2>5, <2>6
<1>5. CASE conn[c] = "reset" /\ sets(T(svc, inputs)!err_sys(r)) /\ down' = down
  <2> DEFINE x == T(svc, inputs)!err_sys(r)
  <2>1. x = [r EXCEPT !.pc = "failed"] /\ x.pc = "failed"
    BY <1>c DEF T!err_sys
  <2>2. client'[c] = next(x) /\ client' = [client EXCEPT ![c] = client'[c]]
    <3> HIDE DEF next, x
    <3> QED  BY <1>0, <1>5, <1>a DEF x
  <2> HIDE DEF x
  <2>3. next(x) = x
    BY <2>1 DEF T!ClientNext
  <2>4. ClientReset(c)
    BY <1>5, <2>1, <2>2, <2>3 DEF ClientReset, Unheard
  <2>5. down' = [down EXCEPT ![c] = down'[c]]
    BY <1>0, <1>5
  <2> QED  BY <1>1, <2>2, <2>4, <2>5
<1> QED
  <2> HIDE DEF sets
  <2> QED  BY <1>1, <1>2, <1>3, <1>4, <1>5

ClientWritesTo(c, r, n, y) ==
    y = [r EXCEPT !.out = Behind(r.out, n), !.pc = AfterSend(c, Behind(r.out, n))]

LEMMA ClientWriteNext ==
    ASSUME NEW svc, NEW inputs, Setting(svc, inputs), NEW c \in Clients,
           NEW r \in ClientPrograms, r.pc = "writen", NEW n \in Nat, n <= Len(r.out)
    PROVE  ClientWritesTo(c, r, n, T(svc, inputs)!ClientNext(c, T(svc, inputs)!writen(r, n)))
<1> DEFINE x == T(svc, inputs)!writen(r, n)
           v == Behind(r.out, n)
<1>0. /\ r = [pc |-> r.pc, buf |-> r.buf, line |-> r.line, out |-> r.out, shown |-> r.shown]
      /\ r.out \in Chars /\ n \in 0..Len(r.out)
  BY LenChars DEF ClientPrograms, ProgramAt
<1>1. v \in Chars /\ (v = <<>> <=> n = Len(r.out))
  <2>1. v \in Chars /\ Len(v) = Len(r.out) - n /\ Len(r.out) \in Nat
    BY <1>0, Cut, LenChars
  <2> HIDE DEF v
  <2> QED  BY <2>1, LenChars
<1>2. x = [r EXCEPT !.out = v, !.pc = IF n = Len(r.out) THEN "written" ELSE r.pc]
  BY <1>0 DEF T!writen, Behind
<1> HIDE DEF v, x
<1>3. CASE n = Len(r.out)
  <2>1. x.pc = "written" /\ x = [r EXCEPT !.out = v, !.pc = "written"]
    BY <1>0, <1>2, <1>3
  <2>2. T(svc, inputs)!ClientNext(c, x) = [x EXCEPT !.pc = IF IsCli(c) THEN "readline" ELSE "fgets"]
    BY <2>1 DEF T!ClientNext, T!Kind, IsCli
  <2>3. T(svc, inputs)!ClientNext(c, x) = [r EXCEPT !.out = v, !.pc = AfterSend(c, v)]
    BY <1>0, <1>1, <1>3, <2>1, <2>2 DEF AfterSend
  <2> QED  BY <2>3 DEF x, v, ClientWritesTo
<1>4. CASE n # Len(r.out)
  <2>1. x.pc = "writen" /\ x = [r EXCEPT !.out = v, !.pc = "writen"]
    BY <1>0, <1>2, <1>4
  <2>2. T(svc, inputs)!ClientNext(c, x) = x
    BY <2>1 DEF T!ClientNext
  <2>3. T(svc, inputs)!ClientNext(c, x) = [r EXCEPT !.out = v, !.pc = AfterSend(c, v)]
    BY <1>1, <1>4, <2>1, <2>2 DEF AfterSend
  <2> QED  BY <2>3 DEF x, v, ClientWritesTo
<1> QED  BY <1>3, <1>4

LEMMA ClientWritesShape ==
    ASSUME NEW svc, NEW inputs, Setting(svc, inputs), WebTypes(inputs),
           NEW c \in Clients, T(svc, inputs)!ClientWrites(c)
    PROVE  /\ client[c].pc = "writen"
           /\ ClientWrote(c) \/ ClientWroteNobody(c)
           /\ client' = [client EXCEPT ![c] = client'[c]] /\ up' = [up EXCEPT ![c] = up'[c]]
           /\ UNCHANGED <<main, current, listeners, conn, held, child, down, unsent, input,
                           failures>>
<1> DEFINE r == client[c]
           next(x) == T(svc, inputs)!ClientNext(c, x)
           sets(x) == client' = [client EXCEPT ![c] = next(x)]
<1>0. /\ r \in ClientPrograms /\ r.out \in Chars /\ up[c] \in Chars /\ Len(r.out) \in Nat
      /\ client \in [Clients -> ClientPrograms] /\ up \in [Clients -> Chars]
      /\ r = [pc |-> r.pc, buf |-> r.buf, line |-> r.line, out |-> r.out, shown |-> r.shown]
  BY LenChars DEF WebTypes, ClientPrograms, ProgramAt
<1>1. /\ r.pc = "writen"
      /\ UNCHANGED <<main, current, listeners, conn, held, child, down, unsent, input,
                           failures>>
      /\ \/ Unheard(c) /\ sets(T(svc, inputs)!writen(r, Len(r.out))) /\ up' = up
         \/ Unheard(c) /\ sets(T(svc, inputs)!err_sys(r)) /\ up' = up
         \/ /\ ~Unheard(c)
            /\ \E n \in 1..Len(r.out) :
                /\ sets(T(svc, inputs)!writen(r, n))
                /\ up' = [up EXCEPT ![c] = @ \o SubSeq(r.out, 1, n)]
  BY DEF T!ClientWrites, T!ServerDone, Unheard
<1>a. ASSUME NEW x, sets(x)
      PROVE  client'[c] = next(x) /\ client' = [client EXCEPT ![c] = client'[c]]
  <2> HIDE DEF next
  <2> QED  BY <1>0, <1>a
<1>b. ASSUME NEW n \in 0..Len(r.out), sets(T(svc, inputs)!writen(r, n))
      PROVE  /\ client'[c] = [r EXCEPT !.out = Behind(r.out, n),
                                       !.pc = AfterSend(c, Behind(r.out, n))]
             /\ client' = [client EXCEPT ![c] = client'[c]]
  <2>1. /\ client'[c] = next(T(svc, inputs)!writen(r, n))
        /\ client' = [client EXCEPT ![c] = client'[c]]
    BY <1>a, <1>b
  <2>2. ClientWritesTo(c, r, n, client'[c])
    <3>1. n \in Nat /\ n <= Len(r.out) /\ r \in ClientPrograms /\ r.pc = "writen"
      BY <1>0, <1>1
    <3> HIDE DEF r
    <3>2. ClientWritesTo(c, r, n, T(svc, inputs)!ClientNext(c, T(svc, inputs)!writen(r, n)))
      BY <3>1, ClientWriteNext
    <3>3. client'[c] = T(svc, inputs)!ClientNext(c, T(svc, inputs)!writen(r, n))
      BY <2>1
    <3> QED  BY <3>2, <3>3
  <2> QED  BY <2>1, <2>2 DEF ClientWritesTo
<1>2. CASE Unheard(c) /\ sets(T(svc, inputs)!writen(r, Len(r.out))) /\ up' = up
  <2>1. /\ client'[c] = [r EXCEPT !.out = Behind(r.out, Len(r.out)),
                                  !.pc = AfterSend(c, Behind(r.out, Len(r.out)))]
        /\ client' = [client EXCEPT ![c] = client'[c]]
    <3>1. Len(r.out) \in 0..Len(r.out)
      BY <1>0
    <3> HIDE DEF sets
    <3> QED  BY <1>2, <1>b, <3>1
  <2>2. Behind(r.out, Len(r.out)) = <<>>
    BY <1>0, CutAtEnd
  <2>3. client'[c] = [r EXCEPT !.out = <<>>, !.pc = AfterSend(c, <<>>)]
    BY <2>1, <2>2
  <2>4. up' = [up EXCEPT ![c] = up'[c]] /\ up'[c] = up[c]
    BY <1>0, <1>2
  <2> HIDE DEF sets
  <2> QED  BY <1>1, <1>2, <2>1, <2>3, <2>4 DEF ClientWroteNobody
<1>3. CASE Unheard(c) /\ sets(T(svc, inputs)!err_sys(r)) /\ up' = up
  <2> DEFINE x == T(svc, inputs)!err_sys(r)
  <2>1. x = [r EXCEPT !.pc = "failed"] /\ x.pc = "failed"
    BY <1>0 DEF T!err_sys
  <2>2. client'[c] = next(x) /\ client' = [client EXCEPT ![c] = client'[c]]
    <3> HIDE DEF next, x
    <3> QED  BY <1>0, <1>3, <1>a DEF x
  <2> HIDE DEF x
  <2>3. next(x) = x
    BY <2>1 DEF T!ClientNext
  <2>4. up' = [up EXCEPT ![c] = up'[c]] /\ up'[c] = up[c]
    BY <1>0, <1>3
  <2>5. ClientWroteNobody(c)
    BY <1>3, <2>1, <2>2, <2>3, <2>4 DEF ClientWroteNobody
  <2> HIDE DEF sets
  <2> QED  BY <1>1, <2>2, <2>4, <2>5
<1>4. ASSUME ~Unheard(c), NEW n \in 1..Len(r.out), sets(T(svc, inputs)!writen(r, n)),
             up' = [up EXCEPT ![c] = @ \o SubSeq(r.out, 1, n)]
      PROVE  /\ ClientWrote(c) /\ client' = [client EXCEPT ![c] = client'[c]]
             /\ up' = [up EXCEPT ![c] = up'[c]]
  <2>1. n \in 0..Len(r.out)
    BY <1>0
  <2>2. /\ client'[c] = [r EXCEPT !.out = Behind(r.out, n),
                                  !.pc = AfterSend(c, Behind(r.out, n))]
        /\ client' = [client EXCEPT ![c] = client'[c]]
    <3> HIDE DEF sets
    <3> QED  BY <1>4, <1>b, <2>1
  <2>3. /\ SubSeq(r.out, 1, n) \in Chars /\ Behind(r.out, n) \in Chars
        /\ r.out = SubSeq(r.out, 1, n) \o Behind(r.out, n)
    BY <1>0, <2>1, Cut
  <2>4. up'[c] = up[c] \o SubSeq(r.out, 1, n) /\ up' = [up EXCEPT ![c] = up'[c]]
    BY <1>0, <1>4
  <2> HIDE DEF sets
  <2> QED  BY <1>4, <2>2, <2>3, <2>4 DEF ClientWrote
<1> QED
  <2> HIDE DEF sets
  <2> QED  BY <1>1, <1>2, <1>3, <1>4

-----------------------------------------------------------------------------
\* A step of a client that has connected.
LEMMA ClientRunsPlaces ==
    ASSUME NEW inputs, WebTypes(inputs), ControlInv, NEW c \in Clients, ~Over(client[c]),
           client'[c] \in ClientPrograms, client'[c].pc # "connect",
           client' = [client EXCEPT ![c] = client'[c]],
           up' \in [Clients -> Chars], down' \in [Clients -> Chars], unsent' \in [Clients -> Chars],
           failures' \in {failures, failures + 1},
           UNCHANGED <<main, current, listeners, conn, held, child, input>>
    PROVE  WebTypes(inputs)' /\ ControlInv' /\ StaysGone
<1>1. WebTypes(inputs)'
  <2>1. client' \in [Clients -> ClientPrograms]
    BY DEF WebTypes
  <2>2. failures' \in Nat
    BY DEF WebTypes
  <2> QED  BY <2>1, <2>2 DEF WebTypes
<1>2. StaysGone
  BY DEF StaysGone, Gone, WebTypes
<1>3. ControlInv'
  <2>1. ASSUME NEW d \in Clients PROVE PlaceInvOf(d)'
    <3>1. CASE d = c
      BY <3>1 DEF ControlInv, PlaceInvOf, WebTypes
    <3>2. CASE d # c
      <4>1. client'[d] = client[d]
        BY <3>2 DEF WebTypes
      <4> QED  BY <4>1 DEF ControlInv, PlaceInvOf, Over, WebTypes
    <3> QED  BY <3>1, <3>2
  <2> QED  BY <2>1 DEF ControlInv, WebTypes
<1> QED  BY <1>1, <1>2, <1>3

LEMMA ClientKilledPlaces ==
    ASSUME NEW svc, NEW inputs, Setting(svc, inputs), WebTypes(inputs), ControlInv,
           NEW c \in Clients, T(svc, inputs)!ClientKilled(c)
    PROVE  /\ WebTypes(inputs)' /\ ControlInv' /\ StaysGone
           /\ \A d \in Clients \ {c} : Same(d)
           /\ ~Over(client[c]) /\ client'[c] = [client[c] EXCEPT !.pc = "failed"]
           /\ failures' = failures + 1 /\ input' = input
<1>1. /\ ~Over(client[c]) /\ failures' = failures + 1
      /\ client' = [client EXCEPT ![c].pc = "failed"]
      /\ UNCHANGED <<main, current, listeners, conn, held, child, up, down, unsent, input>>
  BY DEF T!ClientKilled, T!Fault, T!Dead, Over
<1>2. client[c] \in ClientPrograms /\ client \in [Clients -> ClientPrograms]
  BY DEF WebTypes
<1>3. /\ client'[c] = [client[c] EXCEPT !.pc = "failed"] /\ client'[c] \in ClientPrograms
      /\ client'[c].pc # "connect" /\ client' = [client EXCEPT ![c] = client'[c]]
  BY <1>1, <1>2 DEF ClientPrograms, ProgramAt
<1>4. up' \in [Clients -> Chars] /\ down' \in [Clients -> Chars] /\ unsent' \in [Clients -> Chars]
  BY <1>1 DEF WebTypes
<1>5. WebTypes(inputs)' /\ ControlInv' /\ StaysGone
  BY <1>1, <1>3, <1>4, ClientRunsPlaces
<1>6. \A d \in Clients \ {c} : Same(d)
  BY <1>1, <1>2 DEF Same
<1> QED  BY <1>1, <1>3, <1>5, <1>6

LEMMA ClientConnectsPlaces ==
    ASSUME NEW svc, NEW inputs, Setting(svc, inputs), WebTypes(inputs), ControlInv,
           NEW c \in Clients, T(svc, inputs)!ClientConnects(c)
    PROVE  /\ WebTypes(inputs)' /\ ControlInv' /\ StaysGone
           /\ \A d \in Clients \ {c} : Same(d)
           /\ client[c].pc = "connect"
           /\ \E place \in {"failed", "fgets"} : client'[c] = [client[c] EXCEPT !.pc = place]
           /\ UNCHANGED <<child, up, down, unsent, input, failures>>
<1>1. /\ client[c].pc = "connect"
      /\ UNCHANGED <<main, current, listeners, held, child, up, down, unsent, input, failures>>
      /\ \/ conn' = conn /\ client' = [client EXCEPT ![c] = [@ EXCEPT !.pc = "failed"]]
         \/ /\ conn' = [conn EXCEPT ![c] = "queued"]
            /\ client' = [client EXCEPT ![c].pc = "fgets"]
  BY DEF T!ClientConnects, T!err_sys
<1>2. client[c] \in ClientPrograms /\ client \in [Clients -> ClientPrograms]
  BY DEF WebTypes
<1>3. PICK place \in {"failed", "fgets"} :
        /\ client'[c] = [client[c] EXCEPT !.pc = place]
        /\ client' = [client EXCEPT ![c] = client'[c]]
        /\ conn' = conn \/ (conn' = [conn EXCEPT ![c] = "queued"] /\ place = "fgets")
  BY <1>1, <1>2
<1>4. client'[c] \in ClientPrograms /\ client'[c].pc = place
  BY <1>2, <1>3 DEF ClientPrograms, ProgramAt
<1>5. conn[c] = "new" /\ child[c].pc = "none"
  BY <1>1 DEF ControlInv, PlaceInvOf
<1>6. WebTypes(inputs)'
  <2>1. client' \in [Clients -> ClientPrograms]
    BY <1>2, <1>3, <1>4
  <2>2. conn' \in [Clients -> {"new", "queued", "accepted", "reset"}]
    BY <1>3 DEF WebTypes
  <2> QED  BY <1>1, <2>1, <2>2 DEF WebTypes
<1>7. StaysGone
  BY <1>1, <1>3, <1>5 DEF StaysGone, Gone, WebTypes
<1>8. ControlInv'
  <2>1. ASSUME NEW d \in Clients PROVE PlaceInvOf(d)'
    <3>1. CASE d = c
      BY <1>1, <1>3, <1>4, <1>5, <3>1 DEF ControlInv, PlaceInvOf, WebTypes
    <3>2. CASE d # c
      <4>1. client'[d] = client[d] /\ conn'[d] = conn[d]
        BY <1>2, <1>3, <3>2 DEF WebTypes
      <4> QED  BY <1>1, <4>1 DEF ControlInv, PlaceInvOf, Over
    <3> QED  BY <3>1, <3>2
  <2>2. main \in {"fork", "close"} => conn'[current] = "accepted"
    BY <1>3, <1>5 DEF ControlInv, WebTypes
  <2> QED  BY <1>1, <2>1, <2>2 DEF ControlInv
<1>9. \A d \in Clients \ {c} : Same(d)
  BY <1>1, <1>2, <1>3 DEF Same
<1> QED  BY <1>1, <1>3, <1>6, <1>7, <1>8, <1>9

\* fgets returns a line of the text, or has none left.
ClientGetsLine(c) ==
    \E s, v \in Chars :
        /\ unsent[c] = s \o v /\ Piece(s) /\ unsent'[c] = v
        /\ client'[c] = [client[c] EXCEPT !.pc = "writen", !.out = s]
ClientGetsEnd(c) ==
    /\ unsent[c] = <<>> /\ unsent'[c] = <<>>
    /\ client'[c] = [client[c] EXCEPT !.pc = IF IsCli(c) THEN "exited" ELSE "readline"]

LEMMA ClientGetsPlaces ==
    ASSUME NEW svc, NEW inputs, Setting(svc, inputs), WebTypes(inputs), ControlInv,
           NEW c \in Clients, T(svc, inputs)!ClientGets(c)
    PROVE  /\ WebTypes(inputs)' /\ ControlInv' /\ StaysGone
           /\ \A d \in Clients \ {c} : Same(d)
           /\ client[c].pc = "fgets"
           /\ ClientGetsLine(c) \/ ClientGetsEnd(c)
           /\ UNCHANGED <<child, up, down, input, failures>>
<1> DEFINE n == T(svc, inputs)!fgets(unsent[c])
<1>1. /\ client[c].pc = "fgets"
      /\ UNCHANGED <<main, current, listeners, conn, held, child, up, down, input, failures>>
      /\ \/ /\ unsent[c] # <<>>
            /\ client' = [client EXCEPT ![c].pc = "writen", ![c].out = SubSeq(unsent[c], 1, n)]
            /\ unsent' = [unsent EXCEPT ![c] = Behind(@, n)]
         \/ /\ unsent[c] = <<>> /\ unsent' = unsent
            /\ client' = [client EXCEPT ![c] = [@ EXCEPT !.pc = IF IsCli(c) THEN "exited"
                                                                ELSE "readline"]]
  BY DEF T!ClientGets, T!exit, T!Kind, IsCli, T!Rest, Behind
<1>2. /\ client[c] \in ClientPrograms /\ client \in [Clients -> ClientPrograms]
      /\ unsent[c] \in Chars /\ unsent \in [Clients -> Chars]
      /\ client[c] = [pc |-> client[c].pc, buf |-> client[c].buf, line |-> client[c].line,
                      out |-> client[c].out, shown |-> client[c].shown]
  BY DEF WebTypes, ClientPrograms, ProgramAt
<1> HIDE DEF n
<1>3. /\ ClientGetsLine(c) \/ ClientGetsEnd(c)
      /\ client' = [client EXCEPT ![c] = client'[c]] /\ unsent' = [unsent EXCEPT ![c] = unsent'[c]]
      /\ client'[c] \in ClientPrograms /\ client'[c].pc # "connect" /\ unsent'[c] \in Chars
  <2>1. CASE unsent[c] # <<>>
    <3>1. n \in 1..Len(unsent[c]) /\ Piece(SubSeq(unsent[c], 1, n))
      BY <1>2, <2>1, FgetsPiece DEF Setting, n
    <3>2. /\ SubSeq(unsent[c], 1, n) \in Chars /\ Behind(unsent[c], n) \in Chars
          /\ unsent[c] = SubSeq(unsent[c], 1, n) \o Behind(unsent[c], n)
      <4>1. n \in 0..Len(unsent[c])
        BY <1>2, <3>1, LenChars
      <4> QED  BY <1>2, <4>1, Cut
    <3>3. /\ client'[c] = [client[c] EXCEPT !.pc = "writen", !.out = SubSeq(unsent[c], 1, n)]
          /\ client' = [client EXCEPT ![c] = client'[c]]
      BY <1>1, <1>2, <2>1
    <3>4. unsent'[c] = Behind(unsent[c], n) /\ unsent' = [unsent EXCEPT ![c] = unsent'[c]]
      BY <1>1, <1>2, <2>1
    <3>5. client'[c] \in ClientPrograms /\ client'[c].pc # "connect"
      BY <1>2, <3>2, <3>3 DEF ClientPrograms, ProgramAt
    <3>6. ClientGetsLine(c)
      BY <3>1, <3>2, <3>3, <3>4 DEF ClientGetsLine
    <3> QED  BY <3>2, <3>3, <3>4, <3>5, <3>6
  <2>2. CASE unsent[c] = <<>>
    <3>1. /\ client'[c] = [client[c] EXCEPT !.pc = IF IsCli(c) THEN "exited" ELSE "readline"]
          /\ client' = [client EXCEPT ![c] = client'[c]]
      BY <1>1, <1>2, <2>2
    <3>2. unsent'[c] = <<>> /\ unsent' = [unsent EXCEPT ![c] = unsent'[c]] /\ unsent'[c] \in Chars
      BY <1>1, <1>2, <2>2
    <3>3. client'[c] \in ClientPrograms /\ client'[c].pc # "connect"
      BY <1>2, <3>1 DEF ClientPrograms, ProgramAt
    <3> QED  BY <2>2, <3>1, <3>2, <3>3 DEF ClientGetsEnd
  <2> QED  BY <2>1, <2>2
<1>4. /\ up' \in [Clients -> Chars] /\ down' \in [Clients -> Chars]
      /\ unsent' \in [Clients -> Chars]
      /\ ~Over(client[c])
  BY <1>1, <1>2, <1>3 DEF WebTypes, Over
<1>5. WebTypes(inputs)' /\ ControlInv' /\ StaysGone
  BY <1>1, <1>3, <1>4, ClientRunsPlaces
<1>6. \A d \in Clients \ {c} : Same(d)
  BY <1>1, <1>2, <1>3 DEF Same
<1> QED  BY <1>1, <1>3, <1>5, <1>6

LEMMA ClientReadsPlaces ==
    ASSUME NEW svc, NEW inputs, Setting(svc, inputs), WebTypes(inputs), ControlInv,
           NEW c \in Clients, T(svc, inputs)!ClientReads(c)
    PROVE  /\ WebTypes(inputs)' /\ ControlInv' /\ StaysGone
           /\ \A d \in Clients \ {c} : Same(d)
           /\ client[c].pc = "readline"
           /\ ClientRead(c) \/ ClientEnds(c) \/ ClientReset(c)
           /\ UNCHANGED <<child, up, unsent, input, failures>>
<1>1. /\ client[c].pc = "readline"
      /\ ClientRead(c) \/ ClientEnds(c) \/ ClientReset(c)
      /\ client' = [client EXCEPT ![c] = client'[c]]
      /\ down' = [down EXCEPT ![c] = down'[c]]
      /\ UNCHANGED <<main, current, listeners, conn, held, child, up, unsent, input, failures>>
  BY ClientReadsShape
<1>2. /\ client[c] \in ClientPrograms /\ client \in [Clients -> ClientPrograms]
      /\ down[c] \in Chars /\ <<>> \in Chars
      /\ client[c] = [pc |-> client[c].pc, buf |-> client[c].buf, line |-> client[c].line,
                      out |-> client[c].out, shown |-> client[c].shown]
      /\ client[c].buf \in Chars /\ client[c].line \in Chars /\ client[c].shown \in Chars
  BY NothingJoined DEF WebTypes, ClientPrograms, ProgramAt
<1>2a. AfterLine(c) \in {"fgets", "readline"}
  BY DEF AfterLine
<1>3. down'[c] \in Chars /\ client'[c] \in ClientPrograms /\ client'[c].pc # "connect"
  <2>1. CASE ClientRead(c)
    <3>1. PICK s \in Chars :
            /\ down'[c] \in Chars
            /\ ClientGoesOn(c, s) \/ \E j \in 1..Len(s) : ClientPrints(c, s, j)
      BY <2>1 DEF ClientRead
    <3>2. CASE ClientGoesOn(c, s)
      <4>1. client[c].line \o s \in Chars
        BY <1>2, Joined
      <4>2. client'[c] = [client[c] EXCEPT !.line = client[c].line \o s, !.buf = <<>>]
        BY <3>2 DEF ClientGoesOn
      <4> QED  BY <1>1, <1>2, <3>1, <4>1, <4>2 DEF ClientPrograms, ProgramAt
    <3>3. ASSUME NEW j \in 1..Len(s), ClientPrints(c, s, j)
          PROVE  client'[c] \in ClientPrograms /\ client'[c].pc # "connect"
      <4> DEFINE v == client[c].shown \o (client[c].line \o SubSeq(s, 1, j))
      <4>1. j \in 0..Len(s)
        BY LenChars
      <4>2. SubSeq(s, 1, j) \in Chars /\ Behind(s, j) \in Chars
        BY <4>1, Cut
      <4>3. v \in Chars
        BY <1>2, <4>2, Joined
      <4>4. client'[c] = [client[c] EXCEPT !.pc = AfterLine(c), !.shown = v, !.line = <<>>,
                                           !.buf = Behind(s, j)]
        BY <3>3 DEF ClientPrints
      <4> HIDE DEF v
      <4> QED  BY <1>2, <1>2a, <4>2, <4>3, <4>4 DEF ClientPrograms, ProgramAt
    <3> QED  BY <3>1, <3>2, <3>3
  <2>2. CASE ClientEnds(c)
    <3>1. client[c].shown \o client[c].line \in Chars
      BY <1>2, Joined
    <3>2. /\ down'[c] = <<>>
          /\ \/ client'[c] = [client[c] EXCEPT !.pc = IF IsCli(c) THEN "failed" ELSE "exited"]
             \/ client'[c] = [client[c] EXCEPT !.pc = AfterLine(c), !.line = <<>>,
                                               !.shown = client[c].shown \o client[c].line]
      BY <2>2 DEF ClientEnds
    <3> QED  BY <1>2, <1>2a, <3>1, <3>2 DEF ClientPrograms, ProgramAt
  <2>3. CASE ClientReset(c)
    BY <1>2, <2>3 DEF ClientReset, ClientPrograms, ProgramAt
  <2> QED  BY <1>1, <2>1, <2>2, <2>3
<1>4. /\ up' \in [Clients -> Chars] /\ down' \in [Clients -> Chars]
      /\ unsent' \in [Clients -> Chars]
      /\ ~Over(client[c])
  BY <1>1, <1>2, <1>3 DEF WebTypes, Over
<1>5. WebTypes(inputs)' /\ ControlInv' /\ StaysGone
  BY <1>1, <1>3, <1>4, ClientRunsPlaces
<1>6. \A d \in Clients \ {c} : Same(d)
  BY <1>1, <1>2 DEF Same, WebTypes
<1> QED  BY <1>1, <1>5, <1>6

LEMMA ClientWritesPlaces ==
    ASSUME NEW svc, NEW inputs, Setting(svc, inputs), WebTypes(inputs), ControlInv,
           NEW c \in Clients, T(svc, inputs)!ClientWrites(c)
    PROVE  /\ WebTypes(inputs)' /\ ControlInv' /\ StaysGone
           /\ \A d \in Clients \ {c} : Same(d)
           /\ client[c].pc = "writen"
           /\ ClientWrote(c) \/ ClientWroteNobody(c)
           /\ UNCHANGED <<child, down, unsent, input, failures>>
<1>1. /\ client[c].pc = "writen"
      /\ ClientWrote(c) \/ ClientWroteNobody(c)
      /\ client' = [client EXCEPT ![c] = client'[c]] /\ up' = [up EXCEPT ![c] = up'[c]]
      /\ UNCHANGED <<main, current, listeners, conn, held, child, down, unsent, input,
                           failures>>
  BY ClientWritesShape
<1>2. /\ client[c] \in ClientPrograms /\ client \in [Clients -> ClientPrograms]
      /\ up[c] \in Chars /\ <<>> \in Chars
      /\ client[c] = [pc |-> client[c].pc, buf |-> client[c].buf, line |-> client[c].line,
                      out |-> client[c].out, shown |-> client[c].shown]
  BY NothingJoined DEF WebTypes, ClientPrograms, ProgramAt
<1>2a. \A v \in Chars : AfterSend(c, v) \in {"writen", "fgets", "readline"}
  BY DEF AfterSend
<1>3. up'[c] \in Chars /\ client'[c] \in ClientPrograms /\ client'[c].pc # "connect"
  <2>1. CASE ClientWrote(c)
    <3>1. PICK s \in Chars, v \in Chars :
            /\ up'[c] = up[c] \o s
            /\ client'[c] = [client[c] EXCEPT !.out = v, !.pc = AfterSend(c, v)]
      BY <2>1 DEF ClientWrote
    <3>2. up'[c] \in Chars
      BY <1>2, <3>1, Joined
    <3> QED  BY <1>2, <1>2a, <3>1, <3>2 DEF ClientPrograms, ProgramAt
  <2>2. CASE ClientWroteNobody(c)
    BY <1>2, <1>2a, <2>2 DEF ClientWroteNobody, ClientPrograms, ProgramAt
  <2> QED  BY <1>1, <2>1, <2>2
<1>4. /\ up' \in [Clients -> Chars] /\ down' \in [Clients -> Chars]
      /\ unsent' \in [Clients -> Chars]
      /\ ~Over(client[c])
  BY <1>1, <1>2, <1>3 DEF WebTypes, Over
<1>5. WebTypes(inputs)' /\ ControlInv' /\ StaysGone
  BY <1>1, <1>3, <1>4, ClientRunsPlaces
<1>6. \A d \in Clients \ {c} : Same(d)
  BY <1>1, <1>2 DEF Same, WebTypes
<1> QED  BY <1>1, <1>5, <1>6

\* How parts of a text are joined.
LEMMA InChars == \A s, t \in Chars : s \o t \in Chars
BY Joined

Regrouped(s, t, v) == (s \o t) \o v = s \o (t \o v)
LEMMA Regroup == \A s, t, v \in Chars : Regrouped(s, t, v)
BY Assoc DEF Regrouped

LEMMA NoPart == <<>> \in Chars /\ \A s \in Chars : s \o <<>> = s /\ <<>> \o s = s
<1>1. <<>> \in Chars
  BY EmptySeq DEF Chars
<1> QED  BY <1>1, NothingJoined

-----------------------------------------------------------------------------
(***************************************************************************)
(* What the child of str_echo has heard.                                   *)
(***************************************************************************)
H(inputs, text) == T("str_echo", inputs)!Heard(text)
ReplyTo(inputs, line) == T("str_echo", inputs)!Reply(line)

\* All of the text has been heard but "rest": the line that has begun, and what
\* was said.
HeardTo(inputs, text, k, rest, line, printed) ==
    /\ k \in 0..Len(text) /\ rest = Behind(text, k)
    /\ line = H(inputs, text)[k].line /\ printed = H(inputs, text)[k].said

LEMMA HeardGoesOn ==
    ASSUME NEW inputs, MAXLINE \in Nat, NEW text \in Chars, NEW k, NEW s \in Chars,
           NEW rest \in Chars, NEW line, NEW printed,
           HeardTo(inputs, text, k, s \o rest, line, printed), NoEnd(s, Len(line), Len(s))
    PROVE  \E m \in Nat : HeardTo(inputs, text, m, rest, line \o s, printed)
<1> DEFINE h == H(inputs, text)
           n == Len(s)
<1>1. /\ k \in 0..Len(text) /\ Behind(text, k) = s \o rest
      /\ line = h[k].line /\ printed = h[k].said
  BY DEF HeardTo
<1>2. n \in Nat /\ n \in 0..n /\ k \in Nat /\ Len(text) \in Nat
  BY <1>1, LenChars
<1>3. /\ k + n \in 0..Len(text) /\ rest = Behind(text, k + n)
      /\ \A m \in 1..n : s[m] = text[k + m]
  BY <1>1, NextPart
<1>4. HeardOn("str_echo", inputs, text, k, s, n)
  <2>1. k + n <= Len(text) /\ NoEnd(s, Len(T("str_echo", inputs)!Heard(text)[k].line), n)
    BY <1>1, <1>3 DEF H
  <2> QED  BY <1>1, <1>2, <1>3, <2>1, HearOn
<1>5. h[k + n] = [line |-> h[k].line \o s, said |-> h[k].said]
  BY <1>4, CutAtEnd DEF HeardOn, H
<1> HIDE DEF h
<1>6. k + n \in Nat /\ h[k + n].line = line \o s /\ h[k + n].said = printed
  BY <1>1, <1>2, <1>5
<1> HIDE DEF n
<1>7. HeardTo(inputs, text, k + n, rest, line \o s, printed)
  BY <1>3, <1>6 DEF HeardTo, h
<1> QED  BY <1>6, <1>7

LEMMA HeardEnds ==
    ASSUME NEW inputs, MAXLINE \in Nat, NEW text \in Chars, NEW k, NEW s \in Chars,
           NEW rest \in Chars, NEW line, NEW printed,
           HeardTo(inputs, text, k, s \o rest, line, printed), FirstEnd(s, Len(line), Len(s))
    PROVE  \E m \in Nat :
               HeardTo(inputs, text, m, rest, <<>>, printed \o ReplyTo(inputs, line \o s))
<1> DEFINE h == H(inputs, text)
           n == Len(s)
<1>1. /\ k \in 0..Len(text) /\ Behind(text, k) = s \o rest
      /\ line = h[k].line /\ printed = h[k].said
  BY DEF HeardTo
<1>2. n \in Nat /\ n \in 0..n /\ k \in Nat /\ Len(text) \in Nat
  BY <1>1, LenChars
<1>3. /\ k + n \in 0..Len(text) /\ rest = Behind(text, k + n)
      /\ \A m \in 1..n : s[m] = text[k + m]
  BY <1>1, NextPart
<1>4. HeardLine("str_echo", inputs, text, k, s, n)
  <2>1. k + n <= Len(text) /\ FirstEnd(s, Len(T("str_echo", inputs)!Heard(text)[k].line), n)
    BY <1>1, <1>3 DEF H
  <2> QED  BY <1>1, <1>2, <1>3, <2>1, HearLine
<1>5. h[k + n] = [line |-> <<>>, said |-> h[k].said \o ReplyTo(inputs, h[k].line \o s)]
  BY <1>4, CutAtEnd DEF HeardLine, H, ReplyTo
<1> HIDE DEF h
<1>6. /\ k + n \in Nat /\ h[k + n].line = <<>>
      /\ h[k + n].said = printed \o ReplyTo(inputs, line \o s)
  <2> DEFINE said == h[k].said \o ReplyTo(inputs, h[k].line \o s)
  <2>1. said = printed \o ReplyTo(inputs, line \o s)
    BY <1>1, Zenon
  <2>2. h[k + n] = [line |-> <<>>, said |-> said]
    BY <1>5
  <2> HIDE DEF said
  <2> QED  BY <1>2, <2>1, <2>2
<1> HIDE DEF n
<1>7. HeardTo(inputs, text, k + n, rest, <<>>, printed \o ReplyTo(inputs, line \o s))
  BY <1>3, <1>6 DEF HeardTo, h
<1> QED  BY <1>6, <1>7

LEMMA FirstEndCut ==
    ASSUME NEW s \in Chars, NEW has, NEW j, FirstEnd(s, has, j)
    PROVE  /\ j \in 0..Len(s)
           /\ FirstEnd(SubSeq(s, 1, j), has, Len(SubSeq(s, 1, j)))
<1> DEFINE t == SubSeq(s, 1, j)
<1>1. Len(s) \in Nat /\ j \in 1..Len(s) /\ j \in 0..Len(s)
  BY LenChars DEF FirstEnd
<1>2. t \in Chars /\ Len(t) = j /\ \A k \in 1..j : t[k] = s[k]
  BY <1>1, Cut
<1> HIDE DEF t
<1>3. j \in 1..Len(t) /\ IsEnd(t, has, j) /\ NoEnd(t, has, j - 1)
  BY <1>1, <1>2 DEF FirstEnd, IsEnd, NoEnd
<1>4. FirstEnd(t, has, Len(t))
  BY <1>2, <1>3 DEF FirstEnd
<1> QED  BY <1>1, <1>4 DEF t

\* One line is on its way to the child, or its answer on the way back.
OneLine(flight, pending) ==
    \/ Piece(flight) /\ pending = <<>>
    \/ flight = <<>> /\ Piece(pending)

LEMMA LineRead ==
    ASSUME NEW t \in Chars, NEW s \in Chars, NEW v \in Chars, s # <<>>, NEW p, NEW j
    PROVE  /\ OneLine(t \o (s \o v), p) /\ FirstEnd(s, Len(t), j) =>
                p = <<>> /\ j = Len(s) /\ v = <<>>
           /\ OneLine(p, t \o (s \o v)) /\ FirstEnd(s, Len(t), j) =>
                p = <<>> /\ j = Len(s) /\ v = <<>>
<1> DEFINE w == s \o v
           q == t \o w
<1>1. w \in Chars /\ w # <<>>
  BY Joined, JoinedEmpty
<1>2. q \in Chars /\ q # <<>>
  <2> HIDE DEF w
  <2> QED  BY <1>1, Joined, JoinedEmpty
<1>3. Piece(q) /\ FirstEnd(s, Len(t), j) => j = Len(s) /\ v = <<>>
  BY PieceRead
<1> HIDE DEF q
<1>4. /\ OneLine(q, p) /\ FirstEnd(s, Len(t), j) => p = <<>> /\ j = Len(s) /\ v = <<>>
      /\ OneLine(p, q) /\ FirstEnd(s, Len(t), j) => p = <<>> /\ j = Len(s) /\ v = <<>>
  <2>1. ~Piece(<<>>)
    BY DEF Piece
  <2> QED  BY <1>2, <1>3, <2>1 DEF OneLine
<1> QED  BY <1>4 DEF q, w

-----------------------------------------------------------------------------
(***************************************************************************)
(* The invariant of a connection, for a client that has not ended.  Of one *)
(* that has, it is what is promised.                                       *)
(***************************************************************************)
PartsOf(c) ==
    /\ client[c] \in ClientPrograms /\ child[c] \in ChildPrograms
    /\ client[c].buf \in Chars /\ client[c].line \in Chars
    /\ client[c].out \in Chars /\ client[c].shown \in Chars
    /\ child[c].buf \in Chars /\ child[c].line \in Chars /\ child[c].out \in Chars
    /\ up[c] \in Chars /\ down[c] \in Chars /\ unsent[c] \in Chars /\ Text(c) \in Chars

\* Which buffers are empty between the calls.
StageInv(c) ==
    /\ child[c].pc # "writen" => child[c].out = <<>>
    /\ child[c].pc = "none" => Printed(c) = <<>>
    /\ client[c].pc # "writen" => client[c].out = <<>>
    /\ client[c].pc = "readline" /\ ~IsCli(c) => unsent[c] = <<>>

\* str_cli and its child take turns.
Turns(c) ==
    /\ client[c].pc \in {"connect", "fgets"} => Flight(c) = <<>> /\ Pending(c) = <<>>
    /\ client[c].pc \in {"writen", "readline"} => OneLine(Flight(c), Pending(c))

Middle(inputs, c) ==
    /\ ~Over(child[c])
    /\ \E k \in Nat : HeardTo(inputs, Text(c), k, ToHear(c), child[c].line, Printed(c))
    /\ IsCli(c) => Turns(c)

\* All has been heard, the end of the text too.
AtEnd(inputs, c) ==
    /\ input[c][1] = "batch" /\ client[c].pc = "readline" /\ child[c].pc # "none"
    /\ ToHear(c) = <<>> /\ child[c].line = <<>>
    /\ Printed(c) = T("str_echo", inputs)!AnswersTo(Text(c))

Promise(full, c) ==
    /\ \E n \in 0..Len(full) : client[c].shown = SubSeq(full, 1, n)
    /\ client[c].pc = "exited" /\ failures = 0 => client[c].shown = full

EchoClient(inputs, c) ==
    /\ Over(client[c]) => Promise(T("str_echo", inputs)!AnswersTo(Text(c)), c)
    /\ ~Over(client[c]) => /\ StageInv(c)
                           /\ Gone(c) \/ Middle(inputs, c) \/ AtEnd(inputs, c)

LEMMA Parts ==
    ASSUME NEW svc, NEW inputs, Setting(svc, inputs), WebTypes(inputs), NEW c \in Clients
    PROVE  PartsOf(c)
<1>1. client[c] \in ClientPrograms /\ child[c] \in ChildPrograms
  BY DEF WebTypes
<1>2. Text(c) \in Chars
  BY DEF WebTypes, Setting, Text
<1> QED  BY <1>1, <1>2 DEF PartsOf, WebTypes, ClientPrograms, ChildPrograms, ProgramAt

\* x is made of four parts.
OfFour(x, s, t, v, w) ==
    x \in Chars /\ (x = <<>> <=> s = <<>> /\ t = <<>> /\ v = <<>> /\ w = <<>>)

LEMMA FourJoined ==
    ASSUME NEW s \in Chars, NEW t \in Chars, NEW v \in Chars, NEW w \in Chars
    PROVE  OfFour(s \o (t \o (v \o w)), s, t, v, w)
<1>1. ASSUME NEW a \in Chars, NEW b \in Chars
      PROVE  a \o b \in Chars /\ (a \o b = <<>> <=> a = <<>> /\ b = <<>>)
  BY Joined, JoinedEmpty, NothingJoined
<1>2. v \o w \in Chars /\ (v \o w = <<>> <=> v = <<>> /\ w = <<>>)
  BY <1>1
<1> DEFINE x == v \o w
<1> HIDE DEF x
<1>3. t \o x \in Chars /\ (t \o x = <<>> <=> t = <<>> /\ x = <<>>)
  BY <1>1, <1>2 DEF x
<1> DEFINE y == t \o x
<1> HIDE DEF y
<1>4. s \o y \in Chars /\ (s \o y = <<>> <=> s = <<>> /\ y = <<>>)
  BY <1>1, <1>3 DEF y
<1> QED  BY <1>2, <1>3, <1>4 DEF x, y, OfFour

LEMMA Contents ==
    ASSUME NEW c \in Clients, PartsOf(c)
    PROVE  /\ ToHear(c) \in Chars /\ Flight(c) \in Chars /\ Pending(c) \in Chars
           /\ Printed(c) \in Chars
           /\ ToHear(c) = <<>> <=> /\ child[c].buf = <<>> /\ up[c] = <<>>
                                   /\ client[c].out = <<>> /\ unsent[c] = <<>>
           /\ Flight(c) = <<>> <=> /\ child[c].line = <<>> /\ child[c].buf = <<>>
                                   /\ up[c] = <<>> /\ client[c].out = <<>>
           /\ Pending(c) = <<>> <=> /\ client[c].line = <<>> /\ client[c].buf = <<>>
                                    /\ down[c] = <<>> /\ child[c].out = <<>>
           /\ Printed(c) = <<>> <=> client[c].shown = <<>> /\ Pending(c) = <<>>
<1>1. /\ client[c].buf \in Chars /\ client[c].line \in Chars
      /\ client[c].out \in Chars /\ client[c].shown \in Chars
      /\ child[c].buf \in Chars /\ child[c].line \in Chars /\ child[c].out \in Chars
      /\ up[c] \in Chars /\ down[c] \in Chars /\ unsent[c] \in Chars
  BY DEF PartsOf
<1>2. /\ ToHear(c) \in Chars
      /\ ToHear(c) = <<>> <=> /\ child[c].buf = <<>> /\ up[c] = <<>>
                              /\ client[c].out = <<>> /\ unsent[c] = <<>>
  <2>1. /\ child[c].buf \in Chars /\ up[c] \in Chars
        /\ client[c].out \in Chars /\ unsent[c] \in Chars
    BY <1>1
  <2>2. ToHear(c) = child[c].buf \o (up[c] \o (client[c].out \o unsent[c]))
    BY DEF ToHear
  <2>3. OfFour(ToHear(c), child[c].buf, up[c], client[c].out, unsent[c])
    BY <2>1, <2>2, FourJoined
  <2> QED  BY <2>3 DEF OfFour
<1>3. /\ Flight(c) \in Chars
      /\ Flight(c) = <<>> <=> /\ child[c].line = <<>> /\ child[c].buf = <<>>
                              /\ up[c] = <<>> /\ client[c].out = <<>>
  <2>1. /\ child[c].line \in Chars /\ child[c].buf \in Chars
        /\ up[c] \in Chars /\ client[c].out \in Chars
    BY <1>1
  <2>2. Flight(c) = child[c].line \o (child[c].buf \o (up[c] \o client[c].out))
    BY DEF Flight
  <2>3. OfFour(Flight(c), child[c].line, child[c].buf, up[c], client[c].out)
    BY <2>1, <2>2, FourJoined
  <2> QED  BY <2>3 DEF OfFour
<1>4. /\ Pending(c) \in Chars
      /\ Pending(c) = <<>> <=> /\ client[c].line = <<>> /\ client[c].buf = <<>>
                               /\ down[c] = <<>> /\ child[c].out = <<>>
  <2>1. /\ client[c].line \in Chars /\ client[c].buf \in Chars
        /\ down[c] \in Chars /\ child[c].out \in Chars
    BY <1>1
  <2>2. Pending(c) = client[c].line \o (client[c].buf \o (down[c] \o child[c].out))
    BY DEF Pending
  <2>3. OfFour(Pending(c), client[c].line, client[c].buf, down[c], child[c].out)
    BY <2>1, <2>2, FourJoined
  <2> QED  BY <2>3 DEF OfFour
<1>5. /\ Printed(c) \in Chars
      /\ Printed(c) = <<>> <=> client[c].shown = <<>> /\ Pending(c) = <<>>
  BY <1>1, <1>4, Joined, JoinedEmpty, NothingJoined, Zenon DEF Printed
<1> QED  BY <1>2, <1>3, <1>4, <1>5

LEMMA HeardWell ==
    ASSUME NEW inputs, NEW text \in Chars
    PROVE  /\ \A k \in 0..Len(text) :
                /\ H(inputs, text)[k].line \in Chars /\ H(inputs, text)[k].said \in Chars
           /\ H(inputs, text)[0].line = <<>> /\ H(inputs, text)[0].said = <<>>
           /\ T("str_echo", inputs)!AnswersTo(text) \in Chars
           /\ \A k \in 0..Len(text) :
                \E v \in Chars :
                    T("str_echo", inputs)!AnswersTo(text) = H(inputs, text)[k].said \o v
<1> DEFINE h == H(inputs, text)
           N == Len(text)
           all == T("str_echo", inputs)!AnswersTo(text)
           more == IF h[N].line = <<>> THEN <<>> ELSE ReplyTo(inputs, h[N].line)
<1>1. HeardAs("str_echo", inputs, text, h)
  BY HeardSteps DEF H
<1>2. all = h[N].said \o more
  BY DEF T!AnswersTo, H, ReplyTo
<1>3. N \in Nat /\ N \in 0..N
  BY LenChars
<1>4. /\ \A k \in 0..N : h[k].line \in Chars /\ h[k].said \in Chars
      /\ h[0].line = <<>> /\ h[0].said = <<>>
  <2> HIDE DEF h
  <2>1. h \in [0..N -> LineState] /\ h[0] = [line |-> <<>>, said |-> <<>>]
    BY <1>1 DEF HeardAs, N
  <2> QED  BY <2>1, <1>3 DEF LineState
<1>5. more \in Chars
  BY ReplyChars, NothingJoined DEF ReplyTo
<1>6. ASSUME NEW k \in 0..N PROVE \E v \in Chars : h[N].said = h[k].said \o v
  BY SaidFirst, Zenon DEF H
<1> HIDE DEF h, N, all, more
<1>7. all \in Chars
  BY <1>2, <1>3, <1>4, <1>5, Joined
<1>8. ASSUME NEW k \in 0..N PROVE \E v \in Chars : all = h[k].said \o v
  <2>1. PICK v \in Chars : h[N].said = h[k].said \o v
    BY <1>6
  <2>2. v \o more \in Chars
    BY <1>5, Joined
  <2>3. (h[k].said \o v) \o more = h[k].said \o (v \o more)
    <3>1. Regrouped(h[k].said, v, more)
      BY <1>4, <1>5, Regroup
    <3> QED  BY <3>1 DEF Regrouped
  <2> QED  BY <1>2, <2>1, <2>2, <2>3
<1> QED  BY <1>4, <1>7, <1>8 DEF h, N, all

\* The beginning of a text is a part of it.
LEMMA Beginning ==
    ASSUME NEW s \in Chars, NEW v \in Chars
    PROVE  \E n \in 0..Len(s \o v) : s = SubSeq(s \o v, 1, n)
<1> DEFINE t == s \o v
           n == Len(s)
<1>1. /\ t \in Chars /\ Len(t) = Len(s) + Len(v) /\ Len(s) \in Nat /\ Len(v) \in Nat
      /\ \A k \in 1..Len(s) : t[k] = s[k]
  BY Joined, LenChars
<1> HIDE DEF t
<1>2. n \in 0..Len(t)
  BY <1>1
<1>3. /\ SubSeq(t, 1, n) \in Chars /\ Len(SubSeq(t, 1, n)) = n
      /\ \A k \in 1..n : SubSeq(t, 1, n)[k] = t[k]
  BY <1>1, <1>2, Cut
<1>4. s = SubSeq(t, 1, n)
  BY <1>1, <1>3, SameChars
<1> QED  BY <1>2, <1>4 DEF t

-----------------------------------------------------------------------------
(***************************************************************************)
(* What others do, and what follows for a client that has not ended.       *)
(***************************************************************************)
LEMMA OthersEcho ==
    ASSUME NEW inputs, NEW d \in Clients, EchoClient(inputs, d), Same(d), StaysGone,
           failures' = 0 => failures = 0
    PROVE  EchoClient(inputs, d)'
<1>1. UNCHANGED <<client[d], child[d], up[d], down[d], unsent[d], input[d]>>
  BY DEF Same
<1>2. /\ Text(d)' = Text(d) /\ ToHear(d)' = ToHear(d) /\ Printed(d)' = Printed(d)
      /\ Flight(d)' = Flight(d) /\ Pending(d)' = Pending(d) /\ IsCli(d)' = IsCli(d)
      /\ Over(client[d])' = Over(client[d]) /\ Over(child[d])' = Over(child[d])
  BY <1>1 DEF Text, ToHear, Printed, Flight, Pending, IsCli, Over
<1>3. Gone(d) => Gone(d)'
  BY DEF StaysGone
<1>4. StageInv(d) => StageInv(d)'
  BY <1>1, <1>2 DEF StageInv
<1>5. Middle(inputs, d) => Middle(inputs, d)'
  <2>1. Turns(d) => Turns(d)'
    BY <1>1, <1>2 DEF Turns
  <2> QED  BY <1>1, <1>2, <2>1 DEF Middle
<1>6. AtEnd(inputs, d) => AtEnd(inputs, d)'
  BY <1>1, <1>2 DEF AtEnd
<1>7. Over(client[d]) => Promise(T("str_echo", inputs)!AnswersTo(Text(d)), d)'
  BY <1>1, <1>2 DEF EchoClient, Promise
<1> QED  BY <1>2, <1>3, <1>4, <1>5, <1>6, <1>7 DEF EchoClient

\* What a client has printed is never wrong.
LEMMA LiveEcho ==
    ASSUME NEW inputs, NEW c \in Clients, PartsOf(c), EchoClient(inputs, c), ~Over(client[c])
    PROVE  LET full == T("str_echo", inputs)!AnswersTo(Text(c))
           IN  \E n \in 0..Len(full) : client[c].shown = SubSeq(full, 1, n)
<1> DEFINE full == T("str_echo", inputs)!AnswersTo(Text(c))
           shown == client[c].shown
<1>1. full \in Chars /\ shown \in Chars /\ <<>> \in Chars /\ Text(c) \in Chars
  BY HeardWell, NothingJoined DEF PartsOf
<1>2. SUFFICES \E v \in Chars : full = shown \o v
  <2> HIDE DEF full, shown
  <2>1. PICK v \in Chars : full = shown \o v
    BY <1>2
  <2>2. \E n \in 0..Len(full) : shown = SubSeq(full, 1, n)
    BY <1>1, <2>1, Beginning, Zenon
  <2> QED  BY <2>2 DEF full, shown
<1>3. Pending(c) \in Chars /\ (Printed(c) = <<>> => shown = <<>>)
  BY Contents
<1>4. CASE Gone(c)
  <2>1. shown = <<>>
    BY <1>3, <1>4 DEF EchoClient, StageInv, Gone
  <2>2. full = <<>> \o full
    BY <1>1, NothingJoined
  <2> QED  BY <1>1, <2>1, <2>2
<1>5. CASE Middle(inputs, c)
  <2>0. \A k \in 0..Len(Text(c)) : \E v \in Chars : full = H(inputs, Text(c))[k].said \o v
    <3> DEFINE text == Text(c)
    <3> HIDE DEF text
    <3>1. text \in Chars
      BY <1>1 DEF text
    <3>2. \A k \in 0..Len(text) : \E v \in Chars :
            T("str_echo", inputs)!AnswersTo(text) = H(inputs, text)[k].said \o v
      BY <3>1, HeardWell
    <3> QED  BY <3>2 DEF text
  <2>1. PICK k \in 0..Len(Text(c)) : shown \o Pending(c) = H(inputs, Text(c))[k].said
    BY <1>5 DEF Middle, HeardTo, Printed
  <2> HIDE DEF full, shown
  <2>2. PICK v \in Chars : full = H(inputs, Text(c))[k].said \o v
    BY <2>0
  <2>3. Pending(c) \o v \in Chars
    BY <1>3, Joined
  <2>4. (shown \o Pending(c)) \o v = shown \o (Pending(c) \o v)
    <3>1. Regrouped(shown, Pending(c), v)
      BY <1>1, <1>3, Regroup
    <3> QED  BY <3>1 DEF Regrouped
  <2> QED  BY <2>1, <2>2, <2>3, <2>4
<1>6. CASE AtEnd(inputs, c)
  <2>1. full = shown \o Pending(c)
    BY <1>6 DEF AtEnd, Printed
  <2> QED  BY <1>3, <2>1
<1> QED  BY <1>4, <1>5, <1>6 DEF EchoClient

-----------------------------------------------------------------------------
(***************************************************************************)
(* The steps of str_echo's child keep it.                                  *)
(***************************************************************************)
LEMMA DeadEcho ==
    ASSUME NEW inputs, NEW c \in Clients, EchoClient(inputs, c), Over(client[c]),
           UNCHANGED <<client[c], input, failures>>
    PROVE  EchoClient(inputs, c)'
<1>1. Promise(T("str_echo", inputs)!AnswersTo(Text(c)), c)'
  BY DEF EchoClient, Promise, Text
<1> QED  BY <1>1 DEF EchoClient, Over

LEMMA EchoChildBegins ==
    ASSUME NEW inputs, NEW c \in Clients, EchoClient(inputs, c), ~Gone(c),
           NEW p \in {"none", "start"}, NEW q \in {"start", "readline"},
           child[c] = Empty(p), child'[c] = Empty(q),
           UNCHANGED <<client, up, down, unsent, input, failures>>
    PROVE  EchoClient(inputs, c)'
<1>1. CASE Over(client[c])
  BY <1>1, DeadEcho
<1>2. CASE ~Over(client[c])
  <2>1. /\ child[c].line = <<>> /\ child[c].buf = <<>> /\ child[c].out = <<>>
        /\ child'[c].line = <<>> /\ child'[c].buf = <<>> /\ child'[c].out = <<>>
        /\ child'[c].pc \in {"start", "readline"} /\ ~Over(child'[c])
    BY DEF Empty, Over
  <2>2. /\ ToHear(c)' = ToHear(c) /\ Printed(c)' = Printed(c) /\ Flight(c)' = Flight(c)
        /\ Pending(c)' = Pending(c) /\ Text(c)' = Text(c) /\ IsCli(c)' = IsCli(c)
    BY <2>1 DEF ToHear, Printed, Flight, Pending, Text, IsCli
  <2>3. StageInv(c)'
    BY <1>2, <2>1, <2>2 DEF StageInv, EchoClient
  <2>4. Middle(inputs, c) => Middle(inputs, c)'
    <3>1. Turns(c) => Turns(c)'
      BY <2>2 DEF Turns
    <3> QED  BY <2>1, <2>2, <3>1 DEF Middle
  <2>5. AtEnd(inputs, c) => AtEnd(inputs, c)'
    BY <2>1, <2>2 DEF AtEnd
  <2> QED  BY <1>2, <2>3, <2>4, <2>5 DEF EchoClient, Over
<1> QED  BY <1>1, <1>2

\* One more part behind the others.
BehindFour(a, b, d, x, y) == a \o (b \o (d \o (x \o y))) = (a \o (b \o (d \o x))) \o y
LEMMA Behind4 == \A a, b, d, x, y \in Chars : BehindFour(a, b, d, x, y)
<1> SUFFICES ASSUME NEW a \in Chars, NEW b \in Chars, NEW d \in Chars, NEW x \in Chars,
                    NEW y \in Chars
             PROVE  BehindFour(a, b, d, x, y)
    OBVIOUS
<1>1. d \o x \in Chars
  BY InChars
<1>2. b \o (d \o x) \in Chars
  BY <1>1, InChars
<1>3. /\ Regrouped(d, x, y) /\ Regrouped(b, d \o x, y)
      /\ Regrouped(a, b \o (d \o x), y)
  BY <1>1, <1>2, Regroup
<1> QED  BY <1>3, Zenon DEF Regrouped, BehindFour

\* The child has written y behind what is pending.
LEMMA Answered ==
    ASSUME NEW c \in Clients, PartsOf(c), child[c].out = <<>>, NEW y \in Chars,
           child'[c].out = y, UNCHANGED <<client, down>>
    PROVE  Pending(c)' = Pending(c) \o y /\ Printed(c)' = Printed(c) \o y
<1>1. /\ client[c].line \in Chars /\ client[c].buf \in Chars /\ down[c] \in Chars
      /\ client[c].shown \in Chars /\ <<>> \in Chars /\ <<>> \o y = y
  BY NothingJoined DEF PartsOf
<1>2. BehindFour(client[c].line, client[c].buf, down[c], <<>>, y)
  BY <1>1, Behind4
<1>3. Pending(c)' = Pending(c) \o y
  <2>1. Pending(c)' = client[c].line \o (client[c].buf \o (down[c] \o (<<>> \o y)))
    BY <1>1 DEF Pending
  <2>2. Pending(c) = client[c].line \o (client[c].buf \o (down[c] \o <<>>))
    BY DEF Pending
  <2> QED  BY <1>2, <2>1, <2>2, Zenon DEF BehindFour
<1>4. Pending(c) \in Chars
  BY Contents
<1>5. Regrouped(client[c].shown, Pending(c), y)
  BY <1>1, <1>4, Regroup
<1>6. Printed(c)' = Printed(c) \o y
  BY <1>3, <1>5 DEF Printed, Regrouped
<1> QED  BY <1>3, <1>6

LEMMA EchoChildReads ==
    ASSUME NEW inputs, Setting("str_echo", inputs), NEW c \in Clients, PartsOf(c),
           EchoClient(inputs, c), ~Gone(c), child[c].pc = "readline",
           ChildRead("str_echo", inputs, c), UNCHANGED <<client, down, unsent, input, failures>>
    PROVE  EchoClient(inputs, c)'
<1>1. PICK s \in Chars :
        /\ s # <<>> /\ up'[c] \in Chars /\ child[c].buf \o up[c] = s \o up'[c]
        /\ ChildGoesOn(c, s) \/ \E j \in 1..Len(s) : ChildAnswers("str_echo", inputs, c, s, j)
  BY DEF ChildRead
<1>2. CASE Over(client[c])
  BY <1>2, DeadEcho
<1>3. CASE ~Over(client[c])
  <2> DEFINE line == child[c].line
             out == client[c].out
             rest == up'[c] \o (out \o unsent[c])
             back == up'[c] \o out
  <2>1. /\ child[c] \in ChildPrograms /\ child[c].buf \in Chars /\ line \in Chars /\ up[c] \in Chars
        /\ out \in Chars /\ unsent[c] \in Chars /\ <<>> \in Chars /\ Text(c) \in Chars
        /\ MAXLINE \in Nat /\ MAXLINE >= 3
    BY NothingJoined DEF PartsOf, Setting
  <2>2. rest \in Chars /\ back \in Chars
    BY <1>1, <2>1, Joined
  <2>3. ToHear(c) = s \o rest /\ Flight(c) = line \o (s \o back)
    <3>1. out \o unsent[c] \in Chars
      BY <2>1, Joined
    <3>2. \A w \in Chars : child[c].buf \o (up[c] \o w) = s \o (up'[c] \o w)
      <4>1. SUFFICES ASSUME NEW w \in Chars
                     PROVE  child[c].buf \o (up[c] \o w) = s \o (up'[c] \o w)
          OBVIOUS
      <4>2. Regrouped(child[c].buf, up[c], w)
        BY <2>1, Regroup
      <4>3. Regrouped(s, up'[c], w)
        BY <1>1, Regroup
      <4> QED  BY <1>1, <4>2, <4>3, Zenon DEF Regrouped
    <3>3. child[c].buf \o (up[c] \o (out \o unsent[c])) = s \o (up'[c] \o (out \o unsent[c]))
      <4> DEFINE w == out \o unsent[c]
      <4> HIDE DEF w
      <4> QED  BY <3>1, <3>2 DEF w
    <3>4. child[c].buf \o (up[c] \o out) = s \o (up'[c] \o out)
      <4> HIDE DEF out
      <4> QED  BY <2>1, <3>2
    <3> QED  BY <3>3, <3>4 DEF ToHear, Flight
  <2>4. ToHear(c) # <<>> /\ Flight(c) # <<>>
    <3>1. s \o rest # <<>> /\ s \o back # <<>> /\ s \o back \in Chars
      BY <1>1, <2>2, JoinedEmpty, Joined
    <3>2. line \o (s \o back) # <<>>
      <4> HIDE DEF line, back
      <4> QED  BY <2>1, <3>1, JoinedEmpty
    <3> QED  BY <2>3, <3>1, <3>2
  <2>5. StageInv(c) /\ Middle(inputs, c) /\ child[c].out = <<>>
    BY <1>3, <2>4 DEF EchoClient, AtEnd, StageInv
  <2>6. PICK k \in Nat : HeardTo(inputs, Text(c), k, s \o rest, line, Printed(c))
    BY <2>3, <2>5 DEF Middle
  <2>7. Text(c)' = Text(c) /\ IsCli(c)' = IsCli(c) /\ ~Over(client'[c])
    BY <1>3 DEF Text, IsCli
  <2>8. IsCli(c) => client[c].pc \in {"writen", "readline"} /\ OneLine(Flight(c), Pending(c))
    <3>1. client[c].pc \in {"connect", "fgets", "writen", "readline"}
      BY <1>3 DEF PartsOf, ClientPrograms, ProgramAt, Over
    <3> QED  BY <2>4, <2>5, <3>1 DEF Middle, Turns
  <2>9. CASE ChildGoesOn(c, s)
    <3>1. NoEnd(s, Len(line), Len(s))
      BY <2>9 DEF ChildGoesOn
    <3>2. /\ child'[c].pc = "readline" /\ child'[c].line = line \o s /\ child'[c].buf = <<>>
          /\ child'[c].out = <<>>
      <4>1. child'[c] = [child[c] EXCEPT !.line = line \o s, !.buf = <<>>]
        BY <2>9 DEF ChildGoesOn
      <4> HIDE DEF line
      <4> QED  BY <2>1, <2>5, <4>1 DEF ChildPrograms, ProgramAt
    <3>3. Pending(c)' = Pending(c) /\ Printed(c)' = Printed(c)
      BY <2>5, <3>2 DEF Pending, Printed
    <3>4. ToHear(c)' = rest
      <4>1. <<>> \o rest = rest
        BY <2>2, NoPart, Zenon
      <4> QED  BY <3>2, <4>1 DEF ToHear
    <3>5. Flight(c)' = Flight(c)
      <4>1. <<>> \o back = back /\ Regrouped(line, s, back)
        BY <2>1, <2>2, NoPart, Regroup
      <4> QED  BY <2>3, <3>2, <4>1, Zenon DEF Flight, Regrouped
    <3>6. \E m \in Nat : HeardTo(inputs, Text(c), m, rest, line \o s, Printed(c))
      BY <2>1, <2>2, <2>6, <3>1, HeardGoesOn
    <3>7. Middle(inputs, c)'
      <4>1. \E m \in Nat : HeardTo(inputs, Text(c)', m, ToHear(c)', child'[c].line, Printed(c)')
        BY <2>7, <3>2, <3>3, <3>4, <3>6
      <4>2. IsCli(c)' => Turns(c)'
        BY <2>7, <2>8, <3>3, <3>5 DEF Turns
      <4> QED  BY <3>2, <4>1, <4>2 DEF Middle, Over
    <3>8. StageInv(c)'
      BY <2>5, <2>7, <3>2 DEF StageInv
    <3> QED  BY <2>7, <3>7, <3>8 DEF EchoClient
  <2>10. ASSUME NEW j \in 1..Len(s), ChildAnswers("str_echo", inputs, c, s, j)
         PROVE  EchoClient(inputs, c)'
    <3> DEFINE a == SubSeq(s, 1, j)
               b == Behind(s, j)
               reply == ReplyTo(inputs, line \o a)
    <3>1. FirstEnd(s, Len(line), j) /\ FirstEnd(a, Len(line), Len(a)) /\ j \in 0..Len(s)
      BY <2>10, FirstEndCut DEF ChildAnswers
    <3>2. a \in Chars /\ b \in Chars /\ a \o b = s
      BY <3>1, Cut
    <3>3. reply \in Chars /\ Piece(reply)
      BY <2>1, ReplyChars, ReplyPiece DEF ReplyTo
    <3>4. /\ child'[c].pc = "writen" /\ child'[c].line = <<>> /\ child'[c].buf = b
          /\ child'[c].out = reply
      <4>1. child'[c] = [child[c] EXCEPT !.pc = "writen", !.line = <<>>, !.buf = b, !.out = reply]
        BY <2>10 DEF ChildAnswers, AnswerTo, ReplyTo
      <4> HIDE DEF b, reply
      <4> QED  BY <2>1, <4>1 DEF ChildPrograms, ProgramAt
    <3> HIDE DEF reply
    <3>5. Pending(c)' = Pending(c) \o reply /\ Printed(c)' = Printed(c) \o reply
      BY <2>5, <3>3, <3>4, Answered
    <3>6. b \o rest \in Chars /\ s \o rest = a \o (b \o rest) /\ ToHear(c)' = b \o rest
      <4>1. Regrouped(a, b, rest)
        BY <2>2, <3>2, Regroup
      <4>2. b \o rest \in Chars
        BY <2>2, <3>2, InChars
      <4> QED  BY <3>2, <3>4, <4>1, <4>2 DEF ToHear, Regrouped
    <3>7. \E m \in Nat : HeardTo(inputs, Text(c), m, b \o rest, <<>>, Printed(c) \o reply)
      <4>1. HeardTo(inputs, Text(c), k, a \o (b \o rest), line, Printed(c))
        BY <2>6, <3>6
      <4> HIDE DEF a, b, rest, line
      <4>2. \E m \in Nat :
              HeardTo(inputs, Text(c), m, b \o rest, <<>>, Printed(c) \o ReplyTo(inputs, line \o a))
        BY <2>1, <3>1, <3>2, <3>6, <4>1, HeardEnds
      <4> QED  BY <4>2 DEF reply
    <3>8. IsCli(c) => Flight(c)' = <<>> /\ Piece(Pending(c)')
      <4>1. SUFFICES ASSUME IsCli(c) PROVE Flight(c)' = <<>> /\ Piece(Pending(c)')
          OBVIOUS
      <4>2. OneLine(line \o (s \o back), Pending(c))
        BY <2>3, <2>8, <4>1
      <4>3. Pending(c) = <<>> /\ j = Len(s) /\ back = <<>>
        <5> HIDE DEF line, back
        <5> QED  BY <1>1, <2>1, <2>2, <3>1, <4>2, LineRead
      <4>4. b = <<>> /\ <<>> \o <<>> = <<>> /\ <<>> \o reply = reply
        BY <2>1, <3>3, <4>3, CutAtEnd, NothingJoined
      <4>5. Flight(c)' = <<>> \o (b \o back)
        BY <3>4 DEF Flight
      <4> QED  BY <3>3, <3>5, <4>3, <4>4, <4>5
    <3>9. Middle(inputs, c)'
      <4>1. \E m \in Nat : HeardTo(inputs, Text(c)', m, ToHear(c)', child'[c].line, Printed(c)')
        BY <2>7, <3>4, <3>5, <3>6, <3>7
      <4>2. IsCli(c)' => Turns(c)'
        BY <2>7, <2>8, <3>8 DEF Turns, OneLine
      <4> QED  BY <3>4, <4>1, <4>2 DEF Middle, Over
    <3>10. StageInv(c)'
      BY <2>5, <2>7, <3>4 DEF StageInv
    <3> QED  BY <2>7, <3>9, <3>10 DEF EchoClient
  <2> QED  BY <1>1, <2>9, <2>10
<1> QED  BY <1>2, <1>3

\* All of a text has been heard.
LEMMA HeardAll ==
    ASSUME NEW inputs, NEW text \in Chars, NEW k, NEW line, NEW printed,
           HeardTo(inputs, text, k, <<>>, line, printed)
    PROVE  T("str_echo", inputs)!AnswersTo(text)
             = printed \o (IF line = <<>> THEN <<>> ELSE ReplyTo(inputs, line))
<1>1. k \in 0..Len(text) /\ Behind(text, k) = <<>> /\ Len(text) \in Nat
  BY LenChars DEF HeardTo
<1>2. Len(Behind(text, k)) = Len(text) - k /\ Behind(text, k) \in Chars
  BY <1>1, Cut
<1>3. Len(<<>>) = 0
  OBVIOUS
<1>4. k = Len(text)
  BY <1>1, <1>2, <1>3
<1>5. line = H(inputs, text)[Len(text)].line /\ printed = H(inputs, text)[Len(text)].said
  BY <1>4 DEF HeardTo
<1> QED  BY <1>5, Zenon DEF T!AnswersTo, H, ReplyTo

\* What keeps the order of a connection.
LEMMA EchoKept ==
    ASSUME NEW inputs, NEW c \in Clients,
           Gone(c) \/ Middle(inputs, c) \/ AtEnd(inputs, c), Gone(c) => Gone(c)',
           ToHear(c)' = ToHear(c), Printed(c)' = Printed(c), child'[c].line = child[c].line,
           ~Over(child[c]) => ~Over(child'[c]), child[c].pc # "none" => child'[c].pc # "none",
           input' = input, IsCli(c) /\ Turns(c) => Turns(c)',
           input[c][1] = "batch" /\ client[c].pc = "readline" => client'[c].pc = "readline"
    PROVE  Gone(c)' \/ Middle(inputs, c)' \/ AtEnd(inputs, c)'
<1>1. Text(c)' = Text(c) /\ IsCli(c)' = IsCli(c)
  BY DEF Text, IsCli
<1>2. Middle(inputs, c) => Middle(inputs, c)'
  BY <1>1 DEF Middle, Over
<1>3. AtEnd(inputs, c) => AtEnd(inputs, c)'
  BY <1>1 DEF AtEnd
<1> QED  BY <1>2, <1>3

LEMMA EchoChildEnds ==
    ASSUME NEW inputs, Setting("str_echo", inputs), NEW c \in Clients, PartsOf(c),
           EchoClient(inputs, c), ~Gone(c), child[c].pc = "readline",
           ChildEnds("str_echo", inputs, c), UNCHANGED <<client, down, unsent, input, failures>>
    PROVE  EchoClient(inputs, c)'
<1>1. CASE Over(client[c])
  BY <1>1, DeadEcho
<1>2. CASE ~Over(client[c])
  <2> DEFINE line == child[c].line
             full == T("str_echo", inputs)!AnswersTo(Text(c))
  <2>1. /\ child[c].buf = <<>> /\ up[c] = <<>> /\ up'[c] = <<>>
        /\ input[c][1] = "batch" /\ client[c].pc = "readline" /\ ~IsCli(c)
    BY <1>2 DEF ChildEnds, IsCli
  <2>2. child[c].out = <<>> /\ client[c].out = <<>> /\ unsent[c] = <<>>
    BY <1>2, <2>1 DEF EchoClient, StageInv
  <2>3. ToHear(c) = <<>> /\ Printed(c) \in Chars
    BY <2>1, <2>2, Contents
  <2>4. child[c] \in ChildPrograms /\ line \in Chars /\ Text(c) \in Chars
    BY DEF PartsOf
  <2>5. full = Printed(c) \o (IF line = <<>> THEN <<>> ELSE ReplyTo(inputs, line))
    <3>1. CASE Middle(inputs, c)
      <4>1. PICK k \in Nat : HeardTo(inputs, Text(c), k, <<>>, line, Printed(c))
        BY <2>3, <3>1 DEF Middle
      <4> QED  BY <2>4, <4>1, HeardAll
    <3>2. CASE AtEnd(inputs, c)
      <4>1. line = <<>> /\ full = Printed(c)
        BY <3>2 DEF AtEnd
      <4>2. Printed(c) \o <<>> = Printed(c)
        BY <2>3, NoPart
      <4> QED  BY <4>1, <4>2
    <3> QED  BY <1>2, <3>1, <3>2 DEF EchoClient
  <2>6. Text(c)' = Text(c) /\ IsCli(c)' = IsCli(c) /\ ~Over(client'[c])
    BY <1>2 DEF Text, IsCli
  <2>7. CASE line = <<>>
    <3>1. child'[c] = [child[c] EXCEPT !.pc = "exited"]
      BY <2>7 DEF ChildEnds
    <3>2. /\ child'[c].pc = "exited" /\ child'[c].line = <<>> /\ child'[c].buf = <<>>
          /\ child'[c].out = <<>>
      <4> HIDE DEF line
      <4> QED  BY <2>1, <2>2, <2>4, <2>7, <3>1 DEF ChildPrograms, ProgramAt, line
    <3>3. ToHear(c)' = ToHear(c) /\ Printed(c)' = Printed(c)
      BY <2>1, <2>2, <3>2 DEF ToHear, Printed, Pending
    <3>4. full = Printed(c)
      BY <2>3, <2>5, <2>7, NoPart
    <3>5. AtEnd(inputs, c)'
      BY <2>1, <2>3, <2>6, <3>2, <3>3, <3>4 DEF AtEnd
    <3>6. StageInv(c)'
      BY <2>1, <2>2, <2>6, <3>2 DEF StageInv
    <3> QED  BY <2>6, <3>5, <3>6 DEF EchoClient
  <2>8. CASE line # <<>>
    <3> DEFINE reply == ReplyTo(inputs, line)
    <3>1. reply \in Chars
      BY ReplyChars DEF ReplyTo
    <3>2. child'[c] = [child[c] EXCEPT !.pc = "writen", !.line = <<>>, !.out = reply]
      BY <2>8 DEF ChildEnds, AnswerTo, ReplyTo
    <3>3. full = Printed(c) \o reply
      BY <2>5, <2>8
    <3> HIDE DEF reply, full
    <3>4. /\ child'[c].pc = "writen" /\ child'[c].line = <<>> /\ child'[c].buf = <<>>
          /\ child'[c].out = reply
      BY <2>1, <2>4, <3>2 DEF ChildPrograms, ProgramAt
    <3>5. Printed(c)' = Printed(c) \o reply
      BY <2>2, <3>1, <3>4, Answered
    <3>6. ToHear(c)' = ToHear(c)
      BY <2>1, <2>2, <3>4 DEF ToHear
    <3>7. AtEnd(inputs, c)'
      BY <2>1, <2>3, <2>6, <3>3, <3>4, <3>5, <3>6 DEF AtEnd, full
    <3>8. StageInv(c)'
      BY <2>1, <2>2, <2>6, <3>4 DEF StageInv
    <3> QED  BY <2>6, <3>7, <3>8 DEF EchoClient
  <2> QED  BY <2>7, <2>8
<1> QED  BY <1>1, <1>2

\* What the child has written is still pending, or there is nobody for it.
LEMMA ChildWroteEffect ==
    ASSUME NEW svc, NEW c \in Clients, PartsOf(c), ChildWrote(svc, c), child[c].pc = "writen",
           UNCHANGED <<client, up>>
    PROVE  /\ Pending(c)' = Pending(c) /\ Printed(c)' = Printed(c)
           /\ child'[c].line = child[c].line /\ child'[c].buf = child[c].buf
           /\ \/ child'[c].pc = "writen"
              \/ child'[c].pc = AfterWrite(svc, <<>>) /\ child'[c].out = <<>>
<1>1. PICK s \in Chars, v \in Chars :
        /\ child[c].out = s \o v /\ down'[c] = down[c] \o s
        /\ child'[c] = [child[c] EXCEPT !.out = v, !.pc = AfterWrite(svc, v)]
  BY DEF ChildWrote
<1>2. child[c] \in ChildPrograms /\ down[c] \in Chars
  BY DEF PartsOf
<1>3. /\ child'[c].line = child[c].line /\ child'[c].buf = child[c].buf /\ child'[c].out = v
      /\ child'[c].pc = AfterWrite(svc, v)
  BY <1>1, <1>2 DEF ChildPrograms, ProgramAt
<1>4. Regrouped(down[c], s, v)
  BY <1>2, Regroup
<1>5. Pending(c)' = Pending(c)
  BY <1>1, <1>3, <1>4, Zenon DEF Pending, Regrouped
<1>6. Printed(c)' = Printed(c)
  BY <1>5 DEF Printed
<1>7. child'[c].pc = "writen" \/ (child'[c].pc = AfterWrite(svc, <<>>) /\ child'[c].out = <<>>)
  BY <1>3 DEF AfterWrite
<1> QED  BY <1>3, <1>5, <1>6, <1>7

LEMMA EchoChildWrites ==
    ASSUME NEW inputs, NEW c \in Clients, PartsOf(c), EchoClient(inputs, c), ~Gone(c),
           child[c].pc = "writen", ChildWrote("str_echo", c) \/ ChildWroteNobody(c),
           UNCHANGED <<client, up, unsent, input, failures>>
    PROVE  EchoClient(inputs, c)'
<1>1. CASE Over(client[c])
  BY <1>1, DeadEcho
<1>2. CASE ~Over(client[c])
  <2>1. /\ Pending(c)' = Pending(c) /\ Printed(c)' = Printed(c)
        /\ child'[c].line = child[c].line /\ child'[c].buf = child[c].buf
        /\ child'[c].pc \in {"writen", "readline"}
        /\ child'[c].pc = "readline" => child'[c].out = <<>>
    BY <1>2, ChildWroteEffect DEF ChildWroteNobody, AfterWrite
  <2>2. /\ ToHear(c)' = ToHear(c) /\ Flight(c)' = Flight(c) /\ IsCli(c)' = IsCli(c)
        /\ ~Over(child'[c])
    BY <2>1 DEF ToHear, Flight, IsCli, Over
  <2>3. Turns(c) => Turns(c)'
    BY <2>1, <2>2 DEF Turns
  <2>4. Middle(inputs, c) \/ AtEnd(inputs, c)
    BY <1>2 DEF EchoClient
  <2>5. Gone(c)' \/ Middle(inputs, c)' \/ AtEnd(inputs, c)'
    BY <2>1, <2>2, <2>3, <2>4, EchoKept
  <2>6. StageInv(c)'
    BY <1>2, <2>1, <2>2 DEF StageInv, EchoClient
  <2> QED  BY <1>2, <2>5, <2>6 DEF EchoClient
<1> QED  BY <1>1, <1>2

-----------------------------------------------------------------------------
(***************************************************************************)
(* The steps of a client.                                                  *)
(***************************************************************************)

\* Nobody hears a client only when the server failed, or when its child is done.
LEMMA NobodyHears ==
    ASSUME NEW inputs, WebTypes(inputs), ControlInv, NEW c \in Clients, Unheard(c),
           ~Over(client[c])
    PROVE  (Gone(c) /\ failures > 0) \/ Over(child[c])
<1>1. PlaceInvOf(c) /\ failures \in Nat
  BY DEF ControlInv, WebTypes
<1>2. CASE conn[c] = "reset"
  BY <1>1, <1>2 DEF PlaceInvOf, Gone
<1>3. CASE conn[c] = "accepted" /\ held[c] = {}
  <2>1. child[c].pc \in {"none", "exited", "failed"}
    BY <1>1, <1>3 DEF PlaceInvOf, WebTypes, ChildPrograms, ProgramAt
  <2>2. CASE child[c].pc = "none"
    <3>1. ~(main = "fork" /\ current = c)
      BY <1>3 DEF ControlInv
    <3>2. main = "failed"
      BY <1>1, <1>3, <2>2, <3>1 DEF PlaceInvOf
    <3>3. failures > 0
      BY <3>2 DEF ControlInv
    <3> QED  BY <1>3, <2>2, <3>2, <3>3 DEF Gone
  <2> QED  BY <2>1, <2>2 DEF Over
<1> QED  BY <1>2, <1>3 DEF Unheard

\* A client that reads: what it has printed and what is pending stay in order.
LEMMA ClientReadEffect ==
    ASSUME NEW c \in Clients, PartsOf(c), ClientRead(c), client[c].pc = "readline",
           UNCHANGED child
    PROVE  /\ Printed(c)' = Printed(c) /\ client'[c].out = client[c].out
           /\ \/ client'[c].pc = "readline" /\ Pending(c)' = Pending(c)
              \/ /\ client'[c].pc = AfterLine(c)
                 /\ OneLine(Flight(c), Pending(c)) => Flight(c) = <<>> /\ Pending(c)' = <<>>
<1> DEFINE line == client[c].line
           shown == client[c].shown
           out == child[c].out
           back == down'[c] \o out
<1>1. PICK s \in Chars :
        /\ s # <<>> /\ down'[c] \in Chars /\ client[c].buf \o down[c] = s \o down'[c]
        /\ ClientGoesOn(c, s) \/ \E j \in 1..Len(s) : ClientPrints(c, s, j)
  BY DEF ClientRead
<1>2. /\ client[c] \in ClientPrograms /\ client[c].buf \in Chars /\ line \in Chars
      /\ shown \in Chars /\ down[c] \in Chars /\ out \in Chars /\ <<>> \in Chars
  BY NoPart DEF PartsOf
<1>3. back \in Chars
  BY <1>1, <1>2, InChars
<1>4. Pending(c) = line \o (s \o back)
  <2>1. Regrouped(client[c].buf, down[c], out) /\ Regrouped(s, down'[c], out)
    BY <1>1, <1>2, Regroup
  <2> QED  BY <1>1, <2>1, Zenon DEF Regrouped, Pending
<1>5. CASE ClientGoesOn(c, s)
  <2>1. client'[c] = [client[c] EXCEPT !.line = line \o s, !.buf = <<>>]
    BY <1>5 DEF ClientGoesOn
  <2>2. /\ client'[c].pc = "readline" /\ client'[c].line = line \o s /\ client'[c].buf = <<>>
        /\ client'[c].out = client[c].out /\ client'[c].shown = shown
    <3>1. client[c] \in ClientPrograms
      BY <1>2
    <3> HIDE DEF line
    <3> QED  BY <2>1, <3>1 DEF ClientPrograms, ProgramAt
  <2>3. Pending(c)' = Pending(c)
    <3>1. <<>> \o back = back /\ Regrouped(line, s, back)
      BY <1>2, <1>3, NoPart, Regroup
    <3> QED  BY <1>4, <2>2, <3>1 DEF Pending, Regrouped
  <2>4. Printed(c)' = Printed(c)
    BY <2>2, <2>3 DEF Printed
  <2> QED  BY <2>2, <2>3, <2>4
<1>6. ASSUME NEW j \in 1..Len(s), ClientPrints(c, s, j)
      PROVE  /\ Printed(c)' = Printed(c) /\ client'[c].out = client[c].out
             /\ client'[c].pc = AfterLine(c)
             /\ OneLine(Flight(c), Pending(c)) => Flight(c) = <<>> /\ Pending(c)' = <<>>
  <2> DEFINE a == SubSeq(s, 1, j)
             b == Behind(s, j)
             said == shown \o (line \o a)
  <2>1. FirstEnd(s, Len(line), j) /\ j \in 0..Len(s)
    BY <1>6, FirstEndCut DEF ClientPrints
  <2>2. a \in Chars /\ b \in Chars /\ a \o b = s
    BY <2>1, Cut
  <2>3. /\ client'[c].pc = AfterLine(c) /\ client'[c].line = <<>> /\ client'[c].buf = b
        /\ client'[c].out = client[c].out /\ client'[c].shown = said
    <3>1. client'[c] = [client[c] EXCEPT !.pc = AfterLine(c), !.shown = said, !.line = <<>>,
                                         !.buf = b]
      BY <1>6 DEF ClientPrints
    <3> HIDE DEF b, said
    <3> QED  BY <1>2, <3>1 DEF ClientPrograms, ProgramAt
  <2> HIDE DEF a, b
  <2>4. b \o back \in Chars /\ line \o a \in Chars
    BY <1>2, <1>3, <2>2, InChars
  <2>5. Pending(c)' = b \o back
    <3>1. Pending(c)' = <<>> \o (b \o back)
      BY <2>3 DEF Pending
    <3>2. <<>> \o (b \o back) = b \o back
      BY <2>4, NoPart
    <3> QED  BY <3>1, <3>2
  <2>6. Printed(c)' = Printed(c)
    <3>1. /\ Regrouped(shown, line \o a, b \o back) /\ Regrouped(line, a, b \o back)
          /\ Regrouped(a, b, back)
      BY <1>2, <1>3, <2>2, <2>4, Regroup
    <3>2. Printed(c)' = (shown \o (line \o a)) \o (b \o back)
      BY <2>3, <2>5 DEF Printed
    <3>3. Printed(c) = shown \o (line \o (s \o back))
      BY <1>4 DEF Printed
    <3> QED  BY <2>2, <3>1, <3>2, <3>3, Zenon DEF Regrouped
  <2>7. ASSUME OneLine(Flight(c), Pending(c)) PROVE Flight(c) = <<>> /\ Pending(c)' = <<>>
    <3>1. Flight(c) = <<>> /\ j = Len(s) /\ back = <<>>
      <4> DEFINE f == Flight(c)
      <4>1. OneLine(f, line \o (s \o back))
        BY <1>4, <2>7
      <4> HIDE DEF f, line, back
      <4>2. f = <<>> /\ j = Len(s) /\ back = <<>>
        BY <1>1, <1>2, <1>3, <2>1, <4>1, LineRead
      <4> QED  BY <4>2 DEF f
    <3>2. b = <<>> /\ <<>> \o <<>> = <<>>
      BY <1>2, <3>1, CutAtEnd, NoPart DEF b
    <3> QED  BY <2>5, <3>1, <3>2
  <2> QED  BY <2>3, <2>6, <2>7
<1> QED  BY <1>1, <1>5, <1>6

\* A client at the end of what is sent to it.
LEMMA ClientEndsEffect ==
    ASSUME NEW c \in Clients, PartsOf(c), ClientEnds(c), UNCHANGED child
    PROVE  /\ Unheard(c) /\ client'[c].out = client[c].out
           /\ \/ /\ client[c].line = <<>> /\ client[c].buf = <<>> /\ down[c] = <<>>
                 /\ client'[c].shown = client[c].shown
                 /\ client'[c].pc = IF IsCli(c) THEN "failed" ELSE "exited"
              \/ /\ client[c].line # <<>> /\ client'[c].pc = AfterLine(c)
                 /\ Printed(c)' = Printed(c)
<1>1. /\ client[c].buf = <<>> /\ down[c] = <<>> /\ down'[c] = <<>> /\ Unheard(c)
      /\ client[c] \in ClientPrograms
  BY DEF ClientEnds, PartsOf
<1>2. CASE client[c].line = <<>>
  <2>1. client'[c] = [client[c] EXCEPT !.pc = IF IsCli(c) THEN "failed" ELSE "exited"]
    BY <1>2 DEF ClientEnds
  <2>2. /\ client'[c].shown = client[c].shown /\ client'[c].out = client[c].out
        /\ client'[c].pc = IF IsCli(c) THEN "failed" ELSE "exited"
    BY <1>1, <2>1 DEF ClientPrograms, ProgramAt
  <2> QED  BY <1>1, <1>2, <2>2
<1>3. CASE client[c].line # <<>>
  <2> DEFINE line == client[c].line
             shown == client[c].shown
             said == shown \o line
             out == child[c].out
  <2>1. client'[c] = [client[c] EXCEPT !.pc = AfterLine(c), !.line = <<>>, !.shown = said]
    BY <1>3 DEF ClientEnds
  <2>2. /\ client'[c].pc = AfterLine(c) /\ client'[c].line = <<>> /\ client'[c].shown = said
        /\ client'[c].out = client[c].out /\ client'[c].buf = <<>>
    <3> HIDE DEF said
    <3> QED  BY <1>1, <2>1 DEF ClientPrograms, ProgramAt
  <2>3. shown \in Chars /\ line \in Chars /\ out \in Chars
    BY DEF PartsOf
  <2>4. Printed(c) = shown \o (line \o out) /\ Printed(c)' = (shown \o line) \o out
    <3>1. <<>> \o out = out
      BY <2>3, NoPart
    <3>2. /\ Pending(c) = line \o (<<>> \o (<<>> \o out))
          /\ Pending(c)' = <<>> \o (<<>> \o (<<>> \o out))
      BY <1>1, <2>2 DEF Pending
    <3>3. Pending(c) = line \o out /\ Pending(c)' = out
      BY <3>1, <3>2, Zenon
    <3> QED  BY <2>2, <3>3 DEF Printed
  <2>5. Regrouped(shown, line, out)
    BY <2>3, Regroup
  <2>6. Printed(c)' = Printed(c)
    BY <2>4, <2>5, Zenon DEF Regrouped
  <2> QED  BY <1>1, <1>3, <2>2, <2>6
<1> QED  BY <1>2, <1>3

\* A client of str_echo that ends.
LEMMA EchoDies ==
    ASSUME NEW inputs, NEW c \in Clients, PartsOf(c), EchoClient(inputs, c), ~Over(client[c]),
           client'[c].shown = client[c].shown, UNCHANGED input, Over(client'[c]),
           client'[c].pc = "exited" /\ failures' = 0 =>
               client[c].shown = T("str_echo", inputs)!AnswersTo(Text(c))
    PROVE  EchoClient(inputs, c)'
<1> DEFINE full == T("str_echo", inputs)!AnswersTo(Text(c))
<1>1. \E n \in 0..Len(full) : client[c].shown = SubSeq(full, 1, n)
  BY LiveEcho
<1>2. full' = full
  BY DEF Text
<1>3. Promise(full, c)'
  <2> HIDE DEF full
  <2> QED  BY <1>1, <1>2 DEF Promise, full
<1> QED  BY <1>3 DEF EchoClient, Over

LEMMA EchoClientReads ==
    ASSUME NEW inputs, WebTypes(inputs), ControlInv, StaysGone, NEW c \in Clients, PartsOf(c),
           EchoClient(inputs, c), client[c].pc = "readline",
           ClientRead(c) \/ ClientEnds(c) \/ ClientReset(c),
           UNCHANGED <<child, up, unsent, input, failures>>
    PROVE  EchoClient(inputs, c)'
<1>1. /\ ~Over(client[c]) /\ StageInv(c) /\ client[c].out = <<>> /\ (~IsCli(c) => unsent[c] = <<>>)
      /\ Gone(c) \/ Middle(inputs, c) \/ AtEnd(inputs, c)
      /\ Gone(c) => Gone(c)'
  BY DEF EchoClient, StageInv, Over, StaysGone
<1>2. IsCli(c)' = IsCli(c) /\ (input[c][1] = "batch" => ~IsCli(c))
  BY DEF IsCli
<1>3. AfterLine(c) \in {"fgets", "readline"} /\ (~IsCli(c) => AfterLine(c) = "readline")
  BY DEF AfterLine
<1>4. ASSUME Printed(c)' = Printed(c), client'[c].out = client[c].out,
             client'[c].pc \in {"fgets", "readline"}, ~IsCli(c) => client'[c].pc = "readline",
             IsCli(c) /\ Turns(c) => Turns(c)'
      PROVE  EchoClient(inputs, c)'
  <2>1. ToHear(c)' = ToHear(c) /\ ~Over(client'[c])
    BY <1>4 DEF ToHear, Over
  <2>2. Gone(c)' \/ Middle(inputs, c)' \/ AtEnd(inputs, c)'
    BY <1>1, <1>2, <1>4, <2>1, EchoKept
  <2>3. StageInv(c)'
    BY <1>1, <1>2, <1>4 DEF StageInv
  <2> QED  BY <2>1, <2>2, <2>3 DEF EchoClient
<1>5. CASE ClientRead(c)
  <2>1. /\ Printed(c)' = Printed(c) /\ client'[c].out = client[c].out
        /\ \/ client'[c].pc = "readline" /\ Pending(c)' = Pending(c)
           \/ /\ client'[c].pc = AfterLine(c)
              /\ OneLine(Flight(c), Pending(c)) => Flight(c) = <<>> /\ Pending(c)' = <<>>
    BY <1>5, ClientReadEffect
  <2>2. Flight(c)' = Flight(c)
    BY <2>1 DEF Flight
  <2>3. Turns(c) => OneLine(Flight(c), Pending(c))
    BY DEF Turns
  <2>4. IsCli(c) /\ Turns(c) => Turns(c)'
    <3>1. AfterLine(c) = "fgets" \/ ~IsCli(c)
      BY DEF AfterLine
    <3> QED  BY <2>1, <2>2, <2>3, <3>1 DEF Turns
  <2> QED  BY <1>3, <1>4, <2>1, <2>4
<1>6. CASE ClientEnds(c)
  <2>1. /\ Unheard(c) /\ client'[c].out = client[c].out
        /\ \/ /\ client[c].line = <<>> /\ client[c].buf = <<>> /\ down[c] = <<>>
              /\ client'[c].shown = client[c].shown
              /\ client'[c].pc = IF IsCli(c) THEN "failed" ELSE "exited"
           \/ /\ client[c].line # <<>> /\ client'[c].pc = AfterLine(c)
              /\ Printed(c)' = Printed(c)
    BY <1>6, ClientEndsEffect
  <2>2. (Gone(c) /\ failures > 0) \/ Over(child[c])
    BY <1>1, <2>1, NobodyHears
  <2>3. ~Middle(inputs, c) \/ Gone(c)
    BY <2>2 DEF Middle
  <2>4. CASE client[c].line = <<>> /\ Over(client'[c])
    <3>1. client'[c].shown = client[c].shown /\ client[c].buf = <<>> /\ down[c] = <<>>
      <4>1. AfterLine(c) \notin {"exited", "failed"}
        BY <1>3
      <4> QED  BY <2>1, <2>4, <4>1 DEF Over
    <3>2. ASSUME client'[c].pc = "exited" /\ failures' = 0
          PROVE  client[c].shown = T("str_echo", inputs)!AnswersTo(Text(c))
      <4>1. ~Gone(c) /\ AtEnd(inputs, c) /\ Over(child[c])
        BY <1>1, <2>2, <2>3, <3>2 DEF Gone, Over
      <4>2. child[c].out = <<>>
        BY <1>1, <4>1 DEF StageInv, Over
      <4>3. Pending(c) = <<>> /\ client[c].shown \in Chars
        BY <2>4, <3>1, <4>2, Contents DEF PartsOf
      <4>4. Printed(c) = client[c].shown
        BY <4>3, NoPart DEF Printed
      <4> QED  BY <4>1, <4>4 DEF AtEnd
    <3> QED  BY <1>1, <2>4, <3>1, <3>2, EchoDies
  <2>5. CASE client[c].line # <<>>
    <3>1. client'[c].pc = AfterLine(c) /\ Printed(c)' = Printed(c)
      BY <2>1, <2>5
    <3>2. ~Gone(c)
      <4>1. Gone(c) => Pending(c) = <<>>
        BY <1>1, Contents DEF StageInv, Gone
      <4> QED  BY <2>5, <4>1, Contents
    <3>3. ~IsCli(c)
      BY <1>1, <1>2, <2>3, <3>2 DEF AtEnd
    <3> QED  BY <1>3, <1>4, <2>1, <3>1, <3>3
  <2> QED  BY <2>1, <2>4, <2>5 DEF Over
<1>7. CASE ClientReset(c)
  <2>1. client'[c].shown = client[c].shown /\ client'[c].pc = "failed" /\ Over(client'[c])
    BY <1>7 DEF ClientReset, PartsOf, ClientPrograms, ProgramAt, Over
  <2> QED  BY <1>1, <2>1, EchoDies
<1> QED  BY <1>5, <1>6, <1>7

LEMMA EchoClientWrites ==
    ASSUME NEW inputs, WebTypes(inputs), ControlInv, StaysGone, NEW c \in Clients, PartsOf(c),
           EchoClient(inputs, c), client[c].pc = "writen", ClientWrote(c) \/ ClientWroteNobody(c),
           UNCHANGED <<child, down, unsent, input, failures>>
    PROVE  EchoClient(inputs, c)'
<1>1. /\ ~Over(client[c]) /\ StageInv(c)
      /\ Gone(c) \/ Middle(inputs, c)
      /\ Gone(c) => Gone(c)'
  BY DEF EchoClient, AtEnd, Over, StaysGone
<1>2. client[c] \in ClientPrograms /\ IsCli(c)' = IsCli(c)
  BY DEF PartsOf, IsCli
<1>3. ASSUME NEW v, AfterSend(c, v) = "readline" PROVE IsCli(c) /\ v = <<>>
  BY <1>3 DEF AfterSend
<1>4. \A v \in Chars : AfterSend(c, v) \in {"writen", "readline", "fgets"}
  BY DEF AfterSend
<1>5. ASSUME NEW v \in Chars, client'[c] = [client[c] EXCEPT !.out = v, !.pc = AfterSend(c, v)]
      PROVE  /\ Pending(c)' = Pending(c) /\ Printed(c)' = Printed(c) /\ client'[c].out = v
             /\ StageInv(c)' /\ ~Over(client'[c]) /\ client'[c].pc = AfterSend(c, v)
  <2>1. /\ client'[c].line = client[c].line /\ client'[c].buf = client[c].buf
        /\ client'[c].shown = client[c].shown /\ client'[c].out = v
        /\ client'[c].pc = AfterSend(c, v)
    BY <1>2, <1>5 DEF ClientPrograms, ProgramAt
  <2>2. Pending(c)' = Pending(c) /\ Printed(c)' = Printed(c)
    BY <2>1 DEF Pending, Printed
  <2>3. ~Over(client'[c])
    BY <1>4, <2>1 DEF Over
  <2>4. client'[c].pc # "writen" => v = <<>>
    BY <2>1 DEF AfterSend
  <2>5. StageInv(c)'
    BY <1>1, <1>2, <1>3, <2>1, <2>2, <2>4 DEF StageInv
  <2> QED  BY <2>1, <2>2, <2>3, <2>5
<1>6. CASE ClientWrote(c)
  <2>1. PICK s \in Chars, v \in Chars :
          /\ client[c].out = s \o v /\ up'[c] = up[c] \o s
          /\ client'[c] = [client[c] EXCEPT !.out = v, !.pc = AfterSend(c, v)]
    BY <1>6 DEF ClientWrote
  <2>2. /\ Pending(c)' = Pending(c) /\ Printed(c)' = Printed(c) /\ client'[c].out = v
        /\ StageInv(c)' /\ ~Over(client'[c]) /\ client'[c].pc = AfterSend(c, v)
    BY <1>5, <2>1
  <2>3. /\ up[c] \in Chars /\ unsent[c] \in Chars /\ v \o unsent[c] \in Chars
    BY InChars DEF PartsOf
  <2>4. /\ Regrouped(up[c], s, v) /\ Regrouped(up[c], s, v \o unsent[c])
        /\ Regrouped(s, v, unsent[c])
    BY <2>3, Regroup
  <2>5. ToHear(c)' = ToHear(c) /\ Flight(c)' = Flight(c)
    <3>1. /\ ToHear(c) = child[c].buf \o (up[c] \o ((s \o v) \o unsent[c]))
          /\ ToHear(c)' = child[c].buf \o ((up[c] \o s) \o (v \o unsent[c]))
      BY <2>1, <2>2 DEF ToHear
    <3>2. /\ Flight(c) = child[c].line \o (child[c].buf \o (up[c] \o (s \o v)))
          /\ Flight(c)' = child[c].line \o (child[c].buf \o ((up[c] \o s) \o v))
      BY <2>1, <2>2 DEF Flight
    <3> QED  BY <2>4, <3>1, <3>2, Zenon DEF Regrouped
  <2>6. IsCli(c) /\ Turns(c) => Turns(c)'
    <3>1. IsCli(c) => client'[c].pc \in {"writen", "readline"}
      BY <2>2 DEF AfterSend
    <3> QED  BY <2>2, <2>5, <3>1 DEF Turns
  <2>7. Gone(c)' \/ Middle(inputs, c)' \/ AtEnd(inputs, c)'
    BY <1>1, <2>2, <2>5, <2>6, EchoKept
  <2> QED  BY <2>2, <2>7 DEF EchoClient
<1>7. CASE ClientWroteNobody(c)
  <2>1. Gone(c)'
    <3>1. (Gone(c) /\ failures > 0) \/ Over(child[c])
      BY <1>1, <1>7, NobodyHears DEF ClientWroteNobody
    <3> QED  BY <1>1, <3>1 DEF Middle
  <2>2. CASE client'[c] = [client[c] EXCEPT !.out = <<>>, !.pc = AfterSend(c, <<>>)]
    <3>1. <<>> \in Chars
      BY NoPart
    <3>2. StageInv(c)' /\ ~Over(client'[c])
      BY <1>5, <2>2, <3>1
    <3> QED  BY <2>1, <3>2 DEF EchoClient
  <2>3. CASE client'[c] = [client[c] EXCEPT !.pc = "failed"]
    <3>1. client'[c].shown = client[c].shown /\ client'[c].pc = "failed" /\ Over(client'[c])
      BY <1>2, <2>3 DEF ClientPrograms, ProgramAt, Over
    <3> QED  BY <1>1, <3>1, EchoDies
  <2> QED  BY <1>7, <2>2, <2>3 DEF ClientWroteNobody
<1> QED  BY <1>6, <1>7

LEMMA EchoClientGets ==
    ASSUME NEW inputs, ControlInv, StaysGone, NEW c \in Clients, PartsOf(c),
           EchoClient(inputs, c), client[c].pc = "fgets", ClientGetsLine(c) \/ ClientGetsEnd(c),
           UNCHANGED <<child, up, down, input, failures>>
    PROVE  EchoClient(inputs, c)'
<1>1. /\ ~Over(client[c]) /\ StageInv(c) /\ client[c].out = <<>>
      /\ Gone(c) \/ Middle(inputs, c)
      /\ Gone(c) => Gone(c)'
  BY DEF EchoClient, AtEnd, StageInv, Over, StaysGone
<1>2. client[c] \in ClientPrograms /\ IsCli(c)' = IsCli(c)
  BY DEF PartsOf, IsCli
<1>3. CASE ClientGetsLine(c)
  <2>1. PICK s \in Chars, v \in Chars :
          /\ unsent[c] = s \o v /\ Piece(s) /\ unsent'[c] = v
          /\ client'[c] = [client[c] EXCEPT !.pc = "writen", !.out = s]
    BY <1>3 DEF ClientGetsLine
  <2>2. /\ client'[c].pc = "writen" /\ client'[c].out = s /\ client'[c].line = client[c].line
        /\ client'[c].buf = client[c].buf /\ client'[c].shown = client[c].shown
        /\ ~Over(client'[c])
    BY <1>2, <2>1 DEF ClientPrograms, ProgramAt, Over
  <2>3. Pending(c)' = Pending(c) /\ Printed(c)' = Printed(c)
    BY <2>2 DEF Pending, Printed
  <2>4. ToHear(c)' = ToHear(c)
    <3>1. <<>> \o (s \o v) = s \o v
      BY InChars, NoPart
    <3> QED  BY <1>1, <2>1, <2>2, <3>1 DEF ToHear
  <2>5. IsCli(c) /\ Turns(c) => Turns(c)'
    <3>1. Turns(c) => /\ Pending(c) = <<>> /\ child[c].line = <<>> /\ child[c].buf = <<>>
                      /\ up[c] = <<>>
      BY Contents DEF Turns
    <3>2. <<>> \o (<<>> \o (<<>> \o s)) = s
      <4>1. <<>> \o s = s
        BY NoPart
      <4> QED  BY <4>1, Zenon
    <3>3. Turns(c) => Flight(c)' = s
      BY <2>2, <3>1, <3>2 DEF Flight
    <3> QED  BY <2>1, <2>2, <2>3, <3>1, <3>3 DEF Turns, OneLine
  <2>6. Gone(c)' \/ Middle(inputs, c)' \/ AtEnd(inputs, c)'
    BY <1>1, <2>2, <2>3, <2>4, <2>5, EchoKept
  <2>7. StageInv(c)'
    BY <1>1, <2>2, <2>3 DEF StageInv
  <2> QED  BY <2>2, <2>6, <2>7 DEF EchoClient
<1>4. CASE ClientGetsEnd(c)
  <2>1. /\ unsent[c] = <<>> /\ unsent'[c] = <<>>
        /\ client'[c] = [client[c] EXCEPT !.pc = IF IsCli(c) THEN "exited" ELSE "readline"]
    BY <1>4 DEF ClientGetsEnd
  <2>2. /\ client'[c].pc = IF IsCli(c) THEN "exited" ELSE "readline"
        /\ client'[c].out = client[c].out /\ client'[c].line = client[c].line
        /\ client'[c].buf = client[c].buf /\ client'[c].shown = client[c].shown
    BY <1>2, <2>1 DEF ClientPrograms, ProgramAt
  <2>3. CASE IsCli(c)
    <3>1. Over(client'[c])
      BY <2>2, <2>3 DEF Over
    <3>2. ASSUME failures' = 0
          PROVE  client[c].shown = T("str_echo", inputs)!AnswersTo(Text(c))
      <4>1. ~Gone(c)
        BY <1>1, <3>2 DEF Gone, ControlInv, PlaceInvOf
      <4>2. Middle(inputs, c) /\ Flight(c) = <<>> /\ Pending(c) = <<>>
        BY <1>1, <2>3, <4>1 DEF Middle, Turns
      <4>3. ToHear(c) = <<>> /\ child[c].line = <<>>
        BY <2>1, <4>2, Contents
      <4>4. Printed(c) = client[c].shown /\ client[c].shown \o <<>> = client[c].shown
            /\ Text(c) \in Chars
        BY <4>2, NoPart DEF Printed, PartsOf
      <4>5. PICK k \in Nat : HeardTo(inputs, Text(c), k, <<>>, <<>>, client[c].shown)
        BY <4>2, <4>3, <4>4 DEF Middle
      <4>6. T("str_echo", inputs)!AnswersTo(Text(c)) = client[c].shown \o <<>>
        BY <4>4, <4>5, HeardAll
      <4> QED  BY <4>4, <4>6
    <3> QED  BY <1>1, <2>2, <3>1, <3>2, EchoDies
  <2>4. CASE ~IsCli(c)
    <3>1. /\ Pending(c)' = Pending(c) /\ Printed(c)' = Printed(c) /\ ToHear(c)' = ToHear(c)
          /\ client'[c].pc = "readline" /\ ~Over(client'[c])
      BY <2>1, <2>2, <2>4 DEF Pending, Printed, ToHear, Over
    <3>2. Gone(c)' \/ Middle(inputs, c)' \/ AtEnd(inputs, c)'
      BY <1>1, <2>4, <3>1, EchoKept
    <3>3. StageInv(c)'
      BY <1>1, <2>1, <2>2, <3>1 DEF StageInv
    <3> QED  BY <3>1, <3>2, <3>3 DEF EchoClient
  <2> QED  BY <2>3, <2>4
<1> QED  BY <1>3, <1>4

LEMMA EchoClientConnects ==
    ASSUME NEW inputs, StaysGone, NEW c \in Clients, PartsOf(c), EchoClient(inputs, c),
           client[c].pc = "connect",
           \E place \in {"failed", "fgets"} : client'[c] = [client[c] EXCEPT !.pc = place],
           UNCHANGED <<child, up, down, unsent, input, failures>>
    PROVE  EchoClient(inputs, c)'
<1>1. ~Over(client[c]) /\ StageInv(c) /\ (Gone(c) => Gone(c)')
  BY DEF EchoClient, Over, StaysGone
<1>2. /\ client'[c].pc \in {"failed", "fgets"}
      /\ client'[c].out = client[c].out /\ client'[c].line = client[c].line
      /\ client'[c].buf = client[c].buf /\ client'[c].shown = client[c].shown
  BY DEF PartsOf, ClientPrograms, ProgramAt
<1>3. CASE client'[c].pc = "failed"
  BY <1>1, <1>2, <1>3, EchoDies DEF Over
<1>4. CASE client'[c].pc = "fgets"
  <2>1. /\ Pending(c)' = Pending(c) /\ Printed(c)' = Printed(c) /\ ToHear(c)' = ToHear(c)
        /\ Flight(c)' = Flight(c) /\ IsCli(c)' = IsCli(c) /\ ~Over(client'[c])
    BY <1>2, <1>4, Zenon DEF Pending, Printed, ToHear, Flight, IsCli, Over
  <2>2. Turns(c) => Turns(c)'
    BY <1>4, <2>1 DEF Turns
  <2>3. Gone(c)' \/ Middle(inputs, c)' \/ AtEnd(inputs, c)'
    BY <1>1, <2>1, <2>2, EchoKept DEF EchoClient
  <2>4. StageInv(c)'
    BY <1>1, <1>2, <1>4, <2>1 DEF StageInv
  <2> QED  BY <2>1, <2>3, <2>4 DEF EchoClient
<1> QED  BY <1>2, <1>3, <1>4

LEMMA EchoClientKilled ==
    ASSUME NEW inputs, NEW c \in Clients, PartsOf(c), EchoClient(inputs, c), ~Over(client[c]),
           client'[c] = [client[c] EXCEPT !.pc = "failed"], UNCHANGED input
    PROVE  EchoClient(inputs, c)'
<1>1. client'[c].shown = client[c].shown /\ client'[c].pc = "failed" /\ Over(client'[c])
  BY DEF PartsOf, ClientPrograms, ProgramAt, Over
<1> QED  BY <1>1, EchoDies

-----------------------------------------------------------------------------
(***************************************************************************)
(* A client of the solution's server: until its child has a request there  *)
(* is nothing to print, and the reply afterwards.                          *)
(***************************************************************************)
TheReply(inputs) == T("handle_request", inputs)!reply

HttpClient(inputs, c) ==
    /\ Over(client[c]) => Promise(TheReply(inputs), c)
    /\ ~Over(client[c]) =>
        /\ child[c].pc # "writen" => child[c].out = <<>>
        /\ child[c].pc \in {"none", "start", "readline"} => Printed(c) = <<>>
        /\ child[c].pc \in {"writen", "exited", "failed"} => Printed(c) = TheReply(inputs)

LEMMA ReplyWell ==
    ASSUME NEW inputs
    PROVE  TheReply(inputs) \in Chars
<1>1. <<>> \in Chars /\ AnswerTo("handle_request", inputs, <<>>) = TheReply(inputs)
  BY NoPart DEF AnswerTo, TheReply
<1> QED  BY <1>1, AnswerChars

LEMMA NoCli ==
    ASSUME NEW inputs, Setting("handle_request", inputs), WebTypes(inputs), NEW c \in Clients
    PROVE  ~IsCli(c) /\ input[c][1] # "batch"
<1>1. input[c] \in inputs[c]
  BY DEF WebTypes
<1>2. input[c][1] = "send_get"
  BY <1>1 DEF Setting
<1> QED  BY <1>2 DEF IsCli

LEMMA LiveHttp ==
    ASSUME NEW inputs, NEW c \in Clients, PartsOf(c), HttpClient(inputs, c), ~Over(client[c])
    PROVE  \E n \in 0..Len(TheReply(inputs)) : client[c].shown = SubSeq(TheReply(inputs), 1, n)
<1> DEFINE full == TheReply(inputs)
           shown == client[c].shown
<1>1. full \in Chars /\ shown \in Chars /\ Pending(c) \in Chars
  BY ReplyWell, Contents DEF PartsOf
<1>2. \E v \in Chars : full = shown \o v
  <2>1. CASE Printed(c) = <<>>
    <3>1. shown = <<>> /\ <<>> \o full = full
      BY <1>1, <2>1, Contents, NoPart
    <3> QED  BY <1>1, <3>1
  <2>2. CASE Printed(c) = full
    BY <1>1, <2>2 DEF Printed
  <2>3. child[c].pc \in {"none", "start", "readline", "writen", "exited", "failed"}
    BY DEF PartsOf, ChildPrograms, ProgramAt
  <2> QED  BY <2>1, <2>2, <2>3 DEF HttpClient
<1> HIDE DEF full, shown
<1>3. PICK v \in Chars : full = shown \o v
  BY <1>2
<1>4. \E n \in 0..Len(full) : shown = SubSeq(full, 1, n)
  BY <1>1, <1>3, Beginning
<1> QED  BY <1>4 DEF full, shown

LEMMA DeadHttp ==
    ASSUME NEW inputs, NEW c \in Clients, HttpClient(inputs, c), Over(client[c]),
           UNCHANGED client[c], failures' = 0 => failures = 0
    PROVE  HttpClient(inputs, c)'
<1> DEFINE full == TheReply(inputs)
<1>1. full' = full
  BY DEF TheReply, T!reply, T!NL
<1>2. Promise(full, c)
  BY DEF HttpClient
<1> HIDE DEF full
<1>3. Promise(full, c)'
  BY <1>1, <1>2 DEF Promise
<1> QED  BY <1>3 DEF HttpClient, Over, full

LEMMA HttpDies ==
    ASSUME NEW inputs, NEW c \in Clients, PartsOf(c), HttpClient(inputs, c), ~Over(client[c]),
           client'[c].shown = client[c].shown, Over(client'[c]),
           client'[c].pc = "exited" /\ failures' = 0 => client[c].shown = TheReply(inputs)
    PROVE  HttpClient(inputs, c)'
<1> DEFINE full == TheReply(inputs)
<1>1. full' = full
  BY DEF TheReply, T!reply, T!NL
<1>2. \E n \in 0..Len(full) : client[c].shown = SubSeq(full, 1, n)
  BY LiveHttp
<1>3. Promise(full, c)'
  <2> HIDE DEF full
  <2> QED  BY <1>1, <1>2 DEF Promise, full
<1> QED  BY <1>3 DEF HttpClient, Over

\* The child and what has been or will be printed stay the same.
LEMMA HttpKept ==
    ASSUME NEW inputs, NEW c \in Clients, HttpClient(inputs, c), ~Over(client[c]),
           UNCHANGED child[c], Printed(c)' = Printed(c), ~Over(client'[c])
    PROVE  HttpClient(inputs, c)'
<1>1. TheReply(inputs)' = TheReply(inputs)
  BY DEF TheReply, T!reply, T!NL
<1> QED  BY <1>1 DEF HttpClient

LEMMA OthersHttp ==
    ASSUME NEW inputs, NEW d \in Clients, HttpClient(inputs, d), Same(d),
           failures' = 0 => failures = 0
    PROVE  HttpClient(inputs, d)'
<1>1. UNCHANGED <<client[d], child[d], down[d]>>
  BY DEF Same
<1>2. Printed(d)' = Printed(d) /\ Over(client[d])' = Over(client[d])
  BY <1>1 DEF Printed, Pending, Over
<1>3. CASE Over(client[d])
  BY <1>1, <1>3, DeadHttp
<1>4. CASE ~Over(client[d])
  BY <1>1, <1>2, <1>4, HttpKept
<1> QED  BY <1>3, <1>4

-----------------------------------------------------------------------------
(***************************************************************************)
(* What a step is to the connections: nothing, or a step of one of them.   *)
(***************************************************************************)
ChildBegins(c) ==
    /\ ~Gone(c) /\ UNCHANGED <<client, up, down, unsent, input, failures>>
    /\ \E p \in {"none", "start"}, q \in {"start", "readline"} :
           child[c] = Empty(p) /\ child'[c] = Empty(q)
ChildReading(svc, inputs, c) ==
    /\ ~Gone(c) /\ child[c].pc = "readline"
    /\ ChildRead(svc, inputs, c) \/ ChildEnds(svc, inputs, c) \/ ChildFails(c)
    /\ UNCHANGED <<client, down, unsent, input, failures>>
ChildWriting(svc, c) ==
    /\ ~Gone(c) /\ child[c].pc = "writen" /\ (ChildWrote(svc, c) \/ ChildWroteNobody(c))
    /\ UNCHANGED <<client, up, unsent, input, failures>>
ClientConnecting(c) ==
    /\ client[c].pc = "connect"
    /\ \E place \in {"failed", "fgets"} : client'[c] = [client[c] EXCEPT !.pc = place]
    /\ UNCHANGED <<child, up, down, unsent, input, failures>>
ClientGetting(c) ==
    /\ client[c].pc = "fgets" /\ (ClientGetsLine(c) \/ ClientGetsEnd(c))
    /\ UNCHANGED <<child, up, down, input, failures>>
ClientReading(c) ==
    /\ client[c].pc = "readline" /\ (ClientRead(c) \/ ClientEnds(c) \/ ClientReset(c))
    /\ UNCHANGED <<child, up, unsent, input, failures>>
ClientWriting(c) ==
    /\ client[c].pc = "writen" /\ (ClientWrote(c) \/ ClientWroteNobody(c))
    /\ UNCHANGED <<child, down, unsent, input, failures>>
ClientDying(c) ==
    /\ ~Over(client[c]) /\ client'[c] = [client[c] EXCEPT !.pc = "failed"]
    /\ failures' = failures + 1 /\ input' = input

StepOf(svc, inputs, c) ==
    \/ ChildBegins(c) \/ ChildReading(svc, inputs, c) \/ ChildWriting(svc, c)
    \/ ClientConnecting(c) \/ ClientGetting(c) \/ ClientReading(c) \/ ClientWriting(c)
    \/ ClientDying(c)

StepPlaces(svc, inputs) ==
    /\ WebTypes(inputs)' /\ ControlInv' /\ StaysGone /\ (failures' = 0 => failures = 0)
    /\ \/ \A d \in Clients : Same(d)
       \/ \E c \in Clients : StepOf(svc, inputs, c) /\ \A d \in Clients \ {c} : Same(d)

LEMMA NextPlaces ==
    ASSUME NEW svc, NEW inputs, Setting(svc, inputs), WebTypes(inputs), ControlInv,
           T(svc, inputs)!Next
    PROVE  StepPlaces(svc, inputs)
<1>0. failures \in Nat
  BY DEF WebTypes
<1>1. CASE T(svc, inputs)!MainAccepts
  <2>1. failures' = failures
    BY <1>1 DEF T!MainAccepts
  <2> QED  BY <1>1, <2>1, MainAcceptsPlaces DEF StepPlaces
<1>2. CASE T(svc, inputs)!MainFails
  <2>1. failures' = failures + 1
    BY <1>2 DEF T!MainFails, T!Fault
  <2>2. failures' = 0 => failures = 0
    BY <1>0, <2>1
  <2> QED  BY <1>2, <2>2, MainFailsPlaces DEF StepPlaces
<1>3. CASE T(svc, inputs)!MainForks
  <2>1. /\ WebTypes(inputs)' /\ ControlInv' /\ StaysGone
        /\ \A c \in Clients \ {current} : Same(c)
        /\ UNCHANGED <<client, up, down, unsent, input, failures>>
        /\ child[current] = Empty("none") /\ child'[current] = Empty("start")
        /\ ~Gone(current)
    BY <1>3, MainForksPlaces
  <2>2. current \in Clients /\ ChildBegins(current)
    BY <2>1 DEF ChildBegins, WebTypes
  <2> QED  BY <2>1, <2>2 DEF StepPlaces, StepOf
<1>4. CASE T(svc, inputs)!MainCloses
  <2>1. failures' = failures
    BY <1>4 DEF T!MainCloses
  <2> QED  BY <1>4, <2>1, MainClosesPlaces DEF StepPlaces
<1>5. ASSUME NEW c \in Clients, T(svc, inputs)!ChildStarts(c) PROVE StepPlaces(svc, inputs)
  <2>1. /\ WebTypes(inputs)' /\ ControlInv' /\ StaysGone
        /\ \A d \in Clients \ {c} : Same(d)
        /\ UNCHANGED <<client, up, down, unsent, input, failures>>
        /\ child[c] = Empty("start") /\ child'[c] = Empty("readline")
        /\ ~Gone(c)
    BY <1>5, ChildStartsPlaces
  <2>2. ChildBegins(c)
    BY <2>1 DEF ChildBegins
  <2> QED  BY <2>1, <2>2 DEF StepPlaces, StepOf
<1>6. ASSUME NEW c \in Clients, T(svc, inputs)!ChildReads(c) PROVE StepPlaces(svc, inputs)
  <2>1. /\ WebTypes(inputs)' /\ ControlInv' /\ StaysGone /\ failures' = failures
        /\ \A d \in Clients \ {c} : Same(d)
        /\ ChildReading(svc, inputs, c)
    BY <1>6, ChildReadsPlaces DEF ChildReading
  <2> QED  BY <2>1 DEF StepPlaces, StepOf
<1>7. ASSUME NEW c \in Clients, T(svc, inputs)!ChildWrites(c) PROVE StepPlaces(svc, inputs)
  <2>1. /\ WebTypes(inputs)' /\ ControlInv' /\ StaysGone /\ failures' = failures
        /\ \A d \in Clients \ {c} : Same(d)
        /\ ChildWriting(svc, c)
    BY <1>7, ChildWritesPlaces DEF ChildWriting
  <2> QED  BY <2>1 DEF StepPlaces, StepOf
<1>8. ASSUME NEW c \in Clients, T(svc, inputs)!ClientConnects(c) PROVE StepPlaces(svc, inputs)
  <2>1. /\ WebTypes(inputs)' /\ ControlInv' /\ StaysGone /\ failures' = failures
        /\ \A d \in Clients \ {c} : Same(d)
        /\ ClientConnecting(c)
    BY <1>8, ClientConnectsPlaces DEF ClientConnecting
  <2> QED  BY <2>1 DEF StepPlaces, StepOf
<1>9. ASSUME NEW c \in Clients, T(svc, inputs)!ClientGets(c) PROVE StepPlaces(svc, inputs)
  <2>1. /\ WebTypes(inputs)' /\ ControlInv' /\ StaysGone /\ failures' = failures
        /\ \A d \in Clients \ {c} : Same(d)
        /\ ClientGetting(c)
    BY <1>9, ClientGetsPlaces DEF ClientGetting
  <2> QED  BY <2>1 DEF StepPlaces, StepOf
<1>10. ASSUME NEW c \in Clients, T(svc, inputs)!ClientReads(c) PROVE StepPlaces(svc, inputs)
  <2>1. /\ WebTypes(inputs)' /\ ControlInv' /\ StaysGone /\ failures' = failures
        /\ \A d \in Clients \ {c} : Same(d)
        /\ ClientReading(c)
    BY <1>10, ClientReadsPlaces DEF ClientReading
  <2> QED  BY <2>1 DEF StepPlaces, StepOf
<1>11. ASSUME NEW c \in Clients, T(svc, inputs)!ClientWrites(c) PROVE StepPlaces(svc, inputs)
  <2>1. /\ WebTypes(inputs)' /\ ControlInv' /\ StaysGone /\ failures' = failures
        /\ \A d \in Clients \ {c} : Same(d)
        /\ ClientWriting(c)
    BY <1>11, ClientWritesPlaces DEF ClientWriting
  <2> QED  BY <2>1 DEF StepPlaces, StepOf
<1>12. ASSUME NEW c \in Clients, T(svc, inputs)!ClientKilled(c) PROVE StepPlaces(svc, inputs)
  <2>1. /\ WebTypes(inputs)' /\ ControlInv' /\ StaysGone
        /\ \A d \in Clients \ {c} : Same(d)
        /\ ClientDying(c)
    BY <1>12, ClientKilledPlaces DEF ClientDying
  <2>2. failures' = 0 => failures = 0
    BY <1>0, <2>1 DEF ClientDying
  <2> QED  BY <2>1, <2>2 DEF StepPlaces, StepOf
<1> QED
  BY <1>1, <1>2, <1>3, <1>4, <1>5, <1>6, <1>7, <1>8, <1>9, <1>10, <1>11, <1>12
  DEF T!Next, T!Parent, T!Child, T!Client

EchoInv(inputs) ==
    WebTypes(inputs) /\ ControlInv /\ \A c \in Clients : EchoClient(inputs, c)
HttpInv(inputs) ==
    WebTypes(inputs) /\ ControlInv /\ \A c \in Clients : HttpClient(inputs, c)

LEMMA EchoStep ==
    ASSUME NEW inputs, Setting("str_echo", inputs), EchoInv(inputs),
           T("str_echo", inputs)!Next
    PROVE  EchoInv(inputs)'
<1>1. WebTypes(inputs) /\ ControlInv /\ \A c \in Clients : EchoClient(inputs, c) /\ PartsOf(c)
  BY Parts DEF EchoInv
<1>2. StepPlaces("str_echo", inputs)
  BY <1>1, NextPlaces
<1>3. WebTypes(inputs)' /\ ControlInv' /\ StaysGone /\ (failures' = 0 => failures = 0)
  BY <1>2 DEF StepPlaces
<1>4. ASSUME NEW d \in Clients, Same(d) PROVE EchoClient(inputs, d)'
  BY <1>1, <1>3, <1>4, OthersEcho
<1>5. ASSUME NEW c \in Clients, StepOf("str_echo", inputs, c) PROVE EchoClient(inputs, c)'
  <2>1. PartsOf(c) /\ EchoClient(inputs, c)
    BY <1>1
  <2>2. CASE ChildBegins(c)
    BY <2>1, <2>2, EchoChildBegins DEF ChildBegins
  <2>3. CASE ChildReading("str_echo", inputs, c)
    <3>1. CASE ChildFails(c)
      BY <2>1, <2>3, <3>1, DeadEcho DEF ChildReading, ChildFails, Over
    <3> QED  BY <2>1, <2>3, <3>1, EchoChildReads, EchoChildEnds DEF ChildReading
  <2>4. CASE ChildWriting("str_echo", c)
    BY <2>1, <2>4, EchoChildWrites DEF ChildWriting
  <2>5. CASE ClientConnecting(c)
    BY <1>3, <2>1, <2>5, EchoClientConnects DEF ClientConnecting
  <2>6. CASE ClientGetting(c)
    BY <1>1, <1>3, <2>1, <2>6, EchoClientGets DEF ClientGetting
  <2>7. CASE ClientReading(c)
    BY <1>1, <1>3, <2>1, <2>7, EchoClientReads DEF ClientReading
  <2>8. CASE ClientWriting(c)
    BY <1>1, <1>3, <2>1, <2>8, EchoClientWrites DEF ClientWriting
  <2>9. CASE ClientDying(c)
    BY <2>1, <2>9, EchoClientKilled DEF ClientDying
  <2> QED  BY <1>5, <2>2, <2>3, <2>4, <2>5, <2>6, <2>7, <2>8, <2>9 DEF StepOf
<1>6. \A c \in Clients : EchoClient(inputs, c)'
  BY <1>2, <1>4, <1>5 DEF StepPlaces
<1> QED  BY <1>3, <1>6 DEF EchoInv

LEMMA HttpStep ==
    ASSUME NEW inputs, Setting("handle_request", inputs), HttpInv(inputs),
           T("handle_request", inputs)!Next
    PROVE  HttpInv(inputs)'
<1>1. WebTypes(inputs) /\ ControlInv /\ \A c \in Clients : HttpClient(inputs, c) /\ PartsOf(c)
  BY Parts DEF HttpInv
<1>2. StepPlaces("handle_request", inputs)
  BY <1>1, NextPlaces
<1>3. WebTypes(inputs)' /\ ControlInv' /\ StaysGone /\ (failures' = 0 => failures = 0)
  BY <1>2 DEF StepPlaces
<1>4. ASSUME NEW d \in Clients, Same(d) PROVE HttpClient(inputs, d)'
  BY <1>1, <1>3, <1>4, OthersHttp
<1>5. ASSUME NEW c \in Clients, StepOf("handle_request", inputs, c) PROVE HttpClient(inputs, c)'
  <2>1. /\ PartsOf(c) /\ HttpClient(inputs, c) /\ ~IsCli(c) /\ input[c][1] # "batch"
        /\ client[c] \in ClientPrograms /\ child[c] \in ChildPrograms
    BY <1>1, NoCli DEF PartsOf
  <2>2. TheReply(inputs)' = TheReply(inputs) /\ TheReply(inputs) \in Chars
    BY ReplyWell DEF TheReply, T!reply, T!NL
  <2>3. CASE Over(client[c]) /\ UNCHANGED client
    BY <1>3, <2>1, <2>3, DeadHttp
  <2>4. ASSUME ~Over(client[c]), UNCHANGED <<child, down>>,
               client'[c].line = client[c].line, client'[c].buf = client[c].buf,
               client'[c].shown = client[c].shown, ~Over(client'[c])
        PROVE  HttpClient(inputs, c)'
    <3>1. Printed(c)' = Printed(c)
      BY <2>4 DEF Printed, Pending
    <3> QED  BY <2>1, <2>4, <3>1, HttpKept
  <2>5. ASSUME ~Over(client[c]), client'[c].shown = client[c].shown, client'[c].pc = "failed"
        PROVE  HttpClient(inputs, c)'
    BY <2>1, <2>5, HttpDies DEF Over
  <2>6. CASE ChildBegins(c) /\ ~Over(client[c])
    <3>1. /\ child[c].pc \in {"none", "start"} /\ child'[c].pc \in {"start", "readline"}
          /\ child[c].out = <<>> /\ child'[c].out = <<>> /\ client' = client /\ down' = down
      BY <2>6 DEF ChildBegins, Empty
    <3>2. Printed(c)' = Printed(c) /\ Over(client[c])' = Over(client[c])
      BY <3>1 DEF Printed, Pending, Over
    <3> QED  BY <2>1, <2>6, <3>1, <3>2 DEF HttpClient
  <2>7. CASE ChildReading("handle_request", inputs, c) /\ ~Over(client[c])
    <3>1. /\ client' = client /\ down' = down /\ child[c].pc = "readline"
          /\ child[c].out = <<>> /\ Printed(c) = <<>>
      BY <2>1, <2>7 DEF ChildReading, HttpClient
    <3>2. PICK s \in Chars :
            \/ ChildGoesOn(c, s)
            \/ \E j \in 1..Len(s) : ChildAnswers("handle_request", inputs, c, s, j)
      BY <2>1, <2>7 DEF ChildReading, ChildRead, ChildEnds, ChildFails
    <3>3. CASE ChildGoesOn(c, s)
      <4> DEFINE x == child[c].line \o s
      <4>1. child'[c] = [child[c] EXCEPT !.line = x, !.buf = <<>>]
        BY <3>3 DEF ChildGoesOn
      <4> HIDE DEF x
      <4>2. child'[c].pc = "readline" /\ child'[c].out = <<>>
        BY <2>1, <3>1, <4>1 DEF ChildPrograms, ProgramAt
      <4>3. Printed(c)' = Printed(c) /\ Over(client[c])' = Over(client[c])
        BY <3>1, <4>2 DEF Printed, Pending, Over
      <4> QED  BY <2>7, <3>1, <4>2, <4>3 DEF HttpClient
    <3>4. ASSUME NEW j \in 1..Len(s), ChildAnswers("handle_request", inputs, c, s, j)
          PROVE  HttpClient(inputs, c)'
      <4> DEFINE b == Behind(s, j)
                 reply == TheReply(inputs)
      <4>1. child'[c] = [child[c] EXCEPT !.pc = "writen", !.line = <<>>, !.buf = b, !.out = reply]
        BY <3>4 DEF ChildAnswers, AnswerTo, TheReply
      <4> HIDE DEF b, reply
      <4>2. child'[c].pc = "writen" /\ child'[c].out = reply
        BY <2>1, <4>1 DEF ChildPrograms, ProgramAt
      <4>3. reply \in Chars /\ <<>> \o reply = reply
        BY <2>2, NoPart DEF reply
      <4>4. Printed(c)' = reply
        BY <2>1, <3>1, <4>2, <4>3, Answered
      <4>5. ~Over(client'[c])
        BY <2>7, <3>1
      <4> QED  BY <2>2, <4>2, <4>4, <4>5 DEF HttpClient, reply
    <3> QED  BY <3>2, <3>3, <3>4
  <2>8. CASE ChildWriting("handle_request", c) /\ ~Over(client[c])
    <3>1. /\ client' = client /\ child[c].pc = "writen" /\ Printed(c) = TheReply(inputs)
      BY <2>1, <2>8 DEF ChildWriting, HttpClient
    <3>2. /\ Printed(c)' = Printed(c)
          /\ \/ child'[c].pc = "writen"
             \/ child'[c].pc = "exited" /\ child'[c].out = <<>>
      BY <2>1, <2>8, ChildWroteEffect DEF ChildWriting, ChildWroteNobody, AfterWrite
    <3> QED  BY <2>2, <2>8, <3>1, <3>2 DEF HttpClient
  <2>9. CASE ClientConnecting(c)
    <3>1. /\ ~Over(client[c]) /\ UNCHANGED <<child, down>>
          /\ client'[c].line = client[c].line /\ client'[c].buf = client[c].buf
          /\ client'[c].shown = client[c].shown /\ client'[c].pc \in {"failed", "fgets"}
      BY <2>1, <2>9 DEF ClientConnecting, ClientPrograms, ProgramAt, Over
    <3>2. ~Over(client'[c]) \/ client'[c].pc = "failed"
      BY <3>1 DEF Over
    <3> QED  BY <2>4, <2>5, <3>1, <3>2
  <2>10. CASE ClientGetting(c)
    <3>1. /\ ~Over(client[c]) /\ UNCHANGED <<child, down>>
          /\ client'[c].line = client[c].line /\ client'[c].buf = client[c].buf
          /\ client'[c].shown = client[c].shown /\ client'[c].pc \in {"writen", "readline"}
      BY <2>1, <2>10
      DEF ClientGetting, ClientGetsLine, ClientGetsEnd, ClientPrograms, ProgramAt, Over
    <3>2. ~Over(client'[c])
      BY <3>1 DEF Over
    <3> QED  BY <2>4, <3>1, <3>2
  <2>11. CASE ClientReading(c)
    <3>1. ~Over(client[c]) /\ child' = child /\ failures' = failures
      BY <2>11 DEF ClientReading, Over
    <3>2. AfterLine(c) = "readline"
      BY <2>1 DEF AfterLine
    <3>3. CASE ClientRead(c)
      <4>1. Printed(c)' = Printed(c) /\ client'[c].pc = "readline"
        BY <2>1, <2>11, <3>1, <3>2, <3>3, ClientReadEffect DEF ClientReading
      <4>2. ~Over(client'[c])
        BY <4>1 DEF Over
      <4> QED  BY <2>1, <3>1, <4>1, <4>2, HttpKept
    <3>4. CASE ClientEnds(c)
      <4>1. /\ Unheard(c)
            /\ \/ /\ client[c].line = <<>> /\ client[c].buf = <<>> /\ down[c] = <<>>
                  /\ client'[c].shown = client[c].shown /\ client'[c].pc = "exited"
               \/ client'[c].pc = "readline" /\ Printed(c)' = Printed(c)
        BY <2>1, <3>1, <3>2, <3>4, ClientEndsEffect
      <4>2. CASE client'[c].pc = "readline" /\ Printed(c)' = Printed(c)
        <5>1. ~Over(client'[c])
          BY <4>2 DEF Over
        <5> QED  BY <2>1, <3>1, <4>2, <5>1, HttpKept
      <4>3. CASE /\ client[c].line = <<>> /\ client[c].buf = <<>> /\ down[c] = <<>>
                 /\ client'[c].shown = client[c].shown /\ client'[c].pc = "exited"
        <5>1. ASSUME failures' = 0 PROVE client[c].shown = TheReply(inputs)
          <6>1. Over(child[c])
            BY <1>1, <3>1, <4>1, <5>1, NobodyHears
          <6>2. child[c].out = <<>> /\ Printed(c) = TheReply(inputs)
            BY <2>1, <3>1, <6>1 DEF HttpClient, Over
          <6>3. Pending(c) = <<>> /\ client[c].shown \in Chars
            BY <2>1, <4>3, <6>2, Contents DEF PartsOf
          <6>4. Printed(c) = client[c].shown
            BY <6>3, NoPart DEF Printed
          <6> QED  BY <6>2, <6>4
        <5>2. Over(client'[c])
          BY <4>3 DEF Over
        <5> QED  BY <2>1, <3>1, <4>3, <5>1, <5>2, HttpDies
      <4> QED  BY <4>1, <4>2, <4>3
    <3>5. CASE ClientReset(c)
      <4>1. client'[c].shown = client[c].shown /\ client'[c].pc = "failed"
        BY <2>1, <3>5 DEF ClientReset, ClientPrograms, ProgramAt
      <4> QED  BY <2>5, <3>1, <4>1
    <3> QED  BY <2>11, <3>3, <3>4, <3>5 DEF ClientReading
  <2>12. CASE ClientWriting(c)
    <3>1. \A v \in Chars : AfterSend(c, v) \in {"writen", "readline", "fgets"}
      BY DEF AfterSend
    <3>2. <<>> \in Chars
      BY NoPart
    <3>3. /\ ~Over(client[c]) /\ UNCHANGED <<child, down>>
          /\ client'[c].line = client[c].line /\ client'[c].buf = client[c].buf
          /\ client'[c].shown = client[c].shown
          /\ client'[c].pc \in {"failed", "writen", "readline", "fgets"}
      <4>1. client[c].pc = "writen" /\ UNCHANGED <<child, down>>
        BY <2>12 DEF ClientWriting
      <4>2. CASE client'[c] = [client[c] EXCEPT !.pc = "failed"]
        BY <2>1, <4>1, <4>2 DEF ClientPrograms, ProgramAt, Over
      <4>3. ASSUME NEW v \in Chars,
                   client'[c] = [client[c] EXCEPT !.out = v, !.pc = AfterSend(c, v)]
            PROVE  /\ client'[c].line = client[c].line /\ client'[c].buf = client[c].buf
                   /\ client'[c].shown = client[c].shown
                   /\ client'[c].pc \in {"failed", "writen", "readline", "fgets"}
        <5> DEFINE now == AfterSend(c, v)
        <5>1. client[c] \in ClientPrograms /\ now \in {"writen", "readline", "fgets"}
          BY <2>1, <3>1
        <5> HIDE DEF now
        <5> QED  BY <4>3, <5>1 DEF ClientPrograms, ProgramAt, now
      <4>4. \/ client'[c] = [client[c] EXCEPT !.pc = "failed"]
            \/ \E v \in Chars : client'[c] = [client[c] EXCEPT !.out = v, !.pc = AfterSend(c, v)]
        BY <2>12, <3>2, Zenon DEF ClientWriting, ClientWrote, ClientWroteNobody
      <4> QED  BY <4>1, <4>2, <4>3, <4>4 DEF Over
    <3>4. ~Over(client'[c]) \/ client'[c].pc = "failed"
      BY <3>3 DEF Over
    <3> QED  BY <2>4, <2>5, <3>3, <3>4
  <2>13. CASE ClientDying(c)
    <3>1. client'[c].shown = client[c].shown /\ client'[c].pc = "failed" /\ ~Over(client[c])
      BY <2>1, <2>13 DEF ClientDying, ClientPrograms, ProgramAt
    <3> QED  BY <2>5, <3>1
  <2>14. ChildBegins(c) \/ ChildReading("handle_request", inputs, c)
           \/ ChildWriting("handle_request", c) => UNCHANGED client
    BY DEF ChildBegins, ChildReading, ChildWriting
  <2> QED
    BY <1>5, <2>3, <2>6, <2>7, <2>8, <2>9, <2>10, <2>11, <2>12, <2>13, <2>14 DEF StepOf
<1>6. \A c \in Clients : HttpClient(inputs, c)'
  BY <1>2, <1>4, <1>5 DEF StepPlaces
<1> QED  BY <1>3, <1>6 DEF HttpInv

-----------------------------------------------------------------------------
(***************************************************************************)
(* How the two servers begin, and what the invariants say of the answers.  *)
(***************************************************************************)
LEMMA Starts ==
    ASSUME NEW svc, NEW inputs, Setting(svc, inputs), T(svc, inputs)!Init
    PROVE  /\ WebTypes(inputs) /\ ControlInv
           /\ \A c \in Clients :
                /\ client[c] = Empty("connect") /\ child[c] = Empty("none")
                /\ up[c] = <<>> /\ down[c] = <<>> /\ unsent[c] = Text(c)
<1>1. /\ main = "accept" /\ listeners = {0} /\ failures = 0 /\ current \in Clients
      /\ conn = [c \in Clients |-> "new"] /\ held = [c \in Clients |-> {}]
      /\ client = [c \in Clients |-> Empty("connect")]
      /\ child = [c \in Clients |-> Empty("none")]
      /\ input \in [Clients -> UNION {inputs[c] : c \in Clients}]
      /\ \A c \in Clients : input[c] \in inputs[c]
      /\ unsent = [c \in Clients |-> input[c][2]]
      /\ up = [c \in Clients |-> <<>>] /\ down = [c \in Clients |-> <<>>]
  BY DEF T!Init, T!Process, Empty
<1>2. \A c \in Clients : input[c][2] \in Chars
  BY <1>1 DEF Setting
<1>3. Empty("connect") \in ClientPrograms /\ Empty("none") \in ChildPrograms /\ <<>> \in Chars
  BY NoPart DEF Empty, ClientPrograms, ChildPrograms, ProgramAt
<1>4. WebTypes(inputs)
  BY <1>1, <1>2, <1>3 DEF WebTypes
<1>5. \A c \in Clients :
        /\ client[c] = Empty("connect") /\ child[c] = Empty("none")
        /\ up[c] = <<>> /\ down[c] = <<>> /\ unsent[c] = Text(c) /\ conn[c] = "new"
  BY <1>1 DEF Text
<1>6. \A c \in Clients : PlaceInvOf(c)
  BY <1>5 DEF PlaceInvOf, Empty
<1>7. ControlInv
  BY <1>1, <1>6 DEF ControlInv
<1> QED  BY <1>4, <1>5, <1>7

\* Nothing is anywhere at first but in the text.
LEMMA StartsEmpty ==
    ASSUME NEW c \in Clients, PartsOf(c), client[c] = Empty("connect"), child[c] = Empty("none"),
           up[c] = <<>>, down[c] = <<>>, unsent[c] = Text(c)
    PROVE  /\ ToHear(c) = Text(c) /\ Flight(c) = <<>> /\ Pending(c) = <<>> /\ Printed(c) = <<>>
           /\ child[c].line = <<>> /\ child[c].out = <<>> /\ client[c].out = <<>>
           /\ ~Over(client[c]) /\ ~Over(child[c])
<1>1. /\ client[c].buf = <<>> /\ client[c].line = <<>> /\ client[c].out = <<>>
      /\ client[c].shown = <<>> /\ client[c].pc = "connect" /\ child[c].pc = "none"
      /\ child[c].buf = <<>> /\ child[c].line = <<>> /\ child[c].out = <<>>
  BY DEF Empty
<1>2. Flight(c) = <<>> /\ Pending(c) = <<>> /\ Printed(c) = <<>>
  BY <1>1, Contents
<1>3. ToHear(c) = Text(c)
  <2>1. <<>> \o Text(c) = Text(c)
    BY NoPart DEF PartsOf
  <2>2. ToHear(c) = <<>> \o (<<>> \o (<<>> \o Text(c)))
    BY <1>1 DEF ToHear
  <2> QED  BY <2>1, <2>2, Zenon
<1> QED  BY <1>1, <1>2, <1>3 DEF Over

LEMMA EchoStarts ==
    ASSUME NEW inputs, Setting("str_echo", inputs), T("str_echo", inputs)!Init
    PROVE  EchoInv(inputs)
<1>1. WebTypes(inputs) /\ ControlInv
  BY Starts
<1>2. ASSUME NEW c \in Clients PROVE EchoClient(inputs, c)
  <2>1. PartsOf(c)
    BY <1>1, Parts
  <2>2. /\ client[c] = Empty("connect") /\ child[c] = Empty("none")
        /\ up[c] = <<>> /\ down[c] = <<>> /\ unsent[c] = Text(c)
    BY Starts
  <2>3. /\ ToHear(c) = Text(c) /\ Flight(c) = <<>> /\ Pending(c) = <<>> /\ Printed(c) = <<>>
        /\ child[c].line = <<>> /\ child[c].out = <<>> /\ client[c].out = <<>>
        /\ ~Over(client[c]) /\ ~Over(child[c])
    BY <2>1, <2>2, StartsEmpty
  <2>4. client[c].pc = "connect"
    BY <2>2 DEF Empty
  <2>5. HeardTo(inputs, Text(c), 0, ToHear(c), child[c].line, Printed(c))
    <3> DEFINE text == Text(c)
    <3>1. text \in Chars
      BY <2>1 DEF PartsOf
    <3> HIDE DEF text
    <3>2. Behind(text, 0) = text /\ 0 \in 0..Len(text)
      BY <3>1, CutAtEnd, LenChars
    <3>3. H(inputs, text)[0].line = <<>> /\ H(inputs, text)[0].said = <<>>
      BY <3>1, HeardWell
    <3>4. HeardTo(inputs, text, 0, text, <<>>, <<>>)
      BY <3>2, <3>3 DEF HeardTo
    <3> QED  BY <2>3, <3>4 DEF text
  <2>6. Middle(inputs, c)
    BY <2>3, <2>4, <2>5 DEF Middle, Turns
  <2>7. StageInv(c)
    BY <2>3, <2>4 DEF StageInv
  <2> QED  BY <2>3, <2>6, <2>7 DEF EchoClient
<1> QED  BY <1>1, <1>2 DEF EchoInv

LEMMA HttpStarts ==
    ASSUME NEW inputs, Setting("handle_request", inputs), T("handle_request", inputs)!Init
    PROVE  HttpInv(inputs)
<1>1. WebTypes(inputs) /\ ControlInv
  BY Starts
<1>2. ASSUME NEW c \in Clients PROVE HttpClient(inputs, c)
  <2>1. PartsOf(c)
    BY <1>1, Parts
  <2>2. /\ client[c] = Empty("connect") /\ child[c] = Empty("none")
        /\ up[c] = <<>> /\ down[c] = <<>> /\ unsent[c] = Text(c)
    BY Starts
  <2>3. Printed(c) = <<>> /\ child[c].out = <<>> /\ ~Over(client[c])
    BY <2>1, <2>2, StartsEmpty
  <2>4. child[c].pc = "none"
    BY <2>2 DEF Empty
  <2> QED  BY <2>3, <2>4 DEF HttpClient
<1> QED  BY <1>1, <1>2 DEF HttpInv

LEMMA Stays ==
    ASSUME NEW inputs, UNCHANGED webvars
    PROVE  /\ EchoInv(inputs) => EchoInv(inputs)'
           /\ HttpInv(inputs) => HttpInv(inputs)'
<1>1. UNCHANGED <<main, current, listeners, conn, held, client, child, input, unsent, up, down,
                  failures>>
  BY DEF webvars
<1>2. StaysGone /\ \A c \in Clients : Same(c)
  BY <1>1 DEF StaysGone, Gone, Same
<1>3. WebTypes(inputs) => WebTypes(inputs)'
  BY <1>1 DEF WebTypes
<1>4. ControlInv => ControlInv'
  <2>1. \A c \in Clients : PlaceInvOf(c) => PlaceInvOf(c)'
    BY <1>1 DEF PlaceInvOf, Over, Empty
  <2> QED  BY <1>1, <2>1 DEF ControlInv
<1>5. \A c \in Clients : EchoClient(inputs, c) => EchoClient(inputs, c)'
  BY <1>1, <1>2, OthersEcho
<1>6. \A c \in Clients : HttpClient(inputs, c) => HttpClient(inputs, c)'
  BY <1>1, <1>2, OthersHttp
<1> QED  BY <1>3, <1>4, <1>5, <1>6 DEF EchoInv, HttpInv

LEMMA EchoAnswers ==
    ASSUME NEW inputs, Setting("str_echo", inputs), EchoInv(inputs)
    PROVE  T("str_echo", inputs)!AnswersInOrder
<1>1. ASSUME NEW c \in Clients
      PROVE  LET full == T("str_echo", inputs)!Answers[input[c]]
             IN  /\ \E n \in 0..Len(full) : client[c].shown = SubSeq(full, 1, n)
                 /\ client[c].pc = "exited" /\ failures = 0 => client[c].shown = full
  <2> DEFINE full == T("str_echo", inputs)!AnswersTo(Text(c))
  <2>1. EchoClient(inputs, c) /\ PartsOf(c)
    BY Parts DEF EchoInv
  <2>2. T("str_echo", inputs)!Answers[input[c]] = full
    <3>1. input[c] \in UNION {inputs[d] : d \in Clients}
      BY DEF EchoInv, WebTypes
    <3> QED  BY <3>1, Zenon DEF T!Answers, Text
  <2>3. \E n \in 0..Len(full) : client[c].shown = SubSeq(full, 1, n)
    BY <2>1, LiveEcho DEF EchoClient, Promise
  <2>4. client[c].pc = "exited" /\ failures = 0 => client[c].shown = full
    BY <2>1 DEF EchoClient, Promise, Over
  <2> HIDE DEF full
  <2> QED  BY <2>2, <2>3, <2>4
<1> QED  BY <1>1 DEF T!AnswersInOrder

LEMMA HttpAnswers ==
    ASSUME NEW inputs, Setting("handle_request", inputs), HttpInv(inputs)
    PROVE  T("handle_request", inputs)!AnswersInOrder
<1>1. ASSUME NEW c \in Clients
      PROVE  LET full == T("handle_request", inputs)!Answers[input[c]]
             IN  /\ \E n \in 0..Len(full) : client[c].shown = SubSeq(full, 1, n)
                 /\ client[c].pc = "exited" /\ failures = 0 => client[c].shown = full
  <2> DEFINE full == TheReply(inputs)
  <2>1. HttpClient(inputs, c) /\ PartsOf(c)
    BY Parts DEF HttpInv
  <2>2. T("handle_request", inputs)!Answers[input[c]] = full
    <3>1. input[c] \in UNION {inputs[d] : d \in Clients}
      BY DEF HttpInv, WebTypes
    <3> QED  BY <3>1, Zenon DEF T!Answers, TheReply
  <2>3. \E n \in 0..Len(full) : client[c].shown = SubSeq(full, 1, n)
    BY <2>1, LiveHttp DEF HttpClient, Promise
  <2>4. client[c].pc = "exited" /\ failures = 0 => client[c].shown = full
    BY <2>1 DEF HttpClient, Promise, Over
  <2> HIDE DEF full
  <2> QED  BY <2>2, <2>3, <2>4
<1> QED  BY <1>1 DEF T!AnswersInOrder

LEMMA EchoSame ==
    /\ Echo!Init => T("str_echo", EchoInputs)!Init
    /\ Echo!Next => T("str_echo", EchoInputs)!Next
    /\ T("str_echo", EchoInputs)!AnswersInOrder => Echo!AnswersInOrder
<1>1. Echo!Init => T("str_echo", EchoInputs)!Init
  BY Zenon DEF Echo!Init, T!Init, Echo!Process, T!Process
<1>2. Echo!Next => T("str_echo", EchoInputs)!Next
  BY Zenon DEF Echo!Next, Echo!Parent, Echo!Child, Echo!Client, Echo!MainAccepts, Echo!MainFails,
     Echo!MainForks, Echo!MainCloses, Echo!ChildStarts, Echo!ChildReads, Echo!ChildWrites,
     Echo!ClientConnects, Echo!ClientGets, Echo!ClientReads, Echo!ClientWrites, Echo!ClientKilled,
     Echo!Unlisten, Echo!Fault, Echo!Accept, Echo!Dead, Echo!procvars, Echo!Process, Echo!SetChild,
     Echo!ChildNext, Echo!ClientNext, Echo!Kind, Echo!ClientDone, Echo!ServerDone, Echo!Some,
     Echo!Rest, Echo!readline, Echo!readline_eof, Echo!writen, Echo!err_sys, Echo!exit,
     Echo!my_read, Echo!LineEnds, Echo!First, Echo!fgets, Echo!NL, Echo!wrapunix, Echo!wrapsock,
     Echo!Reply, Echo!reply,
     T!Next, T!Parent, T!Child, T!Client, T!MainAccepts, T!MainFails,
     T!MainForks, T!MainCloses, T!ChildStarts, T!ChildReads, T!ChildWrites,
     T!ClientConnects, T!ClientGets, T!ClientReads, T!ClientWrites, T!ClientKilled,
     T!Unlisten, T!Fault, T!Accept, T!Dead, T!procvars, T!Process, T!SetChild,
     T!ChildNext, T!ClientNext, T!Kind, T!ClientDone, T!ServerDone, T!Some,
     T!Rest, T!readline, T!readline_eof, T!writen, T!err_sys, T!exit,
     T!my_read, T!LineEnds, T!First, T!fgets, T!NL, T!wrapunix, T!wrapsock,
     T!Reply, T!reply
<1>3. T("str_echo", EchoInputs)!AnswersInOrder => Echo!AnswersInOrder
  BY Zenon DEF Echo!AnswersInOrder, Echo!Answers, Echo!AnswersTo, Echo!Heard, Echo!Reply,
     Echo!reply, Echo!NL, T!AnswersInOrder, T!Answers, T!AnswersTo, T!Heard, T!Reply, T!reply, T!NL
<1> QED  BY <1>1, <1>2, <1>3

LEMMA HttpSame ==
    /\ Http!Init => T("handle_request", HttpInputs)!Init
    /\ Http!Next => T("handle_request", HttpInputs)!Next
    /\ T("handle_request", HttpInputs)!AnswersInOrder => Http!AnswersInOrder
<1>1. Http!Init => T("handle_request", HttpInputs)!Init
  BY Zenon DEF Http!Init, T!Init, Http!Process, T!Process
<1>2. Http!Next => T("handle_request", HttpInputs)!Next
  BY Zenon DEF Http!Next, Http!Parent, Http!Child, Http!Client, Http!MainAccepts, Http!MainFails,
     Http!MainForks, Http!MainCloses, Http!ChildStarts, Http!ChildReads, Http!ChildWrites,
     Http!ClientConnects, Http!ClientGets, Http!ClientReads, Http!ClientWrites, Http!ClientKilled,
     Http!Unlisten, Http!Fault, Http!Accept, Http!Dead, Http!procvars, Http!Process, Http!SetChild,
     Http!ChildNext, Http!ClientNext, Http!Kind, Http!ClientDone, Http!ServerDone, Http!Some,
     Http!Rest, Http!readline, Http!readline_eof, Http!writen, Http!err_sys, Http!exit,
     Http!my_read, Http!LineEnds, Http!First, Http!fgets, Http!NL, Http!wrapunix, Http!wrapsock,
     Http!Reply, Http!reply,
     T!Next, T!Parent, T!Child, T!Client, T!MainAccepts, T!MainFails,
     T!MainForks, T!MainCloses, T!ChildStarts, T!ChildReads, T!ChildWrites,
     T!ClientConnects, T!ClientGets, T!ClientReads, T!ClientWrites, T!ClientKilled,
     T!Unlisten, T!Fault, T!Accept, T!Dead, T!procvars, T!Process, T!SetChild,
     T!ChildNext, T!ClientNext, T!Kind, T!ClientDone, T!ServerDone, T!Some,
     T!Rest, T!readline, T!readline_eof, T!writen, T!err_sys, T!exit,
     T!my_read, T!LineEnds, T!First, T!fgets, T!NL, T!wrapunix, T!wrapsock,
     T!Reply, T!reply
<1>3. T("handle_request", HttpInputs)!AnswersInOrder => Http!AnswersInOrder
  BY Zenon DEF Http!AnswersInOrder, Http!Answers, Http!AnswersTo, Http!Heard, Http!Reply,
     Http!reply, Http!NL, T!AnswersInOrder, T!Answers, T!AnswersTo, T!Heard, T!Reply, T!reply, T!NL
<1> QED  BY <1>1, <1>2, <1>3

LEMMA TheSettings == Setting("str_echo", EchoInputs) /\ Setting("handle_request", HttpInputs)
<1>1. Seq(STRING) \subseteq Chars
  BY SeqMonotonic DEF Char, Chars
<1> QED  BY <1>1, WebAssumption DEF Setting

-----------------------------------------------------------------------------
(***************************************************************************)
(* The advice server, and the Wikipedia client with its server.            *)
(***************************************************************************)
A(svc, texts, max) == INSTANCE AdviceServer WITH
    Service <- svc, Texts <- texts, MaxFaults <- max, faults <- failures

Readers == [pc : {"open", "say", "recv", "exited", "failed"}, shown : Chars]

AdviceTypes ==
    /\ main \in {"accept", "send", "close", "failed"} /\ current \in Clients \cup {0}
    /\ conn \in [Clients -> {"new", "queued", "accepted", "closed", "reset"}]
    /\ client \in [Clients -> Readers]
    /\ down \in [Clients -> Chars] /\ msg \in [Clients -> Chars]

\* What a connection has come to, and what was sent over it.
Served(texts, c) ==
    /\ client[c].pc = "open" => conn[c] = "new"
    /\ conn[c] \in {"new", "queued"} => msg[c] = <<>>
    /\ conn[c] = "accepted" => main \in {"send", "close"} /\ current = c
    /\ conn[c] = "closed" => main = "failed" \/ msg[c] \in texts
    /\ client[c].shown \o down[c] = msg[c]
    /\ client[c].pc = "exited" => conn[c] = "closed" /\ down[c] = <<>>

ServerInv(texts) ==
    /\ main = "send" /\ current \in Clients => conn[current] = "accepted" /\ msg[current] = <<>>
    /\ main = "close" =>
        current \in Clients /\ conn[current] = "accepted" /\ msg[current] \in texts

AdviceInv(texts) == AdviceTypes /\ ServerInv(texts) /\ \A c \in Clients : Served(texts, c)

LEMMA AdviceMeans ==
    ASSUME NEW svc, NEW texts, NEW max, AdviceInv(texts)
    PROVE  A(svc, texts, max)!MessagesWhole
<1>1. ASSUME NEW c \in Clients
      PROVE  /\ client[c].shown \o down[c] = msg[c]
             /\ client[c].pc = "exited" => client[c].shown = msg[c]
             /\ client[c].pc = "exited" /\ main # "failed" => msg[c] \in texts
  <2>1. client[c].shown \in Chars /\ Served(texts, c)
    BY DEF AdviceInv, AdviceTypes, Readers
  <2>2. client[c].shown \o <<>> = client[c].shown
    BY <2>1, NoPart
  <2> QED  BY <2>1, <2>2 DEF Served
<1> QED  BY <1>1, Zenon DEF A!MessagesWhole

LEMMA AdviceStarts ==
    ASSUME NEW svc, NEW texts, NEW max, A(svc, texts, max)!Init, 0 \notin Clients
    PROVE  AdviceInv(texts)
<1>1. <<>> \in Chars /\ <<>> \o <<>> = <<>>
  BY NoPart
<1>2. /\ main = "accept" /\ current = 0
      /\ conn = [c \in Clients |-> "new"]
      /\ client = [c \in Clients |-> [pc |-> "open", shown |-> <<>>]]
      /\ down = [c \in Clients |-> <<>>] /\ msg = [c \in Clients |-> <<>>]
  BY Zenon DEF A!Init
<1>3. AdviceTypes
  BY <1>1, <1>2 DEF AdviceTypes, Readers
<1>4. \A c \in Clients : Served(texts, c)
  BY <1>1, <1>2 DEF Served
<1> QED  BY <1>2, <1>3, <1>4 DEF AdviceInv, ServerInv

\* A step of the server that ends it.
LEMMA AdviceFails ==
    ASSUME NEW svc, NEW texts, NEW max, AdviceInv(texts), current' \in Clients \cup {0},
           A(svc, texts, max)!MainFails
    PROVE  AdviceInv(texts)'
<1>1. /\ main' = "failed" /\ client' = client /\ down' = down /\ msg' = msg
      /\ conn' = [c \in Clients |-> CASE conn[c] = "queued" -> "reset"
                                      [] conn[c] = "accepted" -> "closed"
                                      [] OTHER -> conn[c]]
  BY Zenon DEF A!MainFails
<1>2. AdviceTypes'
  BY <1>1 DEF AdviceInv, AdviceTypes
<1>3. ASSUME NEW c \in Clients PROVE Served(texts, c)'
  <2>1. Served(texts, c) /\ conn[c] \in {"new", "queued", "accepted", "closed", "reset"}
    BY DEF AdviceInv, AdviceTypes
  <2>2. conn'[c] = CASE conn[c] = "queued" -> "reset"
                     [] conn[c] = "accepted" -> "closed"
                     [] OTHER -> conn[c]
    BY <1>1
  <2> QED  BY <1>1, <2>1, <2>2 DEF Served
<1> QED  BY <1>1, <1>2, <1>3 DEF AdviceInv, ServerInv

AdviceSetting(texts) == 0 \notin Clients /\ texts \subseteq Chars /\ Chunk \in Nat

LEMMA AdviceMain ==
    ASSUME NEW svc, NEW texts, NEW max, AdviceSetting(texts), AdviceInv(texts),
           A(svc, texts, max)!Main
    PROVE  AdviceInv(texts)'
<1>1. CASE A(svc, texts, max)!MainAccepts
  <2>1. /\ main = "accept" /\ main' = "send"
        /\ client' = client /\ down' = down /\ msg' = msg
        /\ \E c \in Clients : /\ conn[c] = "queued" /\ current' = c
                              /\ conn' = [conn EXCEPT ![c] = "accepted"]
    BY <1>1, Zenon DEF A!MainAccepts
  <2>2. AdviceTypes'
    BY <2>1 DEF AdviceInv, AdviceTypes
  <2>3. ServerInv(texts)'
    BY <2>1 DEF AdviceSetting, AdviceInv, AdviceTypes, ServerInv, Served
  <2>4. ASSUME NEW c \in Clients PROVE Served(texts, c)'
    BY <2>1 DEF AdviceSetting, AdviceInv, AdviceTypes, Served
  <2> QED  BY <2>2, <2>3, <2>4 DEF AdviceInv
<1>2. CASE A(svc, texts, max)!MainSends
  <2>1. /\ main = "send" /\ current' = current
        /\ IF current = 0 THEN A(svc, texts, max)!MainFails
           ELSE \/ /\ \E text \in texts :
                        /\ down' = [down EXCEPT ![current] = text]
                        /\ msg' = [msg EXCEPT ![current] = text]
                   /\ main' = "close" /\ conn' = conn /\ client' = client
                \/ A(svc, texts, max)!MainFails
    BY <1>2, Zenon DEF A!MainSends
  <2>2. CASE A(svc, texts, max)!MainFails
    BY <2>1, <2>2, AdviceFails DEF AdviceInv, AdviceTypes
  <2>3. CASE current \in Clients /\ main' = "close"
    <3>1. PICK text \in texts : /\ down' = [down EXCEPT ![current] = text]
                                /\ msg' = [msg EXCEPT ![current] = text]
                                /\ conn' = conn /\ client' = client
      <4>1. ~A(svc, texts, max)!MainFails
        BY <2>3, Zenon DEF A!MainFails
      <4> QED  BY <2>1, <2>3, <4>1 DEF AdviceSetting
    <3>2. text \in Chars /\ <<>> \in Chars /\ <<>> \o text = text
      BY NoPart DEF AdviceSetting
    <3>3. AdviceTypes'
      BY <2>1, <2>3, <3>1, <3>2 DEF AdviceInv, AdviceTypes
    <3>4. /\ conn[current] = "accepted" /\ msg[current] = <<>> /\ Served(texts, current)
          /\ client[current].shown \in Chars /\ down[current] \in Chars
      BY <2>1, <2>3 DEF AdviceInv, AdviceTypes, ServerInv, Readers
    <3>5. client[current].shown = <<>>
      BY <3>4, JoinedEmpty DEF Served
    <3>6. down'[current] = text /\ msg'[current] = text
      BY <2>3, <3>1 DEF AdviceInv, AdviceTypes
    <3>7. ServerInv(texts)'
      BY <2>1, <2>3, <3>1, <3>4, <3>6 DEF ServerInv
    <3>8. ASSUME NEW c \in Clients PROVE Served(texts, c)'
      <4>1. CASE c = current
        BY <2>1, <2>3, <3>1, <3>2, <3>4, <3>5, <3>6, <4>1 DEF Served
      <4>2. CASE c # current
        <5>1. down'[c] = down[c] /\ msg'[c] = msg[c] /\ Served(texts, c)
          BY <3>1, <4>2 DEF AdviceInv, AdviceTypes
        <5> QED  BY <2>1, <2>3, <3>1, <4>2, <5>1 DEF Served
      <4> QED  BY <4>1, <4>2
    <3> QED  BY <3>3, <3>7, <3>8 DEF AdviceInv
  <2> QED  BY <2>1, <2>2, <2>3 DEF AdviceInv, AdviceTypes
<1>3. CASE A(svc, texts, max)!MainCloses
  <2>1. /\ main = "close" /\ main' = "accept" /\ conn' = [conn EXCEPT ![current] = "closed"]
        /\ current' = current /\ client' = client /\ down' = down /\ msg' = msg
    BY <1>3, Zenon DEF A!MainCloses
  <2>2. AdviceTypes'
    BY <2>1 DEF AdviceInv, AdviceTypes
  <2>3. ASSUME NEW c \in Clients PROVE Served(texts, c)'
    BY <2>1 DEF AdviceInv, AdviceTypes, ServerInv, Served
  <2> QED  BY <2>1, <2>2, <2>3 DEF AdviceInv, ServerInv
<1> QED  BY <1>1, <1>2, <1>3, Zenon DEF A!Main

\* With no descriptor the server only goes to its failing send.
LEMMA AdviceAcceptFails ==
    ASSUME NEW svc, NEW texts, NEW max, AdviceSetting(texts), AdviceInv(texts),
           A(svc, texts, max)!MainAcceptFails
    PROVE  AdviceInv(texts)'
<1>1. /\ main = "accept" /\ main' = "send" /\ current' = 0 /\ conn' = conn
      /\ client' = client /\ down' = down /\ msg' = msg
  BY Zenon DEF A!MainAcceptFails
<1>2. AdviceTypes'
  BY <1>1 DEF AdviceInv, AdviceTypes
<1>3. ServerInv(texts)'
  BY <1>1 DEF AdviceSetting, AdviceInv, AdviceTypes, ServerInv
<1>4. ASSUME NEW c \in Clients PROVE Served(texts, c)'
  BY <1>1 DEF AdviceInv, Served
<1> QED  BY <1>2, <1>3, <1>4 DEF AdviceInv

\* What a step of one client leaves as it was.
LEMMA AdviceOthers ==
    ASSUME NEW texts, AdviceInv(texts), AdviceTypes', NEW c \in Clients, Served(texts, c)',
           main' = main, current' = current, msg' = msg,
           \A d \in Clients \ {c} : /\ client'[d] = client[d] /\ conn'[d] = conn[d]
                                    /\ down'[d] = down[d],
           conn[c] = "accepted" => conn'[c] = "accepted"
    PROVE  AdviceInv(texts)'
<1>1. ASSUME NEW d \in Clients PROVE Served(texts, d)'
  BY <1>1 DEF AdviceInv, Served
<1>2. ServerInv(texts)'
  BY DEF AdviceInv, ServerInv
<1> QED  BY <1>1, <1>2 DEF AdviceInv

LEMMA AdviceClient ==
    ASSUME NEW svc, NEW texts, NEW max, AdviceSetting(texts), AdviceInv(texts),
           NEW c \in Clients, A(svc, texts, max)!Client(c) \/ A(svc, texts, max)!Killed(c)
    PROVE  AdviceInv(texts)'
<1>0. /\ AdviceTypes /\ Served(texts, c)
      /\ client[c] \in Readers /\ client[c].shown \in Chars /\ down[c] \in Chars
  BY DEF AdviceInv, AdviceTypes, Readers
<1>1. main' = main /\ current' = current /\ msg' = msg
  BY Zenon DEF A!Client, A!OpenSocket, A!Say, A!Recv, A!Killed, A!Set
<1>2. \/ \E now \in {"say", "recv", "exited", "failed"} :
            /\ client' = [client EXCEPT ![c].pc = now] /\ down' = down
            /\ \/ /\ now = "say" /\ client[c].pc = "open"
                  /\ conn' = [conn EXCEPT ![c] = "queued"]
               \/ now # "exited" /\ client[c].pc # "open" /\ conn' = conn
               \/ now = "failed" /\ conn' = conn
               \/ now = "exited" /\ conn' = conn /\ down[c] = <<>> /\ conn[c] = "closed"
      \/ \E n \in 1..Chunk :
            /\ client[c].pc = "recv" /\ n <= Len(down[c]) /\ conn' = conn
            /\ client' = [client EXCEPT ![c].shown = @ \o SubSeq(down[c], 1, n)]
            /\ down' = [down EXCEPT ![c] = SubSeq(@, n + 1, Len(@))]
  <2>1. CASE A(svc, texts, max)!OpenSocket(c)
    BY <2>1 DEF A!OpenSocket, A!Set
  <2>2. CASE A(svc, texts, max)!Say(c)
    BY <2>2 DEF A!Say, A!Set
  <2>3. CASE A(svc, texts, max)!Recv(c)
    BY <2>3 DEF A!Recv, A!Set
  <2>4. CASE A(svc, texts, max)!Killed(c)
    BY <2>4 DEF A!Killed, A!Set
  <2> QED  BY <2>1, <2>2, <2>3, <2>4, Zenon DEF A!Client
<1>3. CASE \E now \in {"say", "recv", "exited", "failed"} :
            /\ client' = [client EXCEPT ![c].pc = now] /\ down' = down
            /\ \/ /\ now = "say" /\ client[c].pc = "open"
                  /\ conn' = [conn EXCEPT ![c] = "queued"]
               \/ now # "exited" /\ client[c].pc # "open" /\ conn' = conn
               \/ now = "failed" /\ conn' = conn
               \/ now = "exited" /\ conn' = conn /\ down[c] = <<>> /\ conn[c] = "closed"
  <2>1. PICK now \in {"say", "recv", "exited", "failed"} :
            /\ client' = [client EXCEPT ![c].pc = now] /\ down' = down
            /\ \/ /\ now = "say" /\ client[c].pc = "open"
                  /\ conn' = [conn EXCEPT ![c] = "queued"]
               \/ now # "exited" /\ client[c].pc # "open" /\ conn' = conn
               \/ now = "failed" /\ conn' = conn
               \/ now = "exited" /\ conn' = conn /\ down[c] = <<>> /\ conn[c] = "closed"
    BY <1>3
  <2>2. /\ AdviceTypes' /\ client'[c].pc = now /\ client'[c].shown = client[c].shown
        /\ \A d \in Clients \ {c} : client'[d] = client[d] /\ conn'[d] = conn[d]
    BY <1>0, <1>1, <2>1 DEF AdviceTypes, Readers
  <2>3. /\ Served(texts, c)'
        /\ conn[c] = "accepted" => conn'[c] = "accepted"
    BY <1>0, <1>1, <2>1, <2>2 DEF AdviceTypes, Served
  <2> QED  BY <1>1, <2>1, <2>2, <2>3, AdviceOthers
<1>4. ASSUME NEW n \in 1..Chunk,
             client[c].pc = "recv", n <= Len(down[c]), conn' = conn,
             client' = [client EXCEPT ![c].shown = @ \o SubSeq(down[c], 1, n)],
             down' = [down EXCEPT ![c] = SubSeq(@, n + 1, Len(@))]
      PROVE  AdviceInv(texts)'
  <2> DEFINE s == SubSeq(down[c], 1, n)
  <2>1. n \in 0..Len(down[c])
    BY <1>0, <1>4, LenChars DEF AdviceSetting
  <2>2. /\ s \in Chars /\ Behind(down[c], n) \in Chars /\ s \o Behind(down[c], n) = down[c]
    BY <1>0, <2>1, Cut
  <2>3. client[c].shown \o s \in Chars
    BY <1>0, <2>2, InChars
  <2>4. (client[c].shown \o s) \o Behind(down[c], n) = client[c].shown \o down[c]
    <3>1. Regrouped(client[c].shown, s, Behind(down[c], n))
      BY <1>0, <2>2, Regroup
    <3> HIDE DEF s
    <3> QED  BY <2>2, <3>1, Zenon DEF Regrouped
  <2>5. /\ client'[c].shown = client[c].shown \o s /\ client'[c].pc = "recv"
        /\ down'[c] = Behind(down[c], n)
        /\ \A d \in Clients \ {c} : client'[d] = client[d] /\ down'[d] = down[d]
    BY <1>0, <1>4 DEF AdviceTypes, Readers, Behind
  <2>6. AdviceTypes'
    <3> HIDE DEF s
    <3>1. client' \in [Clients -> Readers]
      <4>1. client' = [client EXCEPT ![c].shown = client[c].shown \o s]
        BY <1>4 DEF s, AdviceTypes
      <4> QED  BY <1>0, <2>3, <4>1 DEF AdviceTypes, Readers
    <3>2. down' \in [Clients -> Chars]
      BY <1>0, <1>4, <2>2 DEF AdviceTypes, Behind
    <3> QED  BY <1>0, <1>1, <1>4, <3>1, <3>2 DEF AdviceTypes
  <2> HIDE DEF s
  <2>7. Served(texts, c)'
    BY <1>0, <1>1, <1>4, <2>4, <2>5 DEF Served
  <2> QED  BY <1>1, <1>4, <2>5, <2>6, <2>7, AdviceOthers
<1> QED  BY <1>2, <1>3, <1>4, Zenon

LEMMA AdviceStep ==
    ASSUME NEW svc, NEW texts, NEW max, AdviceSetting(texts), AdviceInv(texts),
           A(svc, texts, max)!Next
    PROVE  AdviceInv(texts)'
BY AdviceMain, AdviceAcceptFails, AdviceClient, Zenon DEF A!Next

LEMMA AdviceStays ==
    ASSUME NEW texts, AdviceInv(texts), UNCHANGED webvars
    PROVE  AdviceInv(texts)'
BY DEF AdviceInv, AdviceTypes, ServerInv, Served, webvars

LEMMA AdviceSame ==
    /\ Advice!Init => A("advice", Advices, AdviceFaults)!Init
    /\ Advice!Next => A("advice", Advices, AdviceFaults)!Next
    /\ A("advice", Advices, AdviceFaults)!MessagesWhole => Advice!MessagesWhole
<1>1. Advice!Init => A("advice", Advices, AdviceFaults)!Init
  BY Zenon DEF Advice!Init, A!Init
<1>2. Advice!Next => A("advice", Advices, AdviceFaults)!Next
  BY Zenon DEF Advice!Next, Advice!Main, Advice!Client, Advice!Killed, Advice!MainAccepts,
     Advice!MainAcceptFails, Advice!MainSends, Advice!MainFails, Advice!MainCloses, Advice!OpenSocket, Advice!Say,
     Advice!Recv, Advice!Set, Advice!Ended, Advice!Fault,
     A!Next, A!Main, A!Client, A!Killed, A!MainAccepts, A!MainAcceptFails, A!MainSends, A!MainFails,
     A!MainCloses, A!OpenSocket, A!Say, A!Recv, A!Set, A!Ended, A!Fault
<1>3. A("advice", Advices, AdviceFaults)!MessagesWhole => Advice!MessagesWhole
  BY Zenon DEF Advice!MessagesWhole, A!MessagesWhole
<1> QED  BY <1>1, <1>2, <1>3

LEMMA WikiSame ==
    /\ Wiki!Init => A("wiki", Pages, WikiFaults)!Init
    /\ Wiki!Next => A("wiki", Pages, WikiFaults)!Next
    /\ A("wiki", Pages, WikiFaults)!MessagesWhole => Wiki!MessagesWhole
<1>1. Wiki!Init => A("wiki", Pages, WikiFaults)!Init
  BY Zenon DEF Wiki!Init, A!Init
<1>2. Wiki!Next => A("wiki", Pages, WikiFaults)!Next
  BY Zenon DEF Wiki!Next, Wiki!Main, Wiki!Client, Wiki!Killed, Wiki!MainAccepts,
     Wiki!MainAcceptFails, Wiki!MainSends, Wiki!MainFails, Wiki!MainCloses, Wiki!OpenSocket, Wiki!Say, Wiki!Recv, Wiki!Set,
     Wiki!Ended, Wiki!Fault,
     A!Next, A!Main, A!Client, A!Killed, A!MainAccepts, A!MainAcceptFails, A!MainSends, A!MainFails,
     A!MainCloses, A!OpenSocket, A!Say, A!Recv, A!Set, A!Ended, A!Fault
<1>3. A("wiki", Pages, WikiFaults)!MessagesWhole => Wiki!MessagesWhole
  BY Zenon DEF Wiki!MessagesWhole, A!MessagesWhole
<1> QED  BY <1>1, <1>2, <1>3

LEMMA TheTexts == AdviceSetting(Advices) /\ AdviceSetting(Pages)
<1>1. Seq(Nat) \subseteq Chars
  BY SeqMonotonic DEF Char, Chars
<1> QED  BY <1>1, WebAssumption DEF AdviceSetting

-----------------------------------------------------------------------------
\* What holds of the four servers.
WebInv ==
    /\ server \in {"echo", "http", "advice", "wiki"}
    /\ server = "echo" => EchoInv(EchoInputs)
    /\ server = "http" => HttpInv(HttpInputs)
    /\ server = "advice" => AdviceInv(Advices)
    /\ server = "wiki" => AdviceInv(Pages)

LEMMA WebStart == WebInit => WebInv
<1>1. 0 \notin Clients
  BY WebAssumption
<1>2. Echo!Init => EchoInv(EchoInputs)
  BY EchoSame, EchoStarts, TheSettings
<1>3. Http!Init => HttpInv(HttpInputs)
  BY HttpSame, HttpStarts, TheSettings
<1>4. Advice!Init => AdviceInv(Advices)
  BY <1>1, AdviceSame, AdviceStarts
<1>5. Wiki!Init => AdviceInv(Pages)
  BY <1>1, WikiSame, AdviceStarts
<1> QED  BY <1>2, <1>3, <1>4, <1>5 DEF WebInit, WebInv

LEMMA WebStep == WebInv /\ [WebNext]_webvars => WebInv'
<1> SUFFICES ASSUME WebInv, [WebNext]_webvars PROVE WebInv'
    OBVIOUS
<1>1. CASE UNCHANGED webvars
  <2>1. server' = server
    BY <1>1 DEF webvars
  <2> QED  BY <1>1, <2>1, Stays, AdviceStays DEF WebInv
<1>2. CASE server = "echo" /\ server' = server /\ Echo!Next
  <2>1. EchoInv(EchoInputs)'
    BY <1>2, EchoSame, EchoStep, TheSettings DEF WebInv
  <2> QED  BY <1>2, <2>1 DEF WebInv
<1>3. CASE server = "http" /\ server' = server /\ Http!Next
  <2>1. HttpInv(HttpInputs)'
    BY <1>3, HttpSame, HttpStep, TheSettings DEF WebInv
  <2> QED  BY <1>3, <2>1 DEF WebInv
<1>4. CASE server = "advice" /\ server' = server /\ Advice!Next
  <2>1. AdviceInv(Advices)'
    BY <1>4, AdviceSame, AdviceStep, TheTexts DEF WebInv
  <2> QED  BY <1>4, <2>1 DEF WebInv
<1>5. CASE server = "wiki" /\ server' = server /\ Wiki!Next
  <2>1. AdviceInv(Pages)'
    BY <1>5, WikiSame, AdviceStep, TheTexts DEF WebInv
  <2> QED  BY <1>5, <2>1 DEF WebInv
<1> QED  BY <1>1, <1>2, <1>3, <1>4, <1>5, Zenon DEF WebNext, Serving

LEMMA WebMeans == WebInv => RightAnswers
<1>1. EchoInv(EchoInputs) => Echo!AnswersInOrder
  BY EchoSame, EchoAnswers, TheSettings
<1>2. HttpInv(HttpInputs) => Http!AnswersInOrder
  BY HttpSame, HttpAnswers, TheSettings
<1>3. AdviceInv(Advices) => Advice!MessagesWhole
  BY AdviceSame, AdviceMeans
<1>4. AdviceInv(Pages) => Wiki!MessagesWhole
  BY WikiSame, AdviceMeans
<1> QED  BY <1>1, <1>2, <1>3, <1>4 DEF WebInv, RightAnswers

\* Every client of the four servers sees the answers to what it sent, in order,
\* and all of them when it ends well and nothing failed: for any texts, however
\* read and write cut them up on the way, whatever is left in the static buffer
\* of my_read, and whichever calls fail and clients are killed.
THEOREM AnswersCorrect == WebSpec => []RightAnswers
<1> QED  BY WebStart, WebStep, WebMeans, PTL DEF WebSpec
====
