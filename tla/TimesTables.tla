---- MODULE TimesTables ----
(***************************************************************************)
(* exercises/ex10/signal_example.c and its solution: questions are asked   *)
(* and answered until the alarm, which each question sets anew, or an      *)
(* interrupt ends the game.  The solution's handler sets a flag, which is  *)
(* looked at after the next answer.                                        *)
(* The input is a queue of what fgets takes at once: three characters at   *)
(* most, so that 100 is followed by an empty answer, which atoi takes      *)
(* for 0.                                                                  *)
(***************************************************************************)
EXTENDS Integers, Sequences, FiniteSets

CONSTANTS Solution,    \* TRUE for signal_example_soln.c
          Products,    \* what a * b may be: 0 to 100
          MaxTyped, MaxRounds

VARIABLES
    pc,        \* "ask", "alarm", "get", "check", "flag", "over"
    product,   \* of this question
    txt,       \* the answer in txt, or what was there before
    stdin, eof,
    timer, end_flag,
    score, final,
    rounds,
    asked,     \* the products of the questions whose answers were checked
    lines,     \* the answers the player typed
    late       \* how many answers were checked after an alarm went off

inputs == <<stdin, eof, lines>>
ghosts == <<asked, late>>
vars == <<pc, product, txt, inputs, timer, end_flag, score, final, rounds, ghosts>>

Init ==
    /\ pc = "ask" /\ product = 0 /\ txt \in {0, 1}
    /\ stdin = <<>> /\ eof = FALSE /\ lines = <<>>
    /\ timer = "off" /\ end_flag = FALSE
    /\ score = 0 /\ final = -1 /\ rounds = 0
    /\ asked = <<>> /\ late = 0

Pieces(answer) == IF answer = 100 THEN <<100, 0>> ELSE <<answer>>

Ask ==
    /\ pc = "ask" /\ rounds < MaxRounds
    /\ \E p \in Products : product' = p
    /\ rounds' = rounds + 1 /\ pc' = "alarm"
    /\ UNCHANGED <<txt, inputs, timer, end_flag, score, final, ghosts>>

\* Mutated form: the alarm is not set.
SetAlarm_Forgotten ==
    /\ pc = "alarm" /\ pc' = "get"
    /\ UNCHANGED <<product, txt, inputs, timer, end_flag, score, final, rounds, ghosts>>

SetAlarm ==
    /\ pc = "alarm" /\ timer' = "on" /\ pc' = "get"
    /\ UNCHANGED <<product, txt, inputs, end_flag, score, final, rounds, ghosts>>

\* fgets; at the end of the file it returns NULL: the first program goes on
\* with what is in txt, the solution calls it again, for ever.
Get ==
    /\ pc = "get"
    /\ IF stdin # <<>> THEN txt' = Head(stdin) /\ stdin' = Tail(stdin)
       ELSE eof /\ ~Solution /\ UNCHANGED <<txt, stdin>>
    /\ pc' = "check"
    /\ UNCHANGED <<product, eof, lines, timer, end_flag, score, final, rounds, ghosts>>

Check ==
    /\ pc = "check"
    /\ score' = IF txt = product THEN score + 1 ELSE score
    /\ asked' = Append(asked, product)
    /\ late' = IF timer = "off" \/ end_flag THEN late + 1 ELSE late
    /\ pc' = IF Solution THEN "flag" ELSE "ask"
    /\ UNCHANGED <<product, txt, inputs, timer, end_flag, final, rounds>>

\* Mutated form: the game goes on.
CheckFlag_Ignored ==
    /\ pc = "flag" /\ pc' = "ask"
    /\ UNCHANGED <<product, txt, inputs, timer, end_flag, score, final, rounds, ghosts>>

CheckFlag ==
    /\ pc = "flag"
    /\ IF end_flag THEN pc' = "over" /\ final' = score ELSE pc' = "ask" /\ UNCHANGED final
    /\ UNCHANGED <<product, txt, inputs, timer, end_flag, score, rounds, ghosts>>

-----------------------------------------------------------------------------
\* end_game prints the score and exits, wherever the program was.
end_game == pc' = "over" /\ final' = score

\* times_up raises SIGINT in the first program.  In the solution fgets returns
\* with an error and is called again.
Alarm ==
    /\ pc # "over" /\ timer = "on" /\ timer' = "off"
    /\ IF Solution THEN end_flag' = TRUE /\ UNCHANGED <<pc, final>>
       ELSE end_game /\ UNCHANGED end_flag
    /\ UNCHANGED <<product, txt, inputs, score, rounds, ghosts>>

Interrupt ==
    /\ pc # "over" /\ end_game
    /\ UNCHANGED <<product, txt, inputs, timer, end_flag, score, rounds, ghosts>>

\* The player types an answer, or ends the input.
Type ==
    /\ pc # "over" /\ ~eof /\ Len(lines) < MaxTyped
    /\ \/ \E p \in Products : /\ stdin' = stdin \o Pieces(p) /\ lines' = Append(lines, p)
                              /\ UNCHANGED eof
       \/ eof' = TRUE /\ UNCHANGED <<stdin, lines>>
    /\ UNCHANGED <<pc, product, txt, timer, end_flag, score, final, rounds, ghosts>>

-----------------------------------------------------------------------------
Game == Ask \/ SetAlarm \/ Get \/ Check \/ CheckFlag
Next == Game \/ Alarm \/ Interrupt \/ Type
Fairness == WF_vars(Game) /\ WF_vars(Alarm)
Spec == Init /\ [][Next]_vars /\ Fairness

-----------------------------------------------------------------------------
\* The score is the number of questions whose answer was the player's line to
\* it, as long as the player types no answer of three digits, the rest of
\* which answers the next question, and does not end the input, after which
\* the first program takes the last answer again and again.
ScoreFair ==
    (\A n \in 1..Len(lines) : lines[n] # 100) /\ ~eof =>
        /\ Len(asked) <= Len(lines)
        /\ score = Cardinality({n \in 1..Len(asked) : asked[n] = lines[n]})

\* Time is up: no answer counts any more, and in the solution one at most.
NothingLate == late <= (IF Solution THEN 1 ELSE 0)

\* The score that is shown at the end is the last one.
FinalIsScore == pc = "over" => final = score

\* Where a game ends up when the player stops answering: at its end.  The
\* solution waits for one more answer; an input that has ended keeps the first
\* program busy and the solution calling fgets.
Ending == pc = "over" \/ eof \/ (Solution /\ pc = "get" /\ stdin = <<>>)
====
