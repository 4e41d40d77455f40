---- MODULE MCProcesses ----
(***************************************************************************)
(* The forking parents, with and without a terminal, and both versions of  *)
(* the times-table game.                                                   *)
(***************************************************************************)
EXTENDS Integers, Sequences, FiniteSets

CONSTANTS Children,                   \* num_children of fork.c, num_feeds of newshound.c
          ForkFaults, NewsFaults,     \* how many children are killed and forks fail
          Products,                   \* of the questions of the game
          ExampleTyped, ExampleRounds, SolutionTyped, SolutionRounds

ASSUME ProcessesAssumption ==
    /\ Children \in Nat
    /\ Products \subseteq Int

VARIABLES which, pc, i, word, heap, buffer, output, status, faults,
          game, product, txt, stdin, eof, timer, end_flag, score, final, rounds, asked, lines, late

forkvars == <<pc, i, word, heap, buffer, output, status, faults>>
gamevars == <<game, product, txt, stdin, eof, timer, end_flag, score, final, rounds, asked, lines,
              late>>
vars == <<which, forkvars, gamevars>>

Typed == INSTANCE ForkWait WITH
    Program <- "fork", Terminal <- TRUE, MaxFaults <- ForkFaults
Filed == INSTANCE ForkWait WITH
    Program <- "fork", Terminal <- FALSE, MaxFaults <- ForkFaults
News == INSTANCE ForkWait WITH
    Program <- "newshound", Terminal <- TRUE, MaxFaults <- NewsFaults
Example == INSTANCE TimesTables WITH
    Solution <- FALSE, MaxTyped <- ExampleTyped, MaxRounds <- ExampleRounds, pc <- game
Soln == INSTANCE TimesTables WITH
    Solution <- TRUE, MaxTyped <- SolutionTyped, MaxRounds <- SolutionRounds, pc <- game

Init ==
    \/ which = "typed" /\ Typed!Init /\ Example!Init
    \/ which = "filed" /\ Filed!Init /\ Example!Init
    \/ which = "news" /\ News!Init /\ Example!Init
    \/ which = "example" /\ Example!Init /\ Typed!Init
    \/ which = "solution" /\ Soln!Init /\ Typed!Init

Of(w, A, rest) == which = w /\ A /\ UNCHANGED <<which, rest>>

Next ==
    \/ Of("typed", Typed!Next, gamevars)
    \/ Of("filed", Filed!Next, gamevars)
    \/ Of("news", News!Next, gamevars)
    \/ Of("example", Example!Next, forkvars)
    \/ Of("solution", Soln!Next, forkvars)

\* main of each program, its children, and the alarm.
MainStep ==
    \/ Of("typed", Typed!Parent, gamevars) \/ Of("filed", Filed!Parent, gamevars)
    \/ Of("news", News!Parent, gamevars)
    \/ Of("example", Example!Game, forkvars) \/ Of("solution", Soln!Game, forkvars)
ChildStep(c) ==
    \/ Of("typed", Typed!Child(c), gamevars) \/ Of("filed", Filed!Child(c), gamevars)
    \/ Of("news", News!Child(c), gamevars)
AlarmStep == Of("example", Example!Alarm, forkvars) \/ Of("solution", Soln!Alarm, forkvars)

Spec ==
    /\ Init /\ [][Next]_vars
    /\ WF_vars(MainStep) /\ WF_vars(AlarmStep)
    /\ \A c \in 1..Children : WF_vars(ChildStep(c))

-----------------------------------------------------------------------------
\* The forking parents: when no fork fails, main waits for every child and
\* reports its code; and, whatever fails, what a child prints is a copy of the
\* parent's memory and of its buffer.
ParentsRight ==
    CASE which = "typed" -> Typed!CopiedAtFork /\ Typed!WaitsForAll
      [] which = "filed" -> Filed!CopiedAtFork /\ Filed!WaitsForAll
      [] which = "news" -> News!CopiedAtFork /\ News!WaitsForAll
      [] OTHER -> TRUE

\* newshound.c reports every child that did not exit normally, as its comment
\* says.
AbnormalReported == which = "news" => News!AbnormalReported

\* The game counts the right answers, and none that comes too late.
GameRight ==
    CASE which = "example" -> Example!ScoreFair /\ Example!NothingLate /\ Example!FinalIsScore
      [] which = "solution" -> Soln!ScoreFair /\ Soln!NothingLate /\ Soln!FinalIsScore
      [] OTHER -> TRUE

\* All processes end, and so does the game of a player who stops answering.
ProcessesEnd ==
    <>[] CASE which \in {"typed", "filed", "news"} -> Typed!Ended
           [] which = "example" -> Example!Ending
           [] which = "solution" -> Soln!Ending
====
