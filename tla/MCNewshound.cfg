SPECIFICATION Spec
CONSTANTS
  Children = 3
  ForkFaults = 2
  NewsFaults = 2
  Products = {0, 5, 100}
  ExampleTyped = 2
  ExampleRounds = 5
  SolutionTyped = 3
  SolutionRounds = 7
INVARIANT AbnormalReported
CHECK_DEADLOCK FALSE
