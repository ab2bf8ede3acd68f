SPECIFICATION Spec
CONSTANTS
  Cases <- MCCases
  FirstPass = 2
  Affordable = 8
INVARIANTS
  VerdictsAreTrue
  BoundsHold
  ExitIsEarned
\* A command ends with its exit code.
CHECK_DEADLOCK FALSE
