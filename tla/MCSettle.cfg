SPECIFICATION Spec
CONSTANTS
  Graphs <- McGraphs
  MaxPasses = 4
  Suspenders = {"A"}
  Fallible = {"C", "D"}
  Cancels = {"cut"}
  Evicts = {"cut", "looped"}
CHECK_DEADLOCK FALSE
INVARIANT EveryRowIsEarned
INVARIANT SaidFinishedIsTrue
PROPERTY DecisionIsTheReference
INVARIANT IdleIsOver
