SPECIFICATION Spec
CONSTANTS
  Graphs <- McGraphs
  MaxPasses = 5
CHECK_DEADLOCK FALSE
INVARIANT FrontierIsEnough
INVARIANT PlanIsTheReference
INVARIANT EndedLoopsStay
PROPERTY EveryStepSettles
