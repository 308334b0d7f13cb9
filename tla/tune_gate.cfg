\* Two tags of every kind anywhere in seven samples, cut into windows at will.
SPECIFICATION Spec
CONSTANTS
  NIn = 7
  MaxTags = 2
  MaxWindow = 4
  OutLens = {2, 4}
  NPub = 2
  NDiscards = {1, 3}
  NTimeout = 3
  MaxSets = 1
  RatePeriod = 2
\* The run ends with its input.
CHECK_DEADLOCK FALSE
INVARIANTS
  GateInv
  TimeoutYields
PROPERTIES
  WorkReturns
  RequestAnswered
