SPECIFICATION Spec
CONSTANTS
  t1 = t1
  t2 = t2
  Thread <- Threads
  frameLenLimit = 2
  MaxCall = 3
  MaxDepth = 2
  Gas <- CallGas
  Items = 1
SYMMETRY Symmetry
INVARIANTS IteratorsResolve FramesOfRunningCalls VectorsDestroyed
CHECK_DEADLOCK FALSE
