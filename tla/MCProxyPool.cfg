SPECIFICATION Spec

CONSTANTS
  n1 = n1
  n2 = n2
  w1 = w1
  w2 = w2
  w3 = w3
  file = file
  subscription = subscription
  NoNode = NoNode
  Nodes <- TwoNodes
  Workers <- TwoWorkers
  Sources <- TwoSources
  Rotating <- OneRotating
  Capacity = 2
  Fallback = "none"
  Sweeps = FALSE

SYMMETRY PoolSymmetry

INVARIANT SlotsAccounted
INVARIANT PoolMatchesSources
