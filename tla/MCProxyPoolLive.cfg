SPECIFICATION FairSpec

CONSTANTS
  n1 = n1
  n2 = n2
  w1 = w1
  w2 = w2
  w3 = w3
  file = file
  subscription = subscription
  NoNode = NoNode
  Nodes <- OneNode
  Workers <- ThreeWorkers
  Sources <- OneSource
  Rotating <- NoneRotating
  Capacity = 2
  Fallback = "single"
  Sweeps = TRUE

INVARIANT CapacityRespected
PROPERTY LeasesSpec
PROPERTY AcquireEnds
