SPECIFICATION Spec
CONSTANTS
  Compute = {n1, n2}
  Storage = {n2, n3}
  NoNode = NoNode
  NoReport = NoReport
  MaxEvents = 1
INVARIANT NeighbourStaysOut
