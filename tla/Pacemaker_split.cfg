SPECIFICATION Spec
CONSTANTS
  Compute = {n2}
  Storage = {n2, n3}
  NoNode = NoNode
  NoReport = NoReport
  MaxEvents = 5
INVARIANT SplitBrainShows
