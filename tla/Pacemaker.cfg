SPECIFICATION Spec
CONSTANTS
  Compute = {n1, n2}
  Storage = {n2, n3}
  NoNode = NoNode
  NoReport = NoReport
  MaxEvents = 3
INVARIANTS TypeOK LightIsRight FencingShows PartitionShows TilesAreRight MatricesAreRight
