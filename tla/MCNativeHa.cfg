SPECIFICATION Spec
CONSTANTS
  Nodes = {a1, a2, a3}
  Standby = {b1, b2}
  NoInstance = NoInstance
  Unknown = Unknown
  MaxEvents = 3
SYMMETRY Symmetry
INVARIANTS TypeOK LightIsRight SourceAllOrNothing TilesAreRight SitesAreRight CrrCardIsRight
