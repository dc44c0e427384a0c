SPECIFICATION Spec
CONSTANTS
  Nodes = {a1, a2, b1}
  SiteA = {a1, a2}
  Bases = {"qmrdqm", "qmpay"}
  None = None
  MaxEvents = 3
INVARIANTS TypeOK OwnerIsReal LightIsRight BadgeIsRight DrCardIsRight TilesAreRight MatricesAreRight
SYMMETRY Symmetry
