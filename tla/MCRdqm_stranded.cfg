SPECIFICATION Spec
CONSTANTS
  Nodes = {a1, a2, b1}
  SiteA = {a1, a2}
  Bases = {"qmpay"}
  None = None
  MaxEvents = 4
INVARIANT StrandedShows
SYMMETRY Symmetry
