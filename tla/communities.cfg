\* Two rebuilds at any time, two levels; the graph changes meanwhile.
SPECIFICATION Spec
CONSTANTS
  Entities = {1, 2, 3, 4}
  NameOf <- MCNameOf
  MaxLevel = 1
  TitleSize = 2
  Graphs <- MCGraphs
  Rebuilds = {r1, r2}
  MaxRuns = 2
  None = None
SYMMETRY RebuildSymmetry
INVARIANTS
  TypeOK
  ParentKnowsChild
  ParentsAreCoarser
  LastRebuildIsStored
CHECK_DEADLOCK FALSE
