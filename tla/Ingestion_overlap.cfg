CONSTANTS
  d1 = d1
  d2 = d2
  g1 = g1
  u1 = u1
  w1 = w1
  i1 = i1
  Datasets = {d1}
  Ghosts = {}
  Regular = {u1}
  Wrappers = {}
  ParentUrn <- OverlapParentUrn
  Recipes <- OverlapRecipes
  Estate <- OverlapEstate
  FirstRows <- OverlapRows
  Sweeps = {s1, s2}
  Runs = {}
  Checks = {}
  Ids = {i1, i2}
  Modes = {}
  MaxChanges = 2
  MaxFaults = 0
  NoUrn = NoUrn
  NoId = NoId
  NoRow = NoRow
  NotListed = NotListed
SPECIFICATION FairSpec
PROPERTIES OnlyMatchedPruned
