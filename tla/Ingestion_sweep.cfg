CONSTANTS
  d1 = d1
  d2 = d2
  g1 = g1
  u1 = u1
  w1 = w1
  i1 = i1
  Datasets = {d1, d2}
  Ghosts = {g1}
  Regular = {u1}
  Wrappers = {w1}
  ParentUrn <- MCParentUrn
  Recipes <- MCRecipes
  Estate <- MCEstate
  FirstRows <- MCFirstRows
  Sweeps = {s1}
  Runs = {r1}
  Checks = {c1}
  Ids = {i1, i2, i3, i4, i5}
  Modes <- MCModes
  MaxChanges = 2
  MaxFaults = 1
  NoUrn = NoUrn
  NoId = NoId
  NoRow = NoRow
  NotListed = NotListed
SPECIFICATION FairSpec
INVARIANTS IngestionTypeOK OwnersAreRegular
PROPERTIES LinksOnlyStrengthen RegistryNotEmptied MirrorConverges
