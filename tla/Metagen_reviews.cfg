SPECIFICATION Spec
CONSTANTS
  Workers = {w1}
  Keys = {k1}
  NoWorker = NoWorker
  NoKey = NoKey
  Lost = Lost
  Datasets = {d1}
  Items = {i1, i2}
  Kinds = {column}
  DatasetOf <- MCDatasetOf
  KindOf <- MCKindOf
  Reviewers = {v1, v2}
  Confs <- ConfsEvict
  Boundaries <- BoundariesAll
  MaxCandidates = 2
  Dry = {FALSE}
SYMMETRY Symmetry
INVARIANTS OneApproved DataHubFollowsReview
