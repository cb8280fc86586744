SPECIFICATION Spec
CONSTANTS
  Workers = {w1}
  Keys = {k1}
  NoWorker = NoWorker
  NoKey = NoKey
  Lost = Lost
  Datasets = {d1}
  Items = {i1}
  Kinds = {column}
  DatasetOf <- MCDatasetOf
  KindOf <- MCKindOf
  Reviewers = {v1}
  Confs <- ConfsOne
  Boundaries <- BoundariesAll
  MaxCandidates = 2
  Dry = {FALSE}
PROPERTIES ApprovedKept
