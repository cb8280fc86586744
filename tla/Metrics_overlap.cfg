SPECIFICATION Spec
CONSTANTS
  managed = managed  wrapper = wrapper  custom = custom  passive = passive
  d1 = d1
  Sources = {managed, wrapper, custom, passive}
  Datasets = {d1}
  Requests = {q1}
  RequestOf <- MCRequestOf
  Parent <- MCParent
  Mode <- MCMode
  Mapped <- MCMapped
  Starts <- MCStarts
  Filters <- MCFilters
  Types = {"ingestion-freshness", "validation-score", "doc-health"}
  Skew = 0
  Window = 1
  Ahead = 1
  Tiers = {"daily"}
  Passes = {p1}
  OpLimit = 1
  Lags = {1}
  MaxTime = 2
  MaxChanges = 2
  Workers = {w1, w2}
  Keys = {m1}
  Clients = {c1}
  NoWorker = NoWorker  NoKey = NoKey  Lost = Lost
  NoSource = NoSource  NoDataset = NoDataset  NoRequest = NoRequest
  NoTier = NoTier  NoMetric = NoMetric  NoConf = NoConf  NoResult = NoResult  NoVerdict = NoVerdict
INVARIANTS NeverOfDifferentRuns
CHECK_DEADLOCK FALSE
