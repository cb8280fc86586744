SPECIFICATION EvidenceSpec
CONSTANTS
  managed = managed  wrapper = wrapper  custom = custom  passive = passive
  Sources = {managed, wrapper, custom, passive}
  Datasets = {d1}
  Requests = {q1}
  RequestOf <- MCRequestOf
  Parent <- MCParent
  Mode <- MCMode
  Mapped <- MCMapped
  Passes = {p1, p2}
  Skew = 0
  OpLimit = 1
  MaxTime = 2
  MaxChanges = 3
  NoSource = NoSource  NoDataset = NoDataset  NoRequest = NoRequest
SYMMETRY Symmetric
INVARIANTS
  EvidenceIsReported
  BookedOnceApart
CHECK_DEADLOCK FALSE
