SPECIFICATION Spec
CONSTANTS
  buy = buy
  sell = sell
  owns = owns
  s1 = s1
  s2 = s2
  s3 = s3
  Workers = {w1}
  Keys = {k1}
  NoWorker = NoWorker
  NoKey = NoKey
  Lost = Lost
  NodeNames = {buy}
  EdgeLabels = {owns}
  Slugs = {s1, s3}
  SlugOf <- OwnSlugs
  LongSlugs = {}
  Datasets = {}
  Reviewers = {v1, v2}
  MaxSuffix = 0
  MaxProposals = 2
  MaxTriples = 1
  MaxStarted = 5
  NoId = NoId
  NoTerm = NoTerm
  Dry = {TRUE, FALSE}
  Switches = {TRUE}
SYMMETRY Symmetry
INVARIANTS OntogenTypeOK TriplePartsEndorsed
PROPERTIES VerdictsStand LlmApprovedIsVetted
