SPECIFICATION FairSpec
CONSTANTS
  OntogenPayloads <- MCOntogenPayloads
  MetagenPayloads <- MCMetagenPayloads
  Approved <- MCApproved
  BadSlugs = {"bad"}
  InScope = {"d"}
  Allowed = {"column.description"}
  Fields = {"f", "g", "h"}
  MaxIterations = 2
  MaxTurns = 6
INVARIANTS DebateTypeOK StoredWasAgreed
PROPERTIES Negotiates DebateEnds
CHECK_DEADLOCK FALSE
