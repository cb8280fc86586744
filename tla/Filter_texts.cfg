SPECIFICATION TextSpec
CONSTANTS
  Literals = {"l1", "l2"}
  Null = Null
  Names = {"name"}
  Samples <- MCSamples
  Strays <- MCStrays
  MaxEdits = 1
INVARIANTS
  ParserFollowsGrammar
  FormatKeepsMeaning
  ScopeIsDefinite
CHECK_DEADLOCK FALSE
