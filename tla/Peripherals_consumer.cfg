SPECIFICATION FairSpec
CONSTANTS
  Bodies <- MCBodies
  Starts <- MCStarts
  Requests = {1, 2}
  MskBrokers = {"msk"}
  MaxEvents = 2
  MaxFaults = 2
INVARIANT CommittedWasDispatched
PROPERTIES ConsumerConverges OkNeedsEvidence
CHECK_DEADLOCK FALSE
