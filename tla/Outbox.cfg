\* Two workers drain the table, with failing publishes and ticks.
SPECIFICATION FairSpec
CONSTANTS
  Workers = {w1, w2}
  BatchSize = 2
  MaxRows = 4
  MaxFaults = 1
INVARIANTS DispatchedIsPublished OvertakingIsBounded
PROPERTIES DispatchedIsOver EveryEventDispatched IsStream
CHECK_DEADLOCK FALSE
