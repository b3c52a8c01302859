\* Two slots in the channel, three requests with up to three events each, two rows.
SPECIFICATION RecordsSpec
CONSTANTS
  r1 = r1
  r2 = r2
  r3 = r3
  Request <- MCRequest
  Id <- MCId
  Compared <- MCCompared
  Outcome <- MCOutcome
  Event <- AllEvents
  Poison <- MCPoison
  Size = 2
  Limit = 2
CHECK_DEADLOCK FALSE
INVARIANTS
  DrainKeepsPromise
  RowsTellTheSuccess
  RecordsAreNewest
PROPERTIES
  ImplementsFifo
  AcceptedIsHandled
