\* Three candidates; only the second one's adapter has a deadline of its own.
SPECIFICATION Spec
CONSTANTS
  N = 3
  MaxData = 2
  Timed = {2}
INVARIANTS
  VerdictPerAttempt
  AbandonedCancelled
  CompleteMeansAll
PROPERTIES
  ImplementsContract
  HandlerReturns
  ReadersReleased
