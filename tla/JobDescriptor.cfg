SPECIFICATION Spec
CONSTANTS
  ShortPrompt = 2
  LargePrompt = 5
  Requests <- MCRequests
  Follow <- FollowPhrase
  Sizes <- MCSizes
  MaxPhrases = 3
CHECK_DEADLOCK FALSE
INVARIANTS
  SharedHasNoRiskyFeature
  HintsOnlyRaise
  SensitivitiesAgree
  StakesInContextAreHigh
PROPERTIES
  RiskDropsOnlyByIntent
