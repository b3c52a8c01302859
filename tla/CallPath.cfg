SPECIFICATION Spec
CONSTANTS
  Requests <- SomeRequests
  Processors = 2
  PromptRules <- OneRule
  MaxRetries = 1
  Replies <- SomeReplies
CHECK_DEADLOCK FALSE
INVARIANTS
  SentCarriesAppliedEdits
  LateWorkIsDropped
  PipelineFailsOpen
  OneOrphanAttempt
PROPERTIES
  RequestAnswered
  NoGoroutineLeaks
