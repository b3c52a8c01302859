SPECIFICATION Spec
CONSTANTS
  Model <- MCModel
  Provider <- MCProvider
  Cap <- MCCap
  ProviderOf <- MCProviderOf
  NameAtProvider <- MCNameAtProvider
  TierOf <- MCTierOf
  CapsOf <- MCCapsOf
  LatencyOf <- MCLatencyOf
  Selectable <- MCSelectable
  Rule <- MCRule
  Job <- MCJob
  MaxRules = 2
CHECK_DEADLOCK FALSE
INVARIANT ConstraintsBeatOverrides
