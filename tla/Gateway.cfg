SPECIFICATION Spec
CONSTANTS
  Tenant = {"t"}
  Project = {"p"}
  NoProject = ""
  Cap <- MCCap
  None = None
  TTL = 1
  MaxEntries = 1
  Slot = {s1, s2}
  Input <- MCInput
  Version = {"v1", "v2"}
  Blocking = {"v2"}
  Pinning = {}
  MaxCost = 1
  Estimate = {1}
  Size = 1
  MaxRequests = 5
SYMMETRY SlotSymmetry
INVARIANTS
  DecisionIsOwn
  CacheBypassesNoBlock
  OverBudgetIsCheap
  OverspendBounded
