\* A default window of two days against overrides of one and three; rows do not interact,
\* so one row; two workers.
SPECIFICATION CleanerSpec
CONSTANTS
  Tenant <- MCTenant
  Overrides <- MCOverrides
  Broken <- MCBroken
  DefaultDays = 2
  MaxDay = 4
  MaxRows = 1
  MaxLives = 2
CHECK_DEADLOCK FALSE
PROPERTIES
  OnlyExpiredIsPurged
  ExpiredIsPurged
