\* The same instance as SpendPersistence.cfg.
SPECIFICATION Spec
CONSTANTS
  Event = {e1}
  Size = 1
  Inode = {i1, i2, i3}
  MaxLives = 3
SYMMETRY Interchangeable
CHECK_DEADLOCK FALSE
PROPERTIES
  SavingsSurviveRestarts
