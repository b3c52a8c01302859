\* One event a life, three lives, and either way for a life to end.
SPECIFICATION Spec
CONSTANTS
  Event = {e1}
  Size = 1
  Inode = {i1, i2, i3}
  MaxLives = 3
SYMMETRY Interchangeable
CHECK_DEADLOCK FALSE
INVARIANTS
  TornOnlyByOverlap
  NothingInvented
PROPERTIES
  PersistedNeverShrinks
