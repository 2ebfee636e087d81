SPECIFICATION Spec
CONSTANTS
  Labels = {a, b}
  MaxSeries = 3
  Step = 2
  Window = 2
  MaxTime = 4
INVARIANTS
  TypeOK
  RemapSound
  NoDuplicates
  AlarmIsTrue
CHECK_DEADLOCK FALSE
