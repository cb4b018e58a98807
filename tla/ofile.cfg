SPECIFICATION FairSpec
CHECK_DEADLOCK FALSE
CONSTANTS
  Hole = Hole
  Foreign = Foreign
  Garbage = Garbage
  MaxSize = 3
  DefaultCapacity = 2
  Capacities = {1}
  Counts = {0, 2, 3}
  Targets <- MCTargets
  MaxBytes = 4
INVARIANTS
  TypeOK
  RoomForTheByte
PROPERTIES
  ImplementsWriteBehind
  CallsReturn
