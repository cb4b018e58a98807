SPECIFICATION Spec
CHECK_DEADLOCK FALSE
CONSTANTS
  Files = {f}
  NoFile = NoFile
  Garbage = Garbage
  InitialSizes = {0, 5}
  MaxSize = 5
  DefaultCapacity = 4
  Capacities = {0, 3}
  SeekChunk = 2
  NearEnd = 2
  Counts = {0, 2, 5}
  Targets <- MCTargets
  TornBound = 0
INVARIANTS
  TypeOK
  Coherent
  EofIsBackedByARead
  ShortReadsMeetTheEnd
  WholeReadsAreComplete
  NoAssertionFails
  FillFitsBuffer
PROPERTY
  ImplementsByteStream
