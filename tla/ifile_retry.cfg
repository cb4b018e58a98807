SPECIFICATION Spec
CONSTANTS
  Files = {f}
  NoFile = NoFile
  Garbage = Garbage
  InitialSizes = {3}
  MaxSize = 3
  DefaultCapacity = 2
  Capacities = {3}
  SeekChunk = 1
  NearEnd = 2
  Counts = {1, 3}
  Targets = {0, 2}
  TornBound = 3
INVARIANTS
  TypeOK
PROPERTY
  ImplementsByteStream
