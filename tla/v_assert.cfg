SPECIFICATION Spec
CONSTANTS
  Files = {f, g}
  NoFile = NoFile
  Garbage = Garbage
  InitialSizes = {0, 5}
  MaxSize = 5
  DefaultCapacity = 4
  Capacities = {4}
  SeekChunk = 2
  NearEnd = 2
  Counts = {2}
  Targets = {3}
  TornBound = 0
INVARIANTS
  NoAssertionFails
