SPECIFICATION Spec
CONSTANTS
  Files = {f}
  NoFile = NoFile
  Garbage = Garbage
  InitialSizes = {5}
  MaxSize = 5
  DefaultCapacity = 4
  Capacities = {4}
  SeekChunk = 2
  NearEnd = 2
  Counts = {2}
  Targets = {}
  TornBound = 0
INVARIANTS
  EofPassedAfterAShortRead
