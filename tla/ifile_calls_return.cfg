SPECIFICATION FairSpec
CONSTANTS
  Files = {f}
  NoFile = NoFile
  Garbage = Garbage
  InitialSizes = {2}
  MaxSize = 3
  DefaultCapacity = 2
  Capacities = {3}
  SeekChunk = 1
  NearEnd = 0
  Counts = {1, 3}
  Targets = {0, 3}
  TornBound = 0
PROPERTY
  CallsReturn
