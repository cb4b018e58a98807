SPECIFICATION TextFairSpec
CONSTANTS
  Files = {f}
  NoFile = NoFile
  Garbage = Garbage
  InitialSizes = {0, 2, 3, 9, 11, 12}
  MaxGrowth = 1
  MaxSize = 12
  DefaultCapacity = 8
  Capacities = {}
  SeekChunk = 4
  NearEnd = 2
  Counts = {}
  Targets = {0}
  TornBound = 0
  Texts <- MCTexts
  Delims = {10, 97}
  Signatures <- MCSignatures
INVARIANTS
  TextTypeOK
  LineIsNext
  TextIsWhole
  LinesFailOnlyAtTheEnd
  ReaeTellsTheEnd
  CharsAreExact
  StartsWithIsExact
  TextAssertionsHold
PROPERTY
  TextCallsReturn
