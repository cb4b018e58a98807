SPECIFICATION Spec
CONSTANTS
  Ins = {i1, i2}
  Outs = {o1, o2}
  Names = {f1, f2}
  Terminal = Terminal
  Nobody = Nobody
  Gone = Gone
  NoBuffer = NoBuffer
  Stale = Stale
  Capacity = 2
  LastFd = 4
  Inherited <- MCInherited
  MaxAlive = 3
SYMMETRY MCSymmetry
CHECK_DEADLOCK FALSE
INVARIANTS
  HandlesTypeOK
  OneOwner
  HandlesAreTheirOwn
  NothingLeaks
  BytesReachTheirFile
  UnreadBytesAreItsOwn
  EndsForAReason
