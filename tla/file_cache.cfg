SPECIFICATION Spec
CONSTANTS
  Worker = {w1, w2}
  File = {f1, f2, f3, f4}
  Copy = {c1, c2, c3, c4, c5}
  NoCopy = NoCopy
  MaxCachedFiles = 2
SYMMETRY Symmetry
INVARIANTS
  TypeOK
  EveryFileEvictable
  ResidentBound
  MemoryBound
