SPECIFICATION Spec
CONSTANTS
  A = A
  B = B
  C = C
  heap = heap
  snaps = snaps
  Instances <- MCInstances
  Bits <- MCBits
  Snaps = snaps
SYMMETRY Symmetry
INVARIANTS
  OriginalOrFlagged
  SerialRestore
