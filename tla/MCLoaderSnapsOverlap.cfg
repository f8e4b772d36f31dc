SPECIFICATION Spec
CONSTANTS
  A = A
  B = B
  C = C
  heap = heap
  snaps = snaps
  Instances <- MCPair
  Bits <- MCBits
  Snaps = snaps
INVARIANTS
  Restores
