SPECIFICATION Spec
CONSTANTS
  a = a
  A = A
  b = b
  c = c
  d = d
  p = p
  P = P
  q = q
  r = r
  None = None
  Clsids = {a, A, b, c, d}
  Progids = {p, P, q, r}
  Starts = {a, p}
  Upper <- MCUpper
  MAX_CHAIN_HOPS = 2
INVARIANTS
  TypeOK
  AnswerIsMergedView
  ResultFits
PROPERTIES
  LookupProgresses
SYMMETRY Symmetry
