CONSTANTS
  p1 = p1
  p2 = p2
  p3 = p3
  r1 = r1
  r2 = r2
  h1 = h1
  h2 = h2
  NoTarget = NoTarget
  Proc = {p1, p2}
  Target = {r1, r2}
  Handle = {h1, h2}
  Half = 8
  MaxHeld = 2
  MaxNbi = 2
SPECIFICATION Spec
SYMMETRY Symmetry
INVARIANTS
  WordsAccounted
  CountMatchesList
  PutsCovered
PROPERTY ImplementsLocks
