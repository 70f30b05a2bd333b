SPECIFICATION SpecAll
CONSTANTS
  n1 = n1  n2 = n2  n3 = n3
  s1 = s1  s2 = s2  t1 = t1  t2 = t2
  Node = {n1, n2, n3}
  NULL = NULL
  Source = {s1, s2}
  Tag = {t1, t2}
  Wild = Wild
  NoMatch = NoMatch
  h1 = h1  h2 = h2
  Handle = {h1, h2}
  Byte = Byte
  Null = Null
  Creates <- MCCreates
  Counts <- MCCounts
  Windows <- MCWindows
  Slots = 2
  w1 = w1  w2 = w2
  r1 = r1  r2 = r2  r3 = r3 
  Window = {w1, w2}
  Request = {r1, r2, r3}
  First = 2
  Growth = 2
  NullObject = NullObject
SYMMETRY Symmetry
INVARIANTS
  WellLinked
  TransfersRight
  HandlesDistinct
PROPERTY ImplementsUq
