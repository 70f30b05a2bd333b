SPECIFICATION Spec
CONSTANTS
  n1 = n1  n2 = n2  n3 = n3
  a = a  b = b  c = c
  owner = owner  p = p  q = q
  Proc = {owner, p}
  Owner = owner
  Node = {n1, n2, n3}
  NULL = NULL
  Region = {a, b, c}
  MaxId = 5
  Unknown = TRUE
SYMMETRY Symmetry
INVARIANTS OneInside ReadsRegistered CopyFresh ListWhole
PROPERTY AccessCurrent
CHECK_DEADLOCK FALSE
