CONSTANTS
  p1 = p1
  p2 = p2
  p3 = p3
  Proc = {p1, p2}
  Loc = {1, 2}
  Modulus = 4
  Operand <- MCOperand
  DispUnit = 8
  Compare = {0, 1}
  Mixes <- MCMixes
  NoValue = NoValue
SPECIFICATION FairSpec
INVARIANTS
  MutexAccounted
PROPERTIES
  ImplementsAtomics
  UpdatesReturn
