CONSTANTS
  p1 = p1
  p2 = p2
  p3 = p3
  r1 = r1
  r2 = r2
  h1 = h1
  h2 = h2
  NoTarget = NoTarget
  Proc = {p1, p2, p3}
  Target = {r1}
  Handle = {h1}
  Half = 8
  MaxHeld = 1
  MaxNbi = 1
SPECIFICATION FairSpec
INVARIANT MutualExclusion
PROPERTIES
  NoBarging
  SharedServed
  AllServed
