SPECIFICATION NotifSpec
CONSTANTS
  near = near  far = far  x = x  y = y
  Source = {near, far}
  OnNode = {near}
  Tag = {x, y}
  AnySource = AnySource  AnyTag = AnyTag
  Dynamic = FALSE
  NRequest = 3
  Want <- MCWant
  MaxSend = 2
INVARIANTS CountedOnce
PROPERTIES OldestFirst FalseMeansMissing
