CONSTANTS
  p1 = p1
  p2 = p2
  p3 = p3
  NoMessage = NoMessage
  Pusher = {p1, p2}
  Capacity = 1
  Credit = 2
  MaxPush = 1
  TailMax = 3
SPECIFICATION Spec
INVARIANTS
  CountBounded
