CONSTANTS
  p1 = p1
  p2 = p2
  p3 = p3
  NoMessage = NoMessage
  Pusher = {p1, p2, p3}
  Capacity = 2
  Credit = 3
  MaxPush = 2
  TailMax = 5
SPECIFICATION FairSpec
INVARIANTS
  OnePusher
PROPERTIES
  ImplementsFifo
  PushReturns
