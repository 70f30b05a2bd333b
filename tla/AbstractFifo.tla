--------------------------- MODULE AbstractFifo ---------------------------
(***************************************************************************)
(* What a notification queue promises: what is sent is received once and   *)
(* in the order it was sent, and nothing else is.  XpmemQueue.tla is shown *)
(* to implement it.                                                        *)
(***************************************************************************)
EXTENDS Sequences

CONSTANTS
  Message,
  NoMessage  \* nothing received yet

VARIABLES
  chan,  \* sent and not received
  last   \* the message received last

vars == <<chan, last>>

TypeOK == chan \in Seq(Message) /\ last \in Message \cup {NoMessage}

Init == chan = << >> /\ last = NoMessage

Send(m) == chan' = Append(chan, m) /\ UNCHANGED last

Receive ==
  /\ chan # << >>
  /\ last' = Head(chan)
  /\ chan' = Tail(chan)

Next == Receive \/ \E m \in Message : Send(m)

Spec == Init /\ [][Next]_vars
===========================================================================
