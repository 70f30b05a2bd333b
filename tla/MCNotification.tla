-------------------------- MODULE MCNotification --------------------------
(* Notification on small instances: near is on the owner's node, far not.  *)
EXTENDS Notification

CONSTANTS near, far, x, y

\* two of one tag from anywhere; one of any tag from the node; one of the other
\* tag from afar
MCWant == [r \in Requests |->
  CASE r = 0 -> [source |-> AnySource, tag |-> x, count |-> 2]
    [] r = 1 -> [source |-> near, tag |-> AnyTag, count |-> 1]
    [] r = 2 -> [source |-> far, tag |-> y, count |-> 1]]
===========================================================================
