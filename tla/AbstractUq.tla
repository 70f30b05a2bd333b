---------------------------- MODULE AbstractUq ----------------------------
(***************************************************************************)
(* What the queue of unexpected notifications promises: a removal finds    *)
(* the oldest entry that matches, whatever was removed from the middle     *)
(* before.  NotifUq.tla is shown to implement it; Notification.tla uses it *)
(* as a sequence.                                                          *)
(***************************************************************************)
EXTENDS Naturals, Sequences, SequencesExt

CONSTANTS
  Notif,    \* what a program can push
  Pattern,  \* what it can look for
  Fits(_, _),
  NoMatch

VARIABLES
  queue,  \* oldest first
  found   \* what the last removal returned

vars == <<queue, found>>

Init == queue = << >> /\ found = NoMatch

Push(n) == queue' = Append(queue, n) /\ UNCHANGED found

TakeOldest(w) ==
  LET fit == {i \in DOMAIN queue : Fits(w, queue[i])} IN
  IF fit = {} THEN found' = NoMatch /\ UNCHANGED queue
  ELSE \E i \in fit : /\ \A j \in fit : i <= j
                      /\ found' = queue[i]
                      /\ queue' = RemoveAt(queue, i)

Next == (\E n \in Notif : Push(n)) \/ (\E w \in Pattern : TakeOldest(w))

Spec == Init /\ [][Next]_vars
===========================================================================
