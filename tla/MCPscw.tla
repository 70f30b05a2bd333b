------------------------------ MODULE MCPscw ------------------------------
(* Pscw on small instances: a and b share a node, c is on another.         *)
EXTENDS Pscw

CONSTANTS a, b, c

MCNodeOf == [p \in Proc |-> IF p = c THEN 2 ELSE 1]

\* b is a target on its node and across, and an origin across
MCEdges == {<<a, b>>, <<c, b>>, <<b, c>>}
===========================================================================
