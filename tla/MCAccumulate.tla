--------------------------- MODULE MCAccumulate ---------------------------
(* Accumulate on small instances.                                          *)
EXTENDS Accumulate, TLC

CONSTANTS p1, p2, p3

MCOperand == [p \in Proc |-> IF p = p1 THEN 1 ELSE 2]

K(c, t, o) == [call |-> c, type |-> t, op |-> o]

\* the ways meet the reads; every call that computes under the mutex meets
\* itself and another one; in a dynamic window the first mix goes two ways
\* and loses updates
MCMixes == {
  {K("accumulate", "int64", "sum"), K("get_accumulate", "int64", "sum")},
  {K("accumulate", "derived64", "sum"), K("fetch_and_op", "int64", "sum")},
  {K("accumulate", "double", "replace"), K("get_accumulate", "double", "no_op")},
  {K("accumulate", "int64", "bor")},
  {K("fetch_and_op", "offset", "sum"), K("fetch_and_op", "offset", "no_op")},
  {K("get_accumulate", "int32", "replace"), K("fetch_and_op", "int32", "replace")},
  {K("compare_and_swap", "int64", "cas")},
  {K("compare_and_swap", "int32", "cas"), K("fetch_and_op", "int32", "no_op")}}
===========================================================================
