---------------------------- MODULE MCLifecycle ----------------------------
(* Lifecycle on small instances: three processes on two nodes.             *)
EXTENDS Lifecycle

S(flavors, sized, up, nodes) ==
  [flavors |-> flavors, sized |-> sized, up |-> up, nodes |-> nodes]

Neighbours == {<<0, 1>>, <<2>>}
Apart == {<<2, 0>>, <<1>>}

MCScenarios == {
  S(<<"create", "dynamic">>, {0, 1, 2}, {}, Neighbours),
  S(<<"allocate", "create">>, {1, 2}, {"mpi"}, Apart),
  S(<<"dynamic", "allocate">>, {0, 2}, {"mpi", "dmapp"}, Apart)}
===========================================================================
