--------------------------- MODULE MCLocalState ----------------------------
(* LocalState on small instances.                                         *)
EXTENDS LocalState, TLC

CONSTANTS n1, n2, n3, s1, s2, t1, t2, h1, h2, w1, w2, r1, r2, r3

byte == Named(1)
short == Named(2)
int == Named(4)

(* Types of 4 and 2 bytes, chosen for the paths of the constructors: what  *)
(* is coalesced, what is left out, what becomes a contig, a vector, a      *)
(* list of blocks, and what is flattened; gaps, order that is not          *)
(* ascending, extents larger and smaller than the data, explicit bounds.   *)
Shapes == {
  Contiguous(2, short), Vector(2, 1, 2, short), Vector(2, 1, -2, short),
  Hvector(2, 2, 5, byte), Vector(2, 1, 2, Vector(2, 1, 2, byte)),
  IndexedBlock(1, <<3, 0>>, short), IndexedBlock(1, <<1, 2>>, short),
  IndexedBlock(2, <<0, 5>>, byte), IndexedBlock(1, <<0, 3, 6, 9>>, byte),
  Indexed(<<0, 1, 1, 0>>, <<9, 2, 0, 1>>, short), Indexed(<<0, 2>>, <<0, 1>>, short),
  Indexed(<<2, 1, 1>>, <<0, 2, 7>>, byte), Indexed(<<1, 3>>, <<0, 2>>, byte),
  Hindexed(<<1, 0, 3>>, <<5, 0, 0>>, byte),
  Struct(<<1, 2>>, <<0, 2>>, <<short, byte>>),
  Struct(<<1, 1>>, <<0, 6>>, <<Vector(2, 1, 2, byte), short>>),
  Struct(<<1, 0, 1>>, <<4, 9, 0>>, [i \in 1 .. 3 |-> Contiguous(2, byte)]),
  Struct(<<1, 1, 1>>, <<-1, 0, 8>>, <<LbMarker, short, UbMarker>>),
  Resized(0, 8, Vector(2, 1, 2, short)), Resized(0, 2, Vector(2, 1, 4, short)),
  Contiguous(2, Resized(0, 4, short)), Dup(Vector(2, 1, 2, short)), Dup(short),
  Subarray(<<3, 2>>, <<2, 2>>, <<0, 0>>, byte),
  Subarray(<<2, 2, 2>>, <<1, 2, 2>>, <<1, 0, 0>>, byte), Subarray(<<4>>, <<2>>, <<1>>, short)}

MCCreates == (h1 :> Shapes) @@ (h2 :> {Indexed(<<1, 1>>, <<0, 2>>, byte)})

MCCounts == (h1 :> {1, 2}) @@ (h2 :> {2}) @@ (Byte :> {4})

Region(base, size) == [base |-> base, size |-> size]
MCWindows == {
  [dynamic |-> FALSE, regions |-> <<Region(-20, 60)>>],
  [dynamic |-> TRUE, regions |-> <<Region(3, 40), Region(0, 3)>>]}

Symmetry == Permutations(Node)
===========================================================================
