----------------------------- MODULE Datatypes -----------------------------
(***************************************************************************)
(* How MPITypes (src/mpitypes) turns an MPI datatype into contiguous       *)
(* blocks: a tree of dataloops is built from the constructor calls         *)
(* (dataloop_create*.c), with sizes and extents computed on the way        *)
(* (typesize_support.c); a segment walks the tree (segment.c) and calls a  *)
(* function at each leaf that counts (segment_count.c) or lists            *)
(* (segment_flatten.c) the blocks.  foMPI always passes the flag 0, which  *)
(* is HOMOGENEOUS: loops of kind struct are never made.                    *)
(*                                                                         *)
(* The second part is what MPI says: the type map, byte by byte.           *)
(***************************************************************************)
EXTENDS Integers, Sequences, SequencesExt, FiniteSetsExt

\* MPI datatypes: the constructor and its arguments
Named(size) == [c |-> "named", size |-> size, marker |-> "none"]
LbMarker == [c |-> "named", size |-> 0, marker |-> "lb"]
UbMarker == [c |-> "named", size |-> 0, marker |-> "ub"]
Dup(t) == [c |-> "dup", of |-> t]
Resized(lb, extent, t) == [c |-> "resized", lb |-> lb, extent |-> extent, of |-> t]
Contiguous(n, t) == [c |-> "contiguous", n |-> n, of |-> t]
Vector(n, len, stride, t) ==
  [c |-> "vector", n |-> n, len |-> len, stride |-> stride, of |-> t]
Hvector(n, len, stride, t) ==
  [c |-> "hvector", n |-> n, len |-> len, stride |-> stride, of |-> t]
IndexedBlock(len, disps, t) ==
  [c |-> "indexed_block", len |-> len, disps |-> disps, of |-> t]
Indexed(lens, disps, t) == [c |-> "indexed", lens |-> lens, disps |-> disps, of |-> t]
Hindexed(lens, disps, t) == [c |-> "hindexed", lens |-> lens, disps |-> disps, of |-> t]
Struct(lens, disps, types) ==
  [c |-> "struct", lens |-> lens, disps |-> disps, types |-> types]
Subarray(sizes, subsizes, starts, t) ==  \* dimension 1 changes fastest
  [c |-> "subarray", sizes |-> sizes, subsizes |-> subsizes, starts |-> starts, of |-> t]

SumOf(s) == FoldLeft(LAMBDA a, b : a + b, 0, s)
ProductOf(s) == FoldLeft(LAMBDA a, b : a * b, 1, s)
Least(a, b) == IF a <= b THEN a ELSE b

---------------------------------------------------------------------------
(* Subarrays become a vector, hvectors around it and a struct that places  *)
(* them between explicit bounds.                                           *)
RECURSIVE Footprint(_)

ConvertSubarray(t) ==
  LET extent == Footprint(t.of).extent
      below(i) == ProductOf(SubSeq(t.sizes, 1, i - 1))
      plane == IF Len(t.sizes) = 1 THEN Contiguous(t.subsizes[1], t.of)
               ELSE Vector(t.subsizes[2], t.subsizes[1], t.sizes[1], t.of)
      body == FoldLeft(LAMBDA b, i : Hvector(t.subsizes[i], 1, below(i) * extent, b),
                       plane, [i \in 1 .. Len(t.sizes) - 2 |-> i + 2])
      at == SumOf([i \in 1 .. Len(t.sizes) |-> below(i) * t.starts[i]])
  IN Struct(<<1, 1, 1>>, <<0, at * extent, ProductOf(t.sizes) * extent>>,
            <<LbMarker, body, UbMarker>>)

(* Size, bounds, extent and alignment.  A footprint's true bounds are      *)
(* left out: nothing on the path of a transfer reads them.                 *)
Foot(size, lb, ub, align, stickyLb, stickyUb) ==
  [size |-> size, lb |-> lb, ub |-> ub, extent |-> ub - lb, align |-> align,
   stickyLb |-> stickyLb, stickyUb |-> stickyUb]
NoData == Foot(0, 0, 0, 0, FALSE, FALSE)

\* BLOCK_LB_UB: n copies of f from disp on
BlockBounds(n, disp, f) ==
  LET more == IF n = 0 THEN 0 ELSE f.extent * (n - 1)
  IN IF f.ub >= f.lb THEN <<f.lb + disp, f.ub + disp + more>>
     ELSE <<f.lb + disp + more, f.ub + disp>>

\* VECTOR_LB_UB
VectorBounds(n, stride, len, f) ==
  LET blocks == stride * (n - 1)
      block == f.extent * (len - 1)
      Low(x) == IF x < 0 THEN x ELSE 0
      High(x) == IF x >= 0 THEN x ELSE 0
  IN IF n = 0 \/ len = 0 THEN <<f.lb, f.ub>>
     ELSE <<f.lb + Low(blocks) + Low(block), f.ub + High(blocks) + High(block)>>

\* several blocks of one type: lens[i] of them at disps[i] bytes
BlocksFoot(lens, disps, f) ==
  LET used == {i \in 1 .. Len(lens) : lens[i] # 0}
      bounds(i) == BlockBounds(lens[i], disps[i], f)
  IN IF used = {} THEN NoData
     ELSE Foot(SumOf(lens) * f.size, Min({bounds(i)[1] : i \in used}),
               Max({bounds(i)[2] : i \in used}), f.align, f.stickyLb, f.stickyUb)

\* Type_calc_footprint_struct: explicit bounds win over the others, and a
\* struct without one is padded
StructFoot(lens, disps, types) ==
  LET used == {i \in 1 .. Len(lens) : lens[i] # 0}
      foot == [i \in used |-> Footprint(types[i])]
      bounds(i) == BlockBounds(lens[i], disps[i], foot[i])
      lbs == {i \in used : foot[i].stickyLb}
      ubs == {i \in used : foot[i].stickyUb}
      lb == Min({bounds(i)[1] : i \in IF lbs = {} THEN used ELSE lbs})
      ub == Max({bounds(i)[2] : i \in IF ubs = {} THEN used ELSE ubs})
      align == Max({foot[i].align : i \in used})
      over == IF align > 0 THEN (ub - lb) % align ELSE 0
      pad == IF lbs = {} /\ ubs = {} /\ over # 0 THEN align - over ELSE 0
  IN IF used = {} THEN NoData
     ELSE Foot(SumOf([i \in 1 .. Len(lens) |-> IF i \in used THEN lens[i] * foot[i].size
                                                             ELSE 0]),
               lb, ub + pad, align, lbs # {}, ubs # {})

Scaled(s, by) == [i \in 1 .. Len(s) |-> s[i] * by]
Same(n, len) == [i \in 1 .. n |-> len]

\* Type_calc_footprint
Footprint(t) ==
  CASE t.c = "named" -> Foot(t.size, 0, t.size, t.size, t.marker = "lb", t.marker = "ub")
    [] t.c = "dup" -> Footprint(t.of)
    [] t.c = "resized" ->
         LET f == Footprint(t.of)
         IN Foot(f.size, t.lb, t.lb + t.extent, f.align, TRUE, TRUE)
    [] t.c = "contiguous" -> BlocksFoot(<<t.n>>, <<0>>, Footprint(t.of))
    [] t.c \in {"vector", "hvector"} ->
         LET f == Footprint(t.of)
             b == VectorBounds(t.n, IF t.c = "vector" THEN t.stride * f.extent ELSE t.stride,
                               t.len, f)
         IN IF t.n = 0 THEN NoData
            ELSE Foot(t.n * t.len * f.size, b[1], b[2], f.align, f.stickyLb, f.stickyUb)
    [] t.c = "indexed_block" ->
         LET f == Footprint(t.of)
         IN BlocksFoot(Same(Len(t.disps), t.len), Scaled(t.disps, f.extent), f)
    [] t.c = "indexed" ->
         LET f == Footprint(t.of) IN BlocksFoot(t.lens, Scaled(t.disps, f.extent), f)
    [] t.c = "hindexed" -> BlocksFoot(t.lens, t.disps, Footprint(t.of))
    [] t.c = "struct" -> StructFoot(t.lens, t.disps, t.types)
    [] t.c = "subarray" -> Footprint(ConvertSubarray(t))

---------------------------------------------------------------------------
(* A dataloop: blocks of elements, each block at a byte offset.  The       *)
(* elements are basic (a final loop) or further loops.                     *)
NoLoop == <<>>
DataLoop(kind, blocks, size, extent, child) ==
  [kind |-> kind, blocks |-> blocks, size |-> size, extent |-> extent, child |-> child]
Block(at, len) == [at |-> at, len |-> len]
IsFinal(loop) == loop.child = NoLoop

(* What MPITypes keeps with a datatype.  Named types have no loop.         *)
RECURSIVE Built(_)
ByteType == [type |-> Named(1), foot |-> Footprint(Named(1)), loop |-> NoLoop]
HasLoop(b) == b.type.c # "named"

\* a loop over elements of type b
Over(kind, blocks, b) ==
  DataLoop(kind, blocks, b.foot.size, IF HasLoop(b) THEN b.foot.extent ELSE b.foot.size, b.loop)

EmptyLoop == DataLoop("contig", <<Block(0, 0)>>, 4, 4, NoLoop)

\* Dataloop_create_contiguous: contigs of contigs are coalesced
CreateContiguous(n, b) ==
  IF HasLoop(b) /\ b.loop.kind = "contig" /\ b.foot.size = b.foot.extent
  THEN [b.loop EXCEPT !.blocks[1].len = @ * n]
  ELSE Over("contig", <<Block(0, n)>>, b)

\* Dataloop_create_vector, with the stride in bytes
CreateVector(n, len, stride, b) ==
  IF n = 0 \/ len = 0 THEN EmptyLoop
  ELSE IF n = 1 THEN CreateContiguous(len, b)
  ELSE Over("vector", [i \in 1 .. n |-> Block((i - 1) * stride, len)], b)

\* Dataloop_create_blockindexed: as a contig, one block or a vector if it can
CreateBlockindexed(len, disps, b) ==
  LET n == Len(disps)
      extent == b.foot.extent
      adjacent == \A i \in 2 .. n : disps[i] = disps[i - 1] + len * extent
      regular == \A i \in 3 .. n : disps[i] - disps[i - 1] = disps[2] - disps[1]
  IN CASE n = 0 \/ len = 0 -> EmptyLoop
       [] n # 0 /\ len # 0 /\ adjacent ->
            IF disps[1] = 0 THEN CreateContiguous(n * len, b)
            ELSE Over("blockindexed", <<Block(disps[1], len * n)>>, b)
       [] n # 0 /\ len # 0 /\ ~adjacent ->
            IF disps[1] = 0 /\ regular THEN CreateVector(n, len, disps[2], b)
            ELSE Over("blockindexed", [i \in 1 .. n |-> Block(disps[i], len)], b)

\* Type_indexed_array_copy: empty blocks dropped, adjacent ones combined
Compact(lens, disps, extent) ==
  FoldLeft(LAMBDA out, i :
             IF lens[i] = 0 THEN out
             ELSE IF out # <<>> /\ Last(out).at + Last(out).len * extent = disps[i]
             THEN [out EXCEPT ![Len(out)].len = @ + lens[i]]
             ELSE Append(out, Block(disps[i], lens[i])),
           <<>>, [i \in 1 .. Len(lens) |-> i])

(* The displacements from entry "first" on, as the code finds them: the    *)
(* address of entry "first" is computed for 4-byte entries, and            *)
(* displacements in bytes are 8 bytes long.  HalfWord stands for 2^32.     *)
HalfWord == 65536
DispsFrom(disps, first, inBytes) ==
  LET half(j) == IF j % 2 = 0 THEN disps[j \div 2 + 1] % HalfWord
                              ELSE disps[j \div 2 + 1] \div HalfWord
  IN IF ~inBytes THEN SubSeq(disps, first, Len(disps))
     ELSE [i \in 1 .. Len(disps) - first + 1 |->
             half(first - 1 + 2 * (i - 1)) + HalfWord * half(first + 2 * (i - 1))]

\* Dataloop_create_indexed; displacements are given in bytes or in extents
CreateIndexed(lens, given, inBytes, b) ==
  LET extent == b.foot.extent
      disps == IF inBytes THEN given ELSE Scaled(given, extent)
      blocks == Compact(lens, disps, extent)
      first == SelectInSeq(lens, LAMBDA n : n # 0)
      found == LET d == DispsFrom(given, first, inBytes)
               IN IF inBytes THEN d ELSE Scaled(d, extent)
  IN CASE blocks = <<>> -> EmptyLoop
       [] Len(blocks) = 1 /\ disps[first] = 0 -> CreateContiguous(SumOf(lens), b)
       [] Len(blocks) = 1 /\ disps[first] # 0 ->
            CreateBlockindexed(SumOf(lens), <<found[1]>>, b)
       [] Len(blocks) > 1 ->
            IF \A i \in first .. Len(lens) : lens[i] = lens[first]
            THEN CreateBlockindexed(lens[first], found, b)
            ELSE Over("indexed", blocks, b)

---------------------------------------------------------------------------
(* Walking the tree (Segment_manipulate).  Every leaf is reached once for  *)
(* each element above it, and its blocks are handed over together.         *)
RECURSIVE Leaves(_, _)
Leaves(loop, at) ==
  IF IsFinal(loop)
  THEN <<[loop EXCEPT !.blocks = [i \in 1 .. Len(@) |-> Block(at + @[i].at, @[i].len)]]>>
  ELSE FlattenSeq([i \in 1 .. Len(loop.blocks) |->
         FlattenSeq([j \in 1 .. loop.blocks[i].len |->
           Leaves(loop.child, at + loop.blocks[i].at + (j - 1) * loop.extent)])])

\* Segment_init: the loop for n elements of type b
Segment(n, b) ==
  LET combined == IsFinal(b.loop) /\ b.loop.kind = "contig"
      f == b.foot
  IN CASE ~HasLoop(b) -> DataLoop("contig", <<Block(0, n)>>, f.size, f.size, NoLoop)
       [] HasLoop(b) /\ n = 0 -> [EmptyLoop EXCEPT !.size = 0, !.extent = 0]
       [] HasLoop(b) /\ n = 1 -> b.loop
       [] HasLoop(b) /\ n > 1 /\ combined ->
            IF f.size = f.extent THEN [b.loop EXCEPT !.blocks[1].len = @ * n]
            ELSE [b.loop EXCEPT !.kind = "vector",
                    !.blocks = [i \in 1 .. n |-> Block((i - 1) * f.extent, @[1].len)]]
       [] HasLoop(b) /\ n > 1 /\ ~combined ->
            DataLoop("contig", <<Block(0, n)>>, f.size, f.extent, b.loop)

IgnoreLast == -1

\* of n elements of a leaf, those that end by the last byte asked for
Within(s, leaf, n, last) ==
  IF last # IgnoreLast /\ s.stream + n * leaf.size > last
  THEN (last - s.stream) \div leaf.size ELSE n

\* a leaf of n elements was handled, as far as r says; less than all is the end
Advance(s, leaf, n, r) ==
  [result |-> r.result, stream |-> s.stream + r.took * leaf.size, stop |-> r.took < n]

\* the leaf functions of segment_count.c: blocks so far and where the last ends;
\* the blocks of an indexed leaf are known not to touch
BytesOf(leaf, i, n) == (IF leaf.kind = "contig" THEN n ELSE leaf.blocks[i].len) * leaf.size
NewBlocks(leaf, n) ==
  LET b == leaf.blocks
      joined == {i \in 2 .. Len(b) : b[i].at = b[i - 1].at + BytesOf(leaf, i - 1, n)}
  IN CASE leaf.kind \in {"contig", "indexed"} -> Len(b)
       [] leaf.kind = "vector" -> IF 2 \in joined THEN 1 ELSE Len(b)
       [] leaf.kind = "blockindexed" -> Len(b) - Cardinality(joined)

CountLeaf(c, leaf, n) ==
  LET b == leaf.blocks
      joins == c.blocks > 0 /\ b[1].at = c.end
  IN [took |-> n,
      result |-> [blocks |-> c.blocks + NewBlocks(leaf, n) - (IF joins THEN 1 ELSE 0),
                  end |-> Last(b).at + BytesOf(leaf, Len(b), n)]]

\* the leaf functions of segment_flatten.c: a block is added to a list of at
\* most limit, unless it goes on where the last ends
AddBlock(list, b, limit) ==
  IF list # <<>> /\ Last(list).at + Last(list).len = b.at
  THEN [list EXCEPT ![Len(list)].len = @ + b.len]
  ELSE IF Len(list) = limit THEN list ELSE Append(list, b)

FlattenLeaf(out, leaf, n, limit) ==
  LET Add(s, b) ==
        LET take == Least(s.left, b.len)
            list == AddBlock(s.list, Block(b.at, take * leaf.size), limit)
        IN IF s.full \/ s.left = 0 THEN s
           ELSE IF list = s.list THEN [s EXCEPT !.full = TRUE]
           ELSE [s EXCEPT !.left = @ - take, !.list = list]
      end == FoldLeft(Add, [list |-> out, left |-> n, full |-> FALSE], leaf.blocks)
  IN [took |-> n - end.left, result |-> end.list]

\* the function given to the walk, on n elements of a leaf: what it makes of
\* the result so far, and how many elements it took
CountPieces == [does |-> "count", limit |-> 0]
FlattenPieces(limit) == [does |-> "flatten", limit |-> limit]
Operate(piecefn, result, leaf, n) ==
  IF piecefn.does = "count" THEN CountLeaf(result, leaf, n)
  ELSE FlattenLeaf(result, leaf, n, piecefn.limit)

Manipulate(segment, last, piecefn, start) ==
  LET Elements(leaf) == SumOf([i \in 1 .. Len(leaf.blocks) |-> leaf.blocks[i].len])
      Step(s, leaf) ==
        LET n == Within(s, leaf, Elements(leaf), last)
        IN IF s.stop THEN s
           ELSE IF n = 0 THEN [s EXCEPT !.stop = TRUE]
           ELSE Advance(s, leaf, Elements(leaf), Operate(piecefn, s.result, leaf, n))
  IN IF last = 0 THEN start
     ELSE FoldLeft(Step, [result |-> start, stream |-> 0, stop |-> FALSE],
                   Leaves(segment, 0)).result

\* MPIT_Type_blockct and MPIT_Type_flatten
CountBlocks(n, b, last) ==
  Manipulate(Segment(n, b), last, CountPieces, [blocks |-> 0, end |-> 0]).blocks
FlattenBlocks(n, b, last, limit) ==
  Manipulate(Segment(n, b), last, FlattenPieces(limit), <<>>)

---------------------------------------------------------------------------
\* Dataloop_create_struct
IsMarker(t) == t.c = "named" /\ t.marker # "none"

\* create_unique_type_struct: every entry of the type, from the first in use on
UniqueStruct(lens, disps, types, first) ==
  LET same == SelectSeq([i \in 1 .. Len(lens) |-> i],
                        LAMBDA i : i >= first /\ types[i] = types[first])
  IN CreateIndexed([k \in 1 .. Len(same) |-> lens[same[k]]],
                   [k \in 1 .. Len(same) |-> disps[same[k]]], TRUE, types[first])

\* blocks of bytes
BytesLoop(blocks) ==
  CreateIndexed([k \in DOMAIN blocks |-> blocks[k].len], [k \in DOMAIN blocks |-> blocks[k].at],
                TRUE, ByteType)

\* create_basic_all_bytes_struct: the members in use, as bytes
BytesStruct(lens, disps, types, used) ==
  BytesLoop([k \in DOMAIN used |->
               Block(disps[used[k]], lens[used[k]] * types[used[k]].foot.size)])

\* create_flattened_struct: the members with data are counted, then flattened
\* one after the other into one list with two entries to spare
Shifted(blocks, by) == [j \in DOMAIN blocks |-> Block(blocks[j].at + by, blocks[j].len)]
FlattenedMembers(lens, disps, types, full, limit) ==
  FoldLeft(LAMBDA out, i :
             out \o Shifted(FlattenBlocks(lens[i], types[i], IgnoreLast, limit - Len(out)),
                            disps[i]),
           <<>>, full)
FlattenedStruct(lens, disps, types, used) ==
  LET full == SelectSeq(used, LAMBDA i : types[i].foot.size > 0)
      limit == 2 + SumOf([k \in DOMAIN full |->
                            CountBlocks(lens[full[k]], types[full[k]], IgnoreLast)])
  IN BytesLoop(FlattenedMembers(lens, disps, types, full, limit))

CreateStruct(lens, disps, types) ==
  LET used == SelectSeq([i \in 1 .. Len(lens) |-> i],
                        LAMBDA i : lens[i] # 0 /\ ~IsMarker(types[i].type))
      kinds == {types[used[k]] : k \in 1 .. Len(used)}
  IN CASE used = <<>> -> EmptyLoop
       [] Len(used) = 1 -> CreateBlockindexed(lens[used[1]], <<disps[used[1]]>>, types[used[1]])
       [] Len(used) > 1 /\ Cardinality(kinds) = 1 -> UniqueStruct(lens, disps, types, used[1])
       [] Cardinality(kinds) > 1 /\ ~\E b \in kinds : HasLoop(b) ->
            BytesStruct(lens, disps, types, used)
       [] Cardinality(kinds) > 1 /\ \E b \in kinds : HasLoop(b) ->
            FlattenedStruct(lens, disps, types, used)

\* Dataloop_create of t, a type made from b
Loop(t, b) ==
  CASE t.c = "named" -> NoLoop
    [] t.c = "dup" -> IF HasLoop(b) THEN b.loop ELSE CreateContiguous(1, b)
    [] t.c = "resized" ->
         IF HasLoop(b) THEN b.loop
         ELSE [CreateContiguous(1, b) EXCEPT !.extent = t.extent]
    [] t.c = "contiguous" -> IF t.n = 0 THEN EmptyLoop ELSE CreateContiguous(t.n, b)
    [] t.c = "vector" -> CreateVector(t.n, t.len, t.stride * b.foot.extent, b)
    [] t.c = "hvector" -> CreateVector(t.n, t.len, t.stride, b)
    [] t.c = "indexed_block" ->
         CreateBlockindexed(t.len, Scaled(t.disps, b.foot.extent), b)
    [] t.c = "indexed" -> CreateIndexed(t.lens, t.disps, FALSE, b)
    [] t.c = "hindexed" -> CreateIndexed(t.lens, t.disps, TRUE, b)
    [] t.c = "struct" ->
         CreateStruct(t.lens, t.disps, [i \in 1 .. Len(t.types) |-> Built(t.types[i])])
    [] t.c = "subarray" -> Built(ConvertSubarray(t)).loop

\* MPIT_Type_init
Built(t) == [type |-> t, foot |-> Footprint(t), loop |-> Loop(t, Built(t.of))]

---------------------------------------------------------------------------
(* The type map, as the MPI standard defines it: the displacement of every *)
(* byte in order, the explicit bounds, and the alignment.                  *)
Map(bytes, lbs, ubs, align) == [bytes |-> bytes, lbs |-> lbs, ubs |-> ubs, align |-> align]

Lower(m) == IF m.lbs # {} THEN Min(m.lbs) ELSE Min(Range(m.bytes))
Upper(m) ==
  LET end == Max(Range(m.bytes)) + 1
  IN IF m.ubs # {} THEN Max(m.ubs)
     ELSE end + ((- (end - Lower(m))) % m.align)
ExtentOf(m) == Upper(m) - Lower(m)

Moved(m, by) ==
  Map([i \in 1 .. Len(m.bytes) |-> m.bytes[i] + by],
      {b + by : b \in m.lbs}, {b + by : b \in m.ubs}, m.align)
Joined(maps) ==
  Map(FlattenSeq([i \in 1 .. Len(maps) |-> maps[i].bytes]),
      UNION {maps[i].lbs : i \in 1 .. Len(maps)}, UNION {maps[i].ubs : i \in 1 .. Len(maps)},
      Max({1} \cup {maps[i].align : i \in 1 .. Len(maps)}))
Copies(n, m) == Joined([i \in 1 .. n |-> Moved(m, (i - 1) * ExtentOf(m))])
Placed(lens, disps, maps) ==
  Joined([i \in 1 .. Len(lens) |-> Moved(Copies(lens[i], maps[i]), disps[i])])

RECURSIVE TypeMap(_)
TypeMap(t) ==
  LET m == TypeMap(t.of)
      all(x) == [i \in 1 .. Len(t.disps) |-> x]
  IN CASE t.c = "named" ->
            IF t.marker = "lb" THEN Map(<<>>, {0}, {}, 1)
            ELSE IF t.marker = "ub" THEN Map(<<>>, {}, {0}, 1)
            ELSE Map([i \in 1 .. t.size |-> i - 1], {}, {}, t.size)
       [] t.c = "dup" -> m
       [] t.c = "resized" -> Map(m.bytes, {t.lb}, {t.lb + t.extent}, m.align)
       [] t.c = "contiguous" -> Copies(t.n, m)
       [] t.c \in {"vector", "hvector"} ->
            Placed(Same(t.n, t.len),
                   [i \in 1 .. t.n |-> (i - 1) * t.stride *
                                       (IF t.c = "vector" THEN ExtentOf(m) ELSE 1)],
                   [i \in 1 .. t.n |-> m])
       [] t.c = "indexed_block" -> Placed(all(t.len), Scaled(t.disps, ExtentOf(m)), all(m))
       [] t.c = "indexed" -> Placed(t.lens, Scaled(t.disps, ExtentOf(m)), all(m))
       [] t.c = "hindexed" -> Placed(t.lens, t.disps, all(m))
       [] t.c = "struct" ->
            Joined([i \in 1 .. Len(t.lens) |->
              LET k == t.types[i]
              IN IF IsMarker(k) THEN Moved(TypeMap(k), t.disps[i])
                 ELSE Moved(Copies(t.lens[i], TypeMap(k)), t.disps[i])])
       [] t.c = "subarray" ->
            LET below(i) == ProductOf(SubSeq(t.sizes, 1, i - 1))
                whole == ProductOf(t.sizes)
                inside(e) == \A i \in 1 .. Len(t.sizes) :
                  ((e \div below(i)) % t.sizes[i]) - t.starts[i] \in 0 .. t.subsizes[i] - 1
                chosen == SelectSeq([e \in 1 .. whole |-> e - 1], inside)
            IN Map(FlattenSeq([k \in 1 .. Len(chosen) |->
                                 Moved(m, chosen[k] * ExtentOf(m)).bytes]),
                   {0}, {whole * ExtentOf(m)}, m.align)

\* the bytes of n elements, and the extents MPI_Type_get_extent and _true_extent give
Bytes(n, t) == Copies(n, TypeMap(t)).bytes
MpiExtent(t) == ExtentOf(TypeMap(t))
TrueLb(t) == Min(Range(TypeMap(t).bytes))
MpiTrueExtent(t) == Max(Range(TypeMap(t).bytes)) + 1 - TrueLb(t)
===========================================================================
