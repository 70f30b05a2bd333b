----------------------------- MODULE BlockCache -----------------------------
(***************************************************************************)
(* The cut of a transfer into contiguous pieces (fompi_win_rma.c): the     *)
(* blocks of the origin's and of the target's datatype, kept in a small    *)
(* cache by handle and count, are consumed side by side, and each common   *)
(* block is cut again where the target's memory regions meet.  A process   *)
(* has one cache and one thread.  MPI may give the handle of a freed type  *)
(* to a new one.                                                           *)
(*                                                                         *)
(* Addresses are relative: the origin buffer and the target's displacement *)
(* are both at 0.  Addresses of pieces and what becomes of them after      *)
(* commfunc are the business of RmaOrigin.                                 *)
(***************************************************************************)
EXTENDS Datatypes

CONSTANTS
  Handle,    \* of derived types
  Byte,      \* MPI_BYTE
  Null,      \* MPI_DATATYPE_NULL, and no call
  Creates,   \* for each handle the types it may be given
  Counts,    \* for each handle the numbers of elements in a call
  Windows,   \* see WindowShape
  Slots      \* 10 in the code

(* A window at the target: the memory regions in the order of the list, of *)
(* which a window that is not dynamic has one.                             *)
WindowShape == [dynamic : BOOLEAN, regions : Seq([base : Int, size : Nat])]

ASSUME SlotsAssumption == Slots \in Nat \ {0, 1}
ASSUME WindowsAssumption == Windows \subseteq WindowShape
ASSUME HandleAssumption == Byte \notin Handle /\ Null \notin Handle \cup {Byte}

VARIABLES
  type,                       \* what MPI knows each handle for
  cache,                      \* dcache_blocks
  origin_last, target_last,   \* dcache_origin_last_entry, dcache_target_last_entry
  last_entry,                 \* dcache_last_entry: where the next entry goes
  call,                       \* the transfer under way
  pieces                      \* what its commfunc was given

lasts == <<origin_last, target_last, last_entry>>
vars == <<type, cache, lasts, call, pieces>>

Slot == 0 .. Slots - 1
Entry(h, n, blocks) ==
  [type |-> h, count |-> n, blocks |-> blocks, pos |-> 0, rem |-> 0, at |-> 0]
Unused == Entry(Null, 0, <<>>)

TypeOf(h) == IF h = Byte THEN Named(1) ELSE type[h]
Known(h) == h \in {Byte} \cup {k \in Handle : type[k] # Null}

\* dcache_init; no derived type exists yet
Init ==
  /\ type = [h \in Handle |-> Null]
  /\ cache = [s \in Slot |-> Unused]
  /\ origin_last = 0 /\ target_last = 0 /\ last_entry = 0
  /\ call = Null /\ pieces = <<>>

---------------------------------------------------------------------------
(* What the datatype engine and MPI say of n elements of each type.        *)
Type == {Named(1)} \cup UNION {Creates[h] : h \in Handle}
Count == UNION Range(Counts)

\* from the first to the last byte of their data
Span == [t \in Type |-> [n \in Count |-> (n - 1) * MpiExtent(t) + MpiTrueExtent(t)]]
\* the span is given to the engine as the end of their stream
Blocks ==
  [t \in Type |-> LET b == Built(t) IN [n \in Count |->
     FlattenBlocks(n, b, Span[t][n], CountBlocks(n, b, Span[t][n]))]]
SizeOf == [t \in Type |-> Footprint(t).size]
Data == [t \in Type |-> [n \in Count |-> Bytes(n, t)]]
StartsAtZero == {t \in Type : TrueLb(t) = 0}

\* dcache_init_blocks
InitBlocks(h, n) == Entry(h, n, Blocks[TypeOf(h)][n])

\* the slot of an entry, looked for from the last one found, or Null
Found(c, from, h, n) ==
  LET hits == {d \in Slot : LET e == c[(from + d) % Slots] IN e.type = h /\ e.count = n}
  IN IF hits = {} THEN Null ELSE (from + Min(hits)) % Slots

\* the first part of dcache_get_next_block: the origin's entry, made if need be
OriginEntry ==
  LET o == Found(cache, origin_last, call.origin, call.ocount)
  IN IF o # Null THEN [cache |-> cache, slot |-> o, found |-> o, last |-> last_entry]
     ELSE [cache |-> [cache EXCEPT ![last_entry] = InitBlocks(call.origin, call.ocount)],
           slot |-> last_entry, found |-> origin_last, last |-> (last_entry + 1) % Slots]

\* and the target's, which does not take the place of the origin's
TargetEntry(o) ==
  LET t == Found(o.cache, target_last, call.target, call.tcount)
      new == IF o.slot = o.last THEN (o.last + 1) % Slots ELSE o.last
  IN IF t # Null
     THEN [cache |-> o.cache, slot |-> t, found |-> t, last |-> o.last]
     ELSE [cache |-> [o.cache EXCEPT ![new] = InitBlocks(call.target, call.tcount)],
           slot |-> new, found |-> target_last, last |-> (new + 1) % Slots]

\* a new block is begun when the last one is used up
Begun(e) ==
  IF e.rem # 0 THEN e
  ELSE [e EXCEPT !.pos = @ + 1, !.rem = e.blocks[e.pos + 1].len, !.at = e.blocks[e.pos + 1].at]
Taken(e, k) == [e EXCEPT !.rem = @ - k, !.at = @ + k]
Restarted(e) == [e EXCEPT !.pos = 0, !.rem = 0]
UsedUp(e) == e.pos = Len(e.blocks)

---------------------------------------------------------------------------
Piece(from, to, len, region) == [from |-> from, to |-> to, len |-> len, region |-> region]
Holds(r, at, len) == r.base <= at /\ at + len <= r.base + r.size

(* The region taken for the whole transfer, the last that fits, if there   *)
(* is one: the test is made for data that starts at the displacement.      *)
WholeRegion(w, span) ==
  LET fits == {i \in DOMAIN w.regions : ~w.dynamic \/ Holds(w.regions[i], 0, span)}
  IN IF fits = {} THEN Null ELSE w.regions[Max(fits)]

\* find_seg_and_size, until nothing is left of the block
RECURSIVE PiecesOf(_, _, _, _)
PiecesOf(w, from, to, left) ==
  IF left = 0 THEN <<>>
  ELSE LET r == w.regions[SelectInSeq(w.regions, LAMBDA x : Holds(x, to, 1))]
           len == Least(left, r.base + r.size - to)
       IN <<Piece(from, to, len, r)>> \o PiecesOf(w, from + len, to + len, left - len)

(* The program's duty: as many bytes on either side, all within the        *)
(* target's memory.  Data over several regions is taken to start at the    *)
(* displacement, for which WholeRegion is right.                           *)
Valid(o, on, t, tn, w) ==
  /\ Known(o) /\ Known(t)
  /\ on * SizeOf[TypeOf(o)] = tn * SizeOf[TypeOf(t)]
  /\ \A b \in Range(Data[TypeOf(t)][tn]) :
       \E i \in DOMAIN w.regions : Holds(w.regions[i], b, 1)
  /\ Len(w.regions) > 1 => TypeOf(t) \in StartsAtZero

(* communication_and_datatype_handling, up to its loops: bytes to a window *)
(* that is not dynamic go in one piece.                                    *)
Start(o, on, t, tn, w) ==
  LET fast == ~w.dynamic /\ o = Byte /\ t = Byte
      region == WholeRegion(w, Span[TypeOf(t)][tn])
  IN /\ call = Null
     /\ Valid(o, on, t, tn, w)
     /\ call' = [origin |-> o, ocount |-> on, target |-> t, tcount |-> tn,
                 window |-> w, region |-> region, ended |-> fast]
     /\ pieces' = IF fast THEN <<Piece(0, 0, on, region)>> ELSE <<>>
     /\ UNCHANGED <<type, cache, lasts>>

\* one turn of either loop: dcache_get_next_block and what is sent of the block
NextBlock ==
  /\ call # Null /\ ~call.ended
  /\ \E oe \in {OriginEntry} : \E te \in {TargetEntry(oe)} :
     \E o \in {Begun(te.cache[oe.slot])}, t \in {Begun(te.cache[te.slot])} :
       LET size == Least(o.rem, t.rem)
           ended == UsedUp(o) /\ UsedUp(t)
           left(e) == IF ended THEN Restarted(e)
                      ELSE IF oe.slot = te.slot THEN [e EXCEPT !.rem = 0] ELSE Taken(e, size)
       IN
       /\ cache' = [te.cache EXCEPT ![oe.slot] = left(o), ![te.slot] = left(t)]
       /\ origin_last' = oe.found /\ target_last' = te.found
       /\ last_entry' = te.last
       /\ pieces' = pieces \o (IF call.region # Null
                               THEN <<Piece(o.at, t.at, size, call.region)>>
                               ELSE PiecesOf(call.window, o.at, t.at, size))
       /\ call' = [call EXCEPT !.ended = ended]
  /\ UNCHANGED type

Return ==
  /\ call # Null /\ call.ended
  /\ call' = Null /\ pieces' = <<>>
  /\ UNCHANGED <<type, cache, lasts>>

---------------------------------------------------------------------------
\* MPI makes a type
TypeCreate(h, t) ==
  /\ call = Null /\ type[h] = Null
  /\ type' = [type EXCEPT ![h] = t]
  /\ UNCHANGED <<cache, lasts, call, pieces>>

\* mutant: the entries of the type are kept
TypeFreeKeeps(h) ==
  /\ call = Null /\ type[h] # Null
  /\ type' = [type EXCEPT ![h] = Null]
  /\ UNCHANGED <<cache, lasts, call, pieces>>

\* foMPI_Type_free: nothing is read of an entry whose type is NULL
TypeFree(h) ==
  /\ call = Null /\ type[h] # Null
  /\ type' = [type EXCEPT ![h] = Null]
  /\ cache' = [s \in Slot |-> IF cache[s].type = h THEN Unused ELSE cache[s]]
  /\ UNCHANGED <<lasts, call, pieces>>

Next ==
  \/ \E h \in Handle : TypeFree(h) \/ \E t \in Creates[h] : TypeCreate(h, t)
  \/ \E o, t \in Handle \cup {Byte}, w \in Windows :
       \E on \in Counts[o], tn \in Counts[t] : Start(o, on, t, tn, w)
  \/ NextBlock
  \/ Return

Spec == Init /\ [][Next]_vars

---------------------------------------------------------------------------
TypeOK ==
  /\ \A h \in Handle : type[h] \in Creates[h] \cup {Null}
  /\ {origin_last, target_last, last_entry} \subseteq Slot
  /\ \A s \in Slot : cache[s].type = Null \/ Known(cache[s].type)

PairsOf(p) == [i \in 1 .. p.len |-> <<p.from + i - 1, p.to + i - 1>>]

(* What a transfer sends, piece after piece, pairs the bytes of the        *)
(* origin's data with those of the target's, in the order of their type    *)
(* maps, and a transfer that has ended has sent them all, whatever the     *)
(* cache held when it began, entries it evicted and handles used again     *)
(* included.  Every piece lies in the region whose segment it is sent to.  *)
TransfersRight ==
  /\ TypeOK
  /\ call # Null =>
       LET sent == FlattenSeq([i \in 1 .. Len(pieces) |-> PairsOf(pieces[i])])
           from == Data[TypeOf(call.origin)][call.ocount]
           to == Data[TypeOf(call.target)][call.tcount]
           right == [i \in 1 .. Len(to) |-> <<from[i], to[i]>>]
       IN /\ IF call.ended THEN sent = right ELSE IsStrictPrefix(sent, right)
          /\ \A i \in 1 .. Len(pieces) :
               Holds(pieces[i].region, pieces[i].to, pieces[i].len)
===========================================================================
