----------------------------- MODULE MapBlocks -----------------------------
(* The bulk arrays of a 2-D map on their way to the browser: packed into a      *)
(* table of blocks named by a digest of their bytes (_blocks.py), resolved      *)
(* into typed arrays and read through accessors (20-map.js).  A block's bytes   *)
(* are its 32-bit words, and equal digests are equal words.  The values are     *)
(* ones that f32 represents; rounding is left out.                              *)
EXTENDS Integers, Sequences, FiniteSets, SequencesExt

CONSTANTS Fields,    \* the bulk fields a map may have
          MaxFields, \* bound: how many it has
          None,      \* a missing value: JSON null, NaN
          Undefined  \* what no array holds: beyond the end, another dtype's bits

VARIABLES map,      \* the fields, in the order encode_map visits them
          encoded,  \* how many of them have been encoded
          table,    \* the block table: words to the entry's dtype and row count
          markers,  \* what replaced each encoded field
          cache,    \* the page's decoded blocks: words to typed arrays
          resolved  \* whether the page's fields have been given their arrays

blockVars == <<map, encoded, table, markers, cache, resolved>>

(* Row widths, dtypes, and the order of the kinds in a map. *)
Width(kind) == IF kind \in {"points", "triangles"} THEN 3 ELSE IF kind = "values" THEN 1 ELSE 2
Dtype(kind) == IF kind = "triangles" THEN "u32" ELSE "f32"
Rank(kind) == IF kind = "points" THEN 1 ELSE IF kind = "lines" THEN 3 ELSE 2

(* The rows of a kind: of one width, a point's z may be left out, a set of lines *)
(* is a row per line; indices and nothing else are never missing.                *)
RowsOf(kind) ==
  CASE kind = "points" -> Seq([1 .. 2 -> Nat \cup {None}] \cup [1 .. 3 -> Nat \cup {None}])
    [] kind = "lines" -> Seq(Seq([1 .. 2 -> Nat \cup {None}]))
    [] kind = "triangles" -> Seq([1 .. 3 -> Nat])
    [] OTHER -> Seq([1 .. Width(kind) -> Nat \cup {None}])

ASSUME NoneAssumption == None \notin Nat
ASSUME FieldsAssumption == \A f \in Fields : /\ f.kind \in {"points", "nodes", "triangles", "values", "lines"}
                                            /\ f.rows \in RowsOf(f.kind)
ASSUME BoundAssumption == MaxFields \in Nat

(* The word of a value, and the value that a typed array gives for a word: the *)
(* two dtypes share the zero word and no other of a value below 1000.          *)
Word(v, dtype) == IF dtype = "u32" \/ v = 0 THEN v ELSE IF v = None THEN -1 ELSE 1000 + v
Value(w, dtype) == IF dtype = "u32" \/ w = 0 THEN w
                   ELSE IF w = -1 THEN None ELSE IF w > 1000 THEN w - 1000 ELSE Undefined

(* A point without a z has a missing one; every other row is what it is. *)
Row(kind, row) == IF kind = "points" /\ Len(row) = 2 THEN Append(row, None) ELSE row

Words(rows, kind) ==
  LET flat == FlattenSeq([i \in DOMAIN rows |-> Row(kind, rows[i])])
  IN [k \in DOMAIN flat |-> Word(flat[k], Dtype(kind))]

(* Wrong on purpose: a line ends where it begins. *)
OffsetsOfStarts(lines) ==
  [k \in 1 .. Len(lines) + 1 |-> Len(FlattenSeq(SubSeq(lines, 1, IF k > Len(lines) THEN k - 2 ELSE k - 1)))]

(* A set of polylines: all their points, and where each line begins and ends. *)
Offsets(lines) == [k \in 1 .. Len(lines) + 1 |-> Len(FlattenSeq(SubSeq(lines, 1, k - 1)))]

(* What a field is packed into: words, dtype and rows of each of its blocks. *)
Block(words, dtype, rows) == [words |-> words, dtype |-> dtype, rows |-> rows]

Blocks(f) ==
  IF f.kind = "lines"
  THEN LET points == FlattenSeq(f.rows) IN
       <<Block(Words(points, "lines"), "f32", Len(points)),
         Block(Offsets(f.rows), "u32", Len(f.rows) + 1)>>
  ELSE <<Block(Words(f.rows, f.kind), Dtype(f.kind), Len(f.rows))>>

(* Bytes that are already in the table keep the entry they have. *)
Add(t, b) == IF b.words \in DOMAIN t THEN t
             ELSE [w \in DOMAIN t \cup {b.words} |->
                     IF w = b.words THEN [dtype |-> b.dtype, rows |-> b.rows] ELSE t[w]]

BlocksInit ==
  /\ map \in UNION {[1 .. n -> Fields] : n \in 1 .. MaxFields}
  /\ \A i, j \in DOMAIN map : i < j => Rank(map[i].kind) <= Rank(map[j].kind)
  /\ encoded = 0 /\ resolved = FALSE
  /\ table = [w \in {} |-> 0] /\ cache = [w \in {} |-> 0]
  /\ markers = <<>>

-----------------------------------------------------------------------------
(* encode_map: one field after the other. *)
EncodeField ==
  /\ encoded < Len(map)
  /\ LET bs == Blocks(map[encoded + 1]) IN
     /\ table' = FoldLeft(Add, table, bs)
     /\ markers' = Append(markers, [k \in DOMAIN bs |-> bs[k].words])
  /\ encoded' = encoded + 1
  /\ UNCHANGED <<map, cache, resolved>>

(* The page decodes every entry, in the worker or not, by the entry's dtype. *)
DecodeEntry ==
  /\ encoded = Len(map)
  /\ \E w \in DOMAIN table \ DOMAIN cache :
       cache' = [v \in DOMAIN cache \cup {w} |->
                   IF v = w THEN [k \in DOMAIN w |-> Value(w[k], table[w].dtype)] ELSE cache[v]]
  /\ UNCHANGED <<map, encoded, table, markers, resolved>>

FillMap ==
  /\ encoded = Len(map) /\ DOMAIN cache = DOMAIN table /\ ~resolved
  /\ resolved' = TRUE
  /\ UNCHANGED <<map, encoded, table, markers, cache>>

BlocksNext == EncodeField \/ DecodeEntry \/ FillMap

BlocksSpec == BlocksInit /\ [][BlocksNext]_blockVars

-----------------------------------------------------------------------------
(* The accessors: element k of a typed array, counted from 0 as in the code;    *)
(* the number of rows comes from the table, before anything is decoded.         *)
Elem(a, k) == IF k + 1 \in DOMAIN a THEN a[k + 1] ELSE Undefined

ReadRows(words, kind) ==
  [i \in 1 .. table[words].rows |->
     [c \in 1 .. Width(kind) |-> Elem(cache[words], (i - 1) * Width(kind) + c - 1)]]

ReadLines(coords, offsets) ==
  LET off == cache[offsets] IN
  [k \in 1 .. table[offsets].rows - 1 |->
     [i \in 1 .. Elem(off, k) - Elem(off, k - 1) |->
        [c \in 1 .. 2 |-> Elem(cache[coords], (Elem(off, k - 1) + i - 1) * 2 + c - 1)]]]

ReadField(f, marker) == IF f.kind = "lines" THEN ReadLines(marker[1], marker[2])
                                            ELSE ReadRows(marker[1], f.kind)

-----------------------------------------------------------------------------
(* The blocks of the map that have these words: of one dtype and one row count, *)
(* or the table cannot tell them apart.                                         *)
Meanings(words) == {<<b.dtype, b.rows>> : b \in {c \in UNION {Range(Blocks(map[i])) : i \in DOMAIN map} :
                                                   c.words = words}}

Unambiguous(marker) == \A k \in DOMAIN marker : Cardinality(Meanings(marker[k])) = 1

(* Every bulk array reads back, element by element and with its length, as the  *)
(* JSON payload would have had it, whatever other arrays of the map share its   *)
(* block: unless other bytes-equal arrays have another dtype or row count, which *)
(* the digest does not cover.                                                   *)
ReadsBack ==
  resolved => \A i \in DOMAIN map :
    Unambiguous(markers[i]) =>
      ReadField(map[i], markers[i]) =
        (IF map[i].kind = "lines" THEN map[i].rows
         ELSE [k \in DOMAIN map[i].rows |-> Row(map[i].kind, map[i].rows[k])])

=============================================================================
