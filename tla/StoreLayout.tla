---------------------------- MODULE StoreLayout -----------------------------
(***************************************************************************)
(* The byte map of a lane store (src/store/layout.rs and schema.rs): where *)
(* the header, the lanes, their slabs and the seal lie in the file.        *)
(*                                                                         *)
(* A schema is [header_len, nslabs, lanes]; a lane is [kind, elems, size]: *)
(* "slab" with elems elements of size bytes in each slab, or "flat" with   *)
(* elems in all.  Lanes are named by their index.  The sizes the code      *)
(* fixes (64, 8, 20 and 8 bytes) are parameters, to be scaled down.        *)
(***************************************************************************)
EXTENDS Naturals, Sequences

CONSTANTS
  Align,      (* ALIGN: lanes start at multiples of it                   *)
  SealAlign,  (* the seal starts at a multiple of it                     *)
  SealLen,    (* SEAL_LEN                                                *)
  PrefixLen   (* magic and header length, before the header              *)

ASSUME SizesAssumption == {Align, SealAlign, SealLen, PrefixLen} \subseteq Nat \ {0}

Schema == [header_len: Nat, nslabs: Nat,
           lanes: Seq([kind: {"slab", "flat"}, elems: Nat, size: Nat])]

AlignUp(x, a) == ((x + a - 1) \div a) * a

(* StoreSchema::validate, less the lane names. *)
Valid(s) == s.nslabs > 0 /\ \A i \in DOMAIN s.lanes : s.lanes[i].elems > 0

ElemCount(s, i) == IF s.lanes[i].kind = "slab" THEN s.nslabs * s.lanes[i].elems
                   ELSE s.lanes[i].elems

ByteLen(s, i) == ElemCount(s, i) * s.lanes[i].size

DataBase(s) == AlignUp(PrefixLen + s.header_len, Align)

(* Wrong on purpose: lanes are packed as if a lane had one slab.           *)
LaneOffsetsOfOneSlab(s) ==
  LET offset[i \in DOMAIN s.lanes] ==
        AlignUp(IF i = 1 THEN DataBase(s)
                ELSE offset[i - 1] + s.lanes[i - 1].elems * s.lanes[i - 1].size, Align)
  IN offset

LaneOffsets(s) ==
  LET offset[i \in DOMAIN s.lanes] ==
        AlignUp(IF i = 1 THEN DataBase(s) ELSE offset[i - 1] + ByteLen(s, i - 1), Align)
  IN offset

DataEnd(s) == LET n == Len(s.lanes) IN
              IF n = 0 THEN DataBase(s) ELSE LaneOffsets(s)[n] + ByteLen(s, n)
SealOffset(s) == AlignUp(DataEnd(s), SealAlign)
TotalLen(s)   == SealOffset(s) + SealLen

(* The offsets of len bytes from start on. *)
Bytes(start, len) == {b \in start..(start + len) : b < start + len}

(* The regions a caller reads and writes: the slabs of each slab lane and  *)
(* each flat lane in one piece, as <<lane, slab>>.                         *)
Regions(s) ==
  UNION {IF s.lanes[i].kind = "slab" THEN {<<i, k>> : k \in 0..(s.nslabs - 1)} ELSE {<<i, 0>>}
         : i \in DOMAIN s.lanes}

RegionLen(s, r) ==
  LET lane == s.lanes[r[1]] IN lane.elems * lane.size

(* slab_byte_range and flat_region_mut; window_bytes of one slab, and      *)
(* flat_bytes, of the reader.                                              *)
RegionStart(s, r) == LaneOffsets(s)[r[1]] + r[2] * RegionLen(s, r)

Region(s, r) == Bytes(RegionStart(s, r), RegionLen(s, r))
=============================================================================
