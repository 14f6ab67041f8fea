---------------------------- MODULE StoreProofs -----------------------------
(***************************************************************************)
(* Proofs about Store, for every schema, page size and bound: the lanes of *)
(* a store lie apart (the layout), so a finalized store reads back what    *)
(* was last written to it, and a store that was not sealed does not open.  *)
(***************************************************************************)
EXTENDS Store, WellFoundedInduction, TLAPS

LEMMA Sizes ==
  /\ Align \in Nat \ {0} /\ SealAlign \in Nat \ {0} /\ SealLen \in Nat \ {0} /\ PrefixLen \in Nat \ {0}
  /\ MaxCreates \in Nat /\ MaxWrites \in Nat /\ MaxFailures \in Nat /\ Values \subseteq Nat \ {0}
BY SizesAssumption, BoundsAssumption

LEMMA SchemaTypes ==
  ASSUME NEW n \in DOMAIN Schemas
  PROVE  Schemas[n] \in Schema
BY SchemasAssumption

-----------------------------------------------------------------------------
(* A set of naturals has a least element: induction over the lanes.        *)
LEMMA Least ==
  ASSUME NEW T, T \subseteq Nat, T # {}
  PROVE  \E i \in T : \A j \in T : i <= j
<1>1. PICK i \in T : \A j \in T : ~(<<j, i>> \in OpToRel(<, Nat))
  BY NatLessThanWellFounded, WFMin
<1>2. ASSUME NEW j \in T PROVE i <= j
  <2>1. <<j, i>> \in Nat \X Nat /\ i \in Nat /\ j \in Nat
    OBVIOUS
  <2>2. OpToRel(<, Nat) = {ss \in Nat \X Nat : ss[1] < ss[2]}
    BY DEF OpToRel
  <2>3. ~(j < i)
    BY <1>1, <2>1, <2>2
  <2>4. QED
    BY <2>1, <2>3
<1>3. QED
  BY <1>2

LEMMA SeqElement ==
  ASSUME NEW S, NEW q \in Seq(S), NEW i \in DOMAIN q
  PROVE  q[i] \in S
OBVIOUS

LEMMA AlignUpBounds ==
  ASSUME NEW x \in Nat, NEW a \in Nat \ {0}
  PROVE  AlignUp(x, a) \in Nat /\ AlignUp(x, a) >= x
<1> DEFINE q == (x + a - 1) \div a
<1>1. q \in Int
  OBVIOUS
<1>2. q * a + ((x + a - 1) % a) = x + a - 1 /\ (x + a - 1) % a \in 0 .. a - 1
  OBVIOUS
<1>3. QED
  BY <1>1, <1>2 DEF AlignUp

-----------------------------------------------------------------------------
(* The layout                                                              *)

(* Where lane i starts, when the lanes before start where f says.          *)
Start(s, f, i) == AlignUp(IF i = 1 THEN DataBase(s) ELSE f[i - 1] + ByteLen(s, i - 1), Align)

LEMMA LaneTypes ==
  ASSUME NEW s \in Schema
  PROVE  /\ DataBase(s) \in Nat /\ DataBase(s) >= PrefixLen + s.header_len
         /\ s.nslabs \in Nat /\ s.header_len \in Nat
         /\ Len(s.lanes) \in Nat /\ DOMAIN s.lanes = 1 .. Len(s.lanes)
         /\ \A i \in DOMAIN s.lanes :
              /\ s.lanes[i].elems \in Nat /\ s.lanes[i].size \in Nat
              /\ s.lanes[i].elems * s.lanes[i].size \in Nat
              /\ ByteLen(s, i) \in Nat
<1>1. s.nslabs \in Nat /\ s.header_len \in Nat /\ PrefixLen + s.header_len \in Nat
  BY Sizes DEF Schema
<1>2. DataBase(s) \in Nat /\ DataBase(s) >= PrefixLen + s.header_len
  BY <1>1, Sizes, AlignUpBounds DEF DataBase
<1>3. Len(s.lanes) \in Nat /\ DOMAIN s.lanes = 1 .. Len(s.lanes)
  BY DEF Schema
<1>4. ASSUME NEW i \in DOMAIN s.lanes
      PROVE  /\ s.lanes[i].elems \in Nat /\ s.lanes[i].size \in Nat
             /\ s.lanes[i].elems * s.lanes[i].size \in Nat
             /\ ByteLen(s, i) \in Nat
  <2>1. s.lanes[i].elems \in Nat /\ s.lanes[i].size \in Nat
    <3>1. s.lanes \in Seq([kind: {"slab", "flat"}, elems: Nat, size: Nat])
      BY DEF Schema
    <3>2. s.lanes[i] \in [kind: {"slab", "flat"}, elems: Nat, size: Nat]
      BY <3>1, SeqElement
    <3>3. QED
      BY <3>2
  <2>2. s.lanes[i].elems * s.lanes[i].size \in Nat /\ s.nslabs * s.lanes[i].elems \in Nat
    BY <1>1, <2>1
  <2>3. ElemCount(s, i) \in Nat
    BY <2>1, <2>2 DEF ElemCount
  <2>4. ByteLen(s, i) \in Nat
    BY <2>1, <2>3 DEF ByteLen
  <2>5. QED
    BY <2>1, <2>2, <2>4
<1>5. QED
  BY <1>1, <1>2, <1>3, <1>4

(* The recursion is well defined: each lane reads the lane before it.      *)
LEMMA LaneOffsetsUnfold ==
  ASSUME NEW s \in Schema
  PROVE  LaneOffsets(s) = [i \in DOMAIN s.lanes |-> Start(s, LaneOffsets(s), i)]
<1> DEFINE Upto(f, n) == f = [i \in 1 .. n |-> Start(s, f, i)]
           bad == {n \in 0 .. Len(s.lanes) : ~ \E f : Upto(f, n)}
<1>1. Len(s.lanes) \in Nat /\ DOMAIN s.lanes = 1 .. Len(s.lanes)
  BY LaneTypes
<1>2. bad = {}
  <2>1. SUFFICES ASSUME bad # {} PROVE FALSE
    OBVIOUS
  <2>2. bad \subseteq Nat
    BY <1>1
  <2>3. PICK n \in bad : \A m \in bad : n <= m
    BY <2>1, <2>2, Least
  <2>4. n # 0
    <3>1. Upto([i \in 1 .. 0 |-> 0], 0)
      OBVIOUS
    <3>2. QED
      BY <3>1
  <2>5. n - 1 \in 0 .. Len(s.lanes) /\ n - 1 \notin bad
    BY <1>1, <2>3, <2>4
  <2>6. PICK f : Upto(f, n - 1)
    BY <2>5
  <2> DEFINE g == [i \in 1 .. n |-> IF i = n THEN Start(s, f, n) ELSE f[i]]
  <2>7. ASSUME NEW i \in 1 .. n PROVE g[i] = Start(s, g, i)
    <3>1. n \in Nat /\ i \in Nat /\ (i # 1 => i - 1 \in 1 .. n /\ i - 1 # n)
      BY <2>2, <2>3
    <3>2. Start(s, g, i) = Start(s, f, i)
      BY <3>1 DEF Start
    <3>3. i # n => f[i] = Start(s, f, i)
      BY <2>6, <3>1
    <3>4. QED
      BY <3>2, <3>3
  <2>8. Upto(g, n)
    BY <2>7
  <2>9. QED
    BY <2>3, <2>8
<1>3. PICK f : Upto(f, Len(s.lanes))
  BY <1>1, <1>2
<1>4. f = [i \in DOMAIN s.lanes |-> Start(s, f, i)]
  BY <1>1, <1>3
<1>5. LaneOffsets(s) = CHOOSE h : h = [i \in DOMAIN s.lanes |-> Start(s, h, i)]
  BY DEF LaneOffsets, Start
<1>6. QED
  BY <1>4, <1>5

(* Every lane starts after the header and after all the lanes before it.   *)
LEMMA LanesInOrder ==
  ASSUME NEW s \in Schema, NEW j \in DOMAIN s.lanes
  PROVE  /\ LaneOffsets(s)[j] \in Nat /\ LaneOffsets(s)[j] >= DataBase(s)
         /\ \A i \in DOMAIN s.lanes : i < j => LaneOffsets(s)[i] + ByteLen(s, i) <= LaneOffsets(s)[j]
<1> DEFINE off == LaneOffsets(s)
           Ordered(k) == /\ off[k] \in Nat /\ off[k] >= DataBase(s)
                         /\ \A i \in DOMAIN s.lanes : i < k => off[i] + ByteLen(s, i) <= off[k]
           bad == {k \in DOMAIN s.lanes : ~Ordered(k)}
<1>1. Len(s.lanes) \in Nat /\ DOMAIN s.lanes = 1 .. Len(s.lanes) /\ DataBase(s) \in Nat
  BY LaneTypes
<1>2. \A k \in DOMAIN s.lanes : off[k] = Start(s, off, k)
  BY LaneOffsetsUnfold
<1> HIDE DEF off
<1>3. bad = {}
  <2>1. SUFFICES ASSUME bad # {} PROVE FALSE
    OBVIOUS
  <2>2. bad \subseteq Nat
    BY <1>1
  <2>3. PICK k \in bad : \A m \in bad : k <= m
    BY <2>1, <2>2, Least
  <2>4. k \in Nat /\ k \in DOMAIN s.lanes /\ ~Ordered(k)
    BY <2>2
  <2>5. CASE k = 1
    <3>1. off[k] = AlignUp(DataBase(s), Align)
      BY <1>2, <2>4, <2>5 DEF Start
    <3>2. off[k] \in Nat /\ off[k] >= DataBase(s)
      BY <1>1, <3>1, Sizes, AlignUpBounds
    <3>3. \A i \in DOMAIN s.lanes : ~(i < k)
      BY <1>1, <2>5
    <3>4. QED
      BY <2>4, <3>2, <3>3
  <2>6. CASE k # 1
    <3> DEFINE p == k - 1
    <3>1. p \in DOMAIN s.lanes /\ p \in Nat /\ Ordered(p)
      <4>1. p \in DOMAIN s.lanes /\ p \in Nat /\ ~(k <= p)
        BY <1>1, <2>4, <2>6
      <4>2. p \notin bad
        BY <2>3, <4>1
      <4>3. QED
        BY <4>1, <4>2
    <3>2. ByteLen(s, p) \in Nat /\ off[p] \in Nat /\ off[p] + ByteLen(s, p) \in Nat
      <4>1. off[p] \in Nat
        BY <3>1
      <4> HIDE DEF Ordered
      <4>2. ByteLen(s, p) \in Nat
        BY <3>1, LaneTypes
      <4>3. QED
        BY <4>1, <4>2
    <3>3. off[k] = AlignUp(off[p] + ByteLen(s, p), Align)
      BY <1>2, <2>4, <2>6 DEF Start
    <3>4. off[k] \in Nat /\ off[k] >= off[p] + ByteLen(s, p)
      BY <3>2, <3>3, Sizes, AlignUpBounds
    <3>5. off[k] >= DataBase(s)
      BY <1>1, <3>1, <3>2, <3>4
    <3>6. ASSUME NEW i \in DOMAIN s.lanes, i < k PROVE off[i] + ByteLen(s, i) <= off[k]
      <4>1. i = p \/ i < p
        BY <1>1, <2>4, <3>6
      <4>2. i < p => off[i] + ByteLen(s, i) <= off[p] /\ ByteLen(s, i) \in Nat /\ off[i] \in Nat
        <5>1. i \in Nat /\ ByteLen(s, i) \in Nat
          BY <1>1, LaneTypes
        <5>2. Ordered(i)
          BY <1>1, <2>3, <2>4, <3>6, <5>1
        <5>3. QED
          BY <3>1, <5>1, <5>2
      <4>3. QED
        BY <3>2, <3>4, <4>1, <4>2
    <3>7. QED
      BY <2>4, <3>4, <3>5, <3>6
  <2>7. QED
    BY <2>5, <2>6
<1>4. Ordered(j)
  BY <1>3
<1>5. QED
  BY <1>4 DEF off

LEMMA RegionTypes ==
  ASSUME NEW s \in Schema, NEW r \in Regions(s)
  PROVE  /\ r[1] \in DOMAIN s.lanes /\ r[2] \in Nat /\ r = <<r[1], r[2]>>
         /\ s.lanes[r[1]].kind # "slab" => r[2] = 0
         /\ RegionLen(s, r) \in Nat /\ r[2] * RegionLen(s, r) \in Nat /\ RegionStart(s, r) \in Nat
         /\ RegionStart(s, r) >= LaneOffsets(s)[r[1]]
         /\ RegionStart(s, r) + RegionLen(s, r) <= LaneOffsets(s)[r[1]] + ByteLen(s, r[1])
<1>1. PICK i \in DOMAIN s.lanes :
        r \in IF s.lanes[i].kind = "slab" THEN {<<i, k>> : k \in 0 .. s.nslabs - 1} ELSE {<<i, 0>>}
  BY DEF Regions
<1>2. /\ r[1] = i /\ r[2] \in Nat /\ r = <<r[1], r[2]>>
      /\ s.lanes[i].kind = "slab" => r[2] \in 0 .. s.nslabs - 1
      /\ s.lanes[i].kind # "slab" => r[2] = 0
  BY <1>1, LaneTypes
<1> DEFINE elems == s.lanes[i].elems
           size == s.lanes[i].size
           length == elems * size
           k == r[2]
<1>3. elems \in Nat /\ size \in Nat /\ length \in Nat /\ s.nslabs \in Nat
      /\ ByteLen(s, i) \in Nat /\ LaneOffsets(s)[i] \in Nat
  BY LaneTypes, LanesInOrder
<1>4. RegionLen(s, r) = length /\ RegionStart(s, r) = LaneOffsets(s)[i] + k * length
  BY <1>2 DEF RegionLen, RegionStart
<1>5. ByteLen(s, i) = IF s.lanes[i].kind = "slab" THEN s.nslabs * elems * size ELSE length
  BY DEF ByteLen, ElemCount
<1> HIDE DEF k, elems, size
<1>6. k * length \in Nat
  BY <1>2, <1>3 DEF k
<1>7. k * length + length <= ByteLen(s, i)
  <2>1. CASE s.lanes[i].kind = "slab"
    <3>1. k \in 0 .. s.nslabs - 1 /\ s.nslabs * elems * size = s.nslabs * length
      BY <1>2, <1>3, <2>1 DEF k
    <3> HIDE DEF length
    <3>2. k * length + length <= s.nslabs * length
      BY <1>3, <3>1
    <3>3. QED
      BY <1>5, <2>1, <3>1, <3>2
  <2>2. CASE s.lanes[i].kind # "slab"
    <3>1. k = 0
      BY <1>2, <2>2 DEF k
    <3> HIDE DEF length
    <3>2. k * length = 0
      BY <1>3, <3>1
    <3>3. QED
      BY <1>3, <1>5, <2>2, <3>2
  <2>3. QED
    BY <2>1, <2>2
<1> HIDE DEF length
<1>8. QED
  BY <1>2, <1>3, <1>4, <1>6, <1>7 DEF k

(* No two regions share a byte: lanes are apart, and slabs within a lane.  *)
LEMMA RegionsApart ==
  ASSUME NEW s \in Schema, NEW r \in Regions(s), NEW q \in Regions(s), r # q
  PROVE  Region(s, r) \cap Region(s, q) = {}
<1>1. ASSUME NEW p \in Regions(s)
      PROVE  /\ p[1] \in DOMAIN s.lanes /\ p[1] \in Nat /\ p[2] \in Nat /\ p = <<p[1], p[2]>>
             /\ s.lanes[p[1]].kind # "slab" => p[2] = 0
             /\ RegionLen(s, p) \in Nat /\ p[2] * RegionLen(s, p) \in Nat /\ RegionStart(s, p) \in Nat
             /\ RegionStart(s, p) >= LaneOffsets(s)[p[1]]
             /\ RegionStart(s, p) + RegionLen(s, p) <= LaneOffsets(s)[p[1]] + ByteLen(s, p[1])
             /\ LaneOffsets(s)[p[1]] \in Nat /\ ByteLen(s, p[1]) \in Nat
  <2>1. /\ p[1] \in DOMAIN s.lanes /\ p[2] \in Nat /\ p = <<p[1], p[2]>>
        /\ s.lanes[p[1]].kind # "slab" => p[2] = 0
        /\ RegionLen(s, p) \in Nat /\ p[2] * RegionLen(s, p) \in Nat /\ RegionStart(s, p) \in Nat
        /\ RegionStart(s, p) >= LaneOffsets(s)[p[1]]
        /\ RegionStart(s, p) + RegionLen(s, p) <= LaneOffsets(s)[p[1]] + ByteLen(s, p[1])
    BY RegionTypes
  <2>2. p[1] \in Nat /\ LaneOffsets(s)[p[1]] \in Nat /\ ByteLen(s, p[1]) \in Nat
    <3>1. p[1] \in Nat /\ ByteLen(s, p[1]) \in Nat
      BY <2>1, LaneTypes
    <3>2. LaneOffsets(s)[p[1]] \in Nat
      BY <2>1, LanesInOrder
    <3>3. QED
      BY <3>1, <3>2
  <2>3. QED
    BY <2>1, <2>2
<1>2. ASSUME NEW p \in Regions(s), NEW o \in Regions(s), p[1] < o[1]
      PROVE  RegionStart(s, p) + RegionLen(s, p) <= RegionStart(s, o)
  <2>1. LaneOffsets(s)[p[1]] + ByteLen(s, p[1]) <= LaneOffsets(s)[o[1]]
    BY <1>1, <1>2, LanesInOrder
  <2>2. QED
    BY <1>1, <2>1
<1>3. ASSUME NEW p \in Regions(s), NEW o \in Regions(s), p[1] = o[1], p[2] < o[2]
      PROVE  RegionStart(s, p) + RegionLen(s, p) <= RegionStart(s, o)
  <2> DEFINE length == RegionLen(s, p)
             start == LaneOffsets(s)[p[1]]
  <2>1. RegionLen(s, o) = length /\ RegionStart(s, p) = start + p[2] * length
        /\ RegionStart(s, o) = start + o[2] * length
    BY <1>3 DEF RegionLen, RegionStart
  <2>2. length \in Nat /\ start \in Nat /\ p[2] \in Nat /\ o[2] \in Nat
    BY <1>1
  <2> HIDE DEF length, start
  <2>3. p[2] * length + length <= o[2] * length /\ p[2] * length \in Nat /\ o[2] * length \in Nat
    BY <1>3, <2>2
  <2>4. RegionStart(s, p) + length <= RegionStart(s, o)
    BY <2>1, <2>2, <2>3
  <2>5. QED
    BY <2>4 DEF length
<1>4. r[1] < q[1] \/ q[1] < r[1] \/ (r[1] = q[1] /\ r[2] < q[2]) \/ (r[1] = q[1] /\ q[2] < r[2])
  <2>1. r[1] \in Nat /\ r[2] \in Nat /\ q[1] \in Nat /\ q[2] \in Nat
    BY <1>1
  <2>2. ~(r[1] = q[1] /\ r[2] = q[2])
    BY <1>1
  <2>3. QED
    BY <2>1, <2>2
<1>5. \/ RegionStart(s, r) + RegionLen(s, r) <= RegionStart(s, q)
      \/ RegionStart(s, q) + RegionLen(s, q) <= RegionStart(s, r)
  BY <1>2, <1>3, <1>4
<1>6. QED
  BY <1>1, <1>5 DEF Region, Bytes

(* The header comes first, then the regions, then the seal.                *)
LEMMA InOrder ==
  ASSUME NEW s \in Schema
  PROVE  /\ SealOffset(s) \in Nat /\ TotalLen(s) = SealOffset(s) + SealLen
         /\ s.header_len \in Nat /\ PrefixLen + s.header_len <= SealOffset(s)
         /\ \A r \in Regions(s) :
              /\ RegionStart(s, r) \in Nat /\ RegionLen(s, r) \in Nat
              /\ PrefixLen + s.header_len <= RegionStart(s, r)
              /\ RegionStart(s, r) + RegionLen(s, r) <= SealOffset(s)
<1> DEFINE n == Len(s.lanes)
           off == LaneOffsets(s)
<1>1. n \in Nat /\ DOMAIN s.lanes = 1 .. n /\ DataBase(s) \in Nat
      /\ s.header_len \in Nat /\ PrefixLen + s.header_len <= DataBase(s)
  BY LaneTypes, Sizes
<1>2. ASSUME NEW i \in DOMAIN s.lanes
      PROVE  /\ off[i] \in Nat /\ ByteLen(s, i) \in Nat /\ off[i] >= DataBase(s)
             /\ off[i] + ByteLen(s, i) <= DataEnd(s)
  <2>1. /\ off[i] \in Nat /\ ByteLen(s, i) \in Nat /\ off[i] >= DataBase(s)
        /\ off[n] \in Nat /\ ByteLen(s, n) \in Nat
        /\ i < n => off[i] + ByteLen(s, i) <= off[n]
    BY <1>1, LanesInOrder, LaneTypes
  <2>2. DataEnd(s) = off[n] + ByteLen(s, n) /\ (i = n \/ i < n)
    BY <1>1 DEF DataEnd
  <2> HIDE DEF off, n
  <2>3. off[i] + ByteLen(s, i) <= DataEnd(s)
    BY <2>1, <2>2
  <2>4. QED
    BY <2>1, <2>3
<1>3. DataEnd(s) \in Nat /\ DataEnd(s) >= DataBase(s)
  <2>1. CASE n = 0
    BY <1>1, <2>1 DEF DataEnd
  <2>2. CASE n # 0
    <3>1. n \in DOMAIN s.lanes /\ DataEnd(s) = off[n] + ByteLen(s, n)
      BY <1>1, <2>2 DEF DataEnd
    <3>2. off[n] \in Nat /\ ByteLen(s, n) \in Nat /\ off[n] >= DataBase(s)
      BY <1>2, <3>1
    <3> HIDE DEF off, n
    <3>3. QED
      BY <1>1, <3>1, <3>2
  <2>3. QED
    BY <2>1, <2>2
<1>4. SealOffset(s) \in Nat /\ SealOffset(s) >= DataEnd(s)
  BY <1>3, Sizes, AlignUpBounds DEF SealOffset
<1>5. ASSUME NEW r \in Regions(s)
      PROVE  /\ RegionStart(s, r) \in Nat /\ RegionLen(s, r) \in Nat
             /\ PrefixLen + s.header_len <= RegionStart(s, r)
             /\ RegionStart(s, r) + RegionLen(s, r) <= SealOffset(s)
  <2> DEFINE i == r[1]
  <2>1. /\ i \in DOMAIN s.lanes /\ RegionLen(s, r) \in Nat /\ RegionStart(s, r) \in Nat
        /\ RegionStart(s, r) >= off[i]
        /\ RegionStart(s, r) + RegionLen(s, r) <= off[i] + ByteLen(s, i)
    <3> HIDE DEF n
    <3>1. r[1] \in DOMAIN s.lanes /\ RegionLen(s, r) \in Nat /\ RegionStart(s, r) \in Nat
      BY RegionTypes
    <3>2. RegionStart(s, r) >= off[i]
      BY RegionTypes
    <3>3. RegionStart(s, r) + RegionLen(s, r) <= off[i] + ByteLen(s, i)
      BY RegionTypes
    <3>4. QED
      BY <3>1, <3>2, <3>3
  <2>2. /\ off[i] \in Nat /\ ByteLen(s, i) \in Nat /\ off[i] >= DataBase(s)
        /\ off[i] + ByteLen(s, i) <= DataEnd(s)
    BY <1>2, <2>1
  <2> HIDE DEF off, n, i
  <2>3. DataBase(s) \in Nat /\ PrefixLen + s.header_len \in Nat /\ PrefixLen + s.header_len <= DataBase(s)
    BY <1>1, Sizes
  <2>4. PrefixLen + s.header_len <= RegionStart(s, r)
    BY <2>1, <2>2, <2>3
  <2>5. RegionStart(s, r) + RegionLen(s, r) <= SealOffset(s)
    BY <1>3, <1>4, <2>1, <2>2
  <2>6. QED
    BY <2>1, <2>4, <2>5
<1>6. QED
  BY <1>1, <1>3, <1>4, <1>5, Sizes DEF TotalLen

-----------------------------------------------------------------------------
(* Files                                                                   *)

IsFile(f) == f = [b \in DOMAIN f |-> f[b]]

NoSeal(f) == \A b \in DOMAIN f : f[b].of # "seal"

(* f holds the header of schema n and what was given to its regions.       *)
Holds(f, n, given) ==
  /\ DOMAIN f = Bytes(0, TotalLen(Schemas[n]))
  /\ \A b \in Bytes(0, HeaderLen(n)) : f[b] = Byte("header", n, b)
  /\ \A r \in Regions(Schemas[n]) : \A b \in Region(Schemas[n], r) :
       f[b] = DataByte(given[r], RegionStart(Schemas[n], r), b)

HoldsSeal(f, n) ==
  \A b \in Bytes(SealOffset(Schemas[n]), SealLen) :
    f[b] = Byte("seal", n, b - SealOffset(Schemas[n]))

(* What was made is a store of one of the schemas.  A writer that fills it *)
(* has in the cache all that it was given.  Until it seals it, no byte of  *)
(* a seal is in the cache, nor on a disk that was written to; an older     *)
(* file is still on disk, or is back after a power failure.  The seal      *)
(* joins what was given; when finalize has returned, so on disk.           *)
MadeOK ==
  made.phase # "none" =>
    made.schema \in DOMAIN Schemas /\ made.given \in [Regions(Schemas[made.schema]) -> Nat]

FillingHolds == writer = "filling" => Holds(cache, made.schema, made.given)

Unsealed ==
  made.phase = "filling" =>
    \/ NoSeal(cache) /\ IF committed THEN NoSeal(disk) ELSE Reading(disk) \in before
    \/ cache = disk /\ committed /\ writer = "none" /\ Reading(disk) \in before

SealHolds ==
  made.phase = "final" \/ (made.phase = "sealing" /\ (writer = "sealing" \/ failures = 0)) =>
    Holds(cache, made.schema, made.given) /\ HoldsSeal(cache, made.schema)

FinalOnDisk == made.phase = "final" => committed /\ disk = cache

MadeRecord == made = [schema |-> made.schema, given |-> made.given, phase |-> made.phase]

Inv == /\ TypeOK /\ IsFile(cache) /\ IsFile(disk)
       /\ MadeRecord /\ MadeOK /\ FillingHolds /\ Unsealed /\ SealHolds /\ FinalOnDisk

LEMMA HeaderLens ==
  ASSUME NEW n \in DOMAIN Schemas
  PROVE  /\ HeaderLen(n) \in Nat \ {0} /\ HeaderLen(n) <= SealOffset(Schemas[n])
         /\ SealOffset(Schemas[n]) \in Nat /\ TotalLen(Schemas[n]) = SealOffset(Schemas[n]) + SealLen
         /\ \A r \in Regions(Schemas[n]) :
              /\ RegionStart(Schemas[n], r) \in Nat /\ RegionLen(Schemas[n], r) \in Nat
              /\ HeaderLen(n) <= RegionStart(Schemas[n], r)
              /\ RegionStart(Schemas[n], r) + RegionLen(Schemas[n], r) <= SealOffset(Schemas[n])
<1> DEFINE s == Schemas[n]
<1>1. s \in Schema
  BY SchemaTypes
<1>2. HeaderLen(n) = PrefixLen + s.header_len
  BY DEF HeaderLen
<1> HIDE DEF s
<1>3. /\ SealOffset(s) \in Nat /\ TotalLen(s) = SealOffset(s) + SealLen
      /\ s.header_len \in Nat /\ PrefixLen + s.header_len <= SealOffset(s)
      /\ \A r \in Regions(s) :
              /\ RegionStart(s, r) \in Nat /\ RegionLen(s, r) \in Nat
              /\ PrefixLen + s.header_len <= RegionStart(s, r)
              /\ RegionStart(s, r) + RegionLen(s, r) <= SealOffset(s)
  BY <1>1, InOrder
<1>4. HeaderLen(n) \in Nat \ {0}
  BY <1>2, <1>3, Sizes
<1>5. QED
  BY <1>2, <1>3, <1>4 DEF s

LEMMA NoSealNoOpen == ASSUME NEW f, NoSeal(f) PROVE ~Opens(f)
<1> SUFFICES ASSUME NEW n \in DOMAIN Schemas, OpensAs(f, n) PROVE FALSE
  BY DEF Opens
<1> DEFINE at == SealOffset(Schemas[n])
<1>1. at \in Nat /\ TotalLen(Schemas[n]) = at + SealLen
  BY HeaderLens
<1>2. at \in Bytes(at, SealLen) /\ at \in Bytes(0, at + SealLen)
  BY <1>1, Sizes DEF Bytes
<1>3. at \in DOMAIN f /\ f[at] = Byte("seal", n, at - at)
  BY <1>1, <1>2 DEF OpensAs
<1>4. QED
  BY <1>3 DEF NoSeal, Byte

(* The header says which schema a file has.                                *)
LEMMA OneSchema ==
  ASSUME NEW f, NEW n \in DOMAIN Schemas, NEW m \in DOMAIN Schemas, OpensAs(f, n), OpensAs(f, m)
  PROVE  n = m
<1>1. 0 \in Bytes(0, HeaderLen(n)) /\ 0 \in Bytes(0, HeaderLen(m))
  BY HeaderLens DEF Bytes
<1>2. Byte("header", n, 0) = Byte("header", m, 0)
  BY <1>1 DEF OpensAs
<1>3. QED
  BY <1>2 DEF Byte

(* A whole, sealed file opens, and gives back what it was given.           *)
LEMMA WholeOpens ==
  ASSUME NEW f, NEW n \in DOMAIN Schemas, NEW given \in [Regions(Schemas[n]) -> Nat],
         Holds(f, n, given), HoldsSeal(f, n)
  PROVE  Opens(f) /\ Contents(f) = Given(n, given)
<1> DEFINE s == Schemas[n]
<1>1. OpensAs(f, n)
  <2>1. Bytes(0, HeaderLen(n)) \subseteq Bytes(0, TotalLen(s))
    BY HeaderLens, Sizes DEF Bytes
  <2>2. QED
    BY <2>1 DEF OpensAs, Holds, HoldsSeal
<1>2. Opens(f)
  BY <1>1 DEF Opens
<1>3. n = CHOOSE m \in DOMAIN Schemas : OpensAs(f, m)
  BY <1>1, OneSchema
<1>4. ASSUME NEW r \in Regions(s), NEW j \in Bytes(0, RegionLen(s, r))
      PROVE  f[RegionStart(s, r) + j] = DataByte(given[r], 0, j)
  <2>1. RegionStart(s, r) \in Nat /\ RegionLen(s, r) \in Nat /\ j \in Nat /\ j < RegionLen(s, r)
    BY HeaderLens DEF Bytes
  <2> DEFINE start == RegionStart(s, r)
  <2>2. start + j \in Region(s, r) /\ (start + j) - start = j - 0
    BY <2>1 DEF Region, Bytes
  <2>3. f[start + j] = DataByte(given[r], start, start + j)
    BY <2>2 DEF Holds
  <2>4. QED
    BY <2>2, <2>3 DEF DataByte
<1>5. \A r \in Regions(s) : ReadRegion(f, s, r) = [j \in Bytes(0, RegionLen(s, r)) |-> DataByte(given[r], 0, j)]
  BY <1>4 DEF ReadRegion
<1>6. Contents(f) = [schema |-> n, data |-> [r \in Regions(s) |-> ReadRegion(f, s, r)]]
  BY <1>3 DEF Contents
<1>7. [r \in Regions(s) |-> ReadRegion(f, s, r)]
        = [r \in Regions(s) |-> [j \in Bytes(0, RegionLen(s, r)) |-> DataByte(given[r], 0, j)]]
  BY <1>5
<1>8. QED
  BY <1>2, <1>6, <1>7 DEF Given

LEMMA FreshHolds ==
  ASSUME NEW n \in DOMAIN Schemas
  PROVE  /\ Holds(Fresh(n), n, [r \in Regions(Schemas[n]) |-> 0])
         /\ IsFile(Fresh(n)) /\ NoSeal(Fresh(n))
<1> DEFINE s == Schemas[n]
<1>1. Bytes(0, HeaderLen(n)) \subseteq Bytes(0, TotalLen(s))
  BY HeaderLens, Sizes DEF Bytes
<1>2. ASSUME NEW b \in Bytes(0, HeaderLen(n)) PROVE Fresh(n)[b] = Byte("header", n, b)
  BY <1>1, HeaderLens DEF Fresh, Bytes
<1>3. ASSUME NEW r \in Regions(s), NEW b \in Region(s, r) PROVE Fresh(n)[b] = Zero
  <2>1. b \in Bytes(0, TotalLen(s)) /\ ~(b < HeaderLen(n))
    BY HeaderLens, Sizes DEF Region, Bytes
  <2>2. QED
    BY <2>1 DEF Fresh
<1>4. Holds(Fresh(n), n, [r \in Regions(s) |-> 0])
  <2>1. DOMAIN Fresh(n) = Bytes(0, TotalLen(s))
    BY DEF Fresh
  <2>2. \A r \in Regions(s) : \A b \in Region(s, r) :
          Fresh(n)[b] = DataByte([q \in Regions(s) |-> 0][r], RegionStart(s, r), b)
    BY <1>3 DEF DataByte
  <2>3. QED
    BY <1>2, <2>1, <2>2 DEF Holds
<1>5. IsFile(Fresh(n)) /\ NoSeal(Fresh(n))
  BY DEF Fresh, IsFile, NoSeal, Zero, Byte
<1>6. QED
  BY <1>4, <1>5

(* Writing a region leaves the header and the other regions as they are.   *)
LEMMA FillHolds ==
  ASSUME NEW f, NEW n \in DOMAIN Schemas, NEW given \in [Regions(Schemas[n]) -> Nat],
         NEW r \in Regions(Schemas[n]), NEW v \in Nat, Holds(f, n, given), NoSeal(f)
  PROVE  /\ Holds(WithRegion(f, n, r, v), n, [given EXCEPT ![r] = v])
         /\ NoSeal(WithRegion(f, n, r, v)) /\ IsFile(WithRegion(f, n, r, v))
<1> DEFINE s == Schemas[n]
           g == WithRegion(f, n, r, v)
           now == [given EXCEPT ![r] = v]
<1>1. /\ DOMAIN g = DOMAIN f
      /\ \A b \in DOMAIN f : b \in Region(s, r) => g[b] = DataByte(v, RegionStart(s, r), b)
      /\ \A b \in DOMAIN f : b \notin Region(s, r) => g[b] = f[b]
  BY DEF WithRegion
<1>2. DOMAIN f = Bytes(0, TotalLen(s))
  BY DEF Holds
<1>3. ASSUME NEW b \in Bytes(0, HeaderLen(n)) PROVE g[b] = Byte("header", n, b)
  <2>1. b \in Bytes(0, TotalLen(s)) /\ b \notin Region(s, r)
    BY HeaderLens, Sizes DEF Region, Bytes
  <2>2. QED
    BY <1>1, <1>2, <2>1 DEF Holds
<1>4. ASSUME NEW q \in Regions(s), NEW b \in Region(s, q)
      PROVE  g[b] = DataByte(now[q], RegionStart(s, q), b)
  <2>1. b \in DOMAIN f
    BY <1>2, HeaderLens, Sizes DEF Region, Bytes
  <2>2. CASE q = r
    BY <1>1, <2>1, <2>2
  <2>3. CASE q # r
    <3>1. b \notin Region(s, r)
      BY <2>3, SchemaTypes, RegionsApart
    <3>2. g[b] = f[b] /\ now[q] = given[q]
      BY <1>1, <2>1, <2>3, <3>1
    <3>3. QED
      BY <3>2 DEF Holds
  <2>4. QED
    BY <2>2, <2>3
<1>5. NoSeal(g)
  BY <1>1 DEF NoSeal, DataByte, Zero, Byte
<1>6. IsFile(g)
  BY DEF IsFile, WithRegion
<1>7. QED
  BY <1>1, <1>2, <1>3, <1>4, <1>5, <1>6 DEF Holds

LEMMA SealHoldsAll ==
  ASSUME NEW f, NEW n \in DOMAIN Schemas, NEW given, Holds(f, n, given)
  PROVE  /\ Holds(WithSeal(f, n), n, given) /\ HoldsSeal(WithSeal(f, n), n)
         /\ IsFile(WithSeal(f, n)) /\ DOMAIN WithSeal(f, n) = DOMAIN f
<1> DEFINE s == Schemas[n]
           g == WithSeal(f, n)
<1>1. /\ DOMAIN g = DOMAIN f
      /\ \A b \in DOMAIN f : b \in Bytes(SealOffset(s), SealLen) => g[b] = Byte("seal", n, b - SealOffset(s))
      /\ \A b \in DOMAIN f : b \notin Bytes(SealOffset(s), SealLen) => g[b] = f[b]
  BY DEF WithSeal
<1>2. DOMAIN f = Bytes(0, TotalLen(s))
  BY DEF Holds
<1>3. ASSUME NEW b \in Bytes(0, HeaderLen(n)) PROVE g[b] = Byte("header", n, b)
  <2>1. b \in Bytes(0, TotalLen(s)) /\ b \notin Bytes(SealOffset(s), SealLen)
    BY HeaderLens, Sizes DEF Bytes
  <2>2. QED
    BY <1>1, <1>2, <2>1 DEF Holds
<1>4. ASSUME NEW q \in Regions(s), NEW b \in Region(s, q)
      PROVE  g[b] = DataByte(given[q], RegionStart(s, q), b)
  <2>1. b \in Bytes(0, TotalLen(s)) /\ b \notin Bytes(SealOffset(s), SealLen)
    BY HeaderLens, Sizes DEF Region, Bytes
  <2>2. QED
    BY <1>1, <1>2, <2>1 DEF Holds
<1>5. HoldsSeal(g, n)
  <2>1. Bytes(SealOffset(s), SealLen) \subseteq Bytes(0, TotalLen(s))
    BY HeaderLens, Sizes DEF Bytes
  <2>2. QED
    BY <1>1, <1>2, <2>1 DEF HoldsSeal
<1>6. IsFile(g)
  BY DEF IsFile, WithSeal
<1>7. QED
  BY <1>1, <1>2, <1>3, <1>4, <1>5, <1>6 DEF Holds

-----------------------------------------------------------------------------
(* The steps                                                               *)

LEMMA InitInv == Init => Inv
<1> SUFFICES ASSUME Init PROVE Inv
  OBVIOUS
<1>1. IsFile(cache)
  <2>1. CASE cache = NoBytes
    BY <2>1 DEF NoBytes, IsFile
  <2>2. CASE cache # NoBytes
    <3>1. PICK n \in DOMAIN Schemas, v \in Values : cache = Sealed(n, v)
      BY <2>2 DEF Init
    <3>2. QED
      BY <3>1 DEF Sealed, WithSeal, IsFile
  <2>3. QED
    BY <2>1, <2>2
<1>2. /\ disk = cache /\ writer = "none" /\ committed = TRUE /\ flushBehind = FALSE
      /\ linked \in BOOLEAN
      /\ made = [schema |-> 0, given |-> <<>>, phase |-> "none"]
      /\ creates = 0 /\ writes = 0 /\ failures = 0
  BY DEF Init
<1>3. TypeOK
  <2>1. committed \in BOOLEAN /\ linked \in BOOLEAN /\ flushBehind \in BOOLEAN /\ DOMAIN disk = DOMAIN cache
    BY <1>2
  <2>2. writer = "none" /\ made.phase = "none"
    BY <1>2
  <2>3. creates \in 0..MaxCreates /\ writes \in 0..MaxWrites /\ failures \in 0..MaxFailures
    BY <1>2, Sizes
  <2>4. QED
    BY <2>1, <2>2, <2>3 DEF TypeOK
<1>4. MadeRecord /\ MadeOK /\ FillingHolds /\ Unsealed /\ SealHolds /\ FinalOnDisk
  BY <1>2 DEF MadeRecord, MadeOK, FillingHolds, Unsealed, SealHolds, FinalOnDisk
<1>5. IsFile(disk)
  BY <1>1, <1>2
<1>6. QED
  BY <1>1, <1>3, <1>4, <1>5 DEF Inv

(* What a step that may write pages back does to the disk.                 *)
LEMMA OnDisk ==
  ASSUME Inv, NEW pages, NoSync \/ Sync(pages), IsFile(cache'), DOMAIN cache' = DOMAIN cache
  PROVE  /\ IsFile(disk') /\ committed' \in BOOLEAN /\ (committed' => DOMAIN disk' = DOMAIN cache')
         /\ NoSeal(cache') /\ (IF committed THEN NoSeal(disk) ELSE Reading(disk) \in before) =>
              IF committed' THEN NoSeal(disk') ELSE Reading(disk') \in before
         /\ committed /\ disk = cache /\ cache' = cache => committed' /\ disk' = cache'
<1>1. CASE NoSync
  BY <1>1 DEF NoSync, Inv, TypeOK
<1>2. CASE Sync(pages)
  <2>1. /\ committed' = TRUE /\ DOMAIN disk' = DOMAIN cache' /\ IsFile(disk')
        /\ \A b \in DOMAIN cache' :
             disk'[b] = IF PageOf(b) \in pages THEN cache'[b] ELSE IF committed THEN disk[b] ELSE Zero
    BY <1>2 DEF Sync, Written, IsFile
  <2>2. committed => DOMAIN disk = DOMAIN cache'
    BY DEF Inv, TypeOK
  <2>3. NoSeal(cache') /\ (committed => NoSeal(disk)) => NoSeal(disk')
    BY <2>1, <2>2 DEF NoSeal, Zero, Byte
  <2>4. committed /\ disk = cache /\ cache' = cache => disk' = cache'
    <3> SUFFICES ASSUME committed, disk = cache, cache' = cache PROVE disk' = cache'
      OBVIOUS
    <3>1. \A b \in DOMAIN cache' : disk'[b] = cache'[b]
      BY <2>1
    <3>2. QED
      BY <2>1, <3>1 DEF IsFile
  <2>5. QED
    BY <2>1, <2>3, <2>4
<1>3. QED
  BY <1>1, <1>2

LEMMA BeginStep ==
  ASSUME Inv, NEW n \in DOMAIN Schemas, Begin(n),
         \/ cache' = Fresh(n) /\ writer' = "filling" /\ flushBehind' \in BOOLEAN
         \/ cache' = NoBytes /\ UNCHANGED <<writer, flushBehind>>
  PROVE  Inv'
<1>1. /\ writer = "none" /\ creates \in Nat /\ creates' \in 0 .. MaxCreates /\ committed' = FALSE
      /\ before' = {Reading(cache), Reading(disk)} /\ UNCHANGED <<disk, linked, writes, failures>>
      /\ made' = [schema |-> n, given |-> [r \in Regions(Schemas[n]) |-> 0], phase |-> "filling"]
  BY Sizes DEF Begin, Inv, TypeOK
<1>2. IsFile(cache') /\ NoSeal(cache')
  BY FreshHolds DEF NoBytes, IsFile, NoSeal
<1>3. writer' # "none" => Holds(cache', n, [r \in Regions(Schemas[n]) |-> 0]) /\ writer' = "filling"
  BY <1>1, FreshHolds
<1>4. TypeOK'
  BY <1>1, <1>3 DEF Inv, TypeOK, Holds
<1>5. FillingHolds'
  BY <1>1, <1>3 DEF FillingHolds
<1>6. Unsealed'
  BY <1>1, <1>2 DEF Unsealed
<1>7. MadeRecord' /\ MadeOK' /\ SealHolds' /\ FinalOnDisk'
  BY <1>1 DEF MadeRecord, MadeOK, SealHolds, FinalOnDisk
<1>8. QED
  BY <1>1, <1>2, <1>4, <1>5, <1>6, <1>7 DEF Inv, IsFile

LEMMA FillStep ==
  ASSUME Inv, NEW r, NEW v \in Values, Fill(r, v), NEW pages, NoSync \/ Sync(pages)
  PROVE  Inv'
<1> DEFINE n == made.schema
<1>1. /\ writer = "filling" /\ made.phase = "filling" /\ n \in DOMAIN Schemas /\ v \in Nat
      /\ r \in Regions(Schemas[n]) /\ made.given \in [Regions(Schemas[n]) -> Nat]
      /\ Holds(cache, n, made.given)
  BY Sizes DEF Fill, Inv, TypeOK, MadeOK, FillingHolds
<1>2. NoSeal(cache) /\ (IF committed THEN NoSeal(disk) ELSE Reading(disk) \in before)
  BY <1>1 DEF Inv, Unsealed
<1>3. /\ cache' = WithRegion(cache, n, r, v) /\ made' = [made EXCEPT !.given[r] = v]
      /\ UNCHANGED <<linked, writer, flushBehind, before, creates, failures>>
      /\ writes' \in 0 .. MaxWrites
  BY Sizes DEF Fill, Inv, TypeOK
<1>4. made' = [schema |-> n, given |-> [made.given EXCEPT ![r] = v], phase |-> "filling"]
  BY <1>1, <1>3 DEF Inv, MadeRecord
<1>5. /\ Holds(cache', n, [made.given EXCEPT ![r] = v]) /\ NoSeal(cache') /\ IsFile(cache')
  BY <1>1, <1>2, <1>3, FillHolds
<1>6. DOMAIN cache' = DOMAIN cache
  BY <1>1, <1>5 DEF Holds
<1>7. /\ IsFile(disk') /\ committed' \in BOOLEAN /\ (committed' => DOMAIN disk' = DOMAIN cache')
      /\ IF committed' THEN NoSeal(disk') ELSE Reading(disk') \in before
  BY <1>2, <1>5, <1>6, OnDisk
<1>8. TypeOK'
  BY <1>1, <1>3, <1>4, <1>6, <1>7 DEF Inv, TypeOK
<1>9. MadeRecord' /\ MadeOK' /\ FillingHolds'
  BY <1>1, <1>4, <1>5 DEF MadeRecord, MadeOK, FillingHolds
<1>10. Unsealed'
  BY <1>3, <1>5, <1>7 DEF Unsealed
<1>11. SealHolds' /\ FinalOnDisk'
  BY <1>4 DEF SealHolds, FinalOnDisk
<1>12. QED
  BY <1>5, <1>7, <1>8, <1>9, <1>10, <1>11 DEF Inv

(* Flush, FlushBehindSlab and the kernel's Writeback.                      *)
LEMMA SyncStep ==
  ASSUME Inv, NEW pages, Sync(pages),
         UNCHANGED <<cache, linked, writer, flushBehind, made, before, creates, writes, failures>>
  PROVE  Inv'
<1>1. /\ IsFile(disk') /\ committed' \in BOOLEAN /\ (committed' => DOMAIN disk' = DOMAIN cache')
      /\ NoSeal(cache') /\ (IF committed THEN NoSeal(disk) ELSE Reading(disk) \in before) =>
              IF committed' THEN NoSeal(disk') ELSE Reading(disk') \in before
      /\ committed /\ disk = cache => committed' /\ disk' = cache'
  BY OnDisk DEF Inv
<1>2. TypeOK' /\ IsFile(cache)' /\ MadeRecord' /\ MadeOK' /\ FillingHolds' /\ SealHolds'
  BY <1>1 DEF Inv, TypeOK, IsFile, MadeRecord, MadeOK, FillingHolds, SealHolds
<1>3. Unsealed'
  BY <1>1 DEF Inv, Unsealed
<1>4. FinalOnDisk'
  BY <1>1 DEF Inv, FinalOnDisk
<1>5. QED
  BY <1>1, <1>2, <1>3, <1>4 DEF Inv

LEMMA SealStep == ASSUME Inv, WriteSeal PROVE Inv'
<1> DEFINE n == made.schema
<1>1. /\ writer = "filling" /\ made.phase = "filling" /\ n \in DOMAIN Schemas
      /\ Holds(cache, n, made.given)
  BY DEF WriteSeal, Inv, TypeOK, MadeOK, FillingHolds
<1>2. /\ cache' = WithSeal(cache, n) /\ writer' = "sealing"
      /\ made' = [schema |-> n, given |-> made.given, phase |-> "sealing"]
      /\ UNCHANGED <<disk, committed, linked, flushBehind, before, creates, writes, failures>>
  BY DEF WriteSeal, Inv, MadeRecord
<1>3. /\ Holds(cache', n, made.given) /\ HoldsSeal(cache', n)
      /\ IsFile(cache') /\ DOMAIN cache' = DOMAIN cache
  BY <1>1, <1>2, SealHoldsAll
<1>4. TypeOK'
  BY <1>1, <1>2, <1>3 DEF Inv, TypeOK
<1>5. MadeRecord' /\ MadeOK' /\ FillingHolds' /\ Unsealed' /\ SealHolds' /\ FinalOnDisk'
  BY <1>1, <1>2, <1>3 DEF Inv, MadeRecord, MadeOK, FillingHolds, Unsealed, SealHolds, FinalOnDisk
<1>6. QED
  BY <1>2, <1>3, <1>4, <1>5 DEF Inv, IsFile

LEMMA FinalizedStep == ASSUME Inv, Finalized PROVE Inv'
<1>1. /\ writer = "sealing" /\ committed /\ disk = cache /\ made.phase = "sealing"
      /\ writer' = "none" /\ made' = [schema |-> made.schema, given |-> made.given, phase |-> "final"]
      /\ UNCHANGED <<cache, disk, committed, linked, flushBehind, before, creates, writes, failures>>
  BY DEF Finalized, Inv, MadeRecord, TypeOK
<1>2. TypeOK'
  BY <1>1 DEF Inv, TypeOK
<1>3. MadeRecord' /\ MadeOK' /\ FillingHolds' /\ Unsealed' /\ SealHolds' /\ FinalOnDisk'
  BY <1>1 DEF Inv, MadeRecord, MadeOK, FillingHolds, Unsealed, SealHolds, FinalOnDisk
<1>4. QED
  BY <1>1, <1>2, <1>3 DEF Inv, IsFile

LEMMA WriterGoneStep == ASSUME Inv, WriterGone PROVE Inv'
<1>1. /\ writer # "none" /\ writer' = "none" /\ made.phase = writer
      /\ UNCHANGED <<cache, disk, committed, linked, flushBehind, made, before, creates, writes, failures>>
  BY DEF WriterGone, Inv, TypeOK
<1>2. TypeOK'
  BY <1>1 DEF Inv, TypeOK
<1>3. MadeRecord' /\ MadeOK' /\ FillingHolds' /\ Unsealed' /\ SealHolds' /\ FinalOnDisk'
  BY <1>1 DEF Inv, MadeRecord, MadeOK, FillingHolds, Unsealed, SealHolds, FinalOnDisk
<1>4. QED
  BY <1>1, <1>2, <1>3 DEF Inv, IsFile

LEMMA EntryWrittenStep == ASSUME Inv, EntryWritten PROVE Inv'
<1>1. /\ linked' = TRUE
      /\ UNCHANGED <<cache, disk, committed, writer, flushBehind, made, before, creates, writes, failures>>
  BY DEF EntryWritten
<1>2. TypeOK'
  BY <1>1 DEF Inv, TypeOK
<1>3. MadeRecord' /\ MadeOK' /\ FillingHolds' /\ Unsealed' /\ SealHolds' /\ FinalOnDisk'
  BY <1>1 DEF Inv, MadeRecord, MadeOK, FillingHolds, Unsealed, SealHolds, FinalOnDisk
<1>4. QED
  BY <1>1, <1>2, <1>3 DEF Inv, IsFile

LEMMA PowerFailureStep == ASSUME Inv, PowerFailure PROVE Inv'
<1>1. /\ failures' \in 0 .. MaxFailures /\ failures' # 0
      /\ cache' = Survives /\ disk' = Survives /\ committed' = TRUE /\ writer' = "none"
      /\ UNCHANGED <<linked, flushBehind, before, creates, writes>>
  BY Sizes DEF PowerFailure, Inv, TypeOK
<1>2. CASE linked \/ made.phase = "none"
  <2>1. made' = made /\ (made.phase # "none" => Survives = disk)
    BY <1>2 DEF PowerFailure, Survives
  <2>2. IsFile(Survives)
    BY DEF Survives, NoBytes, IsFile, Inv
  <2>3. TypeOK'
    BY <1>1, <2>1 DEF Inv, TypeOK
  <2>4. Unsealed'
    BY <1>1, <2>1 DEF Inv, TypeOK, Unsealed
  <2>5. MadeRecord' /\ MadeOK' /\ FillingHolds'
    BY <1>1, <2>1 DEF Inv, MadeRecord, MadeOK, FillingHolds
  <2>6. SealHolds' /\ FinalOnDisk'
    BY <1>1, <2>1 DEF Inv, SealHolds, FinalOnDisk
  <2>7. IsFile(cache)' /\ IsFile(disk)'
    BY <1>1, <2>2 DEF IsFile
  <2>8. QED
    BY <2>3, <2>4, <2>5, <2>6, <2>7 DEF Inv
<1>3. CASE ~linked /\ made.phase # "none"
  <2>1. Survives = NoBytes /\ made' = [schema |-> made.schema, given |-> made.given, phase |-> "lost"]
    BY <1>3 DEF PowerFailure, Survives, Inv, MadeRecord
  <2>2. IsFile(cache)' /\ IsFile(disk)' /\ TypeOK'
    BY <1>1, <2>1 DEF Inv, TypeOK, NoBytes, IsFile
  <2>3. MadeRecord' /\ MadeOK' /\ FillingHolds' /\ Unsealed' /\ SealHolds' /\ FinalOnDisk'
    BY <1>1, <1>3, <2>1 DEF Inv, MadeRecord, MadeOK, FillingHolds, Unsealed, SealHolds, FinalOnDisk
  <2>4. QED
    BY <2>2, <2>3 DEF Inv
<1>4. QED
  BY <1>2, <1>3

LEMMA StutterStep == ASSUME Inv, UNCHANGED vars PROVE Inv'
BY DEF Inv, TypeOK, IsFile, MadeRecord, MadeOK, FillingHolds, Unsealed, SealHolds, FinalOnDisk, vars

(* The invariant that the properties rest on: what the cache and the disk  *)
(* hold of the store being made, at each stage of its life.                *)
THEOREM StoreInv == Spec => []Inv
<1>1. Inv /\ [Next]_vars => Inv'
  <2> SUFFICES ASSUME Inv, [Next]_vars PROVE Inv'
    OBVIOUS
  <2>1. ASSUME NEW n \in DOMAIN Schemas, CreateFails(n) PROVE Inv'
    BY <2>1, BeginStep DEF CreateFails
  <2>2. ASSUME NEW n \in DOMAIN Schemas, NEW behind \in BOOLEAN, Create(n, behind) PROVE Inv'
    BY <2>2, BeginStep DEF Create
  <2>3. ASSUME NEW r, NEW v \in Values, WriteSlab(r, v) PROVE Inv'
    BY <2>3, FillStep DEF WriteSlab
  <2>4. ASSUME NEW r, NEW v \in Values, WriteInPlace(r, v) PROVE Inv'
    BY <2>4, FillStep DEF WriteInPlace
  <2>5. ASSUME NEW r, FlushBehindSlab(r) PROVE Inv'
    BY <2>5, SyncStep DEF FlushBehindSlab
  <2>6. CASE Flush
    BY <2>6, SyncStep DEF Flush
  <2>7. ASSUME NEW pages, Writeback(pages) PROVE Inv'
    BY <2>7, SyncStep DEF Writeback
  <2>8. QED
    BY <2>1, <2>2, <2>3, <2>4, <2>5, <2>6, <2>7, SealStep, FinalizedStep, WriterGoneStep,
       EntryWrittenStep, PowerFailureStep, StutterStep DEF Next
<1>2. QED
  BY InitInv, <1>1, PTL DEF Spec

(* The variables of the store always have their types; while there is a    *)
(* writer, the file has the length of the store that it makes.             *)
THEOREM StoreTypes == Spec => []TypeOK
<1>1. Inv => TypeOK
  BY DEF Inv
<1>2. QED
  BY <1>1, StoreInv, PTL

(* Once finalize has returned, the store opens and every slab and every    *)
(* flat lane reads back as it was last written, whatever the schemas, the  *)
(* alignments and the page size; and a power failure changes nothing of it *)
(* once the directory entry of its path, which finalize does not sync, is  *)
(* on disk.                                                                *)
THEOREM FinalizedStays == Spec => []FinalizedReadsBack
<1>1. Inv => FinalizedReadsBack
  <2> SUFFICES ASSUME Inv, made.phase = "final"
               PROVE  ReadsBack(cache) /\ (linked => ReadsBack(Survives))
    BY DEF FinalizedReadsBack
  <2>1. ReadsBack(cache)
    BY WholeOpens DEF Inv, MadeOK, SealHolds, ReadsBack, MadeContents
  <2>2. linked => Survives = cache
    BY DEF Inv, FinalOnDisk, Survives
  <2>3. QED
    BY <2>1, <2>2
<1>2. QED
  BY <1>1, StoreInv, PTL

(* A store whose writer never reached its seal does not open, whichever of *)
(* its pages the kernel wrote and whatever crashed: if the path opens, the *)
(* store from before is back.                                              *)
THEOREM UnsealedIsRefused == Spec => []UnsealedNeverOpens
<1>1. Inv => UnsealedNeverOpens
  <2> SUFFICES ASSUME Inv, made.phase = "filling", NEW f \in {cache, Survives}, Opens(f)
               PROVE  Contents(f) \in before
    BY DEF UnsealedNeverOpens
  <2>1. f # NoBytes
    BY NoSealNoOpen DEF NoSeal, NoBytes
  <2>2. f \in {cache, disk}
    BY <2>1 DEF Survives
  <2>3. QED
    BY <2>2, NoSealNoOpen DEF Inv, Unsealed, Reading, TypeOK
<1>2. QED
  BY <1>1, StoreInv, PTL

(* Without a power failure, a finalize that fails or is killed after it    *)
(* has put the seal in place leaves a whole store or none.                 *)
THEOREM KilledIsWhole == Spec => []KilledFinalizeIsWhole
<1>1. Inv => KilledFinalizeIsWhole
  BY WholeOpens DEF Inv, KilledFinalizeIsWhole, MadeOK, SealHolds, MadeContents
<1>2. QED
  BY <1>1, StoreInv, PTL
=============================================================================
