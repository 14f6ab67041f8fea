--------------------------- MODULE GriddingProofs ---------------------------
(* Proofs about the two stateful algorithms of the library's core, for lattices, *)
(* neighbourhoods, scatters and sessions of any size.  SgsSweep: the sweep       *)
(* informs every node once, a draw sees nothing of the layers before, and the    *)
(* data are honoured.  ConvergentGridder: however often the nodes are dragged,   *)
(* each controlled node owns one sample and no other sample is added, and the    *)
(* field holds what was asked last.                                              *)
EXTENDS SgsSweep, ConvergentGridder, FiniteSetTheorems, WellFoundedInduction, TLAPS

(* A set of naturals has a least element. *)
LEMMA Least ==
  ASSUME NEW T, T \subseteq Nat, T # {}
  PROVE  \E i \in T : \A j \in T : i <= j
<1>1. PICK i \in T : \A j \in T : ~(<<j, i>> \in OpToRel(<, Nat))
  BY NatLessThanWellFounded, WFMin
<1>2. ASSUME NEW j \in T PROVE i <= j
  <2>1. <<j, i>> \in Nat \X Nat /\ i \in Nat /\ j \in Nat
    OBVIOUS
  <2>2. OpToRel(<, Nat) = {ss \in Nat \X Nat : ss[1] < ss[2]}
    BY DEF OpToRel
  <2>3. ~(j < i)
    BY <1>1, <2>1, <2>2
  <2>4. QED
    BY <2>1, <2>3
<1>3. QED
  BY <1>2

LEMMA IsSequence == ASSUME NEW S, NEW n \in Nat, NEW f \in [1 .. n -> S]
                    PROVE  f \in Seq(S) /\ Len(f) = n /\ DOMAIN f = 1 .. n
OBVIOUS

-----------------------------------------------------------------------------
(* SgsSweep                                                                    *)

LEMMA Sizes == NodeCount \in Nat \ {0} /\ MaxLayers \in Nat /\ MaxData \in Nat /\ Nodes = 1 .. NodeCount
BY SgsAssumption DEF Nodes

(* A sequence of n members of a set of n, none twice, has them all. *)
LEMMA Covers ==
  ASSUME NEW S, IsFiniteSet(S), NEW s \in [1 .. Cardinality(S) -> S],
         \A j, k \in DOMAIN s : j # k => s[j] # s[k]
  PROVE  \A x \in S : \E k \in DOMAIN s : s[k] = x
<1>1. Cardinality(S) \in Nat
  BY FS_CardinalityType
<1>2. Cardinality(1 .. Cardinality(S)) = Cardinality(S)
  BY <1>1, FS_Interval
<1>3. s \in Injection(1 .. Cardinality(S), S)
  BY DEF Injection, IsInjective
<1>4. s \in Surjection(1 .. Cardinality(S), S)
  BY <1>2, <1>3, FS_Injection
<1>5. QED
  BY <1>4 DEF Surjection

-----------------------------------------------------------------------------
(* A finite set of naturals can be put in ascending order: its least element    *)
(* first, then the others.                                                      *)
IsAscending(S, s) == /\ s \in [1 .. Cardinality(S) -> S]
                     /\ \A j, k \in DOMAIN s : j < k => s[j] < s[k]

LEMMA AscendingExists ==
  ASSUME NEW S, S \subseteq Nat, IsFiniteSet(S)
  PROVE  \E s : IsAscending(S, s)
<1> DEFINE Stuck(T) == T \subseteq Nat /\ IsFiniteSet(T) /\ ~ \E s : IsAscending(T, s)
           bad == {n \in Nat : \E T : Stuck(T) /\ Cardinality(T) = n}
<1>1. bad = {}
  <2>1. SUFFICES ASSUME bad # {} PROVE FALSE
    OBVIOUS
  <2>2. PICK n \in bad : \A m \in bad : n <= m
    BY <2>1, Least
  <2>3. PICK T : Stuck(T) /\ Cardinality(T) = n
    BY <2>2
  <2>4. T # {}
    <3>1. SUFFICES ASSUME T = {} PROVE FALSE
      OBVIOUS
    <3>2. Cardinality(T) = 0
      BY <3>1, FS_EmptySet
    <3>3. IsAscending(T, [i \in 1 .. 0 |-> 0])
      BY <3>2 DEF IsAscending
    <3>4. QED
      BY <2>3, <3>3
  <2>5. PICK m \in T : \A x \in T : m <= x
    BY <2>3, <2>4, Least
  <2> DEFINE U == T \ {m}
  <2>6. IsFiniteSet(U) /\ Cardinality(U) = n - 1 /\ U \subseteq Nat /\ n \in Nat /\ n - 1 \in Nat
    <3>1. IsFiniteSet(U) /\ Cardinality(U) = n - 1
      BY <2>3, FS_RemoveElement
    <3>2. Cardinality(U) \in Nat
      BY <3>1, FS_CardinalityType
    <3>3. QED
      BY <2>2, <2>3, <3>1, <3>2
  <2>7. PICK s : IsAscending(U, s)
    <3>1. n - 1 \notin bad
      BY <2>2, <2>6
    <3>2. QED
      BY <2>6, <3>1
  <2> DEFINE t == [i \in 1 .. n |-> IF i = 1 THEN m ELSE s[i - 1]]
  <2>8. s \in [1 .. n - 1 -> U] /\ \A j, k \in 1 .. n - 1 : j < k => s[j] < s[k]
    BY <2>6, <2>7 DEF IsAscending
  <2>9. ASSUME NEW i \in 1 .. n, i # 1 PROVE i - 1 \in 1 .. n - 1 /\ t[i] = s[i - 1] /\ t[i] \in U
    <3>1. i - 1 \in 1 .. n - 1
      BY <2>6, <2>9
    <3>2. QED
      BY <2>8, <2>9, <3>1
  <2>10. t \in [1 .. n -> T]
    BY <2>9
  <2>11. ASSUME NEW j \in 1 .. n, NEW k \in 1 .. n, j < k PROVE t[j] < t[k]
    <3>1. j \in Nat /\ k \in Nat /\ k # 1
      BY <2>6, <2>11
    <3>2. t[k] = s[k - 1] /\ t[k] \in U /\ k - 1 \in 1 .. n - 1
      BY <2>9, <3>1
    <3>3. CASE j = 1
      <4>1. t[j] = m /\ m \in Nat /\ t[k] \in Nat /\ m <= t[k] /\ t[k] # m
        BY <2>3, <2>5, <2>6, <3>2, <3>3
      <4>2. QED
        BY <4>1
    <3>4. CASE j # 1
      <4>1. t[j] = s[j - 1] /\ j - 1 \in 1 .. n - 1 /\ j - 1 < k - 1
        BY <2>9, <2>11, <3>1, <3>4
      <4>2. QED
        BY <2>8, <3>2, <4>1
    <3>5. QED
      BY <3>3, <3>4
  <2>12. IsAscending(T, t)
    BY <2>3, <2>10, <2>11 DEF IsAscending
  <2>13. QED
    BY <2>3, <2>12
<1>2. Cardinality(S) \in Nat
  BY FS_CardinalityType
<1>3. QED
  BY <1>1, <1>2

LEMMA AscendingCovers ==
  ASSUME NEW S, S \subseteq Nat, IsFiniteSet(S)
  PROVE  /\ Cardinality(S) \in Nat /\ DOMAIN Ascending(S) = 1 .. Cardinality(S)
         /\ \A k \in DOMAIN Ascending(S) : Ascending(S)[k] \in S
         /\ \A j, k \in DOMAIN Ascending(S) : Ascending(S)[j] = Ascending(S)[k] => j = k
         /\ \A x \in S : \E k \in DOMAIN Ascending(S) : Ascending(S)[k] = x
<1>1. IsAscending(S, Ascending(S))
  BY AscendingExists DEF IsAscending, Ascending
<1>2. Cardinality(S) \in Nat
  BY FS_CardinalityType
<1> DEFINE s == Ascending(S)
<1>3. s \in [1 .. Cardinality(S) -> S] /\ \A j, k \in 1 .. Cardinality(S) : j < k => s[j] < s[k]
  BY <1>1 DEF IsAscending
<1> HIDE DEF s
<1>4. ASSUME NEW j \in 1 .. Cardinality(S), NEW k \in 1 .. Cardinality(S), s[j] = s[k] PROVE j = k
  <2>1. s[j] \in Nat
    BY <1>3
  <2>2. ~(s[j] < s[k]) /\ ~(s[k] < s[j])
    BY <1>4, <2>1
  <2>3. ~(j < k) /\ ~(k < j)
    BY <1>3, <2>2
  <2>4. QED
    BY <1>2, <2>3
<1>5. \A x \in S : \E k \in DOMAIN s : s[k] = x
  <2>1. \A j, k \in DOMAIN s : j # k => s[j] # s[k]
    BY <1>3, <1>4
  <2>2. QED
    BY <1>3, <2>1, Covers
<1>6. QED
  BY <1>2, <1>3, <1>4, <1>5 DEF s

-----------------------------------------------------------------------------
(* The informing data of a layer: the first of each node that has data.        *)
FirstsOnly(d) ==
  LET firsts == Ascending(Informing(d))
      at(n) == {k \in DOMAIN d : d[k] = n}
  IN /\ Cardinality(Informing(d)) \in Nat /\ DOMAIN firsts = 1 .. Cardinality(Informing(d))
     /\ \A i \in DOMAIN firsts :
          /\ firsts[i] \in Nat /\ d[firsts[i]] \in Nodes
          /\ at(d[firsts[i]]) # {} /\ firsts[i] = FirstOf(at(d[firsts[i]]))
     /\ \A i, j \in DOMAIN firsts : d[firsts[i]] = d[firsts[j]] => i = j
     /\ \A n \in Nodes : at(n) # {} => \E i \in DOMAIN firsts : d[firsts[i]] = n

LEMMA Snapped ==
  ASSUME NEW m \in Nat, NEW d \in [1 .. m -> Nodes \cup {0}]
  PROVE  FirstsOnly(d)
<1> DEFINE firsts == Ascending(Informing(d))
           at(n) == {k \in DOMAIN d : d[k] = n}
<1>1. Informing(d) \subseteq 1 .. m /\ Informing(d) \subseteq Nat /\ IsFiniteSet(Informing(d))
  <2>1. Informing(d) \subseteq 1 .. m /\ 1 .. m \subseteq Nat
    BY DEF Informing
  <2>2. IsFiniteSet(1 .. m)
    BY FS_Interval
  <2>3. QED
    BY <2>1, <2>2, FS_Subset
<1>2. /\ Cardinality(Informing(d)) \in Nat /\ DOMAIN firsts = 1 .. Cardinality(Informing(d))
      /\ \A k \in DOMAIN firsts : firsts[k] \in Informing(d)
      /\ \A j, k \in DOMAIN firsts : firsts[j] = firsts[k] => j = k
      /\ \A x \in Informing(d) : \E k \in DOMAIN firsts : firsts[k] = x
  BY <1>1, AscendingCovers
<1> HIDE DEF firsts
<1>3. ASSUME NEW k \in Informing(d)
      PROVE  /\ k \in 1 .. m /\ d[k] \in Nodes /\ k \in at(d[k])
             /\ \A l \in at(d[k]) : k <= l
  <2>1. k \in 1 .. m /\ d[k] \in Nodes /\ k \in at(d[k])
    BY <1>1 DEF Informing
  <2>2. ASSUME NEW l \in at(d[k]) PROVE k <= l
    <3>1. l \in 1 .. m /\ d[l] = d[k]
      OBVIOUS
    <3>2. l \notin 1 .. k - 1
      BY <3>1 DEF Informing
    <3>3. QED
      BY <2>1, <3>1, <3>2
  <2>3. QED
    BY <2>1, <2>2
<1>4. ASSUME NEW k \in Informing(d), NEW l \in at(d[k]), \A x \in at(d[k]) : l <= x PROVE l = k
  <2>1. k <= l /\ l <= k /\ k \in Nat /\ l \in Nat
    BY <1>3, <1>4
  <2>2. QED
    BY <2>1
<1>5. ASSUME NEW k \in Informing(d) PROVE at(d[k]) # {} /\ k = FirstOf(at(d[k]))
  BY <1>3, <1>4 DEF FirstOf
<1>6. ASSUME NEW i \in DOMAIN firsts, NEW j \in DOMAIN firsts, d[firsts[i]] = d[firsts[j]] PROVE i = j
  <2>1. firsts[i] \in Informing(d) /\ firsts[j] \in Informing(d)
    BY <1>2
  <2>2. firsts[i] = FirstOf(at(d[firsts[i]])) /\ firsts[j] = FirstOf(at(d[firsts[j]]))
    BY <1>5, <2>1
  <2>3. firsts[i] = firsts[j]
    BY <1>6, <2>2
  <2>4. QED
    BY <1>2, <2>3
<1>7. ASSUME NEW n \in Nodes, at(n) # {} PROVE \E i \in DOMAIN firsts : d[firsts[i]] = n
  <2>1. at(n) \subseteq Nat /\ n # 0 /\ n \in Nat
    BY Sizes
  <2>2. PICK k \in at(n) : \A l \in at(n) : k <= l
    BY <1>7, <2>1, Least
  <2>3. k \in Informing(d)
    <3>1. ASSUME NEW l \in 1 .. k - 1 PROVE d[l] # d[k]
      <4>1. k \in 1 .. m /\ d[k] = n
        BY <2>2
      <4>2. l \in 1 .. m /\ ~(k <= l)
        BY <4>1
      <4>3. l \notin at(n)
        BY <2>2, <4>2
      <4>4. QED
        BY <4>1, <4>2, <4>3
    <3>2. QED
      BY <2>1, <2>2, <3>1 DEF Informing
  <2>4. QED
    BY <1>2, <2>2, <2>3
<1>8. \A i \in DOMAIN firsts :
        /\ firsts[i] \in Nat /\ d[firsts[i]] \in Nodes
        /\ at(d[firsts[i]]) # {} /\ firsts[i] = FirstOf(at(d[firsts[i]]))
  BY <1>1, <1>2, <1>3, <1>5
<1>9. QED
  BY <1>2, <1>6, <1>7, <1>8 DEF firsts, FirstsOnly

-----------------------------------------------------------------------------
(* The invariant.  The path walks the nodes without data, each once; the        *)
(* informed list and the search index hold the nodes with data and those walked *)
(* so far, each once, with its score of this layer.                             *)
Types ==
  /\ layer \in 0 .. MaxLayers /\ (visited = -1 \/ visited \in 0 .. Len(path))
  /\ visited # -1 => layer > 0
  /\ path \in Seq(Nodes) /\ infPos \in Seq(Nodes) /\ infVal \in Seq(Score)
  /\ sim = [n \in Nodes |-> sim[n]] /\ given = [n \in Nodes |-> given[n]]
  /\ \A k \in DOMAIN data : k \in Nat

Walked == {path[i] : i \in 1 .. (IF visited = -1 THEN Len(path) ELSE visited)}

PathOK ==
  /\ \A j, k \in DOMAIN path : path[j] = path[k] => j = k
  /\ \A k \in DOMAIN path : DataAt(path[k]) = {}
  /\ layer > 0 => \A n \in Nodes : DataAt(n) = {} => \E k \in DOMAIN path : path[k] = n

ListOK ==
  /\ \A j, k \in DOMAIN infPos : infPos[j] = infPos[k] => j = k
  /\ Len(infVal) = Len(infPos)
  /\ \A k \in DOMAIN infPos : infVal[k] = OwnScore(infPos[k])
  /\ nb = {<<infPos[k], k>> : k \in DOMAIN infPos}
  /\ \A k \in DOMAIN infPos : DataAt(infPos[k]) # {} \/ infPos[k] \in Walked
  /\ \A n \in Nodes : DataAt(n) # {} \/ n \in Walked => \E k \in DOMAIN infPos : infPos[k] = n

SweepOK == Types /\ PathOK /\ ListOK /\ LayersAreIndependent /\ DataAreHonoured

LEMMA SweepInit == SgsInit => SweepOK
<1> SUFFICES ASSUME SgsInit PROVE SweepOK
  OBVIOUS
<1>1. \A n : DataAt(n) = {}
  BY DEF SgsInit, DataAt
<1>2. Types
  BY Sizes DEF SgsInit, Types
<1>3. Walked = {} /\ DOMAIN path = {} /\ DOMAIN infPos = {} /\ Len(infPos) = 0 /\ Len(infVal) = 0
  BY DEF SgsInit, Walked
<1>4. PathOK
  BY <1>3 DEF PathOK, SgsInit
<1>5. ListOK
  BY <1>1, <1>3 DEF ListOK, SgsInit
<1>6. LayersAreIndependent /\ DataAreHonoured
  BY <1>1 DEF SgsInit, LayersAreIndependent, DataAreHonoured
<1>7. QED
  BY <1>2, <1>4, <1>5, <1>6 DEF SweepOK

LEMMA EmptyConcat == ASSUME NEW S, NEW s \in Seq(S) PROVE <<>> \o s = s
OBVIOUS

LEMMA BeginStep == ASSUME SweepOK, BeginLayer PROVE SweepOK'
<1>1. PICK d \in UNION {[1 .. n -> Nodes \cup {0}] : n \in 1 .. MaxData} :
        LET l == layer + 1
            firsts == Ascending(Informing(d))
            at(n) == {k \in DOMAIN d : d[k] = n}
            fixed == {n \in Nodes : at(n) # {}}
            pos == Kept.pos \o [i \in DOMAIN firsts |-> d[firsts[i]]]
        IN /\ layer' = l /\ data' = d
           /\ sim' = [n \in Nodes |-> IF n \in fixed THEN Scored(l, LastOf(at(n))) ELSE Undrawn]
           /\ infPos' = pos
           /\ infVal' = Kept.val \o [i \in DOMAIN firsts |-> Scored(l, firsts[i])]
           /\ nb' = Kept.nb \cup Indexed(pos, Len(Kept.pos) + 1)
           /\ \E walk \in Orders(Nodes \ fixed) : path' = Kept.path \o walk
  BY DEF BeginLayer
<1>2. PICK m \in Nat : d \in [1 .. m -> Nodes \cup {0}]
  BY Sizes
<1>3. layer' = layer + 1 /\ layer' \in 1 .. MaxLayers /\ visited' = 0 /\ data' = d
      /\ given' = [n \in Nodes |-> {}]
  <2>1. layer \in 0 .. MaxLayers /\ layer < MaxLayers /\ MaxLayers \in Nat
    BY Sizes DEF BeginLayer, SweepOK, Types
  <2>2. layer + 1 \in 1 .. MaxLayers
    BY <2>1
  <2>3. layer' = layer + 1 /\ visited' = 0 /\ data' = d /\ given' = [n \in Nodes |-> {}]
    BY <1>1 DEF BeginLayer
  <2>4. QED
    BY <2>2, <2>3
<1> DEFINE l == layer + 1
           firsts == Ascending(Informing(d))
           at(n) == {k \in DOMAIN d : d[k] = n}
           fixed == {n \in Nodes : at(n) # {}}
           first == [i \in DOMAIN firsts |-> d[firsts[i]]]
           scores == [i \in DOMAIN firsts |-> Scored(l, firsts[i])]
<1>4. /\ Cardinality(Informing(d)) \in Nat /\ DOMAIN firsts = 1 .. Cardinality(Informing(d))
      /\ \A i \in DOMAIN firsts :
                 /\ firsts[i] \in Nat /\ d[firsts[i]] \in Nodes
                 /\ at(d[firsts[i]]) # {} /\ firsts[i] = FirstOf(at(d[firsts[i]]))
      /\ \A i, j \in DOMAIN firsts : d[firsts[i]] = d[firsts[j]] => i = j
      /\ \A n \in Nodes : at(n) # {} => \E i \in DOMAIN firsts : d[firsts[i]] = n
  <2>1. FirstsOnly(d)
    BY <1>2, Snapped
  <2>2. QED
    BY <2>1 DEF FirstsOnly
<1>5. PICK walk \in Orders(Nodes \ fixed) : path' = <<>> \o walk
  BY <1>1 DEF Kept
<1>6. /\ sim' = [n \in Nodes |-> IF n \in fixed THEN Scored(l, LastOf(at(n))) ELSE Undrawn]
      /\ infPos' = <<>> \o first /\ infVal' = <<>> \o scores
      /\ nb' = {} \cup Indexed(<<>> \o first, Len(<<>>) + 1)
  BY <1>1 DEF Kept
<1> HIDE DEF firsts
<1>7. first \in Seq(Nodes) /\ scores \in Seq(Score)
  <2>1. first \in [1 .. Cardinality(Informing(d)) -> Nodes]
    BY <1>4
  <2>2. ASSUME NEW i \in DOMAIN firsts PROVE Scored(l, firsts[i]) \in Score
    BY <1>3, <1>4 DEF Scored, Score
  <2>3. scores \in [1 .. Cardinality(Informing(d)) -> Score]
    BY <1>4, <2>2
  <2>4. Cardinality(Informing(d)) \in Nat
    BY <1>4
  <2>5. first \in Seq(Nodes)
    BY <2>1, <2>4, IsSequence
  <2>6. QED
    BY <2>3, <2>4, <2>5, IsSequence
<1>8. infPos' = first /\ infVal' = scores /\ nb' = {<<first[k], k>> : k \in 1 .. Len(first)}
  <2>1. <<>> \o first = first /\ <<>> \o scores = scores
    BY <1>7, EmptyConcat
  <2>2. Len(<<>>) + 1 = 1
    OBVIOUS
  <2>3. Indexed(first, 1) = {<<first[k], k>> : k \in 1 .. Len(first)}
    BY DEF Indexed
  <2>4. QED
    BY <1>6, <2>1, <2>2, <2>3
<1> DEFINE rest == Nodes \ fixed
<1>9. IsFiniteSet(rest) /\ Cardinality(rest) \in Nat
  <2>1. IsFiniteSet(Nodes)
    BY Sizes, FS_Interval
  <2>2. IsFiniteSet(rest)
    BY <2>1, FS_Difference
  <2>3. QED
    BY <2>2, FS_CardinalityType
<1>10. /\ walk \in [1 .. Cardinality(rest) -> rest]
       /\ \A j, k \in DOMAIN walk : j # k => walk[j] # walk[k]
  <2>1. walk \in Orders(rest)
    BY <1>5
  <2> HIDE DEF rest
  <2>2. QED
    BY <2>1 DEF Orders
<1>11. \A x \in rest : \E k \in DOMAIN walk : walk[k] = x
  <2> HIDE DEF rest
  <2>1. QED
    BY <1>9, <1>10, Covers
<1>12. path' = walk /\ path' \in Seq(Nodes) /\ DOMAIN path' = 1 .. Len(path') /\ Len(path') \in Nat
  <2>1. walk \in Seq(Nodes)
    <3>1. walk \in Seq(rest) /\ rest \subseteq Nodes
      <4>1. rest \subseteq Nodes
        OBVIOUS
      <4> HIDE DEF rest
      <4>2. QED
        BY <1>9, <1>10, <4>1, IsSequence
    <3> HIDE DEF rest
    <3>2. QED
      BY <3>1
  <2>2. QED
    BY <1>5, <2>1, EmptyConcat
<1>13. \A n : DataAt(n)' = at(n)
  BY <1>3 DEF DataAt
<1>14. Types'
  <2>1. infPos' \in Seq(Nodes) /\ infVal' \in Seq(Score)
    BY <1>7, <1>8
  <2>2. visited' \in 0 .. Len(path')
    BY <1>3, <1>12
  <2>3. \A k \in DOMAIN data' : k \in Nat
    BY <1>2, <1>3
  <2>4. sim' = [n \in Nodes |-> sim'[n]] /\ given' = [n \in Nodes |-> given'[n]]
    BY <1>3, <1>6
  <2>5. QED
    BY <1>3, <1>12, <2>1, <2>2, <2>3, <2>4 DEF Types
<1>15. PathOK'
  <2>1. \A j, k \in DOMAIN path' : path'[j] = path'[k] => j = k
    BY <1>10, <1>12
  <2>2. \A k \in DOMAIN path' : DataAt(path[k])' = {}
    BY <1>10, <1>12, <1>13
  <2>3. \A n \in Nodes : DataAt(n)' = {} => \E k \in DOMAIN path' : path'[k] = n
    BY <1>11, <1>12, <1>13
  <2>4. QED
    BY <2>1, <2>2, <2>3 DEF PathOK
<1>16. Walked' = {}
  BY <1>3 DEF Walked
<1>17. ListOK'
  <2>1. DOMAIN infPos' = DOMAIN firsts /\ Len(infPos') = Cardinality(Informing(d))
        /\ Len(infVal') = Cardinality(Informing(d)) /\ DOMAIN infPos' = 1 .. Len(infPos')
    BY <1>4, <1>8
  <2>2. ASSUME NEW k \in DOMAIN infPos'
        PROVE  /\ infPos'[k] = d[firsts[k]] /\ infVal'[k] = Scored(l, firsts[k])
               /\ DataAt(infPos[k])' # {} /\ firsts[k] = FirstOf(DataAt(infPos[k])')
    <3>1. k \in DOMAIN firsts
      BY <2>1
    <3>2. infPos'[k] = d[firsts[k]] /\ infVal'[k] = Scored(l, firsts[k])
      BY <1>8, <3>1
    <3>3. DataAt(infPos[k])' = at(infPos'[k])
      BY <1>13
    <3>4. at(d[firsts[k]]) # {} /\ firsts[k] = FirstOf(at(d[firsts[k]]))
      BY <1>4, <3>1
    <3>5. DataAt(infPos[k])' = at(d[firsts[k]])
      BY <3>2, <3>3
    <3>6. QED
      BY <3>2, <3>4, <3>5
  <2>3. \A k \in DOMAIN infPos' : infVal'[k] = OwnScore(infPos[k])'
    BY <1>3, <2>2 DEF OwnScore
  <2>4. \A j, k \in DOMAIN infPos' : infPos'[j] = infPos'[k] => j = k
    BY <1>4, <2>1, <2>2
  <2>5. nb' = {<<infPos'[k], k>> : k \in DOMAIN infPos'}
    BY <1>8, <2>1
  <2>6. ASSUME NEW n \in Nodes, DataAt(n)' # {} PROVE \E k \in DOMAIN infPos' : infPos'[k] = n
    BY <1>4, <1>13, <2>1, <2>2, <2>6
  <2>7. QED
    BY <1>16, <2>1, <2>2, <2>3, <2>4, <2>5, <2>6 DEF ListOK
<1>18. LayersAreIndependent'
  BY <1>3 DEF LayersAreIndependent
<1>19. DataAreHonoured'
  BY <1>3, <1>6, <1>13 DEF DataAreHonoured
<1>20. QED
  BY <1>14, <1>15, <1>17, <1>18, <1>19 DEF SweepOK

LEMMA DrawStep == ASSUME SweepOK, Draw PROVE SweepOK'
<1> DEFINE n == path[visited + 1]
<1>1. /\ visited \in 0 .. Len(path) /\ visited + 1 \in DOMAIN path /\ layer > 0 /\ layer \in 0 .. MaxLayers
      /\ Len(path) \in Nat /\ DOMAIN path = 1 .. Len(path) /\ n \in Nodes
  BY DEF Draw, SweepOK, Types
<1>2. PICK near \in Nearest(n) :
        given' = [given EXCEPT ![n] = {<<infPos[e[2]], infVal[e[2]]>> : e \in near}]
  BY DEF Draw
<1>3. /\ sim' = [sim EXCEPT ![n] = Drawn(layer, n)]
      /\ infPos' = Append(infPos, n) /\ infVal' = Append(infVal, Drawn(layer, n))
      /\ nb' = nb \cup {<<n, Len(infPos) + 1>>}
      /\ visited' = visited + 1
      /\ UNCHANGED <<layer, data, path>>
  BY DEF Draw
<1>4. DataAt(n) = {} /\ n \notin Walked
  <2>1. DataAt(n) = {}
    BY <1>1 DEF SweepOK, PathOK
  <2>2. ASSUME NEW i \in 1 .. visited PROVE path[i] # n
    <3>1. i \in DOMAIN path /\ i # visited + 1
      BY <1>1
    <3>2. QED
      BY <1>1, <3>1 DEF SweepOK, PathOK
  <2>3. QED
    BY <1>1, <2>1, <2>2 DEF Walked
<1> HIDE DEF n
<1>5. \A k \in DOMAIN infPos : infPos[k] # n
  BY <1>4 DEF SweepOK, ListOK
<1>6. \A x : DataAt(x)' = DataAt(x) /\ OwnScore(x)' = OwnScore(x)
  BY <1>3 DEF DataAt, OwnScore
<1>7. Walked' = Walked \cup {n}
  <2>1. Walked = {path[i] : i \in 1 .. visited} /\ Walked' = {path[i] : i \in 1 .. visited + 1}
    BY <1>1, <1>3 DEF Walked
  <2>2. QED
    BY <1>1, <2>1 DEF n
<1>8. /\ infPos \in Seq(Nodes) /\ infVal \in Seq(Score) /\ Drawn(layer, n) \in Score
      /\ Len(infPos) \in Nat /\ DOMAIN infPos = 1 .. Len(infPos)
      /\ Len(infVal) = Len(infPos)
  <2>1. Drawn(layer, n) \in Score
    BY <1>1, Sizes DEF Drawn, Score
  <2>2. QED
    BY <2>1 DEF SweepOK, Types, ListOK
<1>9. /\ infPos' \in Seq(Nodes) /\ infVal' \in Seq(Score)
      /\ Len(infPos') = Len(infPos) + 1 /\ Len(infVal') = Len(infPos')
      /\ DOMAIN infPos' = DOMAIN infPos \cup {Len(infPos) + 1}
      /\ \A k \in DOMAIN infPos : infPos'[k] = infPos[k] /\ infVal'[k] = infVal[k]
      /\ infPos'[Len(infPos) + 1] = n /\ infVal'[Len(infPos) + 1] = Drawn(layer, n)
      /\ Len(infPos) + 1 \notin DOMAIN infPos
  BY <1>1, <1>3, <1>8
<1>10. Types'
  <2>1. visited' \in 0 .. Len(path') /\ visited' # -1
    BY <1>1, <1>3
  <2>2. sim' = [x \in Nodes |-> sim'[x]]
    BY <1>3 DEF SweepOK, Types
  <2>3. given' = [x \in Nodes |-> given'[x]]
    BY <1>2 DEF SweepOK, Types
  <2>4. QED
    BY <1>1, <1>3, <1>9, <2>1, <2>2, <2>3 DEF SweepOK, Types
<1>11. PathOK'
  BY <1>3, <1>6 DEF SweepOK, PathOK
<1>12. ListOK'
  <2>1. \A j, k \in DOMAIN infPos' : infPos'[j] = infPos'[k] => j = k
    BY <1>5, <1>9 DEF SweepOK, ListOK
  <2>2. \A k \in DOMAIN infPos' : infVal'[k] = OwnScore(infPos[k])'
    <3>1. OwnScore(n) = Drawn(layer, n)
      BY <1>4 DEF OwnScore
    <3>2. \A k \in DOMAIN infPos : infVal[k] = OwnScore(infPos[k])
      BY DEF SweepOK, ListOK
    <3>3. QED
      BY <1>6, <1>9, <3>1, <3>2
  <2>3. nb' = {<<infPos'[k], k>> : k \in DOMAIN infPos'}
    <3>1. nb = {<<infPos[k], k>> : k \in DOMAIN infPos}
      BY DEF SweepOK, ListOK
    <3>2. QED
      BY <1>3, <1>9, <3>1
  <2>4. \A k \in DOMAIN infPos' : DataAt(infPos[k])' # {} \/ infPos'[k] \in Walked'
    <3>1. \A k \in DOMAIN infPos : DataAt(infPos[k]) # {} \/ infPos[k] \in Walked
      BY DEF SweepOK, ListOK
    <3>2. QED
      BY <1>6, <1>7, <1>9, <3>1
  <2>5. ASSUME NEW x \in Nodes, DataAt(x)' # {} \/ x \in Walked'
        PROVE  \E k \in DOMAIN infPos' : infPos'[k] = x
    <3>1. CASE x = n
      BY <1>9, <3>1
    <3>2. CASE x # n
      <4>1. DataAt(x) # {} \/ x \in Walked
        BY <1>6, <1>7, <2>5, <3>2
      <4>2. PICK k \in DOMAIN infPos : infPos[k] = x
        BY <4>1 DEF SweepOK, ListOK
      <4>3. QED
        BY <1>9, <4>2
    <3>3. QED
      BY <3>1, <3>2
  <2>6. QED
    BY <1>9, <2>1, <2>2, <2>3, <2>4, <2>5 DEF ListOK
<1>13. LayersAreIndependent'
  <2>1. ASSUME NEW e \in near
        PROVE  infPos[e[2]] # n /\ infVal[e[2]] = OwnScore(infPos[e[2]])
    <3>1. e \in nb
      BY DEF Nearest
    <3>2. PICK k \in DOMAIN infPos : e = <<infPos[k], k>>
      BY <3>1 DEF SweepOK, ListOK
    <3>3. e[2] = k
      BY <3>2
    <3>4. QED
      BY <1>5, <3>3 DEF SweepOK, ListOK
  <2>2. given'[n] = {<<infPos[e[2]], infVal[e[2]]>> : e \in near}
        /\ \A x \in Nodes : x # n => given'[x] = given[x]
    BY <1>1, <1>2 DEF SweepOK, Types, n
  <2>3. ASSUME NEW x \in Nodes, NEW g \in given'[x] PROVE g[1] # x /\ g[2] = OwnScore(g[1])
    <3>1. CASE x = n
      BY <2>1, <2>2, <3>1
    <3>2. CASE x # n
      BY <2>2, <3>2 DEF SweepOK, LayersAreIndependent
    <3>3. QED
      BY <3>1, <3>2
  <2>4. QED
    BY <1>6, <2>3 DEF LayersAreIndependent
<1>14. DataAreHonoured'
  <2>1. n \in Nodes /\ sim'[n] = Drawn(layer, n) /\ \A x \in Nodes : x # n => sim'[x] = sim[x]
    BY <1>1, <1>3 DEF SweepOK, Types, n
  <2>2. QED
    BY <1>3, <1>4, <1>6, <2>1 DEF SweepOK, DataAreHonoured
<1>15. QED
  BY <1>10, <1>11, <1>12, <1>13, <1>14 DEF SweepOK

LEMMA EndStep == ASSUME SweepOK, EndLayer PROVE SweepOK'
<1>1. visited = Len(path) /\ visited' = -1
      /\ UNCHANGED <<layer, data, sim, infPos, infVal, path, nb, given>>
  BY DEF EndLayer
<1>2. Walked' = Walked
  <2>1. visited # -1
    BY <1>1 DEF SweepOK, Types
  <2>2. QED
    BY <1>1, <2>1 DEF Walked
<1>3. \A x : DataAt(x)' = DataAt(x) /\ OwnScore(x)' = OwnScore(x)
  BY <1>1 DEF DataAt, OwnScore
<1>4. Types' /\ PathOK' /\ LayersAreIndependent' /\ DataAreHonoured'
  BY <1>1, <1>3 DEF SweepOK, Types, PathOK, LayersAreIndependent, DataAreHonoured
<1>5. ListOK'
  BY <1>1, <1>2, <1>3 DEF SweepOK, ListOK
<1>6. QED
  BY <1>4, <1>5 DEF SweepOK

LEMMA StutterStep == ASSUME SweepOK, UNCHANGED sgsVars PROVE SweepOK'
<1>1. UNCHANGED <<layer, data, sim, infPos, infVal, path, nb, visited, given>>
  BY DEF sgsVars
<1>2. \A x : DataAt(x)' = DataAt(x) /\ OwnScore(x)' = OwnScore(x)
  BY <1>1 DEF DataAt, OwnScore
<1>3. Walked' = Walked
  BY <1>1 DEF Walked
<1>4. Types' /\ PathOK' /\ LayersAreIndependent' /\ DataAreHonoured'
  BY <1>1, <1>2 DEF SweepOK, Types, PathOK, LayersAreIndependent, DataAreHonoured
<1>5. ListOK'
  BY <1>1, <1>2, <1>3 DEF SweepOK, ListOK
<1>6. QED
  BY <1>4, <1>5 DEF SweepOK

(* The invariant that the properties rest on. *)
THEOREM SweepInv == SgsSpec => []SweepOK
<1>1. SweepOK /\ [SgsNext]_sgsVars => SweepOK'
  BY BeginStep, DrawStep, EndStep, StutterStep DEF SgsNext
<1>2. QED
  BY SweepInit, <1>1, PTL DEF SgsSpec

(* What the layers before left in the informed list, the scores and the search  *)
(* index reaches no later layer: every draw of every layer is conditioned on    *)
(* nodes' own scores of that layer.                                             *)
THEOREM NothingLeaks == SgsSpec => []LayersAreIndependent
<1>1. SweepOK => LayersAreIndependent
  BY DEF SweepOK
<1>2. QED
  BY <1>1, SweepInv, PTL

(* Every node is informed exactly once, and the search index agrees with the    *)
(* informed list.                                                               *)
THEOREM EveryNodeOnce == SgsSpec => []InformedOnce
<1>1. SweepOK => InformedOnce
  <2> SUFFICES ASSUME SweepOK PROVE InformedOnce
    OBVIOUS
  <2>1. /\ \A j, k \in DOMAIN infPos : infPos[j] = infPos[k] => j = k
        /\ nb = {<<infPos[k], k>> : k \in DOMAIN infPos}
    BY DEF SweepOK, ListOK
  <2>2. ASSUME layer > 0, visited \in {-1, Len(path)}, NEW n \in Nodes
        PROVE  \E k \in DOMAIN infPos : infPos[k] = n
    <3>1. DOMAIN path = 1 .. Len(path) /\ Walked = {path[i] : i \in 1 .. Len(path)}
      <4>1. path \in Seq(Nodes)
        BY DEF SweepOK, Types
      <4>2. DOMAIN path = 1 .. Len(path)
        BY <4>1
      <4>3. (IF visited = -1 THEN Len(path) ELSE visited) = Len(path)
        BY <2>2
      <4>4. QED
        BY <4>2, <4>3 DEF Walked
    <3>2. DataAt(n) # {} \/ n \in Walked
      <4>1. DataAt(n) = {} => \E k \in DOMAIN path : path[k] = n
        BY <2>2 DEF SweepOK, PathOK
      <4>2. QED
        BY <3>1, <4>1
    <3>3. \A m \in Nodes : DataAt(m) # {} \/ m \in Walked => \E k \in DOMAIN infPos : infPos[k] = m
      BY DEF SweepOK, ListOK
    <3>4. QED
      BY <3>2, <3>3
  <2>3. QED
    BY <2>1, <2>2 DEF InformedOnce
<1>2. QED
  BY <1>1, SweepInv, PTL

(* A node with data holds the last of them from the start of a layer to its     *)
(* end; a node without never holds one.                                         *)
THEOREM DataStay == SgsSpec => []DataAreHonoured
<1>1. SweepOK => DataAreHonoured
  BY DEF SweepOK
<1>2. QED
  BY <1>1, SweepInv, PTL

-----------------------------------------------------------------------------
(* ConvergentGridder                                                           *)

(* Sums over a set do not depend on the order in which its elements are taken. *)

LEMMA SmallestSet ==
  ASSUME NEW S, IsFiniteSet(S), NEW T, T \subseteq SUBSET S, T # {}
  PROVE  \E s \in T : \A u \in T : u \subseteq s => u = s
<1>1. T \subseteq FiniteSubsetsOf(S)
  BY FS_Subset DEF FiniteSubsetsOf
<1>2. PICK s \in T : \A u \in T : ~(<<u, s>> \in StrictSubsetOrdering(S))
  BY <1>1, FS_StrictSubsetOrderingWellFounded, WFMin
<1>3. ASSUME NEW u \in T, u \subseteq s, u # s PROVE FALSE
  <2>1. <<u, s>> \in StrictSubsetOrdering(S)
    BY <1>3 DEF StrictSubsetOrdering
  <2>2. QED
    BY <1>2, <2>1
<1>4. QED
  BY <1>3

(* The recursion that MapThenSumSet makes over the subsets of S.               *)
One(s) == CHOOSE k \in s : TRUE

Summing(f, samples, S) ==
  f = [s \in SUBSET S |-> IF s = {} THEN 0 ELSE samples[One(s)].z + f[s \ {One(s)}]]

Total(samples, S) == MapThenSumSet(LAMBDA k : samples[k].z, S)

LEMMA TotalIs == \A samples, S : Total(samples, S) = (CHOOSE f : Summing(f, samples, S))[S]
BY DEF Total, MapThenSumSet, MapThenFoldSet, Summing, One

LEMMA SummingAt ==
  ASSUME NEW samples, NEW S, NEW f, Summing(f, samples, S), NEW s \in SUBSET S
  PROVE  f[s] = IF s = {} THEN 0 ELSE samples[One(s)].z + f[s \ {One(s)}]
BY DEF Summing

LEMMA OneIn == \A s : s # {} => One(s) \in s
BY DEF One

LEMMA SummingAgree ==
  ASSUME NEW samples, NEW S, NEW U, IsFiniteSet(S), NEW f, NEW g,
         Summing(f, samples, S), Summing(g, samples, U),
         NEW t, t \subseteq S, t \subseteq U
  PROVE  f[t] = g[t]
<1> DEFINE bad == {s \in SUBSET S : s \subseteq U /\ f[s] # g[s]}
<1>1. ASSUME bad # {} PROVE FALSE
  <2>0. bad \subseteq SUBSET S
    OBVIOUS
  <2>1. PICK s \in bad : \A u \in bad : u \subseteq s => u = s
    <3> HIDE DEF bad
    <3>1. QED
      BY <1>1, <2>0, SmallestSet
  <2>2. s \subseteq S /\ s \subseteq U /\ f[s] # g[s]
    BY <2>1
  <2>3. f[s] = IF s = {} THEN 0 ELSE samples[One(s)].z + f[s \ {One(s)}]
    BY <2>2 DEF Summing
  <2>4. g[s] = IF s = {} THEN 0 ELSE samples[One(s)].z + g[s \ {One(s)}]
    BY <2>2 DEF Summing
  <2>5. s # {} => s \ {One(s)} \notin bad
    BY <2>1, OneIn
  <2>6. s # {} => f[s \ {One(s)}] = g[s \ {One(s)}]
    BY <2>2, <2>5
  <2>7. QED
    BY <2>2, <2>3, <2>4, <2>6
<1>2. QED
  BY <1>1

LEMMA SummingExists ==
  ASSUME NEW samples, NEW S, IsFiniteSet(S)
  PROVE  \E f : Summing(f, samples, S)
<1> DEFINE bad == {s \in SUBSET S : ~ \E f : Summing(f, samples, s)}
<1>1. ASSUME bad # {} PROVE FALSE
  <2>0. bad \subseteq SUBSET S
    OBVIOUS
  <2>1. PICK s \in bad : \A u \in bad : u \subseteq s => u = s
    <3> HIDE DEF bad
    <3>1. QED
      BY <1>1, <2>0, SmallestSet
  <2>2. s \subseteq S /\ ~ \E f : Summing(f, samples, s)
    BY <2>1
  <2> DEFINE at(u) == CHOOSE h : Summing(h, samples, u)
             g == [u \in SUBSET s |-> IF u = {} THEN 0
                                      ELSE samples[One(u)].z + at(u \ {One(u)})[u \ {One(u)}]]
  <2>3. ASSUME NEW u \in SUBSET s, u # s PROVE Summing(at(u), samples, u) /\ IsFiniteSet(u)
    <3>1. u \notin bad /\ u \in SUBSET S
      BY <2>1, <2>2, <2>3
    <3>2. QED
      BY <3>1, FS_Subset
  <2>4. ASSUME NEW u \in SUBSET s, u # s PROVE g[u] = at(u)[u]
    <3>1. Summing(at(u), samples, u) /\ IsFiniteSet(u)
      BY <2>3, <2>4
    <3>2. at(u)[u] = IF u = {} THEN 0 ELSE samples[One(u)].z + at(u)[u \ {One(u)}]
      BY <3>1, SummingAt
    <3>3. ASSUME u # {} PROVE at(u)[u \ {One(u)}] = at(u \ {One(u)})[u \ {One(u)}]
      <4>1. u \ {One(u)} \in SUBSET s /\ u \ {One(u)} # s
        BY <2>4, <3>3, OneIn
      <4>2. Summing(at(u \ {One(u)}), samples, u \ {One(u)})
        BY <2>3, <4>1
      <4> HIDE DEF at
      <4>3. QED
        BY <3>1, <4>2, SummingAgree
    <3>4. QED
      BY <3>2, <3>3
  <2>5. ASSUME NEW u \in SUBSET s
        PROVE  g[u] = IF u = {} THEN 0 ELSE samples[One(u)].z + g[u \ {One(u)}]
    <3>1. u # {} => u \ {One(u)} \in SUBSET s /\ u \ {One(u)} # s
      BY OneIn
    <3>2. u # {} => g[u \ {One(u)}] = at(u \ {One(u)})[u \ {One(u)}]
      BY <2>4, <3>1
    <3>3. QED
      BY <3>2
  <2>6. g = [u \in SUBSET s |-> g[u]]
    OBVIOUS
  <2> HIDE DEF g
  <2>7. Summing(g, samples, s)
    BY <2>5, <2>6 DEF Summing
  <2>8. QED
    BY <2>2, <2>7
<1>2. QED
  BY <1>1

LEMMA SummingInt ==
  ASSUME NEW samples, NEW S, IsFiniteSet(S), NEW f, Summing(f, samples, S),
         \A k \in S : samples[k].z \in Int, NEW t \in SUBSET S
  PROVE  f[t] \in Int
<1> DEFINE bad == {s \in SUBSET S : f[s] \notin Int}
<1>1. ASSUME bad # {} PROVE FALSE
  <2>0. bad \subseteq SUBSET S
    OBVIOUS
  <2>1. PICK s \in bad : \A u \in bad : u \subseteq s => u = s
    <3> HIDE DEF bad
    <3>1. QED
      BY <1>1, <2>0, SmallestSet
  <2>2. s \subseteq S /\ f[s] \notin Int
    BY <2>1
  <2>3. f[s] = IF s = {} THEN 0 ELSE samples[One(s)].z + f[s \ {One(s)}]
    BY <2>2, SummingAt
  <2>4. s # {} => samples[One(s)].z \in Int /\ f[s \ {One(s)}] \in Int
    BY <2>1, <2>2, OneIn
  <2>5. QED
    BY <2>2, <2>3, <2>4
<1>2. QED
  BY <1>1

(* Whichever element is taken first, the rest adds up to the same.             *)
LEMMA TakeAny ==
  ASSUME NEW samples, NEW S, IsFiniteSet(S), NEW f, Summing(f, samples, S),
         \A k \in S : samples[k].z \in Int, NEW t \in SUBSET S, NEW k \in t
  PROVE  f[t] = samples[k].z + f[t \ {k}]
<1> DEFINE bad == {s \in SUBSET S : \E x \in s : f[s] # samples[x].z + f[s \ {x}]}
<1>1. ASSUME bad # {} PROVE FALSE
  <2>0. bad \subseteq SUBSET S
    OBVIOUS
  <2>1. PICK s \in bad : \A u \in bad : u \subseteq s => u = s
    <3> HIDE DEF bad
    <3>1. QED
      BY <1>1, <2>0, SmallestSet
  <2>2. PICK x \in s : s \subseteq S /\ f[s] # samples[x].z + f[s \ {x}]
    BY <2>1
  <2> DEFINE y == One(s)
  <2>3. y \in s /\ f[s] = samples[y].z + f[s \ {y}]
    <3>1. s # {} /\ s \in SUBSET S
      BY <2>2
    <3>2. y \in s
      BY <3>1, OneIn
    <3>3. f[s] = samples[One(s)].z + f[s \ {One(s)}]
      BY <3>1 DEF Summing
    <3>4. QED
      BY <3>2, <3>3
  <2> HIDE DEF y
  <2>4. x # y
    BY <2>2, <2>3
  <2>5. s \ {y} \notin bad /\ s \ {x} \notin bad
    BY <2>1, <2>2, <2>3
  <2>6. f[s \ {y}] = samples[x].z + f[(s \ {y}) \ {x}]
    BY <2>2, <2>3, <2>4, <2>5
  <2>7. f[s \ {x}] = samples[y].z + f[(s \ {x}) \ {y}]
    BY <2>2, <2>3, <2>4, <2>5
  <2>8. (s \ {y}) \ {x} = (s \ {x}) \ {y} /\ (s \ {x}) \ {y} \in SUBSET S
    BY <2>2
  <2>9. samples[x].z \in Int /\ samples[y].z \in Int /\ f[(s \ {x}) \ {y}] \in Int
    BY <2>2, <2>3, <2>8, SummingInt
  <2> DEFINE rest == f[(s \ {x}) \ {y}]
  <2>10. f[s \ {y}] = samples[x].z + rest
    BY <2>6, <2>8
  <2> HIDE DEF rest
  <2>11. f[s] = samples[y].z + (samples[x].z + rest) /\ f[s \ {x}] = samples[y].z + rest
    BY <2>3, <2>7, <2>10 DEF rest
  <2>12. rest \in Int
    BY <2>9 DEF rest
  <2>13. QED
    BY <2>2, <2>9, <2>11, <2>12
<1>2. QED
  BY <1>1

LEMMA TotalInt ==
  ASSUME NEW samples, NEW S, IsFiniteSet(S), \A k \in S : samples[k].z \in Int
  PROVE  Total(samples, S) \in Int
<1> DEFINE f == CHOOSE h : Summing(h, samples, S)
<1>1. Summing(f, samples, S)
  BY SummingExists
<1>2. f[S] \in Int
  <2> HIDE DEF f
  <2>1. QED
    BY <1>1, SummingInt
<1>3. QED
  BY <1>2, TotalIs

LEMMA TotalAdd ==
  ASSUME NEW samples, NEW S, IsFiniteSet(S), NEW k, k \notin S,
         \A l \in S \cup {k} : samples[l].z \in Int
  PROVE  Total(samples, S \cup {k}) = samples[k].z + Total(samples, S)
<1> DEFINE U == S \cup {k}
           f == CHOOSE h : Summing(h, samples, U)
           g == CHOOSE h : Summing(h, samples, S)
<1>1. IsFiniteSet(U)
  BY FS_AddElement
<1>2. Summing(f, samples, U) /\ Summing(g, samples, S)
  BY <1>1, SummingExists
<1>3. Total(samples, U) = f[U] /\ Total(samples, S) = g[S]
  BY TotalIs
<1>4. U \ {k} = S /\ k \in U /\ S \subseteq U
  OBVIOUS
<1> HIDE DEF f, g, U
<1>5. f[U] = samples[k].z + f[S]
  <2>1. \A l \in U : samples[l].z \in Int
    BY DEF U
  <2>2. f[U] = samples[k].z + f[U \ {k}]
    BY <1>1, <1>2, <1>4, <2>1, TakeAny
  <2>3. QED
    BY <1>4, <2>2
<1>6. f[S] = g[S]
  BY <1>1, <1>2, <1>4, SummingAgree
<1>7. QED
  BY <1>3, <1>5, <1>6 DEF U

-----------------------------------------------------------------------------
(* Each controlled node owns one sample beyond the scatter, at its place.      *)
Owned(h) ==
  /\ h = [coords |-> h.coords, idx |-> h.idx]
  /\ h.coords \in Seq(Sample)
  /\ IsFiniteSet(DOMAIN h.idx)
  /\ Len(h.coords) = scatter + Cardinality(DOMAIN h.idx)
  /\ \A n \in DOMAIN h.idx : /\ h.idx[n] \in scatter + 1 .. Len(h.coords)
                             /\ h.coords[h.idx[n]].at = n
  /\ \A k \in scatter + 1 .. Len(h.coords) : /\ h.coords[k].at \in DOMAIN h.idx
                                            /\ h.idx[h.coords[k].at] = k

(* What a controlled node is held at, scatter aside.                           *)
ValueAt(h, n) == h.coords[h.idx[n]].z

LEMMA OneControl ==
  ASSUME scatter \in Nat, NEW h, Owned(h), NEW c \in Sample
  PROVE  LET g == AddControl(h, c) IN
         /\ Owned(g) /\ DOMAIN g.idx = DOMAIN h.idx \cup {c.at}
         /\ ValueAt(g, c.at) = c.z
         /\ \A n \in DOMAIN h.idx : n # c.at => ValueAt(g, n) = ValueAt(h, n)
<1>1. /\ h.coords \in Seq(Sample) /\ IsFiniteSet(DOMAIN h.idx)
      /\ Cardinality(DOMAIN h.idx) \in Nat /\ Len(h.coords) \in Nat
      /\ Len(h.coords) = scatter + Cardinality(DOMAIN h.idx)
      /\ DOMAIN h.coords = 1 .. Len(h.coords)
  BY FS_CardinalityType DEF Owned
<1>2. \A n \in DOMAIN h.idx : /\ h.idx[n] \in scatter + 1 .. Len(h.coords)
                              /\ h.coords[h.idx[n]].at = n
  BY DEF Owned
<1>0. \A k \in scatter + 1 .. Len(h.coords) : /\ h.coords[k].at \in DOMAIN h.idx
                                             /\ h.idx[h.coords[k].at] = k
  BY DEF Owned
<1>3. h = [coords |-> h.coords, idx |-> h.idx]
  BY DEF Owned
<1>4. CASE c.at \in DOMAIN h.idx
  <2> DEFINE own == h.idx[c.at]
             held == [h.coords EXCEPT ![own] = c]
  <2>1. AddControl(h, c) = [coords |-> held, idx |-> h.idx]
    BY <1>3, <1>4 DEF AddControl
  <2>2. own \in scatter + 1 .. Len(h.coords) /\ own \in DOMAIN h.coords
    BY <1>1, <1>2, <1>4
  <2>3. held \in Seq(Sample) /\ Len(held) = Len(h.coords)
    BY <1>1, <2>2
  <2>4. ASSUME NEW n \in DOMAIN h.idx PROVE held[h.idx[n]].at = n
    <3>1. h.idx[n] \in DOMAIN h.coords /\ h.coords[h.idx[n]].at = n
      BY <1>1, <1>2
    <3>2. CASE h.idx[n] = own
      <4>1. n = c.at
        BY <1>2, <1>4, <3>1, <3>2
      <4>2. held[own] = c
        BY <2>2
      <4>3. QED
        BY <3>2, <4>1, <4>2
    <3>3. CASE h.idx[n] # own
      <4>1. held[h.idx[n]] = h.coords[h.idx[n]]
        BY <3>1, <3>3
      <4>2. QED
        BY <3>1, <4>1
    <3>4. QED
      BY <3>2, <3>3
  <2>5. ASSUME NEW k \in scatter + 1 .. Len(held)
        PROVE  held[k].at \in DOMAIN h.idx /\ h.idx[held[k].at] = k
    <3>1. k \in scatter + 1 .. Len(h.coords) /\ k \in DOMAIN h.coords
      BY <1>1, <2>3
    <3>2. CASE k = own
      BY <1>4, <2>2, <3>2
    <3>3. CASE k # own
      BY <1>0, <3>1, <3>3
    <3>4. QED
      BY <3>2, <3>3
  <2>6. held[own].z = c.z
    BY <2>2
  <2>7. ASSUME NEW n \in DOMAIN h.idx, n # c.at PROVE held[h.idx[n]].z = h.coords[h.idx[n]].z
    <3>1. h.idx[n] \in DOMAIN h.coords /\ h.coords[h.idx[n]].at = n
      BY <1>1, <1>2
    <3>2. h.coords[own].at = c.at
      BY <1>2, <1>4
    <3>3. h.idx[n] # own
      BY <2>7, <3>1, <3>2
    <3>4. QED
      BY <3>1, <3>3
  <2> HIDE DEF held
  <2>8. Owned([coords |-> held, idx |-> h.idx])
    BY <1>1, <1>2, <2>3, <2>4, <2>5 DEF Owned
  <2>9. DOMAIN h.idx = DOMAIN h.idx \cup {c.at}
    BY <1>4
  <2>10. QED
    BY <2>1, <2>6, <2>7, <2>8, <2>9 DEF ValueAt
<1>5. CASE c.at \notin DOMAIN h.idx
  <2> DEFINE new == Len(h.coords) + 1
             held == Append(h.coords, c)
             idx == [n \in DOMAIN h.idx \cup {c.at} |-> IF n = c.at THEN new ELSE h.idx[n]]
  <2>1. AddControl(h, c) = [coords |-> held, idx |-> idx]
    BY <1>5 DEF AddControl
  <2>2. held \in Seq(Sample) /\ Len(held) = Len(h.coords) + 1 /\ held[new] = c
        /\ \A k \in 1 .. Len(h.coords) : held[k] = h.coords[k]
    BY <1>1
  <2>3. DOMAIN idx = DOMAIN h.idx \cup {c.at} /\ IsFiniteSet(DOMAIN idx)
        /\ Cardinality(DOMAIN idx) = Cardinality(DOMAIN h.idx) + 1
    <3>1. DOMAIN idx = DOMAIN h.idx \cup {c.at}
      OBVIOUS
    <3>2. QED
      BY <1>1, <1>5, <3>1, FS_AddElement
  <2>4. ASSUME NEW n \in DOMAIN idx
        PROVE  idx[n] \in scatter + 1 .. Len(held) /\ held[idx[n]].at = n
    <3>1. CASE n = c.at
      <4>1. idx[n] = new
        BY <2>3, <3>1
      <4>2. new \in scatter + 1 .. new
        BY <1>1
      <4>3. QED
        BY <2>2, <3>1, <4>1, <4>2
    <3>2. CASE n # c.at
      <4>1. n \in DOMAIN h.idx /\ idx[n] = h.idx[n]
        BY <2>3, <2>4, <3>2
      <4>2. h.idx[n] \in scatter + 1 .. Len(h.coords) /\ h.coords[h.idx[n]].at = n
        BY <1>2, <4>1
      <4>3. h.idx[n] \in 1 .. Len(h.coords) /\ h.idx[n] \in scatter + 1 .. Len(h.coords) + 1
        BY <1>1, <4>2
      <4>4. QED
        BY <2>2, <4>1, <4>2, <4>3
    <3>3. QED
      BY <3>1, <3>2
  <2>5. ASSUME NEW k \in scatter + 1 .. Len(held)
        PROVE  held[k].at \in DOMAIN idx /\ idx[held[k].at] = k
    <3>1. CASE k = new
      BY <2>2, <2>3, <3>1
    <3>2. CASE k # new
      <4>1. k \in scatter + 1 .. Len(h.coords) /\ k \in 1 .. Len(h.coords)
        BY <1>1, <2>2, <3>2
      <4>2. held[k] = h.coords[k]
        BY <2>2, <4>1
      <4>3. h.coords[k].at \in DOMAIN h.idx /\ h.idx[h.coords[k].at] = k
        BY <1>0, <4>1
      <4>4. idx[h.coords[k].at] = h.idx[h.coords[k].at] /\ h.coords[k].at \in DOMAIN idx
        BY <1>5, <2>3, <4>3
      <4>5. QED
        BY <4>2, <4>3, <4>4
    <3>3. QED
      BY <3>1, <3>2
  <2>6. held[idx[c.at]].z = c.z
    <3>1. idx[c.at] = new
      BY <2>3
    <3>2. QED
      BY <2>2, <3>1
  <2>7. ASSUME NEW n \in DOMAIN h.idx, n # c.at PROVE held[idx[n]].z = h.coords[h.idx[n]].z
    <3>1. idx[n] = h.idx[n]
      BY <2>7
    <3>2. h.idx[n] \in 1 .. Len(h.coords)
      BY <1>1, <1>2
    <3>3. QED
      BY <2>2, <3>1, <3>2
  <2> HIDE DEF held, idx
  <2>8. Len(held) = scatter + Cardinality(DOMAIN idx)
    BY <1>1, <2>2, <2>3
  <2>9. Owned([coords |-> held, idx |-> idx])
    BY <2>2, <2>3, <2>4, <2>5, <2>8 DEF Owned
  <2>10. QED
    BY <2>1, <2>3, <2>6, <2>7, <2>9 DEF ValueAt
<1>6. QED
  BY <1>4, <1>5

-----------------------------------------------------------------------------
(* The batch is a recursion over its controls: it is well defined, and what    *)
(* one control preserves the batch preserves.                                  *)
NamedUpTo(batch, k) == {batch[j].at : j \in 1 .. k}

Steps(batch, f, n) == f = [k \in 0 .. n |-> IF k = 0 THEN Held ELSE AddControl(f[k - 1], batch[k])]

LEMMA StepsExist ==
  ASSUME NEW batch, NEW m \in Nat
  PROVE  \E f : Steps(batch, f, m)
<1> DEFINE bad == {n \in Nat : ~ \E f : Steps(batch, f, n)}
<1>1. bad = {}
  <2>1. SUFFICES ASSUME bad # {} PROVE FALSE
    OBVIOUS
  <2>2. PICK n \in bad : \A x \in bad : n <= x
    BY <2>1, Least
  <2>3. n \in Nat /\ ~ \E f : Steps(batch, f, n)
    BY <2>2
  <2>4. n # 0
    <3>1. Steps(batch, [k \in 0 .. 0 |-> Held], 0)
      BY DEF Steps
    <3>2. QED
      BY <2>3, <3>1
  <2>5. n - 1 \in Nat /\ n - 1 \notin bad
    BY <2>2, <2>3, <2>4
  <2>6. PICK f : Steps(batch, f, n - 1)
    BY <2>5
  <2> DEFINE g == [k \in 0 .. n |-> IF k = n THEN AddControl(f[n - 1], batch[n]) ELSE f[k]]
  <2>7. ASSUME NEW k \in 0 .. n
        PROVE  g[k] = IF k = 0 THEN Held ELSE AddControl(g[k - 1], batch[k])
    <3>1. CASE k = n
      <4>1. g[k] = AddControl(f[n - 1], batch[n]) /\ g[n - 1] = f[n - 1]
        BY <2>3, <2>4, <2>5, <3>1
      <4>2. QED
        BY <2>4, <3>1, <4>1
    <3>2. CASE k # n
      <4>1. k \in 0 .. n - 1 /\ g[k] = f[k]
        BY <2>3, <3>2
      <4>2. f[k] = IF k = 0 THEN Held ELSE AddControl(f[k - 1], batch[k])
        BY <2>6, <4>1 DEF Steps
      <4>3. k # 0 => g[k - 1] = f[k - 1]
        BY <2>3, <4>1
      <4>4. QED
        BY <4>1, <4>2, <4>3
    <3>3. QED
      BY <3>1, <3>2
  <2>8. g = [k \in 0 .. n |-> g[k]]
    OBVIOUS
  <2> HIDE DEF g
  <2>9. Steps(batch, g, n)
    BY <2>7, <2>8 DEF Steps
  <2>10. QED
    BY <2>3, <2>9
<1>2. QED
  BY <1>1

(* After k controls a node is held at the last of them that names it, or else  *)
(* as it was before the batch.                                                 *)
LatestUpTo(batch, k, h) ==
  \A n \in DOMAIN h.idx :
    /\ \A j \in 1 .. k : batch[j].at = n /\ (\A l \in 1 .. k : batch[l].at = n => l <= j)
                          => ValueAt(h, n) = batch[j].z
    /\ n \notin NamedUpTo(batch, k) => ValueAt(h, n) = ValueAt(Held, n)

LEMMA StepsOwned ==
  ASSUME scatter \in Nat, Owned(Held), NEW m \in Nat, NEW batch \in [1 .. m -> Sample],
         NEW f, Steps(batch, f, m)
  PROVE  /\ Owned(f[m]) /\ DOMAIN f[m].idx = DOMAIN controlIdx \cup NamedUpTo(batch, m)
         /\ LatestUpTo(batch, m, f[m])
<1> DEFINE Good(k) == /\ Owned(f[k]) /\ DOMAIN f[k].idx = DOMAIN controlIdx \cup NamedUpTo(batch, k)
                      /\ LatestUpTo(batch, k, f[k])
           bad == {k \in 0 .. m : ~Good(k)}
<1>1. ASSUME bad # {} PROVE FALSE
  <2>1. bad \subseteq Nat
    OBVIOUS
  <2>2. PICK k \in bad : \A x \in bad : k <= x
    BY <1>1, <2>1, Least
  <2>3. k \in 0 .. m /\ ~Good(k)
    BY <2>2
  <2>4. f[k] = IF k = 0 THEN Held ELSE AddControl(f[k - 1], batch[k])
    BY <2>3 DEF Steps
  <2>5. k # 0
    <3>1. SUFFICES ASSUME k = 0 PROVE FALSE
      OBVIOUS
    <3>2. f[k] = Held /\ Held.idx = controlIdx
      BY <2>4, <3>1 DEF Held
    <3>3. NamedUpTo(batch, k) = {}
      BY <3>1 DEF NamedUpTo
    <3>4. LatestUpTo(batch, k, f[k])
      BY <3>1, <3>2 DEF LatestUpTo
    <3>5. QED
      BY <2>3, <3>2, <3>3, <3>4
  <2>6. k - 1 \in 0 .. m /\ k \in 1 .. m /\ k - 1 \notin bad
    BY <2>2, <2>3, <2>5
  <2>7. Good(k - 1) /\ batch[k] \in Sample /\ f[k] = AddControl(f[k - 1], batch[k])
    BY <2>4, <2>5, <2>6
  <2>8. /\ Owned(f[k]) /\ DOMAIN f[k].idx = DOMAIN f[k - 1].idx \cup {batch[k].at}
        /\ ValueAt(f[k], batch[k].at) = batch[k].z
        /\ \A n \in DOMAIN f[k - 1].idx : n # batch[k].at => ValueAt(f[k], n) = ValueAt(f[k - 1], n)
    <3>1. Owned(f[k - 1]) /\ batch[k] \in Sample
      BY <2>7
    <3> HIDE DEF Good, bad
    <3> DEFINE g == AddControl(f[k - 1], batch[k])
    <3>2. /\ Owned(g) /\ DOMAIN g.idx = DOMAIN f[k - 1].idx \cup {batch[k].at}
          /\ ValueAt(g, batch[k].at) = batch[k].z
          /\ \A n \in DOMAIN f[k - 1].idx : n # batch[k].at => ValueAt(g, n) = ValueAt(f[k - 1], n)
      BY <3>1, OneControl
    <3>3. QED
      BY <2>7, <3>2
  <2>9. NamedUpTo(batch, k) = NamedUpTo(batch, k - 1) \cup {batch[k].at}
    <3>1. 1 .. k = (1 .. k - 1) \cup {k}
      BY <2>6
    <3>2. QED
      BY <3>1 DEF NamedUpTo
  <2>10. LatestUpTo(batch, k, f[k])
    <3> SUFFICES ASSUME NEW n \in DOMAIN f[k].idx
                 PROVE  /\ \A j \in 1 .. k :
                             batch[j].at = n /\ (\A l \in 1 .. k : batch[l].at = n => l <= j)
                               => ValueAt(f[k], n) = batch[j].z
                        /\ n \notin NamedUpTo(batch, k) => ValueAt(f[k], n) = ValueAt(Held, n)
      BY DEF LatestUpTo
    <3>1. CASE n = batch[k].at
      <4>1. ASSUME NEW j \in 1 .. k, \A l \in 1 .. k : batch[l].at = n => l <= j PROVE j = k
        BY <2>6, <3>1, <4>1
      <4>2. n \in NamedUpTo(batch, k)
        BY <2>9, <3>1
      <4>3. QED
        BY <2>8, <3>1, <4>1, <4>2
    <3>2. CASE n # batch[k].at
      <4>1. n \in DOMAIN f[k - 1].idx /\ ValueAt(f[k], n) = ValueAt(f[k - 1], n)
        BY <2>8, <3>2
      <4>2. /\ \A j \in 1 .. k - 1 :
                 batch[j].at = n /\ (\A l \in 1 .. k - 1 : batch[l].at = n => l <= j)
                   => ValueAt(f[k - 1], n) = batch[j].z
            /\ n \notin NamedUpTo(batch, k - 1) => ValueAt(f[k - 1], n) = ValueAt(Held, n)
        BY <2>7, <4>1 DEF LatestUpTo
      <4>3. ASSUME NEW j \in 1 .. k, batch[j].at = n, \A l \in 1 .. k : batch[l].at = n => l <= j
            PROVE  ValueAt(f[k], n) = batch[j].z
        <5>1. j \in 1 .. k - 1
          BY <2>6, <3>2, <4>3
        <5>2. \A l \in 1 .. k - 1 : l \in 1 .. k
          BY <2>6
        <5>3. QED
          BY <4>1, <4>2, <4>3, <5>1, <5>2
      <4>4. QED
        BY <2>9, <4>1, <4>2, <4>3
    <3>3. QED
      BY <3>1, <3>2
  <2>11. QED
    BY <2>3, <2>7, <2>8, <2>9, <2>10
<1>2. m \in 0 .. m
  OBVIOUS
<1>3. QED
  BY <1>1, <1>2

LEMMA BatchOwned ==
  ASSUME scatter \in Nat, Owned(Held), NEW m \in Nat, NEW batch \in [1 .. m -> Sample]
  PROVE  /\ Owned(AfterBatch(batch))
         /\ DOMAIN AfterBatch(batch).idx = DOMAIN controlIdx \cup Named(batch)
         /\ LatestUpTo(batch, m, AfterBatch(batch)) /\ NamedUpTo(batch, m) = Named(batch)
<1> DEFINE after == CHOOSE f : Steps(batch, f, m)
<1>1. Len(batch) = m /\ DOMAIN batch = 1 .. m
  BY IsSequence
<1>2. AfterBatch(batch) = after[m]
  BY <1>1 DEF AfterBatch, Steps
<1>3. Steps(batch, after, m)
  BY StepsExist
<1>4. NamedUpTo(batch, m) = Named(batch)
  BY <1>1 DEF NamedUpTo, Named
<1> HIDE DEF after
<1>5. QED
  BY <1>2, <1>3, <1>4, StepsOwned

-----------------------------------------------------------------------------
SessionOK ==
  /\ scatter \in Nat /\ Owned(Held)
  /\ DOMAIN controlIdx = DOMAIN asked
  /\ \A n \in DOMAIN asked : ValueAt(Held, n) = asked[n]
  /\ field = Solve(coords)

LEMMA SessionInit == GridderInit => SessionOK
<1> SUFFICES ASSUME GridderInit PROVE SessionOK
  OBVIOUS
<1>1. PICK m \in 1 .. MaxScatter : coords \in [1 .. m -> Sample]
  BY DEF GridderInit
<1>2. m \in Nat
  BY <1>1, GridderAssumption
<1>3. coords \in Seq(Sample) /\ Len(coords) = m
  BY <1>1, <1>2, IsSequence
<1>4. scatter = m /\ scatter \in Nat
  BY <1>2, <1>3 DEF GridderInit
<1>5. DOMAIN controlIdx = {} /\ DOMAIN asked = {} /\ field = Solve(coords)
  BY DEF GridderInit
<1>6. IsFiniteSet(DOMAIN controlIdx) /\ Cardinality(DOMAIN controlIdx) = 0
  BY <1>5, FS_EmptySet
<1>7. Owned(Held)
  BY <1>3, <1>4, <1>5, <1>6 DEF Owned, Held
<1>8. QED
  BY <1>4, <1>5, <1>7 DEF SessionOK

(* The last control of a batch that names a node.                              *)
LEMMA LastNaming ==
  ASSUME NEW m \in Nat, NEW batch \in [1 .. m -> Sample], NEW n \in Named(batch)
  PROVE  \E k \in SamplesAt(batch, n) : \A l \in SamplesAt(batch, n) : l <= k
<1> DEFINE T == {m - k : k \in SamplesAt(batch, n)}
<1>1. SamplesAt(batch, n) \subseteq 1 .. m /\ SamplesAt(batch, n) # {}
  BY DEF SamplesAt, Named
<1>2. T \subseteq Nat /\ T # {}
  BY <1>1
<1>3. PICK i \in T : \A j \in T : i <= j
  <2> HIDE DEF T
  <2>1. QED
    BY <1>2, Least
<1>4. PICK k \in SamplesAt(batch, n) : i = m - k
  BY <1>3
<1>5. ASSUME NEW l \in SamplesAt(batch, n) PROVE l <= k
  <2>1. m - l \in T /\ l \in 1 .. m /\ k \in 1 .. m
    BY <1>1
  <2>2. m - k <= m - l
    BY <1>3, <1>4, <2>1
  <2>3. QED
    BY <2>1, <2>2
<1>6. QED
  BY <1>5

LEMMA SessionStep == SessionOK /\ [GridderNext]_gridderVars => SessionOK'
<1>1. ASSUME SessionOK, AddControls PROVE SessionOK'
  <2> DEFINE last(batch, n) == CHOOSE k \in SamplesAt(batch, n) : \A l \in SamplesAt(batch, n) : l <= k
  <2>1. PICK batch \in UNION {[1 .. n -> Sample] : n \in 1 .. MaxBatch} :
          /\ coords' = AfterBatch(batch).coords /\ controlIdx' = AfterBatch(batch).idx
          /\ field' = Solve(coords')
          /\ asked' = [n \in DOMAIN asked \cup Named(batch) |->
                         IF n \in Named(batch) THEN batch[last(batch, n)].z ELSE asked[n]]
    BY <1>1 DEF AddControls
  <2>2. PICK m \in Nat : batch \in [1 .. m -> Sample]
    BY GridderAssumption
  <2>3. /\ scatter \in Nat /\ Owned(Held) /\ DOMAIN controlIdx = DOMAIN asked
        /\ \A n \in DOMAIN asked : ValueAt(Held, n) = asked[n]
    BY <1>1 DEF SessionOK
  <2>4. /\ Owned(AfterBatch(batch))
        /\ DOMAIN AfterBatch(batch).idx = DOMAIN controlIdx \cup Named(batch)
        /\ LatestUpTo(batch, m, AfterBatch(batch)) /\ NamedUpTo(batch, m) = Named(batch)
    BY <2>2, <2>3, BatchOwned
  <2>5. scatter' = scatter
    BY <1>1 DEF AddControls
  <2>6. Held' = AfterBatch(batch)
    BY <2>1, <2>4 DEF Held, Owned
  <2>7. Owned(Held)'
    BY <2>4, <2>5, <2>6 DEF Owned
  <2>8. DOMAIN asked' = DOMAIN asked \cup Named(batch) /\ DOMAIN controlIdx' = DOMAIN asked'
    BY <2>1, <2>3, <2>4
  <2>9. ASSUME NEW n \in DOMAIN asked' PROVE ValueAt(AfterBatch(batch), n) = asked'[n]
    <3>1. n \in DOMAIN AfterBatch(batch).idx
      BY <2>3, <2>4, <2>8, <2>9
    <3>2. CASE n \in Named(batch)
      <4> DEFINE k == last(batch, n)
      <4>1. k \in SamplesAt(batch, n) /\ \A l \in SamplesAt(batch, n) : l <= k
        BY <2>2, <3>2, LastNaming
      <4>2. asked'[n] = batch[k].z
        BY <2>1, <2>8, <2>9, <3>2
      <4> HIDE DEF k
      <4>3. k \in 1 .. m /\ batch[k].at = n /\ \A l \in 1 .. m : batch[l].at = n => l <= k
        BY <2>2, <4>1 DEF SamplesAt
      <4>4. ValueAt(AfterBatch(batch), n) = batch[k].z
        BY <2>4, <3>1, <4>3 DEF LatestUpTo
      <4>5. QED
        BY <4>2, <4>4
    <3>3. CASE n \notin Named(batch)
      <4>1. asked'[n] = asked[n] /\ n \in DOMAIN asked
        BY <2>1, <2>8, <2>9, <3>3
      <4>2. ValueAt(AfterBatch(batch), n) = ValueAt(Held, n)
        BY <2>4, <3>1, <3>3 DEF LatestUpTo
      <4>3. QED
        BY <2>3, <4>1, <4>2
    <3>4. QED
      BY <3>2, <3>3
  <2>10. QED
    BY <2>1, <2>3, <2>5, <2>6, <2>7, <2>8, <2>9 DEF SessionOK, ValueAt
<1>2. ASSUME SessionOK, UNCHANGED gridderVars PROVE SessionOK'
  <2>1. UNCHANGED <<coords, scatter, controlIdx, field, asked>>
    BY <1>2 DEF gridderVars
  <2>2. field' = Solve(coords')
    BY <1>2, <2>1 DEF SessionOK
  <2>3. QED
    BY <1>2, <2>1, <2>2 DEF SessionOK, Owned, Held, ValueAt
<1>3. QED
  BY <1>1, <1>2 DEF GridderNext

(* A long session does not grow without bound: one sample per node that was    *)
(* ever controlled, each node owns one, and the scatter keeps its places.      *)
THEOREM SessionsStayBounded == GridderSpec => []OneSamplePerControl
<1>1. SessionOK => OneSamplePerControl
  <2> SUFFICES ASSUME SessionOK PROVE OneSamplePerControl
    OBVIOUS
  <2>1. Held.coords = coords /\ Held.idx = controlIdx
    BY DEF Held
  <2>2. Owned(Held) /\ DOMAIN controlIdx = DOMAIN asked
    BY DEF SessionOK
  <2>3. QED
    BY <2>1, <2>2 DEF Owned, OneSamplePerControl
<1>2. QED
  BY SessionInit, SessionStep, <1>1, PTL DEF GridderSpec

(* What a solve of a session holds: at a node that was dragged, the mean of    *)
(* the last value and the scatter that snapped there; elsewhere the scatter's. *)
LEMMA HeldWithScatter ==
  ASSUME SessionOK, NEW n \in GridNodes
  PROVE  field[n] = IF n \in DOMAIN asked
                    THEN [sum |-> asked[n] + Total(coords, ScatterAt(n)),
                          count |-> 1 + Cardinality(ScatterAt(n))]
                    ELSE [sum |-> Total(coords, ScatterAt(n)), count |-> Cardinality(ScatterAt(n))]
<1>1. /\ coords \in Seq(Sample) /\ Len(coords) \in Nat /\ DOMAIN coords = 1 .. Len(coords)
      /\ Len(coords) >= scatter /\ scatter \in Nat
  <2>1. Owned(Held) /\ Held.coords = coords
    BY DEF SessionOK, Held
  <2>2. IsFiniteSet(DOMAIN controlIdx) /\ Cardinality(DOMAIN controlIdx) \in Nat
    BY <2>1, FS_CardinalityType DEF Owned, Held
  <2>3. QED
    BY <2>1, <2>2 DEF SessionOK, Owned, Held
<1>2. /\ \A k \in scatter + 1 .. Len(coords) : coords[k].at \in DOMAIN asked
                                                /\ controlIdx[coords[k].at] = k
      /\ \A l \in DOMAIN asked : /\ controlIdx[l] \in scatter + 1 .. Len(coords)
                                 /\ coords[controlIdx[l]].at = l
                                 /\ coords[controlIdx[l]].z = asked[l]
  BY DEF SessionOK, Owned, Held, ValueAt
<1>3. field[n] = [sum |-> Total(coords, SamplesAt(coords, n)),
                  count |-> Cardinality(SamplesAt(coords, n))]
  BY DEF SessionOK, Solve, Total
<1>4. \A k \in DOMAIN coords : coords[k].z \in Int
  <2>1. ASSUME NEW k \in DOMAIN coords PROVE coords[k] \in Sample
    BY <1>1
  <2>2. \A s \in Sample : s.z \in Int
    BY GridderAssumption DEF Sample
  <2>3. QED
    BY <2>1, <2>2
<1>5. IsFiniteSet(ScatterAt(n)) /\ ScatterAt(n) \subseteq DOMAIN coords
  <2>1. ScatterAt(n) \subseteq 1 .. scatter
    BY DEF ScatterAt
  <2>2. IsFiniteSet(1 .. scatter)
    BY <1>1, FS_Interval
  <2>3. IsFiniteSet(ScatterAt(n))
    BY <2>1, <2>2, FS_Subset
  <2>4. QED
    BY <1>1, <2>1, <2>3
<1>6. \A k \in SamplesAt(coords, n) : k \in ScatterAt(n) \/ (n \in DOMAIN asked /\ k = controlIdx[n])
  BY <1>1, <1>2 DEF SamplesAt, ScatterAt
<1>7. ScatterAt(n) \subseteq SamplesAt(coords, n)
  BY <1>5 DEF SamplesAt, ScatterAt
<1>8. CASE n \in DOMAIN asked
  <2> DEFINE own == controlIdx[n]
  <2>1. own \in DOMAIN coords /\ own \notin ScatterAt(n) /\ coords[own].at = n /\ coords[own].z = asked[n]
    BY <1>1, <1>2, <1>8 DEF ScatterAt
  <2>2. SamplesAt(coords, n) = ScatterAt(n) \cup {own}
    <3>1. own \in SamplesAt(coords, n)
      BY <2>1 DEF SamplesAt
    <3>2. QED
      BY <1>6, <1>7, <3>1
  <2>3. Total(coords, SamplesAt(coords, n)) = asked[n] + Total(coords, ScatterAt(n))
    <3>1. \A l \in ScatterAt(n) \cup {own} : coords[l].z \in Int
      BY <1>4, <1>5, <2>1
    <3> HIDE DEF own
    <3>2. QED
      BY <1>5, <2>1, <2>2, <3>1, TotalAdd
  <2>4. Cardinality(SamplesAt(coords, n)) = 1 + Cardinality(ScatterAt(n))
    <3>1. Cardinality(SamplesAt(coords, n)) = Cardinality(ScatterAt(n)) + 1
      BY <1>5, <2>1, <2>2, FS_AddElement
    <3>2. QED
      BY <1>5, <3>1, FS_CardinalityType
  <2>5. QED
    BY <1>3, <1>8, <2>3, <2>4
<1>9. CASE n \notin DOMAIN asked
  <2>1. SamplesAt(coords, n) = ScatterAt(n)
    BY <1>6, <1>7, <1>9
  <2>2. Total(coords, ScatterAt(n)) \in Int /\ Cardinality(ScatterAt(n)) \in Nat
    BY <1>4, <1>5, TotalInt, FS_CardinalityType
  <2>3. QED
    BY <1>3, <1>9, <2>1, <2>2
<1>10. QED
  BY <1>8, <1>9

LEMMA AskedIsValue == ASSUME SessionOK, NEW n \in DOMAIN asked PROVE asked[n] \in Int
<1>1. /\ controlIdx[n] \in DOMAIN coords /\ coords \in Seq(Sample)
      /\ asked[n] = coords[controlIdx[n]].z
  <2>1. Owned(Held) /\ Held.coords = coords
    BY DEF SessionOK, Held
  <2>2. IsFiniteSet(DOMAIN controlIdx) /\ Cardinality(DOMAIN controlIdx) \in Nat
    BY <2>1, FS_CardinalityType DEF Owned, Held
  <2>3. QED
    BY <2>1, <2>2 DEF SessionOK, Owned, Held, ValueAt
<1>2. \A s \in Sample : s.z \in Int
  BY GridderAssumption DEF Sample
<1>3. coords[controlIdx[n]] \in Sample
  BY <1>1
<1>4. QED
  BY <1>1, <1>2, <1>3

LEMMA TotalOfNone == ASSUME NEW samples PROVE Total(samples, {}) = 0
<1>1. IsFiniteSet({})
  BY FS_EmptySet
<1>2. \E f : Summing(f, samples, {})
  BY <1>1, SummingExists
<1>3. Summing(CHOOSE f : Summing(f, samples, {}), samples, {})
  BY <1>2
<1>4. QED
  BY <1>3, TotalIs, SummingAt

(* However often a node is dragged, and in whatever batches, the solve holds   *)
(* it at the value it was dragged to last and at nothing else, unless scatter  *)
(* snapped to it too; a node that never was is held by its scatter alone.      *)
THEOREM ControlsHold == GridderSpec => []HoldsTheLatest
<1>1. SessionOK => HoldsTheLatest
  <2> SUFFICES ASSUME SessionOK, NEW n \in GridNodes
               PROVE  /\ n \in DOMAIN asked /\ ScatterAt(n) = {} => field[n] = HeldAt(asked[n])
                      /\ n \notin DOMAIN asked =>
                           field[n] = [sum |-> Total(coords, ScatterAt(n)),
                                       count |-> Cardinality(ScatterAt(n))]
    BY DEF HoldsTheLatest, Total
  <2>1. field[n] = IF n \in DOMAIN asked
                   THEN [sum |-> asked[n] + Total(coords, ScatterAt(n)),
                         count |-> 1 + Cardinality(ScatterAt(n))]
                   ELSE [sum |-> Total(coords, ScatterAt(n)), count |-> Cardinality(ScatterAt(n))]
    BY HeldWithScatter
  <2>2. ASSUME n \in DOMAIN asked, ScatterAt(n) = {} PROVE field[n] = HeldAt(asked[n])
    <3>1. asked[n] \in Int
      BY <2>2, AskedIsValue
    <3>2. Total(coords, ScatterAt(n)) = 0 /\ Cardinality(ScatterAt(n)) = 0
      BY <2>2, TotalOfNone, FS_EmptySet
    <3>3. QED
      BY <2>1, <2>2, <3>1, <3>2 DEF HeldAt
  <2>3. QED
    BY <2>1, <2>2
<1>2. QED
  BY SessionInit, SessionStep, <1>1, PTL DEF GridderSpec

=============================================================================
