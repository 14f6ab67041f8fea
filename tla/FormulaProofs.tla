--------------------------- MODULE FormulaProofs ---------------------------
(***************************************************************************)
(* A block of formulas is ordered by its dependencies, a cycle is found    *)
(* and named, and no formula ever reads an input where the block assigns a *)
(* value: for every block, however long, over any finite set of names.     *)
(***************************************************************************)
EXTENDS Formula, FiniteSetTheorems, TLAPS

Ordered == {order[k] : k \in DOMAIN order}
Queued == {ready[k] : k \in DOMAIN ready}
OrderedNames == {lines[i].lhs : i \in Ordered}

(* What a formula still waits for.                                         *)
Blocking(i) == Dependencies(i) \ OrderedNames

(* Once counted, the block has one formula per name, the counts are those  *)
(* of what still blocks, and the formulas nothing blocks are those ordered *)
(* and those queued, each once.                                            *)
Counted ==
  /\ \A i, j \in Lines : lines[i].lhs = lines[j].lhs => i = j
  /\ \A i \in Lines : indegree[i] = Cardinality(Blocking(i))
  /\ \A i \in Lines : Blocking(i) = {} <=> i \in Ordered \cup Queued
  /\ Ordered \cap Queued = {}
  /\ \A j, k \in DOMAIN ready : ready[j] = ready[k] => j = k
  /\ \A j, k \in DOMAIN order : order[j] = order[k] => j = k

(* Every ordered formula comes after what it depends on.                   *)
Sound == \A k \in DOMAIN order :
           Dependencies(order[k]) \subseteq {lines[order[l]].lhs : l \in 1 .. k - 1}

(* A set of formulas in which each reads the output of one of them.        *)
Waiting(S) == \A i \in S : \E j \in S : lines[j].lhs \in lines[i].uses

(* No formula of such a set is ever ordered.                               *)
NoneOfACycle == \A S \in SUBSET Lines : Waiting(S) => S \cap Ordered = {}

(* Before the count nothing is ordered.                                    *)
Untouched == ready = <<>> /\ order = <<>> /\ evaluated = 0 /\ reads = {}

(* How a block leaves the sort.                                            *)
Left ==
  /\ stage \in {"sorted", "missing", "done", "cyclic"} => ready = <<>>
  /\ stage \in {"sorted", "missing", "done"} => Len(order) = Len(lines)
  /\ stage = "cyclic" => Len(order) # Len(lines) /\ blamed = {i \in Lines : indegree[i] > 0}

Inv ==
  /\ FormulaTypeOK
  /\ stage \in {"parsed", "duplicate"} => Untouched
  /\ stage \notin {"parsed", "duplicate"} => Counted
  /\ Sound
  /\ NoneOfACycle
  /\ Left
  /\ ReadsTheAssignedValue

-----------------------------------------------------------------------------
LEMMA IntervalSize ==
  ASSUME NEW n \in Nat
  PROVE  IsFiniteSet(1 .. n) /\ Cardinality(1 .. n) = n
BY FS_Interval

(* Lists in order hold each element of their set once.                     *)
LEMMA InOrderLists ==
  ASSUME NEW S, S \subseteq Nat, IsFiniteSet(S), NEW s \in InOrder(S)
  PROVE  /\ s \in Seq(S)
         /\ DOMAIN s = 1 .. Len(s)
         /\ \A j, k \in DOMAIN s : s[j] = s[k] => j = k
         /\ {s[k] : k \in DOMAIN s} = S
<1> DEFINE n == Cardinality(S)
<1>1. n \in Nat /\ s \in [1 .. n -> S] /\ \A j, k \in 1 .. n : j < k => s[j] < s[k]
  BY FS_CardinalityType DEF InOrder
<1>2. ASSUME NEW j \in 1 .. n, NEW k \in 1 .. n, s[j] = s[k] PROVE j = k
  <2>1. s[j] \in Nat /\ s[k] \in Nat /\ j \in Int /\ k \in Int
    <3>1. s \in [1 .. n -> S]
      BY <1>1
    <3>2. s[j] \in S /\ s[k] \in S
      BY <3>1
    <3>3. s[j] \in Nat /\ s[k] \in Nat
      BY <3>2
    <3>4. j \in Int /\ k \in Int
      OBVIOUS
    <3>5. QED
      BY <3>3, <3>4
  <2>2. ~(j < k) /\ ~(k < j)
    BY <1>1, <1>2, <2>1
  <2>3. QED
    BY <2>1, <2>2
<1>3. s \in Injection(1 .. n, S)
  BY <1>1, <1>2 DEF Injection, IsInjective
<1>4. Cardinality(1 .. n) = n
  BY <1>1, IntervalSize
<1>5. s \in Surjection(1 .. n, S)
  BY <1>3, <1>4, FS_Injection
<1>6. {s[k] : k \in 1 .. n} = S
  BY <1>1, <1>5 DEF Surjection
<1>7. s \in Seq(S) /\ Len(s) = n /\ DOMAIN s = 1 .. n
  BY <1>1
<1>8. QED
  BY <1>2, <1>6, <1>7

(* What a formula depends on is finite, and so is what blocks it.          *)
LEMMA BlockingFinite ==
  ASSUME FormulaTypeOK, NEW i \in Lines
  PROVE  /\ IsFiniteSet(Dependencies(i)) /\ IsFiniteSet(Blocking(i))
         /\ Cardinality(Blocking(i)) \in Nat
         /\ Cardinality(Blocking(i)) = 0 <=> Blocking(i) = {}
<1>1. lines[i].uses \in SUBSET Names
  <2>1. lines[i] \in Assignment
    BY DEF FormulaTypeOK, Lines
  <2>2. QED
    BY <2>1 DEF Assignment
<1>2. IsFiniteSet(Names)
  BY FormulaAssumption
<1>3. Dependencies(i) \in SUBSET Names /\ Blocking(i) \in SUBSET Names
  BY <1>1 DEF Dependencies, Blocking
<1>4. IsFiniteSet(Dependencies(i)) /\ IsFiniteSet(Blocking(i))
  BY <1>2, <1>3, FS_Subset
<1>5. QED
  BY <1>4, FS_CardinalityType, FS_EmptySet

(* The formulas of a block are finitely many numbers.                      *)
LEMMA LinesFinite ==
  ASSUME FormulaTypeOK, NEW S \in SUBSET Lines
  PROVE  /\ Lines = 1 .. Len(lines) /\ Len(lines) \in Nat /\ Lines \subseteq Nat
         /\ S \subseteq Nat /\ IsFiniteSet(S)
         /\ Cardinality(Lines) = Len(lines)
<1>1. Lines = 1 .. Len(lines) /\ Len(lines) \in Nat
  BY DEF FormulaTypeOK, Lines
<1>2. IsFiniteSet(Lines) /\ Cardinality(Lines) = Len(lines)
  <2>1. IsFiniteSet(1 .. Len(lines)) /\ Cardinality(1 .. Len(lines)) = Len(lines)
    BY <1>1, IntervalSize
  <2>2. QED
    BY <1>1, <2>1
<1>3. IsFiniteSet(S)
  BY <1>2, FS_Subset
<1>4. QED
  BY <1>1, <1>2, <1>3

LEMMA InitInv == FormulaInit => Inv
<1> SUFFICES ASSUME FormulaInit PROVE Inv
  OBVIOUS
<1>1. PICK n \in 1 .. MaxLines : lines \in [1 .. n -> Assignment]
  BY DEF FormulaInit
<1>2. lines \in Seq(Assignment) /\ Len(lines) = n /\ Lines = 1 .. n
  BY <1>1, FormulaAssumption DEF Lines
<1>3. properties \in SUBSET Names
  BY FormulaAssumption DEF FormulaInit
<1>4. FormulaTypeOK
  BY <1>2, <1>3, FormulaAssumption DEF FormulaInit, FormulaTypeOK, Stage, Read
<1>5. order = <<>> /\ Ordered = {} /\ reads = {} /\ stage = "parsed"
  BY DEF FormulaInit, Ordered
<1>6. QED
  BY <1>4, <1>5 DEF FormulaInit, Inv, Untouched, Sound, NoneOfACycle, Left, ReadsTheAssignedValue

(* A step that leaves the order and the counts alone leaves alone what is  *)
(* said of them.                                                           *)
LEMMA SameOrder ==
  ASSUME UNCHANGED <<lines, indegree, ready, order>>
  PROVE  Counted' = Counted /\ Sound' = Sound /\ NoneOfACycle' = NoneOfACycle
BY DEF Counted, Sound, NoneOfACycle, Waiting, Blocking, Dependencies, Outputs, OrderedNames,
       Ordered, Queued, Lines

-----------------------------------------------------------------------------
LEMMA CountStep == ASSUME Inv, CountDependencies PROVE Inv'
<1> USE DEF CountDependencies
<1> DEFINE Z == {i \in Lines : Dependencies(i) = {}}
<1>1. FormulaTypeOK /\ Untouched /\ stage = "parsed"
  BY DEF Inv
<1>2. Lines' = Lines /\ \A i \in Lines : Dependencies(i)' = Dependencies(i)
  BY DEF Lines, Dependencies, Outputs
<1>3. Z \subseteq Nat /\ IsFiniteSet(Z)
  BY <1>1, LinesFinite
<1>4. /\ ready' \in Seq(Z) /\ DOMAIN ready' = 1 .. Len(ready')
      /\ \A j, k \in DOMAIN ready' : ready'[j] = ready'[k] => j = k
      /\ Queued' = Z
  BY <1>3, InOrderLists DEF Queued
<1>5. Ordered' = {} /\ OrderedNames' = {}
  BY <1>1 DEF Ordered, OrderedNames, Untouched
<1>6. \A i \in Lines : Blocking(i)' = Dependencies(i)
  BY <1>2, <1>5 DEF Blocking
<1>7. \A i \in Lines : Cardinality(Dependencies(i)) \in Nat
  BY <1>1, BlockingFinite, FS_CardinalityType
<1>8. FormulaTypeOK'
  <2>1. ready' \in Seq(Lines)
    BY <1>4
  <2>2. indegree' \in [Lines -> Nat]
    BY <1>7
  <2>3. QED
    BY <1>1, <1>2, <2>1, <2>2 DEF FormulaTypeOK, Stage
<1>9. Counted'
  BY <1>1, <1>2, <1>4, <1>5, <1>6 DEF Counted, Untouched
<1>10. Sound' /\ NoneOfACycle'
  BY <1>1, <1>5 DEF Sound, NoneOfACycle, Untouched
<1>11. Left' /\ ReadsTheAssignedValue'
  BY <1>1 DEF Left, ReadsTheAssignedValue, Untouched
<1>12. QED
  BY <1>8, <1>9, <1>10, <1>11 DEF Inv

(* What visiting the head of the queue does to the sequences.              *)
LEMMA VisitLists ==
  ASSUME Inv, Visit
  PROVE  /\ Head(ready) \in Lines /\ Head(ready) \in Queued /\ Head(ready) \notin Ordered
         /\ Ordered' = Ordered \cup {Head(ready)}
         /\ Queued' = (Queued \ {Head(ready)}) \cup Unblocked(Head(ready))
         /\ order' \in Seq(Lines) /\ ready' \in Seq(Lines)
         /\ Len(order') = Len(order) + 1
         /\ \A k \in DOMAIN order : order'[k] = order[k]
         /\ order'[Len(order) + 1] = Head(ready)
         /\ (Unblocked(Head(ready)) \cap Queued = {} =>
               \A j, k \in DOMAIN ready' : ready'[j] = ready'[k] => j = k)
<1> DEFINE idx == Head(ready)
           U == Unblocked(idx)
<1>1. /\ FormulaTypeOK /\ Counted /\ ready # <<>>
      /\ ready \in Seq(Lines) /\ order \in Seq(Lines)
  BY DEF Inv, Visit, FormulaTypeOK
<1>2. /\ idx = ready[1] /\ 1 \in DOMAIN ready /\ idx \in Lines
      /\ DOMAIN ready = 1 .. Len(ready) /\ Len(ready) \in Nat /\ Len(ready) >= 1
  BY <1>1
<1>3. idx \in Queued /\ idx \notin Ordered
  BY <1>1, <1>2 DEF Queued, Counted
<1>4. order' = Append(order, idx)
  BY DEF Visit
<1>5. /\ order' \in Seq(Lines) /\ Len(order') = Len(order) + 1
      /\ DOMAIN order = 1 .. Len(order) /\ DOMAIN order' = 1 .. Len(order) + 1
      /\ \A k \in DOMAIN order : order'[k] = order[k]
      /\ order'[Len(order) + 1] = idx
  BY <1>1, <1>2, <1>4
<1>6. Ordered' = Ordered \cup {idx}
  BY <1>1, <1>5 DEF Ordered
<1>7. U \in SUBSET Lines
  BY DEF Unblocked
<1>8. PICK more \in InOrder(U) : ready' = Tail(ready) \o more
  BY DEF Visit
<1>9. /\ more \in Seq(U) /\ DOMAIN more = 1 .. Len(more)
      /\ \A j, k \in DOMAIN more : more[j] = more[k] => j = k
      /\ {more[k] : k \in DOMAIN more} = U
  BY <1>1, <1>7, LinesFinite, InOrderLists
<1> DEFINE rest == Tail(ready)
<1>10. /\ rest \in Seq(Lines) /\ Len(rest) = Len(ready) - 1 /\ DOMAIN rest = 1 .. Len(rest)
       /\ \A k \in DOMAIN rest : rest[k] = ready[k + 1]
  BY <1>1, <1>2
<1>11. {rest[k] : k \in DOMAIN rest} = Queued \ {idx}
  <2>1. ASSUME NEW k \in DOMAIN rest PROVE rest[k] \in Queued \ {idx}
    BY <1>1, <1>2, <1>10 DEF Queued, Counted
  <2>2. ASSUME NEW q \in Queued \ {idx} PROVE \E k \in DOMAIN rest : rest[k] = q
    <3>1. PICK k \in DOMAIN ready : ready[k] = q
      BY DEF Queued
    <3>2. k # 1
      BY <1>2, <3>1
    <3>3. k - 1 \in DOMAIN rest /\ rest[k - 1] = q
      BY <1>2, <1>10, <3>1, <3>2
    <3>4. QED
      BY <3>3
  <2>3. QED
    BY <2>1, <2>2
<1>12. /\ ready' \in Seq(Lines) /\ Len(ready') = Len(rest) + Len(more)
       /\ DOMAIN ready' = 1 .. Len(rest) + Len(more)
       /\ Len(rest) \in Nat /\ Len(more) \in Nat
       /\ \A k \in 1 .. Len(rest) : ready'[k] = rest[k]
       /\ \A k \in 1 .. Len(more) : ready'[Len(rest) + k] = more[k]
  <2>1. more \in Seq(Lines)
    BY <1>7, <1>9
  <2>2. QED
    BY <1>8, <1>10, <2>1
<1> HIDE DEF rest, U, idx
<1>13. Queued' = (Queued \ {idx}) \cup U
  <2>1. ASSUME NEW k \in DOMAIN ready' PROVE ready'[k] \in (Queued \ {idx}) \cup U
    <3>1. CASE k <= Len(rest)
      <4>1. k \in DOMAIN rest
        BY <1>10, <1>12, <3>1
      <4>2. ready'[k] = rest[k]
        BY <1>10, <1>12, <4>1
      <4>3. QED
        BY <1>11, <4>1, <4>2
    <3>2. CASE k > Len(rest)
      <4>1. k - Len(rest) \in 1 .. Len(more) /\ ready'[Len(rest) + (k - Len(rest))] = more[k - Len(rest)]
        BY <1>12, <3>2
      <4>2. ready'[k] = more[k - Len(rest)]
        BY <1>12, <4>1
      <4>3. QED
        BY <1>9, <4>1, <4>2
    <3>3. QED
      BY <1>12, <3>1, <3>2
  <2>2. ASSUME NEW q \in Queued \ {idx} PROVE \E k \in DOMAIN ready' : ready'[k] = q
    <3>1. PICK k \in DOMAIN rest : rest[k] = q
      BY <1>11
    <3>2. k \in DOMAIN ready' /\ ready'[k] = rest[k]
      BY <1>10, <1>12
    <3>3. QED
      BY <3>1, <3>2
  <2>3. ASSUME NEW q \in U PROVE \E k \in DOMAIN ready' : ready'[k] = q
    <3>1. PICK k \in DOMAIN more : more[k] = q
      BY <1>9
    <3>2. Len(rest) + k \in DOMAIN ready' /\ ready'[Len(rest) + k] = q
      BY <1>9, <1>12, <3>1
    <3>3. QED
      BY <3>2
  <2>4. QED
    BY <2>1, <2>2, <2>3 DEF Queued
<1>14. ASSUME U \cap Queued = {}, NEW j \in DOMAIN ready', NEW k \in DOMAIN ready',
              ready'[j] = ready'[k]
       PROVE  j = k
  <2>1. ASSUME NEW m \in DOMAIN ready', m > Len(rest)
        PROVE  m - Len(rest) \in DOMAIN more /\ ready'[m] = more[m - Len(rest)] /\ ready'[m] \in U
    <3>1. m - Len(rest) \in 1 .. Len(more) /\ ready'[Len(rest) + (m - Len(rest))] = more[m - Len(rest)]
      BY <1>12, <2>1
    <3>2. Len(rest) + (m - Len(rest)) = m
      BY <1>12
    <3>3. QED
      BY <1>9, <3>1, <3>2
  <2>2. ASSUME NEW m \in DOMAIN ready', m <= Len(rest)
        PROVE  m + 1 \in DOMAIN ready /\ ready'[m] = ready[m + 1] /\ ready'[m] \in Queued
    BY <1>2, <1>10, <1>12, <2>2 DEF Queued
  <2>3. CASE j <= Len(rest) /\ k <= Len(rest)
    <3>1. ready[j + 1] = ready[k + 1] /\ j + 1 \in DOMAIN ready /\ k + 1 \in DOMAIN ready
      BY <1>14, <2>2, <2>3
    <3>2. j + 1 = k + 1
      BY <1>1, <3>1 DEF Counted
    <3>3. QED
      BY <1>12, <3>2
  <2>4. CASE j > Len(rest) /\ k > Len(rest)
    <3>1. j - Len(rest) = k - Len(rest)
      BY <1>9, <1>14, <2>1, <2>4
    <3>2. QED
      BY <1>12, <3>1
  <2>5. CASE j > Len(rest) /\ k <= Len(rest)
    BY <1>14, <2>1, <2>2, <2>5
  <2>6. CASE j <= Len(rest) /\ k > Len(rest)
    BY <1>14, <2>1, <2>2, <2>6
  <2>7. QED
    BY <1>12, <2>3, <2>4, <2>5, <2>6
<1>15. QED
  BY <1>2, <1>3, <1>5, <1>6, <1>12, <1>13, <1>14 DEF idx, U

(* Visiting a formula takes its name off what blocks the others.           *)
LEMMA VisitBlocking ==
  ASSUME Inv, Visit, NEW i \in Lines
  PROVE  /\ Lines' = Lines /\ Dependencies(i)' = Dependencies(i)
         /\ Blocking(i)' = Blocking(i) \ {lines[Head(ready)].lhs}
         /\ lines[Head(ready)].lhs \in lines[i].uses <=> lines[Head(ready)].lhs \in Blocking(i)
<1> DEFINE idx == Head(ready)
           name == lines[idx].lhs
<1>1. /\ idx \in Lines /\ idx \notin Ordered /\ Ordered' = Ordered \cup {idx}
      /\ Counted /\ FormulaTypeOK
  BY VisitLists DEF Inv, Visit
<1>2. lines' = lines /\ Lines' = Lines
  BY DEF Visit, Lines
<1>3. Dependencies(i)' = Dependencies(i)
  BY <1>2 DEF Dependencies, Outputs
<1>4. OrderedNames' = OrderedNames \cup {name}
  BY <1>1, <1>2 DEF OrderedNames
<1>5. Blocking(i)' = Blocking(i) \ {name}
  BY <1>3, <1>4 DEF Blocking
<1>6. Ordered \subseteq Lines
  BY <1>1 DEF Ordered, FormulaTypeOK
<1>7. name \notin OrderedNames
  BY <1>1, <1>6 DEF OrderedNames, Counted
<1>8. name \in Outputs
  BY <1>1 DEF Outputs
<1>9. name \in lines[i].uses <=> name \in Blocking(i)
  BY <1>7, <1>8 DEF Blocking, Dependencies
<1>10. QED
  BY <1>2, <1>3, <1>5, <1>9

LEMMA VisitStep == ASSUME Inv, Visit PROVE Inv'
<1> DEFINE idx == Head(ready)
           name == lines[idx].lhs
           U == Unblocked(idx)
<1>1. /\ FormulaTypeOK /\ Counted /\ Sound /\ NoneOfACycle /\ Left /\ ReadsTheAssignedValue
      /\ stage = "sorting" /\ stage' = stage /\ lines' = lines /\ Lines' = Lines
      /\ properties' = properties /\ evaluated' = evaluated /\ reads' = reads /\ blamed' = blamed
  BY DEF Inv, Visit, Lines
<1>2. /\ idx \in Lines /\ idx \in Queued /\ idx \notin Ordered
      /\ Ordered' = Ordered \cup {idx}
      /\ Queued' = (Queued \ {idx}) \cup U
      /\ order' \in Seq(Lines) /\ ready' \in Seq(Lines)
      /\ Len(order') = Len(order) + 1
      /\ \A k \in DOMAIN order : order'[k] = order[k]
      /\ order'[Len(order) + 1] = idx
      /\ (U \cap Queued = {} => \A j, k \in DOMAIN ready' : ready'[j] = ready'[k] => j = k)
  BY VisitLists
<1>3. ASSUME NEW i \in Lines
      PROVE  /\ Dependencies(i)' = Dependencies(i)
             /\ Blocking(i)' = Blocking(i) \ {name}
             /\ name \in lines[i].uses <=> name \in Blocking(i)
             /\ IsFiniteSet(Blocking(i)) /\ Cardinality(Blocking(i)) \in Nat
             /\ Cardinality(Blocking(i)) = 0 <=> Blocking(i) = {}
             /\ indegree[i] = Cardinality(Blocking(i))
             /\ Cardinality(Blocking(i)') = IF name \in Blocking(i) THEN Cardinality(Blocking(i)) - 1
                                                                  ELSE Cardinality(Blocking(i))
             /\ IsFiniteSet(Blocking(i)')
  <2>1. /\ Dependencies(i)' = Dependencies(i)
        /\ Blocking(i)' = Blocking(i) \ {name}
        /\ name \in lines[i].uses <=> name \in Blocking(i)
    BY VisitBlocking
  <2>2. /\ IsFiniteSet(Blocking(i)) /\ Cardinality(Blocking(i)) \in Nat
        /\ Cardinality(Blocking(i)) = 0 <=> Blocking(i) = {}
    BY <1>1, BlockingFinite
  <2>3. indegree[i] = Cardinality(Blocking(i))
    BY <1>1 DEF Counted
  <2>4. /\ IsFiniteSet(Blocking(i) \ {name})
        /\ Cardinality(Blocking(i) \ {name}) = IF name \in Blocking(i) THEN Cardinality(Blocking(i)) - 1
                                                                      ELSE Cardinality(Blocking(i))
    BY <2>2, FS_RemoveElement
  <2>5. QED
    BY <2>1, <2>2, <2>3, <2>4
<1>4. ASSUME NEW i \in Lines
      PROVE  /\ indegree'[i] = Cardinality(Blocking(i)')
             /\ indegree'[i] \in Nat
             /\ indegree'[i] = 0 <=> Blocking(i)' = {}
             /\ i \in U <=> name \in Blocking(i) /\ Blocking(i)' = {}
  <2>1. indegree'[i] = IF name \in lines[i].uses THEN indegree[i] - 1 ELSE indegree[i]
    BY DEF Visit
  <2>2. indegree'[i] = Cardinality(Blocking(i)')
    BY <1>3, <2>1
  <2>3. Cardinality(Blocking(i)') \in Nat /\ (Cardinality(Blocking(i)') = 0 <=> Blocking(i)' = {})
    BY <1>3, FS_CardinalityType, FS_EmptySet
  <2>4. i \in U <=> name \in Blocking(i) /\ Cardinality(Blocking(i)') = 0
    BY <1>3 DEF Unblocked
  <2>5. QED
    BY <2>2, <2>3, <2>4
<1> HIDE DEF U, name, idx
<1>5. U \subseteq Lines /\ Queued \subseteq Lines /\ Ordered \subseteq Lines
  BY <1>1 DEF U, Unblocked, Queued, Ordered, FormulaTypeOK
<1>6. ASSUME NEW i \in U PROVE i \notin Queued /\ i \notin Ordered /\ i # idx
  <2>1. Blocking(i) # {}
    BY <1>4, <1>5
  <2>2. i \notin Ordered \cup Queued
    BY <1>1, <1>5, <2>1 DEF Counted
  <2>3. QED
    BY <1>2, <2>2
<1>7. FormulaTypeOK'
  <2>1. DOMAIN indegree' = Lines /\ indegree' = [i \in Lines |-> indegree'[i]]
    BY DEF Visit
  <2>2. indegree' \in [Lines -> Nat]
    BY <1>4, <2>1
  <2>3. evaluated \in 0 .. Len(order')
    BY <1>1, <1>2 DEF FormulaTypeOK
  <2>4. QED
    BY <1>1, <1>2, <2>2, <2>3 DEF FormulaTypeOK
<1>8. Counted'
  <2>1. \A i \in Lines : Blocking(i)' = {} <=> i \in Ordered' \cup Queued'
    <3> SUFFICES ASSUME NEW i \in Lines
                 PROVE  Blocking(i)' = {} <=> i \in Ordered' \cup Queued'
      OBVIOUS
    <3>1. CASE name \in Blocking(i)
      <4>1. i \notin Ordered \cup Queued
        BY <1>1, <3>1 DEF Counted
      <4>2. QED
        BY <1>2, <1>4, <3>1, <4>1
    <3>2. CASE name \notin Blocking(i)
      <4>1. Blocking(i)' = Blocking(i) /\ i \notin U
        <5>1. Blocking(i)' = Blocking(i) \ {name}
          BY <1>3
        <5>2. Blocking(i) \ {name} = Blocking(i)
          BY <3>2
        <5>3. i \notin U
          BY <1>4, <3>2
        <5>4. QED
          BY <5>1, <5>2, <5>3
      <4>2. Blocking(i) = {} <=> i \in Ordered \cup Queued
        BY <1>1 DEF Counted
      <4>3. i \in Ordered' \cup Queued' <=> i \in Ordered \cup Queued
        BY <1>2, <4>1
      <4>4. QED
        BY <4>1, <4>2, <4>3
    <3>3. QED
      BY <3>1, <3>2
  <2>2. Ordered' \cap Queued' = {}
    BY <1>1, <1>2, <1>6 DEF Counted
  <2>3. \A j, k \in DOMAIN ready' : ready'[j] = ready'[k] => j = k
    BY <1>2, <1>6
  <2>4. ASSUME NEW j \in DOMAIN order', NEW k \in DOMAIN order', order'[j] = order'[k] PROVE j = k
    <3>1. /\ DOMAIN order = 1 .. Len(order) /\ Len(order) \in Nat
          /\ DOMAIN order' = 1 .. Len(order) + 1
      BY <1>1, <1>2 DEF FormulaTypeOK
    <3>2. ASSUME NEW m \in DOMAIN order PROVE order'[m] = order[m] /\ order'[m] \in Ordered
      BY <1>2 DEF Ordered
    <3>3. CASE j \in DOMAIN order /\ k \in DOMAIN order
      BY <1>1, <2>4, <3>2, <3>3 DEF Counted
    <3>4. CASE j \notin DOMAIN order /\ k \in DOMAIN order
      <4>1. j = Len(order) + 1
        BY <3>1, <3>4
      <4>2. QED
        BY <1>2, <2>4, <3>2, <3>4, <4>1
    <3>5. CASE j \in DOMAIN order /\ k \notin DOMAIN order
      <4>1. k = Len(order) + 1
        BY <3>1, <3>5
      <4>2. QED
        BY <1>2, <2>4, <3>2, <3>5, <4>1
    <3>6. CASE j \notin DOMAIN order /\ k \notin DOMAIN order
      BY <3>1, <3>6
    <3>7. QED
      BY <3>3, <3>4, <3>5, <3>6
  <2>5. \A i, j \in Lines : lines[i].lhs = lines[j].lhs => i = j
    BY <1>1 DEF Counted
  <2>6. QED
    BY <1>1, <1>4, <2>1, <2>2, <2>3, <2>4, <2>5 DEF Counted
<1>9. Sound'
  <2> SUFFICES ASSUME NEW k \in DOMAIN order'
               PROVE  Dependencies(order[k])' \subseteq {lines[order'[l]].lhs : l \in 1 .. k - 1}
    BY <1>1 DEF Sound
  <2>1. /\ DOMAIN order = 1 .. Len(order) /\ Len(order) \in Nat
        /\ DOMAIN order' = 1 .. Len(order) + 1
    BY <1>1, <1>2 DEF FormulaTypeOK
  <2>2. CASE k \in DOMAIN order
    <3>1. order'[k] = order[k] /\ order[k] \in Lines
      BY <1>1, <1>2, <2>2 DEF FormulaTypeOK
    <3>2. Dependencies(order[k])' = Dependencies(order[k])
      BY <1>1, <3>1 DEF Dependencies, Outputs
    <3>3. Dependencies(order[k]) \subseteq {lines[order[l]].lhs : l \in 1 .. k - 1}
      BY <1>1, <2>2 DEF Sound
    <3>4. \A l \in 1 .. k - 1 : order'[l] = order[l]
      BY <1>2, <2>1, <2>2
    <3>5. QED
      BY <3>2, <3>3, <3>4
  <2>3. CASE k \notin DOMAIN order
    <3>1. k = Len(order) + 1 /\ order'[k] = idx /\ 1 .. k - 1 = DOMAIN order
      BY <1>2, <2>1, <2>3
    <3>2. Dependencies(order[k])' = Dependencies(idx)
      BY <1>1, <3>1 DEF Dependencies, Outputs
    <3>3. Blocking(idx) = {}
      BY <1>1, <1>2 DEF Counted
    <3>4. Dependencies(idx) \subseteq OrderedNames
      BY <3>3 DEF Blocking
    <3>5. OrderedNames = {lines[order[l]].lhs : l \in DOMAIN order}
      BY DEF OrderedNames, Ordered
    <3>6. \A l \in DOMAIN order : order'[l] = order[l]
      BY <1>2
    <3>7. QED
      BY <3>1, <3>2, <3>4, <3>5, <3>6
  <2>4. QED
    BY <2>2, <2>3
<1>10. NoneOfACycle'
  <2> SUFFICES ASSUME NEW S \in SUBSET Lines, Waiting(S) PROVE S \cap Ordered' = {}
    BY <1>1 DEF NoneOfACycle, Waiting
  <2>1. S \cap Ordered = {}
    BY <1>1 DEF NoneOfACycle
  <2>2. idx \notin S
    <3> SUFFICES ASSUME idx \in S PROVE FALSE
      OBVIOUS
    <3>1. PICK j \in S : lines[j].lhs \in lines[idx].uses
      BY DEF Waiting
    <3>2. j \in Lines /\ j \notin Ordered
      BY <2>1
    <3>3. lines[j].lhs \notin OrderedNames
      BY <1>1, <1>5, <3>2 DEF OrderedNames, Counted
    <3>4. lines[j].lhs \in Blocking(idx)
      BY <3>1, <3>2, <3>3 DEF Blocking, Dependencies, Outputs
    <3>5. Blocking(idx) = {}
      BY <1>1, <1>2 DEF Counted
    <3>6. QED
      BY <3>4, <3>5
  <2>3. QED
    BY <1>2, <2>1, <2>2
<1>11. Left'
  BY <1>1 DEF Left
<1>12. ReadsTheAssignedValue'
  BY <1>1 DEF ReadsTheAssignedValue, Outputs
<1>13. QED
  BY <1>1, <1>7, <1>8, <1>9, <1>10, <1>11, <1>12 DEF Inv

LEMMA EvaluateStep == ASSUME Inv, Evaluate PROVE Inv'
<1> DEFINE idx == order[evaluated + 1]
<1>1. /\ FormulaTypeOK /\ Counted /\ Sound /\ ReadsTheAssignedValue /\ Left
      /\ stage = "sorted" /\ evaluated < Len(order)
      /\ UNCHANGED <<lines, properties, stage, indegree, ready, order, blamed>>
      /\ Lines' = Lines /\ Outputs' = Outputs
      /\ lines[idx].uses \subseteq Computed \cup properties
  BY DEF Inv, Evaluate, Lines, Outputs
<1>2. /\ evaluated \in Nat /\ evaluated + 1 \in DOMAIN order /\ idx \in Lines /\ idx \in Nat
      /\ evaluated' = evaluated + 1 /\ evaluated' \in 0 .. Len(order)
  <2>1. evaluated \in Nat /\ Len(order) \in Nat /\ DOMAIN order = 1 .. Len(order)
    BY <1>1 DEF FormulaTypeOK
  <2>2. evaluated + 1 \in DOMAIN order
    BY <1>1, <2>1
  <2>3. idx \in Lines
    BY <1>1, <2>2 DEF FormulaTypeOK
  <2>4. idx \in Nat
    BY <1>1, <2>3, LinesFinite
  <2>5. QED
    BY <1>1, <2>1, <2>2, <2>3, <2>4 DEF Evaluate
<1>3. lines[idx].uses \subseteq Names
  <2>1. lines[idx] \in Assignment
    BY <1>1, <1>2 DEF FormulaTypeOK, Lines
  <2>2. QED
    BY <2>1 DEF Assignment
<1>4. Computed \subseteq Outputs
  BY <1>1 DEF Computed, Outputs, FormulaTypeOK
<1>5. \A n \in lines[idx].uses : n \in Outputs <=> n \in Computed
  <2>1. Dependencies(idx) \subseteq {lines[order[l]].lhs : l \in 1 .. (evaluated + 1) - 1}
    BY <1>1, <1>2 DEF Sound
  <2>2. Dependencies(idx) \subseteq Computed
    BY <1>2, <2>1 DEF Computed
  <2>3. QED
    BY <1>4, <2>2 DEF Dependencies
<1> DEFINE new == {[by |-> idx, name |-> n, from |-> Source(n)] : n \in lines[idx].uses}
<1>6. reads' = reads \cup new
  BY DEF Evaluate
<1>7. \A r \in new : r \in Read /\ ((r.from = "block") = (r.name \in Outputs))
  BY <1>2, <1>3, <1>5 DEF Source, Read
<1> HIDE DEF new
<1>8. FormulaTypeOK'
  <2>1. reads' \subseteq Read
    BY <1>1, <1>6, <1>7 DEF FormulaTypeOK
  <2>2. QED
    BY <1>1, <1>2, <2>1 DEF FormulaTypeOK
<1>9. ReadsTheAssignedValue'
  BY <1>1, <1>6, <1>7 DEF ReadsTheAssignedValue
<1>10. Left'
  BY <1>1 DEF Left
<1>11. Counted' /\ Sound' /\ NoneOfACycle'
  BY <1>1, SameOrder DEF Inv
<1>12. QED
  BY <1>1, <1>8, <1>9, <1>10, <1>11 DEF Inv

(* The steps that only end something.                                      *)
LEMMA QuietStep ==
  ASSUME Inv, RefuseDuplicate \/ FinishOrder \/ EvaluateMissing \/ Deliver \/ UNCHANGED formulaVars
  PROVE  Inv'
<1>1. /\ UNCHANGED <<lines, properties, indegree, ready, order, evaluated, reads>>
      /\ Lines' = Lines /\ Outputs' = Outputs
  BY DEF RefuseDuplicate, FinishOrder, EvaluateMissing, Deliver, formulaVars, Lines, Outputs
<1>2. FormulaTypeOK'
  <2>1. stage' \in Stage
    BY DEF Inv, FormulaTypeOK, Stage, RefuseDuplicate, FinishOrder, EvaluateMissing, Deliver, formulaVars
  <2>2. blamed' \subseteq Lines
    BY DEF Inv, FormulaTypeOK, RefuseDuplicate, FinishOrder, EvaluateMissing, Deliver, formulaVars
  <2>3. QED
    BY <1>1, <2>1, <2>2 DEF Inv, FormulaTypeOK
<1>3. Counted' = Counted /\ Sound' = Sound /\ NoneOfACycle' = NoneOfACycle
  BY <1>1, SameOrder
<1>4. (stage \in {"parsed", "duplicate"} => Untouched)' /\ (stage \notin {"parsed", "duplicate"} => Counted)'
  BY <1>1, <1>3 DEF Inv, Untouched, RefuseDuplicate, FinishOrder, EvaluateMissing, Deliver, formulaVars
<1>5. Left'
  BY <1>1 DEF Inv, Left, RefuseDuplicate, FinishOrder, EvaluateMissing, Deliver, formulaVars
<1>6. ReadsTheAssignedValue'
  BY <1>1 DEF Inv, ReadsTheAssignedValue
<1>7. QED
  BY <1>2, <1>3, <1>4, <1>5, <1>6 DEF Inv

LEMMA StepInv == ASSUME Inv, [FormulaNext]_formulaVars PROVE Inv'
<1>1. CASE CountDependencies
  BY <1>1, CountStep
<1>2. CASE Visit
  BY <1>2, VisitStep
<1>3. CASE Evaluate
  BY <1>3, EvaluateStep
<1>4. CASE RefuseDuplicate \/ FinishOrder \/ EvaluateMissing \/ Deliver \/ UNCHANGED formulaVars
  BY <1>4, QuietStep
<1>5. QED
  BY <1>1, <1>2, <1>3, <1>4 DEF FormulaNext

-----------------------------------------------------------------------------
(* The inductive invariant holds of every block.                           *)
THEOREM OrderInv == FormulaSpec => []Inv
<1>1. FormulaInit => Inv
  BY InitInv
<1>2. Inv /\ [FormulaNext]_formulaVars => Inv'
  BY StepInv
<1>3. QED
  BY <1>1, <1>2, PTL DEF FormulaSpec

(* Type correctness: in particular no dependency count goes below zero.    *)
THEOREM FormulaTypeCorrect == FormulaSpec => []FormulaTypeOK
<1>1. Inv => FormulaTypeOK
  BY DEF Inv
<1>2. QED
  BY <1>1, OrderInv, PTL

(* No formula ever reads an input property where its block assigns the     *)
(* name, nor a name of the block before it is assigned.                    *)
THEOREM NoStaleRead == FormulaSpec => []ReadsTheAssignedValue
<1>1. Inv => ReadsTheAssignedValue
  BY DEF Inv
<1>2. QED
  BY <1>1, OrderInv, PTL

(* An accepted block is ordered in full and has no cycle; a refused one    *)
(* has, and the message names exactly the formulas that wait for ever.     *)
LEMMA InvFindsCycles == Inv => CyclesAreFound
<1> SUFFICES ASSUME Inv, stage \in {"cyclic", "sorted", "missing", "done"} PROVE CyclesAreFound
  BY DEF CyclesAreFound
<1>1. FormulaTypeOK /\ Counted /\ NoneOfACycle /\ Left /\ ready = <<>>
  BY DEF Inv, Left
<1>2. /\ Lines = 1 .. Len(lines) /\ Len(lines) \in Nat /\ IsFiniteSet(Lines)
      /\ Cardinality(Lines) = Len(lines)
  BY <1>1, LinesFinite
<1>3. /\ order \in [1 .. Len(order) -> Lines] /\ Len(order) \in Nat
      /\ DOMAIN order = 1 .. Len(order) /\ Ordered \subseteq Lines
  BY <1>1 DEF FormulaTypeOK, Ordered
<1>4. order \in Injection(1 .. Len(order), Lines)
  BY <1>1, <1>3 DEF Counted, Injection, IsInjective
<1>5. Cardinality(1 .. Len(order)) = Len(order)
  BY <1>3, IntervalSize
<1>6. Len(order) = Len(lines) <=> order \in Surjection(1 .. Len(order), Lines)
  BY <1>2, <1>4, <1>5, FS_Injection
<1>7. Len(order) = Len(lines) <=> Ordered = Lines
  <2>1. order \in Surjection(1 .. Len(order), Lines) <=> Ordered = Lines
    BY <1>3 DEF Surjection, Ordered
  <2>2. QED
    BY <1>6, <2>1
<1>8. Stuck \cap Ordered = {} /\ Stuck \subseteq Lines
  BY <1>1 DEF Stuck, NoneOfACycle, Waiting
<1> DEFINE W == Lines \ Ordered
<1>9. Waiting(W)
  <2> SUFFICES ASSUME NEW i \in W PROVE \E j \in W : lines[j].lhs \in lines[i].uses
    BY DEF Waiting
  <2>1. i \notin Ordered \cup Queued
    BY <1>1 DEF Queued
  <2>2. Blocking(i) # {}
    BY <1>1, <2>1 DEF Counted
  <2>3. PICK n : n \in Blocking(i)
    BY <2>2
  <2>4. n \in lines[i].uses /\ n \in Outputs /\ n \notin OrderedNames
    BY <2>3 DEF Blocking, Dependencies
  <2>5. PICK j \in Lines : n = lines[j].lhs
    BY <2>4 DEF Outputs
  <2>6. j \notin Ordered
    BY <2>4, <2>5 DEF OrderedNames
  <2>7. QED
    BY <2>4, <2>5, <2>6
<1>10. Stuck = W
  <2>1. W \in SUBSET Lines
    OBVIOUS
  <2>2. W \subseteq Stuck
    BY <1>9, <2>1 DEF Stuck, Waiting
  <2>3. QED
    BY <1>8, <2>2
<1>11. {i \in Lines : indegree[i] > 0} = W
  <2> SUFFICES ASSUME NEW i \in Lines PROVE indegree[i] > 0 <=> i \notin Ordered
    OBVIOUS
  <2>1. Blocking(i) = {} <=> i \in Ordered
    BY <1>1 DEF Counted, Queued
  <2>2. indegree[i] = Cardinality(Blocking(i))
    BY <1>1 DEF Counted
  <2>3. Cardinality(Blocking(i)) \in Nat /\ (Cardinality(Blocking(i)) = 0 <=> Blocking(i) = {})
    BY <1>1, BlockingFinite
  <2>4. QED
    BY <2>1, <2>2, <2>3
<1>12. stage = "cyclic" => Stuck # {} /\ blamed = Stuck
  BY <1>1, <1>3, <1>7, <1>10, <1>11 DEF Left
<1>13. ASSUME stage \in {"sorted", "missing", "done"}
       PROVE  /\ Stuck = {}
              /\ \A i \in Lines : \E k \in DOMAIN order :
                   order[k] = i /\ \A l \in DOMAIN order : order[l] = i => l = k
  <2>1. Ordered = Lines
    BY <1>1, <1>7, <1>13 DEF Left
  <2>2. Stuck = {}
    BY <1>10, <2>1
  <2>3. ASSUME NEW i \in Lines
        PROVE  \E k \in DOMAIN order : order[k] = i /\ \A l \in DOMAIN order : order[l] = i => l = k
    <3>1. PICK k \in DOMAIN order : order[k] = i
      BY <2>1 DEF Ordered
    <3>2. QED
      BY <1>1, <3>1 DEF Counted
  <2>4. QED
    BY <2>2, <2>3
<1>14. QED
  BY <1>12, <1>13 DEF CyclesAreFound

(* Cycle detection is sound and complete, for every block.                 *)
THEOREM CyclesFound == FormulaSpec => []CyclesAreFound
BY InvFindsCycles, OrderInv, PTL

-----------------------------------------------------------------------------
(* Formula implements BlockEvaluation.                                     *)

(* Nothing is evaluated before the whole block is ordered.                 *)
Waits == stage \in {"parsed", "duplicate", "sorting", "cyclic"} => evaluated = 0

OnDemandInv == Inv /\ Waits

LEMMA OnDemandStep == ASSUME OnDemandInv, [FormulaNext]_formulaVars PROVE OnDemandInv'
<1>1. Inv'
  BY StepInv DEF OnDemandInv
<1>2. Waits'
  BY DEF OnDemandInv, Waits, Inv, Untouched, FormulaNext, formulaVars, RefuseDuplicate, CountDependencies,
         Visit, FinishOrder, Evaluate, EvaluateMissing, Deliver
<1>3. QED
  BY <1>1, <1>2 DEF OnDemandInv

(* Formulas each of which reads one of them are stuck, and the stuck ones  *)
(* are such formulas: a block has a meaning when its names differ and none *)
(* is stuck.                                                               *)
LEMMA OrderableMeans ==
  OnDemand!Orderable <=> /\ \A i, j \in Lines : lines[i].lhs = lines[j].lhs => i = j
                         /\ Stuck = {}
<1>1. ASSUME NEW S \in SUBSET Lines, Waiting(S), Stuck = {} PROVE S = {}
  BY <1>1 DEF Stuck, Waiting
<1>2. Stuck \in SUBSET Lines /\ Waiting(Stuck)
  BY DEF Stuck, Waiting
<1>3. OnDemand!Orderable <=> /\ \A i, j \in Lines : lines[i].lhs = lines[j].lhs => i = j
                             /\ \A S \in SUBSET Lines : Waiting(S) => S = {}
  BY DEF OnDemand!Orderable, OnDemand!Formulas, Lines, Waiting
<1>4. QED
  BY <1>1, <1>2, <1>3

(* The next formula of an order has the values of all it depends on, was   *)
(* not evaluated yet, and is one of a block that has a meaning.            *)
LEMMA NextIsReady ==
  ASSUME OnDemandInv, stage = "sorted", evaluated < Len(order)
  PROVE  /\ order[evaluated + 1] \in Lines
         /\ evaluated \in Nat /\ Len(order) \in Nat
         /\ OnDemand!Orderable
         /\ OnDemand!Ready(order[evaluated + 1])
         /\ Computed \subseteq Outputs
         /\ Dependencies(order[evaluated + 1]) \subseteq Computed
<1> DEFINE idx == order[evaluated + 1]
<1>1. /\ FormulaTypeOK /\ Counted /\ Sound /\ CyclesAreFound
  BY InvFindsCycles DEF OnDemandInv, Inv
<1>2. /\ order \in Seq(Lines) /\ evaluated \in Nat /\ Len(order) \in Nat
      /\ evaluated + 1 \in DOMAIN order /\ DOMAIN order = 1 .. Len(order)
  BY <1>1 DEF FormulaTypeOK
<1>3. idx \in Lines
  BY <1>2
<1>4. OnDemand!Orderable
  BY <1>1, OrderableMeans DEF Counted, CyclesAreFound
<1>5. idx \notin Evaluated
  <2> SUFFICES ASSUME NEW k \in 1 .. evaluated, order[k] = idx PROVE FALSE
    BY DEF Evaluated
  <2>1. k \in DOMAIN order /\ k # evaluated + 1
    BY <1>2
  <2>2. QED
    BY <1>1, <1>2, <2>1 DEF Counted
<1>6. \A k \in 1 .. evaluated : order[k] \in Lines
  BY <1>2
<1>7. Computed \subseteq Outputs
  BY <1>6 DEF Computed, Outputs
<1>8. Dependencies(idx) \subseteq Computed
  <2>1. (evaluated + 1) - 1 = evaluated
    BY <1>2
  <2>2. Dependencies(idx) \subseteq {lines[order[l]].lhs : l \in 1 .. (evaluated + 1) - 1}
    BY <1>1, <1>2 DEF Sound
  <2>3. QED
    BY <2>1, <2>2 DEF Computed
<1>9. Computed = OnDemand!Assigns(Evaluated) /\ Outputs = OnDemand!Outputs
  BY DEF Computed, Evaluated, Outputs, Lines, OnDemand!Assigns, OnDemand!Outputs, OnDemand!Formulas
<1>10. OnDemand!Ready(idx)
  BY <1>3, <1>5, <1>8, <1>9 DEF OnDemand!Ready, OnDemand!Formulas, Lines, Dependencies
<1>11. QED
  BY <1>2, <1>3, <1>4, <1>7, <1>8, <1>10

LEMMA EvaluateImplements ==
  ASSUME OnDemandInv, Evaluate
  PROVE  OnDemand!Next
<1> DEFINE idx == order[evaluated + 1]
<1>1. stage = "sorted" /\ evaluated < Len(order)
  BY DEF Evaluate
<1>2. /\ idx \in Lines /\ OnDemand!Orderable /\ OnDemand!Ready(idx)
      /\ Computed \subseteq Outputs /\ Dependencies(idx) \subseteq Computed
      /\ evaluated \in Nat /\ Len(order) \in Nat
  BY <1>1, NextIsReady
<1>3. lines[idx].uses \subseteq Outputs \cup properties
  BY <1>2 DEF Evaluate
<1>4. Evaluated' = Evaluated \cup {idx}
  <2>1. order' = order /\ evaluated' = evaluated + 1
    BY DEF Evaluate
  <2>2. 1 .. evaluated + 1 = (1 .. evaluated) \cup {evaluated + 1}
    BY <1>2
  <2>3. QED
    BY <2>1, <2>2 DEF Evaluated
<1>5. ASSUME NEW n \in lines[idx].uses
      PROVE  Source(n) = IF n \in Outputs THEN "block" ELSE "input"
  <2>1. n \in Outputs => n \in Dependencies(idx)
    BY DEF Dependencies
  <2>2. n \in Computed <=> n \in Outputs
    BY <1>2, <2>1
  <2>3. QED
    BY <2>2 DEF Source
<1>6. reads' = reads \cup {[by |-> idx, name |-> n, from |-> IF n \in Outputs THEN "block" ELSE "input"] :
                            n \in lines[idx].uses}
  <2>1. reads' = reads \cup {[by |-> idx, name |-> n, from |-> Source(n)] : n \in lines[idx].uses}
    BY DEF Evaluate
  <2>2. QED
    BY <1>5, <2>1
<1>7. Outcome = "open" /\ Outcome' = Outcome
  BY <1>1 DEF Evaluate, Outcome
<1>8. Outputs = OnDemand!Outputs /\ Lines = OnDemand!Formulas
  BY DEF Outputs, Lines, OnDemand!Outputs, OnDemand!Assigns, OnDemand!Formulas
<1>9. lines' = lines /\ properties' = properties
  BY DEF Evaluate
<1>10. OnDemand!Evaluate(idx)
  BY <1>2, <1>3, <1>4, <1>6, <1>7, <1>8, <1>9 DEF OnDemand!Evaluate
<1>11. QED
  BY <1>2, <1>8, <1>10 DEF OnDemand!Next

LEMMA MissImplements ==
  ASSUME OnDemandInv, EvaluateMissing
  PROVE  OnDemand!Next
<1> DEFINE idx == order[evaluated + 1]
<1>1. stage = "sorted" /\ evaluated < Len(order)
  BY DEF EvaluateMissing
<1>2. /\ idx \in Lines /\ OnDemand!Orderable /\ OnDemand!Ready(idx)
      /\ Dependencies(idx) \subseteq Computed
  BY <1>1, NextIsReady
<1>3. ~(lines[idx].uses \subseteq Outputs \cup properties)
  BY <1>2 DEF EvaluateMissing, Dependencies
<1>4. Outcome = "open" /\ Outcome' = "missing"
  BY <1>1 DEF EvaluateMissing, Outcome
<1>5. UNCHANGED <<lines, properties, Evaluated, reads>>
  BY DEF EvaluateMissing, Evaluated
<1>6. Outputs = OnDemand!Outputs /\ Lines = OnDemand!Formulas
  BY DEF Outputs, Lines, OnDemand!Outputs, OnDemand!Assigns, OnDemand!Formulas
<1>7. OnDemand!Miss(idx)
  BY <1>2, <1>3, <1>4, <1>5, <1>6 DEF OnDemand!Miss
<1>8. QED
  BY <1>2, <1>6, <1>7 DEF OnDemand!Next

LEMMA DeliverImplements ==
  ASSUME OnDemandInv, Deliver
  PROVE  OnDemand!Next
<1>1. /\ stage = "sorted" /\ evaluated = Len(order)
      /\ FormulaTypeOK /\ Counted /\ CyclesAreFound
  BY InvFindsCycles DEF Deliver, OnDemandInv, Inv
<1>2. OnDemand!Orderable
  BY <1>1, OrderableMeans DEF Counted, CyclesAreFound
<1>3. DOMAIN order = 1 .. evaluated /\ \A k \in DOMAIN order : order[k] \in Lines
  BY <1>1 DEF FormulaTypeOK
<1>4. Evaluated = OnDemand!Formulas
  <2>1. \A i \in Lines : \E k \in DOMAIN order : order[k] = i
    BY <1>1 DEF CyclesAreFound
  <2>2. \A k \in DOMAIN order : order[k] \in Lines
    BY <1>3
  <2>3. QED
    BY <1>3, <2>1, <2>2 DEF Evaluated, OnDemand!Formulas, Lines
<1>5. Outcome = "open" /\ Outcome' = "done"
  BY <1>1 DEF Deliver, Outcome
<1>6. UNCHANGED <<lines, properties, Evaluated, reads>>
  BY DEF Deliver, Evaluated
<1>7. OnDemand!Deliver
  BY <1>2, <1>4, <1>5, <1>6 DEF OnDemand!Deliver
<1>8. QED
  BY <1>7 DEF OnDemand!Next

(* A block is refused for two formulas of one name or for what is stuck,   *)
(* before any of it is evaluated.                                          *)
LEMMA RefuseImplements ==
  ASSUME OnDemandInv, OnDemandInv', stage' \in {"duplicate", "cyclic"},
         RefuseDuplicate \/ FinishOrder
  PROVE  OnDemand!Next
<1>1. stage \in {"parsed", "sorting"} /\ evaluated = 0
  BY DEF OnDemandInv, Waits, RefuseDuplicate, FinishOrder
<1>2. Evaluated = {}
  BY <1>1 DEF Evaluated
<1>3. UNCHANGED <<lines, properties, Evaluated, reads>> /\ Lines' = Lines /\ Stuck' = Stuck
  BY DEF RefuseDuplicate, FinishOrder, Evaluated, Lines, Stuck
<1>4. ~OnDemand!Orderable
  <2>1. CASE RefuseDuplicate
    BY <2>1, OrderableMeans DEF RefuseDuplicate
  <2>2. CASE FinishOrder
    <3>1. stage' = "cyclic"
      BY <2>2 DEF FinishOrder
    <3>2. CyclesAreFound'
      <4>1. Inv'
        BY DEF OnDemandInv
      <4>2. QED
        BY <4>1, InvFindsCycles, PTL
    <3>3. Stuck # {}
      BY <1>3, <3>1, <3>2 DEF CyclesAreFound
    <3>4. QED
      BY <3>3, OrderableMeans
  <2>3. QED
    BY <2>1, <2>2
<1>5. Outcome = "open" /\ Outcome' = "refused"
  BY <1>1 DEF Outcome
<1>6. OnDemand!Refuse
  BY <1>2, <1>3, <1>4, <1>5 DEF OnDemand!Refuse
<1>7. QED
  BY <1>6 DEF OnDemand!Next

(* The ordering itself is not seen.                                        *)
LEMMA OrderingIsUnseen ==
  ASSUME OnDemandInv, OnDemandInv', stage' \in {"sorting", "sorted"},
         CountDependencies \/ Visit \/ FinishOrder
  PROVE  UNCHANGED OnDemand!vars
<1>1. stage \in {"parsed", "sorting"} /\ evaluated = 0 /\ evaluated' = 0
  BY DEF OnDemandInv, Waits, CountDependencies, Visit, FinishOrder
<1>2. Evaluated = {} /\ Evaluated' = {}
  BY <1>1 DEF Evaluated
<1>3. Outcome = "open" /\ Outcome' = "open"
  BY <1>1 DEF Outcome
<1>4. lines' = lines /\ properties' = properties /\ reads' = reads
  BY DEF CountDependencies, Visit, FinishOrder
<1>5. QED
  BY <1>2, <1>3, <1>4 DEF OnDemand!vars

(* Refinement: blocks of any size are evaluated as their formulas demand.  *)
(* No formula of a block that is refused is evaluated, each reads the      *)
(* values of those it depends on, and a missing input is one of a formula  *)
(* whose turn it was.                                                      *)
THEOREM OrderImplementsDemand == FormulaSpec => EvaluatesOnDemand
<1>1. FormulaInit => OnDemandInv /\ OnDemand!Init
  <2> SUFFICES ASSUME FormulaInit PROVE OnDemandInv /\ OnDemand!Init
    OBVIOUS
  <2>1. evaluated = 0 /\ stage = "parsed" /\ reads = {}
    BY DEF FormulaInit
  <2>2. Evaluated = {} /\ Outcome = "open"
    BY <2>1 DEF Evaluated, Outcome
  <2>3. QED
    BY <2>1, <2>2, InitInv DEF OnDemandInv, Waits, OnDemand!Init
<1>2. OnDemandInv /\ [FormulaNext]_formulaVars => OnDemandInv'
  BY OnDemandStep
<1>3. OnDemandInv /\ OnDemandInv' /\ [FormulaNext]_formulaVars => [OnDemand!Next]_(OnDemand!vars)
  <2> SUFFICES ASSUME OnDemandInv, OnDemandInv', [FormulaNext]_formulaVars
               PROVE  [OnDemand!Next]_(OnDemand!vars)
    OBVIOUS
  <2>1. CASE RefuseDuplicate
    <3>1. stage' = "duplicate"
      BY <2>1 DEF RefuseDuplicate
    <3>2. QED
      BY <2>1, <3>1, RefuseImplements
  <2>2. CASE CountDependencies
    <3>1. stage' = "sorting"
      BY <2>2 DEF CountDependencies
    <3>2. QED
      BY <2>2, <3>1, OrderingIsUnseen
  <2>3. CASE Visit
    <3>1. stage' = "sorting"
      BY <2>3 DEF Visit
    <3>2. QED
      BY <2>3, <3>1, OrderingIsUnseen
  <2>4. CASE FinishOrder
    <3>1. stage' \in {"sorted", "cyclic"}
      BY <2>4 DEF FinishOrder
    <3>2. QED
      BY <2>4, <3>1, OrderingIsUnseen, RefuseImplements
  <2>5. CASE Evaluate
    BY <2>5, EvaluateImplements
  <2>6. CASE EvaluateMissing
    BY <2>6, MissImplements
  <2>7. CASE Deliver
    BY <2>7, DeliverImplements
  <2>8. CASE UNCHANGED formulaVars
    BY <2>8 DEF formulaVars, OnDemand!vars, Evaluated, Outcome
  <2>9. QED
    BY <2>1, <2>2, <2>3, <2>4, <2>5, <2>6, <2>7, <2>8 DEF FormulaNext
<1>4. QED
  BY <1>1, <1>2, <1>3, PTL DEF FormulaSpec, EvaluatesOnDemand, OnDemand!Spec

=============================================================================
