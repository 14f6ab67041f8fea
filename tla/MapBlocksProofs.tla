-------------------------- MODULE MapBlocksProofs --------------------------
(* Proofs about MapBlocks, for all fields, maps of any length and blocks of any *)
(* size: every bulk array whose blocks cannot be taken for others reads back.   *)
EXTENDS MapBlocks, FiniteSetTheorems, WellFoundedInduction, TLAPS

(* What the table says of a block's words.                                      *)
Entry(b) == [dtype |-> b.dtype, rows |-> b.rows]

BlockNumbers(i) == DOMAIN Blocks(map[i])

(* Each encoded field was replaced by the words of its blocks ...               *)
MarkersOK ==
  markers = [i \in 1 .. encoded |-> [k \in BlockNumbers(i) |-> Blocks(map[i])[k].words]]

(* ... which are in the table, and the table has no entry but of such a block.  *)
TableOK ==
  /\ \A i \in 1 .. encoded : \A k \in BlockNumbers(i) : Blocks(map[i])[k].words \in DOMAIN table
  /\ \A w \in DOMAIN table : \E i \in 1 .. encoded : \E k \in BlockNumbers(i) :
       Blocks(map[i])[k].words = w /\ table[w] = Entry(Blocks(map[i])[k])

(* The page decodes the whole table and nothing else, each entry by its dtype.  *)
CacheOK ==
  /\ DOMAIN cache \subseteq DOMAIN table
  /\ DOMAIN cache # {} => encoded = Len(map)
  /\ \A w \in DOMAIN cache : cache[w] = [k \in DOMAIN w |-> Value(w[k], table[w].dtype)]
  /\ resolved => encoded = Len(map) /\ DOMAIN cache = DOMAIN table

Inv ==
  /\ map \in Seq(Fields) /\ encoded \in 0 .. Len(map)
  /\ MarkersOK /\ TableOK /\ CacheOK

-----------------------------------------------------------------------------
(* Induction, without an operator for what is proved: over a set of numbers.    *)

LEMMA Least ==
  ASSUME NEW T, T \subseteq Nat, T # {}
  PROVE  \E i \in T : \A j \in T : i <= j
<1>1. PICK i \in T : \A j \in T : ~(<<j, i>> \in OpToRel(<, Nat))
  BY NatLessThanWellFounded, WFMin
<1>2. ASSUME NEW j \in T PROVE i <= j
  <2>1. <<j, i>> \in Nat \X Nat /\ i \in Nat /\ j \in Nat
    OBVIOUS
  <2>2. OpToRel(<, Nat) = {ss \in Nat \X Nat : ss[1] < ss[2]}
    BY DEF OpToRel
  <2>3. ~(j < i)
    BY <1>1, <2>1, <2>2
  <2>4. QED
    BY <2>1, <2>3
<1>3. QED
  BY <1>2

LEMMA UpTo ==
  ASSUME NEW n \in Nat, NEW T, 0 \in T, \A m \in 0 .. n - 1 : m \in T => m + 1 \in T
  PROVE  \A m \in 0 .. n : m \in T
<1> DEFINE missing == (0 .. n) \ T
<1>1. ASSUME missing # {} PROVE FALSE
  <2>0. missing \subseteq Nat
    OBVIOUS
  <2> HIDE DEF missing
  <2>1. PICK i \in missing : \A j \in missing : i <= j
    BY <1>1, <2>0, Least
  <2> USE DEF missing
  <2>2. i # 0 /\ i \in Nat /\ i <= n
    OBVIOUS
  <2>3. i - 1 \in 0 .. n - 1 /\ i - 1 \in T
    BY <2>1, <2>2
  <2>4. QED
    BY <2>2, <2>3
<1>2. QED
  BY <1>1

-----------------------------------------------------------------------------
(* FlattenSeq, by its defining equation                                         *)

Flattening(f, seqs, n) == f = [i \in 1 .. n |-> IF i = 1 THEN seqs[i] ELSE f[i - 1] \o seqs[i]]

LEMMA FlattenIs ==
  \A seqs : FlattenSeq(seqs) = IF Len(seqs) = 0 THEN seqs
                               ELSE (CHOOSE f : Flattening(f, seqs, Len(seqs)))[Len(seqs)]
BY DEF FlattenSeq, Flattening

LEMMA FlatteningAt ==
  ASSUME NEW f, NEW seqs, NEW n \in Nat, Flattening(f, seqs, n), NEW i \in 1 .. n
  PROVE  f[i] = IF i = 1 THEN seqs[i] ELSE f[i - 1] \o seqs[i]
BY DEF Flattening

LEMMA FlatteningExists ==
  ASSUME NEW seqs, NEW n \in Nat
  PROVE  \E f : Flattening(f, seqs, n)
<1> DEFINE T == {m \in 0 .. n : \E f : Flattening(f, seqs, m)}
<1>1. 0 \in T
  <2> DEFINE g == [i \in 1 .. 0 |-> 0]
  <2>1. Flattening(g, seqs, 0)
    <3>1. 1 .. 0 = {}
      OBVIOUS
    <3>2. QED
      BY <3>1, Zenon DEF Flattening
  <2>2. QED
    BY <2>1
<1>2. ASSUME NEW m \in 0 .. n - 1, m \in T PROVE m + 1 \in T
  <2>1. PICK f : Flattening(f, seqs, m)
    BY <1>2
  <2> DEFINE new == IF m = 0 THEN seqs[m + 1] ELSE f[m] \o seqs[m + 1]
             g == [i \in 1 .. m + 1 |-> IF i = m + 1 THEN new ELSE f[i]]
  <2>2. ASSUME NEW i \in 1 .. m + 1
        PROVE  g[i] = IF i = 1 THEN seqs[i] ELSE g[i - 1] \o seqs[i]
    <3>1. CASE i = m + 1
      <4>1. g[i] = new
        BY <3>1
      <4>2. i # 1 => g[i - 1] = f[m]
        BY <3>1
      <4>3. QED
        BY <3>1, <4>1, <4>2
    <3>2. CASE i # m + 1
      <4>1. i \in 1 .. m /\ g[i] = f[i]
        BY <3>2
      <4>2. i # 1 => g[i - 1] = f[i - 1]
        BY <3>2
      <4> HIDE DEF g
      <4>3. QED
        BY <2>1, <4>1, <4>2, FlatteningAt
    <3>3. QED
      BY <3>1, <3>2
  <2>3. g = [i \in 1 .. m + 1 |-> g[i]]
    OBVIOUS
  <2> HIDE DEF g
  <2>4. Flattening(g, seqs, m + 1)
    BY <2>2, <2>3 DEF Flattening
  <2>5. QED
    BY <2>4
<1> HIDE DEF T
<1>3. n \in T
  BY <1>1, <1>2, UpTo
<1>4. QED
  BY <1>3 DEF T

SameUpTo(n, s, t) == \A i \in 1 .. n : s[i] = t[i]

LEMMA FlatteningAgree ==
  ASSUME NEW s, NEW t, NEW n \in Nat, NEW k \in Nat, n <= k, NEW f, NEW g,
         Flattening(f, s, n), Flattening(g, t, k), SameUpTo(n, s, t)
  PROVE  SameUpTo(n, f, g)
<1> DEFINE T == {m \in 0 .. n : m # 0 => f[m] = g[m]}
<1>1. 0 \in T
  OBVIOUS
<1>2. ASSUME NEW m \in 0 .. n - 1, m \in T PROVE m + 1 \in T
  <2> DEFINE i == m + 1
  <2>1. i \in 1 .. n /\ i \in 1 .. k /\ i - 1 = m /\ (i = 1 <=> m = 0)
    OBVIOUS
  <2> HIDE DEF i
  <2>2. f[i] = (IF i = 1 THEN s[i] ELSE f[i - 1] \o s[i]) /\ g[i] = (IF i = 1 THEN t[i] ELSE g[i - 1] \o t[i])
    BY <2>1, FlatteningAt
  <2>3. i # 1 => f[i - 1] = g[i - 1]
    BY <1>2, <2>1
  <2>4. f[i] = g[i]
    BY <2>1, <2>2, <2>3 DEF SameUpTo
  <2>5. QED
    BY <2>4 DEF i
<1> HIDE DEF T
<1>3. \A m \in 0 .. n : m \in T
  BY <1>1, <1>2, UpTo
<1>4. QED
  BY <1>3 DEF T, SameUpTo

LEMMA FlattenNone == FlattenSeq(<<>>) = <<>>
BY FlattenIs

LEMMA NoElements == ASSUME NEW S, NEW s \in Seq(S), Len(s) = 0 PROVE s = <<>>
OBVIOUS

LEMMA Appended ==
  ASSUME NEW S, NEW s \in Seq(S), NEW x \in S
  PROVE  /\ Append(s, x) \in Seq(S) /\ Len(Append(s, x)) = Len(s) + 1
         /\ \A i \in 1 .. Len(s) : Append(s, x)[i] = s[i]
         /\ Append(s, x)[Len(s) + 1] = x
OBVIOUS

LEMMA FlattenNext ==
  ASSUME NEW E, NEW s \in Seq(Seq(E)), NEW x \in Seq(E)
  PROVE  FlattenSeq(Append(s, x)) = FlattenSeq(s) \o x
<1>1. PICK t : t = Append(s, x)
  OBVIOUS
<1>2. PICK n \in Nat : n = Len(s)
  OBVIOUS
<1>3. PICK k \in Nat : k = n + 1
  OBVIOUS
<1>4. Len(t) = k /\ t[k] = x /\ (\A i \in 1 .. n : t[i] = s[i])
  BY <1>1, <1>2, <1>3, Appended
<1>5. PICK g : Flattening(g, t, k) /\ FlattenSeq(t) = g[k]
  <2>1. \E h : Flattening(h, t, k)
    BY FlatteningExists
  <2>2. k # 0
    BY <1>3
  <2>3. QED
    BY <1>4, <2>1, <2>2, FlattenIs
<1>6. g[k] = IF n = 0 THEN x ELSE g[n] \o x
  <2>1. k \in 1 .. k /\ k - 1 = n /\ (k = 1 <=> n = 0)
    BY <1>3
  <2>2. g[k] = IF k = 1 THEN t[k] ELSE g[k - 1] \o t[k]
    BY <1>5, <2>1, FlatteningAt
  <2>3. QED
    BY <1>4, <2>1, <2>2
<1>7. CASE n = 0
  <2>1. s = <<>>
    BY <1>2, <1>7, NoElements
  <2>2. FlattenSeq(s) \o x = x
    BY <2>1, FlattenNone
  <2>3. QED
    BY <1>1, <1>5, <1>6, <1>7, <2>2
<1>8. CASE n # 0
  <2>1. \E h : Flattening(h, s, n)
    BY FlatteningExists
  <2>2. PICK f : Flattening(f, s, n) /\ FlattenSeq(s) = f[n]
    BY <1>2, <1>8, <2>1, FlattenIs
  <2>3. n <= k /\ n \in 1 .. n /\ SameUpTo(n, s, t)
    BY <1>3, <1>4, <1>8 DEF SameUpTo
  <2>4. SameUpTo(n, f, g)
    BY <1>5, <2>2, <2>3, FlatteningAgree
  <2>5. f[n] = g[n]
    BY <2>3, <2>4 DEF SameUpTo
  <2>6. QED
    BY <1>1, <1>5, <1>6, <1>8, <2>2, <2>5
<1>9. QED
  BY <1>7, <1>8

-----------------------------------------------------------------------------
(* Where the rows of a flattened sequence lie                                   *)

First(s, m) == FlattenSeq(SubSeq(s, 1, m))

LEMMA Beginnings ==
  ASSUME NEW S, NEW s \in Seq(S)
  PROVE  /\ SubSeq(s, 1, 0) = <<>> /\ SubSeq(s, 1, Len(s)) = s
         /\ \A m \in 1 .. Len(s) : SubSeq(s, 1, m - 1) \in Seq(S) /\ s[m] \in S
         /\ \A m \in 1 .. Len(s) : SubSeq(s, 1, m) = Append(SubSeq(s, 1, m - 1), s[m])
OBVIOUS

LEMMA Joined ==
  ASSUME NEW E, NEW s \in Seq(E), NEW t \in Seq(E)
  PROVE  /\ s \o t \in Seq(E) /\ Len(s \o t) = Len(s) + Len(t)
         /\ \A i \in 1 .. Len(s) : (s \o t)[i] = s[i]
         /\ \A i \in 1 .. Len(t) : (s \o t)[Len(s) + i] = t[i]
OBVIOUS

LEMMA FirstSteps ==
  ASSUME NEW E, NEW s \in Seq(Seq(E))
  PROVE  /\ First(s, 0) = <<>> /\ First(s, Len(s)) = FlattenSeq(s)
         /\ \A m \in 1 .. Len(s) : First(s, m) = First(s, m - 1) \o s[m]
         /\ \A m \in 1 .. Len(s) : s[m] \in Seq(E)
<1>1. First(s, 0) = <<>> /\ First(s, Len(s)) = FlattenSeq(s)
  BY Beginnings, FlattenNone DEF First
<1>2. ASSUME NEW m \in 1 .. Len(s) PROVE First(s, m) = First(s, m - 1) \o s[m]
  <2>1. PICK t \in Seq(Seq(E)) : t = SubSeq(s, 1, m - 1)
    BY Beginnings
  <2>2. PICK x \in Seq(E) : x = s[m]
    BY Beginnings
  <2>3. SubSeq(s, 1, m) = Append(t, x)
    BY <2>1, <2>2, Beginnings
  <2>4. FlattenSeq(Append(t, x)) = FlattenSeq(t) \o x
    BY FlattenNext
  <2>5. QED
    BY <2>1, <2>2, <2>3, <2>4 DEF First
<1>3. \A m \in 1 .. Len(s) : s[m] \in Seq(E)
  BY Beginnings
<1>4. QED
  BY <1>1, <1>2, <1>3

LEMMA FirstTyped ==
  ASSUME NEW E, NEW s \in Seq(Seq(E))
  PROVE  \A m \in 0 .. Len(s) : First(s, m) \in Seq(E)
<1> DEFINE T == {m \in 0 .. Len(s) : First(s, m) \in Seq(E)}
<1>0. /\ First(s, 0) = <<>>
      /\ \A m \in 1 .. Len(s) : First(s, m) = First(s, m - 1) \o s[m] /\ s[m] \in Seq(E)
  BY FirstSteps
<1>1. 0 \in T
  <2>1. <<>> \in Seq(E) /\ 0 \in 0 .. Len(s)
    OBVIOUS
  <2>2. First(s, 0) \in Seq(E)
    BY <1>0, <2>1, Zenon
  <2>3. QED
    BY <2>1, <2>2
<1>2. ASSUME NEW m \in 0 .. Len(s) - 1, m \in T PROVE m + 1 \in T
  <2>1. PICK k \in 1 .. Len(s) : k = m + 1
    OBVIOUS
  <2>2. First(s, k) = First(s, m) \o s[k] /\ s[k] \in Seq(E)
    <3>1. k - 1 = m
      BY <2>1
    <3>2. QED
      BY <1>0, <3>1
  <2>3. First(s, m) \in Seq(E)
    BY <1>2
  <2>4. First(s, k) \in Seq(E)
    BY <2>2, <2>3, Joined
  <2>5. QED
    BY <2>1, <2>4
<1> HIDE DEF T
<1>3. Len(s) \in Nat
  OBVIOUS
<1>4. \A m \in 0 .. Len(s) : m \in T
  BY <1>1, <1>2, <1>3, UpTo
<1>5. QED
  BY <1>4 DEF T

(* Row m lies behind the rows before it ...                                     *)
LEMMA FirstGrows ==
  ASSUME NEW E, NEW s \in Seq(Seq(E)), NEW m \in 1 .. Len(s)
  PROVE  /\ Len(First(s, m - 1)) \in Nat
         /\ Len(First(s, m)) = Len(First(s, m - 1)) + Len(s[m])
         /\ \A i \in 1 .. Len(s[m]) : First(s, m)[Len(First(s, m - 1)) + i] = s[m][i]
<1>1. PICK t \in Seq(E) : t = First(s, m - 1)
  BY FirstTyped
<1>2. PICK x \in Seq(E) : x = s[m]
  BY FirstSteps
<1>3. First(s, m) = t \o x
  BY <1>1, <1>2, FirstSteps
<1>4. QED
  BY <1>1, <1>2, <1>3, Joined

(* ... and stays there.                                                         *)
LEMMA FirstStays ==
  ASSUME NEW E, NEW s \in Seq(Seq(E)), NEW m \in 0 .. Len(s)
  PROVE  /\ Len(First(s, m)) \in Nat
         /\ Len(First(s, m)) <= Len(FlattenSeq(s))
         /\ \A j \in 1 .. Len(First(s, m)) : FlattenSeq(s)[j] = First(s, m)[j]
<1> DEFINE n == Len(s)
           l == Len(First(s, m))
           Kept(k) == l <= Len(First(s, k)) /\ \A j \in 1 .. l : First(s, k)[j] = First(s, m)[j]
           T == {d \in 0 .. n - m : Kept(m + d)}
<1>1. n \in Nat /\ n - m \in Nat /\ l \in Nat /\ First(s, m) \in Seq(E)
  BY FirstTyped
<1>2. 0 \in T
  BY <1>1
<1>3. ASSUME NEW d \in 0 .. (n - m) - 1, d \in T PROVE d + 1 \in T
  <2>1. PICK k \in 1 .. Len(s) : k = m + d + 1
    BY <1>1
  <2>2. PICK t \in Seq(E) : t = First(s, k - 1)
    BY FirstTyped
  <2>3. PICK x \in Seq(E) : x = s[k]
    BY FirstSteps
  <2>4. First(s, k) = t \o x
    BY <2>2, <2>3, FirstSteps
  <2>5. m + d = k - 1
    BY <2>1
  <2>6. l <= Len(t) /\ \A j \in 1 .. l : t[j] = First(s, m)[j]
    BY <1>3, <2>2, <2>5
  <2>7. Len(t \o x) >= Len(t) /\ \A j \in 1 .. Len(t) : (t \o x)[j] = t[j]
    BY Joined
  <2> HIDE DEF l
  <2>8. l <= Len(t \o x)
    BY <1>1, <2>6, <2>7
  <2>9. ASSUME NEW j \in 1 .. l PROVE (t \o x)[j] = First(s, m)[j]
    <3>1. j \in 1 .. Len(t)
      BY <1>1, <2>6
    <3>2. QED
      BY <2>6, <2>7, <3>1
  <2>10. Kept(k)
    BY <2>4, <2>8, <2>9
  <2>11. d + 1 \in 0 .. n - m /\ m + (d + 1) = k
    BY <1>1, <2>1
  <2> HIDE DEF Kept
  <2>12. QED
    BY <2>10, <2>11
<1>4. n - m \in T
  <2> HIDE DEF T
  <2>1. n - m \in 0 .. n - m
    BY <1>1
  <2>2. QED
    BY <1>1, <1>2, <1>3, <2>1, UpTo
<1>5. Kept(n)
  <2>1. m + (n - m) = n
    BY <1>1
  <2>2. QED
    BY <1>4, <2>1
<1>6. First(s, n) = FlattenSeq(s)
  BY FirstSteps
<1>7. QED
  BY <1>1, <1>5, <1>6

LiesAt(flat, row, at) ==
  /\ at \in Nat /\ Len(row) \in Nat /\ Len(flat) \in Nat
  /\ at + Len(row) <= Len(flat)
  /\ \A i \in 1 .. Len(row) : flat[at + i] = row[i]

LEMMA RowLies ==
  ASSUME NEW E, NEW s \in Seq(Seq(E)), NEW m \in 1 .. Len(s)
  PROVE  /\ LiesAt(FlattenSeq(s), s[m], Len(First(s, m - 1)))
         /\ Len(First(s, m)) = Len(First(s, m - 1)) + Len(s[m])
<1>1. m \in 0 .. Len(s) /\ Len(s) \in 0 .. Len(s)
  OBVIOUS
<1>2. Len(s[m]) \in Nat
  BY FirstSteps
<1>3. Len(FlattenSeq(s)) \in Nat
  BY <1>1, FirstTyped, FirstSteps
<1>4. /\ Len(First(s, m - 1)) \in Nat
      /\ Len(First(s, m)) = Len(First(s, m - 1)) + Len(s[m])
      /\ \A i \in 1 .. Len(s[m]) : First(s, m)[Len(First(s, m - 1)) + i] = s[m][i]
  BY FirstGrows
<1>5. Len(First(s, m)) <= Len(FlattenSeq(s)) /\ \A j \in 1 .. Len(First(s, m)) : FlattenSeq(s)[j] = First(s, m)[j]
  BY <1>1, FirstStays
<1>6. ASSUME NEW i \in 1 .. Len(s[m]) PROVE Len(First(s, m - 1)) + i \in 1 .. Len(First(s, m))
  BY <1>2, <1>4
<1>7. QED
  BY <1>2, <1>3, <1>4, <1>5, <1>6 DEF LiesAt

-----------------------------------------------------------------------------
(* Rows of one width                                                            *)

LEMMA Times ==
  ASSUME NEW W \in {1, 2, 3}, NEW m \in Nat
  PROVE  m * W \in Nat /\ (m # 0 => (m - 1) * W \in Nat /\ m * W = (m - 1) * W + W)
<1>1. CASE W = 1
  BY <1>1
<1>2. CASE W = 2
  BY <1>2
<1>3. CASE W = 3
  BY <1>3
<1>4. QED
  BY <1>1, <1>2, <1>3

LEMMA RowsAreSequences ==
  ASSUME NEW E, NEW W \in {1, 2, 3}, NEW s \in Seq([1 .. W -> E])
  PROVE  s \in Seq(Seq(E)) /\ \A m \in 1 .. Len(s) : Len(s[m]) = W /\ DOMAIN s[m] = 1 .. W
<1>1. ASSUME NEW x \in [1 .. W -> E] PROVE x \in Seq(E) /\ Len(x) = W /\ DOMAIN x = 1 .. W
  OBVIOUS
<1>2. [1 .. W -> E] \subseteq Seq(E)
  BY <1>1
<1>3. \A m \in 1 .. Len(s) : s[m] \in [1 .. W -> E]
  OBVIOUS
<1>4. s \in Seq(Seq(E))
  BY <1>2
<1>5. QED
  BY <1>1, <1>3, <1>4

LEMMA WideRows ==
  ASSUME NEW E, NEW W \in {1, 2, 3}, NEW s \in Seq([1 .. W -> E])
  PROVE  /\ FlattenSeq(s) \in Seq(E)
         /\ \A m \in 1 .. Len(s) : LiesAt(FlattenSeq(s), s[m], (m - 1) * W) /\ Len(s[m]) = W
<1>1. s \in Seq(Seq(E)) /\ (\A m \in 1 .. Len(s) : Len(s[m]) = W) /\ Len(s) \in Nat
  BY RowsAreSequences
<1>2. FlattenSeq(s) \in Seq(E)
  <2>1. First(s, Len(s)) \in Seq(E)
    BY <1>1, FirstTyped
  <2>2. First(s, Len(s)) = FlattenSeq(s)
    BY <1>1, FirstSteps
  <2>3. QED
    BY <2>1, <2>2
<1> DEFINE T == {m \in 0 .. Len(s) : Len(First(s, m)) = m * W}
<1>3. 0 \in T
  <2>1. First(s, 0) = <<>>
    BY <1>1, FirstSteps
  <2>2. Len(First(s, 0)) = 0 /\ 0 * W = 0
    BY <2>1
  <2>3. QED
    BY <1>1, <2>2
<1>4. ASSUME NEW m \in 0 .. Len(s) - 1, m \in T PROVE m + 1 \in T
  <2>1. PICK k \in 1 .. Len(s) : k = m + 1
    BY <1>1
  <2>2. k - 1 = m /\ k \in Nat /\ k # 0 /\ k \in 0 .. Len(s)
    BY <2>1
  <2>3. Len(First(s, k)) = Len(First(s, m)) + Len(s[k])
    BY <1>1, <2>2, RowLies
  <2>4. Len(First(s, m)) = m * W /\ Len(s[k]) = W
    BY <1>1, <1>4
  <2>5. k * W = m * W + W
    BY <2>2, Times
  <2>6. Len(First(s, k)) = k * W
    BY <2>3, <2>4, <2>5
  <2>7. QED
    BY <2>1, <2>2, <2>6
<1> HIDE DEF T
<1>5. \A m \in 0 .. Len(s) : m \in T
  BY <1>1, <1>3, <1>4, UpTo
<1>6. ASSUME NEW m \in 1 .. Len(s) PROVE LiesAt(FlattenSeq(s), s[m], (m - 1) * W)
  <2>1. m - 1 \in 0 .. Len(s)
    BY <1>1
  <2>2. Len(First(s, m - 1)) = (m - 1) * W
    BY <1>5, <2>1 DEF T
  <2>3. LiesAt(FlattenSeq(s), s[m], Len(First(s, m - 1)))
    BY <1>1, RowLies
  <2>4. QED
    BY <2>2, <2>3
<1>7. QED
  BY <1>1, <1>2, <1>6

-----------------------------------------------------------------------------
(* From values to words and back                                                *)

Values == Nat \cup {None}
Decoded(words, dtype) == [k \in DOMAIN words |-> Value(words[k], dtype)]
Filled(kind, rows) == [i \in DOMAIN rows |-> Row(kind, rows[i])]

LEMMA RoundTrip ==
  /\ \A v \in Values : Value(Word(v, "f32"), "f32") = v
  /\ \A v \in Nat : Value(Word(v, "u32"), "u32") = v
<1>1. ASSUME NEW v \in Values PROVE Value(Word(v, "f32"), "f32") = v
  <2>1. CASE v = None
    <3>1. v # 0
      BY <2>1, NoneAssumption
    <3>2. Word(v, "f32") = -1
      BY <2>1, <3>1 DEF Word
    <3>3. QED
      BY <2>1, <3>2 DEF Value
  <2>2. CASE v = 0
    BY <2>2 DEF Word, Value
  <2>3. CASE v \in Nat /\ v # 0
    <3>1. v # None
      BY <2>3, NoneAssumption
    <3>2. Word(v, "f32") = 1000 + v
      BY <2>3, <3>1 DEF Word
    <3>3. PICK w : w = 1000 + v
      OBVIOUS
    <3>4. w # 0 /\ w # -1 /\ w > 1000 /\ w - 1000 = v
      BY <2>3, <3>3
    <3>5. QED
      BY <3>2, <3>3, <3>4 DEF Value
  <2>4. QED
    BY <2>1, <2>2, <2>3 DEF Values
<1>2. QED
  BY <1>1 DEF Word, Value

(* A typed array has every element where the accessors look for it.             *)
ReadsAs(a, full, W) == \A m \in 1 .. Len(full), c \in 1 .. W : Elem(a, (m - 1) * W + c - 1) = full[m][c]

(* The rows of a kind filled up to one width: words can hold their values.      *)
FillsTo(full, kind, rows, W) ==
  /\ W \in {1, 2, 3}
  /\ full = Filled(kind, rows)
  /\ full \in Seq([1 .. W -> Values])
  /\ Dtype(kind) = "u32" => full \in Seq([1 .. W -> Nat])

LEMMA WordsDecode ==
  ASSUME NEW kind, NEW rows, NEW W, NEW full, FillsTo(full, kind, rows, W)
  PROVE  ReadsAs(Decoded(Words(rows, kind), Dtype(kind)), full, W)
<1>0. /\ W \in {1, 2, 3} /\ full = Filled(kind, rows) /\ full \in Seq([1 .. W -> Values])
      /\ Dtype(kind) = "u32" => full \in Seq([1 .. W -> Nat])
  BY DEF FillsTo
<1> SUFFICES ASSUME NEW m \in 1 .. Len(full), NEW c \in 1 .. W
             PROVE  Elem(Decoded(Words(rows, kind), Dtype(kind)), (m - 1) * W + c - 1) = full[m][c]
  BY DEF ReadsAs
<1> DEFINE flat == FlattenSeq(full)
           words == Words(rows, kind)
           at == (m - 1) * W + c
<1>1. words = [k \in DOMAIN flat |-> Word(flat[k], Dtype(kind))]
  BY <1>0 DEF Words, Filled
<1>2. flat \in Seq(Values) /\ at \in 1 .. Len(flat) /\ flat[at] = full[m][c]
  <2> HIDE DEF words
  <2>1. FlattenSeq(full) \in Seq(Values)
    BY <1>0, WideRows
  <2>2. LiesAt(FlattenSeq(full), full[m], (m - 1) * W) /\ Len(full[m]) = W
    <3>1. \A n \in 1 .. Len(full) : LiesAt(FlattenSeq(full), full[n], (n - 1) * W) /\ Len(full[n]) = W
      BY <1>0, WideRows
    <3>2. QED
      BY <3>1
  <2>3. PICK b : b = (m - 1) * W
    OBVIOUS
  <2>4. b + c \in 1 .. Len(flat) /\ flat[b + c] = full[m][c]
    <3>1. LiesAt(flat, full[m], b) /\ Len(full[m]) = W
      BY <2>2, <2>3
    <3>2. PICK r : r = full[m]
      OBVIOUS
    <3> HIDE DEF flat
    <3>3. LiesAt(flat, r, b) /\ Len(r) = W
      BY <3>1, <3>2
    <3>4. b \in Nat /\ b + W <= Len(flat) /\ Len(flat) \in Nat /\ \A i \in 1 .. W : flat[b + i] = r[i]
      BY <3>3 DEF LiesAt
    <3>5. b + c \in 1 .. Len(flat)
      BY <1>0, <3>4
    <3>6. QED
      BY <3>2, <3>4, <3>5
  <2>5. QED
    BY <1>0, <2>1, <2>3, <2>4
<1>3. Dtype(kind) = "u32" => flat \in Seq(Nat)
  BY <1>0, WideRows
<1>4. Dtype(kind) \in {"u32", "f32"}
  BY DEF Dtype
<1>5. (m - 1) * W \in Nat
  <2>1. m \in Nat /\ m # 0
    OBVIOUS
  <2>2. QED
    BY <1>0, <2>1, Times
<1>6. at - 1 + 1 = at /\ (m - 1) * W + (c - 1) = at - 1
  <2>1. PICK b \in Nat : b = (m - 1) * W
    BY <1>5
  <2>2. b + c - 1 + 1 = b + c /\ b + (c - 1) = (b + c) - 1 /\ c \in Int
    BY <1>0
  <2>3. (b + c) - 1 + 1 = b + c
    BY <2>2
  <2>4. QED
    BY <2>1, <2>2, <2>3
<1> HIDE DEF flat, words, at
<1>7. DOMAIN flat = 1 .. Len(flat)
  BY <1>2
<1>8. Decoded(words, Dtype(kind)) = [k \in DOMAIN flat |-> Value(words[k], Dtype(kind))]
  BY <1>1 DEF Decoded
<1>9. Decoded(words, Dtype(kind))[at] = Value(Word(flat[at], Dtype(kind)), Dtype(kind))
  BY <1>1, <1>2, <1>7, <1>8
<1>10. Decoded(words, Dtype(kind))[at] = flat[at]
  <2>1. flat[at] \in Values /\ (Dtype(kind) = "u32" => flat[at] \in Nat)
    BY <1>2, <1>3
  <2>2. QED
    BY <1>4, <1>9, <2>1, RoundTrip
<1>11. at \in DOMAIN Decoded(words, Dtype(kind))
  BY <1>2, <1>7, <1>8
<1>12. QED
  <2>1. Elem(Decoded(words, Dtype(kind)), at - 1) = flat[at]
    BY <1>6, <1>10, <1>11 DEF Elem
  <2>2. flat[at] = full[m][c]
    BY <1>2
  <2>3. Elem(Decoded(words, Dtype(kind)), (m - 1) * W + c - 1) = full[m][c]
    BY <1>6, <2>1, <2>2
  <2>4. QED
    BY <2>3, Zenon DEF words

-----------------------------------------------------------------------------
(* A field that the page has the blocks of                                      *)

LEMMA FieldKinds == \A f \in Fields : f.kind \in {"points", "nodes", "triangles", "values", "lines"}
                                      /\ f.rows \in RowsOf(f.kind)
BY FieldsAssumption

Full(f) == Filled(f.kind, f.rows)

LEMMA IsSequence ==
  ASSUME NEW S, NEW n \in Nat, NEW f \in [1 .. n -> S]
  PROVE  f \in Seq(S) /\ Len(f) = n /\ DOMAIN f = 1 .. n
OBVIOUS

LEMMA AsFunction == ASSUME NEW S, NEW s \in Seq(S) PROVE s \in [1 .. Len(s) -> S]
OBVIOUS

LEMMA Padded ==
  ASSUME NEW V, None \in V, NEW row \in [1 .. 2 -> V] \cup [1 .. 3 -> V]
  PROVE  Row("points", row) \in [1 .. 3 -> V]
<1>1. CASE row \in [1 .. 2 -> V]
  <2>1. row \in Seq(V) /\ Len(row) = 2
    BY <1>1, IsSequence
  <2>2. Append(row, None) \in Seq(V) /\ Len(Append(row, None)) = 3
    <3>1. Append(row, None) \in Seq(V) /\ Len(Append(row, None)) = Len(row) + 1
      <4>1. PICK x \in V : x = None
        OBVIOUS
      <4>2. PICK r \in Seq(V) : r = row
        BY <2>1
      <4>3. Append(r, x) \in Seq(V) /\ Len(Append(r, x)) = Len(r) + 1
        BY Appended
      <4>4. QED
        BY <4>1, <4>2, <4>3
    <3>2. QED
      BY <2>1, <3>1
  <2>3. Append(row, None) \in [1 .. 3 -> V]
    BY <2>2, AsFunction
  <2>4. QED
    BY <2>1, <2>3 DEF Row
<1>2. CASE row \in [1 .. 3 -> V]
  <2>1. Len(row) = 3
    BY <1>2, IsSequence
  <2>2. QED
    BY <1>2, <2>1 DEF Row
<1>3. QED
  BY <1>1, <1>2

LEMMA FullRows ==
  ASSUME NEW f \in Fields, f.kind # "lines"
  PROVE  /\ Width(f.kind) \in {1, 2, 3} /\ Len(f.rows) \in Nat /\ DOMAIN f.rows = 1 .. Len(f.rows)
         /\ Full(f) \in Seq([1 .. Width(f.kind) -> Values]) /\ Len(Full(f)) = Len(f.rows)
         /\ Dtype(f.kind) = "u32" => Full(f) \in Seq([1 .. Width(f.kind) -> Nat])
<1>1. Width(f.kind) \in {1, 2, 3}
  BY DEF Width
<1>2. CASE f.kind = "points"
  <2> DEFINE V == Values
             S == [1 .. 2 -> V] \cup [1 .. 3 -> V]
             R == [1 .. 3 -> V]
  <2>1. f.rows \in Seq(S)
    BY <1>2, FieldKinds DEF RowsOf, Values
  <2>2. \A row \in S : Row("points", row) \in R
    BY Padded DEF Values
  <2>3. Width(f.kind) = 3 /\ Dtype(f.kind) = "f32"
    BY <1>2 DEF Width, Dtype
  <2> HIDE DEF V, S, R
  <2>4. Len(f.rows) \in Nat /\ DOMAIN f.rows = 1 .. Len(f.rows) /\ \A i \in 1 .. Len(f.rows) : f.rows[i] \in S
    BY <2>1
  <2>5. Full(f) \in [1 .. Len(f.rows) -> R]
    BY <1>2, <2>2, <2>4 DEF Full, Filled
  <2>6. Full(f) \in Seq(R) /\ Len(Full(f)) = Len(f.rows)
    BY <2>4, <2>5
  <2>7. QED
    BY <2>3, <2>4, <2>6 DEF V, R
<1>3. CASE f.kind # "points"
  <2> DEFINE V == Values
             R == [1 .. Width(f.kind) -> V]
             N == [1 .. Width(f.kind) -> Nat]
  <2>1. f.rows \in Seq(R) /\ (Dtype(f.kind) = "u32" => f.rows \in Seq(N))
    <3>1. CASE f.kind = "triangles"
      <4>1. f.rows \in Seq([1 .. 3 -> Nat]) /\ Width(f.kind) = 3
        BY <3>1, FieldKinds DEF RowsOf, Width
      <4>2. [1 .. 3 -> Nat] \subseteq [1 .. 3 -> V]
        BY DEF Values
      <4>3. f.rows \in Seq([1 .. 3 -> V])
        BY <4>1, <4>2
      <4>4. QED
        BY <4>1, <4>3
    <3>2. CASE f.kind # "triangles"
      <4>1. Dtype(f.kind) = "f32"
        BY <3>2 DEF Dtype
      <4>2. RowsOf(f.kind) = Seq(R)
        BY <1>3, <3>2, FieldKinds DEF RowsOf, Values
      <4>3. QED
        BY <4>1, <4>2, FieldKinds
    <3>3. QED
      BY <3>1, <3>2
  <2> HIDE DEF R, N
  <2>2. Len(f.rows) \in Nat /\ DOMAIN f.rows = 1 .. Len(f.rows) /\ f.rows = [i \in 1 .. Len(f.rows) |-> f.rows[i]]
    BY <2>1
  <2>3. Full(f) = f.rows
    BY <1>3, <2>2 DEF Full, Filled, Row
  <2>4. QED
    BY <1>1, <2>1, <2>2, <2>3 DEF R, N
<1>4. QED
  BY <1>2, <1>3

(* The page has a block when the table has its row count and the cache its      *)
(* words as typed values.                                                       *)
Has(b) == table[b.words].rows = b.rows /\ cache[b.words] = Decoded(b.words, b.dtype)

LEMMA RowsBack ==
  ASSUME NEW f \in Fields, f.kind # "lines", Has(Blocks(f)[1])
  PROVE  ReadRows(Blocks(f)[1].words, f.kind) = Full(f)
<1> DEFINE words == Words(f.rows, f.kind)
           W == Width(f.kind)
           full == Full(f)
           n == Len(f.rows)
<1>1. Blocks(f)[1].words = words /\ Blocks(f)[1].dtype = Dtype(f.kind) /\ Blocks(f)[1].rows = n
  BY DEF Blocks, Block
<1>2. table[words].rows = n /\ cache[words] = Decoded(words, Dtype(f.kind))
  BY <1>1 DEF Has
<1>3. /\ W \in {1, 2, 3} /\ n \in Nat
      /\ full \in Seq([1 .. W -> Values]) /\ Len(full) = n
      /\ Dtype(f.kind) = "u32" => full \in Seq([1 .. W -> Nat])
  BY FullRows
<1>4. full = Filled(f.kind, f.rows)
  BY DEF Full
<1>5. ASSUME NEW i \in 1 .. n, NEW c \in 1 .. W
      PROVE  Elem(cache[words], (i - 1) * W + c - 1) = full[i][c]
  <2> HIDE DEF W, full, n
  <2>1. FillsTo(full, f.kind, f.rows, W)
    BY <1>3, <1>4 DEF FillsTo
  <2>2. ReadsAs(cache[words], full, W)
    BY <1>2, <2>1, WordsDecode
  <2> HIDE DEF words
  <2>3. QED
    BY <1>3, <2>2 DEF ReadsAs
<1>6. ReadRows(words, f.kind) = [i \in 1 .. n |-> [c \in 1 .. W |-> Elem(cache[words], (i - 1) * W + c - 1)]]
  BY <1>2 DEF ReadRows
<1> HIDE DEF words, W, full, n
<1>7. ReadRows(words, f.kind) = [i \in 1 .. n |-> [c \in 1 .. W |-> full[i][c]]]
  BY <1>5, <1>6
<1>8. full \in [1 .. n -> [1 .. W -> Values]]
  BY <1>3
<1>9. full = [i \in 1 .. n |-> [c \in 1 .. W |-> full[i][c]]]
  BY <1>8
<1>10. QED
  BY <1>1, <1>7, <1>9 DEF full

(* The words of offsets are the offsets, and they say where each line lies.     *)
LEMMA OffsetsDecode ==
  ASSUME NEW E, NEW lines \in Seq(Seq(E))
  PROVE  \A k \in 0 .. Len(lines) :
           Elem(Decoded(Offsets(lines), "u32"), k) = Len(First(lines, k))
<1> DEFINE n == Len(lines)
           off == Offsets(lines)
<1>1. n \in Nat /\ off = [k \in 1 .. n + 1 |-> Len(First(lines, k - 1))]
  BY DEF Offsets, First
<1> HIDE DEF off
<1>2. Decoded(off, "u32") = [k \in 1 .. n + 1 |-> off[k]]
  BY <1>1 DEF Decoded, Value
<1>3. ASSUME NEW k \in 0 .. n PROVE Elem(Decoded(off, "u32"), k) = Len(First(lines, k))
  <2>1. k + 1 \in 1 .. n + 1 /\ k + 1 - 1 = k
    BY <1>1
  <2>2. off[k + 1] = Len(First(lines, k))
    BY <1>1, <2>1
  <2>3. Decoded(off, "u32")[k + 1] = off[k + 1] /\ k + 1 \in DOMAIN Decoded(off, "u32")
    BY <1>2, <2>1
  <2>4. QED
    BY <2>2, <2>3 DEF Elem
<1>4. QED
  BY <1>3 DEF off

LEMMA LinesBack ==
  ASSUME NEW f \in Fields, f.kind = "lines", Has(Blocks(f)[1]), Has(Blocks(f)[2])
  PROVE  ReadLines(Blocks(f)[1].words, Blocks(f)[2].words) = f.rows
<1> DEFINE lines == f.rows
           n == Len(lines)
           points == FlattenSeq(lines)
           coords == Words(points, "lines")
           offsets == Offsets(lines)
           off == cache[offsets]
           P == [1 .. 2 -> Values]
<1>1. /\ Blocks(f)[1] = [words |-> coords, dtype |-> "f32", rows |-> Len(points)]
      /\ Blocks(f)[2] = [words |-> offsets, dtype |-> "u32", rows |-> n + 1]
  BY DEF Blocks, Block
<1>2. cache[coords] = Decoded(coords, "f32") /\ off = Decoded(offsets, "u32") /\ table[offsets].rows = n + 1
  BY <1>1 DEF Has
<1>3. lines \in Seq(Seq(P)) /\ n \in Nat
  <2>1. RowsOf("lines") = Seq(Seq(P))
    BY DEF RowsOf, Values
  <2>2. f.rows \in RowsOf("lines")
    BY FieldKinds
  <2> HIDE DEF P
  <2>3. f.rows \in Seq(Seq(P))
    BY <2>1, <2>2
  <2>4. QED
    BY <2>3
<1> HIDE DEF P
<1>4. points \in Seq(P)
  <2>1. n \in 0 .. n
    BY <1>3
  <2>2. First(lines, n) \in Seq(P)
    BY <1>3, <2>1, FirstTyped
  <2>3. First(lines, n) = points
    BY <1>3, FirstSteps
  <2>4. QED
    BY <2>2, <2>3
<1>5. ReadsAs(cache[coords], points, 2)
  <2>1. points = Filled("lines", points)
    <3> HIDE DEF points
    <3>1. points = [i \in DOMAIN points |-> points[i]]
      BY <1>4
    <3>2. QED
      BY <3>1 DEF Filled, Row
  <2>2. Dtype("lines") = "f32"
    BY DEF Dtype
  <2>3. FillsTo(points, "lines", points, 2)
    BY <1>4, <2>1, <2>2 DEF FillsTo, P
  <2> HIDE DEF points
  <2>4. ReadsAs(Decoded(Words(points, "lines"), Dtype("lines")), points, 2)
    BY <2>3, WordsDecode
  <2>5. QED
    BY <1>2, <2>2, <2>4
<1>6. \A k \in 0 .. n : Elem(off, k) = Len(First(lines, k))
  BY <1>2, <1>3, OffsetsDecode
<1>7. ReadLines(coords, offsets) =
        [k \in 1 .. n |-> [i \in 1 .. Elem(off, k) - Elem(off, k - 1) |->
           [c \in 1 .. 2 |-> Elem(cache[coords], (Elem(off, k - 1) + i - 1) * 2 + c - 1)]]]
  <2>1. table[offsets].rows - 1 = n
    BY <1>2, <1>3
  <2> HIDE DEF coords, offsets, n
  <2>2. QED
    BY <2>1 DEF ReadLines
<1> HIDE DEF coords, offsets, off, points, n, lines
<1>8. ASSUME NEW k \in 1 .. n
      PROVE  [i \in 1 .. Elem(off, k) - Elem(off, k - 1) |->
                [c \in 1 .. 2 |-> Elem(cache[coords], (Elem(off, k - 1) + i - 1) * 2 + c - 1)]] = lines[k]
  <2> DEFINE l == Len(lines[k])
  <2>1. PICK b : b = Elem(off, k - 1)
    OBVIOUS
  <2>2. k - 1 \in 0 .. n /\ k \in 0 .. n /\ k \in 1 .. Len(lines)
    BY <1>3 DEF n
  <2>3. Elem(off, k) = Len(First(lines, k)) /\ b = Len(First(lines, k - 1))
    BY <1>6, <2>1, <2>2
  <2>4. LiesAt(points, lines[k], b) /\ Len(First(lines, k)) = b + l
    BY <1>3, <2>2, <2>3, RowLies DEF points
  <2>5. b \in Nat /\ l \in Nat /\ b + l <= Len(points) /\ \A i \in 1 .. l : points[b + i] = lines[k][i]
    BY <2>4 DEF LiesAt
  <2>6. Elem(off, k) - b = l
    BY <2>3, <2>4, <2>5
  <2>7. lines[k] \in Seq(P)
    BY <1>3, <2>2
  <2> HIDE DEF l
  <2>8. lines[k] \in [1 .. l -> P]
    BY <2>7 DEF l
  <2>9. ASSUME NEW i \in 1 .. l, NEW c \in 1 .. 2
        PROVE  Elem(cache[coords], (b + i - 1) * 2 + c - 1) = lines[k][i][c]
    <3>1. b + i \in 1 .. Len(points) /\ b + (i - 1) = (b + i) - 1
      BY <1>4, <2>5
    <3>2. PICK m \in 1 .. Len(points) : m = b + i
      BY <3>1
    <3>3. Elem(cache[coords], (m - 1) * 2 + c - 1) = points[m][c]
      BY <1>5, <3>2 DEF ReadsAs
    <3>4. QED
      BY <2>5, <3>1, <3>2, <3>3
  <2>10. lines[k] = [i \in 1 .. l |-> [c \in 1 .. 2 |-> lines[k][i][c]]]
    BY <2>8 DEF P
  <2>11. [i \in 1 .. l |-> [c \in 1 .. 2 |-> Elem(cache[coords], (b + i - 1) * 2 + c - 1)]]
           = [i \in 1 .. l |-> [c \in 1 .. 2 |-> lines[k][i][c]]]
    BY <2>9
  <2>12. QED
    BY <2>1, <2>6, <2>10, <2>11
<1>9. lines = [k \in 1 .. n |-> lines[k]]
  BY <1>3 DEF n
<1>10. ReadLines(coords, offsets) = lines
  BY <1>7, <1>8, <1>9
<1>11. QED
  BY <1>1, <1>10 DEF lines

-----------------------------------------------------------------------------
(* The blocks of a field, added one after the other                             *)

LEMMA BlocksAre ==
  ASSUME NEW f
  PROVE  \/ \E b : Blocks(f) = <<b>>
         \/ \E b, c : Blocks(f) = <<b, c>>
BY DEF Blocks

Folding(it, t, bs) ==
  it = [s \in SUBSET DOMAIN bs |-> IF s = {} THEN t ELSE Add(it[s \ {Max(s)}], bs[Max(s)])]

LEMMA FoldIs == \A t, bs : FoldLeft(Add, t, bs) = (CHOOSE it : Folding(it, t, bs))[DOMAIN bs]
BY DEF FoldLeft, MapThenFoldSet, Folding

LEMMA MaxOfTwo == Max({1}) = 1 /\ Max({2}) = 2 /\ Max({1, 2}) = 2
<1>1. Max({1}) = 1
  BY DEF Max
<1>2. Max({2}) = 2
  BY DEF Max
<1>3. \A x \in {1, 2} : (\A y \in {1, 2} : x >= y) <=> x = 2
  OBVIOUS
<1>4. Max({1, 2}) = 2
  BY <1>3 DEF Max
<1>5. QED
  BY <1>1, <1>2, <1>4

LEMMA AddOne == \A t, b : FoldLeft(Add, t, <<b>>) = Add(t, b)
<1> SUFFICES ASSUME NEW t, NEW b PROVE FoldLeft(Add, t, <<b>>) = Add(t, b)
  OBVIOUS
<1> DEFINE bs == <<b>>
           it == [s \in SUBSET {1} |-> IF s = {} THEN t ELSE Add(t, b)]
<1>1. DOMAIN bs = {1} /\ bs[1] = b
  OBVIOUS
<1>2. \A s \in SUBSET {1} : s = {} \/ s = {1}
  OBVIOUS
<1>3. {1} \ {1} = {} /\ {} \in SUBSET {1} /\ {1} \in SUBSET {1} /\ {1} # {}
  OBVIOUS
<1>4. it[{}] = t /\ it[{1}] = Add(t, b)
  BY <1>3
<1> HIDE DEF bs
<1>5. ASSUME NEW s \in SUBSET {1}
      PROVE  it[s] = IF s = {} THEN t ELSE Add(it[s \ {Max(s)}], bs[Max(s)])
  <2> HIDE DEF it
  <2>1. CASE s = {}
    BY <1>4, <2>1
  <2>2. CASE s = {1}
    BY <1>1, <1>3, <1>4, <2>2, MaxOfTwo
  <2>3. QED
    BY <1>2, <2>1, <2>2
<1>6. it = [s \in SUBSET {1} |-> it[s]]
  OBVIOUS
<1> HIDE DEF it
<1>7. Folding(it, t, bs)
  BY <1>1, <1>5, <1>6 DEF Folding
<1>8. PICK g : g = CHOOSE h : Folding(h, t, bs)
  OBVIOUS
<1>9. Folding(g, t, bs)
  BY <1>7, <1>8
<1>10. g[{}] = t
  BY <1>1, <1>3, <1>9 DEF Folding
<1>11. g[{1}] = Add(g[{1} \ {Max({1})}], bs[Max({1})])
  BY <1>1, <1>3, <1>9 DEF Folding
<1>12. g[{1}] = Add(t, b)
  BY <1>1, <1>3, <1>10, <1>11, MaxOfTwo
<1>13. QED
  BY <1>1, <1>8, <1>12, FoldIs DEF bs

Both(t, b, c) == Add(Add(t, b), c)

LEMMA AddBoth ==
  ASSUME NEW t, NEW b, NEW c, NEW bs, bs = <<b, c>>
  PROVE  FoldLeft(Add, t, bs) = Both(t, b, c)
<1> DEFINE it == [s \in SUBSET {1, 2} |-> IF s = {} THEN t
                                          ELSE IF s = {1} THEN Add(t, b)
                                          ELSE IF s = {2} THEN Add(t, c)
                                          ELSE Add(Add(t, b), c)]
<1>1. DOMAIN bs = {1, 2} /\ bs[1] = b /\ bs[2] = c
  OBVIOUS
<1>2. \A s \in SUBSET {1, 2} : s = {} \/ s = {1} \/ s = {2} \/ s = {1, 2}
  OBVIOUS
<1>3. /\ {} \in SUBSET {1, 2} /\ {1} \in SUBSET {1, 2} /\ {2} \in SUBSET {1, 2} /\ {1, 2} \in SUBSET {1, 2}
      /\ {1} # {} /\ {2} # {} /\ {1, 2} # {} /\ {1} # {2} /\ {1, 2} # {1} /\ {1, 2} # {2}
      /\ {1} \ {1} = {} /\ {2} \ {2} = {} /\ {1, 2} \ {2} = {1}
  OBVIOUS
<1>4. it[{}] = t /\ it[{1}] = Add(t, b) /\ it[{2}] = Add(t, c) /\ it[{1, 2}] = Add(Add(t, b), c)
  BY <1>3
<1>5. ASSUME NEW s \in SUBSET {1, 2}
      PROVE  it[s] = IF s = {} THEN t ELSE Add(it[s \ {Max(s)}], bs[Max(s)])
  <2> HIDE DEF it
  <2>1. CASE s = {}
    BY <1>4, <2>1
  <2>2. CASE s = {1}
    BY <1>1, <1>3, <1>4, <2>2, MaxOfTwo
  <2>3. CASE s = {2}
    BY <1>1, <1>3, <1>4, <2>3, MaxOfTwo
  <2>4. CASE s = {1, 2}
    BY <1>1, <1>3, <1>4, <2>4, MaxOfTwo
  <2>5. QED
    BY <1>2, <2>1, <2>2, <2>3, <2>4
<1>6. it = [s \in SUBSET {1, 2} |-> it[s]]
  OBVIOUS
<1> HIDE DEF it
<1>7. Folding(it, t, bs)
  BY <1>1, <1>5, <1>6 DEF Folding
<1>8. PICK g : g = CHOOSE h : Folding(h, t, bs)
  OBVIOUS
<1>9. Folding(g, t, bs)
  BY <1>7, <1>8
<1>10. g[{}] = t
  BY <1>1, <1>3, <1>9 DEF Folding
<1>11. g[{1}] = Add(g[{1} \ {Max({1})}], bs[Max({1})])
  BY <1>1, <1>3, <1>9 DEF Folding
<1>12. g[{1, 2}] = Add(g[{1, 2} \ {Max({1, 2})}], bs[Max({1, 2})])
  BY <1>1, <1>3, <1>9 DEF Folding
<1>13. g[{1}] = Add(t, b)
  BY <1>1, <1>3, <1>10, <1>11, MaxOfTwo
<1>14. g[{1, 2}] = Add(Add(t, b), c)
  BY <1>1, <1>3, <1>12, <1>13, MaxOfTwo
<1>15. QED
  BY <1>1, <1>8, <1>14, FoldIs DEF Both

(* What comes of adding blocks to a table: every entry stays, every block is    *)
(* found, and an entry that is new is one of the blocks'.                       *)
Extends(u, t, bs) ==
  /\ \A w \in DOMAIN t : w \in DOMAIN u /\ u[w] = t[w]
  /\ \A k \in DOMAIN bs : bs[k].words \in DOMAIN u
  /\ \A w \in DOMAIN u \ DOMAIN t : \E k \in DOMAIN bs : bs[k].words = w /\ u[w] = Entry(bs[k])

LEMMA AddIs ==
  ASSUME NEW t, NEW b
  PROVE  /\ DOMAIN Add(t, b) = DOMAIN t \cup {b.words}
         /\ \A w \in DOMAIN t : Add(t, b)[w] = t[w]
         /\ b.words \notin DOMAIN t => Add(t, b)[b.words] = Entry(b)
<1>1. CASE b.words \in DOMAIN t
  BY <1>1 DEF Add
<1>2. CASE b.words \notin DOMAIN t
  <2>1. Add(t, b) = [w \in DOMAIN t \cup {b.words} |-> IF w = b.words THEN Entry(b) ELSE t[w]]
    BY <1>2 DEF Add, Entry
  <2>2. QED
    BY <1>2, <2>1
<1>3. QED
  BY <1>1, <1>2

LEMMA FoldExtends ==
  ASSUME NEW f, NEW t
  PROVE  Extends(FoldLeft(Add, t, Blocks(f)), t, Blocks(f))
<1>1. ASSUME NEW b, Blocks(f) = <<b>> PROVE Extends(FoldLeft(Add, t, Blocks(f)), t, Blocks(f))
  <2>1. FoldLeft(Add, t, Blocks(f)) = Add(t, b)
    BY <1>1, AddOne
  <2>2. PICK u : u = Add(t, b)
    OBVIOUS
  <2>3. PICK bs : bs = <<b>>
    OBVIOUS
  <2>4. DOMAIN bs = {1} /\ bs[1] = b
    BY <2>3
  <2>5. /\ DOMAIN u = DOMAIN t \cup {b.words} /\ \A w \in DOMAIN t : u[w] = t[w]
        /\ b.words \notin DOMAIN t => u[b.words] = Entry(b)
    BY <2>2, AddIs
  <2>6. Extends(u, t, bs)
    BY <2>4, <2>5 DEF Extends
  <2>7. QED
    BY <1>1, <2>1, <2>2, <2>3, <2>6
<1>2. ASSUME NEW b, NEW c, Blocks(f) = <<b, c>> PROVE Extends(FoldLeft(Add, t, Blocks(f)), t, Blocks(f))
  <2>1. FoldLeft(Add, t, Blocks(f)) = Both(t, b, c)
    BY <1>2, AddBoth
  <2>2. PICK u : u = Add(t, b)
    OBVIOUS
  <2>3. PICK v : v = Add(u, c)
    OBVIOUS
  <2>4. PICK bs : bs = <<b, c>>
    OBVIOUS
  <2>5. DOMAIN bs = {1, 2} /\ bs[1] = b /\ bs[2] = c
    BY <2>4
  <2>6. /\ DOMAIN u = DOMAIN t \cup {b.words} /\ \A w \in DOMAIN t : u[w] = t[w]
        /\ b.words \notin DOMAIN t => u[b.words] = Entry(b)
    BY <2>2, AddIs
  <2>7. /\ DOMAIN v = DOMAIN u \cup {c.words} /\ \A w \in DOMAIN u : v[w] = u[w]
        /\ c.words \notin DOMAIN u => v[c.words] = Entry(c)
    BY <2>3, AddIs
  <2>8. ASSUME NEW w \in DOMAIN v \ DOMAIN t
        PROVE  \E k \in DOMAIN bs : bs[k].words = w /\ v[w] = Entry(bs[k])
    <3>1. CASE w \in DOMAIN u
      <4>1. w = b.words /\ v[w] = Entry(b)
        BY <2>6, <2>7, <2>8, <3>1
      <4>2. QED
        BY <2>5, <4>1
    <3>2. CASE w \notin DOMAIN u
      <4>1. w = c.words /\ v[w] = Entry(c)
        BY <2>7, <2>8, <3>2
      <4>2. QED
        BY <2>5, <4>1
    <3>3. QED
      BY <3>1, <3>2
  <2>9. Extends(v, t, bs)
    BY <2>5, <2>6, <2>7, <2>8 DEF Extends
  <2>10. FoldLeft(Add, t, Blocks(f)) = v
    BY <2>1, <2>2, <2>3 DEF Both
  <2>11. QED
    BY <1>2, <2>4, <2>9, <2>10
<1>3. QED
  BY <1>1, <1>2, BlocksAre

-----------------------------------------------------------------------------
(* The steps                                                                    *)

LEMMA InitInv == BlocksInit => Inv
<1> SUFFICES ASSUME BlocksInit PROVE Inv
  OBVIOUS
<1>1. map \in Seq(Fields) /\ encoded \in 0 .. Len(map)
  <2>1. PICK n \in 1 .. MaxFields : map \in [1 .. n -> Fields]
    BY DEF BlocksInit
  <2>2. n \in Nat
    BY <2>1, BoundAssumption
  <2>3. map \in Seq(Fields) /\ Len(map) = n
    BY <2>1, <2>2, IsSequence
  <2>4. encoded = 0
    BY DEF BlocksInit
  <2>5. QED
    BY <2>2, <2>3, <2>4
<1>2. 1 .. encoded = {}
  BY DEF BlocksInit
<1>3. DOMAIN table = {} /\ DOMAIN cache = {} /\ markers = <<>> /\ resolved = FALSE
  BY DEF BlocksInit
<1>4. MarkersOK
  <2>1. [i \in {} |-> [k \in BlockNumbers(i) |-> Blocks(map[i])[k].words]] = <<>>
    OBVIOUS
  <2>2. QED
    BY <1>2, <1>3, <2>1 DEF MarkersOK
<1>5. TableOK
  BY <1>2, <1>3 DEF TableOK
<1>6. CacheOK
  BY <1>3 DEF CacheOK
<1>7. QED
  BY <1>1, <1>4, <1>5, <1>6 DEF Inv

LEMMA EncodeStep == ASSUME Inv, EncodeField PROVE Inv'
<1> DEFINE n == encoded + 1
           bs == Blocks(map[n])
<1>1. /\ encoded < Len(map) /\ encoded' = n /\ UNCHANGED <<map, cache, resolved>>
      /\ table' = FoldLeft(Add, table, bs)
      /\ markers' = Append(markers, [k \in DOMAIN bs |-> bs[k].words])
  BY DEF EncodeField
<1>2. map \in Seq(Fields) /\ encoded \in 0 .. Len(map) /\ Len(map) \in Nat
  BY DEF Inv
<1>3. n \in 0 .. Len(map) /\ 1 .. n = (1 .. encoded) \cup {n} /\ n \in Nat /\ n \notin 1 .. encoded
  BY <1>1, <1>2
<1>4. Extends(table', table, bs)
  BY <1>1, FoldExtends
<1>5. map' = map
  BY <1>1
<1>6. MarkersOK'
  <2> DEFINE M == [i \in 1 .. encoded |-> [k \in BlockNumbers(i) |-> Blocks(map[i])[k].words]]
             x == [k \in DOMAIN bs |-> bs[k].words]
  <2>1. markers = M
    BY DEF Inv, MarkersOK
  <2>2. DOMAIN M = 1 .. encoded
    OBVIOUS
  <2> DEFINE S == {M[i] : i \in 1 .. encoded} \cup {x}
  <2>3. M \in [1 .. encoded -> S]
    OBVIOUS
  <2>4. x \in S
    OBVIOUS
  <2>5. \A i \in 1 .. encoded : M[i] = [k \in BlockNumbers(i) |-> Blocks(map[i])[k].words]
    OBVIOUS
  <2> HIDE DEF M, x, S
  <2>6. M \in Seq(S) /\ Len(M) = encoded
    BY <1>2, <2>3, IsSequence
  <2>7. PICK q : q = Append(M, x)
    OBVIOUS
  <2>8. q \in Seq(S) /\ Len(q) = n /\ (\A i \in 1 .. encoded : q[i] = M[i]) /\ q[n] = x
    BY <2>4, <2>6, <2>7, Appended
  <2>9. q = [i \in 1 .. n |-> q[i]]
    BY <2>8
  <2>10. \A i \in 1 .. n : q[i] = [k \in BlockNumbers(i) |-> Blocks(map[i])[k].words]
    <3>1. ASSUME NEW i \in 1 .. n PROVE q[i] = [k \in BlockNumbers(i) |-> Blocks(map[i])[k].words]
      <4>1. CASE i = n
        BY <2>8, <4>1 DEF x, BlockNumbers
      <4>2. CASE i \in 1 .. encoded
        BY <2>5, <2>8, <4>2
      <4>3. QED
        BY <1>3, <4>1, <4>2
    <3>2. QED
      BY <3>1
  <2>11. q = [i \in 1 .. n |-> [k \in BlockNumbers(i) |-> Blocks(map[i])[k].words]]
    BY <2>9, <2>10
  <2>12. markers' = q
    BY <1>1, <2>1, <2>7 DEF x
  <2>13. QED
    BY <1>1, <1>5, <2>11, <2>12 DEF MarkersOK, BlockNumbers
<1>7. TableOK'
  <2>1. TableOK
    BY DEF Inv
  <2>2. ASSUME NEW i \in 1 .. n, NEW k \in BlockNumbers(i) PROVE Blocks(map[i])[k].words \in DOMAIN table'
    <3>1. CASE i = n
      BY <1>4, <3>1 DEF Extends, BlockNumbers
    <3>2. CASE i \in 1 .. encoded
      BY <1>4, <2>1, <3>2 DEF Extends, TableOK
    <3>3. QED
      BY <1>3, <3>1, <3>2
  <2>3. ASSUME NEW w \in DOMAIN table'
        PROVE  \E i \in 1 .. n : \E k \in BlockNumbers(i) :
                 Blocks(map[i])[k].words = w /\ table'[w] = Entry(Blocks(map[i])[k])
    <3>1. CASE w \in DOMAIN table
      <4>1. PICK i \in 1 .. encoded : \E k \in BlockNumbers(i) :
              Blocks(map[i])[k].words = w /\ table[w] = Entry(Blocks(map[i])[k])
        BY <2>1, <3>1 DEF TableOK
      <4>2. table'[w] = table[w]
        BY <1>4, <3>1 DEF Extends
      <4>3. i \in 1 .. n
        BY <1>3
      <4>4. QED
        BY <4>1, <4>2, <4>3
    <3>2. CASE w \notin DOMAIN table
      <4>1. PICK k \in DOMAIN bs : bs[k].words = w /\ table'[w] = Entry(bs[k])
        BY <1>4, <2>3, <3>2 DEF Extends
      <4>2. n \in 1 .. n
        BY <1>3
      <4>3. QED
        BY <4>1, <4>2 DEF BlockNumbers
    <3>3. QED
      BY <3>1, <3>2
  <2>4. QED
    BY <1>1, <1>5, <2>2, <2>3 DEF TableOK, BlockNumbers
<1>8. CacheOK'
  <2>1. DOMAIN cache = {} /\ ~resolved
    <3>1. encoded # Len(map)
      BY <1>1, <1>2
    <3>2. QED
      BY <3>1 DEF Inv, CacheOK
  <2>2. QED
    BY <1>1, <2>1 DEF CacheOK
<1>9. QED
  BY <1>1, <1>2, <1>3, <1>5, <1>6, <1>7, <1>8 DEF Inv

LEMMA DecodeStep == ASSUME Inv, DecodeEntry PROVE Inv'
<1>1. UNCHANGED <<map, encoded, table, markers, resolved>> /\ encoded = Len(map)
  BY DEF DecodeEntry
<1>2. PICK w \in DOMAIN table \ DOMAIN cache :
        cache' = [v \in DOMAIN cache \cup {w} |->
                    IF v = w THEN [k \in DOMAIN w |-> Value(w[k], table[w].dtype)] ELSE cache[v]]
  BY DEF DecodeEntry
<1>3. MarkersOK' /\ TableOK'
  <2>1. map' = map /\ encoded' = encoded /\ table' = table /\ markers' = markers
    BY <1>1
  <2>2. MarkersOK'
    BY <2>1 DEF Inv, MarkersOK, BlockNumbers
  <2>3. TableOK'
    BY <2>1 DEF Inv, TableOK, BlockNumbers
  <2>4. QED
    BY <2>2, <2>3
<1>4. CacheOK'
  <2>1. DOMAIN cache' = DOMAIN cache \cup {w}
    BY <1>2
  <2>2. \A v \in DOMAIN cache' : cache'[v] = [k \in DOMAIN v |-> Value(v[k], table[v].dtype)]
    BY <1>2 DEF Inv, CacheOK
  <2>3. ~resolved
    BY <1>2 DEF Inv, CacheOK
  <2>4. QED
    BY <1>1, <1>2, <2>1, <2>2, <2>3 DEF Inv, CacheOK
<1>5. QED
  BY <1>1, <1>3, <1>4 DEF Inv

LEMMA FillStep == ASSUME Inv, FillMap PROVE Inv'
BY DEF Inv, FillMap, MarkersOK, TableOK, CacheOK, BlockNumbers

LEMMA StepInv == Inv /\ [BlocksNext]_blockVars => Inv'
<1> SUFFICES ASSUME Inv, [BlocksNext]_blockVars PROVE Inv'
  OBVIOUS
<1>1. CASE EncodeField
  BY <1>1, EncodeStep
<1>2. CASE DecodeEntry
  BY <1>2, DecodeStep
<1>3. CASE FillMap
  BY <1>3, FillStep
<1>4. CASE UNCHANGED blockVars
  BY <1>4 DEF Inv, MarkersOK, TableOK, CacheOK, BlockNumbers, blockVars
<1>5. QED
  BY <1>1, <1>2, <1>3, <1>4 DEF BlocksNext

(* However many fields a map has and whatever they hold: the markers, the table *)
(* (BlockTable) and the page's cache always fit the fields encoded so far.      *)
THEOREM TableInv == BlocksSpec => []Inv
BY InitInv, StepInv, PTL DEF BlocksSpec

-----------------------------------------------------------------------------
(* Two blocks of one meaning                                                    *)

LEMMA MeaningsFinite == ASSUME map \in Seq(Fields), NEW words PROVE IsFiniteSet(Meanings(words))
<1> DEFINE P == (1 .. Len(map)) \X {1, 2}
           h == [p \in P |-> <<Blocks(map[p[1]])[p[2]].dtype, Blocks(map[p[1]])[p[2]].rows>>]
           T == {h[p] : p \in P}
<1>1. IsFiniteSet(P)
  <2>1. IsFiniteSet(1 .. Len(map))
    BY FS_Interval
  <2>2. IsFiniteSet({1, 2})
    <3>1. IsFiniteSet({1})
      BY FS_Singleton
    <3>2. IsFiniteSet({1} \cup {2})
      BY <3>1, FS_AddElement
    <3>3. {1} \cup {2} = {1, 2}
      OBVIOUS
    <3>4. QED
      BY <3>2, <3>3
  <2>3. QED
    BY <2>1, <2>2, FS_Product
<1>2. IsFiniteSet(T)
  <2>1. h \in Surjection(P, T)
    BY DEF Surjection
  <2> HIDE DEF h, T, P
  <2>2. QED
    BY <1>1, <2>1, FS_Surjection
<1>3. ASSUME NEW e \in Meanings(words) PROVE e \in T
  <2>1. PICK b \in UNION {Range(Blocks(map[i])) : i \in DOMAIN map} : e = <<b.dtype, b.rows>>
    BY DEF Meanings
  <2>2. PICK i \in DOMAIN map : b \in Range(Blocks(map[i]))
    BY <2>1
  <2>3. PICK k \in DOMAIN Blocks(map[i]) : b = Blocks(map[i])[k]
    BY <2>2 DEF Range
  <2>4. k \in {1, 2}
    BY <2>3, BlocksAre
  <2>5. <<i, k>> \in P
    BY <2>2, <2>4
  <2>6. h[<<i, k>>] = e
    BY <2>1, <2>3, <2>5
  <2> HIDE DEF h, P
  <2>7. QED
    BY <2>5, <2>6
<1>4. QED
  <2> HIDE DEF T
  <2>1. Meanings(words) \in SUBSET T
    BY <1>3
  <2>2. QED
    BY <1>2, <2>1, FS_Subset

LEMMA OneMeaning ==
  ASSUME map \in Seq(Fields), NEW words, Cardinality(Meanings(words)) = 1,
         NEW i \in DOMAIN map, NEW j \in DOMAIN map,
         NEW k \in BlockNumbers(i), NEW l \in BlockNumbers(j),
         Blocks(map[i])[k].words = words, Blocks(map[j])[l].words = words
  PROVE  Entry(Blocks(map[i])[k]) = Entry(Blocks(map[j])[l])
<1>1. PICK e : Meanings(words) = {e}
  BY MeaningsFinite, FS_Singleton
<1>2. ASSUME NEW m \in DOMAIN map, NEW n \in BlockNumbers(m), Blocks(map[m])[n].words = words
      PROVE  <<Blocks(map[m])[n].dtype, Blocks(map[m])[n].rows>> = e
  <2>1. PICK b : b = Blocks(map[m])[n]
    OBVIOUS
  <2>2. b \in Range(Blocks(map[m])) /\ b.words = words
    BY <1>2, <2>1 DEF Range, BlockNumbers
  <2>3. b \in UNION {Range(Blocks(map[o])) : o \in DOMAIN map}
    BY <2>2
  <2>4. <<b.dtype, b.rows>> \in Meanings(words)
    BY <2>2, <2>3 DEF Meanings
  <2>5. QED
    BY <1>1, <2>1, <2>4
<1>3. <<Blocks(map[i])[k].dtype, Blocks(map[i])[k].rows>> = <<Blocks(map[j])[l].dtype, Blocks(map[j])[l].rows>>
  BY <1>2
<1>4. QED
  BY <1>3 DEF Entry

LEMMA HasIts ==
  ASSUME Inv, resolved, NEW i \in DOMAIN map, NEW k \in BlockNumbers(i), Unambiguous(markers[i])
  PROVE  Has(Blocks(map[i])[k])
<1> DEFINE b == Blocks(map[i])[k]
           w == b.words
<1>1. map \in Seq(Fields) /\ encoded = Len(map) /\ DOMAIN cache = DOMAIN table
  BY DEF Inv, CacheOK
<1>2. i \in 1 .. encoded /\ 1 .. encoded = DOMAIN map
  BY <1>1
<1>3. w \in DOMAIN table
  BY <1>2 DEF Inv, TableOK
<1>4. markers[i] = [c \in BlockNumbers(i) |-> Blocks(map[i])[c].words]
  BY <1>2 DEF Inv, MarkersOK
<1>5. Cardinality(Meanings(w)) = 1
  <2>1. DOMAIN markers[i] = BlockNumbers(i) /\ markers[i][k] = w
    BY <1>4
  <2>2. QED
    BY <2>1 DEF Unambiguous
<1>6. PICK j \in 1 .. encoded : \E l \in BlockNumbers(j) :
        Blocks(map[j])[l].words = w /\ table[w] = Entry(Blocks(map[j])[l])
  BY <1>3 DEF Inv, TableOK
<1>7. PICK l \in BlockNumbers(j) : Blocks(map[j])[l].words = w /\ table[w] = Entry(Blocks(map[j])[l])
  BY <1>6
<1>8. Entry(Blocks(map[j])[l]) = Entry(b)
  BY <1>1, <1>2, <1>5, <1>7, OneMeaning
<1>9. table[w].dtype = b.dtype /\ table[w].rows = b.rows
  BY <1>7, <1>8 DEF Entry
<1>10. cache[w] = [c \in DOMAIN w |-> Value(w[c], table[w].dtype)]
  BY <1>1, <1>3 DEF Inv, CacheOK
<1> HIDE DEF b
<1>11. Has(b)
  BY <1>9, <1>10 DEF Has, Decoded
<1>12. QED
  BY <1>11 DEF b

(* Every bulk array reads back as the JSON payload would have had it, for all   *)
(* fields and maps: _blocks.py's packing and table against the accessors of     *)
(* 20-map.js, whatever order the entries are decoded in.                        *)
THEOREM BlocksReadBack == BlocksSpec => []ReadsBack
<1>1. ASSUME Inv PROVE ReadsBack
  <2> SUFFICES ASSUME resolved, NEW i \in DOMAIN map, Unambiguous(markers[i])
               PROVE  ReadField(map[i], markers[i]) =
                        (IF map[i].kind = "lines" THEN map[i].rows
                         ELSE [k \in DOMAIN map[i].rows |-> Row(map[i].kind, map[i].rows[k])])
    BY DEF ReadsBack
  <2> DEFINE f == map[i]
  <2>1. f \in Fields /\ i \in 1 .. encoded
    BY <1>1 DEF Inv, CacheOK
  <2>2. markers[i] = [c \in BlockNumbers(i) |-> Blocks(map[i])[c].words]
    BY <1>1, <2>1 DEF Inv, MarkersOK
  <2>3. CASE f.kind = "lines"
    <3>1. DOMAIN Blocks(f) = {1, 2}
      BY <2>3 DEF Blocks
    <3>2. Has(Blocks(f)[1]) /\ Has(Blocks(f)[2])
      BY <1>1, <3>1, HasIts DEF BlockNumbers
    <3>3. markers[i][1] = Blocks(f)[1].words /\ markers[i][2] = Blocks(f)[2].words
      BY <2>2, <3>1 DEF BlockNumbers
    <3> HIDE DEF f
    <3>4. ReadLines(markers[i][1], markers[i][2]) = f.rows
      BY <2>1, <2>3, <3>2, <3>3, LinesBack
    <3>5. QED
      BY <2>3, <3>4 DEF ReadField, f
  <2>4. CASE f.kind # "lines"
    <3>1. DOMAIN Blocks(f) = {1}
      BY <2>4 DEF Blocks
    <3>2. Has(Blocks(f)[1])
      BY <1>1, <3>1, HasIts DEF BlockNumbers
    <3>3. markers[i][1] = Blocks(f)[1].words
      BY <2>2, <3>1 DEF BlockNumbers
    <3> HIDE DEF f
    <3>4. ReadRows(markers[i][1], f.kind) = Full(f)
      BY <2>1, <2>4, <3>2, <3>3, RowsBack
    <3>5. QED
      BY <2>4, <3>4 DEF ReadField, Full, Filled, f
  <2>5. QED
    BY <2>3, <2>4
<1>2. QED
  BY <1>1, TableInv, PTL
=============================================================================
