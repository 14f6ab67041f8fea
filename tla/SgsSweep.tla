------------------------------ MODULE SgsSweep ------------------------------
(* Sequential Gaussian simulation with a reused session (src/src/geostat/sgs): *)
(* layer after layer is simulated over one lattice with the informed list,     *)
(* path and search index of the layers before.  (The rest of the scratch, the  *)
(* neighbours of a node and the kriging buffers, is cleared for every node and *)
(* left out.)  The lattice is a line of nodes one unit apart; a score is       *)
(* abstracted to where it comes from, the kriged draw to what it was given.    *)
EXTENDS Integers, Sequences, FiniteSets

CONSTANTS NodeCount,      \* the nodes of the lattice
          MaxNeighbours,  \* how many informed nodes a draw is conditioned on
          Radius,         \* and from how far
          MaxData,        \* bound: the data of a layer
          MaxLayers       \* bound: the layers of a session

ASSUME SgsAssumption == /\ NodeCount \in Nat \ {0} /\ MaxNeighbours \in Nat \ {0}
                        /\ Radius \in Nat \ {0} /\ MaxData \in Nat /\ MaxLayers \in Nat

VARIABLES layer,    \* which layer is being simulated
          data,     \* where its data lie: nodes, or 0 off the lattice
          sim,      \* the score of every node, or Undrawn
          infPos,   \* scratch: informed nodes, in the order they were informed
          infVal,   \* scratch: their scores
          path,     \* scratch: the visiting path
          nb,       \* scratch: the search index, nodes paired with their place in infPos
          visited,  \* how much of the path has been walked; -1 between layers
          given     \* history: what the draw of each node was conditioned on

sgsVars == <<layer, data, sim, infPos, infVal, path, nb, visited, given>>

Nodes == 1 .. NodeCount

(* The normal score of a datum and the draw of a node, each of one layer. *)
Scored(l, k) == [kind |-> "datum", layer |-> l, of |-> k]
Drawn(l, n) == [kind |-> "draw", layer |-> l, of |-> n]
Undrawn == [kind |-> "undrawn", layer |-> 0, of |-> 0]
Score == [kind: {"datum", "draw"}, layer: 1 .. MaxLayers, of: Nat] \cup {Undrawn}

(* The data of a layer that snap to node n, in input order. *)
DataAt(n) == {k \in DOMAIN data : data[k] = n}
FirstOf(S) == CHOOSE k \in S : \A l \in S : k <= l
LastOf(S) == CHOOSE k \in S : \A l \in S : k >= l

(* Wrong on purpose: every datum makes an informed entry. *)
InformingEach(d) == {k \in DOMAIN d : d[k] # 0}

(* The first datum of each node that has one: it makes the informed entry. *)
Informing(d) == {k \in DOMAIN d : d[k] # 0 /\ \A l \in 1 .. k - 1 : d[l] # d[k]}

Ascending(S) == CHOOSE s \in [1 .. Cardinality(S) -> S] :
                  \A j, k \in DOMAIN s : j < k => s[j] < s[k]

Orders(S) == {s \in [1 .. Cardinality(S) -> S] : \A j, k \in DOMAIN s : j # k => s[j] # s[k]}

SgsInit ==
  /\ layer = 0 /\ data = <<>> /\ visited = -1
  /\ sim = [n \in Nodes |-> Undrawn]
  /\ infPos = <<>> /\ infVal = <<>> /\ path = <<>> /\ nb = {}
  /\ given = [n \in Nodes |-> {}]

(* Wrong on purpose: the scores of the last layer are kept, before those of this one. *)
KeptScores == [pos |-> <<>>, val |-> infVal, path |-> <<>>, nb |-> {}]

(* Wrong on purpose: the path of the last layer is kept, and walked first. *)
KeptPath == [pos |-> <<>>, val |-> <<>>, path |-> path, nb |-> {}]

-----------------------------------------------------------------------------
(* What the reset keeps of the scratch: nothing. *)
Kept == [pos |-> <<>>, val |-> <<>>, path |-> <<>>, nb |-> {}]

(* The entries the search index gets when the k-th informed node is pushed. *)
Indexed(pos, from) == {<<pos[k], k>> : k \in from .. Len(pos)}

(* simulate: snap the data, reset the scratch, inform the nodes with data and   *)
(* shuffle the rest into a path.                                                *)
BeginLayer ==
  /\ visited = -1 /\ layer < MaxLayers
  /\ \E d \in UNION {[1 .. n -> Nodes \cup {0}] : n \in 1 .. MaxData} :
       LET l == layer + 1
           firsts == Ascending(Informing(d))
           at(n) == {k \in DOMAIN d : d[k] = n}
           fixed == {n \in Nodes : at(n) # {}}
           pos == Kept.pos \o [i \in DOMAIN firsts |-> d[firsts[i]]]
       IN /\ layer' = l /\ data' = d
          /\ sim' = [n \in Nodes |-> IF n \in fixed THEN Scored(l, LastOf(at(n))) ELSE Undrawn]
          /\ infPos' = pos
          /\ infVal' = Kept.val \o [i \in DOMAIN firsts |-> Scored(l, firsts[i])]
          /\ nb' = Kept.nb \cup Indexed(pos, Len(Kept.pos) + 1)
          /\ \E walk \in Orders(Nodes \ fixed) : path' = Kept.path \o walk
  /\ visited' = 0
  /\ given' = [n \in Nodes |-> {}]

(* The nearest informed entries of node n, at most MaxNeighbours within the    *)
(* radius; ties go either way.                                                 *)
Distance(a, b) == IF a < b THEN b - a ELSE a - b

Nearest(n) ==
  LET near == {e \in nb : Distance(e[1], n) <= Radius}
      size == IF Cardinality(near) < MaxNeighbours THEN Cardinality(near) ELSE MaxNeighbours
  IN {S \in SUBSET near :
        /\ Cardinality(S) = size
        /\ \A e \in S, f \in near \ S : Distance(e[1], n) <= Distance(f[1], n)}

(* One step of the sweep: the draw is conditioned on its neighbours and at once *)
(* informs the draws after it.                                                  *)
Draw ==
  /\ visited >= 0 /\ visited < Len(path)
  /\ LET n == path[visited + 1] IN
     /\ \E near \in Nearest(n) :
          given' = [given EXCEPT ![n] = {<<infPos[e[2]], infVal[e[2]]>> : e \in near}]
     /\ sim' = [sim EXCEPT ![n] = Drawn(layer, n)]
     /\ infPos' = Append(infPos, n)
     /\ infVal' = Append(infVal, Drawn(layer, n))
     /\ nb' = nb \cup {<<n, Len(infPos) + 1>>}
  /\ visited' = visited + 1
  /\ UNCHANGED <<layer, data, path>>

(* The field goes back to data space and to the caller; the scratch stays. *)
EndLayer ==
  /\ visited = Len(path)
  /\ visited' = -1
  /\ UNCHANGED <<layer, data, sim, infPos, infVal, path, nb, given>>

SgsNext == BeginLayer \/ Draw \/ EndLayer

SgsSpec == SgsInit /\ [][SgsNext]_sgsVars

-----------------------------------------------------------------------------
(* What a draw may be conditioned on at node m: that node's own score of this  *)
(* layer.  Where several data fall on one node the informed list keeps the     *)
(* first of them, although the field ends with the last.                       *)
OwnScore(m) == IF DataAt(m) = {} THEN Drawn(layer, m) ELSE Scored(layer, FirstOf(DataAt(m)))

(* What the layers before left in the informed list, the scores and the search  *)
(* index reaches no later layer: every draw pairs each neighbour with that      *)
(* neighbour's own score of this layer, and never with itself.                  *)
LayersAreIndependent ==
  \A n \in Nodes : \A g \in given[n] : g[1] # n /\ g[2] = OwnScore(g[1])

(* The sweep walks every node without data exactly once, and informs every      *)
(* node exactly once: when a layer ends the informed list is the whole lattice, *)
(* each node with the place the search index gives it.                          *)
InformedOnce ==
  /\ \A j, k \in DOMAIN infPos : infPos[j] = infPos[k] => j = k
  /\ nb = {<<infPos[k], k>> : k \in DOMAIN infPos}
  /\ layer > 0 /\ visited \in {-1, Len(path)} => \A n \in Nodes : \E k \in DOMAIN infPos : infPos[k] = n

(* Conditioning data are honoured: from the start of a layer to its end a node  *)
(* with data holds the last of them, a node without never holds one.            *)
DataAreHonoured ==
  \A n \in Nodes :
    IF DataAt(n) # {} THEN sim[n] = Scored(layer, LastOf(DataAt(n)))
                      ELSE sim[n] \in {Undrawn, Drawn(layer, n)}

=============================================================================
