------------------------- MODULE ConvergentGridder -------------------------
(* The stateful gridder that is refined control by control                      *)
(* (src/src/gridding/convergent.rs).  The relaxation between the held nodes is  *)
(* real arithmetic and left out; what a solve holds fixed, and at what value,   *)
(* is kept: the values of the samples that snap to a node, averaged.            *)
EXTENDS Integers, Sequences, FiniteSets, FiniteSetsExt

CONSTANTS GridNodes,     \* the nodes of the lattice
          OffNodes,      \* node indices beyond it
          Values,        \* what is measured or dragged to
          MaxScatter,    \* bound: the points of the cold solve
          MaxBatches,    \* bound: calls of add_controls
          MaxBatch       \* bound: controls in one call

ASSUME GridderAssumption == /\ GridNodes \cap OffNodes = {}
                            /\ Values \subseteq Int
                            /\ MaxScatter \in Nat \ {0}
                            /\ MaxBatches \in Nat /\ MaxBatch \in Nat \ {0}

VARIABLES coords,     \* the samples: the scatter, then one per controlled node
          scatter,    \* how many of them are scatter
          controlIdx, \* the sample that each controlled node owns
          field,      \* what the solved field holds each node at
          batches,    \* calls of add_controls so far
          asked       \* history: the last value each node was controlled to

gridderVars == <<coords, scatter, controlIdx, field, batches, asked>>

Places == GridNodes \cup OffNodes
Sample == [at: Places, z: Values]

(* A node is held at a mean, a sum and a count, or free if that counts none. *)
HeldAt(z) == [sum |-> z, count |-> 1]

(* What a solve of these samples holds: a sample off the lattice is skipped,  *)
(* samples that snap to one node are averaged.                                *)
SamplesAt(samples, n) == {k \in DOMAIN samples : samples[k].at = n}

Solve(samples) ==
  [n \in GridNodes |->
     [sum |-> MapThenSumSet(LAMBDA k : samples[k].z, SamplesAt(samples, n)),
      count |-> Cardinality(SamplesAt(samples, n))]]

GridderInit ==
  /\ coords \in UNION {[1 .. n -> Sample] : n \in 1 .. MaxScatter}
  /\ scatter = Len(coords)
  /\ controlIdx = [n \in {} |-> 0]
  /\ field = Solve(coords)
  /\ batches = 0
  /\ asked = [n \in {} |-> 0]

(* One control of a batch: a controlled node has its sample rewritten, another *)
(* one gets a sample of its own.                                               *)
Held == [coords |-> coords, idx |-> controlIdx]

(* Wrong on purpose: every control appends a sample. *)
AddControlAppending(held, c) ==
  [coords |-> Append(held.coords, c),
   idx |-> [n \in DOMAIN held.idx \cup {c.at} |->
              IF n = c.at THEN Len(held.coords) + 1 ELSE held.idx[n]]]

(* Wrong on purpose: the slot is remembered after the push. *)
AddControlOneOff(held, c) ==
  IF c.at \in DOMAIN held.idx
  THEN [held EXCEPT !.coords[held.idx[c.at]] = c]
  ELSE [coords |-> Append(held.coords, c),
        idx |-> [n \in DOMAIN held.idx \cup {c.at} |->
                   IF n = c.at THEN Len(held.coords) ELSE held.idx[n]]]

AddControl(held, c) ==
  IF c.at \in DOMAIN held.idx
  THEN [held EXCEPT !.coords[held.idx[c.at]] = c]
  ELSE [coords |-> Append(held.coords, c),
        idx |-> [n \in DOMAIN held.idx \cup {c.at} |->
                   IF n = c.at THEN Len(held.coords) + 1 ELSE held.idx[n]]]

(* The samples and their owners after the controls of a batch, in order. *)
AfterBatch(batch) ==
  LET after[k \in 0 .. Len(batch)] ==
        IF k = 0 THEN Held ELSE AddControl(after[k - 1], batch[k])
  IN after[Len(batch)]

Named(batch) == {batch[k].at : k \in DOMAIN batch}

(* add_controls: the whole batch, then one solve. *)
AddControls ==
  /\ batches < MaxBatches
  /\ \E batch \in UNION {[1 .. n -> Sample] : n \in 1 .. MaxBatch} :
       LET last(n) == CHOOSE k \in SamplesAt(batch, n) : \A l \in SamplesAt(batch, n) : l <= k
       IN /\ coords' = AfterBatch(batch).coords
          /\ controlIdx' = AfterBatch(batch).idx
          /\ field' = Solve(coords')
          /\ asked' = [n \in DOMAIN asked \cup Named(batch) |->
                         IF n \in Named(batch) THEN batch[last(n)].z ELSE asked[n]]
  /\ batches' = batches + 1
  /\ UNCHANGED scatter

GridderNext == AddControls

GridderSpec == GridderInit /\ [][GridderNext]_gridderVars

-----------------------------------------------------------------------------
ScatterAt(n) == {k \in 1 .. scatter : coords[k].at = n}

(* However often a node is dragged, and in whatever batches, the field holds it *)
(* at the value it was last dragged to: earlier values are not averaged in; a   *)
(* node that was never dragged is held by its scatter alone.  A node that       *)
(* scatter snapped to as well is not covered: Solve averages the two there,     *)
(* although convergent.rs:21-22 calls the control a hard constraint.            *)
HoldsTheLatest ==
  \A n \in GridNodes :
    /\ n \in DOMAIN asked /\ ScatterAt(n) = {} => field[n] = HeldAt(asked[n])
    /\ n \notin DOMAIN asked =>
         field[n] = [sum |-> MapThenSumSet(LAMBDA k : coords[k].z, ScatterAt(n)),
                     count |-> Cardinality(ScatterAt(n))]

(* A long session does not grow without bound: there is one sample per node     *)
(* that was ever controlled, each node owns one, and the scatter is untouched.  *)
OneSamplePerControl ==
  /\ Len(coords) = scatter + Cardinality(DOMAIN asked)
  /\ DOMAIN controlIdx = DOMAIN asked
  /\ \A n \in DOMAIN controlIdx :
       /\ controlIdx[n] \in scatter + 1 .. Len(coords)
       /\ coords[controlIdx[n]].at = n

=============================================================================
