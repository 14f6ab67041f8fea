------------------------------ MODULE Formula ------------------------------
(* Blocks of formulas that read one another (src/src/formula.rs): a block is   *)
(* ordered by its dependencies and evaluated in that order.  An expression is  *)
(* abstracted to the set of bare names it reads, a value to who computed it.   *)
EXTENDS Integers, Sequences, FiniteSets

CONSTANTS Names,      \* what formulas and input properties are called
          MaxLines,   \* bound: the formulas of a block
          Inputs      \* the sets of input properties evaluate is called with

ASSUME FormulaAssumption == /\ MaxLines \in Nat \ {0}
                            /\ IsFiniteSet(Names)
                            /\ Inputs \subseteq SUBSET Names

VARIABLES lines,      \* the parsed block, in source order
          properties, \* the input properties it is evaluated over
          stage,      \* how far parse and then evaluate have come
          indegree,   \* dependencies of each formula that are not yet ordered
          ready,      \* the queue of formulas without any
          order,      \* the evaluation order so far
          evaluated,  \* how much of the order has been evaluated
          reads,      \* every name read so far: by which formula, and from where
          blamed      \* the formulas the error message names

formulaVars == <<lines, properties, stage, indegree, ready, order, evaluated, reads, blamed>>

Assignment == [lhs: Names, uses: SUBSET Names]
Stage == {"parsed", "sorting", "sorted", "done", "duplicate", "cyclic", "missing"}
Read == [by: Nat, name: Names, from: {"block", "input"}]

Lines == DOMAIN lines
Outputs == {lines[i].lhs : i \in Lines}

(* The names formula i reads that the block assigns, its own included. *)
Dependencies(i) == lines[i].uses \cap Outputs

(* The indices of S in ascending order: as a queue receives them from a loop *)
(* over the formulas.  There is exactly one.                                 *)
InOrder(S) == {s \in [1 .. Cardinality(S) -> S] : \A j, k \in DOMAIN s : j < k => s[j] < s[k]}

FormulaInit ==
  /\ lines \in UNION {[1 .. n -> Assignment] : n \in 1 .. MaxLines}
  /\ properties \in Inputs
  /\ stage = "parsed"
  /\ indegree = [i \in Lines |-> 0]
  /\ ready = <<>> /\ order = <<>> /\ evaluated = 0
  /\ reads = {} /\ blamed = {}

-----------------------------------------------------------------------------
(* parse: Kahn's algorithm. *)

(* Two formulas for one name are refused before any ordering. *)
RefuseDuplicate ==
  /\ stage = "parsed"
  /\ \E i, j \in Lines : i # j /\ lines[i].lhs = lines[j].lhs
  /\ stage' = "duplicate"
  /\ UNCHANGED <<lines, properties, indegree, ready, order, evaluated, reads, blamed>>

(* Wrong on purpose: the producer of an own name is the formula itself: skip it when counting. *)
CountDependenciesButOwn ==
  /\ stage = "parsed"
  /\ \A i, j \in Lines : lines[i].lhs = lines[j].lhs => i = j
  /\ stage' = "sorting"
  /\ indegree' = [i \in Lines |-> Cardinality(Dependencies(i) \ {lines[i].lhs})]
  /\ ready' \in InOrder({i \in Lines : Dependencies(i) \subseteq {lines[i].lhs}})
  /\ UNCHANGED <<lines, properties, order, evaluated, reads, blamed>>

CountDependencies ==
  /\ stage = "parsed"
  /\ \A i, j \in Lines : lines[i].lhs = lines[j].lhs => i = j
  /\ stage' = "sorting"
  /\ indegree' = [i \in Lines |-> Cardinality(Dependencies(i))]
  /\ ready' \in InOrder({i \in Lines : Dependencies(i) = {}})
  /\ UNCHANGED <<lines, properties, order, evaluated, reads, blamed>>

(* Wrong on purpose: queue a dependent as soon as one of its dependencies is ordered. *)
UnblockedEarly(idx) == {i \in Lines : lines[idx].lhs \in lines[i].uses /\ indegree[i] >= 1}

(* Which formulas a freshly ordered one unblocks. *)
Unblocked(idx) == {i \in Lines : lines[idx].lhs \in lines[i].uses /\ indegree[i] = 1}

Visit ==
  /\ stage = "sorting" /\ ready # <<>>
  /\ LET idx == Head(ready) IN
     /\ order' = Append(order, idx)
     /\ indegree' = [i \in Lines |-> IF lines[idx].lhs \in lines[i].uses
                                     THEN indegree[i] - 1 ELSE indegree[i]]
     /\ \E more \in InOrder(Unblocked(idx)) : ready' = Tail(ready) \o more
  /\ UNCHANGED <<lines, properties, stage, evaluated, reads, blamed>>

(* The queue is empty: what was never unblocked is reported. *)
FinishOrder ==
  /\ stage = "sorting" /\ ready = <<>>
  /\ stage' = IF Len(order) = Len(lines) THEN "sorted" ELSE "cyclic"
  /\ blamed' = IF Len(order) = Len(lines) THEN {} ELSE {i \in Lines : indegree[i] > 0}
  /\ UNCHANGED <<lines, properties, indegree, ready, order, evaluated, reads>>

-----------------------------------------------------------------------------
(* evaluate: in that order, a computed value hides an input of the same name. *)

Computed == {lines[order[k]].lhs : k \in 1 .. evaluated}

(* Wrong on purpose: an input property hides a computed value. *)
SourceInputFirst(name) == IF name \in properties THEN "input" ELSE "block"

Source(name) == IF name \in Computed THEN "block" ELSE "input"

Evaluate ==
  /\ stage = "sorted" /\ evaluated < Len(order)
  /\ LET idx == order[evaluated + 1] IN
     /\ lines[idx].uses \subseteq Computed \cup properties
     /\ reads' = reads \cup {[by |-> idx, name |-> n, from |-> Source(n)] : n \in lines[idx].uses}
  /\ evaluated' = evaluated + 1
  /\ UNCHANGED <<lines, properties, stage, indegree, ready, order, blamed>>

EvaluateMissing ==
  /\ stage = "sorted" /\ evaluated < Len(order)
  /\ ~(lines[order[evaluated + 1]].uses \subseteq Computed \cup properties)
  /\ stage' = "missing"
  /\ UNCHANGED <<lines, properties, indegree, ready, order, evaluated, reads, blamed>>

Deliver ==
  /\ stage = "sorted" /\ evaluated = Len(order)
  /\ stage' = "done"
  /\ UNCHANGED <<lines, properties, indegree, ready, order, evaluated, reads, blamed>>

FormulaNext == \/ RefuseDuplicate \/ CountDependencies \/ Visit \/ FinishOrder
               \/ Evaluate \/ EvaluateMissing \/ Deliver

FormulaSpec == FormulaInit /\ [][FormulaNext]_formulaVars

-----------------------------------------------------------------------------
(* Type invariant: an order and a queue of formulas, counts of dependencies    *)
(* that never go below zero (usize in the code), reads that name formulas.     *)
FormulaTypeOK ==
  /\ lines \in Seq(Assignment) /\ Len(lines) \in 1 .. MaxLines
  /\ properties \in SUBSET Names
  /\ stage \in Stage
  /\ indegree \in [Lines -> Nat]
  /\ ready \in Seq(Lines) /\ order \in Seq(Lines)
  /\ evaluated \in 0 .. Len(order)
  /\ reads \subseteq Read
  /\ blamed \subseteq Lines

(* A formula that reads a name its block assigns gets the assigned value, never *)
(* an input property that happens to have the name: the order is what keeps the *)
(* lookup (values first, then properties) from silently reading the input.      *)
ReadsTheAssignedValue == \A r \in reads : (r.from = "block") = (r.name \in Outputs)

(* The reference definition of what can never be ordered: the largest set of  *)
(* formulas each of which reads the output of one of them.                    *)
Stuck == UNION {S \in SUBSET Lines :
                  \A i \in S : \E j \in S : lines[j].lhs \in lines[i].uses}

(* A block is refused as cyclic exactly when something in it can never be       *)
(* evaluated, and the message then names all of that and nothing else; a block  *)
(* that is accepted is ordered in full, each formula once.                      *)
CyclesAreFound ==
  /\ stage = "cyclic" => Stuck # {} /\ blamed = Stuck
  /\ stage \in {"sorted", "missing", "done"} =>
       /\ Stuck = {}
       /\ \A i \in Lines : \E k \in DOMAIN order : order[k] = i /\ \A l \in DOMAIN order : order[l] = i => l = k

(* Refinement: what is evaluated is what the order has been walked through, *)
(* and a block is open until it is refused, missing something or done.      *)
Evaluated == {order[k] : k \in 1 .. evaluated}

Outcome == IF stage \in {"parsed", "sorting", "sorted"} THEN "open"
           ELSE IF stage \in {"duplicate", "cyclic"} THEN "refused" ELSE stage

OnDemand == INSTANCE BlockEvaluation WITH done <- Evaluated, outcome <- Outcome

(* The queue, the counts and the lookup together evaluate a block as its      *)
(* formulas demand: none is evaluated of a block that is refused, each reads   *)
(* the values of those it depends on, and a missing input is one of a formula *)
(* whose turn it was.                                                         *)
EvaluatesOnDemand == OnDemand!Spec

=============================================================================
