--------------------------- MODULE BlockEvaluation ---------------------------
(***************************************************************************)
(* What a block of formulas promises, without a queue or an order: a block *)
(* that cannot be evaluated is refused before any formula is, and in any   *)
(* other a formula is evaluated once all it reads of the block has been,   *)
(* on the block's own values.                                              *)
(***************************************************************************)
VARIABLES
  lines,       (* the formulas: the name each assigns and those it reads   *)
  properties,  (* the input properties                                     *)
  done,        (* the formulas evaluated so far                            *)
  reads,       (* every name read so far, by whom and from where           *)
  outcome      (* "open" until it is decided                               *)

vars == <<lines, properties, done, reads, outcome>>

Formulas == DOMAIN lines
Assigns(S) == {lines[i].lhs : i \in S}
Outputs == Assigns(Formulas)

(* The block has a meaning: one formula per name, and no formulas that can *)
(* only be evaluated after one another.                                    *)
Orderable ==
  /\ \A i, j \in Formulas : lines[i].lhs = lines[j].lhs => i = j
  /\ \A S \in SUBSET Formulas :
       (\A i \in S : \E j \in S : lines[j].lhs \in lines[i].uses) => S = {}

(* All that formula i reads of the block is there.                         *)
Ready(i) == i \in Formulas \ done /\ lines[i].uses \cap Outputs \subseteq Assigns(done)

Init == done = {} /\ reads = {} /\ outcome = "open"

Refuse ==
  /\ outcome = "open" /\ done = {} /\ ~Orderable
  /\ outcome' = "refused"
  /\ UNCHANGED <<lines, properties, done, reads>>

Evaluate(i) ==
  /\ outcome = "open" /\ Orderable /\ Ready(i)
  /\ lines[i].uses \subseteq Outputs \cup properties
  /\ done' = done \cup {i}
  /\ reads' = reads \cup
       {[by |-> i, name |-> n, from |-> IF n \in Outputs THEN "block" ELSE "input"] : n \in lines[i].uses}
  /\ UNCHANGED <<lines, properties, outcome>>

(* A formula that is ready reads a name nobody gives.                      *)
Miss(i) ==
  /\ outcome = "open" /\ Orderable /\ Ready(i)
  /\ ~(lines[i].uses \subseteq Outputs \cup properties)
  /\ outcome' = "missing"
  /\ UNCHANGED <<lines, properties, done, reads>>

Deliver ==
  /\ outcome = "open" /\ Orderable /\ done = Formulas
  /\ outcome' = "done"
  /\ UNCHANGED <<lines, properties, done, reads>>

Next == \/ Refuse \/ Deliver
        \/ \E i \in Formulas : Evaluate(i) \/ Miss(i)

Spec == Init /\ [][Next]_vars
=============================================================================
