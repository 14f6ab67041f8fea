----------------------------- MODULE MCLibrary -----------------------------
(* The small sequential modules, checked in one run: a behaviour is of one of *)
(* them, its subject, and the others do nothing.                               *)
EXTENDS Formula, SgsSweep, ConvergentGridder, MapBlocks

VARIABLE subject

libraryVars == <<subject, formulaVars, sgsVars, gridderVars, blockVars>>

InputsVal == {{}, {"c"}, Names}

(* Two blocks of six zeros and two rows, or six; a triangle whose words are the *)
(* offsets of two lines of two points; empty lines, a missing z, a NaN.         *)
FieldsVal ==
  {[kind |-> "points", rows |-> <<<<0, 0, 0>>, <<0, 0, 0>>>>],
   [kind |-> "points", rows |-> <<<<1, 2>>, <<2, 0, None>>>>],
   [kind |-> "nodes", rows |-> <<<<0, 0>>, <<0, 2>>, <<2, 0>>>>],
   [kind |-> "triangles", rows |-> <<<<0, 2, 4>>>>],
   [kind |-> "triangles", rows |-> <<<<0, 1, 2>>, <<2, 1, 3>>>>],
   [kind |-> "values", rows |-> <<<<0>>, <<0>>, <<0>>, <<0>>, <<0>>, <<0>>>>],
   [kind |-> "values", rows |-> <<<<1>>, <<None>>, <<2>>>>],
   [kind |-> "lines", rows |-> <<<<<<0, 0>>, <<1, 1>>>>, <<<<1, 2>>, <<2, 2>>>>>>],
   [kind |-> "lines", rows |-> <<<<>>, <<<<0, 0>>, <<1, 1>>, <<2, 1>>>>>>],
   [kind |-> "lines", rows |-> <<<<<<0, 0>>, <<0, 2>>, <<2, 0>>>>>>]}

FormulaIdle ==
  /\ lines = <<[lhs |-> "a", uses |-> {}]>> /\ properties = {} /\ stage = "parsed"
  /\ indegree = <<0>> /\ ready = <<>> /\ order = <<>> /\ evaluated = 0
  /\ reads = {} /\ blamed = {}

GridderIdle ==
  /\ coords = <<>> /\ scatter = 0 /\ field = Solve(<<>>) /\ batches = 0
  /\ controlIdx = [n \in {} |-> 0] /\ asked = [n \in {} |-> 0]

BlocksIdle ==
  /\ map = <<>> /\ encoded = 0 /\ resolved = FALSE /\ markers = <<>>
  /\ table = [w \in {} |-> 0] /\ cache = [w \in {} |-> 0]

Init ==
  /\ SgsInit
  /\ \/ subject = "formula" /\ FormulaInit /\ GridderIdle /\ BlocksIdle
     \/ subject = "gridder" /\ FormulaIdle /\ GridderInit /\ BlocksIdle
     \/ subject = "blocks" /\ FormulaIdle /\ GridderIdle /\ BlocksInit
     \/ subject = "sgs" /\ FormulaIdle /\ GridderIdle /\ BlocksIdle

Next ==
  /\ UNCHANGED subject
  /\ \/ subject = "formula" /\ FormulaNext /\ UNCHANGED <<sgsVars, gridderVars, blockVars>>
     \/ subject = "sgs" /\ SgsNext /\ UNCHANGED <<formulaVars, gridderVars, blockVars>>
     \/ subject = "gridder" /\ GridderNext /\ UNCHANGED <<formulaVars, sgsVars, blockVars>>
     \/ subject = "blocks" /\ BlocksNext /\ UNCHANGED <<formulaVars, sgsVars, gridderVars>>

Spec == Init /\ [][Next]_libraryVars
=============================================================================
