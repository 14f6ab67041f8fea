---------------------------- MODULE MCContainer -----------------------------
(* Container on two paths.  Every saved project has distinct section names;*)
(* MCSaves also keeps a name to one kind, MCSavesClash does not.           *)
EXTENDS Container

Sec(kind, name, tag, v) ==
  [kind |-> kind, name |-> name, tag |-> tag, blob |-> [of |-> <<kind, name>>, v |-> v]]

MCSaves == {[app |-> "a", sections |-> <<Sec("surface", "x", "keep", 1),
                                        Sec("model", "y", "drop", 1)>>],
            [app |-> "b", sections |-> <<Sec("model", "y", "keep", 2),
                                        Sec("surface", "z", "keep", 2)>>]}

MCSavesClash == {[app |-> "a", sections |-> <<Sec("surface", "x", "keep", 1)>>],
                 [app |-> "b", sections |-> <<Sec("model", "x", "keep", 2)>>]}

(* The processes are interchangeable. *)
ProcessSymmetry == Permutations(Process)
=============================================================================
