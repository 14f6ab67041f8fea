----------------------------- MODULE MCViewerMap -----------------------------
(* ViewerMap on one fill with a coarse ring and one without, four zoom     *)
(* levels a wheel step (1.15) apart, and data a little wider than a view.  *)
EXTENDS ViewerMap
CONSTANTS f1, f2, c1, c2
MCWidth       == <<30, 26, 23, 20>>
MCCoarseBelow == [f \in {f1, f2} |-> IF f = f1 THEN 3 ELSE 2]
MCRooms       == {7}
MCFitLeft     == -13
MCPanSteps    == {-12, 44}
=============================================================================
