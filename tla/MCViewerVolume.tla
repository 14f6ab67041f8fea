--------------------------- MODULE MCViewerVolume ---------------------------
(* ViewerVolume on small instances: the first envelopes decimate so that   *)
(* re-cut answers can need a finer or a coarser stride than what is drawn. *)
EXTENDS ViewerVolume

MCStride == [e \in Env |-> IF e = 1 THEN 2 ELSE 1]
=============================================================================
