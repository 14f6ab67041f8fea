--------------------------- MODULE MCViewerSection ---------------------------
(* ViewerSection on two wells, one of which the payload has a section for. *)
EXTENDS ViewerSection
CONSTANTS w1, w2
MCPrecomputed == <<w1>>
=============================================================================
