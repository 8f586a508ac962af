--------------------------- MODULE MCGremlinExport ---------------------------
(* Model values for the exports and runs of GremlinExport. *)
EXTENDS GremlinExport

CONSTANTS e1, e2, n1, n2
=============================================================================
