------------------------- MODULE MCOntologyVersions -------------------------
(* Model values for the metatypes and type mappings of OntologyVersions. *)
EXTENDS OntologyVersions

CONSTANTS t1, t2, m1
=============================================================================
