--------------------------- MODULE MCImportDispatch --------------------------
(* Instances of ImportDispatch for TLC. *)
EXTENDS ImportDispatch

\* Three containers with one import each.
ThreeContainers == {1, 2, 3}
ThreeImports == {"a", "b", "c"}
OneEach == [i \in ThreeImports |-> CASE i = "a" -> 1 [] i = "b" -> 2 [] i = "c" -> 3]
==============================================================================
