------------------------ MODULE MCImportProcessing ------------------------
(***************************************************************************)
(* Instances of ImportProcessing for TLC.                                  *)
(***************************************************************************)
EXTENDS ImportProcessing, TLC

CONSTANTS w1, w2, c1, i1, i2, r1, r2, r3, s1, s2, k1, k2, k3

\* Two imports of one container: r1 and r2 belong to i1, r3 to i2.
TwoImports == (r1 :> i1) @@ (r2 :> i1) @@ (r3 :> i2)
OneContainer == (i1 :> c1) @@ (i2 :> c1)
TwoShapes == (r1 :> s1) @@ (r2 :> s2) @@ (r3 :> s1)

\* Each record has a unique identifier of its own ...
OwnKeys == [p \in Pass |-> (r1 :> k1) @@ (r2 :> k2) @@ (r3 :> k3)]
\* ... or r3 repeats the one of r1, with the same created_at.
RepeatedKey == [p \in Pass |-> (r1 :> k1) @@ (r2 :> k2) @@ (r3 :> k1)]
\* ... or r1 and r2, of one import, repeat it.
RepeatedInImport == [p \in Pass |-> (r1 :> k1) @@ (r2 :> k1) @@ (r3 :> k3)]

\* RepeatedKey for nodes; the edges of r2 and r3 connect the same nodes, known by
\* other original ids.
EdgesRepeat == ("node" :> RepeatedKey["node"]) @@ ("edge" :> ((r1 :> k1) @@ (r2 :> k2) @@ (r3 :> k2)))
OriginalIds == ("node" :> RepeatedKey["node"]) @@ ("edge" :> ((r1 :> k1) @@ (r2 :> k2) @@ (r3 :> k3)))

\* Every record makes a node, r2 an edge too.
NodesAndOneEdge == ("node" :> Record) @@ ("edge" :> {r2})
NodesAndTwoEdges == ("node" :> Record) @@ ("edge" :> {r2, r3})
\* The node keys the edges connect.
EdgeToR1 == (r1 :> {}) @@ (r2 :> {k1}) @@ (r3 :> {})
EdgeOfR2 == (r1 :> {}) @@ (r2 :> {k1, k2}) @@ (r3 :> {})
TwoEdges == (r1 :> {}) @@ (r2 :> {k1, k2}) @@ (r3 :> {k1, k2})
EdgeAcross == (r1 :> {}) @@ (r2 :> {k1, k3}) @@ (r3 :> {})
===========================================================================
