---------------------------- MODULE GraphStore ----------------------------
(***************************************************************************)
(* What the import pipeline promises the readers of nodes and edges: rows  *)
(* appear in batches published by the one owner of a container, a complete *)
(* unique key never appears twice, and the rows of an import disappear     *)
(* together.  ImportProcessing implements it.                              *)
(***************************************************************************)
EXTENDS Naturals

CONSTANTS Worker, Nobody, Container, Import, Record, Pass,
          containerOf, importOf, keyOf, NullKey

VARIABLES owner,  \* worker that owns a container, or Nobody
          rows    \* number of rows made from a record, per pass
vars == <<owner, rows>>

Init ==
  /\ owner = [c \in Container |-> Nobody]
  /\ rows = [p \in Pass |-> [r \in Record |-> 0]]

Acquire(w, c) ==
  /\ owner[c] = Nobody
  /\ owner' = [owner EXCEPT ![c] = w]
  /\ UNCHANGED rows

Release(w) ==
  /\ owner' = [c \in Container |-> IF owner[c] = w THEN Nobody ELSE owner[c]]
  /\ UNCHANGED rows

Owns(w, rs) == \A r \in rs : owner[containerOf[importOf[r]]] = w

\* No row of the batch repeats a complete key of the store or of the batch.
NewKeys(p, rs) ==
  \A r \in rs : keyOf[p][r] \notin NullKey =>
     \A q \in Record : keyOf[p][q] = keyOf[p][r] => rows[p][q] = 0 /\ (q \in rs => q = r)

Publish(w, p, rs) ==
  /\ Owns(w, rs)
  /\ NewKeys(p, rs)
  /\ rows' = [rows EXCEPT ![p] = [r \in Record |-> IF r \in rs THEN @[r] + 1 ELSE @[r]]]
  /\ UNCHANGED owner

Remove(i) ==
  /\ rows' = [p \in Pass |->
       [r \in Record |-> IF importOf[r] = i THEN 0 ELSE rows[p][r]]]
  /\ UNCHANGED owner

Next ==
  \/ \E w \in Worker :
        \/ Release(w)
        \/ \E c \in Container : Acquire(w, c)
        \/ \E p \in Pass, rs \in SUBSET Record : Publish(w, p, rs)
  \/ \E i \in Import : Remove(i)

Spec == Init /\ [][Next]_vars
===========================================================================
