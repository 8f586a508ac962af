----------------------- MODULE TransformationReference -----------------------
(***************************************************************************)
(* The reference for Transformation: the elements of a root array and the  *)
(* values of keys by the structure of the payload.  A key leads from the   *)
(* record to a set of values, each with the positions of the arrays on the *)
(* way; no index array is consumed and nothing is thrown.                  *)
(***************************************************************************)
EXTENDS Transformation

\* The elements of an array; "[]" stands for all of them.
Spread(e) ==
    IF e.of.k = "arr"
    THEN {[index |-> Append(e.index, i), of |-> e.of.e[i + 1]] : i \in 0..(Len(e.of.e) - 1)}
    ELSE {}

Through(e, segment) ==
    IF segment = "[]" THEN Spread(e)
    ELSE IF e.of.k = "arr" THEN {}
    ELSE {[index |-> e.index, of |-> Field(e.of, segment)]}

Onward(from, segment) == UNION {Through(e, segment) : e \in from}

\* What the key leads to, each with the positions of the arrays on the way.
Reached(data, key) ==
    LET reached[n \in 0..Len(key)] ==
            IF n = 0 THEN {[index |-> <<>>, of |-> data]}
            ELSE Onward(reached[n - 1], key[n])
    IN  reached[Len(key)]

Elements(data, path) == UNION {Spread(e) : e \in Reached(data, path)}

ElementsOf(t, data) ==
    IF t.rootArray = <<>> THEN {[index |-> <<>>, of |-> data]} ELSE Elements(data, t.rootArray)

\* The value of a key for the element at index: what the key leads to through
\* arrays that lie on the way to the element.
ValueAt(data, key, index) ==
    LET own == {e \in Reached(data, key) : IsPrefix(e.index, index)}
    IN  IF key = <<>> \/ own = {} THEN Undefined ELSE (CHOOSE e \in own : TRUE).of

\* A chain of subexpressions holds if some term, the condition or an OR, holds
\* and so does every AND after it.
ConditionHolds(c, data, index) ==
    LET n == Len(c.subexpressions)
        term(i) == IF i = 0 THEN c ELSE c.subexpressions[i]
        holds(i) == Compare(term(i).operator, ValueAt(data, term(i).key, index), term(i).value)
        is(i, x) == c.subexpressions[i].expression = x
    IN /\ ~Falsy(ValueAt(data, c.key, index))
       /\ \E i \in 0..n : /\ i > 0 => is(i, "OR")
                          /\ holds(i)
                          /\ \A j \in (i + 1)..n : is(j, "AND") => holds(j)

Wanted(t, data, index) ==
    t.conditions = {} \/ \E c \in t.conditions : ConditionHolds(c, data, index)

\* What key k has to say of an element: the payload's value or the constant.
Source(k, data, index) == IF k.key = <<>> THEN k.value ELSE ValueAt(data, k.key, index)

Unusable(k, data, index) == ConvertValue(k.type, Source(k, data, index)).res = "error"

Missing(k, data, index) == k.key # <<>> /\ Source(k, data, index) = Undefined

\* Some key says that the element gives no node or edge.
Refused(t, data, index) ==
    \/ \E k \in Needed(t) :
          /\ Unusable(k, data, index)
          /\ \/ t.onExtraction = "fail on required" /\ Missing(k, data, index)
             \/ /\ t.onConversion = "fail on required"
                /\ ~(t.onExtraction = "ignore" /\ Missing(k, data, index))
    \/ \E k \in ToSet(t.keys) : \/ k.of = "metadata" /\ k.key = <<>>
                                \/ k.of = "relationship" /\ ~k.known

-----------------------------------------------------------------------------
(* Mappings that fit their payloads.  getNestedValue takes an index wherever *)
(* the payload has an array, the reference where the key has a marker: the   *)
(* two are compared where markers and arrays agree.                          *)

\* No field is named like the marker of an array.
NoMarkerNames == \A value \in Values : value.k = "obj" => "[]" \notin DOMAIN value.f

\* A key ends with a field, and has a marker wherever it comes to an array.
Fits(data, key) ==
    /\ key # <<>> => key[Len(key)] # "[]"
    /\ \A n \in 0..(Len(key) - 2) : \A e \in Reached(data, SubSeq(key, 1, n)) :
          e.of.k = "arr" => key[n + 1] = "[]"

\* A root array has a field before each marker.
RootFits(t) == \A i \in Markers(t.rootArray) : i > 1 /\ i - 1 \notin Markers(t.rootArray)

ConditionFits(c, data) ==
    /\ Fits(data, c.key)
    /\ \A s \in ToSet(c.subexpressions) : Fits(data, s.key)

MarkersFit ==
    /\ NoMarkerNames
    /\ \A m \in Mappings : \A t \in ToSet(m) : \A data \in Payloads :
          /\ RootFits(t)
          /\ Fits(data, t.rootArray)
          /\ \A k \in ToSet(t.keys) : Fits(data, k.key)
          /\ \A c \in t.conditions : ConditionFits(c, data)

\* No two keys of a transformation set the same property.
PropertiesDiffer ==
    \A m \in Mappings : \A t \in ToSet(m) : \A i, j \in DOMAIN t.keys :
        /\ t.keys[i].of # "metadata" /\ t.keys[j].of = t.keys[i].of
        /\ t.keys[j].name = t.keys[i].name
        => i = j

-----------------------------------------------------------------------------
(* Properties *)

\* Where the results of transformation n are.
By(n) == {i \in DOMAIN results : results[i].by = n}

Applied == {n \in 1..(next - 1) : Selected(mapping[n])}

\* Of two elements, the one that comes first in the payload.
Before(a, b) ==
    \E i \in DOMAIN a \cap DOMAIN b : a[i] < b[i] /\ \A j \in 1..(i - 1) : a[j] = b[j]

\* The elements that a transformation is to make a node or an edge of.
Due(t, data) ==
    {e.index : e \in {x \in ElementsOf(t, data) : Wanted(t, data, x.index) /\ ~Refused(t, data, x.index)}}

\* A transformation gives one node or edge for every element of its root array
\* that meets a condition and is not refused by a required key, in the order
\* of the payload, and none for any other: an element that fails costs its
\* siblings nothing, at any depth of nesting (transform's loops and recursion).
\* It fails as a whole only when there is no root array to walk.
OnePerElement ==
    /\ \A n \in failed :
        LET t == mapping[n]
        IN  IF t.rootArray = <<>> THEN Refused(t, payload, <<>>)
            ELSE \A e \in Reached(payload, ArrayKey(t, 0)) : e.of.k # "arr"
    /\ \A n \in Applied \ failed :
        /\ {results[i].item.index : i \in By(n)} = Due(mapping[n], payload)
        /\ \A i, j \in By(n) : i < j => Before(results[i].item.index, results[j].item.index)

\* An item is made of its own element: whatever array a key goes through, the
\* value mapped for it is the one of the element the item stands for or of an
\* element around it, never a sibling's (getNestedValue's index handling).
OwnElement ==
    \A i \in DOMAIN results :
        LET item == results[i].item
            props == item.props
        IN \A k \in ToSet(mapping[results[i].by].keys) :
            \/ /\ k.of = "metadata"
               /\ k.key \in DOMAIN props["metadata"] =>
                     props["metadata"][k.key] = ValueAt(payload, k.key, item.index)
            \/ /\ k.of # "metadata"
               /\ k.known /\ k.key # <<>> /\ ~Unusable(k, payload, item.index) =>
                     /\ k.name \in DOMAIN props[k.of]
                     /\ props[k.of][k.name]
                            = ConvertValue(k.type, ValueAt(payload, k.key, item.index)).value

\* process.ts:98-99 says that conversion errors which did not fail the whole
\* transformation are in the metadata of the transformed object.  Not for an
\* element of a root array whose required key did not convert: there is no
\* object for it, and the error is only logged: README, section 6.
ErrorsAreKept ==
    \A n \in Applied \ failed : \A e \in ElementsOf(mapping[n], payload) :
        \A k \in ToSet(mapping[n].keys) :
            /\ Wanted(mapping[n], payload, e.index)
            /\ k.of # "metadata" /\ k.known /\ k.key # <<>>
            /\ ~Missing(k, payload, e.index)
            /\ Unusable(k, payload, e.index)
            => \E i \in By(n) : results[i].item.index = e.index /\ k.name \in results[i].item.failed
=============================================================================
