--------------------------- MODULE MCTransformation ---------------------------
(* Records and transformations for TLC: two levels of arrays, up to two      *)
(* elements each, with missing, null and unconvertible values.               *)
EXTENDS TransformationReference

\* Inner elements: a number, a text that reads as one, a word, null, nothing.
Inner == {Obj("x" :> v) : v \in {Num(1), Text(2), Word(3), Null}} \union {Obj(<<>>)}

\* The array b of an outer element: absent, no array, or up to two elements.
InnerArrays == {Undefined, Num(1), Arr(<<>>)} \union {Arr(<<x>>) : x \in Inner}
               \union {Arr(<<x, y>>) : x \in {Obj("x" :> Num(1)), Obj("x" :> Word(3))},
                                       y \in {Obj("x" :> Text(2)), Obj(<<>>)}}

Outer == {Obj(("id" :> id) @@ ("b" :> b)) : id \in {Num(0), Text(1)}, b \in InnerArrays}

Records ==
    {Obj(("a" :> a) @@ ("g" :> g)) :
        a \in {Undefined, Arr(<<>>)} \union {Arr(<<x>>) : x \in Outer}
              \union {Arr(<<x, y>>) : x \in {o \in Outer : o.f["id"] = Num(0)},
                                      y \in {o \in Outer : o.f["id"] = Text(1)}},
        g \in {Num(0), Text(1)}}

AllValues ==
    {Undefined, Null, Num(0), Num(1), Text(1), Text(2), Word(3)}
    \union Inner \union InnerArrays \union Outer \union Records \union {r.f["a"] : r \in Records}

NoRoot == <<>>
OuterRoot == <<"a">>
InnerRoot == <<"a", "[]", "b">>

Key(of, key, name, type, required) ==
    [of |-> of, key |-> key, name |-> name, type |-> type, required |-> required,
     known |-> TRUE, value |-> Undefined]

\* Keys through no array, the outer one and the inner one.
GlobalKey == <<"g">>
IdKey == <<"a", "[]", "id">>
XKey == <<"a", "[]", "b", "[]", "x">>

NodeKeys == <<Key("metatype", IdKey, "id", "string", FALSE),
              Key("metatype", XKey, "x", "number", TRUE),
              Key("metadata", XKey, "meta", "", FALSE)>>

EdgeKeys == <<Key("relationship", XKey, "x", "number", TRUE),
              [Key("relationship", <<>>, "kind", "string", FALSE) EXCEPT !.value = Word(7)]>>

\* A condition on the record, OR on the outer element, AND on the inner one.
Condition == [key |-> GlobalKey, operator |-> "==", value |-> 0,
              subexpressions |-> <<[expression |-> "OR", key |-> IdKey, operator |-> "exists", value |-> 0],
                                   [expression |-> "AND", key |-> XKey, operator |-> "<=", value |-> 1]>>]

Transformations ==
    {[type |-> "node", archived |-> FALSE, rootArray |-> root, conditions |-> conditions, keys |-> NodeKeys,
      onExtraction |-> extraction, onConversion |-> conversion, uniqueKey |-> IdKey] :
        root \in {NoRoot, OuterRoot, InnerRoot}, conditions \in {{}, {Condition}},
        extraction \in {"fail", "fail on required", "ignore"},
        conversion \in {"fail on required", "ignore"}}

Edges(root) ==
    [type |-> "edge", archived |-> FALSE, rootArray |-> root, conditions |-> {}, keys |-> EdgeKeys,
     onExtraction |-> "fail on required", onConversion |-> "fail on required",
     origin |-> IdKey, destination |-> GlobalKey]

\* One transformation for nodes, then one for edges.
NodeThenEdge == {<<t, Edges(t.rootArray)>> : t \in Transformations}

AnyNode == CHOOSE t \in Transformations : t.rootArray = InnerRoot /\ t.conditions = {}

Forgotten(keys) == [i \in DOMAIN keys |-> [keys[i] EXCEPT !.known = FALSE]]

\* An archived one, one whose root array is none, and ones whose keys no longer exist.
Odd == <<[AnyNode EXCEPT !.archived = TRUE],
         [AnyNode EXCEPT !.rootArray = GlobalKey],
         [AnyNode EXCEPT !.keys = Forgotten(@)],
         [Edges(OuterRoot) EXCEPT !.keys = Forgotten(@)],
         AnyNode>>

AllMappings == NodeThenEdge \union {Odd}

\* What the theorems about this module suppose holds of these mappings.
ASSUME TheoremsApply == MarkersFit /\ PropertiesDiffer
=============================================================================
