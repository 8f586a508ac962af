---------------------------- MODULE Transformation ----------------------------
(***************************************************************************)
(* How a record of an import becomes nodes or edges: GenerateNodes and     *)
(* GenerateEdges (src/server/src/data_processing/process.ts) apply each    *)
(* transformation of the record's type mapping, and applyTransformation    *)
(* (src/server/src/domain_objects/data_warehouse/etl/type_transformation.ts)*)
(* walks its root array, tests the conditions on every element and maps    *)
(* the keys.  TransformationReference compares the results with a          *)
(* structural definition of "an element" and "its value".                  *)
(*                                                                         *)
(* A payload is a tree of JSON values.  A key such as "a.[].b" is the      *)
(* sequence <<"a", "[]", "b">>.                                            *)
(***************************************************************************)
EXTENDS Integers, Sequences, FiniteSets, SequencesExt, TLC

CONSTANTS Values,    \* the JSON values considered, with all that they are made of
          Payloads,  \* the records considered
          Mappings   \* the sequences of transformations considered

VARIABLES pass,      \* "node" (GenerateNodes) or "edge" (GenerateEdges)
          payload,   \* record.data
          mapping,   \* the transformations of the record's active mapping
          next,      \* the transformation that is applied next
          results,   \* nodesToInsert, or rawEdges
          failed,    \* history: the transformations that returned an error
          error      \* the transformation named in data_staging.errors, 0 if none

vars == <<pass, payload, mapping, next, results, failed, error>>

-----------------------------------------------------------------------------
(* JSON values.  v tells numerals, texts and words apart: a text reads as a  *)
(* number, a word does not.                                                *)

Undefined == [k |-> "undefined", v |-> 0]
Null      == [k |-> "null", v |-> 0]
Num(n)    == [k |-> "num", v |-> n]
Text(n)   == [k |-> "text", v |-> n]
Word(n)   == [k |-> "word", v |-> n]
Bool(b)   == [k |-> "bool", v |-> IF b THEN 1 ELSE 0]
Obj(f)    == [k |-> "obj", f |-> f]
Arr(e)    == [k |-> "arr", e |-> e]

Field(value, name) ==
    IF value.k = "obj" /\ name \in DOMAIN value.f THEN value.f[name] ELSE Undefined

\* !value in a condition or before an edge's id is made a string.
Falsy(value) == value.k \in {"undefined", "null"} \/ (value.k \in {"num", "bool"} /\ value.v = 0)

\* `${value}`: a missing value becomes the word "undefined".  The text of an
\* object or an array is not told apart from it.
AsText(value) ==
    CASE value.k = "undefined" -> Word(-1)
      [] value.k = "null" -> Word(-2)
      [] value.k = "num" -> Text(value.v)
      [] OTHER -> value

TransformationAssumption ==
    /\ Payloads \subseteq Values
    /\ Undefined \in Values
    /\ \A value \in Values :
          /\ value.k = "obj" => \A name \in DOMAIN value.f : value.f[name] \in Values
          /\ value.k = "arr" => value.e \in Seq(Values)
    /\ \A m \in Mappings : m \in Seq(ToSet(m))
    /\ \A m \in Mappings : \A t \in ToSet(m) :
          /\ t.rootArray \in Seq(STRING)
          /\ t.keys \in Seq(ToSet(t.keys))
          /\ \A k \in ToSet(t.keys) :
                k.of \in {"metatype", "relationship", "metadata"} /\ k.key \in Seq(STRING)
          /\ {t.onExtraction, t.onConversion} \subseteq {"fail", "fail on required", "ignore"}
          /\ \A c \in t.conditions :
                /\ c.key \in Seq(STRING)
                /\ c.subexpressions \in Seq(ToSet(c.subexpressions))
                /\ \A s \in ToSet(c.subexpressions) : s.key \in Seq(STRING)

ASSUME TransformationAssumption

-----------------------------------------------------------------------------
(* getNestedValue *)

\* Mutant: an array takes the first index but leaves it for the next array.
DescendKeepsIndex(at, segment) ==
    IF at.value.k = "arr"
    THEN [at EXCEPT !.value = IF at.index # <<>> /\ Head(at.index) < Len(@.e)
                              THEN @.e[Head(at.index) + 1] ELSE Undefined]
    ELSE [at EXCEPT !.value = Field(@, segment)]

\* One parent of the key: an array consumes an index, whatever the segment.
Descend(at, segment) ==
    IF at.value.k = "arr"
    THEN [value |-> IF at.index # <<>> /\ Head(at.index) < Len(at.value.e)
                    THEN at.value.e[Head(at.index) + 1] ELSE Undefined,
          index |-> IF at.index # <<>> THEN Tail(at.index) ELSE <<>>]
    ELSE [at EXCEPT !.value = Field(@, segment)]

\* The value of a key; reading through undefined throws, and is caught.
GetNestedValue(key, data, index) ==
    LET at[i \in 0..(Len(key) - 1)] ==
            IF i = 0 THEN [value |-> data, index |-> index] ELSE Descend(at[i - 1], key[i])
    IN  IF key = <<>> THEN Undefined ELSE Field(at[Len(key) - 1].value, Last(key))

-----------------------------------------------------------------------------
(* Conditions *)

\* compare, with a one-digit numeral as the expected value, so that comparing
\* texts and comparing numbers agree.  "in" and "contains" are left out.
Compare(operator, value, expected) ==
    LET equal == value.k \in {"num", "text"} /\ value.v = expected
        orderable == value.k \in {"num", "text", "null"}
    IN CASE operator = "==" -> equal
         [] operator = "!=" -> ~equal
         [] operator = "exists" -> value # Undefined
         [] operator = ">" -> orderable /\ value.v > expected
         [] operator = "<" -> orderable /\ value.v < expected
         [] operator = "<=" -> orderable /\ value.v <= expected
         [] operator = ">=" -> orderable /\ value.v >= expected
         [] OTHER -> FALSE

Holds(c, data, index) == Compare(c.operator, GetNestedValue(c.key, data, index), c.value)

\* One subexpression, after what the ones before it came to.
SubExpression(sub, data, index, result) ==
    CASE sub.expression = "OR" -> result \/ Holds(sub, data, index)
      [] sub.expression = "AND" -> result /\ Holds(sub, data, index)
      [] OTHER -> result

ValidTransformationCondition(condition, data, index) ==
    LET subs == condition.subexpressions
        result[i \in 0..Len(subs)] ==
            IF i = 0 THEN Holds(condition, data, index)
            ELSE SubExpression(subs[i], data, index, result[i - 1])
    IN  ~Falsy(GetNestedValue(condition.key, data, index)) /\ result[Len(subs)]

Valid(t, data, index) ==
    \/ t.conditions = {}
    \/ \E c \in t.conditions : ValidTransformationCondition(c, data, index)

-----------------------------------------------------------------------------
(* Mapping the keys *)

\* convertValue: "keep" needs no conversion, "error" is a failed one.
ConvertValue(type, value) ==
    LET keep == [res |-> "keep", value |-> value]
        to(new) == [res |-> "converted", value |-> new]
        failure == [res |-> "error", value |-> value]
    IN IF value.k \in {"undefined", "null"} THEN failure
       ELSE CASE type = "number" ->
                   (CASE value.k = "num" -> keep [] value.k = "text" -> to(Num(value.v)) [] OTHER -> failure)
              [] type = "string" -> IF value.k \in {"text", "word"} THEN keep ELSE to(AsText(value))
              [] type = "boolean" ->
                   (CASE value.k = "bool" -> keep
                      [] value.k \in {"num", "text"} -> to(Bool(value.v = 1))
                      [] value.k = "word" -> to(Bool(FALSE))
                      [] OTHER -> failure)
              [] type = "list" -> IF value.k = "arr" THEN keep ELSE to(Arr(<<value>>))
              [] OTHER -> keep

\* Mutant: a required key is skipped like any other.
ErrorActionNeverFails(config, required) == IF config = "fail" THEN "go on" ELSE "skip"

\* The switch on on_key_extraction_error and on_conversion_error: "fail" only
\* leaves the switch, and the key is mapped all the same.
ErrorAction(config, required) ==
    CASE config = "fail" -> "go on"
      [] config = "fail on required" -> IF required THEN "abort" ELSE "skip"
      [] config = "ignore" -> "skip"

Abort(acc) == [acc EXCEPT !.aborted = TRUE]

\* The properties with one of them set.
With(properties, name, value) ==
    [n \in DOMAIN properties \union {name} |-> IF n = name THEN value ELSE properties[n]]

\* A metatype or relationship key.  A relationship key converts only what it
\* took from the payload, and may not be unknown.
MapProperty(t, k, data, index, acc) ==
    LET static == [acc EXCEPT !.props[k.of] = With(@, k.name, k.value)]
        value == IF k.key = <<>> THEN k.value ELSE GetNestedValue(k.key, data, index)
        missing == k.key # <<>> /\ value = Undefined
        conversion == ConvertValue(k.type, value)
        noted == [static EXCEPT !.failed = @ \union {k.name}]
    IN CASE ~k.known -> IF k.of = "relationship" THEN Abort(acc) ELSE acc
         [] k.known /\ k.of = "relationship" /\ k.key = <<>> -> static
         [] OTHER ->
              CASE missing /\ ErrorAction(t.onExtraction, k.required) = "abort" -> Abort(acc)
                [] missing /\ ErrorAction(t.onExtraction, k.required) = "skip" -> static
                [] OTHER ->
                     IF conversion.res # "error"
                     THEN [static EXCEPT !.props[k.of] = With(@, k.name, conversion.value)]
                     ELSE IF ErrorAction(t.onConversion, k.required) = "abort" THEN Abort(acc)
                          ELSE noted

\* A metadata key is named by its path, is never converted and never required.
MapMetadata(t, k, data, index, acc) ==
    LET value == GetNestedValue(k.key, data, index)
    IN IF k.key = <<>> THEN Abort(acc)
       ELSE IF value = Undefined /\ ErrorAction(t.onExtraction, FALSE) = "skip" THEN acc
            ELSE [acc EXCEPT !.props["metadata"] = With(@, k.key, value)]

MapKey(t, k, data, index, acc) ==
    IF acc.aborted THEN acc
    ELSE IF k.of = "metadata" THEN MapMetadata(t, k, data, index, acc)
    ELSE MapProperty(t, k, data, index, acc)

NothingMapped == [props |-> [o \in {"metatype", "relationship", "metadata"} |-> <<>>],
                  failed |-> {}, aborted |-> FALSE]

\* The loop over the keys.
MappedKeys(t, data, index) ==
    LET after[i \in 0..Len(t.keys)] ==
            IF i = 0 THEN NothingMapped ELSE MapKey(t, t.keys[i], data, index, after[i - 1])
    IN  after[Len(t.keys)]

Failure == [isError |-> TRUE, value |-> <<>>]
Success(items) == [isError |-> FALSE, value |-> items]

\* original_data_id of a node, or the two original ids of an edge: falsy ids
\* of an edge are dropped, a missing id of a node becomes a word.
Identity(t, data, index) ==
    IF t.type = "node"
    THEN [id |-> IF t.uniqueKey = <<>> THEN Undefined
                 ELSE AsText(GetNestedValue(t.uniqueKey, data, index))]
    ELSE [end \in {"origin", "destination"} |->
            LET value == GetNestedValue(t[end], data, index)
            IN IF Falsy(value) THEN Undefined ELSE AsText(value)]

\* generateResults: one node or one edge.
GenerateResults(t, data, index) ==
    LET mapped == MappedKeys(t, data, index)
    IN IF mapped.aborted THEN Failure
       ELSE Success(<<[type |-> t.type, index |-> index, props |-> mapped.props,
                       failed |-> mapped.failed, ids |-> Identity(t, data, index)]>>)

-----------------------------------------------------------------------------
(* transform *)

\* The positions of "[]" in a key.
Markers(key) == {i \in 1..Len(key) : key[i] = "[]"}

\* arrays.slice(0, n + 1).join('[]') without a trailing dot: the part of the
\* root array's key before its (n + 1)-st marker.
ArrayKey(t, n) ==
    IF n = Cardinality(Markers(t.rootArray)) THEN t.rootArray
    ELSE SubSeq(t.rootArray, 1,
                (CHOOSE i \in Markers(t.rootArray) :
                    Cardinality({j \in Markers(t.rootArray) : j < i}) = n) - 1)

\* Mutant: the first nested error is returned.
CollectedAborts(nested) ==
    IF \E i \in DOMAIN nested : nested[i].isError THEN Failure
    ELSE Success(FlattenSeq([i \in DOMAIN nested |-> nested[i].value]))

\* The loop over an array: nested errors are logged and skipped.
Collected(nested) == Success(FlattenSeq([i \in DOMAIN nested |-> nested[i].value]))

\* root_array.split('[]').length: the arrays on the way to an element.
Depth(t) == IF t.rootArray = <<>> THEN 0 ELSE Cardinality(Markers(t.rootArray)) + 1

Indexes(t) == {index \in Seq(Nat) : Len(index) <= Depth(t)}

\* One call; "walk" is what the calls with a longer index return.
TransformAt(t, data, index, walk) ==
    LET array == GetNestedValue(ArrayKey(t, Len(index)), data, index)
    IN IF Len(index) = Depth(t)
       THEN IF Valid(t, data, index) THEN GenerateResults(t, data, index) ELSE Success(<<>>)
       ELSE IF array.k # "arr" THEN Failure
            ELSE Collected([i \in 1..Len(array.e) |-> walk[Append(index, i - 1)]])

Transform(t, data) ==
    LET walk[index \in Indexes(t)] == TransformAt(t, data, index, walk)
    IN  walk[<<>>]

-----------------------------------------------------------------------------
(* GenerateNodes and GenerateEdges, for one record *)

Init ==
    /\ pass \in {"node", "edge"}
    /\ payload \in Payloads
    /\ mapping \in Mappings
    /\ next = 1
    /\ results = <<>>
    /\ failed = {}
    /\ error = 0

\* Mutant: a pass applies the transformations of the other pass too.
SelectedAny(t) == ~t.archived

Selected(t) == t.type = pass /\ ~t.archived

\* One transformation.  setErrors replaces what an earlier one wrote.
Apply ==
    /\ next <= Len(mapping)
    /\ next' = next + 1
    /\ UNCHANGED <<pass, payload, mapping>>
    /\ LET t == mapping[next]
           result == Transform(t, payload)
       IN \/ /\ ~Selected(t)
             /\ UNCHANGED <<results, failed, error>>
          \/ /\ Selected(t)
             /\ result.isError
             /\ failed' = failed \union {next}
             /\ error' = next
             /\ UNCHANGED results
          \/ /\ Selected(t)
             /\ ~result.isError
             /\ results' = results \o [i \in DOMAIN result.value |-> [by |-> next, item |-> result.value[i]]]
             /\ UNCHANGED <<failed, error>>

Next == Apply

Spec == Init /\ [][Next]_vars

-----------------------------------------------------------------------------
(* Properties *)

\* The state of a record between two transformations; a pass only holds items
\* of its own type, which is what IsNodes and IsEdges look for.
TypeOK ==
    /\ pass \in {"node", "edge"}
    /\ payload \in Payloads
    /\ mapping \in Mappings
    /\ next \in 1..(Len(mapping) + 1)
    /\ \A i \in DOMAIN results : results[i].by < next /\ results[i].item.type = pass
    /\ failed \subseteq 1..(next - 1)
    /\ error \in failed \union {0}

\* The keys whose values a generated item needs.
Needed(t) == {k \in ToSet(t.keys) : k.of # "metadata" /\ k.known /\ k.required
                                    /\ (k.of = "relationship" => k.key # <<>>)}

\* With both actions at 'fail on required', their default, no node or edge
\* lacks a required property or holds one of the wrong kind (generateResults).
RequiredPresent ==
    \A i \in DOMAIN results :
        LET t == mapping[results[i].by]
        IN  t.onExtraction = "fail on required" /\ t.onConversion = "fail on required" =>
                \A k \in Needed(t) :
                    LET props == results[i].item.props[k.of]
                    IN  /\ k.name \in DOMAIN props
                        /\ props[k.name].k \notin {"undefined", "null"}
                        /\ k.type = "number" => props[k.name].k = "num"
=============================================================================
