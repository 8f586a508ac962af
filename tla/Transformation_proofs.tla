------------------------ MODULE Transformation_proofs ------------------------
(***************************************************************************)
(* Theorems about Transformation, for every set of payloads and mappings:  *)
(* the state's type, that no node or edge lacks a required property, and   *)
(* that the results are those of the reference, one for each element, made *)
(* of the element's own values.                                            *)
(* The loops and the recursion of the code are functions defined by        *)
(* recursion; that they exist, and what all their values have in common,   *)
(* follows from the least number principle.                                *)
(***************************************************************************)
EXTENDS TransformationReference, WellFoundedInduction, FiniteSetTheorems, TLAPS

-----------------------------------------------------------------------------
(* Numbers and sequences *)

\* A set of natural numbers that is not empty has a least one.
LEMMA LeastNumber ==
    ASSUME NEW T \in SUBSET Nat, T # {}
    PROVE  \E n \in T : \A m \in T : n <= m
<1>1. PICK n \in T : \A m \in T : ~(<<m, n>> \in OpToRel(<, Nat))
    BY WFMin, NatLessThanWellFounded
<1>2. \A m \in T : ~(m < n)
    BY <1>1 DEF OpToRel
<1> QED BY <1>2

\* A set that has 0 and, with a number, the next one up to N, has all up to N.
LEMMA UpTo ==
    ASSUME NEW N \in Nat, NEW T, 0 \in T, \A n \in 0..(N - 1) : n \in T => n + 1 \in T
    PROVE  \A n \in 0..N : n \in T
<1> SUFFICES ASSUME ~ \A n \in 0..N : n \in T
             PROVE  FALSE
    OBVIOUS
<1> DEFINE U == {n \in 0..N : n \notin T}
<1>1. U \in SUBSET Nat /\ U # {}
    OBVIOUS
<1>2. PICK n \in U : \A m \in U : n <= m
    BY <1>1, LeastNumber
<1>3. n # 0 /\ n \in 0..N
    BY <1>2
<1>4. n - 1 \in 0..(N - 1) /\ n - 1 \notin U
    BY <1>2, <1>3
<1>5. n - 1 \in T
    BY <1>4
<1>6. n \in T
    BY <1>3, <1>4, <1>5
<1> QED BY <1>2, <1>6

-----------------------------------------------------------------------------
(* FlattenSeq *)

LEMMA FlattenExists ==
    ASSUME NEW seqs, NEW N \in Nat \ {0}
    PROVE  \E f : f = [i \in 1..N |-> IF i = 1 THEN seqs[i] ELSE f[i - 1] \o seqs[i]]
<1> DEFINE Is(f, n) == f = [i \in 1..n |-> IF i = 1 THEN seqs[i] ELSE f[i - 1] \o seqs[i]]
           T == {n \in Nat : \E f : Is(f, n)}
<1>1. 0 \in T
    <2>1. Is([i \in 1..0 |-> seqs[i]], 0)
        OBVIOUS
    <2> QED BY <2>1
<1>2. ASSUME NEW n \in 0..(N - 1), n \in T
      PROVE  n + 1 \in T
    <2>1. PICK f : Is(f, n)
        BY <1>2
    <2> DEFINE g == [i \in 1..(n + 1) |-> IF i = 1 THEN seqs[i] ELSE f[i - 1] \o seqs[i]]
    <2>2. ASSUME NEW i \in 1..n
          PROVE  g[i] = f[i]
        <3>1. f[i] = IF i = 1 THEN seqs[i] ELSE f[i - 1] \o seqs[i]
            BY <2>1, Zenon
        <3>2. i \in 1..(n + 1)
            OBVIOUS
        <3> QED BY <3>1, <3>2, Zenon
    <2>3. ASSUME NEW i \in 1..(n + 1)
          PROVE  g[i] = IF i = 1 THEN seqs[i] ELSE g[i - 1] \o seqs[i]
        <3>1. CASE i = 1
            BY <3>1
        <3>2. CASE i # 1
            <4>1. i - 1 \in 1..n
                BY <3>2
            <4>2. g[i - 1] = f[i - 1]
                BY <4>1, <2>2
            <4> QED BY <3>2, <4>2
        <3> QED BY <3>1, <3>2
    <2>4. Is(g, n + 1)
        BY <2>3
    <2> HIDE DEF g
    <2>5. n + 1 \in Nat
        OBVIOUS
    <2> QED BY <2>4, <2>5
<1> HIDE DEF T
<1>3. N \in T
    BY <1>1, <1>2, UpTo
<1> QED BY <1>3 DEF T

\* The flattened sequence has the members of its members.
LEMMA FlattenMembers ==
    ASSUME NEW S, NEW seqs \in Seq(Seq(S))
    PROVE  FlattenSeq(seqs) \in Seq(S)
<1> DEFINE N == Len(seqs)
           f == CHOOSE f : f = [i \in 1..N |-> IF i = 1 THEN seqs[i] ELSE f[i - 1] \o seqs[i]]
<1>1. CASE N = 0
    <2>1. seqs = <<>>
        BY <1>1
    <2> QED BY <2>1 DEF FlattenSeq
<1>2. CASE N # 0
    <2>1. N \in Nat \ {0}
        BY <1>2
    <2>2. f = [i \in 1..N |-> IF i = 1 THEN seqs[i] ELSE f[i - 1] \o seqs[i]]
        BY <2>1, FlattenExists, Zenon
    <2>3. FlattenSeq(seqs) = f[N]
        BY <1>2 DEF FlattenSeq
    <2> HIDE DEF f
    <2>8. \A i \in 1..N : f[i] = IF i = 1 THEN seqs[i] ELSE f[i - 1] \o seqs[i]
        BY <2>2, Zenon
    <2> DEFINE T == {n \in Nat : n \in 1..N => f[n] \in Seq(S)}
    <2>4. ASSUME NEW n \in 0..(N - 1), n \in T
          PROVE  n + 1 \in T
        <3>1. n + 1 \in 1..N /\ seqs[n + 1] \in Seq(S)
            BY <2>1
        <3>2. CASE n = 0
            BY <2>2, <3>1, <3>2
        <3>3. CASE n # 0
            <4>1. f[n] \in Seq(S)
                BY <2>4, <3>3
            <4>2. f[n + 1] = f[n] \o seqs[n + 1]
                <5>1. f[n + 1] = IF n + 1 = 1 THEN seqs[n + 1] ELSE f[n + 1 - 1] \o seqs[n + 1]
                    BY <2>8, <3>1
                <5>2. n + 1 # 1 /\ n + 1 - 1 = n
                    BY <3>3
                <5> QED BY <5>1, <5>2, Zenon
            <4>3. f[n + 1] \in Seq(S)
                BY <3>1, <4>1, <4>2
            <4> QED BY <4>3
        <3> QED BY <3>2, <3>3
    <2>5. 0 \in T
        OBVIOUS
    <2> HIDE DEF T
    <2>6. \A n \in 0..N : n \in T
        BY <2>1, <2>4, <2>5, UpTo
    <2>7. N \in 0..N /\ N \in 1..N
        BY <2>1
    <2> QED BY <2>3, <2>6, <2>7 DEF T
<1> QED BY <1>1, <1>2

-----------------------------------------------------------------------------
(* getNestedValue *)

\* The function GetNestedValue defines, for a key with N + 1 segments.
IsAt(at, key, data, index, N) ==
    at = [i \in 0..N |->
             IF i = 0 THEN [value |-> data, index |-> index] ELSE Descend(at[i - 1], key[i])]

At(key, data, index, N) == CHOOSE at : IsAt(at, key, data, index, N)

LEMMA AtIs ==
    ASSUME NEW key, NEW data, NEW index, NEW N \in Nat
    PROVE  IsAt(At(key, data, index, N), key, data, index, N)
<1> DEFINE Is(f, n) == IsAt(f, key, data, index, n)
           T == {n \in Nat : \E f : Is(f, n)}
<1> USE DEF IsAt
<1>1. 0 \in T
    <2> DEFINE f == [j \in 0..0 |-> [value |-> data, index |-> index]]
    <2>1. Is(f, 0)
        <3>1. ASSUME NEW j \in 0..0
              PROVE  f[j] = IF j = 0 THEN [value |-> data, index |-> index]
                            ELSE Descend(f[j - 1], key[j])
            BY <3>1
        <3> QED BY <3>1
    <2> HIDE DEF f
    <2> QED BY <2>1
<1>2. ASSUME NEW n \in 0..(N - 1), n \in T
      PROVE  n + 1 \in T
    <2>1. PICK f : Is(f, n)
        BY <1>2
    <2> DEFINE g == [j \in 0..(n + 1) |->
                   IF j = 0 THEN [value |-> data, index |-> index] ELSE Descend(f[j - 1], key[j])]
    <2>2. ASSUME NEW j \in 0..n
          PROVE  g[j] = f[j]
        <3>1. f[j] = IF j = 0 THEN [value |-> data, index |-> index]
                     ELSE Descend(f[j - 1], key[j])
            BY <2>1, Zenon
        <3>2. j \in 0..(n + 1)
            OBVIOUS
        <3> QED BY <3>1, <3>2, Zenon
    <2>3. ASSUME NEW j \in 0..(n + 1)
          PROVE  g[j] = IF j = 0 THEN [value |-> data, index |-> index]
                        ELSE Descend(g[j - 1], key[j])
        <3>1. CASE j = 0
            BY <3>1
        <3>2. CASE j # 0
            <4>1. j - 1 \in 0..n
                BY <3>2
            <4>2. g[j - 1] = f[j - 1]
                BY <4>1, <2>2
            <4> QED BY <3>2, <4>2
        <3> QED BY <3>1, <3>2
    <2>4. Is(g, n + 1)
        BY <2>3
    <2> HIDE DEF g
    <2>5. n + 1 \in Nat
        OBVIOUS
    <2> QED BY <2>4, <2>5
<1> HIDE DEF T
<1>3. \A n \in 0..N : n \in T
    BY <1>1, <1>2, UpTo
<1>4. N \in T
    BY <1>3
<1> HIDE DEF IsAt
<1>5. \E f : IsAt(f, key, data, index, N)
    BY <1>4 DEF T
<1> QED BY <1>5, Zenon DEF At

\* What a value is made of is a value.
LEMMA FieldIsValue ==
    ASSUME NEW value \in Values, NEW name
    PROVE  Field(value, name) \in Values
BY TransformationAssumption DEF TransformationAssumption, Field

LEMMA DescendIsValue ==
    ASSUME NEW at \in [value : Values, index : Seq(Nat)], NEW segment
    PROVE  Descend(at, segment) \in [value : Values, index : Seq(Nat)]
<1>1. CASE at.value.k = "arr"
    <2>1. at.value.e \in Seq(Values)
        BY <1>1, TransformationAssumption DEF TransformationAssumption
    <2>2. Undefined \in Values
        BY TransformationAssumption DEF TransformationAssumption
    <2>3. CASE at.index = <<>>
        BY <1>1, <2>2, <2>3 DEF Descend
    <2>4. CASE at.index # <<>>
        <3>1. Head(at.index) \in Nat /\ Tail(at.index) \in Seq(Nat)
            BY <2>4
        <3>2. Head(at.index) < Len(at.value.e) => at.value.e[Head(at.index) + 1] \in Values
            BY <2>1, <3>1
        <3> QED BY <1>1, <2>2, <2>4, <3>1, <3>2 DEF Descend
    <2> QED BY <2>3, <2>4
<1>2. CASE at.value.k # "arr"
    <2>1. Descend(at, segment) = [at EXCEPT !.value = Field(at.value, segment)]
        BY <1>2 DEF Descend
    <2> QED BY <2>1, FieldIsValue
<1> QED BY <1>1, <1>2

LEMMA AtIsValue ==
    ASSUME NEW key, NEW data \in Values, NEW index \in Seq(Nat), NEW N \in Nat
    PROVE  At(key, data, index, N)[N] \in [value : Values, index : Seq(Nat)]
<1> DEFINE at == At(key, data, index, N)
<1>1. ASSUME NEW i \in 0..N
      PROVE  at[i] = IF i = 0 THEN [value |-> data, index |-> index]
                     ELSE Descend(at[i - 1], key[i])
    <2>1. IsAt(at, key, data, index, N)
        BY AtIs
    <2> HIDE DEF at
    <2> QED BY <2>1, Zenon DEF IsAt
<1> HIDE DEF at
<1> DEFINE T == {n \in Nat : n \in 0..N => at[n] \in [value : Values, index : Seq(Nat)]}
<1>2. 0 \in T
    BY <1>1
<1>3. ASSUME NEW n \in 0..(N - 1), n \in T
      PROVE  n + 1 \in T
    <2>1. n + 1 \in 0..N /\ n \in 0..N /\ n + 1 - 1 = n /\ n + 1 # 0
        OBVIOUS
    <2>2. at[n + 1] = Descend(at[n], key[n + 1])
        BY <1>1, <2>1
    <2>3. at[n] \in [value : Values, index : Seq(Nat)]
        BY <1>3, <2>1
    <2>4. at[n + 1] \in [value : Values, index : Seq(Nat)]
        BY <2>2, <2>3, DescendIsValue
    <2> QED BY <2>1, <2>4
<1> HIDE DEF T
<1>4. \A n \in 0..N : n \in T
    BY <1>2, <1>3, UpTo
<1>5. N \in 0..N /\ N \in T
    BY <1>4
<1> QED BY <1>5 DEF T, at

\* A key leads to a value of the payload, or to the undefined value.
LEMMA NestedIsValue ==
    ASSUME NEW key, NEW S, key \in Seq(S), NEW data \in Values, NEW index \in Seq(Nat)
    PROVE  GetNestedValue(key, data, index) \in Values
<1>1. CASE key = <<>>
    BY <1>1, TransformationAssumption DEF TransformationAssumption, GetNestedValue
<1>2. CASE key # <<>>
    <2>1. PICK N \in Nat : N = Len(key) - 1
        BY <1>2
    <2>2. GetNestedValue(key, data, index)
              = Field(At(key, data, index, N)[N].value, Last(key))
        BY <1>2, <2>1 DEF GetNestedValue, At, IsAt
    <2>3. At(key, data, index, N)[N] \in [value : Values, index : Seq(Nat)]
        BY AtIsValue
    <2>4. At(key, data, index, N)[N].value \in Values
        BY <2>3
    <2> QED BY <2>2, <2>4, FieldIsValue
<1> QED BY <1>1, <1>2

-----------------------------------------------------------------------------
(* The arrays on the way to an element *)

LEMMA MarkersFinite ==
    ASSUME NEW key, NEW S, key \in Seq(S)
    PROVE  Markers(key) \in SUBSET Nat /\ IsFiniteSet(Markers(key))
<1>1. Len(key) \in Nat
    OBVIOUS
<1>2. IsFiniteSet(1..Len(key))
    BY <1>1, FS_Interval
<1>3. Markers(key) \subseteq 1..Len(key)
    BY DEF Markers
<1> QED BY <1>1, <1>2, <1>3, FS_Subset

\* In a finite set of numbers, for each n below its size some member has
\* exactly n members below it.
LEMMA NthMember ==
    ASSUME NEW M \in SUBSET Nat, IsFiniteSet(M), NEW N \in Nat, N < Cardinality(M)
    PROVE  \E i \in M : Cardinality({j \in M : j < i}) = N
<1> DEFINE Below(i) == {j \in M : j < i}
           T == {n \in Nat : \E i \in M : Cardinality(Below(i)) = n}
<1>1. Cardinality(M) \in Nat
    BY FS_CardinalityType
<1>2. 0 \in T
    <2>1. M # {}
        BY <1>1, FS_EmptySet
    <2>2. PICK i \in M : \A j \in M : i <= j
        BY <2>1, LeastNumber
    <2>3. Below(i) = {}
        <3> SUFFICES ASSUME NEW j \in Below(i)
                     PROVE  FALSE
            OBVIOUS
        <3>1. i \in Nat /\ j \in Nat /\ i <= j /\ j < i
            BY <2>2
        <3> QED BY <3>1
    <2>4. Cardinality(Below(i)) = 0
        BY <2>3, FS_EmptySet
    <2> QED BY <2>4
<1>3. ASSUME NEW n \in 0..(N - 1), n \in T
      PROVE  n + 1 \in T
    <2>1. PICK i \in M : Cardinality(Below(i)) = n
        BY <1>3
    <2>2. IsFiniteSet(Below(i)) /\ i \notin Below(i)
        <3>1. Below(i) \subseteq M /\ i \notin Below(i)
            OBVIOUS
        <3> QED BY <3>1, FS_Subset
    <2>3. IsFiniteSet(Below(i) \union {i}) /\ Cardinality(Below(i) \union {i}) = n + 1
        BY <2>1, <2>2, FS_AddElement
    <2> DEFINE Above == {j \in M : j > i}
    <2>4. Above # {}
        <3> SUFFICES ASSUME Above = {}
                     PROVE  FALSE
            OBVIOUS
        <3>1. ASSUME NEW j \in M
              PROVE  j \in Below(i) \union {i}
            <4>1. i \in Nat /\ j \in Nat /\ ~(j > i)
                OBVIOUS
            <4> QED BY <4>1
        <3>2. M = Below(i) \union {i}
            BY <3>1
        <3> QED BY <2>3, <3>2, <1>1
    <2>5. PICK m \in Above : \A j \in Above : m <= j
        BY <2>4, LeastNumber
    <2>6. Below(m) = Below(i) \union {i}
        <3>1. m \in Nat /\ i \in Nat /\ i < m
            OBVIOUS
        <3>2. ASSUME NEW j \in M
              PROVE  j < m <=> j < i \/ j = i
            <4>1. j \in Nat /\ (j > i => m <= j)
                BY <2>5
            <4> QED BY <3>1, <4>1
        <3> QED BY <3>2
    <2> QED BY <2>3, <2>5, <2>6
<1> HIDE DEF T
<1>4. \A n \in 0..N : n \in T
    BY <1>2, <1>3, UpTo
<1>5. N \in T
    BY <1>4
<1> QED BY <1>5 DEF T

LEMMA DepthIsNat ==
    ASSUME NEW t, t.rootArray \in Seq(STRING)
    PROVE  Depth(t) \in Nat
BY MarkersFinite, FS_CardinalityType DEF Depth

LEMMA ArrayKeyIsSeq ==
    ASSUME NEW t, t.rootArray \in Seq(STRING), NEW n \in Nat, n < Depth(t)
    PROVE  ArrayKey(t, n) \in Seq(STRING)
<1> DEFINE key == t.rootArray
           M == Markers(key)
           Nth(i) == Cardinality({j \in M : j < i}) = n
<1>1. M \in SUBSET Nat /\ IsFiniteSet(M) /\ Cardinality(M) \in Nat
    BY MarkersFinite, FS_CardinalityType
<1>2. key # <<>> /\ n <= Cardinality(M)
    BY <1>1 DEF Depth
<1>3. CASE n = Cardinality(M)
    BY <1>3 DEF ArrayKey
<1>4. CASE n < Cardinality(M)
    <2> DEFINE i == CHOOSE i \in M : Nth(i)
    <2>1. \E j \in M : Nth(j)
        BY <1>1, <1>4, NthMember
    <2>2. i \in M
        BY <2>1, Zenon
    <2>3. ArrayKey(t, n) = SubSeq(key, 1, i - 1)
        <3>1. n # Cardinality(M)
            BY <1>1, <1>4
        <3> QED BY <3>1, Zenon DEF ArrayKey
    <2> HIDE DEF i
    <2>4. i \in 1..Len(key)
        BY <2>2 DEF Markers
    <2>5. SubSeq(key, 1, i - 1) \in Seq(STRING)
        BY <2>4
    <2> QED BY <2>3, <2>5
<1> QED BY <1>1, <1>2, <1>3, <1>4

-----------------------------------------------------------------------------
(* The keys *)

Kinds == {"metatype", "relationship", "metadata"}

Strict(t) == t.onExtraction = "fail on required" /\ t.onConversion = "fail on required"

\* What RequiredPresent asks of a needed key.
Right(k, props) ==
    /\ k.name \in DOMAIN props[k.of]
    /\ props[k.of][k.name].k \notin {"undefined", "null"}
    /\ k.type = "number" => props[k.of][k.name].k = "num"

\* A value that is converted or kept is there and, for a number, is one.
LEMMA ConvertedIsRight ==
    ASSUME NEW type, NEW value, ConvertValue(type, value).res # "error"
    PROVE  /\ ConvertValue(type, value).value.k \notin {"undefined", "null"}
           /\ type = "number" => ConvertValue(type, value).value.k = "num"
<1>1. value.k \notin {"undefined", "null"}
    BY DEF ConvertValue
<1>2. CASE type = "number"
    BY <1>1, <1>2 DEF ConvertValue, Num
<1>3. CASE type = "string"
    <2>1. AsText(value).k \notin {"undefined", "null"}
        BY <1>1 DEF AsText, Text
    <2> QED BY <1>1, <1>3, <2>1 DEF ConvertValue
<1>4. CASE type = "boolean"
    BY <1>1, <1>4 DEF ConvertValue, Bool
<1>5. CASE type = "list"
    BY <1>1, <1>5 DEF ConvertValue, Arr
<1>6. CASE type \notin {"number", "string", "boolean", "list"}
    BY <1>1, <1>6 DEF ConvertValue
<1> QED BY <1>2, <1>3, <1>4, <1>5, <1>6

\* What has been mapped so far: a record, with one function for each kind.
Shaped(acc) ==
    /\ acc = [props |-> acc.props, failed |-> acc.failed, aborted |-> acc.aborted]
    /\ acc.props = [o \in Kinds |-> acc.props[o]]
    /\ acc.aborted \in BOOLEAN

Put(acc, o, x, v) == [acc EXCEPT !.props[o] = With(@, x, v)]

\* Setting a property sets it and leaves the others alone.
LEMMA PutSets ==
    ASSUME NEW acc, Shaped(acc), NEW o \in Kinds, NEW x, NEW v
    PROVE  /\ Shaped(Put(acc, o, x, v))
           /\ Put(acc, o, x, v).aborted = acc.aborted
           /\ x \in DOMAIN Put(acc, o, x, v).props[o]
           /\ Put(acc, o, x, v).props[o][x] = v
<1> DEFINE q == With(acc.props[o], x, v)
           r == Put(acc, o, x, v)
<1>1. x \in DOMAIN q /\ q[x] = v
    BY DEF With
<1> HIDE DEF q
<1>2. r = [props |-> [acc.props EXCEPT ![o] = q], failed |-> acc.failed, aborted |-> acc.aborted]
    BY DEF Shaped, Put, q
<1>3. r.props[o] = q
    BY <1>2 DEF Shaped
<1>4. Shaped(r)
    BY <1>2 DEF Shaped
<1> QED BY <1>1, <1>2, <1>3, <1>4

LEMMA PutKeeps ==
    ASSUME NEW acc, Shaped(acc), NEW o \in Kinds, NEW x, NEW v,
           NEW k, k.of \in Kinds, k.of # o \/ k.name # x, Right(k, acc.props)
    PROVE  Right(k, Put(acc, o, x, v).props)
<1> DEFINE old == acc.props[o]
           q == With(old, x, v)
           r == Put(acc, o, x, v)
<1>1. \A y \in DOMAIN old : y # x => y \in DOMAIN q /\ q[y] = old[y]
    BY DEF With
<1> HIDE DEF q
<1>2. r.props = [acc.props EXCEPT ![o] = q]
    BY DEF Shaped, Put, q
<1>3. CASE k.of # o
    <2>1. r.props[k.of] = acc.props[k.of]
        BY <1>2, <1>3 DEF Shaped
    <2> QED BY <2>1 DEF Right
<1>4. CASE k.of = o /\ k.name # x
    <2>1. r.props[o] = q
        BY <1>2 DEF Shaped
    <2>2. k.name \in DOMAIN q /\ q[k.name] = old[k.name]
        BY <1>1, <1>4 DEF Right
    <2> QED BY <1>4, <2>1, <2>2 DEF Right
<1> QED BY <1>3, <1>4

Must(k) == k.known /\ k.required /\ (k.of = "relationship" => k.key # <<>>)

Noted(acc, k) == [acc EXCEPT !.failed = @ \union {k.name}]

\* What a step over a property's key comes to, with both actions at
\* "fail on required".
LEMMA OutcomeOfProperty ==
    ASSUME NEW t, Strict(t), NEW k, NEW data, NEW index, NEW acc
    PROVE  LET r == MapProperty(t, k, data, index, acc)
               static == Put(acc, k.of, k.name, k.value)
           IN  \/ r = Abort(acc)
               \/ r = acc /\ ~Must(k)
               \/ r = static /\ ~Must(k)
               \/ r = Noted(static, k) /\ ~Must(k)
               \/ \E value : /\ ConvertValue(k.type, value).res # "error"
                             /\ r = Put(static, k.of, k.name, ConvertValue(k.type, value).value)
<1> DEFINE r == MapProperty(t, k, data, index, acc)
           static == Put(acc, k.of, k.name, k.value)
           value == IF k.key = <<>> THEN k.value ELSE GetNestedValue(k.key, data, index)
           missing == k.key # <<>> /\ value = Undefined
           conversion == ConvertValue(k.type, value)
           extraction == ErrorAction(t.onExtraction, k.required)
           afterwards == ErrorAction(t.onConversion, k.required)
<1>1. /\ k.required => extraction = "abort" /\ afterwards = "abort"
      /\ ~k.required => extraction = "skip" /\ afterwards = "skip"
    BY DEF Strict, ErrorAction
<1>2. CASE ~k.known
    <2>1. r = Abort(acc) \/ r = acc
        BY <1>2 DEF MapProperty
    <2> QED BY <1>2, <2>1 DEF Must
<1>3. CASE k.known /\ k.of = "relationship" /\ k.key = <<>>
    <2>1. r = static
        BY <1>3, Zenon DEF MapProperty, Put
    <2> QED BY <1>3, <2>1 DEF Must
<1>4. CASE k.known /\ ~(k.of = "relationship" /\ k.key = <<>>)
    <2>1. r = CASE missing /\ extraction = "abort" -> Abort(acc)
                [] missing /\ extraction = "skip" -> static
                [] OTHER -> IF conversion.res # "error"
                            THEN Put(static, k.of, k.name, conversion.value)
                            ELSE IF afterwards = "abort" THEN Abort(acc) ELSE Noted(static, k)
        BY <1>4 DEF MapProperty, Put, Noted
    <2> HIDE DEF missing, conversion, extraction, afterwards
    <2>2. CASE missing
        <3>1. CASE k.required
            BY <1>1, <2>1, <2>2, <3>1
        <3>2. CASE ~k.required
            BY <1>1, <2>1, <2>2, <3>2 DEF Must
        <3> QED BY <3>1, <3>2
    <2>3. CASE ~missing /\ conversion.res = "error"
        <3>1. CASE k.required
            BY <1>1, <2>1, <2>3, <3>1
        <3>2. CASE ~k.required
            BY <1>1, <2>1, <2>3, <3>2 DEF Must
        <3> QED BY <3>1, <3>2
    <2>4. CASE ~missing /\ conversion.res # "error"
        <3>1. r = Put(static, k.of, k.name, conversion.value)
            BY <2>1, <2>4
        <3> QED BY <2>4, <3>1 DEF conversion
    <2> QED BY <2>2, <2>3, <2>4
<1> QED BY <1>2, <1>3, <1>4

\* Unless the transformation is aborted, the first i keys have right values.
Covers(t, i, acc) ==
    /\ Shaped(acc)
    /\ \/ acc.aborted = TRUE
       \/ \A j \in 1..i : t.keys[j] \in Needed(t) => Right(t.keys[j], acc.props)

\* A transformation of a mapping, whose keys set different properties.
WellKeyed(t) ==
    /\ t.keys \in Seq(ToSet(t.keys))
    /\ \A k \in ToSet(t.keys) : k.of \in Kinds
    /\ \A i, j \in DOMAIN t.keys :
          /\ t.keys[i].of # "metadata" /\ t.keys[j].of = t.keys[i].of
          /\ t.keys[j].name = t.keys[i].name
          => i = j

LEMMA AbortCovers ==
    ASSUME NEW t, NEW i, NEW acc, Shaped(acc)
    PROVE  Covers(t, i, Abort(acc))
<1>1. PICK p, f, b : acc = [props |-> p, failed |-> f, aborted |-> b]
    BY Zenon DEF Shaped
<1>2. p = [o \in Kinds |-> p[o]]
    BY <1>1 DEF Shaped
<1>3. PICK c : c = TRUE
    OBVIOUS
<1>4. Abort(acc) = [acc EXCEPT !.aborted = c]
    BY <1>3, Zenon DEF Abort
<1>5. PICK r : r = [props |-> p, failed |-> f, aborted |-> c]
    OBVIOUS
<1>6. Abort(acc) = r
    BY <1>1, <1>4, <1>5
<1>7. r.props = p /\ r.failed = f /\ r.aborted = c
    BY <1>5
<1>8. r = [props |-> r.props, failed |-> r.failed, aborted |-> r.aborted]
    BY <1>5, <1>7
<1>9. r.props = [o \in Kinds |-> r.props[o]]
    BY <1>2, <1>7
<1>10. Shaped(r)
    BY <1>3, <1>7, <1>8, <1>9 DEF Shaped
<1> QED BY <1>3, <1>6, <1>7, <1>10 DEF Covers

\* Setting the property of the next key keeps what the earlier keys set.
LEMMA EarlierKept ==
    ASSUME NEW t, WellKeyed(t), NEW i \in 0..(Len(t.keys) - 1), NEW acc, Shaped(acc),
           \A j \in 1..i : t.keys[j] \in Needed(t) => Right(t.keys[j], acc.props),
           NEW k, k = t.keys[i + 1], NEW o \in Kinds, NEW x, NEW v,
           o = "metadata" \/ (o = k.of /\ x = k.name)
    PROVE  /\ Shaped(Put(acc, o, x, v))
           /\ \A j \in 1..i :
                 t.keys[j] \in Needed(t) => Right(t.keys[j], Put(acc, o, x, v).props)
<1>1. Shaped(Put(acc, o, x, v))
    BY PutSets
<1>2. ASSUME NEW j \in 1..i, t.keys[j] \in Needed(t)
      PROVE  Right(t.keys[j], Put(acc, o, x, v).props)
    <2>1. /\ j \in DOMAIN t.keys /\ i + 1 \in DOMAIN t.keys /\ j # i + 1
          /\ t.keys[j] \in ToSet(t.keys)
        BY DEF WellKeyed, ToSet
    <2>2. t.keys[j].of \in Kinds /\ t.keys[j].of # "metadata"
        BY <1>2, <2>1 DEF WellKeyed, Needed
    <2>3. t.keys[j].of # o \/ t.keys[j].name # x
        BY <2>1, <2>2 DEF WellKeyed
    <2>4. Right(t.keys[j], acc.props)
        BY <1>2
    <2> QED BY <2>2, <2>3, <2>4, PutKeeps
<1> QED BY <1>1, <1>2

LEMMA KeyCovers ==
    ASSUME NEW t, Strict(t), WellKeyed(t), NEW data, NEW index,
           NEW i \in 0..(Len(t.keys) - 1), NEW acc, Covers(t, i, acc)
    PROVE  Covers(t, i + 1, MapKey(t, t.keys[i + 1], data, index, acc))
<1>1. PICK k : k = t.keys[i + 1]
    OBVIOUS
<1>2. k.of \in Kinds
    BY <1>1 DEF WellKeyed, ToSet
<1> DEFINE r == MapKey(t, k, data, index, acc)
<1> SUFFICES Covers(t, i + 1, r)
    BY <1>1
<1>3. 1..(i + 1) = 1..i \union {i + 1}
    OBVIOUS
<1>4. Shaped(acc)
    BY DEF Covers
<1>5. CASE acc.aborted = TRUE
    BY <1>4, <1>5 DEF Covers, MapKey
<1>6. CASE acc.aborted = FALSE
    <2>1. \A j \in 1..i : t.keys[j] \in Needed(t) => Right(t.keys[j], acc.props)
        BY <1>6 DEF Covers
    <2>2. CASE k.of = "metadata"
        <3>1. k \notin Needed(t)
            BY <2>2 DEF Needed
        <3>2. r = MapMetadata(t, k, data, index, acc)
            BY <1>6, <2>2 DEF MapKey
        <3>3. \/ r = Abort(acc)
              \/ r = acc
              \/ \E v : r = Put(acc, "metadata", k.key, v)
            BY <3>2 DEF MapMetadata, Put
        <3>4. CASE r = Abort(acc)
            BY <1>4, <3>4, AbortCovers
        <3>5. CASE r = acc
            BY <1>1, <1>3, <1>4, <2>1, <3>1, <3>5 DEF Covers
        <3>6. ASSUME NEW v, r = Put(acc, "metadata", k.key, v)
              PROVE  Covers(t, i + 1, r)
            <4>1. "metadata" \in Kinds
                BY DEF Kinds
            <4>2. /\ Shaped(r)
                  /\ \A j \in 1..i : t.keys[j] \in Needed(t) => Right(t.keys[j], r.props)
                BY <1>1, <1>4, <2>1, <3>6, <4>1, EarlierKept
            <4> QED BY <1>1, <1>3, <3>1, <4>2 DEF Covers
        <3> QED BY <3>3, <3>4, <3>5, <3>6
    <2>3. CASE k.of # "metadata"
        <3> DEFINE static == Put(acc, k.of, k.name, k.value)
        <3>1. r = MapProperty(t, k, data, index, acc)
            BY <1>6, <2>3 DEF MapKey
        <3>2. k \in Needed(t) => Must(k)
            BY DEF Needed, Must
        <3>3. \/ r = Abort(acc)
              \/ r = acc /\ ~Must(k)
              \/ r = static /\ ~Must(k)
              \/ r = Noted(static, k) /\ ~Must(k)
              \/ \E value : /\ ConvertValue(k.type, value).res # "error"
                            /\ r = Put(static, k.of, k.name, ConvertValue(k.type, value).value)
            BY <3>1, OutcomeOfProperty
        <3>4. /\ Shaped(static)
              /\ \A j \in 1..i : t.keys[j] \in Needed(t) => Right(t.keys[j], static.props)
            BY <1>1, <1>2, <1>4, <2>1, EarlierKept
        <3> HIDE DEF static
        <3>5. CASE r = Abort(acc)
            BY <1>4, <3>5, AbortCovers
        <3>6. CASE r = acc /\ ~Must(k)
            BY <1>1, <1>3, <1>4, <2>1, <3>2, <3>6 DEF Covers
        <3>7. CASE r = static /\ ~Must(k)
            BY <1>1, <1>3, <3>2, <3>4, <3>7 DEF Covers
        <3>8. CASE r = Noted(static, k) /\ ~Must(k)
            <4>1. Shaped(r) /\ r.props = static.props
                BY <3>4, <3>8 DEF Noted, Shaped
            <4> QED BY <1>1, <1>3, <3>2, <3>4, <3>8, <4>1 DEF Covers
        <3>9. ASSUME NEW value, ConvertValue(k.type, value).res # "error",
                     r = Put(static, k.of, k.name, ConvertValue(k.type, value).value)
              PROVE  Covers(t, i + 1, r)
            <4>1. PICK v : v = ConvertValue(k.type, value).value
                OBVIOUS
            <4>2. v.k \notin {"undefined", "null"} /\ (k.type = "number" => v.k = "num")
                BY <3>9, <4>1, ConvertedIsRight
            <4>3. r = Put(static, k.of, k.name, v)
                BY <3>9, <4>1
            <4>4. /\ Shaped(r)
                  /\ \A j \in 1..i : t.keys[j] \in Needed(t) => Right(t.keys[j], r.props)
                BY <1>1, <1>2, <3>4, <4>3, EarlierKept
            <4>5. Right(k, r.props)
                <5>1. k.name \in DOMAIN r.props[k.of] /\ r.props[k.of][k.name] = v
                    BY <1>2, <3>4, <4>3, PutSets
                <5> QED BY <4>2, <5>1 DEF Right
            <4> QED BY <1>1, <1>3, <4>4, <4>5 DEF Covers
        <3> QED BY <3>3, <3>5, <3>6, <3>7, <3>8, <3>9
    <2> QED BY <2>2, <2>3
<1> QED BY <1>4, <1>5, <1>6 DEF Shaped

\* The function MappedKeys defines, for the first N keys.
IsAfter(after, t, data, index, N) ==
    after = [i \in 0..N |->
                IF i = 0 THEN NothingMapped ELSE MapKey(t, t.keys[i], data, index, after[i - 1])]

After(t, data, index, N) == CHOOSE after : IsAfter(after, t, data, index, N)

LEMMA AfterIs ==
    ASSUME NEW t, NEW data, NEW index, NEW N \in Nat
    PROVE  IsAfter(After(t, data, index, N), t, data, index, N)
<1> DEFINE Is(f, n) == IsAfter(f, t, data, index, n)
           T == {n \in Nat : \E f : Is(f, n)}
<1> USE DEF IsAfter
<1>1. 0 \in T
    <2> DEFINE f == [j \in 0..0 |-> NothingMapped]
    <2>1. Is(f, 0)
        <3>1. ASSUME NEW j \in 0..0
              PROVE  f[j] = IF j = 0 THEN NothingMapped
                            ELSE MapKey(t, t.keys[j], data, index, f[j - 1])
            BY <3>1
        <3> QED BY <3>1
    <2> HIDE DEF f
    <2> QED BY <2>1
<1>2. ASSUME NEW n \in 0..(N - 1), n \in T
      PROVE  n + 1 \in T
    <2>1. PICK f : Is(f, n)
        BY <1>2
    <2> DEFINE g == [j \in 0..(n + 1) |->
                IF j = 0 THEN NothingMapped ELSE MapKey(t, t.keys[j], data, index, f[j - 1])]
    <2>2. ASSUME NEW j \in 0..n
          PROVE  g[j] = f[j]
        <3>1. f[j] = IF j = 0 THEN NothingMapped
                     ELSE MapKey(t, t.keys[j], data, index, f[j - 1])
            BY <2>1, Zenon
        <3>2. j \in 0..(n + 1)
            OBVIOUS
        <3> QED BY <3>1, <3>2, Zenon
    <2>3. ASSUME NEW j \in 0..(n + 1)
          PROVE  g[j] = IF j = 0 THEN NothingMapped
                        ELSE MapKey(t, t.keys[j], data, index, g[j - 1])
        <3>1. CASE j = 0
            BY <3>1
        <3>2. CASE j # 0
            <4>1. j - 1 \in 0..n
                BY <3>2
            <4>2. g[j - 1] = f[j - 1]
                BY <4>1, <2>2
            <4> QED BY <3>2, <4>2
        <3> QED BY <3>1, <3>2
    <2>4. Is(g, n + 1)
        BY <2>3
    <2> HIDE DEF g
    <2>5. n + 1 \in Nat
        OBVIOUS
    <2> QED BY <2>4, <2>5
<1> HIDE DEF T
<1>3. \A n \in 0..N : n \in T
    BY <1>1, <1>2, UpTo
<1>4. N \in T
    BY <1>3
<1> HIDE DEF IsAfter
<1>5. \E f : IsAfter(f, t, data, index, N)
    BY <1>4 DEF T
<1> QED BY <1>5, Zenon DEF After

LEMMA AfterCovers ==
    ASSUME NEW t, Strict(t), WellKeyed(t), NEW data, NEW index, NEW N \in Nat, N = Len(t.keys)
    PROVE  Covers(t, N, After(t, data, index, N)[N])
<1> DEFINE after == After(t, data, index, N)
<1>1. ASSUME NEW i \in 0..N
      PROVE  after[i] = IF i = 0 THEN NothingMapped
                        ELSE MapKey(t, t.keys[i], data, index, after[i - 1])
    <2>1. IsAfter(after, t, data, index, N)
        BY AfterIs
    <2> HIDE DEF after
    <2> QED BY <2>1, Zenon DEF IsAfter
<1> HIDE DEF after
<1> DEFINE T == {n \in Nat : n \in 0..N => Covers(t, n, after[n])}
<1>2. 0 \in T
    <2>1. after[0] = NothingMapped
        BY <1>1
    <2>2. Covers(t, 0, NothingMapped)
        BY DEF Covers, NothingMapped, Shaped, Kinds
    <2> QED BY <2>1, <2>2
<1>3. ASSUME NEW n \in 0..(N - 1), n \in T
      PROVE  n + 1 \in T
    <2>1. n + 1 \in 0..N /\ n \in 0..N /\ n + 1 - 1 = n /\ n + 1 # 0
        OBVIOUS
    <2>2. after[n + 1] = MapKey(t, t.keys[n + 1], data, index, after[n])
        BY <1>1, <2>1
    <2>3. Covers(t, n, after[n])
        BY <1>3, <2>1
    <2>4. Covers(t, n + 1, after[n + 1])
        BY <2>2, <2>3, KeyCovers
    <2> QED BY <2>1, <2>4
<1> HIDE DEF T
<1>4. \A n \in 0..N : n \in T
    BY <1>2, <1>3, UpTo
<1>5. N \in 0..N /\ N \in T
    BY <1>4
<1> QED BY <1>5 DEF T, after

\* Unless it is aborted, the loop over the keys leaves every needed key right.
LEMMA MappedKeysRight ==
    ASSUME NEW t, Strict(t), WellKeyed(t), NEW data, NEW index,
           ~MappedKeys(t, data, index).aborted, NEW k \in Needed(t)
    PROVE  Right(k, MappedKeys(t, data, index).props)
<1>1. PICK N \in Nat : N = Len(t.keys)
    BY DEF WellKeyed
<1>2. MappedKeys(t, data, index) = After(t, data, index, N)[N]
    BY <1>1 DEF MappedKeys, After, IsAfter
<1>3. Covers(t, N, MappedKeys(t, data, index))
    BY <1>1, <1>2, AfterCovers
<1>4. PICK j \in 1..N : k = t.keys[j]
    BY <1>1 DEF Needed, ToSet, WellKeyed
<1> QED BY <1>3, <1>4 DEF Covers

-----------------------------------------------------------------------------
(* transform *)

\* A transformation that fits the assumptions.
WellRooted(t) == t.rootArray \in Seq(STRING)

\* The calls with at most n arrays to go.
Upper(t, n) == {index \in Indexes(t) : Len(index) >= Depth(t) - n}

IsWalk(walk, t, data, n) ==
    walk = [index \in Upper(t, n) |-> TransformAt(t, data, index, walk)]

Walk(t, data, n) == CHOOSE walk : IsWalk(walk, t, data, n)

\* An array has finitely many elements.
LEMMA ArrayLength ==
    ASSUME NEW t, WellRooted(t), NEW data \in Values, NEW index \in Seq(Nat), Len(index) < Depth(t),
           GetNestedValue(ArrayKey(t, Len(index)), data, index).k = "arr"
    PROVE  Len(GetNestedValue(ArrayKey(t, Len(index)), data, index).e) \in Nat
<1> DEFINE array == GetNestedValue(ArrayKey(t, Len(index)), data, index)
<1>1. ArrayKey(t, Len(index)) \in Seq(STRING)
    BY ArrayKeyIsSeq DEF WellRooted
<1>2. array \in Values
    BY <1>1, NestedIsValue
<1> HIDE DEF array
<1>3. array.k = "arr"
    BY DEF array
<1>4. array.e \in Seq(Values)
    BY <1>2, <1>3, TransformationAssumption DEF TransformationAssumption
<1>5. Len(array.e) \in Nat
    BY <1>4
<1> QED BY <1>5 DEF array

\* One call depends on the calls with a longer index only.
LEMMA CallsDeeper ==
    ASSUME NEW t, WellRooted(t), NEW data \in Values, NEW index \in Seq(Nat), NEW f, NEW g,
           Len(index) <= Depth(t),
           \A i \in Nat : Len(index) < Depth(t) => f[Append(index, i)] = g[Append(index, i)]
    PROVE  TransformAt(t, data, index, f) = TransformAt(t, data, index, g)
<1> DEFINE array == GetNestedValue(ArrayKey(t, Len(index)), data, index)
<1>1. CASE Len(index) = Depth(t)
    BY <1>1 DEF TransformAt
<1>2. CASE Len(index) # Depth(t) /\ array.k # "arr"
    BY <1>2 DEF TransformAt
<1>3. CASE Len(index) # Depth(t) /\ array.k = "arr"
    <2>1. Len(index) < Depth(t)
        BY <1>3, DepthIsNat DEF WellRooted
    <2>2. Len(array.e) \in Nat
        BY <1>3, <2>1, ArrayLength
    <2> DEFINE N == Len(array.e)
    <2>3. \A i \in 1..N : f[Append(index, i - 1)] = g[Append(index, i - 1)]
        <3> HIDE DEF N
        <3> SUFFICES ASSUME NEW i \in 1..N
                     PROVE  f[Append(index, i - 1)] = g[Append(index, i - 1)]
            OBVIOUS
        <3>1. i - 1 \in Nat
            BY <2>2 DEF N
        <3> QED BY <2>1, <3>1
    <2>4. [i \in 1..N |-> f[Append(index, i - 1)]] = [i \in 1..N |-> g[Append(index, i - 1)]]
        BY <2>3
    <2>5. \A w : TransformAt(t, data, index, w)
                     = Collected([i \in 1..N |-> w[Append(index, i - 1)]])
        BY <1>3 DEF TransformAt
    <2> QED BY <2>4, <2>5
<1> QED BY <1>1, <1>2, <1>3

LEMMA WalkIs ==
    ASSUME NEW t, WellRooted(t), NEW data \in Values
    PROVE  IsWalk(Walk(t, data, Depth(t)), t, data, Depth(t))
<1>1. PICK N \in Nat : N = Depth(t)
    BY DepthIsNat DEF WellRooted
<1> DEFINE Is(f, n) == IsWalk(f, t, data, n)
           T == {n \in Nat : \E f : Is(f, n)}
<1>2. 0 \in T
    <2> DEFINE f == [index \in Upper(t, 0) |-> TransformAt(t, data, index, <<>>)]
    <2>1. ASSUME NEW index \in Upper(t, 0)
          PROVE  f[index] = TransformAt(t, data, index, f)
        <3>1. index \in Seq(Nat) /\ Len(index) = N
            BY <1>1 DEF Upper, Indexes
        <3> HIDE DEF f
        <3>2. TransformAt(t, data, index, <<>>) = TransformAt(t, data, index, f)
            BY <1>1, <3>1, CallsDeeper
        <3> QED BY <3>2 DEF f
    <2>2. f = [index \in Upper(t, 0) |-> TransformAt(t, data, index, f)]
        BY <2>1
    <2> HIDE DEF f
    <2>3. Is(f, 0)
        BY <2>2 DEF IsWalk
    <2> QED BY <2>3
<1>3. ASSUME NEW n \in 0..(N - 1), n \in T
      PROVE  n + 1 \in T
    <2>1. PICK f : Is(f, n)
        BY <1>3
    <2> DEFINE g == [index \in Upper(t, n + 1) |-> TransformAt(t, data, index, f)]
    <2>2. ASSUME NEW index \in Upper(t, n)
          PROVE  g[index] = f[index]
        <3>1. index \in Upper(t, n + 1)
            BY <1>1 DEF Upper, Indexes
        <3>2. f[index] = TransformAt(t, data, index, f)
            BY <2>1, Zenon DEF IsWalk
        <3> QED BY <3>1, <3>2
    <2>3. ASSUME NEW index \in Upper(t, n + 1)
          PROVE  g[index] = TransformAt(t, data, index, g)
        <3>1. index \in Seq(Nat) /\ Len(index) <= Depth(t) /\ Len(index) >= N - (n + 1)
            BY <1>1 DEF Upper, Indexes
        <3>2. ASSUME NEW i \in Nat, Len(index) < Depth(t)
              PROVE  f[Append(index, i)] = g[Append(index, i)]
            <4>1. Append(index, i) \in Upper(t, n)
                <5>1. Append(index, i) \in Seq(Nat) /\ Len(Append(index, i)) = Len(index) + 1
                    BY <3>1
                <5>2. Len(index) + 1 <= N /\ Len(index) + 1 >= N - n
                    BY <1>1, <3>1, <3>2
                <5> QED BY <1>1, <5>1, <5>2 DEF Upper, Indexes
            <4> QED BY <4>1, <2>2
        <3> HIDE DEF g
        <3>3. TransformAt(t, data, index, f) = TransformAt(t, data, index, g)
            BY <3>1, <3>2, CallsDeeper
        <3> QED BY <3>3 DEF g
    <2>4. g = [index \in Upper(t, n + 1) |-> TransformAt(t, data, index, g)]
        BY <2>3
    <2> HIDE DEF g
    <2>5. Is(g, n + 1)
        BY <2>4 DEF IsWalk
    <2>6. n + 1 \in Nat
        OBVIOUS
    <2> QED BY <2>5, <2>6
<1> HIDE DEF T
<1>4. \A n \in 0..N : n \in T
    BY <1>2, <1>3, UpTo
<1>5. N \in T
    BY <1>4
<1>6. \E f : IsWalk(f, t, data, Depth(t))
    BY <1>1, <1>5 DEF T
<1> QED BY <1>6, Zenon DEF Walk

\* All that a transformation can make of a payload.
Generated(t, data) ==
    {[type |-> t.type, index |-> index, props |-> MappedKeys(t, data, index).props,
      failed |-> MappedKeys(t, data, index).failed, ids |-> Identity(t, data, index)] :
        index \in {i \in Indexes(t) : ~MappedKeys(t, data, i).aborted}}

LEMMA ResultIsGenerated ==
    ASSUME NEW t, NEW data, NEW index \in Indexes(t)
    PROVE  GenerateResults(t, data, index).value \in Seq(Generated(t, data))
<1> DEFINE mapped == MappedKeys(t, data, index)
           item == [type |-> t.type, index |-> index, props |-> mapped.props,
                    failed |-> mapped.failed, ids |-> Identity(t, data, index)]
<1>1. CASE mapped.aborted
    <2>1. GenerateResults(t, data, index).value = <<>>
        BY <1>1 DEF GenerateResults, Failure
    <2> QED BY <2>1
<1>2. CASE ~mapped.aborted
    <2>1. GenerateResults(t, data, index).value = <<item>>
        BY <1>2 DEF GenerateResults, Success
    <2>2. item \in Generated(t, data)
        BY <1>2, Zenon DEF Generated
    <2> HIDE DEF item
    <2> QED BY <2>1, <2>2
<1> QED BY <1>1, <1>2

\* One call generates, if the calls with a longer index do.
LEMMA CallGenerates ==
    ASSUME NEW t, WellRooted(t), NEW data \in Values, NEW index \in Indexes(t), NEW walk,
           \A i \in Nat : Len(index) < Depth(t) =>
               walk[Append(index, i)].value \in Seq(Generated(t, data))
    PROVE  TransformAt(t, data, index, walk).value \in Seq(Generated(t, data))
<1> DEFINE array == GetNestedValue(ArrayKey(t, Len(index)), data, index)
<1>1. index \in Seq(Nat) /\ Len(index) \in Nat /\ Len(index) <= Depth(t) /\ Depth(t) \in Nat
    BY DepthIsNat DEF Indexes, WellRooted
<1>2. CASE Len(index) = Depth(t)
    <2>1. CASE Valid(t, data, index)
        <3>1. TransformAt(t, data, index, walk) = GenerateResults(t, data, index)
            BY <1>2, <2>1 DEF TransformAt
        <3> QED BY <3>1, ResultIsGenerated
    <2>2. CASE ~Valid(t, data, index)
        <3>1. TransformAt(t, data, index, walk).value = <<>>
            BY <1>2, <2>2 DEF TransformAt, Success
        <3> QED BY <3>1
    <2> QED BY <2>1, <2>2
<1>3. CASE Len(index) # Depth(t) /\ array.k # "arr"
    <2>1. TransformAt(t, data, index, walk).value = <<>>
        BY <1>3 DEF TransformAt, Failure
    <2> QED BY <2>1
<1>4. CASE Len(index) # Depth(t) /\ array.k = "arr"
    <2>1. Len(index) < Depth(t)
        BY <1>1, <1>4
    <2>2. PICK N \in Nat : N = Len(array.e)
        BY <1>1, <1>4, <2>1, ArrayLength
    <2> DEFINE nested == [i \in 1..N |-> walk[Append(index, i - 1)]]
               values == [i \in 1..N |-> walk[Append(index, i - 1)].value]
    <2>3. TransformAt(t, data, index, walk) = Collected(nested)
        BY <1>4, <2>2 DEF TransformAt
    <2>4. [i \in DOMAIN nested |-> nested[i].value] = values
        OBVIOUS
    <2>5. values \in Seq(Seq(Generated(t, data)))
        <3>1. ASSUME NEW i \in 1..N
              PROVE  walk[Append(index, i - 1)].value \in Seq(Generated(t, data))
            <4>1. i - 1 \in Nat
                OBVIOUS
            <4> QED BY <2>1, <4>1
        <3> QED BY <3>1
    <2> HIDE DEF nested, values
    <2>6. TransformAt(t, data, index, walk).value = FlattenSeq(values)
        BY <2>3, <2>4 DEF Collected, Success
    <2> QED BY <2>5, <2>6, FlattenMembers
<1> QED BY <1>2, <1>3, <1>4

\* transform is the call with no index; each call is made from the others.
LEMMA TransformIsWalk ==
    ASSUME NEW t, WellRooted(t), NEW data \in Values
    PROVE  /\ Transform(t, data) = Walk(t, data, Depth(t))[<<>>]
           /\ <<>> \in Indexes(t)
           /\ \A index \in Indexes(t) :
                 Walk(t, data, Depth(t))[index]
                     = TransformAt(t, data, index, Walk(t, data, Depth(t)))
<1>1. PICK N \in Nat : N = Depth(t)
    BY DepthIsNat DEF WellRooted
<1>2. PICK walk : walk = Walk(t, data, Depth(t))
    OBVIOUS
<1>3. IsWalk(walk, t, data, Depth(t))
    BY <1>2, WalkIs
<1>4. \A index \in Upper(t, Depth(t)) : walk[index] = TransformAt(t, data, index, walk)
    BY <1>3, Zenon DEF IsWalk
<1>5. Upper(t, Depth(t)) = Indexes(t)
    BY <1>1 DEF Upper, Indexes
<1>6. Transform(t, data) = walk[<<>>]
    BY <1>2, <1>5 DEF Transform, Walk, IsWalk
<1>7. <<>> \in Indexes(t)
    BY <1>1 DEF Indexes
<1> QED BY <1>2, <1>4, <1>5, <1>6, <1>7

LEMMA WalkGenerates ==
    ASSUME NEW t, WellRooted(t), NEW data \in Values, NEW index \in Indexes(t)
    PROVE  Walk(t, data, Depth(t))[index].value \in Seq(Generated(t, data))
<1>1. PICK N \in Nat : N = Depth(t)
    BY DepthIsNat DEF WellRooted
<1>2. PICK walk : walk = Walk(t, data, Depth(t))
    OBVIOUS
<1>3. \A i \in Indexes(t) : walk[i] = TransformAt(t, data, i, walk)
    BY <1>2, TransformIsWalk
<1> DEFINE T == {n \in Nat : n \in 0..N =>
                    \A i \in Upper(t, n) : walk[i].value \in Seq(Generated(t, data))}
<1>4. 0 \in T
    <2>1. ASSUME NEW i \in Upper(t, 0)
          PROVE  walk[i].value \in Seq(Generated(t, data))
        <3>1. i \in Indexes(t) /\ Len(i) = N
            BY <1>1 DEF Upper, Indexes
        <3>2. walk[i] = TransformAt(t, data, i, walk)
            BY <1>3, <3>1
        <3> QED BY <1>1, <3>1, <3>2, CallGenerates
    <2> QED BY <2>1
<1>5. ASSUME NEW n \in 0..(N - 1), n \in T
      PROVE  n + 1 \in T
    <2>1. n \in 0..N /\ n \in Nat
        OBVIOUS
    <2>2. \A i \in Upper(t, n) : walk[i].value \in Seq(Generated(t, data))
        BY <1>5, <2>1
    <2>3. ASSUME NEW i \in Upper(t, n + 1)
          PROVE  walk[i].value \in Seq(Generated(t, data))
        <3>1. i \in Indexes(t) /\ i \in Seq(Nat) /\ Len(i) >= N - (n + 1)
            BY <1>1 DEF Upper, Indexes
        <3>2. walk[i] = TransformAt(t, data, i, walk)
            BY <1>3, <3>1
        <3>3. ASSUME NEW k \in Nat, Len(i) < Depth(t)
              PROVE  walk[Append(i, k)].value \in Seq(Generated(t, data))
            <4>1. Append(i, k) \in Seq(Nat) /\ Len(Append(i, k)) = Len(i) + 1
                BY <3>1
            <4>2. Len(i) + 1 <= N /\ Len(i) + 1 >= N - n
                BY <1>1, <3>1, <3>3
            <4>3. Append(i, k) \in Upper(t, n)
                BY <1>1, <4>1, <4>2 DEF Upper, Indexes
            <4> QED BY <2>2, <4>3
        <3> QED BY <3>1, <3>2, <3>3, CallGenerates
    <2> QED BY <2>3
<1> HIDE DEF T
<1>6. \A n \in 0..N : n \in T
    BY <1>4, <1>5, UpTo
<1>7. N \in 0..N /\ N \in T /\ Upper(t, N) = Indexes(t)
    BY <1>1, <1>6 DEF Upper, Indexes
<1> QED BY <1>2, <1>7 DEF T

LEMMA TransformGenerates ==
    ASSUME NEW t, WellRooted(t), NEW data \in Values
    PROVE  Transform(t, data).value \in Seq(Generated(t, data))
BY TransformIsWalk, WalkGenerates

-----------------------------------------------------------------------------
(* What a key leads to *)

\* The function Reached defines, for the first N segments.
IsReach(reached, data, key, N) ==
    reached = [n \in 0..N |->
                  IF n = 0 THEN {[index |-> <<>>, of |-> data]}
                  ELSE Onward(reached[n - 1], key[n])]

Reach(data, key, N) == CHOOSE reached : IsReach(reached, data, key, N)

LEMMA ReachIs ==
    ASSUME NEW data, NEW key, NEW N \in Nat
    PROVE  IsReach(Reach(data, key, N), data, key, N)
<1> DEFINE Is(f, n) == IsReach(f, data, key, n)
           T == {n \in Nat : \E f : Is(f, n)}
<1> USE DEF IsReach
<1>1. 0 \in T
    <2> DEFINE f == [j \in 0..0 |-> {[index |-> <<>>, of |-> data]}]
    <2>1. Is(f, 0)
        <3>1. ASSUME NEW j \in 0..0
              PROVE  f[j] = IF j = 0 THEN {[index |-> <<>>, of |-> data]}
                            ELSE Onward(f[j - 1], key[j])
            BY <3>1
        <3> QED BY <3>1
    <2> HIDE DEF f
    <2> QED BY <2>1
<1>2. ASSUME NEW n \in 0..(N - 1), n \in T
      PROVE  n + 1 \in T
    <2>1. PICK f : Is(f, n)
        BY <1>2
    <2> DEFINE g == [j \in 0..(n + 1) |->
                   IF j = 0 THEN {[index |-> <<>>, of |-> data]}
                   ELSE Onward(f[j - 1], key[j])]
    <2>2. ASSUME NEW j \in 0..n
          PROVE  g[j] = f[j]
        <3>1. f[j] = IF j = 0 THEN {[index |-> <<>>, of |-> data]}
                     ELSE Onward(f[j - 1], key[j])
            BY <2>1, Zenon
        <3>2. j \in 0..(n + 1)
            OBVIOUS
        <3> QED BY <3>1, <3>2, Zenon
    <2>3. ASSUME NEW j \in 0..(n + 1)
          PROVE  g[j] = IF j = 0 THEN {[index |-> <<>>, of |-> data]}
                        ELSE Onward(g[j - 1], key[j])
        <3>1. CASE j = 0
            BY <3>1
        <3>2. CASE j # 0
            <4>1. j - 1 \in 0..n
                BY <3>2
            <4>2. g[j - 1] = f[j - 1]
                BY <4>1, <2>2
            <4> QED BY <3>2, <4>2
        <3> QED BY <3>1, <3>2
    <2>4. Is(g, n + 1)
        BY <2>3
    <2> HIDE DEF g
    <2>5. n + 1 \in Nat
        OBVIOUS
    <2> QED BY <2>4, <2>5
<1> HIDE DEF T
<1>3. \A n \in 0..N : n \in T
    BY <1>1, <1>2, UpTo
<1>4. N \in T
    BY <1>3
<1> HIDE DEF IsReach
<1>5. \E f : IsReach(f, data, key, N)
    BY <1>4 DEF T
<1> QED BY <1>5, Zenon DEF Reach

LEMMA ReachStarts ==
    ASSUME NEW data, NEW key, NEW N \in Nat
    PROVE  Reach(data, key, N)[0] = {[index |-> <<>>, of |-> data]}
<1>1. IsReach(Reach(data, key, N), data, key, N)
    BY ReachIs
<1> QED BY <1>1 DEF IsReach

LEMMA ReachGoesOn ==
    ASSUME NEW data, NEW key, NEW N \in Nat, NEW n \in 1..N
    PROVE  Reach(data, key, N)[n] = Onward(Reach(data, key, N)[n - 1], key[n])
<1> DEFINE reached == Reach(data, key, N)
<1>1. IsReach(reached, data, key, N)
    BY ReachIs
<1> HIDE DEF reached
<1>2. n \in 0..N /\ n # 0
    OBVIOUS
<1>3. reached[n] = IF n = 0 THEN {[index |-> <<>>, of |-> data]}
                   ELSE Onward(reached[n - 1], key[n])
    BY <1>1, <1>2, Zenon DEF IsReach
<1> QED BY <1>2, <1>3 DEF reached

\* A key leads to what the segments of any longer key lead to.
LEMMA ReachOfPrefix ==
    ASSUME NEW data, NEW key, NEW N \in Nat, NEW p \in 0..N, NEW short, NEW M \in Nat,
           M >= p, \A i \in 1..p : short[i] = key[i]
    PROVE  Reach(data, short, M)[p] = Reach(data, key, N)[p]
<1> DEFINE T == {n \in Nat : n \in 0..p => Reach(data, short, M)[n] = Reach(data, key, N)[n]}
<1>1. 0 \in T
    BY ReachStarts
<1>2. ASSUME NEW n \in 0..(p - 1), n \in T
      PROVE  n + 1 \in T
    <2>1. n + 1 \in 1..M /\ n + 1 \in 1..N /\ n + 1 - 1 = n /\ n + 1 \in 1..p /\ n \in 0..p
        OBVIOUS
    <2>2. Reach(data, short, M)[n] = Reach(data, key, N)[n] /\ short[n + 1] = key[n + 1]
        BY <1>2, <2>1
    <2>3. Reach(data, short, M)[n + 1] = Onward(Reach(data, short, M)[n + 1 - 1], short[n + 1])
        BY <2>1, ReachGoesOn
    <2>4. Reach(data, key, N)[n + 1] = Onward(Reach(data, key, N)[n + 1 - 1], key[n + 1])
        BY <2>1, ReachGoesOn
    <2>5. Reach(data, short, M)[n + 1] = Reach(data, key, N)[n + 1]
        BY <2>1, <2>2, <2>3, <2>4
    <2> QED BY <2>5
<1> HIDE DEF T
<1>3. \A n \in 0..p : n \in T
    BY <1>1, <1>2, UpTo
<1>4. p \in T /\ p \in 0..p
    BY <1>3
<1> QED BY <1>4 DEF T

LEMMA ReachedIsReach ==
    ASSUME NEW data, NEW key, NEW S, key \in Seq(S)
    PROVE  Reached(data, key) = Reach(data, key, Len(key))[Len(key)]
BY DEF Reached, Reach, IsReach

Place == [index : Seq(Nat), of : Values]

\* From values one gets to values.
LEMMA ThroughIsPlace ==
    ASSUME NEW e \in Place, NEW segment
    PROVE  Through(e, segment) \subseteq Place
<1>1. CASE segment = "[]" /\ e.of.k = "arr"
    <2>1. e.of.e \in Seq(Values) /\ e.index \in Seq(Nat)
        BY <1>1, TransformationAssumption DEF TransformationAssumption, Place
    <2>2. ASSUME NEW i \in 0..(Len(e.of.e) - 1)
          PROVE  [index |-> Append(e.index, i), of |-> e.of.e[i + 1]] \in Place
        <3>1. i \in Nat /\ e.of.e[i + 1] \in Values
            BY <2>1
        <3>2. Append(e.index, i) \in Seq(Nat)
            BY <2>1, <3>1
        <3> QED BY <3>1, <3>2 DEF Place
    <2> QED BY <1>1, <2>2 DEF Through, Spread
<1>2. CASE segment # "[]" /\ e.of.k # "arr"
    <2>1. Field(e.of, segment) \in Values /\ e.index \in Seq(Nat)
        BY FieldIsValue DEF Place
    <2>2. [index |-> e.index, of |-> Field(e.of, segment)] \in Place
        BY <2>1 DEF Place
    <2> QED BY <1>2, <2>2 DEF Through
<1> QED BY <1>1, <1>2 DEF Through, Spread

LEMMA ReachIsPlace ==
    ASSUME NEW data \in Values, NEW key, NEW N \in Nat, NEW n \in 0..N
    PROVE  Reach(data, key, N)[n] \subseteq Place
<1> DEFINE T == {j \in Nat : j \in 0..N => Reach(data, key, N)[j] \subseteq Place}
<1>1. 0 \in T
    <2>1. [index |-> <<>>, of |-> data] \in Place
        BY DEF Place
    <2> QED BY <2>1, ReachStarts
<1>2. ASSUME NEW j \in 0..(N - 1), j \in T
      PROVE  j + 1 \in T
    <2>1. j + 1 \in 1..N /\ j + 1 - 1 = j /\ j \in 0..N
        OBVIOUS
    <2>2. Reach(data, key, N)[j] \subseteq Place
        BY <1>2, <2>1
    <2>3. Reach(data, key, N)[j + 1] = Onward(Reach(data, key, N)[j + 1 - 1], key[j + 1])
        BY <2>1, ReachGoesOn
    <2>4. \A e \in Reach(data, key, N)[j] : Through(e, key[j + 1]) \subseteq Place
        BY <2>2, ThroughIsPlace
    <2>5. Reach(data, key, N)[j + 1] \subseteq Place
        BY <2>1, <2>3, <2>4 DEF Onward
    <2> QED BY <2>5
<1> HIDE DEF T
<1>3. \A j \in 0..N : j \in T
    BY <1>1, <1>2, UpTo
<1>4. n \in T
    BY <1>3
<1> QED BY <1>4 DEF T

-----------------------------------------------------------------------------
(* getNestedValue against it *)

\* A key that fits has a marker wherever it comes to an array.
LEMMA FitsIs ==
    ASSUME NEW data, NEW key \in Seq(STRING)
    PROVE  Fits(data, key)
               <=> /\ key # <<>> => key[Len(key)] # "[]"
                   /\ \A n \in 0..(Len(key) - 2) : \A e \in Reach(data, key, Len(key))[n] :
                         e.of.k = "arr" => key[n + 1] = "[]"
<1>1. PICK N \in Nat : N = Len(key)
    OBVIOUS
<1>2. ASSUME NEW n \in 0..(N - 2)
      PROVE  Reached(data, SubSeq(key, 1, n)) = Reach(data, key, N)[n]
    <2>1. PICK short : short = SubSeq(key, 1, n)
        OBVIOUS
    <2>2. n \in Nat /\ n \in 0..N /\ n >= n
        OBVIOUS
    <2>3. short \in Seq(STRING) /\ Len(short) = n /\ \A i \in 1..n : short[i] = key[i]
        BY <1>1, <2>1, <2>2
    <2>4. Reach(data, short, n)[n] = Reach(data, key, N)[n]
        BY <2>2, <2>3, ReachOfPrefix
    <2>5. Reached(data, short) = Reach(data, short, n)[n]
        BY <2>3, ReachedIsReach
    <2> QED BY <2>1, <2>4, <2>5
<1> QED BY <1>1, <1>2 DEF Fits

LEMMA SameSeq ==
    ASSUME NEW S, NEW a \in Seq(S), NEW b \in Seq(S), Len(a) = Len(b),
           \A i \in 1..Len(a) : a[i] = b[i]
    PROVE  a = b
OBVIOUS

Leads(a, b) == Len(a) <= Len(b) /\ \A i \in 1..Len(a) : a[i] = b[i]

LEMMA PrefixLeads ==
    ASSUME NEW a \in Seq(Nat), NEW b \in Seq(Nat)
    PROVE  IsPrefix(a, b) <=> Leads(a, b)
<1>1. CASE Len(a) <= Len(b)
    <2>1. SubSeq(a, 1, Len(a)) = a
        OBVIOUS
    <2>2. /\ SubSeq(b, 1, Len(a)) \in Seq(Nat) /\ Len(SubSeq(b, 1, Len(a))) = Len(a)
          /\ \A i \in 1..Len(a) : SubSeq(b, 1, Len(a))[i] = b[i]
        BY <1>1
    <2>3. ASSUME \A i \in 1..Len(a) : a[i] = b[i]
          PROVE  a = SubSeq(b, 1, Len(a))
        BY <2>2, <2>3
    <2>4. ASSUME a = SubSeq(b, 1, Len(a)), NEW i \in 1..Len(a)
          PROVE  a[i] = b[i]
        BY <2>2, <2>4
    <2> QED BY <1>1, <2>1, <2>3, <2>4 DEF IsPrefix, Leads
<1>2. CASE ~(Len(a) <= Len(b))
    BY <1>2 DEF IsPrefix, Leads
<1> QED BY <1>1, <1>2

\* The code is at e, with the rest of the index in hand.
Agrees(e, at, index) ==
    /\ at.value = e.of
    /\ at.index \in Seq(Nat)
    /\ Len(e.index) + Len(at.index) = Len(index)
    /\ \A i \in 1..Len(at.index) : at.index[i] = index[Len(e.index) + i]

\* A field.
LEMMA FieldAgrees ==
    ASSUME NEW e \in Place, NEW segment, NEW at, NEW index \in Seq(Nat), Agrees(e, at, index),
           at \in [value : Values, index : Seq(Nat)], e.of.k # "arr", segment # "[]"
    PROVE  \A x \in Through(e, segment) : x.index = e.index /\ Agrees(x, Descend(at, segment), index)
<1>1. Through(e, segment) = {[index |-> e.index, of |-> Field(e.of, segment)]}
    BY DEF Through
<1>2. Descend(at, segment) = [at EXCEPT !.value = Field(at.value, segment)] /\ at.value = e.of
    BY DEF Descend, Agrees
<1>3. PICK v : v = Field(e.of, segment)
    OBVIOUS
<1>4. Descend(at, segment).value = v /\ Descend(at, segment).index = at.index
    BY <1>2, <1>3
<1>5. ASSUME NEW x \in Through(e, segment)
      PROVE  x.index = e.index /\ x.of = v
    BY <1>1, <1>3
<1> QED BY <1>4, <1>5 DEF Agrees

\* A marker, at an array that is long enough.
LEMMA SpreadAgrees ==
    ASSUME NEW e \in Place, NEW segment, NEW at, NEW index \in Seq(Nat), Agrees(e, at, index),
           at \in [value : Values, index : Seq(Nat)], e.of.k = "arr", Leads(e.index, index)
    PROVE  /\ \A x \in Spread(e) : Leads(x.index, index) => Agrees(x, Descend(at, segment), index)
           /\ (\A x \in Spread(e) : ~Leads(x.index, index)) => Descend(at, segment).value = Undefined
<1>1. e.index \in Seq(Nat) /\ e.of \in Values /\ at.value = e.of /\ at.index \in Seq(Nat)
    BY DEF Place, Agrees
<1>2. e.of.e \in Seq(Values)
    BY <1>1, TransformationAssumption DEF TransformationAssumption
<1>3. PICK L \in Nat : L = Len(e.index)
    BY <1>1
<1>4. PICK A \in Nat : A = Len(e.of.e)
    BY <1>2
<1>5. Len(index) \in Nat /\ Len(at.index) \in Nat /\ L + Len(at.index) = Len(index)
    BY <1>1, <1>3 DEF Agrees
<1>6. Spread(e) = {[index |-> Append(e.index, i), of |-> e.of.e[i + 1]] : i \in 0..(A - 1)}
    BY <1>4 DEF Spread
<1>7. ASSUME NEW i \in Nat
      PROVE  /\ Append(e.index, i) \in Seq(Nat) /\ Len(Append(e.index, i)) = L + 1
             /\ Append(e.index, i)[L + 1] = i
             /\ \A j \in 1..L : Append(e.index, i)[j] = index[j]
    <2>1. \A j \in 1..L : Append(e.index, i)[j] = e.index[j]
        BY <1>1, <1>3
    <2>2. \A j \in 1..L : e.index[j] = index[j]
        BY <1>3 DEF Leads
    <2> QED BY <1>1, <1>3, <2>1, <2>2
<1>8. CASE at.index = <<>> \/ ~(Head(at.index) < A)
    <2>1. Descend(at, segment).value = Undefined
        BY <1>1, <1>4, <1>8 DEF Descend
    <2>2. ASSUME NEW i \in 0..(A - 1), Leads(Append(e.index, i), index)
          PROVE  FALSE
        <3>0. i \in Nat /\ i < A
            OBVIOUS
        <3>1. L + 1 <= Len(index) /\ index[L + 1] = i
            <4>1. PICK y : y = Append(e.index, i)
                OBVIOUS
            <4>2. Len(y) = L + 1 /\ y[L + 1] = i /\ Leads(y, index)
                BY <1>7, <2>2, <3>0, <4>1
            <4> QED BY <4>2 DEF Leads
        <3>2. at.index # <<>> /\ Head(at.index) = at.index[1]
            BY <1>1, <1>5, <3>1
        <3>3. 1 \in 1..Len(at.index)
            BY <1>5, <3>1
        <3>4. at.index[1] = index[L + 1]
            BY <1>3, <3>3 DEF Agrees
        <3> QED BY <1>8, <3>0, <3>1, <3>2, <3>4
    <2>3. ASSUME NEW x \in Spread(e)
          PROVE  ~Leads(x.index, index)
        <3>1. PICK i \in 0..(A - 1) : x = [index |-> Append(e.index, i), of |-> e.of.e[i + 1]]
            BY <1>6
        <3>2. x.index = Append(e.index, i)
            BY <3>1
        <3> QED BY <2>2, <3>2
    <2> QED BY <2>1, <2>3
<1>9. CASE at.index # <<>> /\ Head(at.index) < A
    <2>1. PICK h \in Nat : h = Head(at.index)
        BY <1>1, <1>9
    <2>2. Descend(at, segment) = [value |-> e.of.e[h + 1], index |-> Tail(at.index)]
        BY <1>1, <1>4, <1>9, <2>1 DEF Descend
    <2>3. 1 \in 1..Len(at.index) /\ h = at.index[1] /\ h \in 0..(A - 1)
        BY <1>1, <1>9, <2>1
    <2>4. index[L + 1] = h
        BY <1>3, <2>3 DEF Agrees
    <2>5. PICK x : x = [index |-> Append(e.index, h), of |-> e.of.e[h + 1]]
        OBVIOUS
    <2>6. x.index = Append(e.index, h) /\ x.of = e.of.e[h + 1]
        BY <2>5
    <2>7. x \in Spread(e)
        BY <1>6, <2>3, <2>5
    <2>8. Len(x.index) = L + 1 /\ x.index[L + 1] = h /\ \A j \in 1..L : x.index[j] = index[j]
        BY <1>7, <2>6
    <2>9. Leads(x.index, index)
        <3>1. L + 1 <= Len(index)
            BY <1>5, <2>3
        <3>2. \A j \in 1..(L + 1) : x.index[j] = index[j]
            BY <2>4, <2>8
        <3> QED BY <2>8, <3>1, <3>2 DEF Leads
    <2>10. ASSUME NEW y \in Spread(e), Leads(y.index, index)
           PROVE  y = x
        <3>1. PICK i \in 0..(A - 1) : y = [index |-> Append(e.index, i), of |-> e.of.e[i + 1]]
            BY <1>6
        <3>2. i \in Nat /\ y.index = Append(e.index, i)
            BY <3>1
        <3>3. y.index[L + 1] = i /\ Len(y.index) = L + 1
            BY <1>7, <3>2
        <3>4. index[L + 1] = i
            BY <2>10, <3>3 DEF Leads
        <3>5. i = h
            BY <2>4, <3>4
        <3> QED BY <2>5, <3>1, <3>5
    <2>11. Agrees(x, Descend(at, segment), index)
        <3>1. PICK r : r = Tail(at.index)
            OBVIOUS
        <3>2. r \in Seq(Nat) /\ Len(r) = Len(at.index) - 1 /\ \A i \in 1..Len(r) : r[i] = at.index[i + 1]
            BY <1>1, <2>3, <3>1
        <3>3. \A i \in 1..Len(r) : r[i] = index[L + 1 + i]
            <4> SUFFICES ASSUME NEW i \in 1..Len(r)
                         PROVE  r[i] = index[L + 1 + i]
                OBVIOUS
            <4>1. i + 1 \in 1..Len(at.index) /\ L + (i + 1) = L + 1 + i
                BY <1>5, <3>2
            <4>2. at.index[i + 1] = index[L + (i + 1)]
                BY <1>3, <4>1 DEF Agrees
            <4> QED BY <3>2, <4>1, <4>2
        <3>4. Descend(at, segment).value = x.of /\ Descend(at, segment).index = r
            BY <2>2, <2>6, <3>1
        <3>5. L + 1 + Len(r) = Len(index)
            <4>1. PICK a \in Nat : a = Len(at.index)
                BY <1>5
            <4>2. PICK b \in Nat : b = Len(r)
                BY <3>2
            <4>3. b = a - 1 /\ L + a = Len(index)
                BY <1>5, <3>2, <4>1, <4>2
            <4>4. L + 1 + b = L + a
                BY <4>3
            <4> QED BY <4>2, <4>3, <4>4
        <3> QED BY <2>8, <3>2, <3>3, <3>4, <3>5 DEF Agrees
    <2> QED BY <2>7, <2>9, <2>10, <2>11
<1> QED BY <1>8, <1>9

\* Where a segment leads to begins where it came from.
LEMMA ThroughLeads ==
    ASSUME NEW e \in Place, NEW segment, NEW x \in Through(e, segment), NEW index,
           Leads(x.index, index)
    PROVE  Leads(e.index, index)
<1>1. e.index \in Seq(Nat) /\ Len(e.index) \in Nat
    BY DEF Place
<1>2. CASE segment = "[]"
    <2>1. e.of.k = "arr"
        BY <1>2 DEF Through, Spread
    <2>2. Len(e.of.e) \in Nat
        <3>1. e.of.e \in Seq(Values)
            BY <2>1, TransformationAssumption DEF TransformationAssumption, Place
        <3> QED BY <3>1
    <2>3. PICK i \in 0..(Len(e.of.e) - 1) : x = [index |-> Append(e.index, i), of |-> e.of.e[i + 1]]
        BY <1>2, <2>1 DEF Through, Spread
    <2>4. i \in Nat /\ x.index = Append(e.index, i)
        BY <2>2, <2>3
    <2>5. PICK y : y = x.index
        OBVIOUS
    <2>6. Len(y) = Len(e.index) + 1 /\ \A j \in 1..Len(e.index) : y[j] = e.index[j]
        BY <1>1, <2>4, <2>5
    <2>7. Leads(y, index)
        BY <2>5
    <2>8. Len(e.index) + 1 <= Len(index) /\ \A j \in 1..(Len(e.index) + 1) : y[j] = index[j]
        BY <2>6, <2>7 DEF Leads
    <2>9. Len(e.index) <= Len(index)
        <3>1. PICK m \in Nat : m = Len(e.index)
            BY <1>1
        <3>2. m + 1 <= Len(y)
            BY <2>6, <3>1
        <3> QED BY <2>8, <3>1
    <2>10. \A j \in 1..Len(e.index) : e.index[j] = index[j]
        BY <1>1, <2>6, <2>8
    <2> QED BY <2>9, <2>10 DEF Leads
<1>3. CASE segment # "[]"
    <2>1. x = [index |-> e.index, of |-> Field(e.of, segment)]
        BY <1>3 DEF Through
    <2>2. x.index = e.index
        BY <2>1
    <2> QED BY <2>2
<1> QED BY <1>2, <1>3

\* What the code holds after some segments agrees with the elements reached.
Tracks(from, at, index) ==
    /\ \A e \in from : Leads(e.index, index) => Agrees(e, at, index)
    /\ (\A e \in from : ~Leads(e.index, index)) => at.value = Undefined

LEMMA SegmentTracks ==
    ASSUME NoMarkerNames, NEW from \in SUBSET Place, NEW segment, NEW index \in Seq(Nat),
           NEW at \in [value : Values, index : Seq(Nat)], Tracks(from, at, index),
           \A e \in from : e.of.k = "arr" => segment = "[]"
    PROVE  Tracks(Onward(from, segment), Descend(at, segment), index)
<1>1. ASSUME NEW x \in Onward(from, segment), Leads(x.index, index)
      PROVE  Agrees(x, Descend(at, segment), index)
    <2>1. PICK e \in from : x \in Through(e, segment)
        BY DEF Onward
    <2>2. e \in Place /\ Leads(e.index, index)
        BY <1>1, <2>1, ThroughLeads
    <2>3. Agrees(e, at, index)
        BY <2>2 DEF Tracks
    <2>4. CASE segment = "[]"
        <3>1. e.of.k = "arr" /\ x \in Spread(e)
            BY <2>1, <2>4 DEF Through, Spread
        <3> QED BY <1>1, <2>2, <2>3, <3>1, SpreadAgrees
    <2>5. CASE segment # "[]"
        <3>1. e.of.k # "arr"
            BY <2>5
        <3> QED BY <2>1, <2>2, <2>3, <2>5, <3>1, FieldAgrees
    <2> QED BY <2>4, <2>5
<1>2. ASSUME \A x \in Onward(from, segment) : ~Leads(x.index, index)
      PROVE  Descend(at, segment).value = Undefined
    <2>1. CASE \A e \in from : ~Leads(e.index, index)
        <3>1. at.value = Undefined
            BY <2>1 DEF Tracks
        <3>2. Descend(at, segment) = [at EXCEPT !.value = Field(at.value, segment)]
            BY <3>1 DEF Descend, Undefined
        <3>3. Field(at.value, segment) = Undefined
            BY <3>1 DEF Field, Undefined
        <3> QED BY <3>2, <3>3
    <2>2. ASSUME NEW e \in from, Leads(e.index, index)
          PROVE  Descend(at, segment).value = Undefined
        <3>1. Agrees(e, at, index) /\ e \in Place
            BY <2>2 DEF Tracks
        <3>2. \A x \in Through(e, segment) : ~Leads(x.index, index)
            BY <1>2 DEF Onward
        <3>3. CASE e.of.k = "arr"
            <4>1. segment = "[]"
                BY <3>3
            <4>2. \A x \in Spread(e) : ~Leads(x.index, index)
                BY <3>2, <4>1 DEF Through
            <4> QED BY <2>2, <3>1, <3>3, <4>2, SpreadAgrees
        <3>4. CASE e.of.k # "arr" /\ segment # "[]"
            <4>1. PICK x : x = [index |-> e.index, of |-> Field(e.of, segment)]
                OBVIOUS
            <4>2. x \in Through(e, segment) /\ x.index = e.index
                BY <3>4, <4>1 DEF Through
            <4> QED BY <2>2, <3>2, <4>2
        <3>5. CASE e.of.k # "arr" /\ segment = "[]"
            <4>1. at.value = e.of /\ e.of \in Values
                BY <3>1 DEF Agrees, Place
            <4>2. Descend(at, segment) = [at EXCEPT !.value = Field(at.value, segment)]
                BY <3>5, <4>1 DEF Descend
            <4>3. Field(at.value, segment) = Undefined
                BY <3>5, <4>1 DEF Field, NoMarkerNames
            <4> QED BY <4>2, <4>3
        <3> QED BY <3>3, <3>4, <3>5
    <2> QED BY <2>1, <2>2
<1> QED BY <1>1, <1>2 DEF Tracks

LEMMA AtStarts ==
    ASSUME NEW key, NEW data, NEW index, NEW N \in Nat
    PROVE  At(key, data, index, N)[0] = [value |-> data, index |-> index]
<1>1. IsAt(At(key, data, index, N), key, data, index, N)
    BY AtIs
<1> QED BY <1>1 DEF IsAt

LEMMA AtGoesOn ==
    ASSUME NEW key, NEW data, NEW index, NEW N \in Nat, NEW n \in 1..N
    PROVE  At(key, data, index, N)[n] = Descend(At(key, data, index, N)[n - 1], key[n])
<1> DEFINE at == At(key, data, index, N)
<1>1. IsAt(at, key, data, index, N)
    BY AtIs
<1> HIDE DEF at
<1>2. n \in 0..N /\ n # 0
    OBVIOUS
<1>3. at[n] = IF n = 0 THEN [value |-> data, index |-> index] ELSE Descend(at[n - 1], key[n])
    BY <1>1, <1>2, Zenon DEF IsAt
<1> QED BY <1>2, <1>3 DEF at

LEMMA KeyTracks ==
    ASSUME NoMarkerNames, NEW data \in Values, NEW key \in Seq(STRING), NEW index \in Seq(Nat),
           Fits(data, key), NEW N \in Nat, Len(key) = N + 1
    PROVE  Tracks(Reach(data, key, N + 1)[N], At(key, data, index, N)[N], index)
<1> DEFINE from(n) == Reach(data, key, N + 1)[n]
           at(n) == At(key, data, index, N)[n]
<1>1. /\ from(0) = {[index |-> <<>>, of |-> data]}
      /\ at(0) = [value |-> data, index |-> index]
    <2>1. N + 1 \in Nat
        OBVIOUS
    <2> QED BY <2>1, ReachStarts, AtStarts
<1>2. ASSUME NEW n \in 0..(N - 1)
      PROVE  from(n + 1) = Onward(from(n), key[n + 1]) /\ at(n + 1) = Descend(at(n), key[n + 1])
    <2>1. N + 1 \in Nat /\ n + 1 \in 1..(N + 1) /\ n + 1 \in 1..N /\ n + 1 - 1 = n
        OBVIOUS
    <2>2. from(n + 1) = Onward(from(n + 1 - 1), key[n + 1])
        BY <2>1, ReachGoesOn
    <2>3. at(n + 1) = Descend(at(n + 1 - 1), key[n + 1])
        BY <2>1, AtGoesOn
    <2> QED BY <2>1, <2>2, <2>3
<1>3. ASSUME NEW n \in 0..N
      PROVE  from(n) \in SUBSET Place
    <2>1. N + 1 \in Nat /\ n \in 0..(N + 1)
        OBVIOUS
    <2> QED BY <2>1, ReachIsPlace
<1>4. \A n \in 0..(N - 1) : \A e \in from(n) : e.of.k = "arr" => key[n + 1] = "[]"
    <2>1. 0..(Len(key) - 2) = 0..(N - 1)
        OBVIOUS
    <2> QED BY <2>1, FitsIs
<1> HIDE DEF from, at
<1> DEFINE T == {n \in Nat : n \in 0..N => /\ at(n) \in [value : Values, index : Seq(Nat)]
                                          /\ Tracks(from(n), at(n), index)}
<1>5. 0 \in T
    <2>1. at(0) \in [value : Values, index : Seq(Nat)]
        BY <1>1
    <2>2. PICK e : e = [index |-> <<>>, of |-> data]
        OBVIOUS
    <2>3. from(0) = {e} /\ e.index = <<>> /\ e.of = data /\ at(0).value = data /\ at(0).index = index
        BY <1>1, <2>2
    <2>4. Leads(e.index, index)
        BY <2>3 DEF Leads
    <2>5. Agrees(e, at(0), index)
        BY <2>3 DEF Agrees
    <2>6. Tracks(from(0), at(0), index)
        BY <2>3, <2>4, <2>5 DEF Tracks
    <2> QED BY <2>1, <2>6
<1>6. ASSUME NEW n \in 0..(N - 1), n \in T
      PROVE  n + 1 \in T
    <2>1. n \in 0..N /\ n + 1 \in 1..N /\ n + 1 \in 1..(N + 1) /\ n + 1 - 1 = n
        OBVIOUS
    <2>2. at(n) \in [value : Values, index : Seq(Nat)] /\ Tracks(from(n), at(n), index)
        BY <1>6, <2>1
    <2>3. from(n + 1) = Onward(from(n), key[n + 1]) /\ at(n + 1) = Descend(at(n), key[n + 1])
        BY <1>2
    <2>4. at(n + 1) \in [value : Values, index : Seq(Nat)]
        BY <2>2, <2>3, DescendIsValue
    <2>5. Tracks(from(n + 1), at(n + 1), index)
        <3>1. \A e \in from(n) : e.of.k = "arr" => key[n + 1] = "[]"
            BY <1>4
        <3>2. from(n) \in SUBSET Place
            BY <1>3, <2>1
        <3>3. Tracks(Onward(from(n), key[n + 1]), Descend(at(n), key[n + 1]), index)
            BY <2>2, <3>1, <3>2, SegmentTracks
        <3> QED BY <2>3, <3>3
    <2> QED BY <2>4, <2>5
<1> HIDE DEF T
<1>7. \A n \in 0..N : n \in T
    BY <1>5, <1>6, UpTo
<1>8. N \in T /\ N \in 0..N
    BY <1>7
<1> QED BY <1>8 DEF T, from, at

\* What the code reads is what the key leads to on the way to index.
LEMMA NestedIsReached ==
    ASSUME NoMarkerNames, NEW data \in Values, NEW key \in Seq(STRING), key # <<>>,
           NEW index \in Seq(Nat), Fits(data, key)
    PROVE  /\ \A e \in Reached(data, key) :
                 Leads(e.index, index) => GetNestedValue(key, data, index) = e.of
           /\ (\A e \in Reached(data, key) : ~Leads(e.index, index)) =>
                 GetNestedValue(key, data, index) = Undefined
<1>1. PICK N \in Nat : N = Len(key) - 1
    OBVIOUS
<1>2. N + 1 = Len(key) /\ N + 1 \in Nat
    BY <1>1
<1> DEFINE from == Reach(data, key, N + 1)[N]
           at == At(key, data, index, N)[N]
           segment == key[N + 1]
<1>3. GetNestedValue(key, data, index) = Field(at.value, segment)
    <2>1. GetNestedValue(key, data, index) = Field(at.value, Last(key))
        BY <1>1 DEF GetNestedValue, At, IsAt
    <2>2. Last(key) = key[N + 1]
        BY <1>2 DEF Last
    <2> QED BY <2>1, <2>2
<1>4. Reached(data, key) = Onward(from, segment)
    <2>1. N + 1 \in 1..(N + 1) /\ N + 1 - 1 = N
        OBVIOUS
    <2>2. Reach(data, key, N + 1)[N + 1] = Onward(Reach(data, key, N + 1)[N + 1 - 1], key[N + 1])
        BY <1>2, <2>1, ReachGoesOn
    <2>3. Reached(data, key) = Reach(data, key, N + 1)[N + 1]
        BY <1>2, ReachedIsReach
    <2> QED BY <2>1, <2>2, <2>3
<1>5. Tracks(from, at, index)
    BY <1>2, KeyTracks
<1>6. from \subseteq Place
    <2>1. N \in 0..(N + 1)
        OBVIOUS
    <2> QED BY <1>2, <2>1, ReachIsPlace
<1>7. segment # "[]"
    BY <1>2 DEF Fits
<1> HIDE DEF from, at, segment
<1>8. ASSUME NEW x \in Onward(from, segment), Leads(x.index, index)
      PROVE  Field(at.value, segment) = x.of
    <2>1. PICK e \in from : x \in Through(e, segment)
        BY DEF Onward
    <2>2. e \in Place /\ Leads(e.index, index)
        BY <1>6, <1>8, <2>1, ThroughLeads
    <2>3. at.value = e.of
        BY <1>5, <2>2 DEF Tracks, Agrees
    <2>4. x = [index |-> e.index, of |-> Field(e.of, segment)]
        BY <1>7, <2>1 DEF Through
    <2> QED BY <2>3, <2>4
<1>9. ASSUME \A x \in Onward(from, segment) : ~Leads(x.index, index)
      PROVE  Field(at.value, segment) = Undefined
    <2>1. CASE \A e \in from : ~Leads(e.index, index)
        BY <1>5, <2>1 DEF Tracks, Field, Undefined
    <2>2. ASSUME NEW e \in from, Leads(e.index, index)
          PROVE  Field(at.value, segment) = Undefined
        <3>1. at.value = e.of
            BY <1>5, <2>2 DEF Tracks, Agrees
        <3>2. CASE e.of.k = "arr"
            BY <3>1, <3>2 DEF Field
        <3>3. CASE e.of.k # "arr"
            <4>1. PICK x : x = [index |-> e.index, of |-> Field(e.of, segment)]
                OBVIOUS
            <4>2. x \in Through(e, segment) /\ x.index = e.index
                BY <1>7, <3>3, <4>1 DEF Through
            <4>3. x \in Onward(from, segment)
                BY <4>2 DEF Onward
            <4> QED BY <1>9, <2>2, <4>2, <4>3
        <3> QED BY <3>2, <3>3
    <2> QED BY <2>1, <2>2
<1> QED BY <1>3, <1>4, <1>8, <1>9

\* getNestedValue reads the value of the reference.
LEMMA NestedIsValueAt ==
    ASSUME NoMarkerNames, NEW data \in Values, NEW key \in Seq(STRING), NEW index \in Seq(Nat),
           Fits(data, key)
    PROVE  GetNestedValue(key, data, index) = ValueAt(data, key, index)
<1>1. CASE key = <<>>
    BY <1>1 DEF GetNestedValue, ValueAt
<1>2. CASE key # <<>>
    <2> DEFINE own == {e \in Reached(data, key) : IsPrefix(e.index, index)}
    <2>1. ASSUME NEW e \in Reached(data, key)
          PROVE  IsPrefix(e.index, index) <=> Leads(e.index, index)
        <3>1. Len(key) \in Nat /\ Len(key) \in 0..Len(key)
            OBVIOUS
        <3>2. e \in Place
            BY <3>1, ReachIsPlace, ReachedIsReach
        <3>3. e.index \in Seq(Nat)
            BY <3>2 DEF Place
        <3> QED BY <3>3, PrefixLeads
    <2>2. \A e \in own : GetNestedValue(key, data, index) = e.of
        BY <1>2, <2>1, NestedIsReached
    <2>3. own = {} => GetNestedValue(key, data, index) = Undefined
        BY <1>2, <2>1, NestedIsReached
    <2>4. own # {} => (CHOOSE e \in own : TRUE) \in own
        OBVIOUS
    <2>5. ValueAt(data, key, index) = IF own = {} THEN Undefined ELSE (CHOOSE e \in own : TRUE).of
        BY <1>2 DEF ValueAt
    <2> HIDE DEF own
    <2> QED BY <2>2, <2>3, <2>4, <2>5
<1> QED BY <1>1, <1>2

-----------------------------------------------------------------------------
(* The arrays of a root array *)

\* How many members of M come up to j.
Passed(M, j) == Cardinality({m \in M : m <= j})

LEMMA PassedMore ==
    ASSUME NEW M \in SUBSET Nat, IsFiniteSet(M), NEW j \in Nat
    PROVE  /\ Passed(M, j) \in Nat
           /\ j + 1 \in M => Passed(M, j + 1) = Passed(M, j) + 1
           /\ j + 1 \notin M => Passed(M, j + 1) = Passed(M, j)
<1> DEFINE P == {m \in M : m <= j}
           Q == {m \in M : m <= j + 1}
<1>1. IsFiniteSet(P) /\ Cardinality(P) \in Nat
    <2>1. P \subseteq M
        OBVIOUS
    <2> QED BY <2>1, FS_Subset, FS_CardinalityType
<1>2. ASSUME NEW m \in M
      PROVE  m <= j + 1 <=> m <= j \/ m = j + 1
    <2>1. m \in Nat
        OBVIOUS
    <2> QED BY <2>1
<1>3. ASSUME j + 1 \in M
      PROVE  Cardinality(Q) = Cardinality(P) + 1
    <2>1. Q = P \union {j + 1}
        BY <1>2, <1>3
    <2>2. j + 1 \notin P
        OBVIOUS
    <2> QED BY <1>1, <2>1, <2>2, FS_AddElement
<1>4. ASSUME j + 1 \notin M
      PROVE  Q = P
    BY <1>2, <1>4
<1> QED BY <1>1, <1>3, <1>4 DEF Passed

LEMMA PassedGrows ==
    ASSUME NEW M \in SUBSET Nat, IsFiniteSet(M), NEW a \in Nat, NEW b \in Nat, a <= b
    PROVE  Passed(M, a) <= Passed(M, b)
<1> DEFINE T == {n \in Nat : Passed(M, a) <= Passed(M, a + n)}
<1>1. 0 \in T
    BY PassedMore
<1>2. ASSUME NEW n \in 0..(b - a - 1), n \in T
      PROVE  n + 1 \in T
    <2>1. PICK c \in Nat : c = a + n
        OBVIOUS
    <2>2. Passed(M, a) <= Passed(M, c) /\ a + (n + 1) = c + 1
        BY <1>2, <2>1
    <2>3. Passed(M, a) \in Nat /\ Passed(M, c) \in Nat
          /\ (Passed(M, c + 1) = Passed(M, c) \/ Passed(M, c + 1) = Passed(M, c) + 1)
        BY PassedMore
    <2>4. Passed(M, a) <= Passed(M, c + 1)
        BY <2>2, <2>3
    <2> QED BY <2>2, <2>4
<1>3. PICK d \in Nat : d = b - a
    OBVIOUS
<1> HIDE DEF T
<1>4. \A n \in 0..d : n \in T
    BY <1>1, <1>2, <1>3, UpTo
<1>5. d \in T /\ a + d = b
    BY <1>3, <1>4
<1> QED BY <1>5 DEF T

\* Two members are told apart by how many come before them.
LEMMA SamePassed ==
    ASSUME NEW M \in SUBSET Nat, IsFiniteSet(M), NEW a \in Nat, NEW b \in Nat,
           a + 1 \in M, b + 1 \in M, Passed(M, a) = Passed(M, b)
    PROVE  a = b
<1>1. ASSUME NEW x \in Nat, NEW y \in Nat, x + 1 \in M, Passed(M, x) = Passed(M, y), x < y
      PROVE  FALSE
    <2>1. x + 1 \in Nat /\ x + 1 <= y
        BY <1>1
    <2>2. Passed(M, x + 1) <= Passed(M, y)
        BY <2>1, PassedGrows
    <2>3. Passed(M, x + 1) = Passed(M, x) + 1 /\ Passed(M, x) \in Nat
        BY <1>1, PassedMore
    <2> QED BY <1>1, <2>2, <2>3
<1> QED BY <1>1

\* The key of the n-th array is the root array's first p segments.
LEMMA ArrayKeyIsPrefix ==
    ASSUME NEW t, WellRooted(t), RootFits(t), t.rootArray # <<>>,
           t.rootArray[Len(t.rootArray)] # "[]", NEW n \in Nat, n < Depth(t)
    PROVE  \E p \in 1..Len(t.rootArray) :
              /\ ArrayKey(t, n) = SubSeq(t.rootArray, 1, p)
              /\ t.rootArray[p] # "[]"
              /\ Passed(Markers(t.rootArray), p) = n
              /\ p + 1 \in Markers(t.rootArray) \/ n = Depth(t) - 1
              /\ n = Depth(t) - 1 => p = Len(t.rootArray)
<1> DEFINE key == t.rootArray
           M == Markers(key)
<1>1. M \in SUBSET Nat /\ IsFiniteSet(M) /\ Cardinality(M) \in Nat
    BY MarkersFinite, FS_CardinalityType DEF WellRooted
<1>2. key \in Seq(STRING) /\ Len(key) \in Nat /\ Len(key) >= 1
    BY DEF WellRooted
<1>3. Depth(t) = Cardinality(M) + 1
    BY DEF Depth
<1>4. M \subseteq 1..Len(key) /\ \A i \in 1..Len(key) : key[i] # "[]" <=> i \notin M
    BY DEF Markers
<1>5. CASE n = Cardinality(M)
    <2>1. ArrayKey(t, n) = key
        BY <1>5 DEF ArrayKey
    <2>2. SubSeq(key, 1, Len(key)) = key
        BY <1>2
    <2>3. {m \in M : m <= Len(key)} = M
        BY <1>2, <1>4
    <2>4. Len(key) \in 1..Len(key)
        BY <1>2
    <2>5. n = Depth(t) - 1
        BY <1>1, <1>3, <1>5
    <2> QED BY <1>5, <2>1, <2>2, <2>3, <2>4, <2>5 DEF Passed
<1>6. CASE n < Cardinality(M)
    <2> DEFINE Nth(i) == Cardinality({j \in M : j < i}) = n
               i == CHOOSE i \in M : Nth(i)
    <2>1. \E j \in M : Nth(j)
        BY <1>1, <1>6, NthMember
    <2>2. i \in M /\ Nth(i)
        BY <2>1, Zenon
    <2>3. ArrayKey(t, n) = SubSeq(key, 1, i - 1)
        <3>1. n # Cardinality(M)
            BY <1>1, <1>6
        <3> QED BY <3>1, Zenon DEF ArrayKey
    <2> HIDE DEF i
    <2>4. i \in 1..Len(key) /\ i > 1 /\ i - 1 \notin M
        BY <1>4, <2>2 DEF RootFits
    <2>5. PICK p \in 1..Len(key) : p = i - 1 /\ p + 1 = i
        BY <1>2, <2>4
    <2>6. key[p] # "[]"
        BY <1>4, <2>4, <2>5
    <2>7. {m \in M : m <= p} = {m \in M : m < i}
        <3>1. ASSUME NEW m \in M
              PROVE  m <= p <=> m < i
            <4>1. m \in Nat /\ i \in Nat /\ p \in Nat
                BY <1>1, <2>4
            <4> QED BY <2>5, <4>1
        <3> QED BY <3>1
    <2>8. Passed(M, p) = n
        BY <2>2, <2>7 DEF Passed
    <2>9. n # Depth(t) - 1
        BY <1>1, <1>3, <1>6
    <2> QED BY <2>2, <2>3, <2>5, <2>6, <2>8, <2>9
<1>7. n <= Cardinality(M)
    BY <1>1, <1>3
<1> QED BY <1>1, <1>5, <1>6, <1>7

\* The positions in hand count the markers passed.
LEMMA IndexCounts ==
    ASSUME NEW data \in Values, NEW key \in Seq(STRING), NEW N \in Nat, N = Len(key),
           NEW j \in 0..N, NEW e \in Reach(data, key, N)[j]
    PROVE  Len(e.index) = Passed(Markers(key), j)
<1> DEFINE M == Markers(key)
           from(n) == Reach(data, key, N)[n]
           T == {n \in Nat : n \in 0..N => \A x \in from(n) : Len(x.index) = Passed(M, n)}
<1>1. M \in SUBSET Nat /\ IsFiniteSet(M)
    BY MarkersFinite
<1>2. \A m \in M : m > 0
    BY DEF Markers
<1>3. \A i \in 1..N : i \in M <=> key[i] = "[]"
    BY DEF Markers
<1> HIDE DEF M
<1>4. 0 \in T
    <2>1. {m \in M : m <= 0} = {}
        <3>1. ASSUME NEW m \in M
              PROVE  ~(m <= 0)
            <4>1. m \in Nat /\ m > 0
                BY <1>1, <1>2
            <4> QED BY <4>1
        <3> QED BY <3>1
    <2>2. Passed(M, 0) = 0
        BY <2>1, FS_EmptySet DEF Passed
    <2>3. from(0) = {[index |-> <<>>, of |-> data]}
        BY ReachStarts
    <2> HIDE DEF from
    <2>4. \A x \in from(0) : Len(x.index) = 0
        BY <2>3
    <2> QED BY <2>2, <2>4
<1>5. ASSUME NEW n \in 0..(N - 1), n \in T
      PROVE  n + 1 \in T
    <2>1. n \in 0..N /\ n \in Nat /\ n + 1 \in 1..N /\ n + 1 - 1 = n
        OBVIOUS
    <2>2. from(n + 1) = Onward(from(n + 1 - 1), key[n + 1])
        BY <2>1, ReachGoesOn
    <2>3. \A x \in from(n) : x \in Place
        BY <2>1, ReachIsPlace
    <2>4. \A x \in from(n) : Len(x.index) = Passed(M, n)
        BY <1>5, <2>1
    <2> HIDE DEF from
    <2>5. ASSUME NEW x \in from(n + 1)
          PROVE  Len(x.index) = Passed(M, n + 1)
        <3>1. PICK y \in from(n) : x \in Through(y, key[n + 1])
            BY <2>1, <2>2 DEF Onward
        <3>2. y.index \in Seq(Nat) /\ Len(y.index) = Passed(M, n) /\ Passed(M, n) \in Nat
            BY <1>1, <2>1, <2>3, <2>4, <3>1, PassedMore DEF Place
        <3>3. CASE key[n + 1] = "[]"
            <4>1. PICK i : x = [index |-> Append(y.index, i), of |-> y.of.e[i + 1]]
                BY <3>1, <3>3 DEF Through, Spread
            <4>2. x.index = Append(y.index, i)
                BY <4>1
            <4>3. Len(x.index) = Len(y.index) + 1
                BY <3>2, <4>2
            <4>4. Passed(M, n + 1) = Passed(M, n) + 1
                BY <1>1, <1>3, <2>1, <3>3, PassedMore
            <4> QED BY <3>2, <4>3, <4>4
        <3>4. CASE key[n + 1] # "[]"
            <4>1. x = [index |-> y.index, of |-> Field(y.of, key[n + 1])]
                BY <3>1, <3>4 DEF Through
            <4>2. x.index = y.index
                BY <4>1
            <4>3. Passed(M, n + 1) = Passed(M, n)
                BY <1>1, <1>3, <2>1, <3>4, PassedMore
            <4> QED BY <3>2, <4>2, <4>3
        <3> QED BY <3>3, <3>4
    <2> QED BY <2>5
<1> HIDE DEF T
<1>6. \A n \in 0..N : n \in T
    BY <1>4, <1>5, UpTo
<1>7. j \in T
    BY <1>6
<1> QED BY <1>7 DEF T, M

\* A transformation whose root array can be walked in data.
Walkable(t, data) == WellRooted(t) /\ RootFits(t) /\ Fits(data, t.rootArray)

\* The positions of the elements of the n-th array.
Level(t, data, n) ==
    IF n = 0 THEN {<<>>} ELSE {x.index : x \in Elements(data, ArrayKey(t, n - 1))}

\* The key of the n-th array: a prefix of the root array, that fits as well.
LEMMA ArrayKeyReached ==
    ASSUME NEW data \in Values, NEW t, Walkable(t, data), t.rootArray # <<>>,
           NEW n \in Nat, n < Depth(t)
    PROVE  \E p \in 1..Len(t.rootArray) :
              /\ Reached(data, ArrayKey(t, n)) = Reach(data, t.rootArray, Len(t.rootArray))[p]
              /\ Passed(Markers(t.rootArray), p) = n
              /\ p + 1 \in Markers(t.rootArray) \/ n = Depth(t) - 1
              /\ n = Depth(t) - 1 => p = Len(t.rootArray)
              /\ ArrayKey(t, n) \in Seq(STRING) /\ ArrayKey(t, n) # <<>>
              /\ Fits(data, ArrayKey(t, n))
<1> DEFINE key == t.rootArray
           N == Len(key)
<1>1. key \in Seq(STRING) /\ N \in Nat /\ WellRooted(t) /\ RootFits(t) /\ Fits(data, key)
    BY DEF Walkable, WellRooted
<1>2. PICK p \in 1..N :
          /\ ArrayKey(t, n) = SubSeq(key, 1, p)
          /\ key[p] # "[]"
          /\ Passed(Markers(key), p) = n
          /\ p + 1 \in Markers(key) \/ n = Depth(t) - 1
          /\ n = Depth(t) - 1 => p = N
    BY <1>1, ArrayKeyIsPrefix DEF Fits
<1>3. PICK short : short = ArrayKey(t, n)
    OBVIOUS
<1>4. short \in Seq(STRING) /\ Len(short) = p /\ \A i \in 1..p : short[i] = key[i]
    BY <1>1, <1>2, <1>3
<1>5. p \in Nat /\ short # <<>>
    BY <1>1, <1>4
<1>6. ASSUME NEW i \in 0..p
      PROVE  Reach(data, short, p)[i] = Reach(data, key, N)[i]
    <2>1. i \in 0..N /\ p >= i /\ \A k \in 1..i : short[k] = key[k]
        BY <1>1, <1>4
    <2> QED BY <1>1, <1>5, <2>1, ReachOfPrefix
<1>7. Reached(data, short) = Reach(data, key, N)[p]
    <2>1. Reached(data, short) = Reach(data, short, p)[p]
        BY <1>4, ReachedIsReach
    <2>2. p \in 0..p
        BY <1>5
    <2> QED BY <1>6, <2>1, <2>2
<1>8. Fits(data, short)
    <2>1. short[Len(short)] # "[]"
        <3>1. p \in 1..p
            BY <1>5
        <3>2. short[p] = key[p]
            BY <1>4, <3>1
        <3> QED BY <1>2, <1>4, <3>2
    <2>2. ASSUME NEW i \in 0..(p - 2), NEW e \in Reach(data, short, p)[i], e.of.k = "arr"
          PROVE  short[i + 1] = "[]"
        <3>1. i \in 0..p /\ i \in 0..(N - 2) /\ i + 1 \in 1..p
            BY <1>1, <1>5
        <3>2. e \in Reach(data, key, N)[i]
            BY <1>6, <3>1
        <3>3. key[i + 1] = "[]"
            BY <1>1, <2>2, <3>1, <3>2, FitsIs
        <3> QED BY <1>4, <3>1, <3>3
    <2> QED BY <1>4, <2>1, <2>2, FitsIs
<1> QED BY <1>2, <1>3, <1>4, <1>5, <1>7, <1>8

\* What is reached lies in an element of every array on the way.
LEMMA EveryLevel ==
    ASSUME NEW data \in Values, NEW t, Walkable(t, data), t.rootArray # <<>>,
           NEW N \in Nat, N = Len(t.rootArray), NEW j \in 0..N,
           NEW e \in Reach(data, t.rootArray, N)[j], NEW n \in 0..Len(e.index)
    PROVE  SubSeq(e.index, 1, n) \in Level(t, data, n)
<1>0. PICK key : key = t.rootArray
    OBVIOUS
<1> DEFINE M == Markers(key)
           from(k) == Reach(data, key, N)[k]
           T == {k \in Nat : k \in 0..N =>
                    \A x \in from(k) : \A i \in 0..Len(x.index) :
                        SubSeq(x.index, 1, i) \in Level(t, data, i)}
<1>1. key \in Seq(STRING) /\ M \in SUBSET Nat /\ IsFiniteSet(M) /\ Cardinality(M) \in Nat
    BY <1>0, MarkersFinite, FS_CardinalityType DEF Walkable, WellRooted
<1>2. Depth(t) = Cardinality(M) + 1
    BY <1>0 DEF Depth
<1>3. \A i \in 1..N : i \in M <=> key[i] = "[]"
    BY <1>0 DEF Markers
<1>4. 0 \in T
    <2>1. from(0) = {[index |-> <<>>, of |-> data]}
        BY ReachStarts
    <2> HIDE DEF from
    <2>2. ASSUME NEW x \in from(0), NEW i \in 0..Len(x.index)
          PROVE  SubSeq(x.index, 1, i) \in Level(t, data, i)
        <3>1. x.index = <<>>
            BY <2>1
        <3>2. i = 0 /\ SubSeq(x.index, 1, i) = <<>>
            BY <3>1
        <3> QED BY <3>2 DEF Level
    <2> QED BY <2>2
<1>5. ASSUME NEW k \in 0..(N - 1), k \in T
      PROVE  k + 1 \in T
    <2>1. k \in 0..N /\ k \in Nat /\ k + 1 \in 1..N /\ k + 1 - 1 = k
        OBVIOUS
    <2>2. from(k + 1) = Onward(from(k + 1 - 1), key[k + 1])
        <3>1. PICK L \in Nat : L = N
            OBVIOUS
        <3>2. k + 1 \in 1..L
            BY <2>1, <3>1
        <3>3. Reach(data, key, L)[k + 1] = Onward(Reach(data, key, L)[k + 1 - 1], key[k + 1])
            BY <3>2, ReachGoesOn
        <3> QED BY <3>1, <3>3
    <2>3. \A x \in from(k) : x \in Place /\ Len(x.index) = Passed(M, k)
        BY <1>0, <1>1, <2>1, ReachIsPlace, IndexCounts
    <2>4. \A x \in from(k) : \A i \in 0..Len(x.index) : SubSeq(x.index, 1, i) \in Level(t, data, i)
        BY <1>5, <2>1
    <2>5. ASSUME NEW x \in from(k + 1), NEW i \in 0..Len(x.index)
          PROVE  SubSeq(x.index, 1, i) \in Level(t, data, i)
        <3> HIDE DEF from, M
        <3>1. PICK y \in from(k) : x \in Through(y, key[k + 1])
            BY <2>1, <2>2 DEF Onward
        <3>2. y \in Place /\ y.index \in Seq(Nat)
            BY <2>3, <3>1 DEF Place
        <3>3. PICK c \in Nat : c = Len(y.index)
            BY <3>2
        <3>4. CASE key[k + 1] # "[]"
            <4>1. x = [index |-> y.index, of |-> Field(y.of, key[k + 1])]
                BY <3>1, <3>4 DEF Through
            <4>2. x.index = y.index
                BY <4>1
            <4> QED BY <2>4, <3>1, <4>2
        <3>5. CASE key[k + 1] = "[]"
            <4>1. x \in Spread(y) /\ y.of.k = "arr"
                BY <3>1, <3>5 DEF Through, Spread
            <4>2. x \in Place
                BY <3>1, <3>2, ThroughIsPlace
            <4>3. PICK z : z = x.index
                OBVIOUS
            <4>4. z \in Seq(Nat) /\ Len(z) = c + 1 /\ \A m \in 1..c : z[m] = y.index[m]
                <5>1. PICK m : x = [index |-> Append(y.index, m), of |-> y.of.e[m + 1]]
                    BY <4>1 DEF Spread
                <5>2. z = Append(y.index, m)
                    BY <4>3, <5>1
                <5>3. z \in Seq(Nat)
                    BY <4>2, <4>3 DEF Place
                <5> QED BY <3>2, <3>3, <5>2, <5>3
            <4>5. CASE i <= c
                <5>1. i \in Nat /\ i \in 0..Len(y.index)
                    BY <3>3, <4>3, <4>4, <4>5
                <5>2. SubSeq(z, 1, i) = SubSeq(y.index, 1, i)
                    BY <3>2, <3>3, <4>4, <4>5, <5>1
                <5> QED BY <2>4, <3>1, <4>3, <5>1, <5>2
            <4>6. CASE i > c
                <5>1. i = c + 1 /\ SubSeq(z, 1, i) = z
                    BY <4>3, <4>4, <4>6
                <5>2. k + 1 \in M /\ Passed(M, k) = c
                    BY <1>3, <2>1, <2>3, <3>1, <3>3, <3>5
                <5>3. Passed(M, k + 1) = c + 1
                    BY <1>1, <2>1, <5>2, PassedMore
                <5>4. c + 1 <= Cardinality(M)
                    <6>1. {m \in M : m <= k + 1} \subseteq M
                        OBVIOUS
                    <6> QED BY <1>1, <5>3, <6>1, FS_Subset DEF Passed
                <5>5. c < Depth(t) /\ c # Depth(t) - 1
                    BY <1>1, <1>2, <5>4
                <5>6. PICK p \in 1..N : /\ Reached(data, ArrayKey(t, c)) = from(p)
                                        /\ Passed(M, p) = c /\ p + 1 \in M
                    BY <1>0, <5>5, ArrayKeyReached DEF from, M
                <5>7. p = k
                    BY <1>1, <2>1, <5>2, <5>6, SamePassed
                <5>8. x \in Elements(data, ArrayKey(t, c))
                    BY <3>1, <4>1, <5>6, <5>7 DEF Elements
                <5>9. c + 1 # 0 /\ c + 1 - 1 = c
                    OBVIOUS
                <5> QED BY <4>3, <5>1, <5>8, <5>9 DEF Level
            <4> QED BY <3>3, <4>3, <4>4, <4>5, <4>6
        <3> QED BY <3>4, <3>5
    <2> QED BY <2>5
<1> HIDE DEF T
<1>6. \A k \in 0..N : k \in T
    BY <1>4, <1>5, UpTo
<1>7. j \in T
    BY <1>6
<1> QED BY <1>0, <1>7 DEF T

\* The array at index, and the positions of its elements.
LEMMA ChildIsLevel ==
    ASSUME NoMarkerNames, NEW data \in Values, NEW t, Walkable(t, data), t.rootArray # <<>>,
           NEW index \in Seq(Nat), Len(index) < Depth(t),
           NEW array, array = GetNestedValue(ArrayKey(t, Len(index)), data, index), array.k = "arr",
           NEW i \in 0..(Len(array.e) - 1)
    PROVE  Append(index, i) \in Level(t, data, Len(index) + 1)
<1>1. PICK n \in Nat : n = Len(index)
    OBVIOUS
<1>2. PICK p \in 1..Len(t.rootArray) :
          /\ Reached(data, ArrayKey(t, n)) = Reach(data, t.rootArray, Len(t.rootArray))[p]
          /\ Passed(Markers(t.rootArray), p) = n
          /\ ArrayKey(t, n) \in Seq(STRING) /\ ArrayKey(t, n) # <<>>
          /\ Fits(data, ArrayKey(t, n))
    BY <1>1, ArrayKeyReached
<1>3. array # Undefined
    BY DEF Undefined
<1>4. PICK e \in Reached(data, ArrayKey(t, n)) : Leads(e.index, index) /\ array = e.of
    BY <1>1, <1>2, <1>3, NestedIsReached
<1>5. Len(t.rootArray) \in Nat /\ t.rootArray \in Seq(STRING)
    BY DEF Walkable, WellRooted
<1>6. p \in 0..Len(t.rootArray)
    BY <1>5
<1>7. e \in Place /\ Len(e.index) = n
    BY <1>2, <1>4, <1>5, <1>6, ReachIsPlace, IndexCounts
<1>8. e.index = index
    <2>1. e.index \in Seq(Nat)
        BY <1>7 DEF Place
    <2>2. \A k \in 1..n : e.index[k] = index[k]
        BY <1>4, <1>7 DEF Leads
    <2> QED BY <1>1, <1>7, <2>1, <2>2, SameSeq
<1>9. [index |-> Append(index, i), of |-> array.e[i + 1]] \in Spread(e)
    BY <1>4, <1>8 DEF Spread
<1>10. [index |-> Append(index, i), of |-> array.e[i + 1]] \in Elements(data, ArrayKey(t, n))
    BY <1>4, <1>9 DEF Elements
<1>11. Append(index, i) \in {x.index : x \in Elements(data, ArrayKey(t, n))}
    BY <1>10
<1>12. n + 1 # 0 /\ n + 1 - 1 = n
    OBVIOUS
<1> QED BY <1>1, <1>11, <1>12 DEF Level

\* An element of the (n + 1)-st array.
LEMMA LevelIs ==
    ASSUME NEW data \in Values, NEW t, Walkable(t, data), t.rootArray # <<>>,
           NEW n \in Nat, n < Depth(t), NEW ix \in Level(t, data, n + 1)
    PROVE  /\ ix \in Seq(Nat) /\ Len(ix) = n + 1
           /\ \E e \in Reached(data, ArrayKey(t, n)) :
                 /\ e.of.k = "arr" /\ e.of \in Values
                 /\ e.index \in Seq(Nat) /\ Len(e.index) = n /\ Leads(e.index, ix)
                 /\ ix[n + 1] \in 0..(Len(e.of.e) - 1)
<1>1. n + 1 # 0 /\ n + 1 - 1 = n
    OBVIOUS
<1>2. PICK x \in Elements(data, ArrayKey(t, n)) : ix = x.index
    BY <1>1 DEF Level
<1>3. PICK e \in Reached(data, ArrayKey(t, n)) : x \in Spread(e)
    BY <1>2 DEF Elements
<1>4. PICK p \in 1..Len(t.rootArray) :
          /\ Reached(data, ArrayKey(t, n)) = Reach(data, t.rootArray, Len(t.rootArray))[p]
          /\ Passed(Markers(t.rootArray), p) = n
    BY ArrayKeyReached
<1>5. Len(t.rootArray) \in Nat /\ t.rootArray \in Seq(STRING)
    BY DEF Walkable, WellRooted
<1>6. p \in 0..Len(t.rootArray)
    BY <1>5
<1>7. e \in Place /\ Len(e.index) = n
    BY <1>3, <1>4, <1>5, <1>6, ReachIsPlace, IndexCounts
<1>8. e.index \in Seq(Nat) /\ e.of \in Values /\ e.of.k = "arr"
    BY <1>3, <1>7 DEF Place, Spread
<1>9. e.of.e \in Seq(Values)
    BY <1>8, TransformationAssumption DEF TransformationAssumption
<1>10. PICK i \in 0..(Len(e.of.e) - 1) : x = [index |-> Append(e.index, i), of |-> e.of.e[i + 1]]
    BY <1>3, <1>8 DEF Spread
<1>11. i \in Nat /\ ix = Append(e.index, i)
    BY <1>2, <1>9, <1>10
<1>12. ix \in Seq(Nat) /\ Len(ix) = n + 1 /\ ix[n + 1] = i /\ \A k \in 1..n : ix[k] = e.index[k]
    BY <1>7, <1>8, <1>11
<1>13. Leads(e.index, ix)
    BY <1>7, <1>12 DEF Leads
<1> QED BY <1>7, <1>8, <1>10, <1>12, <1>13

\* The walk comes to every element.
LEMMA ElementIsChild ==
    ASSUME NoMarkerNames, NEW data \in Values, NEW t, Walkable(t, data), t.rootArray # <<>>,
           NEW index \in Seq(Nat), Len(index) < Depth(t),
           NEW array, array = GetNestedValue(ArrayKey(t, Len(index)), data, index),
           NEW ix \in Level(t, data, Depth(t)), Leads(index, ix)
    PROVE  /\ array.k = "arr" /\ array.e \in Seq(Values)
           /\ ix \in Seq(Nat) /\ Len(ix) = Depth(t)
           /\ ix[Len(index) + 1] \in 0..(Len(array.e) - 1)
<1>1. PICK n \in Nat : n = Len(index)
    OBVIOUS
<1>2. PICK D \in Nat : D + 1 = Depth(t)
    <2>1. Depth(t) \in Nat
        BY DepthIsNat DEF Walkable, WellRooted
    <2>2. Depth(t) - 1 \in Nat /\ Depth(t) - 1 + 1 = Depth(t)
        BY <1>1, <2>1
    <2> QED BY <2>2
<1>3. D < Depth(t) /\ n < Depth(t)
    BY <1>1, <1>2
<1>4. ix \in Seq(Nat) /\ Len(ix) = D + 1
    BY <1>2, <1>3, LevelIs
<1>5. PICK y : y \in Level(t, data, n + 1) /\ y \in Seq(Nat) /\ Len(y) = n + 1
               /\ \A k \in 1..(n + 1) : y[k] = ix[k]
    <2>1. CASE n = D
        BY <1>2, <1>4, <2>1
    <2>2. CASE n # D
        <3>1. PICK e \in Reached(data, ArrayKey(t, D)) :
                  /\ e.of.k = "arr" /\ e.of \in Values
                  /\ e.index \in Seq(Nat) /\ Len(e.index) = D /\ Leads(e.index, ix)
                  /\ ix[D + 1] \in 0..(Len(e.of.e) - 1)
            BY <1>2, <1>3, LevelIs
        <3>2. Reached(data, ArrayKey(t, D)) = Reach(data, t.rootArray, Len(t.rootArray))[Len(t.rootArray)]
            <4>1. D = Depth(t) - 1
                BY <1>2
            <4> QED BY <1>3, <4>1, ArrayKeyReached
        <3>3. PICK N \in Nat : N = Len(t.rootArray)
            BY DEF Walkable, WellRooted
        <3>4. N \in 0..N /\ n + 1 \in 0..Len(e.index) /\ n + 1 <= D
            BY <1>2, <1>3, <2>2, <3>1, <3>3
        <3>5. e \in Reach(data, t.rootArray, N)[N]
            BY <3>1, <3>2, <3>3
        <3>6. SubSeq(e.index, 1, n + 1) \in Level(t, data, n + 1)
            BY <3>3, <3>4, <3>5, EveryLevel
        <3>7. PICK y : y = SubSeq(e.index, 1, n + 1)
            OBVIOUS
        <3>8. y \in Seq(Nat) /\ Len(y) = n + 1 /\ \A k \in 1..(n + 1) : y[k] = e.index[k]
            BY <3>1, <3>4, <3>7
        <3>9. \A k \in 1..(n + 1) : e.index[k] = ix[k]
            BY <3>1, <3>4 DEF Leads
        <3> QED BY <3>6, <3>7, <3>8, <3>9
    <2> QED BY <2>1, <2>2
<1>6. PICK e \in Reached(data, ArrayKey(t, n)) :
          /\ e.of.k = "arr" /\ e.of \in Values
          /\ e.index \in Seq(Nat) /\ Len(e.index) = n /\ Leads(e.index, y)
          /\ y[n + 1] \in 0..(Len(e.of.e) - 1)
    BY <1>3, <1>5, LevelIs
<1>7. Leads(e.index, index)
    <2>1. \A k \in 1..n : e.index[k] = y[k]
        BY <1>6 DEF Leads
    <2>2. \A k \in 1..n : y[k] = ix[k]
        BY <1>5
    <2>3. \A k \in 1..n : index[k] = ix[k]
        BY <1>1 DEF Leads
    <2>4. \A k \in 1..n : e.index[k] = index[k]
        BY <2>1, <2>2, <2>3
    <2> QED BY <1>1, <1>6, <2>4 DEF Leads
<1>8. ArrayKey(t, n) \in Seq(STRING) /\ ArrayKey(t, n) # <<>> /\ Fits(data, ArrayKey(t, n))
    BY <1>3, ArrayKeyReached
<1>9. array = e.of
    BY <1>1, <1>6, <1>7, <1>8, NestedIsReached
<1>10. array.e \in Seq(Values)
    BY <1>6, <1>9, TransformationAssumption DEF TransformationAssumption
<1>11. y[n + 1] = ix[n + 1]
    <2>1. n + 1 \in 1..(n + 1)
        OBVIOUS
    <2> QED BY <1>5, <2>1
<1> QED BY <1>1, <1>2, <1>4, <1>6, <1>9, <1>10, <1>11

-----------------------------------------------------------------------------
(* Flattening *)

\* F has the members of the first n sequences, in their order.
Flat(F, seqs, n) ==
    /\ \A i \in 1..n : \A p \in 1..Len(seqs[i]) : \E a \in 1..Len(F) : F[a] = seqs[i][p]
    /\ \A a \in 1..Len(F) : \E i \in 1..n : \E p \in 1..Len(seqs[i]) : F[a] = seqs[i][p]
    /\ \A a, b \in 1..Len(F) : a < b =>
          \E i, j \in 1..n : \E p \in 1..Len(seqs[i]) : \E q \in 1..Len(seqs[j]) :
              F[a] = seqs[i][p] /\ F[b] = seqs[j][q] /\ (i < j \/ (i = j /\ p < q))

LEMMA FlatGoesOn ==
    ASSUME NEW S, NEW seqs, NEW n \in Nat, NEW F \in Seq(S), Flat(F, seqs, n),
           seqs[n + 1] \in Seq(S)
    PROVE  Flat(F \o seqs[n + 1], seqs, n + 1)
<1>1. PICK s : s = seqs[n + 1]
    OBVIOUS
<1>2. PICK G : G = F \o s
    OBVIOUS
<1>3. PICK L \in Nat : L = Len(F)
    OBVIOUS
<1>4. PICK M \in Nat : M = Len(s)
    BY <1>1
<1>5. /\ Len(G) = L + M
      /\ \A a \in 1..L : G[a] = F[a]
      /\ \A p \in 1..M : G[L + p] = s[p]
    BY <1>1, <1>2, <1>3, <1>4
<1>6. ASSUME NEW a \in 1..(L + M), ~(a \in 1..L)
      PROVE  a - L \in 1..M /\ G[a] = s[a - L]
    <2>1. a - L \in 1..M /\ L + (a - L) = a
        BY <1>6
    <2> QED BY <1>5, <2>1
<1>7. 1..(n + 1) = 1..n \union {n + 1}
    OBVIOUS
<1>8. ASSUME NEW i \in 1..(n + 1), NEW p \in 1..Len(seqs[i])
      PROVE  \E a \in 1..Len(G) : G[a] = seqs[i][p]
    <2>1. CASE i \in 1..n
        <3>1. PICK a \in 1..L : F[a] = seqs[i][p]
            BY <1>3, <2>1 DEF Flat
        <3>2. a \in 1..(L + M)
            OBVIOUS
        <3> QED BY <1>5, <3>1, <3>2
    <2>2. CASE i = n + 1
        <3>1. p \in 1..M /\ L + p \in 1..(L + M)
            BY <1>1, <1>4, <2>2
        <3> QED BY <1>1, <1>5, <2>2, <3>1
    <2> QED BY <1>7, <2>1, <2>2
<1>9. ASSUME NEW a \in 1..Len(G)
      PROVE  \E i \in 1..(n + 1) : \E p \in 1..Len(seqs[i]) : G[a] = seqs[i][p]
    <2>1. CASE a \in 1..L
        <3>1. PICK i \in 1..n : \E p \in 1..Len(seqs[i]) : F[a] = seqs[i][p]
            BY <1>3, <2>1 DEF Flat
        <3> QED BY <1>5, <1>7, <2>1, <3>1
    <2>2. CASE ~(a \in 1..L)
        <3>1. a - L \in 1..M /\ G[a] = s[a - L]
            BY <1>5, <1>6, <2>2
        <3>2. n + 1 \in 1..(n + 1)
            OBVIOUS
        <3> QED BY <1>1, <1>4, <3>1, <3>2
    <2> QED BY <2>1, <2>2
<1>10. ASSUME NEW a \in 1..Len(G), NEW b \in 1..Len(G), a < b
       PROVE  \E i, j \in 1..(n + 1) : \E p \in 1..Len(seqs[i]) : \E q \in 1..Len(seqs[j]) :
                  G[a] = seqs[i][p] /\ G[b] = seqs[j][q] /\ (i < j \/ (i = j /\ p < q))
    <2>1. CASE b \in 1..L
        <3>1. a \in 1..L
            BY <1>10, <2>1
        <3>2. \A c, d \in 1..L : c < d =>
                  \E i, j \in 1..n : \E p \in 1..Len(seqs[i]) : \E q \in 1..Len(seqs[j]) :
                      F[c] = seqs[i][p] /\ F[d] = seqs[j][q] /\ (i < j \/ (i = j /\ p < q))
            BY <1>3, Zenon DEF Flat
        <3>3. PICK i, j \in 1..n : \E p \in 1..Len(seqs[i]) : \E q \in 1..Len(seqs[j]) :
                  F[a] = seqs[i][p] /\ F[b] = seqs[j][q] /\ (i < j \/ (i = j /\ p < q))
            BY <1>10, <2>1, <3>1, <3>2, Zenon
        <3>4. G[a] = F[a] /\ G[b] = F[b]
            BY <1>5, <2>1, <3>1
        <3>5. i \in 1..(n + 1) /\ j \in 1..(n + 1)
            BY <1>7
        <3> QED BY <3>3, <3>4, <3>5, Zenon
    <2>2. CASE ~(b \in 1..L) /\ a \in 1..L
        <3>1. PICK i \in 1..n : \E p \in 1..Len(seqs[i]) : F[a] = seqs[i][p]
            BY <1>3, <2>2 DEF Flat
        <3>2. b - L \in 1..Len(seqs[n + 1]) /\ G[b] = seqs[n + 1][b - L]
            BY <1>1, <1>4, <1>5, <1>6, <2>2
        <3>3. n + 1 \in 1..(n + 1) /\ i < n + 1 /\ i \in 1..(n + 1)
            OBVIOUS
        <3>4. PICK p \in 1..Len(seqs[i]) : G[a] = seqs[i][p]
            BY <1>5, <2>2, <3>1
        <3> QED BY <3>2, <3>3, <3>4
    <2>3. CASE ~(b \in 1..L) /\ ~(a \in 1..L)
        <3>1. b - L \in 1..Len(seqs[n + 1]) /\ G[b] = seqs[n + 1][b - L]
            BY <1>1, <1>4, <1>5, <1>6, <2>3
        <3>2. a - L \in 1..Len(seqs[n + 1]) /\ G[a] = seqs[n + 1][a - L]
            BY <1>1, <1>4, <1>5, <1>6, <2>3
        <3>3. n + 1 \in 1..(n + 1) /\ a - L < b - L
            BY <1>5, <1>10
        <3> QED BY <3>1, <3>2, <3>3
    <2> QED BY <2>1, <2>2, <2>3
<1>11. Flat(G, seqs, n + 1)
    BY <1>8, <1>9, <1>10 DEF Flat
<1> QED BY <1>1, <1>2, <1>11

\* The flattened sequence has the members of all, in their order.
LEMMA FlattenIsFlat ==
    ASSUME NEW S, NEW seqs \in Seq(Seq(S))
    PROVE  FlattenSeq(seqs) \in Seq(S) /\ Flat(FlattenSeq(seqs), seqs, Len(seqs))
<1> DEFINE N == Len(seqs)
           f == CHOOSE f : f = [i \in 1..N |-> IF i = 1 THEN seqs[i] ELSE f[i - 1] \o seqs[i]]
<1>1. CASE N = 0
    <2>1. seqs = <<>>
        BY <1>1
    <2>2. FlattenSeq(seqs) = <<>>
        BY <2>1 DEF FlattenSeq
    <2> QED BY <1>1, <2>2 DEF Flat
<1>2. CASE N # 0
    <2>1. N \in Nat \ {0}
        BY <1>2
    <2>2. f = [i \in 1..N |-> IF i = 1 THEN seqs[i] ELSE f[i - 1] \o seqs[i]]
        BY <2>1, FlattenExists, Zenon
    <2>3. FlattenSeq(seqs) = f[N]
        BY <1>2 DEF FlattenSeq
    <2> HIDE DEF f
    <2>4. \A i \in 1..N : f[i] = IF i = 1 THEN seqs[i] ELSE f[i - 1] \o seqs[i]
        BY <2>2, Zenon
    <2> DEFINE T == {n \in Nat : n \in 1..N => f[n] \in Seq(S) /\ Flat(f[n], seqs, n)}
    <2>5. 0 \in T
        OBVIOUS
    <2>6. ASSUME NEW n \in 0..(N - 1), n \in T
          PROVE  n + 1 \in T
        <3>1. n + 1 \in 1..N /\ seqs[n + 1] \in Seq(S) /\ n \in Nat
            BY <2>1
        <3>2. PICK F : F \in Seq(S) /\ Flat(F, seqs, n) /\ f[n + 1] = F \o seqs[n + 1]
            <4>1. CASE n = 0
                <5>1. f[n + 1] = seqs[n + 1]
                    BY <2>4, <3>1, <4>1
                <5>2. <<>> \in Seq(S) /\ <<>> \o seqs[n + 1] = seqs[n + 1]
                    BY <3>1
                <5>3. Flat(<<>>, seqs, n)
                    BY <4>1 DEF Flat
                <5> QED BY <5>1, <5>2, <5>3
            <4>2. CASE n # 0
                <5>1. f[n] \in Seq(S) /\ Flat(f[n], seqs, n)
                    BY <2>6, <4>2
                <5>2. f[n + 1] = IF n + 1 = 1 THEN seqs[n + 1] ELSE f[n + 1 - 1] \o seqs[n + 1]
                    BY <2>4, <3>1
                <5>3. n + 1 # 1 /\ n + 1 - 1 = n
                    BY <4>2
                <5>4. f[n + 1] = f[n] \o seqs[n + 1]
                    BY <5>2, <5>3, Zenon
                <5> QED BY <5>1, <5>4
            <4> QED BY <4>1, <4>2
        <3>3. F \o seqs[n + 1] \in Seq(S)
            BY <3>1, <3>2
        <3>4. Flat(F \o seqs[n + 1], seqs, n + 1)
            BY <3>1, <3>2, FlatGoesOn
        <3>5. f[n + 1] \in Seq(S) /\ Flat(f[n + 1], seqs, n + 1)
            BY <3>2, <3>3, <3>4
        <3>6. n + 1 \in Nat
            BY <3>1
        <3> QED BY <3>5, <3>6
    <2> HIDE DEF T
    <2>7. \A n \in 0..N : n \in T
        BY <2>1, <2>5, <2>6, UpTo
    <2>8. N \in 0..N /\ N \in 1..N
        BY <2>1
    <2> QED BY <2>3, <2>7, <2>8 DEF T
<1> QED BY <1>1, <1>2

-----------------------------------------------------------------------------
(* The elements that a walk comes to *)

\* Of two positions under the same one, the one with the smaller child is first.
LEMMA BeforeByChild ==
    ASSUME NEW a \in Seq(Nat), NEW b \in Seq(Nat), NEW x \in Seq(Nat), NEW n \in Nat, n = Len(x),
           Leads(x, a), Leads(x, b), n < Len(a), n < Len(b), a[n + 1] < b[n + 1]
    PROVE  Before(a, b)
<1>1. PICK m : m = n + 1
    OBVIOUS
<1>2. m \in DOMAIN a \cap DOMAIN b /\ a[m] < b[m] /\ \A j \in 1..(m - 1) : j \in 1..n
    BY <1>1
<1>3. \A j \in 1..(m - 1) : a[j] = b[j]
    BY <1>2 DEF Leads
<1> QED BY <1>2, <1>3, Zenon DEF Before

\* The elements of the root array are those of the last array on the way.
LEMMA ElementsAreLevel ==
    ASSUME NEW t, WellRooted(t), NEW data
    PROVE  {e.index : e \in ElementsOf(t, data)} = Level(t, data, Depth(t))
<1>1. CASE t.rootArray = <<>>
    <2>1. Depth(t) = 0
        BY <1>1 DEF Depth
    <2> QED BY <1>1, <2>1 DEF ElementsOf, Level
<1>2. CASE t.rootArray # <<>>
    <2>1. PICK c : c = Cardinality(Markers(t.rootArray))
        OBVIOUS
    <2>2. c \in Nat /\ Depth(t) = c + 1
        BY <1>2, <2>1, MarkersFinite, FS_CardinalityType DEF Depth, WellRooted
    <2>3. Depth(t) # 0 /\ Depth(t) - 1 = c
        BY <2>2
    <2>4. ArrayKey(t, c) = t.rootArray
        BY <2>1 DEF ArrayKey
    <2>5. ElementsOf(t, data) = Elements(data, ArrayKey(t, Depth(t) - 1))
        BY <1>2, <2>3, <2>4 DEF ElementsOf
    <2> QED BY <2>3, <2>5 DEF Level
<1> QED BY <1>1, <1>2

LEMMA ElementIsTyped ==
    ASSUME NEW data \in Values, NEW t, Walkable(t, data), NEW ix \in Level(t, data, Depth(t))
    PROVE  ix \in Seq(Nat) /\ Len(ix) = Depth(t)
<1>1. CASE t.rootArray = <<>>
    <2>1. Depth(t) = 0
        BY <1>1 DEF Depth
    <2>2. ix = <<>>
        BY <2>1 DEF Level
    <2> QED BY <2>1, <2>2
<1>2. CASE t.rootArray # <<>>
    <2>1. PICK c \in Nat : c + 1 = Depth(t)
        BY <1>2, MarkersFinite, FS_CardinalityType DEF Depth, WellRooted, Walkable
    <2>2. c < Depth(t) /\ ix \in Level(t, data, c + 1)
        BY <2>1
    <2> QED BY <1>2, <2>1, <2>2, LevelIs
<1> QED BY <1>1, <1>2

\* An element that generates.
Good(t, data, index) == Valid(t, data, index) /\ ~MappedKeys(t, data, index).aborted

\* A walk from index gives one item for each such element under it, in order.
Yields(items, t, data, index) ==
    /\ \A a \in 1..Len(items) :
          /\ items[a].index \in Level(t, data, Depth(t))
          /\ Leads(index, items[a].index)
          /\ Good(t, data, items[a].index)
    /\ \A ix \in Level(t, data, Depth(t)) :
          Leads(index, ix) /\ Good(t, data, ix) => \E a \in 1..Len(items) : items[a].index = ix
    /\ \A a, b \in 1..Len(items) : a < b => Before(items[a].index, items[b].index)

\* The call for an element itself.
LEMMA ElementYields ==
    ASSUME NEW data \in Values, NEW t, Walkable(t, data), NEW walk,
           NEW index \in Level(t, data, Depth(t))
    PROVE  Yields(TransformAt(t, data, index, walk).value, t, data, index)
<1>1. index \in Seq(Nat) /\ Len(index) = Depth(t) /\ Leads(index, index)
    BY ElementIsTyped DEF Leads
<1>2. PICK items : items = TransformAt(t, data, index, walk).value
    OBVIOUS
<1>3. ASSUME NEW ix \in Level(t, data, Depth(t)), Leads(index, ix)
      PROVE  ix = index
    <2>1. ix \in Seq(Nat) /\ Len(ix) = Len(index) /\ \A i \in 1..Len(index) : index[i] = ix[i]
        BY <1>1, <1>3, ElementIsTyped DEF Leads
    <2> QED BY <1>1, <2>1, SameSeq
<1>4. CASE Good(t, data, index)
    <2>1. PICK item : items = <<item>> /\ item.index = index
        <3>1. items = GenerateResults(t, data, index).value
            BY <1>1, <1>2, <1>4 DEF Good, TransformAt
        <3> QED BY <1>4, <3>1 DEF Good, GenerateResults, Success
    <2>2. Len(items) = 1 /\ items[1].index = index
        BY <2>1
    <2> HIDE <2>1
    <2>3. \A a \in 1..Len(items) : a = 1 /\ items[a].index = index
        BY <2>2
    <2>4. 1 \in 1..Len(items)
        BY <2>2
    <2>5. \A a, b \in 1..Len(items) : ~(a < b)
        BY <2>3
    <2> QED BY <1>1, <1>2, <1>3, <1>4, <2>2, <2>3, <2>4, <2>5, Zenon DEF Yields
<1>5. CASE ~Good(t, data, index)
    <2>1. items = <<>>
        BY <1>1, <1>2, <1>5 DEF Good, TransformAt, GenerateResults, Failure, Success
    <2>2. 1..Len(items) = {}
        BY <2>1
    <2> QED BY <1>2, <1>3, <1>5, <2>2, Zenon DEF Yields
<1> QED BY <1>4, <1>5

LEMMA ChildLeads ==
    ASSUME NEW index \in Seq(Nat), NEW c \in Nat, NEW ix \in Seq(Nat)
    PROVE  Leads(Append(index, c), ix)
               <=> Leads(index, ix) /\ Len(index) < Len(ix) /\ ix[Len(index) + 1] = c
<1>1. PICK n \in Nat : n = Len(index)
    OBVIOUS
<1>2. PICK d : d = Append(index, c)
    OBVIOUS
<1>3. d \in Seq(Nat) /\ Len(d) = n + 1 /\ d[n + 1] = c /\ \A i \in 1..n : d[i] = index[i]
    BY <1>1, <1>2
<1>4. 1..(n + 1) = 1..n \union {n + 1} /\ Len(ix) \in Nat
    OBVIOUS
<1>5. ASSUME Leads(d, ix)
      PROVE  Leads(index, ix) /\ n < Len(ix) /\ ix[n + 1] = c
    BY <1>1, <1>3, <1>4, <1>5 DEF Leads
<1>6. ASSUME Leads(index, ix), n < Len(ix), ix[n + 1] = c
      PROVE  Leads(d, ix)
    <2>1. \A i \in 1..n : index[i] = ix[i]
        BY <1>1, <1>6 DEF Leads
    <2>2. \A i \in 1..(n + 1) : d[i] = ix[i]
        BY <1>3, <1>4, <1>6, <2>1
    <2>3. Len(d) <= Len(ix)
        BY <1>3, <1>4, <1>6
    <2> QED BY <1>3, <2>2, <2>3 DEF Leads
<1> QED BY <1>1, <1>2, <1>5, <1>6

\* The call for an array, from the calls for its members.
LEMMA ArrayYields ==
    ASSUME NoMarkerNames, NEW data \in Values, NEW t, Walkable(t, data), t.rootArray # <<>>,
           NEW index \in Indexes(t), Len(index) < Depth(t), NEW walk,
           \A i \in Nat : walk[Append(index, i)].value \in Seq(Generated(t, data)),
           \A i \in Nat : Append(index, i) \in Level(t, data, Len(index) + 1) =>
               Yields(walk[Append(index, i)].value, t, data, Append(index, i))
    PROVE  Yields(TransformAt(t, data, index, walk).value, t, data, index)
<1>1. PICK n \in Nat, D \in Nat : n = Len(index) /\ D = Depth(t) /\ index \in Seq(Nat) /\ n < D
    BY DepthIsNat DEF Indexes, Walkable, WellRooted
<1>2. PICK array : array = GetNestedValue(ArrayKey(t, Len(index)), data, index)
    OBVIOUS
<1>3. ASSUME NEW ix \in Level(t, data, Depth(t)), Leads(index, ix)
      PROVE  /\ array.k = "arr"
             /\ ix \in Seq(Nat) /\ Len(ix) = D
             /\ ix[n + 1] \in 0..(Len(array.e) - 1)
    BY <1>1, <1>2, <1>3, ElementIsChild
<1>4. Len(index) # Depth(t)
    BY <1>1
<1>5. CASE array.k # "arr"
    <2>1. TransformAt(t, data, index, walk).value = <<>>
        BY <1>2, <1>4, <1>5 DEF TransformAt, Failure
    <2>2. 1..Len(<<>>) = {}
        OBVIOUS
    <2> QED BY <1>3, <1>5, <2>1, <2>2, Zenon DEF Yields
<1>6. CASE array.k = "arr"
    <2>1. PICK N \in Nat : N = Len(array.e)
        BY <1>1, <1>2, <1>6, ArrayLength DEF Walkable
    <2>2. PICK G : G = Generated(t, data)
        OBVIOUS
    <2>3. PICK s : s = [i \in 1..N |-> walk[Append(index, i - 1)].value]
        OBVIOUS
    <2>4. ASSUME NEW i \in 1..N
          PROVE  /\ s[i] \in Seq(G)
                 /\ i - 1 \in Nat
                 /\ Yields(s[i], t, data, Append(index, i - 1))
        <3>1. i - 1 \in Nat /\ i - 1 \in 0..(N - 1)
            OBVIOUS
        <3>2. Append(index, i - 1) \in Level(t, data, Len(index) + 1)
            BY <1>1, <1>2, <1>6, <2>1, <3>1, ChildIsLevel
        <3> QED BY <2>2, <2>3, <3>1, <3>2
    <2>5. s \in Seq(Seq(G)) /\ Len(s) = N
        <3>1. PICK H : H = Seq(G)
            OBVIOUS
        <3>2. s \in [1..N -> H]
            <4>1. \A i \in 1..N : s[i] \in H
                BY <2>4, <3>1
            <4> QED BY <2>3, <4>1
        <3> QED BY <3>1, <3>2
    <2>6. PICK F : F = FlattenSeq(s)
        OBVIOUS
    <2>7. F \in Seq(G) /\ Flat(F, s, N)
        BY <2>5, <2>6, FlattenIsFlat
    <2>8. TransformAt(t, data, index, walk).value = F
        <3>1. PICK nested : nested = [i \in 1..N |-> walk[Append(index, i - 1)]]
            OBVIOUS
        <3>2. TransformAt(t, data, index, walk) = Collected(nested)
            BY <1>2, <1>4, <1>6, <2>1, <3>1 DEF TransformAt
        <3>3. [i \in DOMAIN nested |-> nested[i].value] = s
            BY <2>3, <3>1
        <3> QED BY <2>6, <3>2, <3>3 DEF Collected, Success
    <2>9. ASSUME NEW i \in 1..N, NEW p \in 1..Len(s[i])
          PROVE  /\ s[i][p].index \in Level(t, data, Depth(t))
                 /\ s[i][p].index \in Seq(Nat) /\ Len(s[i][p].index) = D
                 /\ Leads(index, s[i][p].index) /\ s[i][p].index[n + 1] = i - 1
                 /\ Good(t, data, s[i][p].index)
        <3>1. PICK ix : ix = s[i][p].index
            OBVIOUS
        <3>2. /\ ix \in Level(t, data, Depth(t)) /\ Leads(Append(index, i - 1), ix)
              /\ Good(t, data, ix) /\ i - 1 \in Nat
            BY <2>4, <3>1 DEF Yields
        <3>3. ix \in Seq(Nat) /\ Len(ix) = D
            BY <1>1, <3>2, ElementIsTyped
        <3> QED BY <1>1, <3>1, <3>2, <3>3, ChildLeads
    <2>10. ASSUME NEW a \in 1..Len(F)
           PROVE  /\ F[a].index \in Level(t, data, Depth(t))
                  /\ Leads(index, F[a].index) /\ Good(t, data, F[a].index)
        <3>1. PICK i \in 1..N : \E p \in 1..Len(s[i]) : F[a] = s[i][p]
            BY <2>7 DEF Flat
        <3>2. PICK p \in 1..Len(s[i]) : F[a] = s[i][p]
            BY <3>1
        <3> QED BY <2>9, <3>2
    <2>11. ASSUME NEW ix \in Level(t, data, Depth(t)), Leads(index, ix), Good(t, data, ix)
           PROVE  \E a \in 1..Len(F) : F[a].index = ix
        <3>1. ix \in Seq(Nat) /\ Len(ix) = D /\ ix[n + 1] \in 0..(N - 1)
            BY <1>3, <2>1, <2>11
        <3>2. PICK i \in 1..N : ix[n + 1] = i - 1
            <4>1. PICK c \in 0..(N - 1) : c = ix[n + 1]
                BY <3>1
            <4>2. PICK i \in 1..N : i = c + 1
                OBVIOUS
            <4>3. c = i - 1
                BY <4>2
            <4> QED BY <4>1, <4>3
        <3>3. Leads(Append(index, i - 1), ix)
            BY <1>1, <2>4, <2>11, <3>1, <3>2, ChildLeads
        <3>4. PICK p \in 1..Len(s[i]) : s[i][p].index = ix
            BY <2>4, <2>11, <3>3 DEF Yields
        <3>5. \E a \in 1..Len(F) : F[a] = s[i][p]
            BY <2>7 DEF Flat
        <3> QED BY <3>4, <3>5
    <2>12. ASSUME NEW a \in 1..Len(F), NEW b \in 1..Len(F), a < b
           PROVE  Before(F[a].index, F[b].index)
        <3>1. PICK i, j \in 1..N : \E p \in 1..Len(s[i]) : \E q \in 1..Len(s[j]) :
                  F[a] = s[i][p] /\ F[b] = s[j][q] /\ (i < j \/ (i = j /\ p < q))
            <4>1. \A c, d \in 1..Len(F) : c < d =>
                      \E i, j \in 1..N : \E p \in 1..Len(s[i]) : \E q \in 1..Len(s[j]) :
                          F[c] = s[i][p] /\ F[d] = s[j][q] /\ (i < j \/ (i = j /\ p < q))
                BY <2>7, Zenon DEF Flat
            <4> QED BY <2>12, <4>1, Zenon
        <3>2. PICK p \in 1..Len(s[i]), q \in 1..Len(s[j]) :
                  F[a] = s[i][p] /\ F[b] = s[j][q] /\ (i < j \/ (i = j /\ p < q))
            BY <3>1
        <3>3. CASE i = j /\ p < q
            BY <2>4, <3>2, <3>3 DEF Yields
        <3>4. CASE i < j
            <4>1. PICK x, y : x = s[i][p].index /\ y = s[j][q].index
                OBVIOUS
            <4>2. /\ x \in Seq(Nat) /\ Len(x) = D /\ Leads(index, x) /\ x[n + 1] = i - 1
                  /\ y \in Seq(Nat) /\ Len(y) = D /\ Leads(index, y) /\ y[n + 1] = j - 1
                BY <2>9, <4>1
            <4>3. n < Len(x) /\ n < Len(y) /\ x[n + 1] < y[n + 1]
                BY <1>1, <3>4, <4>2
            <4>4. Before(x, y)
                BY <1>1, <4>2, <4>3, BeforeByChild
            <4> QED BY <3>2, <4>1, <4>4
        <3> QED BY <3>2, <3>3, <3>4
    <2> QED BY <2>8, <2>10, <2>11, <2>12, Zenon DEF Yields
<1> QED BY <1>5, <1>6

\* The whole walk.
LEMMA WalkYields ==
    ASSUME NoMarkerNames, NEW data \in Values, NEW t, Walkable(t, data)
    PROVE  Yields(Transform(t, data).value, t, data, <<>>)
<1>1. WellRooted(t)
    BY DEF Walkable
<1>2. PICK N \in Nat : N = Depth(t)
    BY <1>1, DepthIsNat DEF WellRooted
<1>3. PICK walk : walk = Walk(t, data, Depth(t))
    OBVIOUS
<1>4. \A i \in Indexes(t) : walk[i] = TransformAt(t, data, i, walk)
    BY <1>1, <1>3, TransformIsWalk
<1> DEFINE T == {n \in Nat : n \in 0..N =>
                    \A i \in Upper(t, n) : i \in Level(t, data, Len(i)) =>
                        Yields(walk[i].value, t, data, i)}
<1>5. 0 \in T
    <2>1. ASSUME NEW i \in Upper(t, 0), i \in Level(t, data, Len(i))
          PROVE  Yields(walk[i].value, t, data, i)
        <3>1. i \in Indexes(t) /\ Len(i) = N
            BY <1>2 DEF Upper, Indexes
        <3>2. walk[i] = TransformAt(t, data, i, walk)
            BY <1>4, <3>1
        <3>3. i \in Level(t, data, Depth(t))
            BY <1>2, <2>1, <3>1
        <3> QED BY <3>2, <3>3, ElementYields
    <2> QED BY <2>1
<1>6. ASSUME NEW n \in 0..(N - 1), n \in T
      PROVE  n + 1 \in T
    <2>1. n \in 0..N /\ n \in Nat
        OBVIOUS
    <2>2. \A i \in Upper(t, n) : i \in Level(t, data, Len(i)) => Yields(walk[i].value, t, data, i)
        BY <1>6, <2>1
    <2>3. ASSUME NEW i \in Upper(t, n + 1), i \in Level(t, data, Len(i))
          PROVE  Yields(walk[i].value, t, data, i)
        <3>1. i \in Indexes(t) /\ i \in Seq(Nat) /\ Len(i) >= N - (n + 1) /\ Len(i) <= N
            BY <1>2 DEF Upper, Indexes
        <3>2. walk[i] = TransformAt(t, data, i, walk)
            BY <1>4, <3>1
        <3>3. CASE Len(i) = N
            <4>1. i \in Level(t, data, Depth(t))
                BY <1>2, <2>3, <3>3
            <4> QED BY <3>2, <4>1, ElementYields
        <3>4. CASE Len(i) # N
            <4>1. Len(i) < Depth(t) /\ Depth(t) # 0
                BY <1>2, <3>1, <3>4
            <4>2. t.rootArray # <<>>
                BY <4>1 DEF Depth
            <4>3. ASSUME NEW k \in Nat
                  PROVE  /\ Append(i, k) \in Upper(t, n) /\ Append(i, k) \in Indexes(t)
                         /\ Len(Append(i, k)) = Len(i) + 1
                <5>1. Append(i, k) \in Seq(Nat) /\ Len(Append(i, k)) = Len(i) + 1
                    BY <3>1
                <5>2. Len(i) + 1 <= N /\ Len(i) + 1 >= N - n
                    BY <3>1, <3>4
                <5> QED BY <1>2, <5>1, <5>2 DEF Upper, Indexes
            <4>4. \A k \in Nat : walk[Append(i, k)].value \in Seq(Generated(t, data))
                BY <1>1, <1>3, <4>3, WalkGenerates
            <4>5. \A k \in Nat : Append(i, k) \in Level(t, data, Len(i) + 1) =>
                      Yields(walk[Append(i, k)].value, t, data, Append(i, k))
                BY <2>2, <4>3
            <4> QED BY <3>1, <3>2, <4>1, <4>2, <4>4, <4>5, ArrayYields
        <3> QED BY <3>3, <3>4
    <2> QED BY <2>3
<1> HIDE DEF T
<1>7. \A n \in 0..N : n \in T
    BY <1>5, <1>6, UpTo
<1>8. N \in 0..N /\ N \in T /\ Upper(t, N) = Indexes(t)
    BY <1>2, <1>7 DEF Upper, Indexes
<1>9. <<>> \in Level(t, data, Len(<<>>))
    BY DEF Level
<1>10. Yields(walk[<<>>].value, t, data, <<>>)
    BY <1>1, <1>8, <1>9, TransformIsWalk DEF T
<1> QED BY <1>1, <1>3, <1>10, TransformIsWalk

\* Without a root array, the transformation fails if its one element does.
LEMMA RecordFails ==
    ASSUME NEW data \in Values, NEW t, WellRooted(t), t.rootArray = <<>>
    PROVE  Transform(t, data).isError <=> Valid(t, data, <<>>) /\ MappedKeys(t, data, <<>>).aborted
<1>1. PICK walk : walk = Walk(t, data, Depth(t))
    OBVIOUS
<1>2. Transform(t, data) = TransformAt(t, data, <<>>, walk)
    BY <1>1, TransformIsWalk
<1>3. Len(<<>>) = Depth(t)
    BY DEF Depth
<1>4. CASE ~Valid(t, data, <<>>)
    BY <1>2, <1>3, <1>4 DEF TransformAt, Success
<1>5. CASE Valid(t, data, <<>>)
    <2>1. Transform(t, data) = GenerateResults(t, data, <<>>)
        BY <1>2, <1>3, <1>5 DEF TransformAt
    <2> QED BY <1>5, <2>1 DEF GenerateResults, Success, Failure
<1> QED BY <1>4, <1>5

\* With a root array, it fails if the key of its first array leads to none.
LEMMA ArrayFails ==
    ASSUME NoMarkerNames, NEW data \in Values, NEW t, Walkable(t, data), t.rootArray # <<>>,
           Transform(t, data).isError
    PROVE  \A e \in Reached(data, ArrayKey(t, 0)) : e.of.k # "arr"
<1>1. PICK walk : walk = Walk(t, data, Depth(t))
    OBVIOUS
<1>2. Transform(t, data) = TransformAt(t, data, <<>>, walk)
    BY <1>1, TransformIsWalk DEF Walkable
<1>3. Depth(t) \in Nat /\ Depth(t) > 0
    BY MarkersFinite, FS_CardinalityType DEF Depth, Walkable, WellRooted
<1>4. Len(<<>>) = 0 /\ <<>> \in Seq(Nat) /\ Len(<<>>) # Depth(t) /\ 0 < Depth(t)
    BY <1>3
<1>5. PICK array : array = GetNestedValue(ArrayKey(t, 0), data, <<>>)
    OBVIOUS
<1>6. array.k # "arr"
    <2>1. \A nested : Collected(nested).isError = FALSE
        BY DEF Collected, Success
    <2> QED BY <1>2, <1>4, <1>5, <2>1 DEF TransformAt
<1>7. PICK n \in Nat : n = 0 /\ n < Depth(t)
    BY <1>3
<1>8. PICK p \in 1..Len(t.rootArray) :
          /\ Reached(data, ArrayKey(t, n)) = Reach(data, t.rootArray, Len(t.rootArray))[p]
          /\ Passed(Markers(t.rootArray), p) = n
          /\ ArrayKey(t, n) \in Seq(STRING) /\ ArrayKey(t, n) # <<>>
          /\ Fits(data, ArrayKey(t, n))
    BY <1>7, ArrayKeyReached
<1>9. ASSUME NEW e \in Reached(data, ArrayKey(t, 0))
      PROVE  e.of.k # "arr"
    <2>1. Len(t.rootArray) \in Nat /\ t.rootArray \in Seq(STRING)
        BY DEF Walkable, WellRooted
    <2>2. p \in 0..Len(t.rootArray)
        BY <2>1
    <2>3. Len(e.index) = 0
        BY <1>7, <1>8, <2>1, <2>2, IndexCounts
    <2>4. Leads(e.index, <<>>)
        BY <2>3 DEF Leads
    <2>5. array = e.of
        BY <1>4, <1>5, <1>7, <1>8, <2>4, NestedIsReached
    <2> QED BY <1>6, <2>5
<1> QED BY <1>9

-----------------------------------------------------------------------------
(* Conditions *)

\* The function ValidTransformationCondition defines, for n subexpressions.
IsResult(result, c, data, index, n) ==
    result = [i \in 0..n |->
                 IF i = 0 THEN Holds(c, data, index)
                 ELSE SubExpression(c.subexpressions[i], data, index, result[i - 1])]

Result(c, data, index, n) == CHOOSE result : IsResult(result, c, data, index, n)

LEMMA ResultIs ==
    ASSUME NEW c, NEW data, NEW index, NEW N \in Nat
    PROVE  IsResult(Result(c, data, index, N), c, data, index, N)
<1> DEFINE Is(f, n) == IsResult(f, c, data, index, n)
           T == {n \in Nat : \E f : Is(f, n)}
<1> USE DEF IsResult
<1>1. 0 \in T
    <2> DEFINE f == [j \in 0..0 |-> Holds(c, data, index)]
    <2>1. Is(f, 0)
        <3>1. ASSUME NEW j \in 0..0
              PROVE  f[j] = IF j = 0 THEN Holds(c, data, index)
                            ELSE SubExpression(c.subexpressions[j], data, index, f[j - 1])
            <4>1. j = 0
                OBVIOUS
            <4> QED BY <4>1, Zenon
        <3> QED BY <3>1, Zenon
    <2> HIDE DEF f
    <2> QED BY <2>1
<1>2. ASSUME NEW n \in 0..(N - 1), n \in T
      PROVE  n + 1 \in T
    <2>1. PICK f : Is(f, n)
        BY <1>2
    <2> DEFINE g == [j \in 0..(n + 1) |->
                        IF j = 0 THEN Holds(c, data, index)
                        ELSE SubExpression(c.subexpressions[j], data, index, f[j - 1])]
    <2>2. ASSUME NEW j \in 0..n
          PROVE  g[j] = f[j]
        <3>1. f[j] = IF j = 0 THEN Holds(c, data, index)
                     ELSE SubExpression(c.subexpressions[j], data, index, f[j - 1])
            BY <2>1, Zenon
        <3>2. j \in 0..(n + 1)
            OBVIOUS
        <3> QED BY <3>1, <3>2, Zenon
    <2>3. ASSUME NEW j \in 0..(n + 1)
          PROVE  g[j] = IF j = 0 THEN Holds(c, data, index)
                        ELSE SubExpression(c.subexpressions[j], data, index, g[j - 1])
        <3>1. CASE j = 0
            BY <3>1, Zenon
        <3>2. CASE j # 0
            <4>1. j - 1 \in 0..n
                BY <3>2
            <4>2. g[j - 1] = f[j - 1]
                BY <4>1, <2>2
            <4> QED BY <3>2, <4>2, Zenon
        <3> QED BY <3>1, <3>2
    <2>4. Is(g, n + 1)
        BY <2>3, Zenon
    <2> HIDE DEF g
    <2>5. n + 1 \in Nat
        OBVIOUS
    <2> QED BY <2>4, <2>5
<1> HIDE DEF T
<1>3. \A n \in 0..N : n \in T
    BY <1>1, <1>2, UpTo
<1>4. N \in T
    BY <1>3
<1> HIDE DEF IsResult
<1>5. \E f : IsResult(f, c, data, index, N)
    BY <1>4 DEF T
<1> QED BY <1>5, Zenon DEF Result

LEMMA ResultStarts ==
    ASSUME NEW c, NEW data, NEW index, NEW N \in Nat
    PROVE  Result(c, data, index, N)[0] = Holds(c, data, index)
<1>1. IsResult(Result(c, data, index, N), c, data, index, N)
    BY ResultIs
<1>2. 0 \in 0..N
    OBVIOUS
<1> QED BY <1>1, <1>2, Zenon DEF IsResult

LEMMA ResultGoesOn ==
    ASSUME NEW c, NEW data, NEW index, NEW N \in Nat, NEW n \in 1..N
    PROVE  Result(c, data, index, N)[n]
               = SubExpression(c.subexpressions[n], data, index, Result(c, data, index, N)[n - 1])
<1>1. PICK result : result = Result(c, data, index, N)
    OBVIOUS
<1>2. IsResult(result, c, data, index, N)
    BY <1>1, ResultIs
<1>3. n \in 0..N /\ n # 0
    OBVIOUS
<1>4. result[n] = IF n = 0 THEN Holds(c, data, index)
                  ELSE SubExpression(c.subexpressions[n], data, index, result[n - 1])
    BY <1>2, <1>3, Zenon DEF IsResult
<1>5. result[n] = SubExpression(c.subexpressions[n], data, index, result[n - 1])
    BY <1>3, <1>4, Zenon
<1> QED BY <1>1, <1>5, Zenon

\* The condition and its subexpressions, numbered from 0.
Term(c, i) == IF i = 0 THEN c ELSE c.subexpressions[i]

\* What ConditionHolds asks of the first n subexpressions.
Chain(c, data, index, n) ==
    \E i \in 0..n : /\ i > 0 => c.subexpressions[i].expression = "OR"
                    /\ Holds(Term(c, i), data, index)
                    /\ \A j \in (i + 1)..n :
                          c.subexpressions[j].expression = "AND" => Holds(Term(c, j), data, index)

LEMMA ChainGoesOn ==
    ASSUME NEW c, NEW data, NEW index, NEW n \in Nat, NEW sub, sub = c.subexpressions[n + 1]
    PROVE  /\ sub.expression = "OR" =>
                 (Chain(c, data, index, n + 1)
                      <=> Chain(c, data, index, n) \/ Holds(sub, data, index))
           /\ sub.expression = "AND" =>
                 (Chain(c, data, index, n + 1)
                      <=> Chain(c, data, index, n) /\ Holds(sub, data, index))
           /\ sub.expression \notin {"OR", "AND"} =>
                 (Chain(c, data, index, n + 1) <=> Chain(c, data, index, n))
<1> DEFINE is(i, x) == c.subexpressions[i].expression = x
           holds(i) == Holds(Term(c, i), data, index)
           from(i, m) == /\ i > 0 => is(i, "OR")
                         /\ holds(i)
                         /\ \A j \in (i + 1)..m : is(j, "AND") => holds(j)
<1>1. /\ Chain(c, data, index, n) <=> \E i \in 0..n : from(i, n)
      /\ Chain(c, data, index, n + 1) <=> \E i \in 0..(n + 1) : from(i, n + 1)
    BY Zenon DEF Chain
<1>2. \A x : is(n + 1, x) <=> sub.expression = x
    BY Zenon
<1>3. holds(n + 1) <=> Holds(sub, data, index)
    BY DEF Term
<1> HIDE DEF is, holds
<1>4. ASSUME NEW i \in 0..n
      PROVE  from(i, n + 1) <=> from(i, n) /\ (is(n + 1, "AND") => holds(n + 1))
    <2>1. (i + 1)..(n + 1) = (i + 1)..n \union {n + 1}
        OBVIOUS
    <2> QED BY <2>1
<1>5. from(n + 1, n + 1) <=> is(n + 1, "OR") /\ holds(n + 1)
    OBVIOUS
<1>6. 0..(n + 1) = 0..n \union {n + 1}
    OBVIOUS
<1> HIDE DEF from
<1>7. (\E i \in 0..(n + 1) : from(i, n + 1))
          <=> (\E i \in 0..n : from(i, n + 1)) \/ from(n + 1, n + 1)
    BY <1>6
<1>8. (\E i \in 0..n : from(i, n + 1))
          <=> (\E i \in 0..n : from(i, n)) /\ (is(n + 1, "AND") => holds(n + 1))
    BY <1>4
<1> QED BY <1>1, <1>2, <1>3, <1>5, <1>7, <1>8

\* A condition holds as the reference says.
LEMMA ConditionIsChain ==
    ASSUME NEW c, NEW data, NEW index, NEW S, c.subexpressions \in Seq(S)
    PROVE  ValidTransformationCondition(c, data, index)
               <=> /\ ~Falsy(GetNestedValue(c.key, data, index))
                   /\ Chain(c, data, index, Len(c.subexpressions))
<1>1. PICK N \in Nat : N = Len(c.subexpressions)
    OBVIOUS
<1> DEFINE T == {n \in Nat : n \in 0..N => (Result(c, data, index, N)[n] <=> Chain(c, data, index, n))}
<1>2. 0 \in T
    <2>1. Result(c, data, index, N)[0] = Holds(c, data, index)
        BY ResultStarts
    <2>2. Chain(c, data, index, 0) <=> Holds(c, data, index)
        <3>1. Term(c, 0) = c
            BY DEF Term
        <3> QED BY <3>1 DEF Chain
    <2> QED BY <2>1, <2>2
<1>3. ASSUME NEW n \in 0..(N - 1), n \in T
      PROVE  n + 1 \in T
    <2>1. n \in 0..N /\ n + 1 \in 1..N /\ n + 1 - 1 = n /\ n \in Nat /\ n + 1 \in Nat
        OBVIOUS
    <2>2. PICK r, s, sub : /\ r = Result(c, data, index, N)[n]
                           /\ s = Result(c, data, index, N)[n + 1]
                           /\ sub = c.subexpressions[n + 1]
        BY Zenon
    <2>3. s = SubExpression(sub, data, index, r)
        BY <2>1, <2>2, ResultGoesOn
    <2>4. r <=> Chain(c, data, index, n)
        BY <1>3, <2>1, <2>2
    <2>5. s <=> Chain(c, data, index, n + 1)
        <3>1. CASE sub.expression = "OR"
            <4>1. s = (r \/ Holds(sub, data, index))
                BY <2>3, <3>1 DEF SubExpression
            <4> QED BY <2>1, <2>2, <2>4, <3>1, <4>1, ChainGoesOn
        <3>2. CASE sub.expression = "AND"
            <4>1. s = (r /\ Holds(sub, data, index))
                BY <2>3, <3>2 DEF SubExpression
            <4> QED BY <2>1, <2>2, <2>4, <3>2, <4>1, ChainGoesOn
        <3>3. CASE sub.expression \notin {"OR", "AND"}
            <4>1. s = r
                BY <2>3, <3>3 DEF SubExpression
            <4> QED BY <2>1, <2>2, <2>4, <3>3, <4>1, ChainGoesOn
        <3> QED BY <3>1, <3>2, <3>3
    <2> QED BY <2>1, <2>2, <2>5
<1> HIDE DEF T
<1>4. \A n \in 0..N : n \in T
    BY <1>2, <1>3, UpTo
<1>5. N \in 0..N /\ N \in T
    BY <1>4
<1>6. Result(c, data, index, N)[N] <=> Chain(c, data, index, N)
    BY <1>5 DEF T
<1>7. ValidTransformationCondition(c, data, index)
          <=> ~Falsy(GetNestedValue(c.key, data, index)) /\ Result(c, data, index, N)[N]
    BY <1>1 DEF ValidTransformationCondition, Result, IsResult
<1> QED BY <1>1, <1>6, <1>7

\* A condition, as the assumption has it.
WellFormed(c) ==
    /\ c.key \in Seq(STRING)
    /\ c.subexpressions \in Seq(ToSet(c.subexpressions))
    /\ \A s \in ToSet(c.subexpressions) : s.key \in Seq(STRING)

LEMMA ConditionAgrees ==
    ASSUME NoMarkerNames, NEW data \in Values, NEW c, WellFormed(c), ConditionFits(c, data),
           NEW index \in Seq(Nat)
    PROVE  ValidTransformationCondition(c, data, index) <=> ConditionHolds(c, data, index)
<1>1. PICK N \in Nat : N = Len(c.subexpressions)
    BY DEF WellFormed
<1>2. GetNestedValue(c.key, data, index) = ValueAt(data, c.key, index)
    BY NestedIsValueAt DEF WellFormed, ConditionFits
<1>3. ASSUME NEW i \in 0..N
      PROVE  Holds(Term(c, i), data, index)
                 <=> Compare(Term(c, i).operator, ValueAt(data, Term(c, i).key, index), Term(c, i).value)
    <2>1. Term(c, i).key \in Seq(STRING) /\ Fits(data, Term(c, i).key)
        <3>1. CASE i = 0
            BY <3>1 DEF Term, WellFormed, ConditionFits
        <3>2. CASE i # 0
            <4>1. i \in 1..N /\ DOMAIN c.subexpressions = 1..N
                BY <1>1, <3>2 DEF WellFormed
            <4>2. c.subexpressions[i] \in ToSet(c.subexpressions)
                BY <4>1 DEF ToSet
            <4> QED BY <3>2, <4>2 DEF Term, WellFormed, ConditionFits
        <3> QED BY <3>1, <3>2
    <2>2. PICK s : s = Term(c, i)
        OBVIOUS
    <2>3. GetNestedValue(s.key, data, index) = ValueAt(data, s.key, index)
        BY <2>1, <2>2, NestedIsValueAt
    <2> QED BY <2>2, <2>3, Zenon DEF Holds
<1>4. ConditionHolds(c, data, index)
          <=> /\ ~Falsy(ValueAt(data, c.key, index))
              /\ \E i \in 0..N :
                    /\ i > 0 => c.subexpressions[i].expression = "OR"
                    /\ Compare(Term(c, i).operator, ValueAt(data, Term(c, i).key, index), Term(c, i).value)
                    /\ \A j \in (i + 1)..N : c.subexpressions[j].expression = "AND" =>
                          Compare(Term(c, j).operator, ValueAt(data, Term(c, j).key, index), Term(c, j).value)
    BY <1>1, Zenon DEF ConditionHolds, Term
<1>5. ASSUME NEW i \in 0..N
      PROVE  \A j \in (i + 1)..N : j \in 0..N
    OBVIOUS
<1>6. Chain(c, data, index, N)
          <=> \E i \in 0..N :
                    /\ i > 0 => c.subexpressions[i].expression = "OR"
                    /\ Compare(Term(c, i).operator, ValueAt(data, Term(c, i).key, index), Term(c, i).value)
                    /\ \A j \in (i + 1)..N : c.subexpressions[j].expression = "AND" =>
                          Compare(Term(c, j).operator, ValueAt(data, Term(c, j).key, index), Term(c, j).value)
    BY <1>3, <1>5, Zenon DEF Chain
<1>7. ValidTransformationCondition(c, data, index)
          <=> ~Falsy(GetNestedValue(c.key, data, index)) /\ Chain(c, data, index, N)
    BY <1>1, ConditionIsChain DEF WellFormed
<1> QED BY <1>2, <1>4, <1>6, <1>7, Zenon

LEMMA ValidIsWanted ==
    ASSUME NoMarkerNames, NEW data \in Values, NEW t, NEW index \in Seq(Nat),
           \A c \in t.conditions : WellFormed(c) /\ ConditionFits(c, data)
    PROVE  Valid(t, data, index) <=> Wanted(t, data, index)
BY ConditionAgrees, Zenon DEF Valid, Wanted

-----------------------------------------------------------------------------
(* What the keys say of an element *)

\* The part of Refused that is about key k.
Refuses(t, k, data, index) ==
    \/ /\ k \in Needed(t)
       /\ Unusable(k, data, index)
       /\ \/ t.onExtraction = "fail on required" /\ Missing(k, data, index)
          \/ /\ t.onConversion = "fail on required"
             /\ ~(t.onExtraction = "ignore" /\ Missing(k, data, index))
    \/ k.of = "metadata" /\ k.key = <<>>
    \/ k.of = "relationship" /\ ~k.known

\* The keys of t, as the assumption has them.
WellMapped(t) ==
    /\ t.keys \in Seq(ToSet(t.keys))
    /\ \A k \in ToSet(t.keys) : k.of \in Kinds /\ k.key \in Seq(STRING)
    /\ t.onExtraction \in {"fail", "fail on required", "ignore"}
    /\ t.onConversion \in {"fail", "fail on required", "ignore"}

KeysFit(t, data) == \A k \in ToSet(t.keys) : Fits(data, k.key)

\* What a step over a property's key comes to, whatever the actions.
LEMMA OutcomeOfAnyProperty ==
    ASSUME NEW t, WellMapped(t), NEW k \in ToSet(t.keys), k.of # "metadata",
           NEW data, NEW index, NEW acc,
           GetNestedValue(k.key, data, index) = ValueAt(data, k.key, index)
    PROVE  LET r == MapProperty(t, k, data, index, acc)
               static == Put(acc, k.of, k.name, k.value)
           IN  \/ r = Abort(acc) /\ Refuses(t, k, data, index)
               \/ /\ ~Refuses(t, k, data, index)
                  /\ \/ r = acc /\ ~k.known
                     \/ r = static /\ (k.key = <<>> \/ Unusable(k, data, index))
                     \/ r = Noted(static, k) /\ Unusable(k, data, index)
                     \/ r = Put(static, k.of, k.name,
                                ConvertValue(k.type, Source(k, data, index)).value)
<1> DEFINE r == MapProperty(t, k, data, index, acc)
           static == Put(acc, k.of, k.name, k.value)
           value == Source(k, data, index)
           missing == Missing(k, data, index)
           conversion == ConvertValue(k.type, value)
           extraction == ErrorAction(t.onExtraction, k.required)
           afterwards == ErrorAction(t.onConversion, k.required)
           refuses == Refuses(t, k, data, index)
<1>1. /\ extraction = "abort" <=> t.onExtraction = "fail on required" /\ k.required
      /\ extraction = "skip" <=>
            t.onExtraction = "ignore" \/ (t.onExtraction = "fail on required" /\ ~k.required)
      /\ afterwards = "abort" <=> t.onConversion = "fail on required" /\ k.required
    BY DEF ErrorAction, WellMapped
<1>2. missing => Unusable(k, data, index)
    BY DEF Missing, Unusable, ConvertValue, Undefined
<1>3. Unusable(k, data, index) <=> conversion.res = "error"
    BY DEF Unusable
<1>4. k \in Needed(t) <=> k.known /\ k.required /\ (k.of = "relationship" => k.key # <<>>)
    BY DEF Needed
<1>5. CASE ~k.known
    <2>1. refuses <=> k.of = "relationship"
        BY <1>4, <1>5 DEF Refuses
    <2>2. r = IF k.of = "relationship" THEN Abort(acc) ELSE acc
        BY <1>5 DEF MapProperty
    <2> QED BY <1>5, <2>1, <2>2
<1>6. CASE k.known /\ k.of = "relationship" /\ k.key = <<>>
    <2>1. ~refuses
        BY <1>4, <1>6 DEF Refuses
    <2>2. r = static
        BY <1>6, Zenon DEF MapProperty, Put
    <2> QED BY <1>6, <2>1, <2>2
<1>7. CASE k.known /\ ~(k.of = "relationship" /\ k.key = <<>>)
    <2>1. r = CASE missing /\ extraction = "abort" -> Abort(acc)
                [] missing /\ extraction = "skip" -> static
                [] OTHER -> IF conversion.res # "error"
                            THEN Put(static, k.of, k.name, conversion.value)
                            ELSE IF afterwards = "abort" THEN Abort(acc) ELSE Noted(static, k)
        <3>1. value = IF k.key = <<>> THEN k.value ELSE GetNestedValue(k.key, data, index)
            BY DEF Source
        <3>2. missing <=> k.key # <<>> /\ value = Undefined
            BY DEF Missing
        <3> HIDE DEF missing, value
        <3> QED BY <1>7, <3>1, <3>2 DEF MapProperty, Put, Noted
    <2>2. refuses <=> /\ k.required /\ Unusable(k, data, index)
                      /\ \/ t.onExtraction = "fail on required" /\ missing
                         \/ t.onConversion = "fail on required" /\ ~(t.onExtraction = "ignore" /\ missing)
        BY <1>4, <1>7 DEF Refuses
    <2> HIDE DEF missing, conversion, extraction, afterwards, refuses, r, static
    <2>3. CASE missing /\ extraction = "abort"
        <3>1. r = Abort(acc)
            BY <2>1, <2>3
        <3> QED BY <1>1, <1>2, <2>2, <2>3, <3>1 DEF r, refuses
    <2>4. CASE missing /\ extraction = "skip"
        <3>1. extraction # "abort"
            BY <2>4
        <3>2. r = static
            BY <2>1, <2>4, <3>1
        <3>3. ~refuses
            BY <1>1, <2>2, <2>4
        <3> QED BY <1>2, <2>4, <3>2, <3>3 DEF r, refuses, static
    <2>5. CASE ~(missing /\ extraction = "abort") /\ ~(missing /\ extraction = "skip")
        <3>1. r = IF conversion.res # "error"
                  THEN Put(static, k.of, k.name, conversion.value)
                  ELSE IF afterwards = "abort" THEN Abort(acc) ELSE Noted(static, k)
            BY <2>1, <2>5
        <3>2. CASE conversion.res # "error"
            <4>1. r = Put(static, k.of, k.name, conversion.value)
                BY <3>1, <3>2
            <4>2. ~refuses
                BY <1>3, <2>2, <3>2
            <4> QED BY <4>1, <4>2 DEF r, refuses, static, conversion
        <3>3. CASE conversion.res = "error" /\ afterwards = "abort"
            <4>1. r = Abort(acc)
                BY <3>1, <3>3
            <4>2. refuses
                BY <1>1, <1>3, <2>2, <2>5, <3>3
            <4> QED BY <4>1, <4>2 DEF r, refuses
        <3>4. CASE conversion.res = "error" /\ afterwards # "abort"
            <4>1. r = Noted(static, k)
                BY <3>1, <3>4
            <4>2. ~refuses
                BY <1>1, <1>3, <2>2, <2>5, <3>4
            <4> QED BY <1>3, <3>4, <4>1, <4>2 DEF r, refuses, static
        <3> QED BY <3>2, <3>3, <3>4
    <2> QED BY <2>3, <2>4, <2>5
<1> QED BY <1>5, <1>6, <1>7

\* A property that the payload has a usable value for has that value.
Owns(k, data, index, props) ==
    k.of # "metadata" /\ k.known /\ k.key # <<>> /\ ~Unusable(k, data, index) =>
        /\ k.name \in DOMAIN props[k.of]
        /\ props[k.of][k.name] = ConvertValue(k.type, ValueAt(data, k.key, index)).value

OwnMetadata(data, index, props) ==
    \A y \in DOMAIN props["metadata"] : props["metadata"][y] = ValueAt(data, y, index)

\* No two keys of t set the same property.
Distinct(t) ==
    \A i, j \in DOMAIN t.keys :
        /\ t.keys[i].of # "metadata" /\ t.keys[j].of = t.keys[i].of
        /\ t.keys[j].name = t.keys[i].name
        => i = j

\* What holds after the first i keys.
Follows(t, data, index, i, acc) ==
    /\ Shaped(acc)
    /\ acc.aborted = TRUE <=> \E j \in 1..i : Refuses(t, t.keys[j], data, index)
    /\ OwnMetadata(data, index, acc.props)
    /\ acc.aborted = TRUE \/ (Distinct(t) => \A j \in 1..i : Owns(t.keys[j], data, index, acc.props))

\* Setting a property leaves the other kinds and the other names alone.
LEMMA PutLeaves ==
    ASSUME NEW acc, Shaped(acc), NEW o \in Kinds, NEW x, NEW v
    PROVE  /\ \A p \in Kinds : p # o => Put(acc, o, x, v).props[p] = acc.props[p]
           /\ \A y \in DOMAIN acc.props[o] : y # x =>
                 /\ y \in DOMAIN Put(acc, o, x, v).props[o]
                 /\ Put(acc, o, x, v).props[o][y] = acc.props[o][y]
           /\ \A y \in DOMAIN Put(acc, o, x, v).props[o] : y = x \/ y \in DOMAIN acc.props[o]
<1> DEFINE old == acc.props[o]
           q == With(old, x, v)
           r == Put(acc, o, x, v)
<1>1. /\ \A y \in DOMAIN old : y # x => y \in DOMAIN q /\ q[y] = old[y]
      /\ \A y \in DOMAIN q : y = x \/ y \in DOMAIN old
    BY DEF With
<1> HIDE DEF q
<1>2. r.props = [acc.props EXCEPT ![o] = q]
    BY DEF Shaped, Put, q
<1>3. r.props[o] = q /\ \A p \in Kinds : p # o => r.props[p] = acc.props[p]
    BY <1>2 DEF Shaped
<1> QED BY <1>1, <1>3

LEMMA KeysTyped ==
    ASSUME NEW t, WellMapped(t)
    PROVE  /\ Len(t.keys) \in Nat /\ DOMAIN t.keys = 1..Len(t.keys)
           /\ \A j \in 1..Len(t.keys) :
                 t.keys[j] \in ToSet(t.keys) /\ t.keys[j].of \in Kinds /\ t.keys[j].key \in Seq(STRING)
<1>1. t.keys \in Seq(ToSet(t.keys))
    BY DEF WellMapped
<1>2. Len(t.keys) \in Nat /\ DOMAIN t.keys = 1..Len(t.keys)
    BY <1>1
<1>3. \A j \in 1..Len(t.keys) : t.keys[j] \in ToSet(t.keys)
    BY <1>2 DEF ToSet
<1> QED BY <1>2, <1>3 DEF WellMapped

\* Setting the next key's property keeps what the earlier keys own.
LEMMA EarlierOwn ==
    ASSUME NEW t, WellMapped(t), NEW i \in 0..(Len(t.keys) - 1), NEW acc, Shaped(acc),
           NEW data, NEW index, NEW k, k = t.keys[i + 1], k.of # "metadata", NEW v,
           Distinct(t), \A j \in 1..i : Owns(t.keys[j], data, index, acc.props)
    PROVE  \A j \in 1..i : Owns(t.keys[j], data, index, Put(acc, k.of, k.name, v).props)
<1>1. Len(t.keys) \in Nat /\ DOMAIN t.keys = 1..Len(t.keys)
    BY KeysTyped
<1>2. i + 1 \in DOMAIN t.keys /\ k.of \in Kinds
    BY <1>1, KeysTyped
<1>3. ASSUME NEW j \in 1..i
      PROVE  Owns(t.keys[j], data, index, Put(acc, k.of, k.name, v).props)
    <2>1. PICK h : h = t.keys[j]
        OBVIOUS
    <2>2. j \in DOMAIN t.keys /\ j # i + 1
        BY <1>1
    <2>3. h.of \in Kinds
        BY <1>1, <2>1, <2>2, KeysTyped
    <2>4. h.of # "metadata" => h.of # k.of \/ h.name # k.name
        BY <1>2, <2>1, <2>2 DEF Distinct
    <2>5. Owns(h, data, index, acc.props)
        BY <2>1
    <2>6. Owns(h, data, index, Put(acc, k.of, k.name, v).props)
        BY <1>2, <2>3, <2>4, <2>5, PutLeaves DEF Owns
    <2> QED BY <2>1, <2>6
<1> QED BY <1>3

LEMMA AbortShapes ==
    ASSUME NEW acc, Shaped(acc)
    PROVE  Shaped(Abort(acc)) /\ Abort(acc).aborted = TRUE /\ Abort(acc).props = acc.props
<1>1. PICK p, f, b : acc = [props |-> p, failed |-> f, aborted |-> b]
    BY Zenon DEF Shaped
<1>2. p = [o \in Kinds |-> p[o]]
    BY <1>1 DEF Shaped
<1>3. PICK c : c = TRUE
    OBVIOUS
<1>4. Abort(acc) = [acc EXCEPT !.aborted = c]
    BY <1>3, Zenon DEF Abort
<1>5. PICK r : r = [props |-> p, failed |-> f, aborted |-> c]
    OBVIOUS
<1>6. Abort(acc) = r
    BY <1>1, <1>4, <1>5
<1>7. r.props = p /\ r.failed = f /\ r.aborted = c
    BY <1>5
<1>8. r = [props |-> r.props, failed |-> r.failed, aborted |-> r.aborted]
    BY <1>5, <1>7
<1>9. r.props = [o \in Kinds |-> r.props[o]]
    BY <1>2, <1>7
<1>10. Shaped(r)
    BY <1>3, <1>7, <1>8, <1>9 DEF Shaped
<1>11. acc.props = p
    BY <1>1
<1> QED BY <1>3, <1>6, <1>7, <1>10, <1>11

LEMMA KeyFollows ==
    ASSUME NoMarkerNames, NEW data \in Values, NEW t, WellMapped(t), KeysFit(t, data),
           NEW index \in Seq(Nat), NEW i \in 0..(Len(t.keys) - 1), NEW acc,
           Follows(t, data, index, i, acc)
    PROVE  Follows(t, data, index, i + 1, MapKey(t, t.keys[i + 1], data, index, acc))
<1>1. PICK k : k = t.keys[i + 1]
    OBVIOUS
<1>2. k \in ToSet(t.keys) /\ k.of \in Kinds /\ k.key \in Seq(STRING)
    <2>1. Len(t.keys) \in Nat
        BY KeysTyped
    <2>2. i + 1 \in 1..Len(t.keys)
        BY <2>1
    <2> QED BY <1>1, <2>2, KeysTyped
<1> DEFINE r == MapKey(t, k, data, index, acc)
<1> SUFFICES Follows(t, data, index, i + 1, r)
    BY <1>1
<1>3. 1..(i + 1) = 1..i \union {i + 1}
    OBVIOUS
<1>4. Shaped(acc) /\ OwnMetadata(data, index, acc.props)
    BY DEF Follows
<1>5. GetNestedValue(k.key, data, index) = ValueAt(data, k.key, index)
    BY <1>2, NestedIsValueAt DEF KeysFit
<1>6. (\E j \in 1..(i + 1) : Refuses(t, t.keys[j], data, index))
          <=> acc.aborted = TRUE \/ Refuses(t, k, data, index)
    BY <1>1, <1>3 DEF Follows
<1>7. CASE acc.aborted = TRUE
    <2>1. r = acc
        BY <1>7 DEF MapKey
    <2> QED BY <1>4, <1>6, <1>7, <2>1 DEF Follows
<1>8. CASE acc.aborted = FALSE
    <2>1. Distinct(t) => \A j \in 1..i : Owns(t.keys[j], data, index, acc.props)
        BY <1>8 DEF Follows
    <2>2. ASSUME Shaped(r), r.aborted = FALSE, ~Refuses(t, k, data, index),
                 OwnMetadata(data, index, r.props), Distinct(t) => Owns(k, data, index, r.props),
                 Distinct(t) => \A j \in 1..i : Owns(t.keys[j], data, index, r.props)
          PROVE  Follows(t, data, index, i + 1, r)
        BY <1>1, <1>3, <1>6, <1>8, <2>2 DEF Follows
    <2>3. ASSUME r = Abort(acc), Refuses(t, k, data, index)
          PROVE  Follows(t, data, index, i + 1, r)
        <3>1. Shaped(r) /\ r.aborted = TRUE /\ r.props = acc.props
            BY <1>4, <2>3, AbortShapes
        <3> QED BY <1>4, <1>6, <2>3, <3>1 DEF Follows
    <2>4. CASE k.of = "metadata"
        <3>1. r = MapMetadata(t, k, data, index, acc)
            BY <1>8, <2>4 DEF MapKey
        <3>2. Refuses(t, k, data, index) <=> k.key = <<>>
            BY <2>4 DEF Refuses, Needed
        <3>3. \/ k.key = <<>> /\ r = Abort(acc)
              \/ k.key # <<>> /\ r = acc
              \/ k.key # <<>> /\ r = Put(acc, "metadata", k.key, ValueAt(data, k.key, index))
            BY <1>5, <3>1 DEF MapMetadata, Put
        <3>4. Owns(k, data, index, r.props)
            BY <2>4 DEF Owns
        <3>5. CASE k.key = <<>> /\ r = Abort(acc)
            BY <2>3, <3>2, <3>5
        <3>6. CASE k.key # <<>> /\ r = acc
            BY <1>4, <1>8, <2>1, <2>2, <3>2, <3>4, <3>6
        <3>7. CASE k.key # <<>> /\ r = Put(acc, "metadata", k.key, ValueAt(data, k.key, index))
            <4>1. "metadata" \in Kinds
                BY DEF Kinds
            <4>2. PICK v : v = ValueAt(data, k.key, index)
                OBVIOUS
            <4>3. r = Put(acc, "metadata", k.key, v)
                BY <3>7, <4>2
            <4>4. Shaped(r) /\ r.aborted = FALSE /\ r.props["metadata"][k.key] = v
                BY <1>4, <1>8, <4>1, <4>3, PutSets
            <4>5. /\ \A p \in Kinds : p # "metadata" => r.props[p] = acc.props[p]
                  /\ \A y \in DOMAIN acc.props["metadata"] : y # k.key =>
                        r.props["metadata"][y] = acc.props["metadata"][y]
                  /\ \A y \in DOMAIN r.props["metadata"] : y = k.key \/ y \in DOMAIN acc.props["metadata"]
                BY <1>4, <4>1, <4>3, PutLeaves
            <4>6. OwnMetadata(data, index, r.props)
                BY <1>4, <4>2, <4>4, <4>5 DEF OwnMetadata
            <4>7. ASSUME NEW j \in 1..i, Owns(t.keys[j], data, index, acc.props)
                  PROVE  Owns(t.keys[j], data, index, r.props)
                <5>1. Len(t.keys) \in Nat
                    BY KeysTyped
                <5>2. t.keys[j].of \in Kinds
                    BY <5>1, KeysTyped
                <5> QED BY <4>5, <4>7, <5>2 DEF Owns
            <4> QED BY <2>1, <2>2, <3>2, <3>4, <3>7, <4>4, <4>6, <4>7
        <3> QED BY <3>3, <3>5, <3>6, <3>7
    <2>5. CASE k.of # "metadata"
        <3> DEFINE static == Put(acc, k.of, k.name, k.value)
        <3>1. r = MapProperty(t, k, data, index, acc)
            BY <1>8, <2>5 DEF MapKey
        <3>2. \/ r = Abort(acc) /\ Refuses(t, k, data, index)
              \/ /\ ~Refuses(t, k, data, index)
                 /\ \/ r = acc /\ ~k.known
                    \/ r = static /\ (k.key = <<>> \/ Unusable(k, data, index))
                    \/ r = Noted(static, k) /\ Unusable(k, data, index)
                    \/ r = Put(static, k.of, k.name, ConvertValue(k.type, Source(k, data, index)).value)
            BY <1>2, <1>5, <2>5, <3>1, OutcomeOfAnyProperty
        <3>3. ASSUME NEW b, Shaped(b), b.aborted = FALSE, OwnMetadata(data, index, b.props),
                     Distinct(t) => \A j \in 1..i : Owns(t.keys[j], data, index, b.props), NEW v
              PROVE  /\ Shaped(Put(b, k.of, k.name, v)) /\ Put(b, k.of, k.name, v).aborted = FALSE
                     /\ OwnMetadata(data, index, Put(b, k.of, k.name, v).props)
                     /\ Distinct(t) =>
                           \A j \in 1..i : Owns(t.keys[j], data, index, Put(b, k.of, k.name, v).props)
            <4>1. "metadata" \in Kinds /\ k.of # "metadata"
                BY <2>5 DEF Kinds
            <4>2. Put(b, k.of, k.name, v).props["metadata"] = b.props["metadata"]
                BY <1>2, <3>3, <4>1, PutLeaves
            <4>3. OwnMetadata(data, index, Put(b, k.of, k.name, v).props)
                BY <3>3, <4>2 DEF OwnMetadata
            <4>4. Shaped(Put(b, k.of, k.name, v)) /\ Put(b, k.of, k.name, v).aborted = FALSE
                BY <1>2, <3>3, PutSets
            <4>5. Distinct(t) =>
                      \A j \in 1..i : Owns(t.keys[j], data, index, Put(b, k.of, k.name, v).props)
                BY <1>1, <3>3, <4>1, EarlierOwn
            <4> QED BY <4>3, <4>4, <4>5
        <3>4. /\ Shaped(static) /\ static.aborted = FALSE
              /\ OwnMetadata(data, index, static.props)
              /\ Distinct(t) => \A j \in 1..i : Owns(t.keys[j], data, index, static.props)
            BY <1>4, <1>8, <2>1, <3>3
        <3>5. k.key # <<>> => Source(k, data, index) = ValueAt(data, k.key, index)
            BY DEF Source
        <3> HIDE DEF static, r
        <3>6. CASE r = Abort(acc) /\ Refuses(t, k, data, index)
            BY <2>3, <3>6
        <3>7. CASE r = acc /\ ~k.known /\ ~Refuses(t, k, data, index)
            <4>1. Owns(k, data, index, r.props)
                BY <3>7 DEF Owns
            <4> QED BY <1>4, <1>8, <2>1, <2>2, <3>7, <4>1
        <3>8. CASE /\ r = static /\ (k.key = <<>> \/ Unusable(k, data, index))
                   /\ ~Refuses(t, k, data, index)
            <4>1. Owns(k, data, index, r.props)
                BY <3>8 DEF Owns
            <4> QED BY <2>2, <3>4, <3>8, <4>1
        <3>9. CASE /\ r = Noted(static, k) /\ Unusable(k, data, index)
                   /\ ~Refuses(t, k, data, index)
            <4>1. Shaped(r) /\ r.props = static.props /\ r.aborted = FALSE
                BY <3>4, <3>9 DEF Noted, Shaped
            <4>2. Owns(k, data, index, r.props)
                BY <3>9 DEF Owns
            <4> QED BY <2>2, <3>4, <3>9, <4>1, <4>2
        <3>10. ASSUME r = Put(static, k.of, k.name, ConvertValue(k.type, Source(k, data, index)).value),
                      ~Refuses(t, k, data, index)
               PROVE  Follows(t, data, index, i + 1, r)
            <4>1. PICK v : v = ConvertValue(k.type, Source(k, data, index)).value
                OBVIOUS
            <4>2. r = Put(static, k.of, k.name, v)
                BY <3>10, <4>1
            <4>3. /\ Shaped(r) /\ r.aborted = FALSE
                  /\ OwnMetadata(data, index, r.props)
                  /\ Distinct(t) => \A j \in 1..i : Owns(t.keys[j], data, index, r.props)
                BY <3>3, <3>4, <4>2
            <4>4. k.name \in DOMAIN r.props[k.of] /\ r.props[k.of][k.name] = v
                BY <1>2, <3>4, <4>2, PutSets
            <4>5. Owns(k, data, index, r.props)
                BY <3>5, <4>1, <4>4 DEF Owns
            <4> QED BY <2>2, <3>10, <4>3, <4>5
        <3> QED BY <3>2, <3>6, <3>7, <3>8, <3>9, <3>10
    <2> QED BY <2>4, <2>5
<1> QED BY <1>4, <1>7, <1>8 DEF Shaped

LEMMA AfterFollows ==
    ASSUME NoMarkerNames, NEW data \in Values, NEW t, WellMapped(t), KeysFit(t, data),
           NEW index \in Seq(Nat), NEW N \in Nat, N = Len(t.keys)
    PROVE  Follows(t, data, index, N, After(t, data, index, N)[N])
<1> DEFINE after == After(t, data, index, N)
<1>1. ASSUME NEW i \in 0..N
      PROVE  after[i] = IF i = 0 THEN NothingMapped
                        ELSE MapKey(t, t.keys[i], data, index, after[i - 1])
    <2>1. IsAfter(after, t, data, index, N)
        BY AfterIs
    <2> HIDE DEF after
    <2> QED BY <2>1, Zenon DEF IsAfter
<1> HIDE DEF after
<1> DEFINE T == {n \in Nat : n \in 0..N => Follows(t, data, index, n, after[n])}
<1>2. 0 \in T
    <2>1. after[0] = NothingMapped
        BY <1>1
    <2>2. Shaped(NothingMapped) /\ NothingMapped.aborted = FALSE
        BY DEF NothingMapped, Shaped, Kinds
    <2>3. OwnMetadata(data, index, NothingMapped.props)
        BY DEF OwnMetadata, NothingMapped
    <2>4. 1..0 = {}
        OBVIOUS
    <2>5. Follows(t, data, index, 0, NothingMapped)
        BY <2>2, <2>3, <2>4 DEF Follows
    <2> QED BY <2>1, <2>5
<1>3. ASSUME NEW n \in 0..(N - 1), n \in T
      PROVE  n + 1 \in T
    <2>1. n + 1 \in 0..N /\ n \in 0..N /\ n + 1 - 1 = n /\ n + 1 # 0
        OBVIOUS
    <2>2. after[n + 1] = MapKey(t, t.keys[n + 1], data, index, after[n])
        BY <1>1, <2>1
    <2>3. Follows(t, data, index, n, after[n])
        BY <1>3, <2>1
    <2>4. Follows(t, data, index, n + 1, after[n + 1])
        BY <2>2, <2>3, KeyFollows
    <2> QED BY <2>1, <2>4
<1> HIDE DEF T
<1>4. \A n \in 0..N : n \in T
    BY <1>2, <1>3, UpTo
<1>5. N \in 0..N /\ N \in T
    BY <1>4
<1> QED BY <1>5 DEF T, after

\* The loop over the keys is aborted if one of them refuses the element; else
\* the properties are the element's own.
LEMMA MappedKeysFollow ==
    ASSUME NoMarkerNames, NEW data \in Values, NEW t, WellMapped(t), KeysFit(t, data),
           NEW index \in Seq(Nat)
    PROVE  LET mapped == MappedKeys(t, data, index)
           IN  /\ mapped.aborted <=> Refused(t, data, index)
               /\ OwnMetadata(data, index, mapped.props)
               /\ ~mapped.aborted /\ Distinct(t) =>
                     \A k \in ToSet(t.keys) : Owns(k, data, index, mapped.props)
<1>1. PICK N \in Nat : N = Len(t.keys) /\ DOMAIN t.keys = 1..N
    BY KeysTyped
<1>2. PICK mapped : mapped = MappedKeys(t, data, index)
    OBVIOUS
<1>3. mapped = After(t, data, index, N)[N]
    BY <1>1, <1>2 DEF MappedKeys, After, IsAfter
<1>4. Follows(t, data, index, N, mapped)
    BY <1>1, <1>3, AfterFollows
<1>5. mapped.aborted \in BOOLEAN
    BY <1>4 DEF Follows, Shaped
<1>6. ToSet(t.keys) = {t.keys[j] : j \in 1..N}
    BY <1>1 DEF ToSet
<1>7. mapped.aborted = TRUE <=> \E k \in ToSet(t.keys) : Refuses(t, k, data, index)
    BY <1>4, <1>6 DEF Follows
<1>8. (\E k \in ToSet(t.keys) : Refuses(t, k, data, index)) <=> Refused(t, data, index)
    <2>1. \A k \in Needed(t) : k \in ToSet(t.keys)
        BY DEF Needed
    <2> QED BY <2>1, Zenon DEF Refuses, Refused
<1>9. mapped.aborted = TRUE \/ (Distinct(t) => \A j \in 1..N : Owns(t.keys[j], data, index, mapped.props))
    BY <1>4 DEF Follows
<1>10. ~mapped.aborted /\ Distinct(t) => \A k \in ToSet(t.keys) : Owns(k, data, index, mapped.props)
    BY <1>6, <1>9
<1>11. mapped.aborted <=> mapped.aborted = TRUE
    BY <1>5
<1> QED BY <1>2, <1>4, <1>7, <1>8, <1>10, <1>11 DEF Follows

-----------------------------------------------------------------------------
(* The elements and values of a transformation *)

\* What MarkersFit and the assumption say of one transformation of a record.
Agreeable(t, data) ==
    /\ data \in Values
    /\ Walkable(t, data)
    /\ WellMapped(t)
    /\ KeysFit(t, data)
    /\ \A c \in t.conditions : WellFormed(c) /\ ConditionFits(c, data)

LEMMA AllAgreeable ==
    ASSUME MarkersFit, NEW m \in Mappings, NEW i \in 1..Len(m), NEW data \in Payloads
    PROVE  Agreeable(m[i], data)
<1>1. PICK t : t = m[i]
    OBVIOUS
<1>2. t \in ToSet(m)
    <2>1. m \in Seq(ToSet(m))
        BY TransformationAssumption DEF TransformationAssumption
    <2> QED BY <1>1, <2>1
<1>3. /\ RootFits(t) /\ Fits(data, t.rootArray)
      /\ \A k \in ToSet(t.keys) : Fits(data, k.key)
      /\ \A c \in t.conditions : ConditionFits(c, data)
    BY <1>2 DEF MarkersFit
<1>4. data \in Values
    BY TransformationAssumption DEF TransformationAssumption
<1>5. WellRooted(t) /\ WellMapped(t) /\ \A c \in t.conditions : WellFormed(c)
    BY <1>2, TransformationAssumption
    DEF TransformationAssumption, WellRooted, WellMapped, WellFormed, Kinds
<1>6. Agreeable(t, data)
    BY <1>3, <1>4, <1>5 DEF Agreeable, Walkable, KeysFit
<1> QED BY <1>1, <1>6

\* The elements that generate are those that are due.
LEMMA GoodAreDue ==
    ASSUME NoMarkerNames, NEW t, NEW data, Agreeable(t, data), NEW ix
    PROVE  ix \in Level(t, data, Depth(t)) /\ Good(t, data, ix) <=> ix \in Due(t, data)
<1>1. data \in Values /\ Walkable(t, data) /\ WellRooted(t)
    BY DEF Agreeable, Walkable
<1>2. ASSUME ix \in Level(t, data, Depth(t))
      PROVE  Good(t, data, ix) <=> Wanted(t, data, ix) /\ ~Refused(t, data, ix)
    <2>1. ix \in Seq(Nat)
        BY <1>1, <1>2, ElementIsTyped
    <2>2. Valid(t, data, ix) <=> Wanted(t, data, ix)
        BY <1>1, <2>1, ValidIsWanted DEF Agreeable
    <2>3. MappedKeys(t, data, ix).aborted <=> Refused(t, data, ix)
        BY <1>1, <2>1, MappedKeysFollow DEF Agreeable
    <2> QED BY <2>2, <2>3 DEF Good
<1>3. ix \in Level(t, data, Depth(t)) <=> \E e \in ElementsOf(t, data) : e.index = ix
    BY <1>1, ElementsAreLevel
<1>4. ix \in Due(t, data)
          <=> \E e \in ElementsOf(t, data) :
                 Wanted(t, data, e.index) /\ ~Refused(t, data, e.index) /\ e.index = ix
    BY Zenon DEF Due
<1> QED BY <1>2, <1>3, <1>4

\* One item for every element that is due, in order.
LEMMA TransformMakesDue ==
    ASSUME NoMarkerNames, NEW t, NEW data, Agreeable(t, data), NEW items,
           items = Transform(t, data).value
    PROVE  /\ {items[a].index : a \in 1..Len(items)} = Due(t, data)
           /\ \A a, b \in 1..Len(items) : a < b => Before(items[a].index, items[b].index)
<1>1. Yields(items, t, data, <<>>)
    BY WalkYields DEF Agreeable
<1>2. ASSUME NEW a \in 1..Len(items)
      PROVE  items[a].index \in Due(t, data)
    BY <1>1, GoodAreDue DEF Yields
<1>3. ASSUME NEW ix \in Due(t, data)
      PROVE  \E a \in 1..Len(items) : items[a].index = ix
    <2>1. ix \in Level(t, data, Depth(t)) /\ Good(t, data, ix)
        BY GoodAreDue
    <2>2. Leads(<<>>, ix)
        <3>1. ix \in Seq(Nat)
            BY <2>1, ElementIsTyped DEF Agreeable
        <3> QED BY <3>1 DEF Leads
    <2> QED BY <1>1, <2>1, <2>2, Zenon DEF Yields
<1>4. \A a, b \in 1..Len(items) : a < b => Before(items[a].index, items[b].index)
    BY <1>1, Zenon DEF Yields
<1> QED BY <1>2, <1>3, <1>4

\* What OnePerElement asks of a transformation that failed.
LEMMA FailureIsDue ==
    ASSUME NoMarkerNames, NEW t, NEW data, Agreeable(t, data), Transform(t, data).isError
    PROVE  IF t.rootArray = <<>> THEN Refused(t, data, <<>>)
           ELSE \A e \in Reached(data, ArrayKey(t, 0)) : e.of.k # "arr"
<1>1. CASE t.rootArray = <<>>
    <2>1. MappedKeys(t, data, <<>>).aborted
        BY <1>1, RecordFails DEF Agreeable, Walkable
    <2>2. <<>> \in Seq(Nat)
        OBVIOUS
    <2>3. Refused(t, data, <<>>)
        BY <2>1, <2>2, MappedKeysFollow DEF Agreeable
    <2> QED BY <1>1, <2>3
<1>2. CASE t.rootArray # <<>>
    <2>1. \A e \in Reached(data, ArrayKey(t, 0)) : e.of.k # "arr"
        BY <1>2, ArrayFails DEF Agreeable
    <2> QED BY <1>2, <2>1
<1> QED BY <1>1, <1>2

-----------------------------------------------------------------------------
(* GenerateNodes and GenerateEdges *)

\* What the transformations applied so far can have made.
Made(m) == {[by |-> m, item |-> x] : x \in Generated(mapping[m], payload)}

Produced == UNION {Made(m) : m \in {n \in 1..(next - 1) : Selected(mapping[n])}}

\* The inductive invariant: every result is what the transformation it names
\* makes of the record, and that transformation belongs to the pass.
Inv ==
    /\ pass \in {"node", "edge"}
    /\ payload \in Payloads
    /\ mapping \in Mappings
    /\ next \in 1..(Len(mapping) + 1)
    /\ results \in Seq(Produced)
    /\ failed \subseteq 1..(next - 1)
    /\ error \in failed \union {0}

LEMMA MappingIsSeq ==
    ASSUME NEW m \in Mappings
    PROVE  /\ m \in Seq(ToSet(m))
           /\ \A i \in 1..Len(m) : WellRooted(m[i]) /\ m[i].keys \in Seq(ToSet(m[i].keys))
<1>1. m \in Seq(ToSet(m))
    BY TransformationAssumption DEF TransformationAssumption
<1>2. ASSUME NEW i \in 1..Len(m)
      PROVE  m[i] \in ToSet(m)
    BY <1>1
<1>3. \A t \in ToSet(m) : WellRooted(t) /\ t.keys \in Seq(ToSet(t.keys))
    BY TransformationAssumption DEF TransformationAssumption, WellRooted
<1> QED BY <1>1, <1>2, <1>3

LEMMA InitInv == Init => Inv
<1> SUFFICES ASSUME Init
             PROVE  Inv
    OBVIOUS
<1>1. mapping \in Seq(ToSet(mapping))
    BY MappingIsSeq DEF Init
<1>2. Len(mapping) \in Nat
    BY <1>1
<1>3. results \in Seq(Produced)
    BY DEF Init
<1> QED BY <1>2, <1>3 DEF Init, Inv

LEMMA ApplyInv ==
    ASSUME Inv, Apply
    PROVE  Inv'
<1>1. /\ Len(mapping) \in Nat /\ next \in 1..Len(mapping) /\ next' = next + 1
      /\ pass' = pass /\ payload' = payload /\ mapping' = mapping
    BY MappingIsSeq DEF Inv, Apply
<1>2. payload \in Values /\ WellRooted(mapping[next])
    BY <1>1, MappingIsSeq, TransformationAssumption DEF Inv, TransformationAssumption
<1> DEFINE made == Transform(mapping[next], payload)
<1>3. made.value \in Seq(Generated(mapping[next], payload))
    BY <1>2, TransformGenerates
<1>4. \/ results' = results /\ failed' = failed /\ error' = error
      \/ results' = results /\ failed' = failed \union {next} /\ error' = next
      \/ /\ Selected(mapping[next])
         /\ results' = results \o [i \in DOMAIN made.value |-> [by |-> next, item |-> made.value[i]]]
         /\ failed' = failed /\ error' = error
    BY DEF Apply
<1> HIDE DEF made
<1>5. next' \in 1..(Len(mapping') + 1) /\ 1..(next - 1) \subseteq 1..(next' - 1)
      /\ next \in 1..(next' - 1)
    BY <1>1
<1>6. failed' \subseteq 1..(next' - 1) /\ error' \in failed' \union {0}
    BY <1>4, <1>5 DEF Inv
<1>8. PICK old, new : old = Produced /\ new = Produced'
    OBVIOUS
<1>9. new = UNION {Made(m) : m \in {n \in 1..(next' - 1) : Selected(mapping[n])}}
    BY <1>1, <1>8 DEF Produced, Made, Selected
<1>10. old \subseteq new
    <2>1. {n \in 1..(next - 1) : Selected(mapping[n])}
              \subseteq {n \in 1..(next' - 1) : Selected(mapping[n])}
        BY <1>5
    <2> QED BY <1>8, <1>9, <2>1 DEF Produced
<1>11. results \in Seq(new)
    BY <1>8, <1>10 DEF Inv
<1>12. ASSUME Selected(mapping[next])
       PROVE  [i \in DOMAIN made.value |-> [by |-> next, item |-> made.value[i]]] \in Seq(new)
    <2>1. Made(next) \subseteq new
        BY <1>5, <1>9, <1>12
    <2>2. PICK G : G = Generated(mapping[next], payload)
        OBVIOUS
    <2>3. PICK s : s = made.value
        OBVIOUS
    <2>4. s \in Seq(G)
        BY <1>3, <2>2, <2>3
    <2>5. \A x \in G : [by |-> next, item |-> x] \in new
        BY <2>1, <2>2 DEF Made
    <2>6. [i \in DOMAIN s |-> [by |-> next, item |-> s[i]]] \in Seq(new)
        <3>1. Len(s) \in Nat /\ DOMAIN s = 1..Len(s)
            BY <2>4
        <3>2. \A i \in 1..Len(s) : [by |-> next, item |-> s[i]] \in new
            BY <2>4, <2>5
        <3> QED BY <3>1, <3>2
    <2> QED BY <2>3, <2>6
<1>13. results' \in Seq(new)
    <2>1. CASE results' = results
        BY <1>11, <2>1
    <2>2. CASE /\ Selected(mapping[next])
               /\ results' = results \o
                      [i \in DOMAIN made.value |-> [by |-> next, item |-> made.value[i]]]
        <3>1. PICK q : q = [i \in DOMAIN made.value |-> [by |-> next, item |-> made.value[i]]]
            OBVIOUS
        <3>2. q \in Seq(new) /\ results' = results \o q
            BY <1>12, <2>2, <3>1
        <3> QED BY <1>11, <3>2
    <2> QED BY <1>4, <2>1, <2>2
<1> QED BY <1>1, <1>5, <1>6, <1>8, <1>13 DEF Inv

LEMMA Invariance == Spec => []Inv
<1>1. Inv /\ [Next]_vars => Inv'
    <2> SUFFICES ASSUME Inv, [Next]_vars
                 PROVE  Inv'
        OBVIOUS
    <2>1. CASE Apply
        BY <2>1, ApplyInv
    <2>2. CASE UNCHANGED vars
        BY <2>2 DEF Inv, Produced, Made, Selected, vars
    <2> QED BY <2>1, <2>2 DEF Next
<1> QED BY InitInv, <1>1, PTL DEF Spec

\* A result names a transformation of the pass and is one of its items.
LEMMA ResultIsProduced ==
    ASSUME Inv, NEW i \in DOMAIN results
    PROVE  /\ results[i].by \in 1..(next - 1)
           /\ Selected(mapping[results[i].by])
           /\ results[i].item \in Generated(mapping[results[i].by], payload)
<1>1. results[i] \in Produced
    BY DEF Inv
<1>2. PICK m \in 1..(next - 1) :
          /\ Selected(mapping[m])
          /\ results[i] \in Made(m)
    BY <1>1 DEF Produced
<1>3. PICK x \in Generated(mapping[m], payload) : results[i] = [by |-> m, item |-> x]
    BY <1>2 DEF Made
<1> QED BY <1>2, <1>3

\* TypeOK: the state of a record between two transformations; a pass only
\* holds items of its own type (GenerateNodes, GenerateEdges).
THEOREM TypeCorrect == Spec => []TypeOK
<1>1. Inv => TypeOK
    <2> SUFFICES ASSUME Inv
                 PROVE  TypeOK
        OBVIOUS
    <2>1. ASSUME NEW i \in DOMAIN results
          PROVE  results[i].by < next /\ results[i].item.type = pass
        <3>1. results[i].by \in 1..(next - 1) /\ next \in Nat
            BY ResultIsProduced, MappingIsSeq DEF Inv
        <3>2. results[i].item.type = mapping[results[i].by].type
            BY ResultIsProduced DEF Generated
        <3>3. mapping[results[i].by].type = pass
            BY ResultIsProduced DEF Selected
        <3> QED BY <3>1, <3>2, <3>3
    <2> QED BY <2>1 DEF Inv, TypeOK
<1> QED BY <1>1, Invariance, PTL

\* RequiredPresent: with both actions at "fail on required", no node or edge
\* lacks a required property or holds one of the wrong kind, whatever the
\* payload and the transformations, as long as no two keys of one
\* transformation set the same property (generateResults).
THEOREM RequiredAreThere == PropertiesDiffer => (Spec => []RequiredPresent)
<1> SUFFICES ASSUME PropertiesDiffer
             PROVE  Spec => []RequiredPresent
    OBVIOUS
<1>1. Inv => RequiredPresent
    <2> SUFFICES ASSUME Inv, NEW i \in DOMAIN results, Strict(mapping[results[i].by]),
                        NEW k \in Needed(mapping[results[i].by])
                 PROVE  Right(k, results[i].item.props)
        BY DEF RequiredPresent, Strict, Right
    <2>1. PICK m : m = results[i].by
        OBVIOUS
    <2>2. m \in 1..(next - 1) /\ results[i].item \in Generated(mapping[m], payload)
        BY <2>1, ResultIsProduced
    <2>3. mapping \in Mappings /\ mapping \in Seq(ToSet(mapping))
        BY MappingIsSeq DEF Inv
    <2>4. m \in 1..Len(mapping)
        BY <2>2, <2>3 DEF Inv
    <2>5. PICK t : t = mapping[m]
        OBVIOUS
    <2>6. t \in ToSet(mapping)
        BY <2>3, <2>4, <2>5
    <2>7. WellKeyed(t)
        BY <2>3, <2>6, TransformationAssumption
        DEF TransformationAssumption, PropertiesDiffer, WellKeyed, Kinds
    <2>8. PICK index \in Indexes(t) :
              /\ ~MappedKeys(t, payload, index).aborted
              /\ results[i].item.props = MappedKeys(t, payload, index).props
        BY <2>2, <2>5 DEF Generated
    <2> QED BY <2>1, <2>5, <2>7, <2>8, MappedKeysRight
<1> QED BY <1>1, Invariance, PTL

-----------------------------------------------------------------------------
(* Results against the reference *)

\* Transformation n made the results after the first o of them.
MadeAfter(n, o) ==
    LET items == Transform(mapping[n], payload).value
    IN  /\ By(n) = (o + 1)..(o + Len(items))
        /\ \A a \in 1..Len(items) : results[o + a].item = items[a]

\* The results are those of each transformation that was applied, one
\* transformation after the other.
Blocks ==
    /\ \A n \in failed : Transform(mapping[n], payload).isError
    /\ \A n \in Applied \ failed : \E o \in Nat : MadeAfter(n, o)

LEMMA InitBlocks == Init => Blocks
<1> SUFFICES ASSUME Init
             PROVE  Blocks
    OBVIOUS
<1>1. 1..(next - 1) = {} /\ failed = {}
    BY DEF Init
<1> QED BY <1>1 DEF Blocks, Applied

\* r is a, and then b.
IsJoined(r, a, b) ==
    /\ DOMAIN r = 1..(Len(a) + Len(b))
    /\ \A i \in 1..Len(a) : r[i] = a[i]
    /\ \A i \in 1..Len(b) : r[Len(a) + i] = b[i]

LEMMA Joined ==
    ASSUME NEW U, NEW a \in Seq(U), NEW b \in Seq(U), NEW r, r = a \o b
    PROVE  IsJoined(r, a, b)
<1>1. DOMAIN (a \o b) = 1..(Len(a) + Len(b))
    OBVIOUS
<1>2. \A i \in 1..Len(a) : (a \o b)[i] = a[i]
    OBVIOUS
<1>3. \A i \in 1..Len(b) : (a \o b)[Len(a) + i] = b[i]
    OBVIOUS
<1> QED BY <1>1, <1>2, <1>3, Zenon DEF IsJoined

\* A transformation adds its items to the results.
LEMMA ItemsAreAdded ==
    ASSUME Inv, Apply, results' # results,
           NEW items, items = Transform(mapping[next], payload).value
    PROVE  LET N == Len(results)
               M == Len(items)
           IN  /\ N \in Nat /\ M \in Nat /\ DOMAIN results = 1..N /\ DOMAIN results' = 1..(N + M)
               /\ \A i \in 1..N : results'[i] = results[i]
               /\ \A i \in 1..M : results'[N + i].by = next /\ results'[N + i].item = items[i]
<1>1. PICK G : items \in Seq(G)
    <2>1. /\ Len(mapping) \in Nat /\ next \in 1..Len(mapping)
          /\ payload \in Payloads
        BY MappingIsSeq DEF Inv, Apply
    <2>2. payload \in Values /\ WellRooted(mapping[next])
        BY <2>1, MappingIsSeq, TransformationAssumption DEF Inv, TransformationAssumption
    <2> QED BY <2>2, TransformGenerates
<1>2. PICK M \in Nat : M = Len(items) /\ DOMAIN items = 1..M
    BY <1>1
<1>3. PICK S : results \in Seq(S)
    BY DEF Inv
<1>4. PICK N \in Nat : N = Len(results) /\ DOMAIN results = 1..N
    BY <1>3
<1>5. PICK q : q = [i \in 1..M |-> [by |-> next, item |-> items[i]]]
    OBVIOUS
<1>6. results' = results \o q
    BY <1>2, <1>5 DEF Apply
<1>7. PICK R : q \in Seq(R)
    <2>1. PICK R : R = {[by |-> next, item |-> items[i]] : i \in 1..M}
        OBVIOUS
    <2>2. \A i \in 1..M : [by |-> next, item |-> items[i]] \in R
        BY <2>1
    <2>3. q \in Seq(R)
        BY <1>5, <2>2
    <2> QED BY <2>3
<1>8. Len(q) = M /\ \A i \in 1..M : q[i].by = next /\ q[i].item = items[i]
    BY <1>5
<1> HIDE <1>5
<1>9. PICK U : results \in Seq(U) /\ q \in Seq(U)
    <2>1. PICK U : U = S \union R
        OBVIOUS
    <2>2. results \in Seq(U) /\ q \in Seq(U)
        BY <1>3, <1>7, <2>1
    <2> QED BY <2>2
<1>10. IsJoined(results', results, q)
    BY <1>6, <1>9, Joined
<1>11. DOMAIN results' = 1..(N + M)
    BY <1>4, <1>8, <1>10, Zenon DEF IsJoined
<1>12. \A i \in 1..N : results'[i] = results[i]
    BY <1>4, <1>10, Zenon DEF IsJoined
<1>13. \A i \in 1..M : results'[N + i].by = next /\ results'[N + i].item = items[i]
    <2>1. \A i \in 1..M : results'[N + i] = q[i]
        BY <1>4, <1>8, <1>10, Zenon DEF IsJoined
    <2> QED BY <1>8, <2>1
<1> QED BY <1>2, <1>4, <1>11, <1>12, <1>13, Zenon

\* What an earlier transformation made stays where it is.
LEMMA EarlierStays ==
    ASSUME Inv, Apply, NEW n \in 1..(next - 1), NEW o \in Nat, MadeAfter(n, o)
    PROVE  MadeAfter(n, o)'
<1>1. mapping' = mapping /\ payload' = payload
    BY DEF Apply
<1>2. PICK items : items = Transform(mapping[n], payload).value
    OBVIOUS
<1>3. next \in Nat /\ n # next
    BY MappingIsSeq DEF Inv
<1>4. By(n) = (o + 1)..(o + Len(items)) /\ \A a \in 1..Len(items) : results[o + a].item = items[a]
    BY <1>2 DEF MadeAfter
<1>5. /\ {i \in DOMAIN results' : results'[i].by = n} = By(n)
      /\ \A i \in By(n) : results'[i] = results[i]
    <2>1. CASE results' = results
        BY <2>1 DEF By
    <2>2. CASE results' # results
        <3>1. PICK made : made = Transform(mapping[next], payload).value
            OBVIOUS
        <3>2. PICK N \in Nat, M \in Nat :
                  /\ DOMAIN results = 1..N /\ DOMAIN results' = 1..(N + M)
                  /\ \A i \in 1..N : results'[i] = results[i]
                  /\ \A i \in 1..M : results'[N + i].by = next
            <4>1. /\ Len(results) \in Nat /\ Len(made) \in Nat
                  /\ DOMAIN results = 1..Len(results)
                  /\ DOMAIN results' = 1..(Len(results) + Len(made))
                  /\ \A i \in 1..Len(results) : results'[i] = results[i]
                BY <2>2, <3>1, ItemsAreAdded, Zenon
            <4>2. \A i \in 1..Len(made) : results'[Len(results) + i].by = next
                BY <2>2, <3>1, ItemsAreAdded, Zenon
            <4> QED BY <4>1, <4>2, Zenon
        <3>3. ASSUME NEW i \in (N + 1)..(N + M)
              PROVE  results'[i].by = next
            <4>1. PICK j \in 1..M : i = N + j
                <5>1. i - N \in 1..M /\ i = N + (i - N)
                    OBVIOUS
                <5> QED BY <5>1
            <4> QED BY <3>2, <4>1
        <3>4. 1..(N + M) = 1..N \union (N + 1)..(N + M)
            OBVIOUS
        <3> QED BY <1>3, <3>2, <3>3, <3>4 DEF By
    <2> QED BY <2>1, <2>2
<1>6. 1..Len(items) = {} \/ \A a \in 1..Len(items) : o + a \in By(n)
    BY <1>4
<1>7. By(n)' = By(n)
    BY <1>5 DEF By
<1>8. \A a \in 1..Len(items) : results'[o + a].item = items[a]
    BY <1>4, <1>5, <1>6
<1> QED BY <1>1, <1>2, <1>4, <1>7, <1>8 DEF MadeAfter

\* The items of the transformation that is applied come after all others.
LEMMA LastIsMade ==
    ASSUME Inv, Apply, Selected(mapping[next]), ~Transform(mapping[next], payload).isError,
           NEW n, n = next
    PROVE  \E o \in Nat : MadeAfter(n, o)'
<1>1. mapping' = mapping /\ payload' = payload
    BY DEF Apply
<1>2. PICK items : items = Transform(mapping[next], payload).value
    OBVIOUS
<1>3. /\ next \in Nat /\ Len(mapping) \in Nat /\ next \in 1..Len(mapping) /\ payload \in Payloads
    BY MappingIsSeq DEF Inv, Apply
<1>4. PICK N \in Nat : N = Len(results) /\ DOMAIN results = 1..N
    <2>1. PICK S : results \in Seq(S)
        BY DEF Inv
    <2> QED BY <2>1
<1>5. \A i \in 1..N : results[i].by # next
    <2>1. ASSUME NEW i \in 1..N
          PROVE  results[i].by \in 1..(next - 1)
        BY <1>4, ResultIsProduced
    <2> QED BY <1>3, <2>1
<1>6. results' = results \o [i \in DOMAIN items |-> [by |-> next, item |-> items[i]]]
    BY <1>2 DEF Apply
<1>7. PICK M \in Nat :
          /\ M = Len(items) /\ DOMAIN results' = 1..(N + M)
          /\ \A i \in 1..N : results'[i] = results[i]
          /\ \A i \in 1..M : results'[N + i].by = next /\ results'[N + i].item = items[i]
    <2>1. CASE results' # results
        <3>1. /\ Len(results) \in Nat /\ Len(items) \in Nat
              /\ DOMAIN results' = 1..(Len(results) + Len(items))
              /\ \A i \in 1..Len(results) : results'[i] = results[i]
              /\ \A i \in 1..Len(items) :
                     /\ results'[Len(results) + i].by = next
                     /\ results'[Len(results) + i].item = items[i]
            BY <1>2, <2>1, ItemsAreAdded, Zenon
        <3> QED BY <1>4, <3>1, Zenon
    <2>2. CASE results' = results
        <3>1. PICK G : items \in Seq(G)
            <4>1. payload \in Values /\ WellRooted(mapping[next])
                BY <1>3, MappingIsSeq, TransformationAssumption DEF Inv, TransformationAssumption
            <4> QED BY <1>2, <4>1, TransformGenerates
        <3>2. PICK M \in Nat : M = Len(items) /\ DOMAIN items = 1..M
            BY <3>1
        <3>3. M = 0
            <4>1. PICK q : q = [i \in 1..M |-> [by |-> next, item |-> items[i]]]
                OBVIOUS
            <4>2. results = results \o q
                BY <1>6, <2>2, <3>2, <4>1
            <4>3. Len(q) = M
                BY <4>1
            <4>4. Len(results \o q) = N + M
                BY <1>4, <4>3, <4>2
            <4> QED BY <1>4, <4>2, <4>4
        <3>4. 1..M = {} /\ 1..(N + M) = 1..N
            BY <3>3
        <3> QED BY <1>4, <2>2, <3>2, <3>4
    <2> QED BY <2>1, <2>2
<1>8. By(n)' = (N + 1)..(N + M)
    <2>1. By(n)' = {i \in 1..(N + M) : results'[i].by = n}
        BY <1>7 DEF By
    <2>2. ASSUME NEW i \in (N + 1)..(N + M)
          PROVE  results'[i].by = n
        <3>1. PICK j \in 1..M : i = N + j
            <4>1. i - N \in 1..M /\ i = N + (i - N)
                OBVIOUS
            <4> QED BY <4>1
        <3> QED BY <1>7, <3>1
    <2>3. 1..(N + M) = 1..N \union (N + 1)..(N + M) /\ \A i \in 1..N : results'[i].by # n
        BY <1>5, <1>7
    <2>4. \A i \in (N + 1)..(N + M) : i \in 1..(N + M)
        OBVIOUS
    <2> QED BY <2>1, <2>2, <2>3, <2>4, Zenon
<1>9. MadeAfter(n, N)'
    <2>1. items = Transform(mapping'[n], payload').value
        BY <1>1, <1>2
    <2> QED BY <1>7, <1>8, <2>1 DEF MadeAfter
<1> QED BY <1>9

LEMMA ApplyBlocks ==
    ASSUME Inv, Blocks, Apply
    PROVE  Blocks'
<1>1. /\ mapping' = mapping /\ payload' = payload /\ pass' = pass
      /\ next' = next + 1 /\ next \in Nat
    BY MappingIsSeq DEF Inv, Apply
<1>2. \/ ~Selected(mapping[next]) /\ failed' = failed
      \/ /\ Selected(mapping[next]) /\ failed' = failed \union {next}
         /\ Transform(mapping[next], payload).isError
      \/ /\ Selected(mapping[next]) /\ failed' = failed
         /\ ~Transform(mapping[next], payload).isError
    BY DEF Apply
<1>3. \A n \in failed' : Transform(mapping'[n], payload').isError
    BY <1>1, <1>2 DEF Blocks
<1>4. ASSUME NEW n \in Applied' \ failed'
      PROVE  \E o \in Nat : MadeAfter(n, o)'
    <2>1. n \in 1..next /\ Selected(mapping[n])
        BY <1>1, <1>4 DEF Applied, Selected
    <2>2. CASE n = next
        <3>1. ~Transform(mapping[next], payload).isError
            BY <1>2, <2>1, <2>2
        <3> QED BY <2>1, <2>2, <3>1, LastIsMade
    <2>3. CASE n # next
        <3>1. n \in 1..(next - 1)
            BY <1>1, <2>1, <2>3
        <3>2. n \in Applied \ failed
            BY <1>2, <1>4, <2>1, <3>1 DEF Applied
        <3>3. PICK o \in Nat : MadeAfter(n, o)
            BY <3>2 DEF Blocks
        <3> QED BY <3>1, <3>3, EarlierStays
    <2> QED BY <2>2, <2>3
<1> QED BY <1>3, <1>4 DEF Blocks

LEMMA BlocksInvariance == Spec => []Blocks
<1>1. Inv /\ Blocks /\ [Next]_vars => Blocks'
    <2> SUFFICES ASSUME Inv, Blocks, [Next]_vars
                 PROVE  Blocks'
        OBVIOUS
    <2>1. CASE Apply
        BY <2>1, ApplyBlocks
    <2>2. CASE UNCHANGED vars
        <3>1. /\ pass' = pass /\ payload' = payload /\ mapping' = mapping /\ next' = next
              /\ results' = results /\ failed' = failed
            BY <2>2 DEF vars
        <3>2. Applied' = Applied
            BY <3>1 DEF Applied, Selected
        <3>3. ASSUME NEW n, NEW o
              PROVE  MadeAfter(n, o)' <=> MadeAfter(n, o)
            <4>1. By(n)' = By(n)
                BY <3>1 DEF By
            <4> QED BY <3>1, <4>1 DEF MadeAfter
        <3>4. \A n \in failed' : Transform(mapping'[n], payload').isError
            BY <3>1 DEF Blocks
        <3>5. \A n \in Applied' \ failed' : \E o \in Nat : MadeAfter(n, o)'
            BY <3>1, <3>2, <3>3 DEF Blocks
        <3> QED BY <3>4, <3>5 DEF Blocks
    <2> QED BY <2>1, <2>2 DEF Next
<1> QED BY <1>1, InitBlocks, Invariance, PTL DEF Spec

\* OnePerElement: a transformation gives one node or edge for every element of
\* its root array that meets a condition and is not refused by a required key,
\* in the order of the payload, and none for any other, however deep the
\* arrays are nested; it fails only when there is no root array to walk
\* (transform's loops and recursion, getNestedValue's index handling).
THEOREM OneForEachElement == MarkersFit => (Spec => []OnePerElement)
<1> SUFFICES ASSUME MarkersFit
             PROVE  Spec => []OnePerElement
    OBVIOUS
<1>1. NoMarkerNames
    BY DEF MarkersFit
<1>2. Inv /\ Blocks => OnePerElement
    <2> SUFFICES ASSUME Inv, Blocks
                 PROVE  OnePerElement
        OBVIOUS
    <2>1. ASSUME NEW n \in 1..(next - 1)
          PROVE  Agreeable(mapping[n], payload)
        <3>1. Len(mapping) \in Nat /\ next \in 1..(Len(mapping) + 1)
            BY MappingIsSeq DEF Inv
        <3>2. n \in 1..Len(mapping)
            BY <3>1
        <3> QED BY <3>2, AllAgreeable DEF Inv
    <2>2. ASSUME NEW n \in failed
          PROVE  LET t == mapping[n]
                 IN  IF t.rootArray = <<>> THEN Refused(t, payload, <<>>)
                     ELSE \A e \in Reached(payload, ArrayKey(t, 0)) : e.of.k # "arr"
        <3>1. Agreeable(mapping[n], payload)
            BY <2>1 DEF Inv
        <3>2. Transform(mapping[n], payload).isError
            BY DEF Blocks
        <3> QED BY <1>1, <3>1, <3>2, FailureIsDue
    <2>3. ASSUME NEW n \in Applied \ failed
          PROVE  /\ {results[i].item.index : i \in By(n)} = Due(mapping[n], payload)
                 /\ \A i, j \in By(n) :
                       i < j => Before(results[i].item.index, results[j].item.index)
        <3>1. Agreeable(mapping[n], payload)
            BY <2>1 DEF Applied
        <3>2. PICK items : items = Transform(mapping[n], payload).value
            OBVIOUS
        <3>3. PICK o \in Nat : MadeAfter(n, o)
            BY <2>3 DEF Blocks
        <3>4. /\ By(n) = (o + 1)..(o + Len(items))
              /\ \A a \in 1..Len(items) : results[o + a].item = items[a]
            BY <3>2, <3>3 DEF MadeAfter
        <3>5. /\ {items[a].index : a \in 1..Len(items)} = Due(mapping[n], payload)
              /\ \A a, b \in 1..Len(items) : a < b => Before(items[a].index, items[b].index)
            BY <1>1, <3>1, <3>2, TransformMakesDue
        <3>6. Len(items) \in Nat
            <4>1. WellRooted(mapping[n]) /\ payload \in Values
                BY <3>1 DEF Agreeable, Walkable
            <4>2. items \in Seq(Generated(mapping[n], payload))
                BY <3>2, <4>1, TransformGenerates
            <4> QED BY <4>2
        <3>7. ASSUME NEW i \in By(n)
              PROVE  i - o \in 1..Len(items) /\ results[i].item = items[i - o]
            <4>1. i - o \in 1..Len(items) /\ o + (i - o) = i
                BY <3>4, <3>6
            <4> QED BY <3>4, <4>1
        <3>8. ASSUME NEW a \in 1..Len(items)
              PROVE  o + a \in By(n) /\ results[o + a].item = items[a]
            BY <3>4, <3>6
        <3>9. {results[i].item.index : i \in By(n)} = {items[a].index : a \in 1..Len(items)}
            BY <3>7, <3>8
        <3>10. ASSUME NEW i \in By(n), NEW j \in By(n), i < j
               PROVE  Before(results[i].item.index, results[j].item.index)
            <4>1. i - o < j - o
                BY <3>4, <3>6, <3>10
            <4> QED BY <3>5, <3>7, <4>1
        <3> QED BY <3>5, <3>9, <3>10
    <2> QED BY <2>2, <2>3 DEF OnePerElement
<1> QED BY <1>2, Invariance, BlocksInvariance, PTL

\* OwnElement: whatever array a key goes through, the value mapped for it is
\* the one of the element the item stands for or of an element around it,
\* never a sibling's, as long as no two keys of one transformation set the
\* same property (getNestedValue's index handling, generateResults).
THEOREM ValuesAreOwn == MarkersFit /\ PropertiesDiffer => (Spec => []OwnElement)
<1> SUFFICES ASSUME MarkersFit, PropertiesDiffer
             PROVE  Spec => []OwnElement
    OBVIOUS
<1>1. NoMarkerNames
    BY DEF MarkersFit
<1>2. Inv => OwnElement
    <2> SUFFICES ASSUME Inv, NEW i \in DOMAIN results,
                        NEW k \in ToSet(mapping[results[i].by].keys)
                 PROVE  LET item == results[i].item
                            props == item.props
                        IN \/ /\ k.of = "metadata"
                              /\ k.key \in DOMAIN props["metadata"] =>
                                    props["metadata"][k.key] = ValueAt(payload, k.key, item.index)
                           \/ /\ k.of # "metadata"
                              /\ k.known /\ k.key # <<>> /\ ~Unusable(k, payload, item.index) =>
                                    /\ k.name \in DOMAIN props[k.of]
                                    /\ props[k.of][k.name]
                                        = ConvertValue(k.type, ValueAt(payload, k.key, item.index)).value
        BY Zenon DEF OwnElement
    <2>1. PICK m : m = results[i].by
        OBVIOUS
    <2>2. m \in 1..(next - 1) /\ results[i].item \in Generated(mapping[m], payload)
        BY <2>1, ResultIsProduced
    <2>3. m \in 1..Len(mapping) /\ mapping \in Mappings /\ payload \in Payloads
        <3>1. Len(mapping) \in Nat
            BY MappingIsSeq DEF Inv
        <3> QED BY <2>2, <3>1 DEF Inv
    <2>4. PICK t : t = mapping[m]
        OBVIOUS
    <2>5. Agreeable(t, payload)
        BY <2>3, <2>4, AllAgreeable
    <2>6. Distinct(t)
        <3>1. mapping \in Seq(ToSet(mapping))
            BY <2>3, MappingIsSeq
        <3>2. t \in ToSet(mapping)
            BY <2>3, <2>4, <3>1
        <3> QED BY <2>3, <3>2, Zenon DEF PropertiesDiffer, Distinct
    <2>7. PICK index \in Indexes(t) :
              /\ ~MappedKeys(t, payload, index).aborted
              /\ results[i].item.props = MappedKeys(t, payload, index).props
              /\ results[i].item.index = index
        BY <2>2, <2>4 DEF Generated
    <2>8. PICK props : props = results[i].item.props
        OBVIOUS
    <2>9. index \in Seq(Nat)
        BY DEF Indexes
    <2>10. OwnMetadata(payload, index, props) /\ \A h \in ToSet(t.keys) : Owns(h, payload, index, props)
        BY <1>1, <2>5, <2>6, <2>7, <2>8, <2>9, MappedKeysFollow DEF Agreeable
    <2>11. OwnMetadata(payload, index, props) /\ Owns(k, payload, index, props)
        BY <2>1, <2>4, <2>10
    <2> QED BY <2>7, <2>8, <2>11, Zenon DEF OwnMetadata, Owns
<1> QED BY <1>2, Invariance, PTL
=============================================================================
