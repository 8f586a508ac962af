------------------------- MODULE ImportDispatch_proofs -------------------------
(***************************************************************************)
(* For any number of servers, workers, containers and imports: the types,  *)
(* that incompleteContainerIDs is as long as there are workers             *)
(* (WorkersCounted), and that a job that ends by itself ends no worker     *)
(* (JobEndsIdle).                                                          *)
(***************************************************************************)
EXTENDS ImportDispatch, FiniteSetTheorems, TLAPS

Worker ==
  [state : SlotState, orig : Container \cup {0}, container : Container \cup {0},
   imports : SUBSET Import, found : SUBSET Import]

\* Each import under its own container.
Filed(map) ==
  /\ map \in [Container -> SUBSET Import]
  /\ \A c \in Container : \A i \in map[c] : containerOf[i] = c

Tables ==
  /\ pending \subseteq Import
  /\ attempts \in [Import -> 0..MaxImportRetries]
  /\ lock \subseteq Container
  /\ running \in [Job -> BOOLEAN]
  /\ kills \in 0..MaxKills
  /\ DOMAIN importMap = Job /\ \A j \in Job : Filed(importMap[j])
  /\ containerIDs \in [Job -> Seq(Container)]
  /\ owed \in [Job -> SUBSET Import]

Typed ==
  /\ Tables
  /\ incomplete \in [Job -> Nat]
  /\ workers \in [Job -> [Slot -> Worker]]

BusyState == {"spawned", "counted", "working", "exited"}

\* A slot that was used has a container, and imports of it only.
SlotOK(w) ==
  /\ w.state # "unused" => w.container \in Container /\ w.orig \in Container
  /\ \A i \in w.imports : containerOf[i] = w.container

IInv == Typed /\ (\A j \in Job, s \in Slot : SlotOK(workers[j][s])) /\ WorkersCounted

-----------------------------------------------------------------------------
(* The keys of the map *)

\* Finitely many numbers can be put in ascending order: by how many of them are
\* not greater than each.
LEMMA Ascending ==
  ASSUME NEW S \in SUBSET Nat, IsFiniteSet(S)
  PROVE  \E q \in [1..Cardinality(S) -> S] : \A a, b \in DOMAIN q : a < b => q[a] < q[b]
<1> DEFINE n == Cardinality(S)
           Upto(c) == {d \in S : d <= c}
           rank == [c \in S |-> Cardinality(Upto(c))]
<1>1. n \in Nat
  BY FS_CardinalityType
<1>2. ASSUME NEW c \in S
      PROVE  /\ IsFiniteSet(Upto(c)) /\ Cardinality(Upto(c)) \in Nat
             /\ Cardinality(Upto(c)) <= n /\ Cardinality(Upto(c)) # 0
  <2>1. Upto(c) \in SUBSET S /\ c \in Upto(c)
    OBVIOUS
  <2>2. IsFiniteSet(Upto(c)) /\ Cardinality(Upto(c)) <= n
    BY <2>1, FS_Subset
  <2>3. QED
    BY <2>1, <2>2, FS_CardinalityType, FS_EmptySet
<1>3. ASSUME NEW c \in S, NEW d \in S, c < d
      PROVE  Cardinality(Upto(c)) < Cardinality(Upto(d))
  <2>1. Upto(c) \in SUBSET (Upto(d) \ {d}) /\ d \in Upto(d)
    <3>1. \A e \in S : e \in Nat
      OBVIOUS
    <3>2. \A e \in S : e <= c => e <= d /\ e # d
      BY <1>3, <3>1
    <3>3. d <= d
      BY <3>1
    <3>4. QED
      BY <3>2, <3>3
  <2>2. /\ IsFiniteSet(Upto(d) \ {d})
        /\ Cardinality(Upto(d) \ {d}) = Cardinality(Upto(d)) - 1
    BY <1>2, <2>1, FS_RemoveElement
  <2>3. Cardinality(Upto(c)) <= Cardinality(Upto(d) \ {d})
    BY <2>1, <2>2, FS_Subset
  <2> HIDE DEF Upto
  <2>4. QED
    BY <1>2, <2>2, <2>3
<1> HIDE DEF Upto
<1>4. rank \in [S -> 1..n]
  BY <1>1, <1>2
<1>5. \A c, d \in S : rank[c] = rank[d] => c = d
  BY <1>2, <1>3
<1>6. rank \in Injection(S, 1..n)
  BY <1>4, <1>5 DEF Injection, IsInjective
<1>7. IsFiniteSet(1..n) /\ Cardinality(1..n) = n
  BY <1>1, FS_Interval
<1>8. rank \in Surjection(S, 1..n)
  BY <1>6, <1>7, FS_Injection
<1>9. \A k \in 1..n : \E c \in S : rank[c] = k
  BY <1>8 DEF Surjection
<1> DEFINE q == [k \in 1..n |-> CHOOSE c \in S : rank[c] = k]
<1>10. \A k \in 1..n : q[k] \in S /\ rank[q[k]] = k
  <2> HIDE DEF rank
  <2> QED
    BY <1>9
<1>11. q \in [1..n -> S]
  BY <1>10
<1>12. ASSUME NEW a \in 1..n, NEW b \in 1..n, a < b
       PROVE  q[a] < q[b]
  <2>1. rank[q[a]] = a /\ rank[q[b]] = b /\ q[a] \in S /\ q[b] \in S
    BY <1>10
  <2>2. q[a] \in Nat /\ q[b] \in Nat
    BY <2>1
  <2>3. q[a] # q[b]
    <3> HIDE DEF q, rank
    <3> QED
      BY <1>1, <1>12, <2>1
  <2>4. ~(q[b] < q[a])
    <3>1. SUFFICES ASSUME q[b] < q[a] PROVE FALSE
      OBVIOUS
    <3>2. Cardinality(Upto(q[b])) < Cardinality(Upto(q[a]))
      BY <1>3, <2>1, <3>1
    <3>3. rank[q[a]] = Cardinality(Upto(q[a])) /\ rank[q[b]] = Cardinality(Upto(q[b]))
      BY <2>1
    <3> HIDE DEF q, rank
    <3>4. QED
      BY <1>1, <1>12, <2>1, <3>2, <3>3
  <2>5. QED
    <3> HIDE DEF q
    <3> QED
      BY <2>2, <2>3, <2>4
<1>13. QED
  BY <1>11, <1>12

\* Object.keys: containers that have imports.
LEMMA KeysType ==
  ASSUME NEW map, Filed(map)
  PROVE  /\ Keys(map) \in Seq(Container)
         /\ \A k \in 1..Len(Keys(map)) : Keys(map)[k] \in Container
<1> DEFINE present == {c \in Container : map[c] # {}}
<1>1. present \in SUBSET Nat /\ IsFiniteSet(present)
  BY DispatchAssumption, FS_Subset
<1>2. Cardinality(present) \in Nat
  BY <1>1, FS_CardinalityType
<1>3. Keys(map) \in [1..Cardinality(present) -> present]
  BY <1>1, Ascending DEF Keys
<1> HIDE DEF present
<1>4. Keys(map) \in Seq(present)
  BY <1>2, <1>3
<1>5. present \subseteq Container
  BY DEF present
<1>6. QED
  BY <1>4, <1>5

LEMMA GroupedFiled ==
  ASSUME NEW map, Filed(map), NEW found \in SUBSET Import
  PROVE  Filed(Grouped(map, found))
BY DEF Filed, Grouped

LEMMA NoneFiled == Filed(NoImports)
BY DEF Filed, NoImports

-----------------------------------------------------------------------------
(* The slots *)

LEMMA SlotsFinite ==
  /\ IsFiniteSet(Slot) /\ Cardinality(Slot) = MaxWorkers
  /\ \A j : IsFiniteSet(Busy(j)) /\ Cardinality(Busy(j)) \in 0..MaxWorkers
<1>1. IsFiniteSet(Slot) /\ Cardinality(Slot) = MaxWorkers
  BY DispatchAssumption, FS_Interval DEF Slot
<1>2. ASSUME NEW j
      PROVE  IsFiniteSet(Busy(j)) /\ Cardinality(Busy(j)) \in 0..MaxWorkers
  <2>1. Busy(j) \in SUBSET Slot
    BY DEF Busy
  <2>2. IsFiniteSet(Busy(j)) /\ Cardinality(Busy(j)) <= MaxWorkers
    BY <1>1, <2>1, FS_Subset
  <2>3. Cardinality(Busy(j)) \in Nat
    BY <2>2, FS_CardinalityType
  <2>4. QED
    BY <2>2, <2>3, DispatchAssumption
<1>3. QED
  BY <1>1, <1>2

\* A step of one slot, which counts its worker when it gets or loses one.
LEMMA OneSlot ==
  ASSUME IInv, NEW j \in Job, NEW s \in Slot, NEW new \in Worker, SlotOK(new),
         workers' = [workers EXCEPT ![j][s] = new], Tables',
         \/ /\ new.state \in BusyState <=> workers[j][s].state \in BusyState
            /\ UNCHANGED incomplete
         \/ /\ new.state \in BusyState /\ workers[j][s].state \notin BusyState
            /\ incomplete' = [incomplete EXCEPT ![j] = @ + 1]
         \/ /\ new.state \notin BusyState /\ workers[j][s].state \in BusyState
            /\ incomplete' = [incomplete EXCEPT ![j] = @ - 1]
  PROVE  IInv'
<1>1. /\ workers' \in [Job -> [Slot -> Worker]]
      /\ workers'[j][s] = new
      /\ \A i \in Job, t \in Slot : <<i, t>> # <<j, s>> => workers'[i][t] = workers[i][t]
  BY DEF IInv, Typed
<1>2. \A i \in Job, t \in Slot : SlotOK(workers'[i][t])
  BY <1>1 DEF IInv
<1>3. \A i \in Job : /\ incomplete[i] \in Nat /\ incomplete[i] = Cardinality(Busy(i))
                     /\ IsFiniteSet(Busy(i))
  BY SlotsFinite DEF IInv, Typed, WorkersCounted
<1>4. \A i \in Job \ {j} : incomplete'[i] = incomplete[i] /\ Busy(i)' = Busy(i)
  BY <1>1 DEF IInv, Typed, Busy
<1>5. incomplete'[j] = Cardinality(Busy(j)') /\ incomplete' = [incomplete EXCEPT ![j] = incomplete'[j]]
  <2>1. CASE (new.state \in BusyState <=> workers[j][s].state \in BusyState) /\ UNCHANGED incomplete
    <3>1. Busy(j)' = Busy(j)
      BY <1>1, <2>1 DEF Busy, BusyState
    <3>2. QED
      BY <1>3, <2>1, <3>1 DEF IInv, Typed
  <2>2. CASE /\ new.state \in BusyState /\ workers[j][s].state \notin BusyState
             /\ incomplete' = [incomplete EXCEPT ![j] = @ + 1]
    <3>1. Busy(j)' = Busy(j) \cup {s} /\ s \notin Busy(j)
      BY <1>1, <2>2 DEF Busy, BusyState
    <3>2. Cardinality(Busy(j) \cup {s}) = Cardinality(Busy(j)) + 1
      BY <1>3, <3>1, FS_AddElement
    <3>3. QED
      BY <1>3, <2>2, <3>1, <3>2 DEF IInv, Typed
  <2>3. CASE /\ new.state \notin BusyState /\ workers[j][s].state \in BusyState
             /\ incomplete' = [incomplete EXCEPT ![j] = @ - 1]
    <3>1. Busy(j)' = Busy(j) \ {s} /\ s \in Busy(j)
      BY <1>1, <2>3 DEF Busy, BusyState
    <3>2. Cardinality(Busy(j) \ {s}) = Cardinality(Busy(j)) - 1
      BY <1>3, <3>1, FS_RemoveElement
    <3>3. QED
      BY <1>3, <2>3, <3>1, <3>2 DEF IInv, Typed
  <2>4. QED
    BY <2>1, <2>2, <2>3
<1>6. Cardinality(Busy(j)') \in Nat
  <2>1. Busy(j)' \in SUBSET Slot
    BY DEF Busy
  <2>2. IsFiniteSet(Busy(j)')
    BY <2>1, SlotsFinite, FS_Subset
  <2>3. QED
    BY <2>2, FS_CardinalityType
<1>7. WorkersCounted'
  BY <1>3, <1>4, <1>5 DEF WorkersCounted
<1>8. incomplete' \in [Job -> Nat]
  BY <1>5, <1>6 DEF IInv, Typed
<1>9. QED
  BY <1>1, <1>2, <1>7, <1>8 DEF IInv, Typed

LEMMA SlotTyped ==
  ASSUME IInv, NEW j \in Job, NEW s \in Slot
  PROVE  workers[j][s] \in Worker /\ SlotOK(workers[j][s])
BY DEF IInv, Typed

\* The steps of a worker and of its exit handler up to the listing.
LEMMA WorkerInv ==
  ASSUME IInv, NEW j \in Job, NEW s \in Slot,
         \/ IncrementAttempts(j, s) \/ LockContainer(j, s) \/ LockRefused(j, s)
         \/ Work(j, s) \/ ExitFunc(j, s)
  PROVE  IInv'
<1> DEFINE w == workers[j][s]
<1>1. w \in Worker /\ SlotOK(w)
  BY SlotTyped
<1>2. ASSUME NEW from \in BusyState, NEW to \in BusyState \cup {"listing", "listed"},
             Step(j, s, from, to), Tables',
             \/ to \in BusyState /\ UNCHANGED incomplete
             \/ to \notin BusyState /\ incomplete' = [incomplete EXCEPT ![j] = @ - 1]
      PROVE  IInv'
  <2> DEFINE new == [w EXCEPT !.state = to]
  <2>1. workers' = [workers EXCEPT ![j][s] = new] /\ w.state = from
    BY <1>2 DEF Step
  <2>2. new \in Worker /\ new.state = to /\ SlotOK(new)
    BY <1>1, <1>2, <2>1 DEF Worker, SlotState, BusyState, SlotOK
  <2> HIDE DEF new
  <2>3. QED
    BY <1>2, <2>1, <2>2, OneSlot
<1>3. Tables
  BY DEF IInv, Typed
<1>4. CASE IncrementAttempts(j, s)
  <2>1. \A n \in 0..MaxImportRetries : Lesser(n + 1, MaxImportRetries) \in 0..MaxImportRetries
    BY DispatchAssumption DEF Lesser
  <2>2. attempts' \in [Import -> 0..MaxImportRetries]
    BY <1>3, <1>4, <2>1 DEF IncrementAttempts, Tables
  <2>3. Tables'
    BY <1>3, <1>4, <2>2 DEF IncrementAttempts, Tables
  <2>4. QED
    BY <1>2, <1>4, <2>3 DEF IncrementAttempts, BusyState
<1>5. CASE LockContainer(j, s)
  <2>1. w.container \in Container
    BY <1>1, <1>5 DEF LockContainer, Step, SlotOK
  <2>2. Tables'
    BY <1>3, <1>5, <2>1 DEF LockContainer, Tables
  <2>3. QED
    BY <1>2, <1>5, <2>2 DEF LockContainer, BusyState
<1>6. CASE LockRefused(j, s)
  <2>1. Tables'
    BY <1>3, <1>6 DEF LockRefused, Tables
  <2>2. QED
    BY <1>2, <1>6, <2>1 DEF LockRefused, BusyState
<1>7. CASE Work(j, s)
  <2>1. Tables'
    BY <1>3, <1>7 DEF Work, Tables
  <2>2. QED
    BY <1>2, <1>7, <2>1 DEF Work, BusyState
<1>8. CASE ExitFunc(j, s)
  <2>1. ASSUME NEW c \in Job
        PROVE  Filed(importMap'[c])
    BY <1>3, <1>8 DEF ExitFunc, Tables, Filed
  <2>2. Tables'
    BY <1>3, <1>8, <2>1 DEF ExitFunc, Tables
  <2> DEFINE to == IF containerIDs[j] = <<>> THEN "listing" ELSE "listed"
  <2>3. to \in {"listing", "listed"} /\ Step(j, s, "exited", to)
    BY <1>8 DEF ExitFunc
  <2> HIDE DEF to
  <2>4. QED
    BY <1>2, <1>8, <2>2, <2>3 DEF ExitFunc, BusyState
<1>9. QED
  BY <1>4, <1>5, <1>6, <1>7, <1>8

LEMMA ListMoreInv ==
  ASSUME IInv, NEW j \in Job, NEW s \in Slot, ListMore(j, s)
  PROVE  IInv'
<1> DEFINE w == workers[j][s]
<1>1. w \in Worker /\ SlotOK(w) /\ w.state = "listing"
  BY SlotTyped DEF ListMore
<1>2. PICK found \in {Uninserted, {}} :
        workers' = [workers EXCEPT ![j][s].state = "listed", ![j][s].found = found]
  BY DEF ListMore
<1> DEFINE new == [w EXCEPT !.state = "listed", !.found = found]
<1>3. found \subseteq Import
  BY DEF Uninserted, IInv, Typed, Tables
<1>4. workers' = [workers EXCEPT ![j][s] = new]
  BY <1>2
<1>5. new \in Worker /\ new.state = "listed" /\ SlotOK(new)
  BY <1>1, <1>3 DEF Worker, SlotState, SlotOK
<1> HIDE DEF new
<1>6. Tables' /\ UNCHANGED incomplete
  BY DEF ListMore, IInv, Typed, Tables
<1>7. QED
  BY <1>1, <1>4, <1>5, <1>6, OneSlot DEF BusyState

\* A slot without a worker.
LEMMA UnusedOK == Unused \in Worker /\ SlotOK(Unused) /\ Unused.state = "unused"
BY DEF Unused, Worker, SlotState, SlotOK

LEMMA StartedOK ==
  ASSUME NEW c \in Container, NEW orig \in Container, NEW map, Filed(map)
  PROVE  /\ Started(c, orig, map[c]) \in Worker /\ SlotOK(Started(c, orig, map[c]))
         /\ Started(c, orig, map[c]).state = "spawned"
BY DEF Started, Worker, SlotState, SlotOK, Filed

\* A whole job is set up anew: k slots have a worker.
LEMMA NewJob ==
  ASSUME IInv, NEW j \in Job, NEW slots \in [Slot -> Worker], NEW k \in 0..MaxWorkers,
         \A s \in Slot : SlotOK(slots[s]),
         \A s \in Slot : slots[s].state \in BusyState <=> s <= k,
         workers' = [workers EXCEPT ![j] = slots], incomplete' = [incomplete EXCEPT ![j] = k],
         Tables'
  PROVE  IInv'
<1>1. workers' \in [Job -> [Slot -> Worker]] /\ incomplete' \in [Job -> Nat]
  BY DispatchAssumption DEF IInv, Typed
<1>2. \A i \in Job, s \in Slot : SlotOK(workers'[i][s])
  BY DEF IInv, Typed
<1>3. Busy(j)' = 1..k
  BY DispatchAssumption DEF Busy, BusyState, Slot, IInv, Typed
<1>4. Cardinality(1..k) = k
  BY FS_Interval, DispatchAssumption
<1>5. \A i \in Job \ {j} : Busy(i)' = Busy(i) /\ incomplete'[i] = incomplete[i]
  BY DEF Busy, IInv, Typed
<1>6. incomplete'[j] = k
  BY DEF IInv, Typed
<1>7. WorkersCounted'
  BY <1>3, <1>4, <1>5, <1>6 DEF IInv, WorkersCounted
<1>8. QED
  BY <1>1, <1>2, <1>7 DEF IInv, Typed

LEMMA LesserType ==
  ASSUME NEW n \in Nat, NEW m \in Nat
  PROVE  Lesser(n, m) \in 0..m /\ Lesser(n, m) <= n
BY DEF Lesser

LEMMA PoppedType ==
  ASSUME NEW q \in Seq(Container), NEW k \in 0..Len(q)
  PROVE  Popped(q, k) \in Seq(Container)
BY DEF Popped

LEMMA StartInv ==
  ASSUME IInv, NEW j \in Job, Start(j)
  PROVE  IInv'
<1> DEFINE map == Grouped(NoImports, Uninserted)
           keys == Keys(map)
           n == Len(keys)
           k == Lesser(n, MaxWorkers)
           first(s) == keys[n + 1 - s]
           slots == [s \in Slot |-> IF s <= k THEN Started(first(s), first(s), map[first(s)]) ELSE Unused]
           rest == {i \in Uninserted : \A s \in 1..k : containerOf[i] # first(s)}
<1>1. /\ running' = [running EXCEPT ![j] = TRUE]
      /\ importMap' = [importMap EXCEPT ![j] = map]
      /\ containerIDs' = [containerIDs EXCEPT ![j] = Popped(keys, k)]
      /\ incomplete' = [incomplete EXCEPT ![j] = k]
      /\ workers' = [workers EXCEPT ![j] = slots]
      /\ owed' = [owed EXCEPT ![j] = rest]
      /\ UNCHANGED <<pending, attempts, lock, kills>>
  BY DEF Start
<1>2. Uninserted \in SUBSET Import /\ rest \subseteq Import
  BY DEF Uninserted, IInv, Typed, Tables
<1>3. Filed(map)
  BY <1>2, NoneFiled, GroupedFiled
<1>4. keys \in Seq(Container) /\ \A i \in 1..n : keys[i] \in Container
  BY <1>3, KeysType
<1> HIDE DEF map, keys, rest
<1>5. n \in Nat
  BY <1>4
<1>6. k \in 0..MaxWorkers /\ k <= n
  BY <1>5, LesserType, DispatchAssumption
<1> HIDE DEF k, n
<1>7. \A s \in Slot : s <= k => first(s) \in Container
  <2> TAKE s \in Slot
  <2>1. s <= k => n + 1 - s \in 1..n
    BY <1>5, <1>6, DispatchAssumption DEF Slot
  <2>2. QED
    BY <1>4, <2>1 DEF n
<1> HIDE DEF first
<1>8. \A s \in Slot : s <= k =>
        /\ Started(first(s), first(s), map[first(s)]) \in Worker
        /\ SlotOK(Started(first(s), first(s), map[first(s)]))
        /\ Started(first(s), first(s), map[first(s)]).state = "spawned"
  BY <1>3, <1>7, StartedOK
<1>9. /\ slots \in [Slot -> Worker]
      /\ \A s \in Slot : SlotOK(slots[s])
      /\ \A s \in Slot : slots[s].state \in BusyState <=> s <= k
  BY <1>8, UnusedOK DEF BusyState
<1>10. Popped(keys, k) \in Seq(Container)
  <2>1. k \in 0..Len(keys)
    BY <1>5, <1>6 DEF n
  <2>2. QED
    BY <1>4, <2>1, PoppedType
<1>11. Tables'
  BY <1>1, <1>2, <1>3, <1>10 DEF IInv, Typed, Tables
<1> HIDE DEF slots
<1>12. QED
  BY <1>1, <1>6, <1>9, <1>11, NewJob

LEMMA EndInv ==
  ASSUME IInv, NEW j \in Job, ThreadEnds(j), kills' \in 0..MaxKills
  PROVE  IInv'
<1> DEFINE slots == [s \in Slot |-> Unused]
<1>1. /\ slots \in [Slot -> Worker]
      /\ \A s \in Slot : SlotOK(slots[s]) /\ slots[s].state = "unused"
  BY UnusedOK
<1>2. workers' = [workers EXCEPT ![j] = slots] /\ incomplete' = [incomplete EXCEPT ![j] = 0]
  BY DEF ThreadEnds
<1>3. Tables'
  BY NoneFiled DEF ThreadEnds, IInv, Typed, Tables
<1>4. \A s \in Slot : slots[s].state \in BusyState <=> s <= 0
  BY <1>1, DispatchAssumption DEF BusyState, Slot
<1>5. 0 \in 0..MaxWorkers
  BY DispatchAssumption
<1> HIDE DEF slots
<1>6. QED
  BY <1>1, <1>2, <1>3, <1>4, <1>5, NewJob

LEMMA ResumeInv ==
  ASSUME IInv, NEW j \in Job, NEW s \in Slot, Resume(j, s)
  PROVE  IInv'
<1> DEFINE w == workers[j][s]
           map == Grouped(importMap[j], w.found)
           queue == containerIDs[j] \o (IF w.found = {} THEN <<>> ELSE Keys(map))
           next == queue[Len(queue)]
           hasNext == queue # <<>> /\ map[next] # {}
           left == Popped(queue, Lesser(Len(queue), 1))
<1>1. w \in Worker /\ SlotOK(w) /\ w.state = "listed"
  BY SlotTyped DEF Resume
<1>2. w.found \in SUBSET Import /\ w.orig \in Container
  BY <1>1 DEF Worker, SlotOK
<1>3. Filed(map)
  BY <1>2, GroupedFiled DEF IInv, Typed, Tables
<1>4. queue \in Seq(Container)
  BY <1>3, KeysType DEF IInv, Typed, Tables
<1>5. \/ /\ \/ hasNext /\ StartNext(j, s, map, next)
            \/ ~hasNext /\ LeaveSlot(j, s)
         /\ importMap' = [importMap EXCEPT ![j] = map]
         /\ containerIDs' = [containerIDs EXCEPT ![j] = left]
      \/ ThreadEnds(j) /\ UNCHANGED kills
  BY DEF Resume
<1>6. CASE ThreadEnds(j) /\ UNCHANGED kills
  BY <1>6, EndInv DEF IInv, Typed, Tables
<1>7. CASE /\ \/ hasNext /\ StartNext(j, s, map, next)
              \/ ~hasNext /\ LeaveSlot(j, s)
           /\ importMap' = [importMap EXCEPT ![j] = map]
           /\ containerIDs' = [containerIDs EXCEPT ![j] = left]
  <2>1. left \in Seq(Container)
    <3> HIDE DEF queue
    <3>1. Lesser(Len(queue), 1) \in 0..Len(queue)
      BY <1>4 DEF Lesser
    <3>2. QED
      BY <1>4, <3>1, PoppedType
  <2>2. CASE hasNext /\ StartNext(j, s, map, next)
    <3> DEFINE new == Started(next, w.orig, map[next])
    <3>1. next \in Container
      <4> HIDE DEF queue
      <4>1. queue # <<>>
        BY <2>2
      <4>2. Len(queue) \in 1..Len(queue)
        BY <1>4, <4>1
      <4>3. QED
        BY <1>4, <4>2
    <3> HIDE DEF map, left, next
    <3>2. new \in Worker /\ SlotOK(new) /\ new.state = "spawned"
      BY <1>2, <1>3, <3>1, StartedOK
    <3>3. /\ workers' = [workers EXCEPT ![j][s] = new]
          /\ incomplete' = [incomplete EXCEPT ![j] = @ + 1]
          /\ owed' = [owed EXCEPT ![j] = @ \ map[next]]
          /\ UNCHANGED <<pending, attempts, lock, running, kills>>
      BY <2>2 DEF StartNext
    <3>4. Tables'
      BY <1>3, <1>7, <2>1, <3>3 DEF IInv, Typed, Tables
    <3> HIDE DEF new
    <3>5. QED
      BY <1>1, <3>2, <3>3, <3>4, OneSlot DEF BusyState
  <2>3. CASE LeaveSlot(j, s)
    <3>1. /\ workers' = [workers EXCEPT ![j][s] = Unused]
          /\ UNCHANGED <<pending, attempts, lock, running, incomplete, kills, owed>>
      BY <2>3 DEF LeaveSlot
    <3> HIDE DEF map, left
    <3>2. Tables'
      BY <1>3, <1>7, <2>1, <3>1 DEF IInv, Typed, Tables
    <3>3. QED
      BY <1>1, <3>1, <3>2, UnusedOK, OneSlot DEF BusyState
  <2>4. QED
    BY <1>7, <2>2, <2>3
<1>8. QED
  BY <1>5, <1>6, <1>7

LEMMA InitInv == Init => IInv
<1> SUFFICES ASSUME Init PROVE IInv
  OBVIOUS
<1>1. Typed
  BY NoneFiled, UnusedOK, DispatchAssumption DEF Init, Typed, Tables
<1>2. \A j \in Job, s \in Slot : SlotOK(workers[j][s])
  BY UnusedOK DEF Init
<1>3. \A j \in Job : Busy(j) = {}
  BY DEF Init, Busy, Unused
<1>4. WorkersCounted
  BY <1>3, FS_EmptySet DEF Init, WorkersCounted
<1>5. QED
  BY <1>1, <1>2, <1>4 DEF IInv

LEMMA StepInv == IInv /\ [Next]_vars => IInv'
<1> SUFFICES ASSUME IInv, [Next]_vars PROVE IInv'
  OBVIOUS
<1>1. CASE UNCHANGED vars
  BY <1>1 DEF vars, IInv, Typed, Tables, WorkersCounted, Busy
<1>2. ASSUME NEW j \in Job, Kill(j)
      PROVE  IInv'
  <2>1. kills' \in 0..MaxKills
    BY <1>2, DispatchAssumption DEF Kill, IInv, Typed, Tables
  <2>2. QED
    BY <1>2, <2>1, EndInv DEF Kill
<1>3. ASSUME NEW i \in Import, Arrive(i)
      PROVE  IInv'
  BY <1>3 DEF Arrive, IInv, Typed, Tables, WorkersCounted, Busy
<1>4. ASSUME NEW j \in Job, NEW s \in Slot, SlotStep(j, s)
      PROVE  IInv'
  BY <1>4, WorkerInv, ListMoreInv, ResumeInv DEF SlotStep
<1>5. QED
  BY <1>1, <1>2, <1>3, <1>4, StartInv DEF Next

LEMMA Invariance == Spec => []IInv
BY InitInv, StepInv, PTL DEF Spec

-----------------------------------------------------------------------------
(* Theorems *)

\* Every variable keeps its type; imports are filed under, and given to workers of,
\* their own container.
THEOREM TypeCorrect == Spec => []TypeOK
<1>1. ASSUME IInv
      PROVE  TypeOK
  <2>1. \A j \in Job : incomplete[j] \in 0..MaxWorkers
    BY <1>1, SlotsFinite DEF IInv, WorkersCounted
  <2>2. \A j \in Job : \A c \in Container : importMap[j][c] \subseteq {i \in Import : containerOf[i] = c}
    BY <1>1 DEF IInv, Typed, Tables, Filed
  <2>3. \A j \in Job, s \in Slot :
          /\ workers[j][s].state \in SlotState
          /\ workers[j][s].found \subseteq Import
          /\ \A i \in workers[j][s].imports : containerOf[i] = workers[j][s].container
    BY <1>1, SlotTyped DEF Worker, SlotOK
  <2>4. QED
    BY <1>1, <2>1, <2>2, <2>3 DEF IInv, Typed, Tables, TypeOK
<1>2. QED
  BY <1>1, Invariance, PTL

\* incompleteContainerIDs is as long as there are workers.
THEOREM Counted == Spec => []WorkersCounted
<1>1. IInv => WorkersCounted
  BY DEF IInv
<1>2. QED
  BY <1>1, Invariance, PTL

\* process.exit of the job thread comes when no worker is left.
THEOREM EndsIdle == Spec => JobEndsIdle
<1> DEFINE Idle == \A j \in Job : running[j] /\ ~running'[j] /\ kills' = kills => Busy(j) = {}
<1>1. ASSUME IInv, [Next]_vars
      PROVE  Idle
  <2> SUFFICES ASSUME NEW j \in Job, running[j], ~running'[j], kills' = kills
               PROVE  Busy(j) = {}
    OBVIOUS
  <2>1. running \in [Job -> BOOLEAN] /\ kills \in Nat
    BY <1>1, DispatchAssumption DEF IInv, Typed, Tables
  <2>2. \A k \in Job : ~Start(k) /\ ~Kill(k)
    BY <2>1 DEF Start, Kill
  <2>3. PICK k \in Job, s \in Slot : SlotStep(k, s)
    BY <1>1, <2>2 DEF Next, Arrive, vars
  <2>4. Resume(k, s)
    BY <2>3 DEF SlotStep, IncrementAttempts, LockContainer, LockRefused, Work, ExitFunc, ListMore
  <2>5. NoneIncomplete(incomplete[k]) /\ ThreadEnds(k)
    BY <2>4 DEF Resume, StartNext, LeaveSlot
  <2>6. k = j
    BY <2>1, <2>5 DEF ThreadEnds
  <2>7. Cardinality(Busy(j)) = 0
    BY <1>1, <2>5, <2>6 DEF IInv, WorkersCounted, NoneIncomplete
  <2>8. QED
    BY <2>7, SlotsFinite, FS_EmptySet
<1>2. QED
  BY <1>1, Invariance, PTL DEF Spec, JobEndsIdle

-----------------------------------------------------------------------------
(* What is owed *)

LEMMA SameBound ==
  ASSUME NEW l \in Nat, NEW n \in Nat, 1..l = 1..n
  PROVE  l = n
<1>1. \A k \in Nat : k \in 1..n <=> k \in 1..l
  OBVIOUS
<1>2. n <= l /\ l <= n
  BY <1>1
<1>3. QED
  BY <1>2

\* Each container with imports is a key, once.
LEMMA KeysAll ==
  ASSUME NEW map, Filed(map)
  PROVE  /\ \A k \in 1..Len(Keys(map)) : map[Keys(map)[k]] # {}
         /\ \A a, b \in 1..Len(Keys(map)) : a < b => Keys(map)[a] # Keys(map)[b]
         /\ \A c \in Container : map[c] # {} => \E k \in 1..Len(Keys(map)) : Keys(map)[k] = c
<1> DEFINE present == {c \in Container : map[c] # {}}
           q == Keys(map)
           n == Cardinality(present)
<1>1. present \in SUBSET Nat /\ IsFiniteSet(present)
  BY DispatchAssumption, FS_Subset
<1>2. n \in Nat
  BY <1>1, FS_CardinalityType
<1>3. q \in [1..n -> present] /\ \A a, b \in DOMAIN q : a < b => q[a] < q[b]
  BY <1>1, Ascending DEF Keys
<1>4. \A c \in present : c \in Nat
  BY <1>1
<1>5. \A c \in present : map[c] # {}
  OBVIOUS
<1> HIDE DEF q
<1>6. Len(q) = n
  <2> HIDE DEF n, present
  <2>1. q \in Seq(present)
    BY <1>2, <1>3
  <2>2. Len(q) \in Nat /\ DOMAIN q = 1..Len(q) /\ DOMAIN q = 1..n
    BY <1>3, <2>1
  <2> DEFINE l == Len(q)
  <2>3. l \in Nat /\ 1..l = 1..n
    BY <2>2
  <2> HIDE DEF l
  <2>4. l = n
    BY <1>2, <2>3, SameBound
  <2>5. QED
    BY <2>4 DEF l
<1>7. \A a, b \in 1..n : a < b => q[a] # q[b]
  <2> HIDE DEF present
  <2> QED
    BY <1>3, <1>4
<1>8. \A c \in present : \E k \in 1..n : q[k] = c
  <2>1. \A a, b \in 1..n : q[a] = q[b] => a = b
    BY <1>2, <1>7
  <2>2. q \in Injection(1..n, present)
    BY <1>3, <2>1 DEF Injection, IsInjective
  <2>3. Cardinality(1..n) = n
    BY <1>2, FS_Interval
  <2>4. q \in Surjection(1..n, present)
    BY <1>1, <2>2, <2>3, FS_Injection
  <2>5. QED
    BY <2>4 DEF Surjection
<1>9. \A k \in 1..n : map[q[k]] # {}
  <2> HIDE DEF present
  <2> QED
    BY <1>3, <1>5
<1>10. QED
  BY <1>6, <1>7, <1>8, <1>9 DEF q

\* While an import is owed, nothing was listed again; the queue holds containers with
\* imports, none of which a slot began with; and what is owed is filed and queued.
OwedOK(j) ==
  owed[j] # {} =>
    /\ \A s \in Slot : workers[j][s].state # "listing" /\ workers[j][s].found = {}
    /\ \A k \in 1..Len(containerIDs[j]) :
          /\ importMap[j][containerIDs[j][k]] # {}
          /\ \A s \in Slot : workers[j][s].state # "unused" => workers[j][s].orig # containerIDs[j][k]
    /\ \A i \in owed[j] :
          /\ i \in importMap[j][containerOf[i]]
          /\ \E k \in 1..Len(containerIDs[j]) : containerIDs[j][k] = containerOf[i]

OInv == IInv /\ \A j \in Job : OwedOK(j)

LEMMA InitOwed == Init => \A j \in Job : OwedOK(j)
BY DEF Init, OwedOK

\* A job that another step is about.
LEMMA OtherJob ==
  ASSUME NEW j, OwedOK(j),
         owed'[j] = owed[j], containerIDs'[j] = containerIDs[j], importMap'[j] = importMap[j],
         workers'[j] = workers[j]
  PROVE  OwedOK(j)'
BY DEF OwedOK

\* A slot that goes on with what it has, and lists nothing.
LEMMA SlotGoesOn ==
  ASSUME IInv, NEW j \in Job, NEW s \in Slot, OwedOK(j),
         NEW new,
         workers'[j] = [workers[j] EXCEPT ![s] = new],
         owed[j] # {} =>
           /\ new.state # "listing" /\ new.found = {} /\ new.orig = workers[j][s].orig
           /\ workers[j][s].state # "unused",
         owed'[j] = owed[j], containerIDs'[j] = containerIDs[j], importMap'[j] = importMap[j]
  PROVE  OwedOK(j)'
<1>1. workers[j] \in [Slot -> Worker]
  BY DEF IInv, Typed
<1>2. workers'[j][s] = new /\ \A t \in Slot \ {s} : workers'[j][t] = workers[j][t]
  BY <1>1
<1>3. QED
  BY <1>2 DEF OwedOK

LEMMA WorkerOwed ==
  ASSUME IInv, NEW j \in Job, NEW s \in Slot, OwedOK(j),
         \/ IncrementAttempts(j, s) \/ LockContainer(j, s) \/ LockRefused(j, s)
         \/ Work(j, s) \/ ListMore(j, s)
  PROVE  OwedOK(j)'
<1>1. workers[j] \in [Slot -> Worker] /\ workers \in [Job -> [Slot -> Worker]]
  BY DEF IInv, Typed
<1>2. UNCHANGED <<owed, containerIDs, importMap>>
  BY DEF IncrementAttempts, LockContainer, LockRefused, Work, ListMore
<1>3. CASE ListMore(j, s)
  <2>1. owed[j] = {}
    BY <1>3 DEF ListMore, OwedOK
  <2>2. QED
    BY <1>2, <2>1 DEF OwedOK
<1>4. CASE ~ListMore(j, s)
  <2>1. PICK from \in BusyState, to \in BusyState : Step(j, s, from, to)
    BY <1>4 DEF IncrementAttempts, LockContainer, LockRefused, Work, BusyState
  <2> DEFINE new == [workers[j][s] EXCEPT !.state = to]
  <2>2. workers'[j] = [workers[j] EXCEPT ![s] = new] /\ workers[j][s].state = from
    BY <1>1, <2>1 DEF Step
  <2>3. /\ new.state = to /\ new.found = workers[j][s].found /\ new.orig = workers[j][s].orig
    BY <1>1 DEF Worker
  <2> HIDE DEF new
  <2>4. owed[j] # {} => workers[j][s].found = {}
    BY DEF OwedOK
  <2>5. to # "listing" /\ from # "unused"
    BY DEF BusyState
  <2>6. QED
    BY <1>2, <2>2, <2>3, <2>4, <2>5, SlotGoesOn
<1>5. QED
  BY <1>3, <1>4

\* exitFunc deletes the entry its slot began with, which is not queued.
LEMMA ExitOwed ==
  ASSUME IInv, NEW j \in Job, NEW s \in Slot, OwedOK(j), ExitFunc(j, s)
  PROVE  OwedOK(j)'
<1> SUFFICES ASSUME owed[j] # {} PROVE OwedOK(j)'
  BY DEF ExitFunc, OwedOK
<1> DEFINE w == workers[j][s]
           queue == containerIDs[j]
<1>1. workers[j] \in [Slot -> Worker] /\ workers \in [Job -> [Slot -> Worker]]
  BY DEF IInv, Typed
<1>2. queue \in Seq(Container) /\ queue # <<>>
  BY DEF IInv, Typed, Tables, OwedOK
<1>3. w.state = "exited" /\ w \in Worker /\ w.orig \in Container
  BY <1>1, SlotTyped DEF ExitFunc, Step, SlotOK
<1> DEFINE new == [w EXCEPT !.state = "listed"]
<1>4. /\ workers' = [workers EXCEPT ![j] = [@ EXCEPT ![s] = new]]
      /\ importMap' = [importMap EXCEPT ![j][w.orig] = {}]
      /\ UNCHANGED <<containerIDs, owed>>
  BY <1>2 DEF ExitFunc, Step
<1>5. new.state = "listed" /\ new.found = w.found /\ new.orig = w.orig
  BY <1>3 DEF Worker
<1> HIDE DEF new
<1>6. workers'[j][s] = new /\ \A t \in Slot \ {s} : workers'[j][t] = workers[j][t]
  BY <1>1, <1>4
<1>7. \A k \in 1..Len(queue) : queue[k] \in Container /\ queue[k] # w.orig
  BY <1>2, <1>3 DEF OwedOK
<1>8. importMap[j] \in [Container -> SUBSET Import] /\ DOMAIN importMap = Job
  BY DEF IInv, Typed, Tables, Filed
<1>9. \A c \in Container : c # w.orig => importMap'[j][c] = importMap[j][c]
  BY <1>4, <1>8
<1>10. \A t \in Slot : /\ workers'[j][t].state # "listing" /\ workers'[j][t].found = {}
                       /\ workers'[j][t].state # "unused" =>
                            workers[j][t].state # "unused" /\ workers'[j][t].orig = workers[j][t].orig
  BY <1>3, <1>5, <1>6 DEF OwedOK
<1>11. \A k \in 1..Len(queue) : importMap'[j][queue[k]] = importMap[j][queue[k]]
  BY <1>7, <1>9
<1>12. \A i \in owed[j] : importMap'[j][containerOf[i]] = importMap[j][containerOf[i]]
  <2> TAKE i \in owed[j]
  <2>1. PICK k \in 1..Len(queue) : queue[k] = containerOf[i]
    BY DEF OwedOK
  <2>2. QED
    BY <1>11, <2>1
<1>13. owed'[j] = owed[j] /\ containerIDs'[j] = queue
  BY <1>4
<1> HIDE DEF queue
<1>14. QED
  BY <1>10, <1>11, <1>12, <1>13 DEF OwedOK, queue

\* While something is owed, the next container has imports.
LEMMA HasNext ==
  ASSUME IInv, NEW j \in Job, NEW s \in Slot, OwedOK(j), owed[j] # {}, Resume(j, s)
  PROVE  LET queue == containerIDs[j]
             next == queue[Len(queue)]
         IN  /\ queue \in Seq(Container) /\ queue # <<>> /\ next \in Container
             /\ StartNext(j, s, importMap[j], next)
             /\ importMap'[j] = importMap[j]
             /\ containerIDs'[j] = Popped(queue, 1)
<1> DEFINE queue == containerIDs[j]
           next == queue[Len(queue)]
           found == workers[j][s].found
           map == Grouped(importMap[j], found)
<1>1. queue \in Seq(Container) /\ Filed(importMap[j]) /\ DOMAIN importMap = Job
      /\ DOMAIN containerIDs = Job
  BY DEF IInv, Typed, Tables
<1>2. found = {} /\ queue # <<>>
  BY <1>1 DEF OwedOK
<1>3. Len(queue) \in Nat /\ Len(queue) \in 1..Len(queue)
  BY <1>1, <1>2
<1>4. next \in Container
  BY <1>1, <1>3
<1>5. map = importMap[j]
  BY <1>1, <1>2 DEF Filed, Grouped
<1>6. importMap[j][next] # {}
  BY <1>3 DEF OwedOK
<1>7. queue \o (IF found = {} THEN <<>> ELSE Keys(map)) = queue
  BY <1>1, <1>2
<1>8. Lesser(Len(queue), 1) = 1
  BY <1>3 DEF Lesser
<1>9. /\ StartNext(j, s, map, next)
      /\ importMap' = [importMap EXCEPT ![j] = map]
      /\ containerIDs' = [containerIDs EXCEPT ![j] = Popped(queue, Lesser(Len(queue), 1))]
  BY <1>2, <1>5, <1>6, <1>7 DEF Resume
<1> HIDE DEF map, queue, next
<1>10. QED
  BY <1>1, <1>2, <1>4, <1>5, <1>8, <1>9 DEF queue, next

LEMMA ResumeOwed ==
  ASSUME IInv, NEW j \in Job, NEW s \in Slot, OwedOK(j), Resume(j, s)
  PROVE  OwedOK(j)'
<1> DEFINE queue == containerIDs[j]
           next == queue[Len(queue)]
           w == workers[j][s]
           new == Started(next, w.orig, importMap[j][next])
<1>1. owed \in [Job -> SUBSET Import]
  BY DEF IInv, Typed, Tables
<1>2. owed'[j] \subseteq owed[j]
  <2>1. PICK given : \/ owed' = [owed EXCEPT ![j] = @ \ given] \/ UNCHANGED owed
                     \/ owed' = [owed EXCEPT ![j] = {}]
    <3>1. CASE \E map, n : StartNext(j, s, map, n)
      BY <3>1 DEF StartNext
    <3>2. CASE LeaveSlot(j, s)
      BY <3>2 DEF LeaveSlot
    <3>3. CASE ThreadEnds(j)
      BY <3>3 DEF ThreadEnds
    <3>4. QED
      BY <3>1, <3>2, <3>3 DEF Resume
  <2>2. QED
    BY <1>1, <2>1
<1> SUFFICES ASSUME owed[j] # {} PROVE OwedOK(j)'
  BY <1>2 DEF OwedOK
<1>3. /\ queue \in Seq(Container) /\ queue # <<>> /\ next \in Container
      /\ StartNext(j, s, importMap[j], next)
      /\ importMap'[j] = importMap[j]
      /\ containerIDs'[j] = Popped(queue, 1)
  BY HasNext
<1>4. workers[j] \in [Slot -> Worker] /\ workers \in [Job -> [Slot -> Worker]]
  BY DEF IInv, Typed
<1>5. w.state = "listed"
  BY DEF Resume
<1>6. workers'[j][s] = new /\ \A t \in Slot \ {s} : workers'[j][t] = workers[j][t]
  BY <1>3, <1>4 DEF StartNext
<1>7. new.state = "spawned" /\ new.found = {} /\ new.orig = w.orig
  BY DEF Started
<1>8. owed'[j] = owed[j] \ importMap[j][next]
  BY <1>1, <1>3 DEF StartNext
<1>9. /\ Len(containerIDs'[j]) = Len(queue) - 1 /\ Len(queue) \in Nat
      /\ \A k \in 1..(Len(queue) - 1) : containerIDs'[j][k] = queue[k]
  <2> HIDE DEF queue
  <2>1. Len(queue) \in Nat /\ Len(queue) # 0
    BY <1>3
  <2>2. containerIDs'[j] = SubSeq(queue, 1, Len(queue) - 1)
    BY <1>3 DEF Popped
  <2>3. QED
    BY <1>3, <2>1, <2>2
<1> HIDE DEF new
<1>10. \A t \in Slot : /\ workers'[j][t].state # "listing" /\ workers'[j][t].found = {}
                       /\ workers'[j][t].state # "unused" =>
                            workers[j][t].state # "unused" /\ workers'[j][t].orig = workers[j][t].orig
  BY <1>5, <1>6, <1>7 DEF OwedOK
<1>11. \A k \in 1..Len(containerIDs'[j]) : k \in 1..Len(queue) /\ containerIDs'[j][k] = queue[k]
  BY <1>9
<1>12. \A i \in owed'[j] : \E k \in 1..Len(containerIDs'[j]) : containerIDs'[j][k] = containerOf[i]
  <2> TAKE i \in owed'[j]
  <2>1. i \in owed[j] /\ i \notin importMap[j][next]
    BY <1>8
  <2>2. i \in importMap[j][containerOf[i]]
    BY <2>1 DEF OwedOK
  <2>3. PICK k \in 1..Len(queue) : queue[k] = containerOf[i]
    BY <2>1 DEF OwedOK
  <2>4. k # Len(queue)
    BY <2>1, <2>2, <2>3
  <2>5. k \in 1..(Len(queue) - 1)
    BY <1>9, <2>3, <2>4
  <2>6. QED
    BY <1>9, <2>3, <2>5
<1>13. \A i \in owed'[j] : i \in importMap'[j][containerOf[i]]
  BY <1>3, <1>8 DEF OwedOK
<1>14. \A k \in 1..Len(containerIDs'[j]) :
          /\ importMap'[j][containerIDs'[j][k]] # {}
          /\ \A t \in Slot : workers'[j][t].state # "unused" => workers'[j][t].orig # containerIDs'[j][k]
  BY <1>3, <1>10, <1>11 DEF OwedOK
<1> HIDE DEF queue
<1>15. QED
  BY <1>10, <1>12, <1>13, <1>14 DEF OwedOK

LEMMA StartOwed ==
  ASSUME IInv, NEW j \in Job, Start(j)
  PROVE  OwedOK(j)'
<1> DEFINE map == Grouped(NoImports, Uninserted)
           keys == Keys(map)
           n == Len(keys)
           k == Lesser(n, MaxWorkers)
           first(s) == keys[n + 1 - s]
           slots == [s \in Slot |-> IF s <= k THEN Started(first(s), first(s), map[first(s)]) ELSE Unused]
           rest == {i \in Uninserted : \A s \in 1..k : containerOf[i] # first(s)}
<1>1. /\ importMap'[j] = map /\ containerIDs'[j] = Popped(keys, k)
      /\ workers'[j] = slots /\ owed'[j] = rest
  BY DEF Start, IInv, Typed, Tables
<1>2. Uninserted \in SUBSET Import
  BY DEF Uninserted, IInv, Typed, Tables
<1>3. Filed(map)
  BY <1>2, NoneFiled, GroupedFiled
<1>4. keys \in Seq(Container)
  BY <1>3, KeysType
<1>5. /\ \A a \in 1..n : map[keys[a]] # {}
      /\ \A a, b \in 1..n : a < b => keys[a] # keys[b]
      /\ \A c \in Container : map[c] # {} => \E a \in 1..n : keys[a] = c
  BY <1>3, KeysAll
<1>6. \A i \in Uninserted : i \in map[containerOf[i]] /\ containerOf[i] \in Container
  BY <1>2, DispatchAssumption DEF Grouped
<1> HIDE DEF map, keys
<1>7. n \in Nat
  BY <1>4
<1>8. k \in 0..MaxWorkers /\ k <= n
  BY <1>7, LesserType, DispatchAssumption
<1>9. /\ Len(Popped(keys, k)) = n - k
      /\ \A a \in 1..(n - k) : Popped(keys, k)[a] = keys[a]
  <2>1. k \in 0..Len(keys)
    BY <1>7, <1>8
  <2> HIDE DEF k
  <2>2. QED
    BY <1>4, <2>1 DEF Popped
<1> HIDE DEF n, k
<1>10. \A s \in Slot : /\ slots[s].state # "listing" /\ slots[s].found = {}
                       /\ slots[s].state # "unused" => s <= k /\ slots[s].orig = first(s)
  <2> HIDE DEF first
  <2> QED
    BY DEF Started, Unused
<1>11. \A a \in 1..(n - k) : /\ map[keys[a]] # {}
                             /\ \A s \in Slot : s <= k => first(s) # keys[a]
  <2> TAKE a \in 1..(n - k)
  <2>1. a \in 1..n
    BY <1>7, <1>8, DispatchAssumption
  <2>2. \A s \in Slot : s <= k => n + 1 - s \in 1..n /\ a < n + 1 - s
    BY <1>7, <1>8, DispatchAssumption DEF Slot
  <2>3. QED
    BY <1>5, <2>1, <2>2
<1>12. \A i \in rest : i \in map[containerOf[i]] /\ \E a \in 1..(n - k) : keys[a] = containerOf[i]
  <2> TAKE i \in rest
  <2>1. i \in map[containerOf[i]] /\ containerOf[i] \in Container
    BY <1>6
  <2>2. PICK a \in 1..n : keys[a] = containerOf[i]
    BY <1>5, <2>1
  <2>3. \A s \in 1..k : a # n + 1 - s
    BY <2>2
  <2>4. a \in 1..(n - k)
    <3>1. SUFFICES ASSUME a > n - k PROVE FALSE
      BY <1>7, <1>8, DispatchAssumption
    <3>2. n + 1 - a \in 1..k /\ a = n + 1 - (n + 1 - a)
      BY <1>7, <1>8, <3>1, DispatchAssumption
    <3>3. QED
      BY <2>3, <3>2
  <2>5. QED
    BY <2>1, <2>2, <2>4
<1> HIDE DEF slots, rest, first
<1>13. QED
  BY <1>1, <1>9, <1>10, <1>11, <1>12 DEF OwedOK

LEMMA StepOwed == OInv /\ [Next]_vars => OInv'
<1> SUFFICES ASSUME OInv, [Next]_vars, NEW j \in Job PROVE OwedOK(j)'
  BY StepInv DEF OInv
<1>0. IInv /\ \A i \in Job : OwedOK(i)
  BY DEF OInv
<1>1. CASE UNCHANGED vars
  BY <1>0, <1>1 DEF vars, OwedOK
<1>2. ASSUME NEW i \in Import, Arrive(i)
      PROVE  OwedOK(j)'
  BY <1>0, <1>2 DEF Arrive, OwedOK
<1>3. ASSUME NEW i \in Job, i # j, Start(i) \/ Kill(i) \/ \E s \in Slot : SlotStep(i, s)
      PROVE  OwedOK(j)'
  <2>0. /\ DOMAIN owed = Job /\ DOMAIN containerIDs = Job /\ DOMAIN importMap = Job
        /\ DOMAIN workers = Job
    BY <1>0 DEF IInv, Typed, Tables
  <2>1. /\ owed'[j] = owed[j] /\ containerIDs'[j] = containerIDs[j]
        /\ importMap'[j] = importMap[j] /\ workers'[j] = workers[j]
    <3>1. CASE Start(i)
      BY <1>3, <2>0, <3>1 DEF Start
    <3>2. CASE ThreadEnds(i)
      BY <1>3, <2>0, <3>2 DEF ThreadEnds
    <3>3. ASSUME NEW s \in Slot,
                 \/ IncrementAttempts(i, s) \/ LockContainer(i, s) \/ LockRefused(i, s)
                 \/ Work(i, s) \/ ExitFunc(i, s) \/ ListMore(i, s)
          PROVE  /\ owed'[j] = owed[j] /\ containerIDs'[j] = containerIDs[j]
                 /\ importMap'[j] = importMap[j] /\ workers'[j] = workers[j]
      BY <1>3, <2>0, <3>3 DEF IncrementAttempts, LockContainer, LockRefused, Work, ExitFunc, ListMore, Step
    <3>4. ASSUME NEW s \in Slot, Resume(i, s), ~ThreadEnds(i)
          PROVE  /\ owed'[j] = owed[j] /\ containerIDs'[j] = containerIDs[j]
                 /\ importMap'[j] = importMap[j] /\ workers'[j] = workers[j]
      <4>1. PICK map, queue : /\ importMap' = [importMap EXCEPT ![i] = map]
                              /\ containerIDs' = [containerIDs EXCEPT ![i] = queue]
        BY <3>4 DEF Resume
      <4>2. PICK given, new : /\ owed' = [owed EXCEPT ![i] = @ \ given] \/ UNCHANGED owed
                              /\ workers' = [workers EXCEPT ![i][s] = new]
        <5>1. CASE \E m, n : StartNext(i, s, m, n)
          BY <5>1 DEF StartNext
        <5>2. CASE LeaveSlot(i, s)
          BY <5>2 DEF LeaveSlot
        <5>3. QED
          BY <3>4, <5>1, <5>2 DEF Resume
      <4>3. QED
        BY <1>3, <2>0, <4>1, <4>2
    <3>5. QED
      BY <1>3, <3>1, <3>2, <3>3, <3>4 DEF Kill, SlotStep
  <2>2. QED
    BY <1>0, <2>1, OtherJob
<1>4. CASE Start(j)
  BY <1>0, <1>4, StartOwed
<1>5. CASE Kill(j)
  BY <1>0, <1>5 DEF Kill, ThreadEnds, OwedOK, IInv, Typed, Tables
<1>6. ASSUME NEW s \in Slot, SlotStep(j, s)
      PROVE  OwedOK(j)'
  BY <1>0, <1>6, WorkerOwed, ExitOwed, ResumeOwed DEF SlotStep
<1>7. QED
  BY <1>1, <1>2, <1>3, <1>4, <1>5, <1>6 DEF Next

\* What a job listed at its start has all been given to workers when it ends by itself.
THEOREM AllGiven == Spec => NothingLeftBehind
<1> DEFINE Given == \A j \in Job : running[j] /\ ~running'[j] /\ kills' = kills => owed[j] = {}
<1>1. ASSUME OInv, [Next]_vars
      PROVE  Given
  <2> SUFFICES ASSUME NEW j \in Job, running[j], ~running'[j], kills' = kills, owed[j] # {}
               PROVE  FALSE
    OBVIOUS
  <2>0. IInv /\ OwedOK(j)
    BY <1>1 DEF OInv
  <2>1. running \in [Job -> BOOLEAN] /\ kills \in Nat
    BY <2>0, DispatchAssumption DEF IInv, Typed, Tables
  <2>2. \A k \in Job : ~Start(k) /\ ~Kill(k)
    BY <2>1 DEF Start, Kill
  <2>3. PICK k \in Job, s \in Slot : SlotStep(k, s)
    BY <1>1, <2>2 DEF Next, Arrive, vars
  <2>4. Resume(k, s)
    BY <2>3 DEF SlotStep, IncrementAttempts, LockContainer, LockRefused, Work, ExitFunc, ListMore
  <2>5. ThreadEnds(k)
    BY <2>4 DEF Resume, StartNext, LeaveSlot
  <2>6. k = j
    BY <2>1, <2>5 DEF ThreadEnds
  <2>7. UNCHANGED running
    BY <2>0, <2>4, <2>6, HasNext DEF StartNext
  <2>8. QED
    BY <2>7
<1>2. Init => OInv
  BY InitInv, InitOwed DEF OInv
<1>3. QED
  BY <1>1, <1>2, StepOwed, PTL DEF Spec, NothingLeftBehind
=============================================================================
