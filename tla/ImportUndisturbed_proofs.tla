---------------------- MODULE ImportUndisturbed_proofs ----------------------
(***************************************************************************)
(* What the import job and its workers do for imports that are already     *)
(* staged while no user interferes (Undisturbed), for every set of         *)
(* workers, containers, imports and records: nodes before edges, whatever  *)
(* fails; no row twice, no row left in the temporary tables, every row     *)
(* made and tagged, when nothing fails.                                    *)
(***************************************************************************)
EXTENDS ImportProcessing_proofs

Undisturbed == Preloaded = Import /\ MaxRequests = 0

Still ==
  /\ staged = Record /\ exited = {} /\ requests = 0
  /\ \A i \in Import : receiving[i] = "closed" /\ status[i] # "none" /\ reprocess[i] = "idle"
  /\ \A w \in Worker : worker[w].origin = "job"

Base == TypeOK /\ LockInv /\ Still /\ MarkedHasRow

\* A step of worker w's own, of the job, or of nobody.
Step(w) == WorkerStep(w) \/ MarkFails(w) \/ Crash(w)

\* A worker that does not exit stays with its container and imports.
LEMMA StepWorker ==
  ASSUME TypeOK, NEW w \in Worker, Step(w), ~Exit(w)
  PROVE  /\ \A v \in Worker : v # w => worker'[v] = worker[v]
         /\ worker'[w].container = worker[w].container
         /\ worker'[w].imports = worker[w].imports
         /\ worker'[w].origin = worker[w].origin
<1>0. worker[w] \in WorkerType
  BY DEF TypeOK
<1>1. CASE IncrementAttempts(w) \/ AdvisoryLockContainer(w)
  BY <1>0, <1>1 DEF IncrementAttempts, AdvisoryLockContainer, TypeOK, WorkerType
<1>2. CASE ListRecords(w) \/ CopyToTemp(w)
  BY <1>0, <1>2 DEF ListRecords, CopyToTemp, TypeOK, WorkerType
<1>3. CASE MoveFromTemp(w)
  <2>1. worker' = [worker EXCEPT ![w].step = "mark"]
    BY <1>3 DEF MoveFromTemp
  <2>2. QED
    BY <1>0, <2>1 DEF TypeOK, WorkerType
<1>4. CASE MarkProcessed(w) \/ MarkFails(w)
  BY <1>0, <1>4 DEF MarkProcessed, MarkFails, AfterMark, TypeOK, WorkerType
<1>5. CASE AttachTagsForImport(w)
  BY <1>0, <1>5 DEF AttachTagsForImport, TypeOK, WorkerType
<1>6. QED
  BY <1>1, <1>2, <1>3, <1>4, <1>5 DEF Step, WorkerStep, Finish, Crash

LEMMA QuietSteps ==
  ASSUME Undisturbed, Base, [Next]_vars
  PROVE  \/ \E w \in Worker : Step(w)
         \/ \E c \in Container : Dispatch(c)
         \/ UNCHANGED vars
<1>1. ~\E i \in Import : \/ ReceiveStep(i) \/ SaveFails(i) \/ ReceiveFails(i)
                        \/ ReprocessStep(i) \/ ReprocessCrash(i)
  BY DEF Base, Still, ReceiveStep, CreateImport, SaveBuffer, StreamEnd, FinalSave, SaveFails,
         ReceiveFails, ReprocessStep, ReprocessSetStatus, ReprocessDeleteData,
         ReprocessSpawn, ExitHandler, ReprocessCrash
<1>2. ~\E i \in Import : UserReprocess(i) \/ DeleteImport(i) \/ CleanStaging(i)
  BY DEF Base, Still, Undisturbed, UserReprocess, DeleteImport, CleanStaging
<1>3. ~\E s \in Shape : SetMapping(s)
  BY DEF Base, Still, Undisturbed, SetMapping
<1>4. QED
  BY <1>1, <1>2, <1>3 DEF Next, Fault, UserRequest, Step

\* The records of a worker's imports.
Mine(w) == RecordsOf(worker[w].imports)

\* Two workers past the lock have no record in common.
LEMMA Disjoint ==
  ASSUME TypeOK, LockInv, NEW v \in Worker, NEW w \in Worker, v # w,
         worker[v].step \in LockedSteps, worker[w].step \in LockedSteps
  PROVE  Mine(v) \cap Mine(w) = {}
<1>1. HoldsLock(v) /\ HoldsLock(w)
  BY DEF LockInv, LockedSteps
<1>2. QED
  BY <1>1 DEF HoldsLock, Mine, RecordsOf

\* No step makes a mapping active, or an active one inactive.
LEMMA MappingKept ==
  ASSUME Undisturbed, Base, [Next]_vars, NEW r \in Record
  PROVE  (mapping'[shapeOf[r]] = "active") <=> (mapping[shapeOf[r]] = "active")
<1>1. shapeOf[r] \in Shape
  BY ConstantsAssumption
<1>2. ASSUME NEW w \in Worker, Step(w)
      PROVE  (mapping'[shapeOf[r]] = "active") <=> (mapping[shapeOf[r]] = "active")
  <2>1. CASE CopyToTemp(w)
    BY <1>1, <2>1 DEF CopyToTemp, Base, TypeOK
  <2>2. QED
    BY <1>2, <2>1
       DEF Step, WorkerStep, IncrementAttempts, AdvisoryLockContainer, ListRecords,
           MoveFromTemp, MarkProcessed, MarkFails, AttachTagsForImport, Finish, Crash
<1>3. ASSUME NEW c \in Container, Dispatch(c) PROVE mapping' = mapping
  BY <1>3 DEF Dispatch
<1>4. UNCHANGED vars => mapping' = mapping
  BY DEF vars
<1>5. QED
  BY <1>2, <1>3, <1>4, QuietSteps

\* No row of the graph disappears.
LEMMA RowsStay ==
  ASSUME Undisturbed, Base, [Next]_vars, NEW p \in Pass, NEW r \in Record, graph[p][r] > 0
  PROVE  graph'[p][r] > 0
<1>1. ASSUME NEW w \in Worker, Step(w) PROVE graph'[p][r] > 0
  <2>1. CASE MoveFromTemp(w)
    BY <2>1, MoveKeepsRows DEF Base
  <2>2. QED
    BY <1>1, <2>1
       DEF Step, WorkerStep, IncrementAttempts, AdvisoryLockContainer, ListRecords, CopyToTemp,
           MarkProcessed, MarkFails, AttachTagsForImport, Finish, Crash, tables
<1>2. ASSUME NEW c \in Container, Dispatch(c) PROVE graph' = graph
  BY <1>2 DEF Dispatch, tables
<1>3. UNCHANGED vars => graph' = graph
  BY DEF vars
<1>4. QED
  BY <1>1, <1>2, <1>3, QuietSteps

LEMMA HasRowStays ==
  ASSUME Undisturbed, Base, [Next]_vars, NEW p \in Pass, NEW r \in Record, HasRow(p, r)
  PROVE  HasRow(p, r)'
BY RowsStay DEF HasRow

LEMMA StillStep == Undisturbed /\ Base /\ [Next]_vars => Base'
<1> SUFFICES ASSUME Undisturbed, Base, [Next]_vars PROVE Base'
  OBVIOUS
<1>1. TypeOK' /\ LockInv'
  BY TypeStep, LockStep DEF Base
<1>2. MarkedHasRow'
  BY MarksStep DEF Base, Still, ReprocessCrash
<1>3. Still'
  <2>1. ASSUME NEW w \in Worker, Step(w) PROVE Still'
    <3>1. UNCHANGED <<staged, receiving, status, reprocess, requests>>
      BY <2>1
         DEF Step, WorkerStep, IncrementAttempts, AdvisoryLockContainer, ListRecords, CopyToTemp,
             MoveFromTemp, MarkProcessed, MarkFails, AttachTagsForImport, Finish, Crash,
             staging
    <3>2. exited' = {}
      BY <2>1
         DEF Base, Still, Step, WorkerStep, IncrementAttempts, AdvisoryLockContainer, ListRecords,
             CopyToTemp, MoveFromTemp, MarkProcessed, MarkFails, AttachTagsForImport, Finish,
             Crash, Exit
    <3>3. ASSUME NEW v \in Worker PROVE worker'[v].origin = "job"
      <4>1. worker[v] \in WorkerType /\ worker[v].origin = "job"
        BY DEF Base, TypeOK, Still
      <4>2. CASE Exit(w)
        BY <4>1, <4>2 DEF Base, TypeOK, Exit, IdleWorker
      <4>3. CASE ~Exit(w)
        BY <2>1, <4>1, <4>3, StepWorker DEF Base
      <4>4. QED
        BY <4>2, <4>3
    <3>4. QED
      BY <3>1, <3>2, <3>3 DEF Base, Still
  <2>2. ASSUME NEW c \in Container, Dispatch(c) PROVE Still'
    BY <2>2 DEF Dispatch, Spawn, Base, TypeOK, Still, staging
  <2>3. CASE UNCHANGED vars
    BY <2>3 DEF vars, Base, Still
  <2>4. QED
    BY <2>1, <2>2, <2>3, QuietSteps
<1>4. QED
  BY <1>1, <1>2, <1>3 DEF Base

LEMMA BaseInit == Undisturbed /\ Init => Base
<1> SUFFICES ASSUME Undisturbed, Init PROVE Base
  OBVIOUS
<1>1. Still
  BY ConstantsAssumption DEF Undisturbed, Init, Still, RecordsOf, IdleWorker
<1>2. LockInv /\ MarkedHasRow
  BY DEF Init, LockInv, IdleWorker, MarkedHasRow
<1>3. QED
  BY <1>1, <1>2, InitType DEF Base
\* A move of w that succeeds.
Moves(w, kept) ==
  LET p == worker[w].pass
      is == worker[w].imports IN
  /\ kept \subseteq InTemp(p, is)
  /\ Deduplicated(p, is, kept)
  /\ \A q \in Pass, r \in Record :
        graph'[q][r] = IF q = p /\ r \in kept THEN graph[q][r] + 1 ELSE graph[q][r]
  /\ \A q \in Pass : temp'[q] = IF q = p THEN OthersInTemp(p, is) ELSE temp[q]
  /\ worker' = [worker EXCEPT ![w].step = "mark"]

LEMMA MoveCases ==
  ASSUME TypeOK, NEW w \in Worker, MoveFromTemp(w)
  PROVE  \E kept \in SUBSET InTemp(worker[w].pass, worker[w].imports) :
           /\ Deduplicated(worker[w].pass, worker[w].imports, kept)
           /\ \/ InsertFails(worker[w].pass, kept) /\ Exit(w) /\ UNCHANGED <<temp, graph>>
              \/ ~InsertFails(worker[w].pass, kept) /\ Moves(w, kept)
<1> DEFINE p == worker[w].pass
           is == worker[w].imports
<1>1. PICK kept \in SUBSET InTemp(p, is) :
        /\ Deduplicated(p, is, kept)
        /\ \/ InsertFails(p, kept) /\ Exit(w) /\ UNCHANGED <<temp, graph>>
           \/ /\ ~InsertFails(p, kept)
              /\ graph' = [graph EXCEPT ![p] =
                   [r \in Record |-> IF r \in kept THEN @[r] + 1 ELSE @[r]]]
              /\ temp' = [temp EXCEPT ![p] = OthersInTemp(p, is)]
              /\ worker' = [worker EXCEPT ![w].step = "mark"]
  BY DEF MoveFromTemp
<1>2. p \in Pass
  BY DEF TypeOK, WorkerType
<1>3. ASSUME ~(InsertFails(p, kept) /\ Exit(w) /\ UNCHANGED <<temp, graph>>)
      PROVE  Moves(w, kept)
  <2>1. \A q \in Pass, r \in Record :
          graph'[q][r] = IF q = p /\ r \in kept THEN graph[q][r] + 1 ELSE graph[q][r]
    BY <1>1, <1>2, <1>3 DEF TypeOK
  <2>2. \A q \in Pass : temp'[q] = IF q = p THEN OthersInTemp(p, is) ELSE temp[q]
    BY <1>1, <1>2, <1>3 DEF TypeOK
  <2>3. QED
    BY <1>1, <1>3, <2>1, <2>2 DEF Moves
<1>4. QED
  BY <1>1, <1>3

\* A step of w leaves alone the records of every other worker past the lock.
LEMMA Frame ==
  ASSUME Base, NEW w \in Worker, Step(w), NEW v \in Worker, v # w,
         worker[v].step \in LockedSteps, NEW p \in Pass, NEW r \in Mine(v)
  PROVE  /\ worker'[v] = worker[v]
         /\ r \in marked'[p] <=> r \in marked[p]
         /\ r \in temp[p] => r \in temp'[p]
         /\ graph'[p][r] = graph[p][r]
         /\ tagged'[p][r] = tagged[p][r]
<1>0. worker[w] \in WorkerType /\ worker[w].pass \in Pass /\ r \in Record
  BY DEF Base, TypeOK, WorkerType, Mine, RecordsOf
<1>1. worker[w].step \in LockedSteps => r \notin Mine(w)
  BY Disjoint DEF Base
<1>2. worker'[v] = worker[v]
  BY StepWorker DEF Exit, Base, TypeOK
<1>3. r \in marked'[p] <=> r \in marked[p]
  <2>1. CASE MarkProcessed(w)
    BY <1>0, <1>1, <2>1 DEF MarkProcessed, Moved, Mine, LockedSteps, Base, TypeOK
  <2>2. CASE ~MarkProcessed(w)
    BY <2>2
       DEF Step, WorkerStep, IncrementAttempts, AdvisoryLockContainer, ListRecords, CopyToTemp,
           MoveFromTemp, MarkFails, AttachTagsForImport, Finish, Crash, tables
  <2>3. QED
    BY <2>1, <2>2
<1>4. r \in temp[p] => r \in temp'[p]
  <2>1. CASE CopyToTemp(w)
    BY <1>0, <2>1 DEF CopyToTemp, Base, TypeOK
  <2>2. CASE MoveFromTemp(w)
    <3>1. \/ temp' = temp
          \/ temp' = [temp EXCEPT ![worker[w].pass] = OthersInTemp(worker[w].pass, worker[w].imports)]
      BY <2>2 DEF MoveFromTemp
    <3>2. r \notin Mine(w)
      BY <1>1, <2>2 DEF MoveFromTemp, LockedSteps
    <3>3. QED
      BY <1>0, <3>1, <3>2 DEF OthersInTemp, Mine, Base, TypeOK
  <2>3. CASE temp' = temp
    BY <2>3
  <2>4. QED
    BY <2>1, <2>2, <2>3
       DEF Step, WorkerStep, IncrementAttempts, AdvisoryLockContainer, ListRecords,
           MarkProcessed, MarkFails, AttachTagsForImport, Finish, Crash, tables
<1>5. graph'[p][r] = graph[p][r]
  <2>1. CASE MoveFromTemp(w) /\ graph' # graph
    <3>1. r \notin Mine(w)
      BY <1>1, <2>1 DEF MoveFromTemp, LockedSteps
    <3>2. PICK kept : kept \subseteq InTemp(worker[w].pass, worker[w].imports) /\ Moves(w, kept)
      BY <2>1, MoveCases DEF Base
    <3>3. QED
      BY <1>0, <3>1, <3>2 DEF Moves, InTemp, Mine
  <2>2. QED
    BY <2>1
       DEF Step, WorkerStep, IncrementAttempts, AdvisoryLockContainer, ListRecords, CopyToTemp,
           MarkProcessed, MarkFails, AttachTagsForImport, Finish, Crash, tables
<1>6. tagged'[p][r] = tagged[p][r]
  <2>1. CASE AttachTagsForImport(w)
    <3>1. r \notin RowsOf(worker[w].pass, worker[w].imports)
      BY <1>1, <2>1 DEF AttachTagsForImport, RowsOf, Mine, LockedSteps
    <3>2. QED
      BY <1>0, <2>1, <3>1 DEF AttachTagsForImport, Base, TypeOK
  <2>2. CASE ~AttachTagsForImport(w)
    BY <2>2
       DEF Step, WorkerStep, IncrementAttempts, AdvisoryLockContainer, ListRecords, CopyToTemp,
           MoveFromTemp, MarkProcessed, MarkFails, Finish, Crash, tables
  <2>3. QED
    BY <2>1, <2>2
<1>7. QED
  BY <1>2, <1>3, <1>4, <1>5, <1>6

LEMMA DispatchFrame ==
  ASSUME Base, NEW c \in Container, Dispatch(c), NEW v \in Worker
  PROVE  /\ UNCHANGED <<mapping, marked, temp, graph, tagged, attempts, lock>>
         /\ \/ worker'[v] = worker[v]
            \/ /\ worker[v].step = "idle"
               /\ worker'[v] = [step |-> "spawned", container |-> c, pass |-> "node", batch |-> {},
                                imports |-> {i \in Uninserted : containerOf[i] = c}, origin |-> "job"]
BY DEF Dispatch, Spawn, Base, TypeOK, tables

---------------------------------------------------------------------------
(* Listing.                                                                *)

\* Of the records with an active mapping, a worker has listed those of its own
\* imports that are not marked, and they still are not.
CopyOK(w) ==
  worker[w].step = "copy" => \A r \in Record : mapping[shapeOf[r]] = "active" =>
     (r \in worker[w].batch <=> r \in Mine(w) \ marked[worker[w].pass])

CopyInv == \A w \in Worker : CopyOK(w)

LEMMA CopyFrame ==
  ASSUME Undisturbed, Base, [Next]_vars, NEW v \in Worker, CopyOK(v),
         worker'[v] = worker[v],
         worker[v].step \in LockedSteps => \A p \in Pass, r \in Mine(v) :
            r \in marked'[p] <=> r \in marked[p]
  PROVE  CopyOK(v)'
<1>1. worker[v].pass \in Pass /\ Mine(v)' = Mine(v)
  BY DEF Base, TypeOK, WorkerType, Mine
<1>2. QED
  BY <1>1, MappingKept DEF CopyOK, LockedSteps

LEMMA CopyStep == Undisturbed /\ Base /\ CopyInv /\ [Next]_vars => CopyInv'
<1> SUFFICES ASSUME Undisturbed, Base, CopyInv, [Next]_vars, NEW v \in Worker
             PROVE  CopyOK(v)'
  BY DEF CopyInv
<1>0. CopyOK(v) /\ worker[v] \in WorkerType
  BY DEF CopyInv, Base, TypeOK
<1>1. ASSUME NEW w \in Worker, Step(w) PROVE CopyOK(v)'
  <2>1. CASE v # w
    <3>1. worker'[v] = worker[v]
      BY <1>1, <2>1, StepWorker DEF Exit, Base, TypeOK
    <3>2. QED
      BY <1>0, <1>1, <2>1, <3>1, Frame, CopyFrame
  <2>2. CASE v = w /\ ListRecords(w)
    <3>1. /\ worker'[w].pass = worker[w].pass
          /\ worker'[w].batch = Listing(worker[w].pass, worker[w].imports)
          /\ worker'[w].imports = worker[w].imports
          /\ UNCHANGED <<mapping, marked>>
      BY <1>0, <2>2 DEF ListRecords, Base, TypeOK, WorkerType, tables
    <3>2. \A r \in Record : mapping[shapeOf[r]] = "active" =>
            (r \in Listing(worker[w].pass, worker[w].imports)
               <=> r \in Mine(w) \ marked[worker[w].pass])
      BY DEF Listing, ActiveMapping, Unmapped, Mine, Base, Still
    <3>3. QED
      BY <2>2, <3>1, <3>2 DEF CopyOK, Mine
  <2>3. CASE v = w /\ ~ListRecords(w)
    <3>1. worker'[w].step # "copy"
      <4>1. CASE Exit(w)
        BY <4>1 DEF Exit, IdleWorker, Base, TypeOK
      <4>2. CASE MoveFromTemp(w) /\ ~Exit(w)
        BY <1>0, <2>3, <4>2, MoveCases DEF Moves, Base, TypeOK, WorkerType
      <4>3. CASE ~MoveFromTemp(w) /\ ~Exit(w)
        BY <1>0, <1>1, <2>3, <4>3
           DEF Step, WorkerStep, IncrementAttempts, AdvisoryLockContainer, CopyToTemp,
               MarkProcessed, MarkFails, AfterMark, AttachTagsForImport, Finish, Crash,
               Base, TypeOK, WorkerType
      <4>4. QED
        BY <4>1, <4>2, <4>3
    <3>2. QED
      BY <2>3, <3>1 DEF CopyOK
  <2>4. QED
    BY <2>1, <2>2, <2>3
<1>2. ASSUME NEW c \in Container, Dispatch(c) PROVE CopyOK(v)'
  <2>1. CASE worker'[v] = worker[v]
    BY <1>0, <1>2, <2>1, DispatchFrame, CopyFrame
  <2>2. worker'[v] # worker[v] =>
          worker'[v] = [step |-> "spawned", container |-> c, pass |-> "node", batch |-> {},
                        imports |-> {i \in Uninserted : containerOf[i] = c}, origin |-> "job"]
    BY <1>2, DispatchFrame
  <2>3. QED
    BY <2>1, <2>2 DEF CopyOK
<1>3. CASE UNCHANGED vars
  BY <1>0, <1>3, CopyFrame DEF vars
<1>4. QED
  BY <1>1, <1>2, <1>3, QuietSteps

LEMMA CopyInit == Init => CopyInv
<1> SUFFICES ASSUME Init, NEW w \in Worker PROVE CopyOK(w)
  BY DEF CopyInv
<1>1. worker[w].step = "idle"
  BY DEF Init, IdleWorker
<1>2. QED
  BY <1>1 DEF CopyOK

---------------------------------------------------------------------------
(* The two passes.                                                         *)

\* Keys of the records of one import may repeat, those of two imports differ.
KeysWithinImport ==
  \A p \in Pass, r, q \in Record : keyOf[p][r] = keyOf[p][q] => importOf[r] = importOf[q]

\* The records of rs that make a node have it.
NodesMade(rs) == \A r \in rs : Generates("node", r) => HasRow("node", r)

\* What a worker has made in the pass it is at, and in the pass before.
PassOK(w) ==
  /\ worker[w].step \in {"spawned", "lock"} => worker[w].pass = "node"
  /\ worker[w].step = "move" /\ worker[w].pass = "node" =>
        \A r \in Mine(w) : Generates("node", r) => r \in temp["node"] \/ HasRow("node", r)
  /\ worker[w].step = "mark" => NodesMade(Mine(w))
  /\ worker[w].step \in {"list", "copy", "move"} /\ worker[w].pass = "edge" => NodesMade(Mine(w))

PassInv == \A w \in Worker : PassOK(w)

LEMMA NodesMadeStay ==
  ASSUME Undisturbed, Base, [Next]_vars, NEW v \in Worker, NodesMade(Mine(v)),
         worker'[v].imports = worker[v].imports
  PROVE  NodesMade(Mine(v))'
BY MappingKept, HasRowStays DEF NodesMade, Mine, RecordsOf, Generates, Pass

\* A worker that another one's step leaves where it is.
LEMMA PassFrame ==
  ASSUME Undisturbed, Base, [Next]_vars, NEW v \in Worker, PassOK(v),
         worker'[v] = worker[v],
         worker[v].step \in LockedSteps => \A p \in Pass, r \in Mine(v) :
            r \in temp[p] => r \in temp'[p]
  PROVE  PassOK(v)'
<1>0. worker[v].pass \in Pass /\ Mine(v)' = Mine(v) /\ Mine(v) \subseteq Record
  BY DEF Base, TypeOK, WorkerType, Mine, RecordsOf
<1>1. ASSUME worker[v].step = "move", worker[v].pass = "node",
             NEW r \in Mine(v), Generates("node", r)'
      PROVE  r \in temp'["node"] \/ HasRow("node", r)'
  <2>1. Generates("node", r)
    BY <1>0, <1>1, MappingKept DEF Generates
  <2>2. r \in temp["node"] \/ HasRow("node", r)
    BY <1>1, <2>1 DEF PassOK
  <2>3. QED
    BY <1>0, <1>1, <2>2, HasRowStays DEF LockedSteps
<1>2. NodesMade(Mine(v)) => NodesMade(Mine(v))'
  BY NodesMadeStay
<1>3. QED
  BY <1>0, <1>1, <1>2 DEF PassOK

\* After the nodes were moved, each of the worker's records that makes one has it.
LEMMA MoveMakesNodes ==
  ASSUME Undisturbed, KeysWithinImport, Base, [Next]_vars, NEW w \in Worker, PassOK(w),
         worker[w].step = "move", worker[w].pass = "node", NEW kept, Moves(w, kept)
  PROVE  NodesMade(Mine(w))'
<1>0. "node" \in Pass /\ worker[w] \in WorkerType
  BY DEF Pass, Base, TypeOK
<1>1. Mine(w)' = Mine(w) /\ Mine(w) \subseteq Record
  BY <1>0 DEF Moves, Mine, RecordsOf, Base, TypeOK, WorkerType
<1>2. ASSUME NEW r \in Mine(w), Generates("node", r)' PROVE HasRow("node", r)'
  <2>1. Generates("node", r)
    BY <1>1, <1>2, MappingKept DEF Generates
  <2>2. CASE HasRow("node", r)
    BY <1>0, <1>1, <2>2, HasRowStays
  <2>3. CASE r \in temp["node"]
    <3>1. r \in InTemp("node", worker[w].imports)
      BY <2>3 DEF InTemp, Mine
    <3>2. PICK q \in kept \cup OthersInTemp("node", worker[w].imports) :
            keyOf["node"][q] = keyOf["node"][r]
      BY <3>1, ConstantsAssumption DEF Moves, Deduplicated
    <3>3. q \in Record /\ importOf[q] = importOf[r]
      BY <1>0, <1>1, <3>2 DEF Moves, InTemp, OthersInTemp, Base, TypeOK, KeysWithinImport
    <3>4. q \in kept
      BY <3>2, <3>3 DEF OthersInTemp, Mine, RecordsOf
    <3>5. graph'["node"][q] > 0
      BY <1>0, <3>3, <3>4 DEF Moves, Base, TypeOK
    <3>6. QED
      BY <3>2, <3>3, <3>5 DEF HasRow
  <2>4. QED
    BY <1>2, <2>1, <2>2, <2>3 DEF PassOK
<1>3. QED
  BY <1>1, <1>2 DEF NodesMade

\* The step of a worker that goes on.
LEMMA PassOwnStep ==
  ASSUME Undisturbed, KeysWithinImport, Base, [Next]_vars,
         NEW w \in Worker, CopyOK(w), PassOK(w), Step(w), ~Exit(w)
  PROVE  PassOK(w)'
<1>0. /\ worker[w] \in WorkerType /\ worker[w].pass \in Pass /\ "node" \in Pass
      /\ worker'[w].imports = worker[w].imports
  BY StepWorker DEF Base, TypeOK, WorkerType, Pass
<1>1. NodesMade(Mine(w)) => NodesMade(Mine(w))'
  BY <1>0, NodesMadeStay
<1>2. CASE IncrementAttempts(w) \/ AdvisoryLockContainer(w)
  <2>1. worker'[w].step \in {"lock", "list"} /\ worker'[w].pass = "node"
    BY <1>0, <1>2
       DEF IncrementAttempts, AdvisoryLockContainer, PassOK, Base, TypeOK, WorkerType
  <2>2. QED
    BY <2>1 DEF PassOK
<1>3. CASE ListRecords(w)
  <2>1. worker'[w].step = "copy" /\ worker'[w].pass = worker[w].pass
    BY <1>0, <1>3 DEF ListRecords, Base, TypeOK, WorkerType
  <2>2. QED
    BY <1>0, <1>1, <1>3, <2>1 DEF PassOK, ListRecords
<1>4. CASE CopyToTemp(w)
  <2>1. /\ worker'[w].step = "move" /\ worker'[w].pass = worker[w].pass
        /\ UNCHANGED <<marked, graph>>
    BY <1>0, <1>4 DEF CopyToTemp, Base, TypeOK, WorkerType
  <2>2. ASSUME worker[w].pass = "node", NEW r \in Mine(w), Generates("node", r)'
        PROVE  r \in temp'["node"] \/ HasRow("node", r)'
    <3>1. r \in Record /\ importOf[r] \in Import
      BY ConstantsAssumption DEF Mine, RecordsOf
    <3>2. Generates("node", r)
      BY <2>2, <3>1, MappingKept DEF Generates
    <3>3. CASE r \in marked["node"]
      <4>1. graph["node"][r] > 0
        BY <1>0, <3>1, <3>3 DEF Base, Still, MarkedHasRow
      <4>2. QED
        BY <2>1, <3>1, <4>1 DEF HasRow
    <3>4. CASE r \notin marked["node"]
      <4>1. r \in worker[w].batch
        BY <1>4, <2>2, <3>1, <3>2, <3>4 DEF CopyToTemp, CopyOK, Generates
      <4>2. QED
        BY <1>0, <1>4, <2>2, <3>2, <4>1 DEF CopyToTemp, Base, TypeOK
    <3>5. QED
      BY <3>3, <3>4
  <2>3. QED
    BY <1>0, <1>1, <1>4, <2>1, <2>2 DEF PassOK, CopyToTemp, Mine
<1>5. CASE MoveFromTemp(w)
  <2>1. PICK kept : Moves(w, kept)
    BY <1>5, MoveCases DEF Base
  <2>2. worker'[w].step = "mark" /\ worker'[w].pass = worker[w].pass
    BY <1>0, <2>1 DEF Moves, Base, TypeOK, WorkerType
  <2>3. NodesMade(Mine(w))'
    BY <1>1, <1>0, <1>5, <2>1, MoveMakesNodes DEF MoveFromTemp, PassOK, Pass
  <2>4. QED
    BY <2>2, <2>3 DEF PassOK
<1>6. CASE MarkProcessed(w) \/ MarkFails(w)
  <2>1. \/ worker'[w].step = "list" /\ worker'[w].pass = "edge"
        \/ worker'[w].step = "attach"
    BY <1>0, <1>6 DEF MarkProcessed, MarkFails, AfterMark, Base, TypeOK, WorkerType
  <2>2. QED
    BY <1>1, <1>6, <2>1 DEF PassOK, MarkProcessed, MarkFails
<1>7. CASE AttachTagsForImport(w)
  <2>1. worker'[w].step \in {"attach", "finish"}
    BY <1>0, <1>7 DEF AttachTagsForImport, Base, TypeOK, WorkerType
  <2>2. QED
    BY <2>1 DEF PassOK
<1>8. QED
  BY <1>2, <1>3, <1>4, <1>5, <1>6, <1>7 DEF Step, WorkerStep, Finish, Crash

LEMMA PassStep ==
  Undisturbed /\ KeysWithinImport /\ Base /\ CopyInv /\ PassInv /\ [Next]_vars => PassInv'
<1> SUFFICES ASSUME Undisturbed, KeysWithinImport, Base, CopyInv, PassInv, [Next]_vars,
                    NEW v \in Worker
             PROVE  PassOK(v)'
  BY DEF PassInv
<1>0. PassOK(v) /\ CopyOK(v)
  BY DEF PassInv, CopyInv
<1>1. ASSUME NEW w \in Worker, Step(w) PROVE PassOK(v)'
  <2>1. CASE v # w
    <3>1. worker'[v] = worker[v]
      BY <1>1, <2>1, StepWorker DEF Exit, Base, TypeOK
    <3>2. QED
      BY <1>0, <1>1, <2>1, <3>1, Frame, PassFrame
  <2>2. CASE v = w /\ Exit(w)
    BY <2>2 DEF Exit, PassOK, IdleWorker, Base, TypeOK
  <2>3. CASE v = w /\ ~Exit(w)
    BY <1>0, <1>1, <2>3, PassOwnStep
  <2>4. QED
    BY <2>1, <2>2, <2>3
<1>2. ASSUME NEW c \in Container, Dispatch(c) PROVE PassOK(v)'
  <2>1. CASE worker'[v] = worker[v]
    BY <1>0, <1>2, <2>1, DispatchFrame, PassFrame
  <2>2. CASE worker'[v].step = "spawned" /\ worker'[v].pass = "node"
    BY <2>2 DEF PassOK
  <2>3. worker'[v] # worker[v] =>
          worker'[v] = [step |-> "spawned", container |-> c, pass |-> "node", batch |-> {},
                        imports |-> {i \in Uninserted : containerOf[i] = c}, origin |-> "job"]
    BY <1>2, DispatchFrame
  <2>4. QED
    BY <2>1, <2>2, <2>3
<1>3. CASE UNCHANGED vars
  BY <1>0, <1>3, PassFrame DEF vars
<1>4. QED
  BY <1>1, <1>2, <1>3, QuietSteps

LEMMA PassInit == Init => PassInv
<1> SUFFICES ASSUME Init, NEW w \in Worker PROVE PassOK(w)
  BY DEF PassInv
<1>1. worker[w].step = "idle"
  BY DEF Init, IdleWorker
<1>2. QED
  BY <1>1 DEF PassOK

\* Edges are generated after the nodes of their import, whatever workers crash,
\* statements fail, and retries start over.
THEOREM NodesFirst == Undisturbed /\ KeysWithinImport => (Spec => NodesBeforeEdges)
<1> SUFFICES ASSUME Undisturbed, KeysWithinImport PROVE Spec => NodesBeforeEdges
  OBVIOUS
<1> DEFINE A == \A r \in temp'["edge"] \ temp["edge"] :
                  \A q \in staged \cap RecordsOf({importOf[r]}) :
                     Generates("node", q) => HasRow("node", q)
<1>1. Base /\ CopyInv /\ PassInv /\ [Next]_vars => A
  <2> SUFFICES ASSUME Base, CopyInv, PassInv, [Next]_vars, NEW r \in temp'["edge"] \ temp["edge"],
                      NEW q \in RecordsOf({importOf[r]}), Generates("node", q)
               PROVE  HasRow("node", q)
    OBVIOUS
  <2>1. PICK w \in Worker : /\ CopyToTemp(w) /\ worker[w].pass = "edge"
                            /\ r \in worker[w].batch /\ Generates("edge", r)
    BY TempSource DEF Base, Pass
  <2>2. r \in Record
    BY <2>1 DEF Base, TypeOK, WorkerType
  <2>3. r \in Mine(w)
    BY <2>1, <2>2 DEF CopyInv, CopyOK, CopyToTemp, Generates
  <2>4. NodesMade(Mine(w))
    BY <2>1 DEF PassInv, PassOK, CopyToTemp
  <2>5. q \in Mine(w)
    BY <2>3 DEF Mine, RecordsOf
  <2>6. QED
    BY <2>4, <2>5 DEF NodesMade
<1>2. Init => Base /\ CopyInv /\ PassInv
  BY BaseInit, CopyInit, PassInit
<1>3. Base /\ CopyInv /\ PassInv /\ [Next]_vars => Base' /\ CopyInv' /\ PassInv'
  BY StillStep, CopyStep, PassStep
<1>4. QED
  BY <1>1, <1>2, <1>3, PTL DEF Spec, NodesBeforeEdges

\* Edges never dangle, whatever fails: nothing deletes a node.
THEOREM EdgesStand == Undisturbed => (Spec => []NoDanglingEdge)
<1> SUFFICES ASSUME Undisturbed PROVE Spec => []NoDanglingEdge
  OBVIOUS
<1>1. Init => Base /\ EdgeInv
  BY BaseInit DEF Init, EdgeInv, Pass
<1>2. Base /\ EdgeInv /\ [Next]_vars => Base' /\ EdgeInv'
  <2> SUFFICES ASSUME Base, EdgeInv, [Next]_vars PROVE Base' /\ EdgeInv'
    OBVIOUS
  <2>1. NodesStay
    BY RowsStay DEF NodesStay, HasNode, Pass
  <2>2. QED
    BY <2>1, StillStep, EdgeStep DEF Base
<1>3. EdgeInv => NoDanglingEdge
  BY DEF EdgeInv, NoDanglingEdge
<1>4. QED
  BY <1>1, <1>2, <1>3, PTL DEF Spec

---------------------------------------------------------------------------
(* Without faults: rows, and the temporary tables.                         *)

Faultless == Undisturbed /\ MaxFaults = 0

\* Worker w has moved r and is about to mark it.
Marking(w, p, r) == worker[w].step = "mark" /\ worker[w].pass = p /\ r \in Mine(w)

RowOK(p, r) ==
  /\ graph[p][r] <= 1
  /\ graph[p][r] > 0 => r \in marked[p] \/ \E w \in Worker : Marking(w, p, r)
  /\ r \in temp[p] => graph[p][r] = 0

RowInv == \A p \in Pass, r \in Record : RowOK(p, r)

LEMMA NoFault ==
  ASSUME Faultless, Base, NEW w \in Worker, Step(w)
  PROVE  WorkerStep(w)
BY DEF Faultless, Base, TypeOK, Step, MarkFails, Crash

\* A row whose mark is due stays so, or is marked.
LEMMA MarkComes ==
  ASSUME Faultless, Base, [Next]_vars, NEW p \in Pass, NEW r \in Record, graph[p][r] > 0,
         r \in marked[p] \/ \E w \in Worker : Marking(w, p, r)
  PROVE  r \in marked'[p] \/ \E w \in Worker : Marking(w, p, r)'
<1>1. ASSUME NEW w \in Worker, Step(w)
      PROVE  r \in marked'[p] \/ \E v \in Worker : Marking(v, p, r)'
  <2>1. CASE MarkProcessed(w)
    <3>1. r \in marked[p] \/ Marking(w, p, r) => r \in marked'[p]
      BY <2>1 DEF MarkProcessed, Moved, Marking, Mine, Base, TypeOK, Still
    <3>2. \A v \in Worker : v # w /\ Marking(v, p, r) => Marking(v, p, r)'
      BY <1>1, StepWorker DEF Marking, Mine, Exit, Base, TypeOK
    <3>3. QED
      BY <3>1, <3>2
  <2>2. CASE ~MarkProcessed(w)
    <3>1. marked' = marked
      BY <1>1, <2>2
         DEF Step, WorkerStep, IncrementAttempts, AdvisoryLockContainer, ListRecords, CopyToTemp,
             MoveFromTemp, MarkFails, AttachTagsForImport, Finish, Crash, tables
    <3>2. \A v \in Worker : Marking(v, p, r) => v # w
      BY <1>1, <2>2, NoFault
         DEF WorkerStep, IncrementAttempts, AdvisoryLockContainer, ListRecords, CopyToTemp,
             MoveFromTemp, AttachTagsForImport, Finish, Marking
    <3>3. \A v \in Worker : v # w /\ Marking(v, p, r) => Marking(v, p, r)'
      BY <1>1, StepWorker DEF Marking, Mine, Exit, Base, TypeOK
    <3>4. QED
      BY <3>1, <3>2, <3>3
  <2>3. QED
    BY <2>1, <2>2
<1>2. ASSUME NEW c \in Container, Dispatch(c)
      PROVE  r \in marked'[p] \/ \E v \in Worker : Marking(v, p, r)'
  <2>1. marked' = marked /\ \A v \in Worker : worker[v].step # "idle" => worker'[v] = worker[v]
    BY <1>2 DEF Dispatch, Spawn, Base, TypeOK, tables
  <2>2. \A v \in Worker : Marking(v, p, r) => Marking(v, p, r)'
    BY <2>1 DEF Marking, Mine
  <2>3. QED
    BY <2>1, <2>2
<1>3. CASE UNCHANGED vars
  BY <1>3 DEF vars, Marking, Mine
<1>4. QED
  BY <1>1, <1>2, <1>3, QuietSteps DEF Faultless

\* Only a worker that moves rows changes the graph.
LEMMA RowMoves ==
  ASSUME Undisturbed, Base, [Next]_vars, graph' # graph
  PROVE  \E w \in Worker : MoveFromTemp(w)
BY QuietSteps
   DEF Step, WorkerStep, IncrementAttempts, AdvisoryLockContainer, ListRecords, CopyToTemp,
       MarkProcessed, MarkFails, AttachTagsForImport, Finish, Crash, Dispatch, tables, vars

LEMMA RowStep == Faultless /\ Base /\ CopyInv /\ RowInv /\ [Next]_vars => RowInv'
<1> SUFFICES ASSUME Faultless, Base, CopyInv, RowInv, [Next]_vars,
                    NEW p \in Pass, NEW r \in Record
             PROVE  RowOK(p, r)'
  BY DEF RowInv
<1>0. RowOK(p, r) /\ graph[p][r] \in Nat
  BY DEF RowInv, Base, TypeOK
<1>1. ASSUME r \in temp'[p], r \notin temp[p] PROVE graph[p][r] = 0
  <2>1. PICK w \in Worker : /\ CopyToTemp(w) /\ worker[w].pass = p
                            /\ r \in worker[w].batch /\ Generates(p, r)
    BY <1>1, TempSource DEF Base
  <2>2. r \in Mine(w) /\ r \notin marked[p]
    BY <2>1 DEF CopyInv, CopyOK, CopyToTemp, Generates
  <2>3. ASSUME NEW v \in Worker PROVE ~Marking(v, p, r)
    BY <2>1, <2>2, Disjoint DEF Marking, CopyToTemp, LockedSteps, Base
  <2>4. QED
    BY <1>0, <2>2, <2>3 DEF RowOK
<1>2. CASE graph'[p][r] = graph[p][r]
  <2>1. graph[p][r] > 0 => r \in marked'[p] \/ \E w \in Worker : Marking(w, p, r)'
    BY <1>0, MarkComes DEF RowOK
  <2>2. QED
    BY <1>0, <1>1, <1>2, <2>1 DEF RowOK
<1>3. CASE graph'[p][r] # graph[p][r]
  <2>1. PICK w \in Worker : MoveFromTemp(w)
    BY <1>3, RowMoves DEF Faultless
  <2>2. PICK kept : kept \subseteq InTemp(worker[w].pass, worker[w].imports) /\ Moves(w, kept)
    BY <1>3, <2>1, MoveCases DEF Base
  <2>3. p = worker[w].pass /\ r \in kept /\ graph'[p][r] = graph[p][r] + 1
    BY <1>3, <2>2 DEF Moves
  <2>4. r \in temp[p] /\ r \in Mine(w) /\ r \notin temp'[p]
    BY <2>2, <2>3 DEF Moves, InTemp, OthersInTemp, Mine
  <2>5. Marking(w, p, r)'
    BY <2>2, <2>3, <2>4 DEF Moves, Marking, Mine, Base, TypeOK, WorkerType
  <2>6. QED
    BY <1>0, <2>3, <2>4, <2>5 DEF RowOK
<1>4. QED
  BY <1>2, <1>3

\* No record is made into two rows, its key complete or not.
THEOREM NoRowTwice == Faultless => (Spec => []NoDuplicates)
<1> SUFFICES ASSUME Faultless PROVE Spec => []NoDuplicates
  OBVIOUS
<1>1. Init => Base /\ CopyInv /\ RowInv
  <2>1. Init => RowInv
    BY DEF Init, RowInv, RowOK
  <2>2. QED
    BY <2>1, BaseInit, CopyInit DEF Faultless
<1>2. Base /\ CopyInv /\ RowInv /\ [Next]_vars => Base' /\ CopyInv' /\ RowInv'
  BY StillStep, CopyStep, RowStep DEF Faultless
<1>3. RowInv => NoDuplicates
  BY DEF RowInv, RowOK, NoDuplicates
<1>4. QED
  BY <1>1, <1>2, <1>3, PTL DEF Spec

\* Complete keys are unique among the records.
CompleteKeysDiffer ==
  \A p \in Pass, r, q \in Record :
     keyOf[p][r] = keyOf[p][q] /\ keyOf[p][r] \notin NullKey => r = q

\* Worker w is about to move r.
Moving(w, p, r) == worker[w].step = "move" /\ worker[w].pass = p /\ r \in Mine(w)

\* Rows in the temporary tables are somebody's, and would be generated again.
TempInv ==
  \A p \in Pass : \A r \in temp[p] : Generates(p, r) /\ \E w \in Worker : Moving(w, p, r)

LEMMA GeneratesStays ==
  ASSUME Undisturbed, Base, [Next]_vars, NEW p \in Pass, NEW r \in Record, Generates(p, r)
  PROVE  Generates(p, r)'
BY MappingKept, RowsStay DEF Generates, HasNode, Pass

\* No insert fails, so that a move moves.
LEMMA MoveSucceeds ==
  ASSUME CompleteKeysDiffer, Base, RowInv, NEW w \in Worker, MoveFromTemp(w)
  PROVE  \E kept : Moves(w, kept)
<1> DEFINE p == worker[w].pass
<1>1. PICK kept \in SUBSET InTemp(p, worker[w].imports) :
        InsertFails(p, kept) \/ Moves(w, kept)
  BY MoveCases DEF Base
<1>2. p \in Pass
  BY DEF Base, TypeOK, WorkerType
<1>3. ASSUME NEW r \in kept,
             \/ status[importOf[r]] = "none"
             \/ /\ keyOf[p][r] \notin NullKey
                /\ \E q \in Record : keyOf[p][q] = keyOf[p][r] /\ (graph[p][q] > 0 \/ q \in kept \ {r})
      PROVE  FALSE
  <2>1. r \in temp[p] /\ r \in Record /\ importOf[r] \in Import
    BY <1>2, ConstantsAssumption DEF InTemp, Base, TypeOK
  <2>2. PICK q \in Record : /\ keyOf[p][q] = keyOf[p][r] /\ (graph[p][q] > 0 \/ q \in kept \ {r})
                            /\ keyOf[p][r] \notin NullKey
    BY <1>3, <2>1 DEF Base, Still
  <2>3. q = r
    BY <1>2, <2>1, <2>2 DEF CompleteKeysDiffer
  <2>4. QED
    BY <1>2, <2>1, <2>2, <2>3 DEF RowInv, RowOK
<1>4. ~InsertFails(p, kept)
  BY <1>3 DEF InsertFails
<1>5. QED
  BY <1>1, <1>4

LEMMA TempStep ==
  Faultless /\ CompleteKeysDiffer /\ Base /\ CopyInv /\ RowInv /\ TempInv /\ [Next]_vars => TempInv'
<1> SUFFICES ASSUME Faultless, CompleteKeysDiffer, Base, CopyInv, RowInv, TempInv, [Next]_vars,
                    NEW p \in Pass, NEW r \in temp'[p]
             PROVE  Generates(p, r)' /\ \E w \in Worker : Moving(w, p, r)'
  BY DEF TempInv
<1>0. r \in Record
  BY StillStep DEF Faultless, Base, TypeOK
<1>1. CASE r \notin temp[p]
  <2>1. PICK w \in Worker : /\ CopyToTemp(w) /\ worker[w].pass = p
                            /\ r \in worker[w].batch /\ Generates(p, r)
    BY <1>1, TempSource DEF Base
  <2>2. r \in Mine(w)
    BY <1>0, <2>1 DEF CopyInv, CopyOK, CopyToTemp, Generates
  <2>3. Moving(w, p, r)'
    BY <2>1, <2>2 DEF CopyToTemp, Moving, Mine, Base, TypeOK, WorkerType
  <2>4. QED
    BY <1>0, <2>1, <2>3, GeneratesStays DEF Faultless
<1>2. CASE r \in temp[p]
  <2>1. PICK w \in Worker : Moving(w, p, r)
    BY <1>2 DEF TempInv
  <2>2. Generates(p, r)'
    BY <1>0, <1>2, GeneratesStays DEF TempInv, Faultless
  <2>3. CASE worker'[w] = worker[w]
    BY <2>1, <2>2, <2>3 DEF Moving, Mine
  <2>4. ASSUME NEW v \in Worker, Step(v), worker'[w] # worker[w] PROVE FALSE
    <3>1. v = w
      BY <2>4, StepWorker DEF Exit, Base, TypeOK
    <3>2. MoveFromTemp(w)
      BY <2>1, <2>4, <3>1, NoFault
         DEF WorkerStep, Moving, IncrementAttempts, AdvisoryLockContainer, ListRecords, CopyToTemp,
             MarkProcessed, AttachTagsForImport, Finish
    <3>3. PICK kept : Moves(w, kept)
      BY <3>2, MoveSucceeds
    <3>4. QED
      BY <2>1, <3>3 DEF Moves, Moving, OthersInTemp, Mine
  <2>5. ASSUME NEW c \in Container, Dispatch(c) PROVE worker'[w] = worker[w]
    BY <2>1, <2>5 DEF Dispatch, Spawn, Moving, Base, TypeOK
  <2>6. UNCHANGED vars => worker'[w] = worker[w]
    BY DEF vars
  <2>7. QED
    BY <2>1, <2>2, <2>3, <2>4, <2>5, <2>6, QuietSteps DEF Faultless
<1>3. QED
  BY <1>1, <1>2

RowsInv == Base /\ CopyInv /\ RowInv /\ TempInv

LEMMA RowsInit == Undisturbed /\ Init => RowsInv
<1>1. Init => RowInv /\ TempInv
  BY DEF Init, RowInv, RowOK, TempInv
<1>2. QED
  BY <1>1, BaseInit, CopyInit DEF RowsInv

LEMMA RowsStep == Faultless /\ CompleteKeysDiffer /\ RowsInv /\ [Next]_vars => RowsInv'
BY StillStep, CopyStep, RowStep, TempStep DEF Faultless, RowsInv

\* No move fails and none leaves rows behind.
THEOREM TempLeftEmpty == Faultless /\ CompleteKeysDiffer => (Spec => []TempEmptied)
<1> SUFFICES ASSUME Faultless, CompleteKeysDiffer PROVE Spec => []TempEmptied
  OBVIOUS
<1>1. RowsInv => TempEmptied
  <2> SUFFICES ASSUME TempInv, TypeOK, Quiet, NEW p \in Pass PROVE temp[p] = {}
    BY DEF RowsInv, Base, TempEmptied
  <2>1. \A r \in temp[p] : \E w \in Worker : worker[w].step = "move"
    BY DEF TempInv, Moving
  <2>2. QED
    BY <2>1 DEF Quiet
<1>2. QED
  BY <1>1, RowsInit, RowsStep, PTL DEF Spec, Faultless
---------------------------------------------------------------------------
(* Without faults: nothing is left undone.  The first worker that writes   *)
(* rows of a container was started for all of its imports, and makes and   *)
(* tags everything there is to make, whoever works later.                  *)

\* Each record has a key of its own, and no edge leaves its container.
KeysDiffer ==
  \A p \in Pass, r, q \in Record :
     keyOf[p][r] = keyOf[p][q] \/ rankOf[p][r] = rankOf[p][q] => r = q

EdgesWithinContainer ==
  \A r, q \in Record : keyOf["node"][q] \in endpoints[r] =>
     containerOf[importOf[q]] = containerOf[importOf[r]]

Orderly == Faultless /\ KeysDiffer /\ EdgesWithinContainer

\* The records of a container, and its imports that have any.
RecordsIn(c) == {r \in Record : containerOf[importOf[r]] = c}
Full(c) == {i \in Import : containerOf[i] = c /\ \E r \in Record : importOf[r] = i}

Fresh(c) == \A p \in Pass, r \in RecordsIn(c) : graph[p][r] = 0
Made(p, c) == \A r \in RecordsIn(c) : Generates(p, r) => graph[p][r] > 0
Tagged(p, c) == \A r \in RecordsIn(c) : tagged[p][r] = graph[p][r]

AllOf(w, c) == worker[w].container = c /\ worker[w].imports = Full(c)

\* The first worker still has to move the edges, or to attach the tags of a pass.
EdgesUnderWay(w) ==
  \/ worker[w].step = "mark" /\ worker[w].pass = "node"
  \/ worker[w].step \in {"list", "copy", "move"} /\ worker[w].pass = "edge"

TagsUnderWay(p, w) ==
  \/ worker[w].step \in {"list", "copy", "move", "mark"}
  \/ worker[w].step = "attach" /\ (worker[w].pass = "node" \/ p = "edge")

\* Until then every worker of the container was started for all of it.
FreshOK(c) ==
  Fresh(c) =>
    /\ \A i, j \in Full(c) : attempts[i] = attempts[j]
    /\ \A w \in Worker : worker[w].step # "idle" /\ worker[w].container = c =>
          worker[w].imports = Full(c)

MadeOK(c) ==
  ~Fresh(c) =>
    /\ Made("node", c)
    /\ \/ Made("edge", c)
       \/ /\ \E w \in Worker : AllOf(w, c) /\ EdgesUnderWay(w)
          /\ \A r \in RecordsIn(c) : graph["edge"][r] = 0

TagsOK(p, c) ==
  \/ Tagged(p, c)
  \/ /\ \A r \in RecordsIn(c) : tagged[p][r] = 0
     /\ \E w \in Worker : AllOf(w, c) /\ TagsUnderWay(p, w)

\* The edges a worker is about to move are all there are.
EdgesOK(w) ==
  worker[w].step = "move" /\ worker[w].pass = "edge" =>
    \A r \in Mine(w) : Generates("edge", r) => r \in temp["edge"] \/ graph["edge"][r] > 0

ContainerInv ==
  /\ RowsInv /\ PassInv
  /\ \A c \in Container : FreshOK(c) /\ MadeOK(c) /\ \A p \in Pass : TagsOK(p, c)
  /\ \A w \in Worker : EdgesOK(w)

LEMMA OrderlyKeys ==
  Orderly => Faultless /\ Undisturbed /\ CompleteKeysDiffer /\ KeysWithinImport
BY DEF Orderly, Faultless, KeysDiffer, CompleteKeysDiffer, KeysWithinImport

LEMMA KeptRows ==
  ASSUME KeysDiffer, NEW p \in Pass, NEW r \in Record, HasRow(p, r)
  PROVE  graph[p][r] > 0
BY DEF KeysDiffer, HasRow

\* A successful move moves each row of its own.
LEMMA MovesAll ==
  ASSUME KeysDiffer, Base, NEW w \in Worker, NEW kept, Moves(w, kept)
  PROVE  /\ kept = temp[worker[w].pass] \cap Mine(w)
         /\ worker'[w].step = "mark" /\ worker'[w].pass = worker[w].pass
         /\ worker'[w].imports = worker[w].imports
         /\ worker'[w].container = worker[w].container
<1> DEFINE p == worker[w].pass
<1>1. p \in Pass /\ worker[w] \in WorkerType /\ temp[p] \subseteq Record
  BY DEF Base, TypeOK, WorkerType
<1>2. kept \subseteq InTemp(p, worker[w].imports)
  BY DEF Moves
<1>3. ASSUME NEW r \in InTemp(p, worker[w].imports) PROVE r \in kept
  <2>1. PICK q \in kept \cup OthersInTemp(p, worker[w].imports) : rankOf[p][q] = rankOf[p][r]
    BY <1>3 DEF Moves, Deduplicated
  <2>2. q = r
    BY <1>1, <1>2, <2>1 DEF KeysDiffer, InTemp, OthersInTemp
  <2>3. r \notin OthersInTemp(p, worker[w].imports)
    BY <1>3 DEF InTemp, OthersInTemp
  <2>4. QED
    BY <2>1, <2>2, <2>3
<1>4. kept = temp[p] \cap Mine(w)
  BY <1>2, <1>3 DEF InTemp, Mine
<1>5. QED
  BY <1>1, <1>4 DEF Moves, Base, TypeOK, WorkerType

\* A worker past the lock works in a container, and alone.
LEMMA Holder ==
  ASSUME Base, NEW w \in Worker, worker[w].step \in LockedSteps
  PROVE  /\ worker[w].container \in Container
         /\ \A r \in Mine(w) : r \in RecordsIn(worker[w].container)
         /\ \A v \in Worker : /\ worker[v].step \in LockedSteps
                              /\ worker[v].container = worker[w].container
                              => v = w
<1>1. \A v \in Worker : worker[v].step \in LockedSteps => HoldsLock(v)
  BY DEF Base, LockInv, LockedSteps
<1>2. QED
  BY <1>1 DEF HoldsLock, Mine, RecordsOf, RecordsIn

LEMMA AllIsAll ==
  ASSUME NEW w \in Worker, NEW c, AllOf(w, c)
  PROVE  Mine(w) = RecordsIn(c)
BY ConstantsAssumption DEF AllOf, Full, Mine, RecordsOf, RecordsIn

\* When a worker is past the first pass, the nodes of its container are made.
LEMMA NodesThere ==
  ASSUME Orderly, ContainerInv, NEW w \in Worker,
         \/ worker[w].step = "mark"
         \/ worker[w].step \in {"list", "copy", "move"} /\ worker[w].pass = "edge"
  PROVE  Made("node", worker[w].container)
<1> DEFINE c == worker[w].container
<1>1. c \in Container /\ PassOK(w) /\ "node" \in Pass
  BY Holder DEF ContainerInv, RowsInv, PassInv, LockedSteps, Pass
<1>2. CASE Fresh(c)
  <2>1. AllOf(w, c)
    BY <1>1, <1>2 DEF ContainerInv, FreshOK, AllOf
  <2>2. NodesMade(RecordsIn(c))
    BY <1>1, <2>1, AllIsAll DEF PassOK
  <2>3. QED
    BY <1>1, <2>2, KeptRows DEF NodesMade, Made, RecordsIn, Orderly
<1>3. CASE ~Fresh(c)
  BY <1>1, <1>3 DEF ContainerInv, MadeOK
<1>4. QED
  BY <1>2, <1>3
LEMMA GeneratesBack ==
  ASSUME Orderly, ContainerInv, [Next]_vars, NEW c \in Container, Made("node", c),
         NEW p \in Pass, NEW r \in RecordsIn(c), Generates(p, r)'
  PROVE  Generates(p, r)
<1>0. Undisturbed /\ Base /\ r \in Record /\ "node" \in Pass
  BY OrderlyKeys DEF ContainerInv, RowsInv, RecordsIn, Pass
<1>1. r \in produces[p] /\ mapping[shapeOf[r]] = "active"
  BY <1>0, MappingKept DEF Generates
<1>2. ASSUME p = "edge", NEW k \in endpoints[r] PROVE HasNode(k)
  <2>1. HasNode(k)'
    BY <1>2 DEF Generates
  <2>2. PICK q \in Record : keyOf["node"][q] = k /\ graph'["node"][q] > 0
    BY <2>1 DEF HasNode
  <2>3. q \in RecordsIn(c)
    BY <1>0, <1>2, <2>2 DEF RecordsIn, Orderly, EdgesWithinContainer
  <2>4. graph["node"][q] \in Nat
    BY <1>0 DEF Base, TypeOK
  <2>5. CASE graph["node"][q] > 0
    BY <2>2, <2>5 DEF HasNode
  <2>6. CASE graph["node"][q] = 0
    <3>1. q \in temp["node"]
      BY <1>0, <2>2, <2>6, RowSource DEF Base
    <3>2. Generates("node", q)
      BY <1>0, <3>1 DEF ContainerInv, RowsInv, TempInv
    <3>3. QED
      BY <2>3, <2>6, <3>2 DEF Made
  <2>7. QED
    BY <2>4, <2>5, <2>6
<1>3. QED
  BY <1>1, <1>2 DEF Generates

LEMMA MadeStays ==
  ASSUME Orderly, ContainerInv, [Next]_vars, NEW c \in Container, Made("node", c),
         NEW p \in Pass, Made(p, c)
  PROVE  Made(p, c)'
<1>1. ASSUME NEW r \in RecordsIn(c), Generates(p, r)' PROVE graph'[p][r] > 0
  <2>1. graph[p][r] > 0
    BY <1>1, GeneratesBack DEF Made
  <2>2. QED
    BY <2>1, RowsStay, OrderlyKeys DEF ContainerInv, RowsInv, RecordsIn
<1>2. QED
  BY <1>1 DEF Made, RecordsIn

\* After a worker for the whole container moved a pass, the pass is made.
LEMMA MoveMakes ==
  ASSUME Orderly, ContainerInv, [Next]_vars, NEW w \in Worker, worker[w].step = "move",
         NEW kept, Moves(w, kept), NEW c \in Container, AllOf(w, c),
         NEW p \in Pass, p = worker[w].pass
  PROVE  Made(p, c)'
<1>0. Undisturbed /\ Base /\ KeysDiffer
  BY OrderlyKeys DEF ContainerInv, RowsInv, Orderly
<1>1. ASSUME NEW r \in RecordsIn(c), Generates(p, r)' PROVE graph'[p][r] > 0
  <2>0. r \in Mine(w) /\ r \in Record /\ graph[p][r] \in Nat
    BY <1>0, AllIsAll DEF RecordsIn, Base, TypeOK
  <2>1. r \in temp[p] \/ graph[p][r] > 0
    <3>1. CASE p = "node"
      <4>1. Generates("node", r)
        BY <1>0, <1>1, <2>0, <3>1, MappingKept DEF Generates
      <4>2. r \in temp["node"] \/ HasRow("node", r)
        BY <2>0, <3>1, <4>1 DEF ContainerInv, PassInv, PassOK
      <4>3. QED
        BY <1>0, <2>0, <3>1, <4>2, KeptRows
    <3>2. CASE p = "edge"
      <4>1. Made("node", c)
        BY <3>2, NodesThere DEF AllOf
      <4>2. Generates("edge", r)
        BY <1>0, <1>1, <3>2, <4>1, GeneratesBack
      <4>3. QED
        BY <2>0, <3>2, <4>2 DEF ContainerInv, EdgesOK
    <3>3. QED
      BY <1>0, <3>1, <3>2 DEF Pass
  <2>2. CASE r \in temp[p]
    <3>1. r \in kept
      BY <1>0, <2>0, <2>2, MovesAll
    <3>2. QED
      BY <1>0, <2>0, <3>1 DEF Moves
  <2>3. CASE graph[p][r] > 0
    BY <1>0, <2>0, <2>3, RowsStay
  <2>4. QED
    BY <2>1, <2>2, <2>3
<1>2. QED
  BY <1>1 DEF Made, RecordsIn

\* Whoever writes rows of a pass into a container was started for all of it, and
\* is the first to.
LEMMA FirstWrites ==
  ASSUME Orderly, ContainerInv, [Next]_vars, NEW w \in Worker, MoveFromTemp(w),
         NEW c \in Container, NEW p \in Pass, NEW r \in RecordsIn(c),
         graph'[p][r] # graph[p][r]
  PROVE  /\ AllOf(w, c) /\ p = worker[w].pass
         /\ \A q \in RecordsIn(c) : graph[p][q] = 0
         /\ p = "node" => Fresh(c)
<1>0. Undisturbed /\ Base /\ KeysDiffer /\ CompleteKeysDiffer /\ r \in Record
  BY OrderlyKeys DEF ContainerInv, RowsInv, RecordsIn, Orderly
<1>1. PICK kept : Moves(w, kept)
  BY <1>0, MoveSucceeds DEF ContainerInv, RowsInv
<1>2. p = worker[w].pass /\ r \in kept
  BY <1>0, <1>1 DEF Moves
<1>3. r \in temp[p] /\ r \in Mine(w)
  BY <1>0, <1>1, <1>2, MovesAll
<1>4. worker[w].step = "move" /\ worker[w].step \in LockedSteps
  BY DEF MoveFromTemp, LockedSteps
<1>5. worker[w].container = c
  BY <1>0, <1>3, <1>4, Holder DEF RecordsIn
<1>6. CASE Fresh(c)
  BY <1>2, <1>4, <1>5, <1>6 DEF Fresh, ContainerInv, FreshOK, AllOf
<1>7. CASE ~Fresh(c)
  <2>1. Generates(p, r) /\ graph[p][r] = 0
    BY <1>0, <1>3 DEF ContainerInv, RowsInv, TempInv, RowInv, RowOK
  <2>2. ~Made(p, c)
    BY <2>1 DEF Made
  <2>3. /\ p = "edge"
        /\ \E v \in Worker : AllOf(v, c) /\ EdgesUnderWay(v)
        /\ \A q \in RecordsIn(c) : graph["edge"][q] = 0
    BY <1>7, <2>2 DEF ContainerInv, MadeOK, Pass
  <2>4. PICK v \in Worker : AllOf(v, c) /\ EdgesUnderWay(v)
    BY <2>3
  <2>5. v = w
    BY <1>0, <1>4, <1>5, <2>4, Holder DEF AllOf, EdgesUnderWay, LockedSteps
  <2>6. QED
    BY <1>2, <2>3, <2>4, <2>5
<1>8. QED
  BY <1>6, <1>7
LEMMA FreshStays ==
  ASSUME Undisturbed, Base, [Next]_vars, NEW c \in Container, Fresh(c)'
  PROVE  Fresh(c)
<1>1. ASSUME NEW p \in Pass, NEW r \in RecordsIn(c) PROVE graph[p][r] = 0
  <2>1. r \in Record /\ graph[p][r] \in Nat /\ graph'[p][r] = 0
    BY DEF Fresh, RecordsIn, Base, TypeOK
  <2>2. ~(graph[p][r] > 0)
    BY <2>1, RowsStay
  <2>3. QED
    BY <2>1, <2>2
<1>2. QED
  BY <1>1 DEF Fresh

\* While a container is fresh the job starts workers for all of it.
LEMMA FreshDispatch ==
  ASSUME Base, NEW c \in Container, Fresh(c), Dispatch(c),
         \A i, j \in Full(c) : attempts[i] = attempts[j]
  PROVE  {i \in Uninserted : containerOf[i] = c} = Full(c)
<1>1. \A i \in Uninserted : i \in Import /\ attempts[i] < MaxImportRetries
                             /\ \E r \in Record : importOf[r] = i
  BY DEF Uninserted, Base, Still
<1>2. PICK j \in Uninserted : containerOf[j] = c
  BY DEF Dispatch
<1>3. j \in Full(c) /\ attempts[j] < MaxImportRetries
  BY <1>1, <1>2 DEF Full
<1>4. ASSUME NEW i \in Full(c) PROVE i \in Uninserted /\ containerOf[i] = c
  <2>1. i \in Import /\ containerOf[i] = c /\ attempts[i] < MaxImportRetries
    BY <1>3, <1>4 DEF Full
  <2>2. PICK r \in Record : importOf[r] = i
    BY <1>4 DEF Full
  <2>3. r \in RecordsIn(c) /\ r \in staged
    BY <2>1, <2>2 DEF RecordsIn, Base, Still
  <2>4. \A p \in Pass : r \notin marked[p]
    BY <2>1, <2>2, <2>3 DEF Fresh, Base, Still, MarkedHasRow
  <2>5. QED
    BY <2>1, <2>2, <2>3, <2>4 DEF Uninserted
<1>5. QED
  BY <1>1, <1>4 DEF Full

LEMMA FreshStep ==
  ASSUME Orderly, ContainerInv, [Next]_vars, NEW c \in Container
  PROVE  FreshOK(c)'
<1> SUFFICES ASSUME Fresh(c)'
             PROVE  /\ \A i, j \in Full(c) : attempts'[i] = attempts'[j]
                    /\ \A w \in Worker : worker'[w].step # "idle" /\ worker'[w].container = c =>
                          worker'[w].imports = Full(c)
  BY DEF FreshOK, Full
<1>0. Undisturbed /\ Base /\ Fresh(c)
  BY OrderlyKeys, FreshStays DEF ContainerInv, RowsInv
<1>1. /\ \A i, j \in Full(c) : attempts[i] = attempts[j]
      /\ \A w \in Worker : worker[w].step # "idle" /\ worker[w].container = c =>
            worker[w].imports = Full(c)
  BY <1>0 DEF ContainerInv, FreshOK
<1>2. ASSUME NEW w \in Worker, Step(w)
      PROVE  \A v \in Worker : worker'[v].step # "idle" /\ worker'[v].container = c =>
                worker'[v].imports = Full(c)
  <2>1. CASE Exit(w)
    BY <1>0, <1>1, <2>1 DEF Exit, IdleWorker, Base, TypeOK
  <2>2. CASE ~Exit(w)
    <3>1. worker[w].step # "idle"
      BY <1>2
         DEF Step, WorkerStep, IncrementAttempts, AdvisoryLockContainer, ListRecords, CopyToTemp,
             MoveFromTemp, MarkProcessed, MarkFails, AttachTagsForImport, Finish, Crash
    <3>2. QED
      BY <1>0, <1>1, <1>2, <2>2, <3>1, StepWorker DEF Base
  <2>3. QED
    BY <2>1, <2>2
<1>3. ASSUME NEW w \in Worker, Step(w)
      PROVE  \A i, j \in Full(c) : attempts'[i] = attempts'[j]
  <2>1. CASE IncrementAttempts(w)
    <3>1. HoldsLock(w) /\ worker[w].step # "idle"
      BY <1>0, <2>1 DEF IncrementAttempts, Base, LockInv
    <3>2. CASE worker[w].container = c
      <4>1. worker[w].imports = Full(c)
        BY <1>1, <3>1, <3>2
      <4>2. \A i \in Full(c) : attempts'[i] = attempts[i] + 1
        BY <2>1, <4>1 DEF IncrementAttempts, Attempted, Full
      <4>3. QED
        BY <1>1, <4>2
    <3>3. CASE worker[w].container # c
      <4>1. \A i \in Full(c) : attempts'[i] = attempts[i]
        BY <2>1, <3>1, <3>3 DEF IncrementAttempts, HoldsLock, Full
      <4>2. QED
        BY <1>1, <4>1
    <3>4. QED
      BY <3>2, <3>3
  <2>2. CASE ~IncrementAttempts(w)
    <3>1. attempts' = attempts
      BY <1>3, <2>2
         DEF Step, WorkerStep, AdvisoryLockContainer, ListRecords, CopyToTemp, MoveFromTemp,
             MarkProcessed, MarkFails, AttachTagsForImport, Finish, Crash
    <3>2. QED
      BY <1>1, <3>1
  <2>3. QED
    BY <2>1, <2>2
<1>4. ASSUME NEW d \in Container, Dispatch(d)
      PROVE  /\ \A i, j \in Full(c) : attempts'[i] = attempts'[j]
             /\ \A w \in Worker : worker'[w].step # "idle" /\ worker'[w].container = c =>
                   worker'[w].imports = Full(c)
  <2>1. attempts' = attempts
    BY <1>4 DEF Dispatch
  <2>2. ASSUME NEW w \in Worker, worker'[w].step # "idle", worker'[w].container = c
        PROVE  worker'[w].imports = Full(c)
    <3>1. CASE worker'[w] = worker[w]
      BY <1>1, <2>2, <3>1
    <3>2. CASE worker'[w] # worker[w]
      <4>1. worker'[w] = [step |-> "spawned", container |-> d, pass |-> "node", batch |-> {},
                          imports |-> {i \in Uninserted : containerOf[i] = d}, origin |-> "job"]
        BY <1>0, <1>4, <3>2, DispatchFrame
      <4>2. d = c /\ worker'[w].imports = {i \in Uninserted : containerOf[i] = c}
        BY <2>2, <4>1
      <4>3. QED
        BY <1>0, <1>1, <1>4, <4>2, FreshDispatch
    <3>3. QED
      BY <3>1, <3>2
  <2>3. QED
    BY <1>1, <2>1, <2>2
<1>5. CASE UNCHANGED vars
  BY <1>1, <1>5 DEF vars
<1>6. QED
  BY <1>0, <1>2, <1>3, <1>4, <1>5, QuietSteps

LEMMA EdgesStep ==
  ASSUME Orderly, ContainerInv, [Next]_vars, NEW v \in Worker
  PROVE  EdgesOK(v)'
<1> SUFFICES ASSUME worker'[v].step = "move", worker'[v].pass = "edge",
                    NEW r \in Mine(v)', Generates("edge", r)'
             PROVE  r \in temp'["edge"] \/ graph'["edge"][r] > 0
  BY DEF EdgesOK
<1>0. Undisturbed /\ Base /\ "edge" \in Pass /\ r \in Record /\ worker[v] \in WorkerType
  BY OrderlyKeys DEF ContainerInv, RowsInv, Pass, Mine, RecordsOf, Base, TypeOK
<1>1. CASE worker'[v] = worker[v]
  <2>1. r \in Mine(v) /\ worker[v].step \in LockedSteps
    BY <1>1 DEF Mine, LockedSteps
  <2>2. Made("node", worker[v].container) /\ r \in RecordsIn(worker[v].container)
        /\ worker[v].container \in Container
    BY <1>0, <1>1, <2>1, NodesThere, Holder
  <2>3. Generates("edge", r)
    BY <1>0, <2>2, GeneratesBack
  <2>4. r \in temp["edge"] \/ graph["edge"][r] > 0
    BY <1>1, <2>1, <2>3 DEF ContainerInv, EdgesOK
  <2>5. CASE graph["edge"][r] > 0
    BY <1>0, <2>5, RowsStay
  <2>6. CASE r \in temp["edge"]
    <3>1. ASSUME NEW w \in Worker, Step(w) PROVE r \in temp'["edge"]
      <4>1. CASE v # w
        BY <1>0, <2>1, <2>6, <3>1, <4>1, Frame
      <4>2. CASE v = w
        <5>1. temp' = temp
          BY <1>0, <1>1, <3>1, <4>2
             DEF Step, WorkerStep, IncrementAttempts, AdvisoryLockContainer, ListRecords,
                 CopyToTemp, MoveFromTemp, MarkProcessed, MarkFails, AttachTagsForImport, Finish,
                 Crash, tables, Base, TypeOK, WorkerType
        <5>2. QED
          BY <2>6, <5>1
      <4>3. QED
        BY <4>1, <4>2
    <3>2. ASSUME NEW c \in Container, Dispatch(c) PROVE r \in temp'["edge"]
      BY <2>6, <3>2 DEF Dispatch, tables
    <3>3. UNCHANGED vars => r \in temp'["edge"]
      BY <2>6 DEF vars
    <3>4. QED
      BY <1>0, <3>1, <3>2, <3>3, QuietSteps
  <2>7. QED
    BY <2>4, <2>5, <2>6
<1>2. CASE worker'[v] # worker[v]
  <2>1. CopyToTemp(v)
    <3>1. ASSUME NEW w \in Worker, Step(w) PROVE CopyToTemp(v)
      <4>1. ~Exit(w)
        BY <1>0, <1>2 DEF Exit, IdleWorker, Base, TypeOK
      <4>2. v = w
        BY <1>0, <1>2, <3>1, <4>1, StepWorker DEF Base
      <4>3. ~MoveFromTemp(w)
        BY <1>0, <4>1, <4>2, MoveCases DEF Moves, Base, TypeOK, WorkerType
      <4>4. QED
        BY <1>0, <3>1, <4>1, <4>2, <4>3
           DEF Step, WorkerStep, IncrementAttempts, AdvisoryLockContainer, ListRecords,
               MarkProcessed, MarkFails, AfterMark, AttachTagsForImport, Finish, Crash,
               Base, TypeOK, WorkerType
    <3>2. ASSUME NEW c \in Container, Dispatch(c) PROVE FALSE
      <4>1. worker'[v] = [step |-> "spawned", container |-> c, pass |-> "node", batch |-> {},
                          imports |-> {i \in Uninserted : containerOf[i] = c}, origin |-> "job"]
        BY <1>0, <1>2, <3>2, DispatchFrame
      <4>2. QED
        BY <4>1
    <3>3. UNCHANGED vars => FALSE
      BY <1>2 DEF vars
    <3>4. QED
      BY <1>0, <3>1, <3>2, <3>3, QuietSteps
  <2>2. worker[v].pass = "edge" /\ worker[v].step = "copy" /\ r \in Mine(v)
    BY <1>0, <2>1 DEF CopyToTemp, Mine, Base, TypeOK, WorkerType
  <2>3. /\ Made("node", worker[v].container) /\ worker[v].container \in Container
        /\ r \in RecordsIn(worker[v].container)
    BY <1>0, <2>2, NodesThere, Holder DEF LockedSteps
  <2>4. Generates("edge", r)
    BY <1>0, <2>3, GeneratesBack
  <2>5. CASE r \in marked["edge"]
    <3>1. graph["edge"][r] > 0
      BY <1>0, <2>5, ConstantsAssumption DEF Base, Still, MarkedHasRow
    <3>2. QED
      BY <1>0, <3>1, RowsStay
  <2>6. CASE r \notin marked["edge"]
    <3>1. r \in worker[v].batch
      BY <1>0, <2>2, <2>4, <2>6 DEF ContainerInv, RowsInv, CopyInv, CopyOK, Generates
    <3>2. QED
      BY <1>0, <2>1, <2>2, <2>4, <3>1 DEF CopyToTemp, Base, TypeOK
  <2>7. QED
    BY <2>5, <2>6
<1>3. QED
  BY <1>1, <1>2
\* The first worker goes on until it has moved the edges.
LEMMA EdgesGoOn ==
  ASSUME Orderly, ContainerInv, [Next]_vars, NEW c \in Container,
         NEW v \in Worker, AllOf(v, c), EdgesUnderWay(v)
  PROVE  Made("edge", c)' \/ (AllOf(v, c)' /\ EdgesUnderWay(v)')
<1>0. /\ Undisturbed /\ Faultless /\ CompleteKeysDiffer /\ KeysDiffer
      /\ Base /\ "edge" \in Pass /\ worker[v] \in WorkerType
  BY OrderlyKeys DEF ContainerInv, RowsInv, Pass, Base, TypeOK, Orderly
<1>1. worker'[v] = worker[v] => AllOf(v, c)' /\ EdgesUnderWay(v)'
  BY DEF AllOf, EdgesUnderWay, Full
<1>2. ASSUME NEW w \in Worker, Step(w), w # v PROVE worker'[v] = worker[v]
  BY <1>0, <1>2, StepWorker DEF Exit, Base, TypeOK
<1>3. CASE MoveFromTemp(v)
  <2>1. PICK kept : Moves(v, kept)
    BY <1>0, <1>3, MoveSucceeds DEF ContainerInv, RowsInv
  <2>2. worker[v].step = "move" /\ worker[v].pass = "edge"
    BY <1>3 DEF MoveFromTemp, EdgesUnderWay
  <2>3. QED
    BY <1>0, <2>1, <2>2, MoveMakes
<1>4. CASE Step(v) /\ ~MoveFromTemp(v)
  <2>1. MarkProcessed(v) \/ ListRecords(v) \/ CopyToTemp(v)
    BY <1>0, <1>4, NoFault
       DEF WorkerStep, IncrementAttempts, AdvisoryLockContainer, AttachTagsForImport, Finish,
           EdgesUnderWay
  <2>2. CASE MarkProcessed(v)
    BY <1>0, <2>2
       DEF MarkProcessed, AfterMark, AllOf, Full, EdgesUnderWay, Base, TypeOK, WorkerType
  <2>3. CASE ListRecords(v)
    BY <1>0, <2>3 DEF ListRecords, AllOf, Full, EdgesUnderWay, Base, TypeOK, WorkerType
  <2>4. CASE CopyToTemp(v)
    BY <1>0, <2>4 DEF CopyToTemp, AllOf, Full, EdgesUnderWay, Base, TypeOK, WorkerType
  <2>5. QED
    BY <2>1, <2>2, <2>3, <2>4
<1>5. ASSUME NEW d \in Container, Dispatch(d) PROVE worker'[v] = worker[v]
  BY <1>0, <1>5 DEF Dispatch, Spawn, EdgesUnderWay, Base, TypeOK
<1>6. UNCHANGED vars => worker'[v] = worker[v]
  BY DEF vars
<1>7. QED
  BY <1>0, <1>1, <1>2, <1>3, <1>4, <1>5, <1>6, QuietSteps

LEMMA MadeStep ==
  ASSUME Orderly, ContainerInv, [Next]_vars, NEW c \in Container
  PROVE  MadeOK(c)'
<1> SUFFICES ASSUME ~Fresh(c)'
             PROVE  /\ Made("node", c)'
                    /\ \/ Made("edge", c)'
                       \/ /\ \E w \in Worker : AllOf(w, c)' /\ EdgesUnderWay(w)'
                          /\ \A r \in RecordsIn(c) : graph'["edge"][r] = 0
  BY DEF MadeOK, RecordsIn
<1>0. /\ Undisturbed /\ CompleteKeysDiffer /\ KeysDiffer /\ Base
      /\ "node" \in Pass /\ "edge" \in Pass
  BY OrderlyKeys DEF ContainerInv, RowsInv, Pass, Orderly
<1>1. ASSUME NEW p \in Pass, NEW r \in RecordsIn(c), graph'[p][r] # graph[p][r]
      PROVE  /\ Made("node", c)'
             /\ \/ Made("edge", c)'
                \/ /\ \E w \in Worker : AllOf(w, c)' /\ EdgesUnderWay(w)'
                   /\ \A q \in RecordsIn(c) : graph'["edge"][q] = 0
  <2>1. PICK w \in Worker : MoveFromTemp(w)
    BY <1>0, <1>1, RowMoves
  <2>2. AllOf(w, c) /\ p = worker[w].pass /\ (p = "node" => Fresh(c))
    BY <1>1, <2>1, FirstWrites
  <2>3. worker[w].step = "move"
    BY <2>1 DEF MoveFromTemp
  <2>4. PICK kept : Moves(w, kept)
    BY <1>0, <2>1, MoveSucceeds DEF ContainerInv, RowsInv
  <2>5. Made(p, c)'
    BY <2>2, <2>3, <2>4, MoveMakes
  <2>6. CASE p = "edge"
    <3>1. Made("node", c)
      BY <2>2, <2>3, <2>6, NodesThere DEF AllOf
    <3>2. QED
      BY <1>0, <2>5, <2>6, <3>1, MadeStays
  <2>7. CASE p = "node"
    <3>1. AllOf(w, c)' /\ EdgesUnderWay(w)'
      BY <1>0, <2>2, <2>4, <2>7, MovesAll DEF AllOf, EdgesUnderWay, Full
    <3>2. \A q \in RecordsIn(c) : graph'["edge"][q] = 0
      BY <1>0, <2>2, <2>4, <2>7 DEF Moves, Fresh, RecordsIn
    <3>3. QED
      BY <2>5, <2>7, <3>1, <3>2
  <2>8. QED
    BY <2>6, <2>7 DEF Pass
<1>2. CASE \A p \in Pass, r \in RecordsIn(c) : graph'[p][r] = graph[p][r]
  <2>1. ~Fresh(c)
    BY <1>2 DEF Fresh, RecordsIn
  <2>2. Made("node", c)
    BY <2>1 DEF ContainerInv, MadeOK
  <2>3. Made("node", c)'
    BY <1>0, <2>2, MadeStays
  <2>4. CASE Made("edge", c)
    BY <1>0, <2>2, <2>3, <2>4, MadeStays
  <2>5. CASE ~Made("edge", c)
    <3>1. PICK v \in Worker : AllOf(v, c) /\ EdgesUnderWay(v)
      BY <2>1, <2>5 DEF ContainerInv, MadeOK
    <3>2. \A r \in RecordsIn(c) : graph'["edge"][r] = 0
      BY <1>0, <1>2, <2>1, <2>5 DEF ContainerInv, MadeOK
    <3>3. QED
      BY <2>3, <3>1, <3>2, EdgesGoOn
  <2>6. QED
    BY <2>4, <2>5
<1>3. QED
  BY <1>1, <1>2

\* The first worker goes on until it has attached the tags of a pass.
LEMMA TagsGoOn ==
  ASSUME Orderly, ContainerInv, [Next]_vars, NEW c \in Container, NEW p \in Pass,
         NEW v \in Worker, AllOf(v, c), TagsUnderWay(p, v)
  PROVE  \/ AttachTagsForImport(v) /\ worker[v].pass = p
         \/ AllOf(v, c)' /\ TagsUnderWay(p, v)'
<1>0. /\ Undisturbed /\ Faultless /\ CompleteKeysDiffer /\ KeysDiffer
      /\ Base /\ worker[v] \in WorkerType
  BY OrderlyKeys DEF ContainerInv, RowsInv, Base, TypeOK, Orderly
<1>1. worker'[v] = worker[v] => AllOf(v, c)' /\ TagsUnderWay(p, v)'
  BY DEF AllOf, TagsUnderWay, Full
<1>2. ASSUME NEW w \in Worker, Step(w), w # v PROVE worker'[v] = worker[v]
  BY <1>0, <1>2, StepWorker DEF Exit, Base, TypeOK
<1>3. CASE MoveFromTemp(v)
  <2>1. PICK kept : Moves(v, kept)
    BY <1>0, <1>3, MoveSucceeds DEF ContainerInv, RowsInv
  <2>2. QED
    BY <1>0, <2>1, MovesAll DEF AllOf, TagsUnderWay, Full
<1>4. CASE Step(v) /\ ~MoveFromTemp(v) /\ ~(AttachTagsForImport(v) /\ worker[v].pass = p)
  <2>1. MarkProcessed(v) \/ ListRecords(v) \/ CopyToTemp(v) \/ AttachTagsForImport(v)
    BY <1>0, <1>4, NoFault
       DEF WorkerStep, IncrementAttempts, AdvisoryLockContainer, Finish, TagsUnderWay
  <2>2. CASE MarkProcessed(v)
    BY <1>0, <2>2
       DEF MarkProcessed, AfterMark, AllOf, Full, TagsUnderWay, Base, TypeOK, WorkerType
  <2>3. CASE ListRecords(v)
    BY <1>0, <2>3 DEF ListRecords, AllOf, Full, TagsUnderWay, Base, TypeOK, WorkerType
  <2>4. CASE CopyToTemp(v)
    BY <1>0, <2>4 DEF CopyToTemp, AllOf, Full, TagsUnderWay, Base, TypeOK, WorkerType
  <2>5. CASE AttachTagsForImport(v)
    <3>1. worker[v].pass = "node" /\ p = "edge"
      BY <1>0, <1>4, <2>5 DEF AttachTagsForImport, TagsUnderWay, Pass, WorkerType
    <3>2. QED
      BY <1>0, <2>5, <3>1
         DEF AttachTagsForImport, AllOf, Full, TagsUnderWay, Base, TypeOK, WorkerType
  <2>6. QED
    BY <2>1, <2>2, <2>3, <2>4, <2>5
<1>5. ASSUME NEW d \in Container, Dispatch(d) PROVE worker'[v] = worker[v]
  BY <1>0, <1>5 DEF Dispatch, Spawn, TagsUnderWay, Base, TypeOK
<1>6. UNCHANGED vars => worker'[v] = worker[v]
  BY DEF vars
<1>7. QED
  BY <1>0, <1>1, <1>2, <1>3, <1>4, <1>5, <1>6, QuietSteps
\* The statement that attaches the tags of a whole container attaches all of them.
LEMMA AttachAll ==
  ASSUME Base, NEW v \in Worker, AttachTagsForImport(v), NEW c \in Container, AllOf(v, c),
         NEW p \in Pass, p = worker[v].pass, \A r \in RecordsIn(c) : tagged[p][r] = 0
  PROVE  Tagged(p, c)'
<1>1. graph' = graph /\ \A r \in RecordsIn(c) : r \in Record /\ graph[p][r] \in Nat
  BY DEF AttachTagsForImport, RecordsIn, Base, TypeOK
<1>2. \A r \in RecordsIn(c) : r \in RowsOf(p, worker[v].imports) <=> graph[p][r] > 0
  BY AllIsAll, ConstantsAssumption DEF RowsOf, Mine, RecordsIn, Base, Still
<1>3. \A r \in RowsOf(p, worker[v].imports) : r \in RecordsIn(c)
  BY AllIsAll DEF RowsOf, Mine
<1>4. tagged' = [tagged EXCEPT ![p] =
        [r \in Record |-> IF r \in RowsOf(p, worker[v].imports) THEN graph[p][r] ELSE @[r]]]
  BY <1>3 DEF AttachTagsForImport
<1>5. \A r \in RecordsIn(c) : tagged'[p][r] = graph[p][r]
  BY <1>1, <1>2, <1>4 DEF Base, TypeOK
<1>6. QED
  BY <1>1, <1>5 DEF Tagged, RecordsIn

\* Tags change only where one of the worker's rows has none.
LEMMA AttachChange ==
  ASSUME Undisturbed, Base, [Next]_vars, NEW p \in Pass, NEW r \in Record,
         tagged'[p][r] # tagged[p][r]
  PROVE  \E w \in Worker : /\ AttachTagsForImport(w) /\ worker[w].pass = p /\ r \in Mine(w)
                          /\ graph[p][r] > 0 /\ ~(tagged[p][r] > 0)
<1>1. ASSUME NEW w \in Worker, Step(w)
      PROVE  AttachTagsForImport(w)
  BY <1>1
     DEF Step, WorkerStep, IncrementAttempts, AdvisoryLockContainer, ListRecords, CopyToTemp,
         MoveFromTemp, MarkProcessed, MarkFails, Finish, Crash, tables
<1>2. PICK w \in Worker : AttachTagsForImport(w)
  <2>1. UNCHANGED vars => FALSE
    BY DEF vars
  <2>2. ASSUME NEW c \in Container, Dispatch(c) PROVE FALSE
    BY <2>2 DEF Dispatch, tables
  <2>3. QED
    BY <1>1, <2>1, <2>2, QuietSteps
<1>3. worker[w].pass = p /\ r \in RowsOf(p, worker[w].imports)
  BY <1>2 DEF AttachTagsForImport, Base, TypeOK, WorkerType
<1>4. ~(tagged[p][r] > 0)
  BY <1>2, <1>3 DEF AttachTagsForImport
<1>5. QED
  BY <1>2, <1>3, <1>4 DEF RowsOf, Mine

LEMMA TagsStep ==
  ASSUME Orderly, ContainerInv, [Next]_vars, NEW c \in Container, NEW p \in Pass
  PROVE  TagsOK(p, c)'
<1>0. /\ Undisturbed /\ CompleteKeysDiffer /\ KeysDiffer /\ Base
      /\ \A r \in RecordsIn(c) : r \in Record /\ graph[p][r] \in Nat /\ tagged[p][r] \in Nat
  BY OrderlyKeys DEF ContainerInv, RowsInv, Orderly, RecordsIn, Base, TypeOK
<1>1. CASE Tagged(p, c)
  <2>1. ASSUME NEW r \in RecordsIn(c) PROVE tagged'[p][r] = tagged[p][r]
    BY <1>0, <1>1, AttachChange DEF Tagged
  <2>2. CASE \A r \in RecordsIn(c) : graph'[p][r] = graph[p][r]
    <3>1. Tagged(p, c)'
      BY <1>1, <2>1, <2>2 DEF Tagged, RecordsIn
    <3>2. QED
      BY <3>1 DEF TagsOK
  <2>3. ASSUME NEW r \in RecordsIn(c), graph'[p][r] # graph[p][r] PROVE TagsOK(p, c)'
    <3>1. PICK w \in Worker : MoveFromTemp(w)
      BY <1>0, <2>3, RowMoves
    <3>2. AllOf(w, c) /\ \A q \in RecordsIn(c) : graph[p][q] = 0
      BY <2>3, <3>1, FirstWrites
    <3>3. \A q \in RecordsIn(c) : tagged'[p][q] = 0
      BY <1>1, <2>1, <3>2 DEF Tagged
    <3>4. PICK kept : Moves(w, kept)
      BY <1>0, <3>1, MoveSucceeds DEF ContainerInv, RowsInv
    <3>5. AllOf(w, c)' /\ TagsUnderWay(p, w)'
      BY <1>0, <3>2, <3>4, MovesAll DEF AllOf, TagsUnderWay, Full
    <3>6. QED
      BY <3>3, <3>5 DEF TagsOK, RecordsIn
  <2>4. QED
    BY <2>2, <2>3
<1>2. CASE ~Tagged(p, c)
  <2>1. PICK v \in Worker : AllOf(v, c) /\ TagsUnderWay(p, v)
    BY <1>2 DEF ContainerInv, TagsOK
  <2>2. \A r \in RecordsIn(c) : tagged[p][r] = 0
    BY <1>2 DEF ContainerInv, TagsOK
  <2>3. CASE AttachTagsForImport(v) /\ worker[v].pass = p
    <3>1. Tagged(p, c)'
      BY <1>0, <2>1, <2>2, <2>3, AttachAll
    <3>2. QED
      BY <3>1 DEF TagsOK
  <2>4. CASE ~(AttachTagsForImport(v) /\ worker[v].pass = p)
    <3>1. AllOf(v, c)' /\ TagsUnderWay(p, v)'
      BY <2>1, <2>4, TagsGoOn
    <3>2. ASSUME NEW r \in RecordsIn(c), tagged'[p][r] # tagged[p][r] PROVE FALSE
      <4>1. PICK w \in Worker : /\ AttachTagsForImport(w) /\ worker[w].pass = p
                                /\ r \in Mine(w)
        BY <1>0, <3>2, AttachChange
      <4>2. worker[w].step \in LockedSteps /\ worker[v].step \in LockedSteps
        BY <2>1, <4>1 DEF AttachTagsForImport, TagsUnderWay, LockedSteps
      <4>3. worker[w].container = c
        BY <1>0, <4>1, <4>2, Holder DEF RecordsIn
      <4>4. v = w
        BY <1>0, <2>1, <4>2, <4>3, Holder DEF AllOf
      <4>5. QED
        BY <2>4, <4>1, <4>4
    <3>3. QED
      BY <2>2, <3>1, <3>2 DEF TagsOK, RecordsIn
  <2>5. QED
    BY <2>3, <2>4
<1>3. QED
  BY <1>1, <1>2

LEMMA ContainerStep == Orderly /\ ContainerInv /\ [Next]_vars => ContainerInv'
<1> SUFFICES ASSUME Orderly, ContainerInv, [Next]_vars PROVE ContainerInv'
  OBVIOUS
<1>1. RowsInv' /\ PassInv'
  BY RowsStep, PassStep, OrderlyKeys DEF ContainerInv, RowsInv
<1>2. QED
  BY <1>1, FreshStep, MadeStep, TagsStep, EdgesStep DEF ContainerInv

LEMMA ContainerInit == Orderly /\ Init => ContainerInv
<1> SUFFICES ASSUME Orderly, Init PROVE ContainerInv
  OBVIOUS
<1>1. RowsInv /\ PassInv
  BY RowsInit, PassInit, OrderlyKeys
<1>2. \A w \in Worker : worker[w].step = "idle"
  BY DEF Init, IdleWorker
<1>3. \A c \in Container : FreshOK(c) /\ MadeOK(c)
  BY <1>2 DEF Init, FreshOK, MadeOK, Fresh, RecordsIn, Full
<1>4. \A c \in Container, p \in Pass : TagsOK(p, c)
  BY DEF Init, TagsOK, Tagged, RecordsIn
<1>5. QED
  BY <1>1, <1>2, <1>3, <1>4 DEF ContainerInv, EdgesOK

\* Once the job has nothing left to do, every row has its tags.
THEOREM TagsAttached == Orderly => (Spec => []AllTagged)
<1> SUFFICES ASSUME Orderly PROVE Spec => []AllTagged
  OBVIOUS
<1>1. ContainerInv => AllTagged
  <2> SUFFICES ASSUME ContainerInv, Quiet PROVE tagged = graph
    BY DEF AllTagged, Drained
  <2>0. TypeOK
    BY DEF ContainerInv, RowsInv, Base
  <2>1. ASSUME NEW p \in Pass, NEW r \in Record PROVE tagged[p][r] = graph[p][r]
    <3>1. containerOf[importOf[r]] \in Container /\ r \in RecordsIn(containerOf[importOf[r]])
      BY ConstantsAssumption DEF RecordsIn
    <3>2. \A w \in Worker : ~TagsUnderWay(p, w)
      BY DEF Quiet, TagsUnderWay
    <3>3. QED
      BY <3>1, <3>2 DEF ContainerInv, TagsOK, Tagged
  <2>2. \A p \in Pass : tagged[p] = graph[p]
    BY <2>0, <2>1 DEF TypeOK
  <2>3. QED
    BY <2>0, <2>2 DEF TypeOK
<1>2. QED
  BY <1>1, ContainerInit, ContainerStep, PTL DEF Spec

\* Once the job has nothing left to do, every record has its node and its edge,
\* unless its import used up its retries.
THEOREM NothingLost == Orderly => (Spec => []Complete)
<1> SUFFICES ASSUME Orderly PROVE Spec => []Complete
  OBVIOUS
<1>1. ContainerInv => Complete
  <2> SUFFICES ASSUME ContainerInv, Drained, NEW p \in Pass, NEW r \in staged, Generates(p, r)
               PROVE  HasRow(p, r) \/ GivenUp(r)
    BY DEF Complete
  <2> DEFINE c == containerOf[importOf[r]]
  <2>0. Base /\ r \in Record /\ c \in Container /\ importOf[r] \in Import /\ r \in RecordsIn(c)
    BY ConstantsAssumption DEF ContainerInv, RowsInv, Base, TypeOK, RecordsIn
  <2>1. CASE Fresh(c)
    <3>1. \A q \in Pass : r \notin marked[q]
      BY <2>0, <2>1 DEF Fresh, Base, Still, MarkedHasRow
    <3>2. ~(attempts[importOf[r]] < MaxImportRetries)
      BY <2>0, <3>1 DEF Drained, Uninserted
    <3>3. attempts[importOf[r]] \in Nat /\ MaxImportRetries \in Nat
      BY <2>0, ConstantsAssumption DEF Base, TypeOK
    <3>4. QED
      BY <3>2, <3>3 DEF GivenUp
  <2>2. CASE ~Fresh(c)
    <3>1. \A w \in Worker : ~EdgesUnderWay(w)
      BY DEF Drained, Quiet, EdgesUnderWay
    <3>2. Made("node", c) /\ Made("edge", c)
      BY <2>0, <2>2, <3>1 DEF ContainerInv, MadeOK
    <3>3. graph[p][r] > 0
      BY <2>0, <3>2 DEF Made, Pass
    <3>4. QED
      BY <2>0, <3>3 DEF HasRow
  <2>3. QED
    BY <2>1, <2>2
<1>2. QED
  BY <1>1, ContainerInit, ContainerStep, PTL DEF Spec
=============================================================================
