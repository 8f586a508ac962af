---------------------- MODULE ImportProcessing_proofs ----------------------
(***************************************************************************)
(* Type correctness, exclusion of workers, lock discipline, unique keys,   *)
(* the implementation of GraphStore, marks and edges of the import         *)
(* pipeline, for every set of workers, containers and imports.             *)
(***************************************************************************)
EXTENDS ImportProcessing, TLAPS

\* A worker that only moves to another step keeps its type.
LEMMA StepType ==
  ASSUME worker \in [Worker -> WorkerType], NEW w \in Worker, NEW s \in Steps
  PROVE  [worker EXCEPT ![w].step = s] \in [Worker -> WorkerType]
<1>1. [worker[w] EXCEPT !.step = s] \in WorkerType
  BY DEF WorkerType
<1>2. QED
  BY <1>1

LEMMA DeleteRowsType ==
  ASSUME TypeOK, NEW rs \in SUBSET Record, DeleteRows(rs)
  PROVE  /\ graph' \in [Pass -> [Record -> Nat]]
         /\ tagged' \in [Pass -> [Record -> Nat]]
<1>1. \A p \in Pass : [r \in Record |-> IF r \in rs THEN 0 ELSE graph[p][r]] \in [Record -> Nat]
  BY DEF TypeOK
<1>2. \A p \in Pass : [r \in Record |-> IF r \in rs THEN 0 ELSE tagged[p][r]] \in [Record -> Nat]
  BY DEF TypeOK
<1>3. QED
  BY <1>1, <1>2 DEF DeleteRows

LEMMA SpawnType ==
  ASSUME TypeOK, NEW w \in Worker, NEW c \in Container, NEW is \in SUBSET Import,
         NEW origin \in {"job", "reprocess"}, Spawn(w, c, is, origin)
  PROVE  worker' \in [Worker -> WorkerType]
BY DEF TypeOK, WorkerType, Steps, Pass, Spawn

LEMMA ExitType ==
  ASSUME TypeOK, NEW w \in Worker, Exit(w)
  PROVE  /\ worker' \in [Worker -> WorkerType]
         /\ lock' \in [Container -> Worker \cup {NoWorker}]
         /\ exited' \subseteq Import
<1>1. worker[w] \in WorkerType
  BY DEF TypeOK
<1>2. IdleWorker \in WorkerType
  BY DEF IdleWorker, WorkerType, Pass
<1>3. worker' \in [Worker -> WorkerType]
  BY <1>2 DEF TypeOK, Exit
<1>4. lock' \in [Container -> Worker \cup {NoWorker}]
  BY DEF TypeOK, Exit
<1>5. exited' \subseteq Import
  BY <1>1 DEF TypeOK, Exit, WorkerType
<1>6. QED
  BY <1>3, <1>4, <1>5

LEMMA InitType == Init => TypeOK
BY ConstantsAssumption
   DEF Init, TypeOK, IdleWorker, WorkerType, Pass, RecordsOf

LEMMA ReceiveType ==
  ASSUME TypeOK, NEW i \in Import, ReceiveStep(i) \/ SaveFails(i) \/ ReceiveFails(i)
  PROVE  TypeOK'
<1> USE ConstantsAssumption DEF TypeOK, staging, tables, threads, RecordsOf
<1>1. CASE CreateImport(i)
  BY <1>1 DEF CreateImport
<1>2. CASE SaveBuffer(i)
  BY <1>2 DEF SaveBuffer
<1>3. CASE StreamEnd(i)
  BY <1>3 DEF StreamEnd
<1>4. CASE FinalSave(i)
  BY <1>4 DEF FinalSave
<1>5. CASE SaveFails(i)
  BY <1>5 DEF SaveFails
<1>6. CASE ReceiveFails(i)
  BY <1>6 DEF ReceiveFails
<1>7. QED
  BY <1>1, <1>2, <1>3, <1>4, <1>5, <1>6 DEF ReceiveStep

LEMMA MoveType ==
  ASSUME TypeOK, NEW w \in Worker, MoveFromTemp(w)
  PROVE  TypeOK'
<1> DEFINE p == worker[w].pass
           is == worker[w].imports
<1>1. worker[w] \in WorkerType /\ p \in Pass /\ is \in SUBSET Import
  BY DEF TypeOK, WorkerType
<1>2. PICK kept \in SUBSET InTemp(p, is) :
        \/ Exit(w) /\ UNCHANGED <<temp, graph>>
        \/ /\ graph' = [graph EXCEPT ![p] =
                 [r \in Record |-> IF r \in kept THEN @[r] + 1 ELSE @[r]]]
           /\ temp' = [temp EXCEPT ![p] = OthersInTemp(p, is)]
           /\ worker' = [worker EXCEPT ![w].step = "mark"]
           /\ UNCHANGED <<lock, exited>>
  BY DEF MoveFromTemp
<1>3. graph' \in [Pass -> [Record -> Nat]] /\ temp' \in [Pass -> SUBSET Record]
  <2>1. CASE UNCHANGED <<temp, graph>>
    BY <2>1 DEF TypeOK
  <2>2. CASE /\ graph' = [graph EXCEPT ![p] =
                  [r \in Record |-> IF r \in kept THEN @[r] + 1 ELSE @[r]]]
             /\ temp' = [temp EXCEPT ![p] = OthersInTemp(p, is)]
    BY <1>1, <2>2 DEF TypeOK, OthersInTemp
  <2>3. QED
    BY <1>2, <2>1, <2>2
<1>4. /\ worker' \in [Worker -> WorkerType]
      /\ lock' \in [Container -> Worker \cup {NoWorker}]
      /\ exited' \subseteq Import
  <2>1. CASE Exit(w)
    BY <2>1, ExitType
  <2>2. CASE worker' = [worker EXCEPT ![w].step = "mark"] /\ UNCHANGED <<lock, exited>>
    BY <2>2, StepType DEF TypeOK, Steps
  <2>3. QED
    BY <1>2, <2>1, <2>2
<1>5. QED
  BY <1>3, <1>4 DEF TypeOK, MoveFromTemp, staging

LEMMA WorkerStepType ==
  ASSUME TypeOK, NEW w \in Worker, WorkerStep(w) \/ MarkFails(w) \/ Crash(w)
  PROVE  TypeOK'
<1>0. worker[w] \in WorkerType
  BY DEF TypeOK
<1>1. CASE IncrementAttempts(w)
  <2>1. worker' \in [Worker -> WorkerType]
    BY <1>1, StepType DEF IncrementAttempts, TypeOK, Steps
  <2>2. attempts' \in [Import -> Nat]
    BY <1>1 DEF IncrementAttempts, Attempted, TypeOK
  <2>3. QED
    BY <1>1, <2>1, <2>2 DEF IncrementAttempts, TypeOK, staging, tables
<1>2. CASE AdvisoryLockContainer(w)
  <2>1. CASE CanLock(w) /\ lock' = [lock EXCEPT ![worker[w].container] = w]
             /\ worker' = [worker EXCEPT ![w].step = "list"] /\ UNCHANGED exited
    BY <1>0, <1>2, <2>1
       DEF AdvisoryLockContainer, TypeOK, WorkerType, Steps, staging, tables
  <2>2. CASE Exit(w)
    BY <1>2, <2>2, ExitType DEF AdvisoryLockContainer, TypeOK, staging, tables
  <2>3. QED
    BY <1>2, <2>1, <2>2 DEF AdvisoryLockContainer
<1>3. CASE ListRecords(w)
  BY <1>0, <1>3
     DEF ListRecords, Listing, ActiveMapping, Unmapped, TypeOK, WorkerType, Steps,
         staging, tables
<1>4. CASE CopyToTemp(w)
  <2>1. temp' \in [Pass -> SUBSET Record]
    BY <1>0, <1>4 DEF CopyToTemp, TypeOK, WorkerType
  <2>2. mapping' \in [Shape -> {"none", "inactive", "active"}]
    BY <1>4 DEF CopyToTemp, TypeOK
  <2>3. worker' \in [Worker -> WorkerType]
    BY <1>0, <1>4 DEF CopyToTemp, TypeOK, WorkerType, Steps
  <2>4. QED
    BY <1>4, <2>1, <2>2, <2>3 DEF CopyToTemp, TypeOK, staging
<1>5. CASE MoveFromTemp(w)
  BY <1>5, MoveType
<1>6. CASE MarkProcessed(w)
  BY <1>0, <1>6
     DEF MarkProcessed, AfterMark, Moved, TypeOK, WorkerType, Steps, Pass, staging
<1>7. CASE AttachTagsForImport(w)
  <2>1. tagged' \in [Pass -> [Record -> Nat]]
    BY <1>0, <1>7 DEF AttachTagsForImport, TypeOK, WorkerType
  <2>2. worker' \in [Worker -> WorkerType]
    BY <1>0, <1>7 DEF AttachTagsForImport, TypeOK, WorkerType, Steps, Pass
  <2>3. QED
    BY <1>7, <2>1, <2>2 DEF AttachTagsForImport, TypeOK, staging
<1>8. CASE Finish(w) \/ Crash(w)
  BY <1>8, ExitType DEF Finish, Crash, TypeOK, staging, tables
<1>9. CASE MarkFails(w)
  BY <1>0, <1>9
     DEF MarkFails, AfterMark, TypeOK, WorkerType, Steps, Pass, staging, tables
<1>10. QED
  BY <1>1, <1>2, <1>3, <1>4, <1>5, <1>6, <1>7, <1>8, <1>9 DEF WorkerStep

LEMMA RequestType ==
  ASSUME TypeOK,
         \/ \E i \in Import : \/ ReprocessStep(i) \/ ReprocessCrash(i) \/ UserReprocess(i)
                             \/ DeleteImport(i) \/ CleanStaging(i)
         \/ \E s \in Shape : SetMapping(s)
         \/ \E c \in Container : Dispatch(c)
  PROVE  TypeOK'
<1>1. ASSUME NEW i \in Import, ReprocessSetStatus(i) PROVE TypeOK'
  BY <1>1 DEF ReprocessSetStatus, TypeOK, staging, tables, threads
<1>2. ASSUME NEW i \in Import, ReprocessDeleteData(i) PROVE TypeOK'
  <2>1. /\ graph' \in [Pass -> [Record -> Nat]]
        /\ tagged' \in [Pass -> [Record -> Nat]]
    BY <1>2, DeleteRowsType DEF ReprocessDeleteData, RecordsOf, TypeOK
  <2>2. QED
    BY <1>2, <2>1 DEF ReprocessDeleteData, TypeOK, staging, threads
<1>3. ASSUME NEW i \in Import, ReprocessSpawn(i) PROVE TypeOK'
  <2>1. worker' \in [Worker -> WorkerType]
    BY <1>3, SpawnType, ConstantsAssumption DEF ReprocessSpawn
  <2>2. QED
    BY <1>3, <2>1 DEF ReprocessSpawn, TypeOK, staging
<1>4. ASSUME NEW i \in Import, ExitHandler(i) PROVE TypeOK'
  BY <1>4 DEF ExitHandler, TypeOK, staging, tables
<1>5. ASSUME NEW i \in Import, ReprocessCrash(i) \/ UserReprocess(i) PROVE TypeOK'
  BY <1>5 DEF ReprocessCrash, UserReprocess, TypeOK, staging, tables, threads
<1>6. ASSUME NEW i \in Import, DeleteImport(i) PROVE TypeOK'
  <2>1. /\ graph' \in [Pass -> [Record -> Nat]]
        /\ tagged' \in [Pass -> [Record -> Nat]]
    BY <1>6, DeleteRowsType DEF DeleteImport, RecordsOf, TypeOK
  <2>2. QED
    BY <1>6, <2>1 DEF DeleteImport, TypeOK, threads
<1>7. ASSUME NEW i \in Import, CleanStaging(i) PROVE TypeOK'
  BY <1>7 DEF CleanStaging, TypeOK, threads
<1>8. ASSUME NEW s \in Shape, SetMapping(s) PROVE TypeOK'
  BY <1>8 DEF SetMapping, TypeOK, staging, tables, threads
<1>9. ASSUME NEW c \in Container, Dispatch(c) PROVE TypeOK'
  <2>1. worker' \in [Worker -> WorkerType]
    BY <1>9, SpawnType DEF Dispatch, Uninserted
  <2>2. QED
    BY <1>9, <2>1 DEF Dispatch, TypeOK, staging, tables
<1>10. QED
  BY <1>1, <1>2, <1>3, <1>4, <1>5, <1>6, <1>7, <1>8, <1>9 DEF ReprocessStep

LEMMA TypeStep == TypeOK /\ [Next]_vars => TypeOK'
<1> SUFFICES ASSUME TypeOK, [Next]_vars PROVE TypeOK'
  OBVIOUS
<1>1. CASE UNCHANGED vars
  BY <1>1 DEF vars, TypeOK
<1>2. CASE Next
  BY <1>2, ReceiveType, WorkerStepType, RequestType DEF Next, Fault, UserRequest
<1>3. QED
  BY <1>1, <1>2

\* Every reachable state of the pipeline is well typed, crashes included.
THEOREM TypeCorrect == Spec => []TypeOK
BY InitType, TypeStep, PTL DEF Spec

---------------------------------------------------------------------------
(* Exclusion.  OneWorkerPerContainer is not inductive: that two workers in *)
(* their locked steps differ in container follows from what the lock table *)
(* says of each of them.                                                   *)

HoldsLock(w) ==
  /\ worker[w].container \in Container
  /\ \A i \in worker[w].imports : containerOf[i] = worker[w].container
  /\ worker[w].step \in LockedSteps => lock[worker[w].container] = w

LockInv == \A w \in Worker : worker[w].step # "idle" => HoldsLock(w)

\* A worker that goes on without taking the lock leaves every worker's claim.
LEMMA StepLock ==
  ASSUME TypeOK, LockInv, NEW w \in Worker, NEW wk \in WorkerType,
         worker' = [worker EXCEPT ![w] = wk], lock' = lock,
         worker[w].step # "idle",
         wk.container = worker[w].container, wk.imports = worker[w].imports,
         wk.step \in LockedSteps => worker[w].step \in LockedSteps
  PROVE  LockInv'
BY DEF TypeOK, LockInv, HoldsLock

LEMMA ExitLock ==
  ASSUME TypeOK, LockInv, NEW w \in Worker, Exit(w)
  PROVE  LockInv'
<1> SUFFICES ASSUME NEW v \in Worker, worker'[v].step # "idle" PROVE HoldsLock(v)'
  BY DEF LockInv
<1>1. v # w /\ worker'[v] = worker[v]
  BY DEF Exit, IdleWorker, TypeOK
<1>2. HoldsLock(v)
  BY <1>1 DEF LockInv
<1>3. QED
  BY <1>1, <1>2 DEF HoldsLock, Exit, TypeOK

LEMMA SpawnLock ==
  ASSUME TypeOK, LockInv, NEW w \in Worker, NEW c \in Container,
         NEW is \in SUBSET Import, NEW origin, Spawn(w, c, is, origin), lock' = lock,
         \A i \in is : containerOf[i] = c
  PROVE  LockInv'
BY DEF TypeOK, LockInv, HoldsLock, Spawn, LockedSteps

\* The lock is granted only when nobody holds it, so nobody loses it.
LEMMA AcquireLock ==
  ASSUME TypeOK, LockInv, NEW w \in Worker, worker[w].step = "lock", CanLock(w),
         lock' = [lock EXCEPT ![worker[w].container] = w],
         worker' = [worker EXCEPT ![w].step = "list"]
  PROVE  LockInv'
<1>1. worker[w].container \in Container /\ lock[worker[w].container] = NoWorker
  BY DEF LockInv, HoldsLock, CanLock
<1> SUFFICES ASSUME NEW v \in Worker, worker'[v].step # "idle" PROVE HoldsLock(v)'
  BY DEF LockInv
<1>2. CASE v = w
  <2>1. /\ worker'[v].container = worker[w].container
        /\ worker'[v].imports = worker[w].imports
    BY <1>2 DEF TypeOK, WorkerType
  <2>2. lock'[worker[w].container] = w
    BY <1>1 DEF TypeOK
  <2>3. HoldsLock(w)
    BY DEF LockInv
  <2>4. QED
    BY <1>2, <2>1, <2>2, <2>3 DEF HoldsLock
<1>3. CASE v # w
  <2>1. HoldsLock(v) /\ worker'[v] = worker[v]
    BY <1>3 DEF TypeOK, LockInv
  <2>2. worker[v].step \in LockedSteps => worker[v].container # worker[w].container
    BY <1>1, <2>1, ConstantsAssumption DEF HoldsLock
  <2>3. QED
    BY <2>1, <2>2 DEF HoldsLock, TypeOK
<1>4. QED
  BY <1>2, <1>3

LEMMA LockStep == TypeOK /\ LockInv /\ [Next]_vars => LockInv'
<1> SUFFICES ASSUME TypeOK, LockInv, [Next]_vars PROVE LockInv'
  OBVIOUS
<1>0. CASE UNCHANGED <<lock, worker>>
  BY <1>0 DEF LockInv, HoldsLock
<1>1. ASSUME NEW w \in Worker, WorkerStep(w) \/ MarkFails(w) \/ Crash(w) PROVE LockInv'
  <2>0. worker[w] \in WorkerType
    BY DEF TypeOK
  <2>1. CASE IncrementAttempts(w)
    BY <2>0, <2>1, StepLock DEF IncrementAttempts, WorkerType, LockedSteps, Steps
  <2>2. CASE AdvisoryLockContainer(w)
    BY <2>2, AcquireLock, ExitLock DEF AdvisoryLockContainer
  <2>3. CASE ListRecords(w)
    BY <2>0, <2>3, StepLock
       DEF ListRecords, Listing, ActiveMapping, Unmapped, WorkerType, LockedSteps, Steps, TypeOK
  <2>4. CASE CopyToTemp(w)
    BY <2>0, <2>4, StepLock DEF CopyToTemp, WorkerType, LockedSteps, Steps
  <2>5. CASE MoveFromTemp(w)
    <3>1. CASE Exit(w)
      BY <3>1, ExitLock
    <3>2. CASE worker' = [worker EXCEPT ![w].step = "mark"] /\ lock' = lock
      BY <2>0, <2>5, <3>2, StepLock DEF MoveFromTemp, WorkerType, LockedSteps, Steps
    <3>3. QED
      BY <2>5, <3>1, <3>2 DEF MoveFromTemp
  <2>6. CASE MarkProcessed(w) \/ MarkFails(w)
    BY <2>0, <2>6, StepLock
       DEF MarkProcessed, MarkFails, AfterMark, WorkerType, LockedSteps, Steps, Pass
  <2>7. CASE AttachTagsForImport(w)
    BY <2>0, <2>7, StepLock
       DEF AttachTagsForImport, WorkerType, LockedSteps, Steps, Pass
  <2>8. CASE Finish(w) \/ Crash(w)
    BY <2>8, ExitLock DEF Finish, Crash
  <2>9. QED
    BY <1>1, <2>1, <2>2, <2>3, <2>4, <2>5, <2>6, <2>7, <2>8 DEF WorkerStep
<1>2. ASSUME NEW c \in Container, Dispatch(c) PROVE LockInv'
  BY <1>2, SpawnLock DEF Dispatch, Uninserted
<1>3. ASSUME NEW i \in Import, ReprocessSpawn(i) PROVE LockInv'
  BY <1>3, SpawnLock, ConstantsAssumption DEF ReprocessSpawn
<1>4. ASSUME NEW i \in Import,
             \/ ReceiveStep(i) \/ SaveFails(i) \/ ReceiveFails(i)
             \/ ReprocessSetStatus(i) \/ ReprocessDeleteData(i) \/ ExitHandler(i)
             \/ ReprocessCrash(i) \/ UserReprocess(i) \/ DeleteImport(i)
             \/ CleanStaging(i)
      PROVE  LockInv'
  BY <1>0, <1>4
     DEF ReceiveStep, CreateImport, SaveBuffer, StreamEnd, FinalSave, SaveFails,
         ReceiveFails, ReprocessSetStatus, ReprocessDeleteData, ExitHandler,
         ReprocessCrash, UserReprocess, DeleteImport, CleanStaging, threads
<1>5. ASSUME NEW s \in Shape, SetMapping(s) PROVE LockInv'
  BY <1>0, <1>5 DEF SetMapping, threads
<1>6. CASE UNCHANGED vars
  BY <1>0, <1>6 DEF vars
<1>7. QED
  BY <1>1, <1>2, <1>3, <1>4, <1>5, <1>6
     DEF Next, Fault, UserRequest, ReprocessStep

\* Two workers are never both past the advisory lock of one container,
\* whatever crashes, requests and other workers do in between.
THEOREM OneWorker == Spec => []OneWorkerPerContainer
<1>1. Init => LockInv
  BY DEF Init, LockInv, IdleWorker
<1>2. TypeOK /\ LockInv => OneWorkerPerContainer
  BY DEF TypeOK, LockInv, HoldsLock, OneWorkerPerContainer, LockedSteps
<1>3. QED
  BY <1>1, <1>2, LockStep, TypeCorrect, PTL DEF Spec

---------------------------------------------------------------------------
(* What the graph may hold.  Only three things change nodes and edges.     *)

LEMMA GraphChange ==
  [Next]_vars => \/ graph' = graph
                 \/ \E rs \in SUBSET Record : DeleteRows(rs)
                 \/ \E w \in Worker : MoveFromTemp(w)
<1> SUFFICES ASSUME [Next]_vars, graph' # graph
             PROVE  \/ \E rs \in SUBSET Record : DeleteRows(rs)
                    \/ \E w \in Worker : MoveFromTemp(w)
  OBVIOUS
<1>1. ASSUME NEW w \in Worker, WorkerStep(w) \/ MarkFails(w) \/ Crash(w)
      PROVE  MoveFromTemp(w)
  BY <1>1
     DEF WorkerStep, IncrementAttempts, AdvisoryLockContainer, ListRecords, CopyToTemp,
         MarkProcessed, MarkFails, AttachTagsForImport, Finish, Crash, tables
<1>2. ASSUME NEW i \in Import, ReceiveStep(i) \/ SaveFails(i) \/ ReceiveFails(i)
      PROVE  FALSE
  BY <1>2
     DEF ReceiveStep, CreateImport, SaveBuffer, StreamEnd, FinalSave, SaveFails,
         ReceiveFails, tables
<1>3. ASSUME NEW i \in Import,
             \/ ReprocessStep(i) \/ ReprocessCrash(i) \/ UserReprocess(i)
             \/ DeleteImport(i) \/ CleanStaging(i)
      PROVE  DeleteRows(RecordsOf({i}))
  BY <1>3
     DEF ReprocessStep, ReprocessSetStatus, ReprocessDeleteData, ReprocessSpawn,
         ExitHandler, ReprocessCrash, UserReprocess, DeleteImport, CleanStaging, tables
<1>4. ASSUME NEW s \in Shape, SetMapping(s) PROVE FALSE
  BY <1>4 DEF SetMapping, tables
<1>5. ASSUME NEW c \in Container, Dispatch(c) PROVE FALSE
  BY <1>5 DEF Dispatch, tables
<1>6. ~UNCHANGED vars
  BY DEF vars
<1>7. \A i \in Import : RecordsOf({i}) \in SUBSET Record
  BY DEF RecordsOf
<1>8. QED
  BY <1>1, <1>2, <1>3, <1>4, <1>5, <1>6, <1>7 DEF Next, Fault, UserRequest

\* The rows a worker moves are those it keeps of its own imports.
LEMMA MoveKept ==
  ASSUME TypeOK, NEW w \in Worker, MoveFromTemp(w), graph' # graph
  PROVE  \E p \in Pass : \E kept \in SUBSET InTemp(p, worker[w].imports) :
           /\ Deduplicated(p, worker[w].imports, kept)
           /\ ~InsertFails(p, kept)
           /\ graph' \in [Pass -> [Record -> Nat]]
           /\ \A q \in Pass, r \in Record :
                graph'[q][r] = IF q = p /\ r \in kept THEN graph[q][r] + 1 ELSE graph[q][r]
<1> DEFINE p == worker[w].pass
<1>1. p \in Pass
  BY DEF TypeOK, WorkerType
<1>2. PICK kept \in SUBSET InTemp(p, worker[w].imports) :
        /\ Deduplicated(p, worker[w].imports, kept)
        /\ ~InsertFails(p, kept)
        /\ graph' = [graph EXCEPT ![p] =
             [r \in Record |-> IF r \in kept THEN @[r] + 1 ELSE @[r]]]
  BY DEF MoveFromTemp
<1>3. TypeOK'
  BY MoveType
<1>4. \A q \in Pass, r \in Record :
        graph'[q][r] = IF q = p /\ r \in kept THEN graph[q][r] + 1 ELSE graph[q][r]
  BY <1>1, <1>2 DEF TypeOK
<1>5. QED
  BY <1>1, <1>2, <1>3, <1>4 DEF TypeOK

\* A row is added to nodes or edges only by the worker that holds the lock of
\* the container of its import.
THEOREM LockDiscipline == Spec => GraphWrittenUnderLock
<1> DEFINE A == \A p \in Pass, r \in Record :
                  graph'[p][r] > graph[p][r] =>
                    \E w \in Worker : /\ lock[containerOf[importOf[r]]] = w
                                     /\ importOf[r] \in worker[w].imports
<1>1. TypeOK /\ LockInv /\ [Next]_vars => A
  <2> SUFFICES ASSUME TypeOK, LockInv, [Next]_vars,
                      NEW p \in Pass, NEW r \in Record, graph'[p][r] > graph[p][r]
               PROVE  \E w \in Worker : /\ lock[containerOf[importOf[r]]] = w
                                       /\ importOf[r] \in worker[w].imports
    OBVIOUS
  <2>0. graph[p][r] \in Nat
    BY DEF TypeOK
  <2>1. graph' # graph
    BY <2>0
  <2>2. ~\E rs \in SUBSET Record : DeleteRows(rs)
    BY <2>0 DEF DeleteRows
  <2>3. PICK w \in Worker : MoveFromTemp(w)
    BY <2>1, <2>2, GraphChange
  <2>4. worker[w] \in WorkerType /\ HoldsLock(w) /\ worker[w].step = "move"
    BY <2>3 DEF MoveFromTemp, TypeOK, LockInv
  <2>5. importOf[r] \in worker[w].imports
    BY <2>0, <2>1, <2>3, MoveKept DEF InTemp, RecordsOf
  <2>6. QED
    BY <2>4, <2>5, ConstantsAssumption DEF HoldsLock, LockedSteps
<1>2. Init => LockInv
  BY DEF Init, LockInv, IdleWorker
<1>3. QED
  BY <1>1, <1>2, LockStep, TypeCorrect, PTL DEF Spec, GraphWrittenUnderLock

LEMMA UniqueStep == TypeOK /\ UniqueKeys /\ [Next]_vars => UniqueKeys'
<1> SUFFICES ASSUME TypeOK, UniqueKeys, [Next]_vars,
                    NEW p \in Pass, NEW r \in Record, NEW q \in Record,
                    keyOf[p][r] = keyOf[p][q], keyOf[p][r] \notin NullKey,
                    graph'[p][r] > 0, graph'[p][q] > 0
             PROVE  r = q /\ graph'[p][r] = 1
  BY DEF UniqueKeys
<1>0. graph[p][r] \in Nat /\ graph[p][q] \in Nat
  BY DEF TypeOK
<1>1. CASE graph' = graph
  BY <1>1 DEF UniqueKeys
<1>2. CASE \E rs \in SUBSET Record : DeleteRows(rs)
  <2>1. graph'[p][r] = graph[p][r] /\ graph'[p][q] = graph[p][q]
    BY <1>2 DEF DeleteRows
  <2>2. QED
    BY <2>1 DEF UniqueKeys
<1>3. ASSUME graph' # graph, NEW w \in Worker, MoveFromTemp(w)
      PROVE  r = q /\ graph'[p][r] = 1
  <2>1. PICK o \in Pass : \E kept \in SUBSET InTemp(o, worker[w].imports) :
          /\ Deduplicated(o, worker[w].imports, kept)
          /\ ~InsertFails(o, kept)
          /\ graph' \in [Pass -> [Record -> Nat]]
          /\ \A x \in Pass, y \in Record :
               graph'[x][y] = IF x = o /\ y \in kept THEN graph[x][y] + 1 ELSE graph[x][y]
    BY <1>3, MoveKept
  <2>2. PICK kept \in SUBSET InTemp(o, worker[w].imports) :
          /\ Deduplicated(o, worker[w].imports, kept)
          /\ ~InsertFails(o, kept)
          /\ \A x \in Pass, y \in Record :
               graph'[x][y] = IF x = o /\ y \in kept THEN graph[x][y] + 1 ELSE graph[x][y]
    BY <2>1
  <2>3. ASSUME p = o, r \in kept \/ q \in kept
        PROVE  graph[p][r] = 0 /\ graph[p][q] = 0
    BY <1>0, <2>2, <2>3 DEF InsertFails
  <2>4. CASE p = o /\ (r \in kept \/ q \in kept)
    <3>1. r \in kept /\ q \in kept
      BY <2>2, <2>3, <2>4
    <3>2. QED
      BY <2>2, <2>3, <2>4, <3>1 DEF InsertFails
  <2>5. CASE ~(p = o /\ (r \in kept \/ q \in kept))
    BY <2>2, <2>5 DEF UniqueKeys
  <2>6. QED
    BY <2>4, <2>5
<1>4. QED
  BY <1>1, <1>2, <1>3, GraphChange

\* However often a record is generated, nodes and edges hold at most one row
\* of a complete unique key.
THEOREM KeysUnique == Spec => []UniqueKeys
<1>1. Init => UniqueKeys
  BY DEF Init, UniqueKeys
<1>2. QED
  BY <1>1, UniqueStep, TypeCorrect, PTL DEF Spec

---------------------------------------------------------------------------
(* Refinement.  Every step of the pipeline is a step of GraphStore or      *)
(* leaves the lock table and the graph alone.                              *)

LEMMA ExitReleases ==
  ASSUME NEW w \in Worker, Exit(w), graph' = graph
  PROVE  Store!Next
<1>1. Store!Release(w)
  BY DEF Exit, Store!Release
<1>2. QED
  BY <1>1 DEF Store!Next

LEMMA DeleteRemoves ==
  ASSUME NEW i \in Import, DeleteRows(RecordsOf({i})), lock' = lock
  PROVE  Store!Next
<1>1. Store!Remove(i)
  BY DEF DeleteRows, RecordsOf, Store!Remove
<1>2. QED
  BY <1>1 DEF Store!Next

LEMMA MovePublishes ==
  ASSUME TypeOK, LockInv, NEW w \in Worker, MoveFromTemp(w), ~Exit(w)
  PROVE  Store!Next
<1> DEFINE p == worker[w].pass
           is == worker[w].imports
<1>1. PICK kept \in SUBSET InTemp(p, is) :
        /\ Deduplicated(p, is, kept)
        /\ ~InsertFails(p, kept)
        /\ graph' = [graph EXCEPT ![p] =
             [r \in Record |-> IF r \in kept THEN @[r] + 1 ELSE @[r]]]
        /\ lock' = lock
  BY DEF MoveFromTemp
<1>2. worker[w] \in WorkerType /\ HoldsLock(w) /\ worker[w].step = "move"
  BY DEF MoveFromTemp, TypeOK, LockInv
<1>3. p \in Pass /\ kept \subseteq Record /\ \A r \in kept : importOf[r] \in is
  BY <1>1, <1>2 DEF WorkerType, InTemp, RecordsOf
<1>4. Store!Owns(w, kept)
  BY <1>2, <1>3 DEF Store!Owns, HoldsLock, LockedSteps
<1>5. Store!NewKeys(p, kept)
  <2> SUFFICES ASSUME NEW r \in kept
               PROVE  keyOf[p][r] \notin NullKey =>
                         \A q \in Record : keyOf[p][q] = keyOf[p][r] => graph[p][q] = 0 /\ (q \in kept => q = r)
    BY DEF Store!NewKeys
  <2>1. \A q \in Record : graph[p][q] \in Nat
    BY <1>3 DEF TypeOK
  <2>2. keyOf[p][r] \notin NullKey =>
          \A q \in Record : keyOf[p][q] = keyOf[p][r] => ~(graph[p][q] > 0) /\ (q \in kept => q = r)
    BY <1>1, <1>3 DEF InsertFails
  <2>3. QED
    BY <2>1, <2>2
<1>6. Store!Publish(w, p, kept)
  BY <1>1, <1>4, <1>5 DEF Store!Publish
<1>7. QED
  BY <1>3, <1>6 DEF Store!Next

LEMMA StoreStep == TypeOK /\ LockInv /\ [Next]_vars => [Store!Next]_(Store!vars)
<1> SUFFICES ASSUME TypeOK, LockInv, [Next]_vars PROVE [Store!Next]_(Store!vars)
  OBVIOUS
<1>0. CASE UNCHANGED <<lock, graph>>
  BY <1>0 DEF Store!vars
<1>1. ASSUME NEW w \in Worker, WorkerStep(w) \/ MarkFails(w) \/ Crash(w)
      PROVE  [Store!Next]_(Store!vars)
  <2>1. CASE AdvisoryLockContainer(w)
    <3>1. CASE CanLock(w) /\ lock' = [lock EXCEPT ![worker[w].container] = w]
      <4>1. worker[w].container \in Container
        BY <2>1 DEF AdvisoryLockContainer, LockInv, HoldsLock
      <4>2. Store!Acquire(w, worker[w].container)
        BY <2>1, <3>1 DEF AdvisoryLockContainer, CanLock, Store!Acquire, tables
      <4>3. QED
        BY <4>1, <4>2 DEF Store!Next
    <3>2. QED
      BY <2>1, <3>1, ExitReleases DEF AdvisoryLockContainer, tables
  <2>2. CASE MoveFromTemp(w)
    <3>1. CASE Exit(w) /\ graph' = graph
      BY <3>1, ExitReleases
    <3>2. CASE ~Exit(w)
      BY <2>2, <3>2, MovePublishes
    <3>3. worker' = [worker EXCEPT ![w].step = "mark"] => ~Exit(w)
      BY DEF TypeOK, WorkerType, Exit, IdleWorker
    <3>4. QED
      BY <2>2, <3>1, <3>2, <3>3 DEF MoveFromTemp
  <2>3. CASE Finish(w) \/ Crash(w)
    BY <2>3, ExitReleases DEF Finish, Crash, tables
  <2>4. QED
    BY <1>0, <1>1, <2>1, <2>2, <2>3
       DEF WorkerStep, IncrementAttempts, ListRecords, CopyToTemp, MarkProcessed,
           MarkFails, AttachTagsForImport, tables
<1>2. ASSUME NEW i \in Import,
             \/ ReprocessStep(i) \/ ReprocessCrash(i) \/ UserReprocess(i)
             \/ DeleteImport(i) \/ CleanStaging(i)
      PROVE  [Store!Next]_(Store!vars)
  <2>1. CASE DeleteRows(RecordsOf({i})) /\ lock' = lock
    BY <2>1, DeleteRemoves
  <2>2. QED
    BY <1>0, <1>2, <2>1
       DEF ReprocessStep, ReprocessSetStatus, ReprocessDeleteData, ReprocessSpawn,
           ExitHandler, ReprocessCrash, UserReprocess, DeleteImport, CleanStaging,
           tables, threads
<1>3. ASSUME NEW i \in Import, ReceiveStep(i) \/ SaveFails(i) \/ ReceiveFails(i)
      PROVE  UNCHANGED <<lock, graph>>
  BY <1>3
     DEF ReceiveStep, CreateImport, SaveBuffer, StreamEnd, FinalSave, SaveFails,
         ReceiveFails, tables, threads
<1>4. ASSUME NEW s \in Shape, SetMapping(s) PROVE UNCHANGED <<lock, graph>>
  BY <1>4 DEF SetMapping, tables, threads
<1>5. ASSUME NEW c \in Container, Dispatch(c) PROVE UNCHANGED <<lock, graph>>
  BY <1>5 DEF Dispatch, tables
<1>6. CASE UNCHANGED vars
  BY <1>0, <1>6 DEF vars
<1>7. QED
  BY <1>0, <1>1, <1>2, <1>3, <1>4, <1>5, <1>6 DEF Next, Fault, UserRequest

\* A reader of nodes and edges sees only whole batches of an exclusive owner
\* without repeated keys, and removals of whole imports.
THEOREM Implements == Spec => ImplementsStore
<1>1. Init => Store!Init /\ LockInv
  BY DEF Init, Store!Init, LockInv, IdleWorker
<1>2. QED
  BY <1>1, StoreStep, LockStep, TypeCorrect, PTL DEF Spec, ImplementsStore, Store!Spec
---------------------------------------------------------------------------
(* Marks.                                                                  *)

\* A row only disappears with all the rows of an import.
LEMMA MoveKeepsRows ==
  ASSUME TypeOK, NEW w \in Worker, MoveFromTemp(w), NEW p \in Pass, NEW r \in Record
  PROVE  graph[p][r] > 0 => graph'[p][r] > 0
<1>1. graph[p][r] \in Nat
  BY DEF TypeOK
<1>2. CASE graph' = graph
  BY <1>2
<1>3. CASE graph' # graph
  BY <1>1, <1>3, MoveKept
<1>4. QED
  BY <1>2, <1>3

LEMMA MarksStep ==
  ASSUME TypeOK, MarkedHasRow, [Next]_vars, \A i \in Import : ~ReprocessCrash(i)
  PROVE  MarkedHasRow'
<1> USE ConstantsAssumption
<1>0. CASE UNCHANGED <<marked, graph, reprocess>>
  BY <1>0 DEF MarkedHasRow
<1>1. ASSUME NEW w \in Worker, WorkerStep(w) \/ MarkFails(w) \/ Crash(w) PROVE MarkedHasRow'
  <2>1. CASE MoveFromTemp(w)
    BY <2>1, MoveKeepsRows DEF MoveFromTemp, MarkedHasRow, TypeOK
  <2>2. CASE MarkProcessed(w)
    <3>1. worker[w].pass \in Pass
      BY DEF TypeOK, WorkerType
    <3>2. ASSUME NEW p \in Pass, NEW r \in marked'[p]
          PROVE  graph[p][r] > 0 \/ reprocess[importOf[r]] = "unmark"
      BY <2>2, <3>1, <3>2 DEF MarkProcessed, Moved, MarkedHasRow, TypeOK
    <3>3. QED
      BY <2>2, <3>2 DEF MarkProcessed, MarkedHasRow
  <2>3. QED
    BY <1>0, <1>1, <2>1, <2>2
       DEF WorkerStep, IncrementAttempts, AdvisoryLockContainer, ListRecords, CopyToTemp,
           MarkFails, AttachTagsForImport, Finish, Crash, tables
<1>2. ASSUME NEW i \in Import, StreamEnd(i) \/ UserReprocess(i) \/ ReprocessSetStatus(i)
      PROVE  MarkedHasRow'
  BY <1>2 DEF StreamEnd, UserReprocess, ReprocessSetStatus, MarkedHasRow, TypeOK, tables
<1>3. ASSUME NEW i \in Import, ReprocessDeleteData(i) PROVE MarkedHasRow'
  <2>1. ASSUME NEW p \in Pass, NEW r \in marked[p]
        PROVE  graph'[p][r] > 0 \/ reprocess'[importOf[r]] = "unmark"
    <3>1. r \in Record /\ importOf[r] \in Import
      BY DEF TypeOK
    <3>2. CASE importOf[r] = i
      BY <1>3, <3>1, <3>2 DEF ReprocessDeleteData, TypeOK
    <3>3. CASE importOf[r] # i
      <4>1. graph'[p][r] = graph[p][r] /\ reprocess'[importOf[r]] = reprocess[importOf[r]]
        BY <1>3, <3>1, <3>3 DEF ReprocessDeleteData, DeleteRows, RecordsOf, TypeOK
      <4>2. QED
        BY <4>1 DEF MarkedHasRow
    <3>4. QED
      BY <3>2, <3>3
  <2>2. QED
    BY <1>3, <2>1 DEF ReprocessDeleteData, MarkedHasRow
<1>4. ASSUME NEW i \in Import, ReprocessSpawn(i) \/ DeleteImport(i) \/ CleanStaging(i)
      PROVE  MarkedHasRow'
  <2>1. ASSUME NEW p \in Pass, NEW r \in marked'[p]
        PROVE  graph'[p][r] > 0 \/ reprocess'[importOf[r]] = "unmark"
    <3>1. r \in marked[p] /\ r \in Record /\ importOf[r] # i
      BY <1>4, <2>1 DEF ReprocessSpawn, DeleteImport, CleanStaging, RecordsOf, TypeOK
    <3>2. graph'[p][r] = graph[p][r] /\ reprocess'[importOf[r]] = reprocess[importOf[r]]
      BY <1>4, <3>1 DEF ReprocessSpawn, DeleteImport, CleanStaging, DeleteRows, RecordsOf, TypeOK
    <3>3. QED
      BY <3>1, <3>2 DEF MarkedHasRow
  <2>2. QED
    BY <2>1 DEF MarkedHasRow
<1>5. ASSUME NEW i \in Import,
             \/ CreateImport(i) \/ SaveBuffer(i) \/ FinalSave(i) \/ SaveFails(i)
             \/ ReceiveFails(i) \/ ExitHandler(i)
      PROVE  MarkedHasRow'
  BY <1>0, <1>5
     DEF CreateImport, SaveBuffer, FinalSave, SaveFails, ReceiveFails, ExitHandler, tables
<1>6. ASSUME NEW s \in Shape, SetMapping(s) PROVE MarkedHasRow'
  BY <1>0, <1>6 DEF SetMapping, tables
<1>7. ASSUME NEW c \in Container, Dispatch(c) PROVE MarkedHasRow'
  BY <1>0, <1>7 DEF Dispatch, tables
<1>8. CASE UNCHANGED vars
  BY <1>0, <1>8 DEF vars
<1>9. QED
  BY <1>1, <1>2, <1>3, <1>4, <1>5, <1>6, <1>7, <1>8
     DEF Next, Fault, UserRequest, ReceiveStep, ReprocessStep

\* A mark stands for a row, whatever workers crash, statements fail and users
\* ask, unless the process of a ReprocessImport dies between its deletion of
\* the rows and its reset of the marks.
THEOREM MarksHold ==
  Spec /\ [][\A i \in Import : ~ReprocessCrash(i)]_vars => []MarkedHasRow
<1>1. Init => MarkedHasRow
  BY DEF Init, MarkedHasRow
<1>2. TypeOK /\ MarkedHasRow /\ [Next]_vars /\ [\A i \in Import : ~ReprocessCrash(i)]_vars
        => MarkedHasRow'
  <2>1. UNCHANGED vars /\ MarkedHasRow => MarkedHasRow'
    BY DEF vars, MarkedHasRow
  <2>2. QED
    BY <2>1, MarksStep
<1>3. QED
  BY <1>1, <1>2, TypeCorrect, PTL DEF Spec

---------------------------------------------------------------------------
(* Edges and their nodes.                                                  *)

\* An edge waits in the temporary table, or is in the graph, with its nodes.
EdgeInv ==
  \A r \in Record : r \in temp["edge"] \/ graph["edge"][r] > 0 =>
     \A k \in endpoints[r] : HasNode(k)

\* No node that an edge of some record connects disappears.
NodesStay == \A r \in Record : \A k \in endpoints[r] : HasNode(k) => HasNode(k)'

LEMMA TempChange ==
  [Next]_vars => temp' = temp \/ \E w \in Worker : CopyToTemp(w) \/ MoveFromTemp(w)
<1> SUFFICES ASSUME [Next]_vars, temp' # temp
             PROVE  \E w \in Worker : CopyToTemp(w) \/ MoveFromTemp(w)
  OBVIOUS
<1>1. ASSUME NEW w \in Worker, WorkerStep(w) \/ MarkFails(w) \/ Crash(w)
      PROVE  CopyToTemp(w) \/ MoveFromTemp(w)
  BY <1>1
     DEF WorkerStep, IncrementAttempts, AdvisoryLockContainer, ListRecords,
         MarkProcessed, MarkFails, AttachTagsForImport, Finish, Crash, tables
<1>2. ASSUME NEW i \in Import,
             \/ ReceiveStep(i) \/ SaveFails(i) \/ ReceiveFails(i) \/ ReprocessStep(i)
             \/ ReprocessCrash(i) \/ UserReprocess(i) \/ DeleteImport(i) \/ CleanStaging(i)
      PROVE  FALSE
  BY <1>2
     DEF ReceiveStep, CreateImport, SaveBuffer, StreamEnd, FinalSave, SaveFails,
         ReceiveFails, ReprocessStep, ReprocessSetStatus, ReprocessDeleteData,
         ReprocessSpawn, ExitHandler, ReprocessCrash, UserReprocess, DeleteImport,
         CleanStaging, tables
<1>3. ASSUME NEW s \in Shape, SetMapping(s) PROVE FALSE
  BY <1>3 DEF SetMapping, tables
<1>4. ASSUME NEW c \in Container, Dispatch(c) PROVE FALSE
  BY <1>4 DEF Dispatch, tables
<1>5. ~UNCHANGED vars
  BY DEF vars
<1>6. QED
  BY <1>1, <1>2, <1>3, <1>4, <1>5 DEF Next, Fault, UserRequest

\* What is added to a temporary table was generated, by a worker in that pass.
LEMMA TempSource ==
  ASSUME TypeOK, [Next]_vars, NEW p \in Pass, NEW r \in temp'[p] \ temp[p]
  PROVE  \E w \in Worker : /\ CopyToTemp(w) /\ worker[w].pass = p
                          /\ r \in worker[w].batch /\ Generates(p, r)
<1>1. temp' # temp
  OBVIOUS
<1>2. ASSUME NEW w \in Worker, MoveFromTemp(w) PROVE FALSE
  <2>1. worker[w].pass \in Pass
    BY DEF TypeOK, WorkerType
  <2>2. \/ temp' = temp
        \/ temp' = [temp EXCEPT ![worker[w].pass] = OthersInTemp(worker[w].pass, worker[w].imports)]
    BY <1>2 DEF MoveFromTemp
  <2>3. QED
    BY <2>1, <2>2 DEF OthersInTemp, TypeOK
<1>3. PICK w \in Worker : CopyToTemp(w)
  BY <1>1, <1>2, TempChange
<1>4. QED
  BY <1>3 DEF CopyToTemp, TypeOK

\* What is added to the graph was in a temporary table, under its own import.
LEMMA RowSource ==
  ASSUME TypeOK, [Next]_vars, NEW p \in Pass, NEW r \in Record, graph'[p][r] > graph[p][r]
  PROVE  r \in temp[p]
<1>1. graph[p][r] \in Nat /\ graph' # graph
  BY DEF TypeOK
<1>2. ~\E rs \in SUBSET Record : DeleteRows(rs)
  BY <1>1 DEF DeleteRows
<1>3. PICK w \in Worker : MoveFromTemp(w)
  BY <1>1, <1>2, GraphChange
<1>4. PICK q \in Pass : \E kept \in SUBSET InTemp(q, worker[w].imports) :
        \A x \in Pass, y \in Record :
           graph'[x][y] = IF x = q /\ y \in kept THEN graph[x][y] + 1 ELSE graph[x][y]
  BY <1>1, <1>3, MoveKept
<1>5. PICK kept \in SUBSET InTemp(q, worker[w].imports) :
        graph'[p][r] = IF p = q /\ r \in kept THEN graph[p][r] + 1 ELSE graph[p][r]
  BY <1>4
<1>6. p = q /\ r \in kept
  BY <1>1, <1>5
<1>7. QED
  BY <1>6 DEF InTemp

LEMMA EdgeStep == TypeOK /\ EdgeInv /\ [Next]_vars /\ NodesStay => EdgeInv'
<1> SUFFICES ASSUME TypeOK, EdgeInv, [Next]_vars, NodesStay,
                    NEW r \in Record, r \in temp'["edge"] \/ graph'["edge"][r] > 0,
                    NEW k \in endpoints[r]
             PROVE  HasNode(k)'
  BY DEF EdgeInv
<1>0. "edge" \in Pass
  BY DEF Pass
<1>1. CASE r \in temp["edge"] \/ graph["edge"][r] > 0
  BY <1>1 DEF EdgeInv, NodesStay
<1>2. CASE r \notin temp["edge"] /\ ~(graph["edge"][r] > 0)
  <2>1. graph["edge"][r] \in Nat /\ (TypeOK)'
    BY <1>0, TypeStep DEF TypeOK
  <2>2. graph'["edge"][r] > 0 => r \in temp["edge"]
    BY <1>0, <1>2, <2>1, RowSource
  <2>3. Generates("edge", r)
    BY <1>0, <1>2, <2>2, TempSource
  <2>4. QED
    BY <2>3 DEF Generates, NodesStay
<1>3. QED
  BY <1>1, <1>2

\* Edges never dangle while no node disappears that an edge may connect:
\* neither late uploads, retries, crashes nor changed mappings make one.
THEOREM NoDangling == Spec /\ [][NodesStay]_vars => []NoDanglingEdge
<1>1. Init => EdgeInv
  BY DEF Init, EdgeInv, Pass
<1>2. TypeOK /\ EdgeInv /\ [Next]_vars /\ [NodesStay]_vars => EdgeInv'
  <2>1. UNCHANGED vars /\ EdgeInv => EdgeInv'
    BY DEF vars, EdgeInv, HasNode
  <2>2. QED
    BY <2>1, EdgeStep
<1>3. EdgeInv => NoDanglingEdge
  BY DEF EdgeInv, NoDanglingEdge
<1>4. QED
  BY <1>1, <1>2, <1>3, TypeCorrect, PTL DEF Spec
============================================================================
