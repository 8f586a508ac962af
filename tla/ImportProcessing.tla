------------------------- MODULE ImportProcessing -------------------------
(***************************************************************************)
(* The import pipeline of Deep Lynx.  Records of an import are received    *)
(* into the data_staging table (ReceiveData), process workers turn them    *)
(* into nodes and then edges (process_worker.ts), and a user may reprocess *)
(* or delete an import at any time (import_mapper.ts).                     *)
(*                                                                         *)
(* One step of a worker is the work between two database round trips:      *)
(* every other process, a crash included, may act in between.  The two     *)
(* passes of a worker run the same code over different tables, so the      *)
(* tables are indexed by the pass.                                         *)
(*                                                                         *)
(* A record yields at most one row per pass.  Row contents, timestamps and *)
(* messages are not modelled.                                              *)
(***************************************************************************)
EXTENDS Naturals

CONSTANTS
  Worker,           \* worker threads that may exist at one time
  Container, Import, Record, Shape, Key,
  containerOf,      \* container of the data source of an import
  importOf,         \* data_staging.import_id
  shapeOf,          \* data source and shape hash: names the type mapping
  keyOf,            \* [Pass -> [Record -> Key]]: the columns of the unique constraint
  rankOf,           \* the same for the columns that deduplicateFromTemp ranks by
  NullKey,          \* keys with a NULL column: UNIQUE accepts them repeatedly
  produces,         \* [Pass -> SUBSET Record]: records whose transformations yield a row
  endpoints,        \* node keys the edge of a record connects
  Preloaded,        \* imports whose records are all in data_staging initially
  TxImport,         \* imports received inside one database transaction
  MaxImportRetries, \* Config.max_import_retries
  MaxFaults,        \* bound: crashes and failed statements
  MaxRequests       \* bound: user requests (reprocess, delete, mapping, cleaning)

Pass == {"node", "edge"}
NoWorker == "none"
Steps == {"spawned", "lock", "list", "copy", "move", "mark", "attach", "finish"}
LockedSteps == {"list", "copy", "move", "mark", "attach", "finish"}

ASSUME ConstantsAssumption ==
  /\ NoWorker \notin Worker
  /\ containerOf \in [Import -> Container]
  /\ importOf \in [Record -> Import]
  /\ shapeOf \in [Record -> Shape]
  /\ keyOf \in [Pass -> [Record -> Key]]
  /\ rankOf \in [Pass -> [Record -> Key]] /\ rankOf["node"] = keyOf["node"]
  /\ NullKey \subseteq Key
  /\ produces \in [Pass -> SUBSET Record]
  /\ endpoints \in [Record -> SUBSET Key]
  /\ Preloaded \subseteq Import
  /\ TxImport \subseteq Import
  /\ MaxImportRetries \in Nat
  /\ MaxFaults \in Nat
  /\ MaxRequests \in Nat

VARIABLES
  receiving,  \* progress of ReceiveData for an import
  status,     \* imports.status; "none" when the row does not exist
  attempts,   \* imports.attempts
  buffered,   \* records ReceiveData has not saved yet
  staged,     \* committed rows of data_staging
  mapping,    \* type mapping of a shape
  marked,     \* rows with nodes_processed_at / edges_processed_at set
  temp,       \* rows of nodes_temp / edges_temp
  graph,      \* number of rows of nodes / edges made from a record
  tagged,     \* how many of them are attached in node_tags / edge_tags
  lock,       \* holder of the advisory lock of a container
  worker,     \* the worker threads
  reprocess,  \* progress of ReprocessImport
  exited,     \* imports whose worker 'exit' event is not handled yet
  faults, requests

staging == <<receiving, buffered, staged>>
tables  == <<marked, temp, graph, tagged>>
threads == <<lock, worker, exited>>
vars == <<receiving, status, attempts, buffered, staged, mapping, marked, temp,
          graph, tagged, lock, worker, reprocess, exited, faults, requests>>

RecordsOf(is) == {r \in Record : importOf[r] \in is}

IdleWorker == [step |-> "idle", container |-> NoWorker, imports |-> {},
               pass |-> "node", batch |-> {}, origin |-> "job"]

WorkerType ==
  [step: {"idle"} \cup Steps, container: Container \cup {NoWorker},
   imports: SUBSET Import, pass: Pass, batch: SUBSET Record,
   origin: {"job", "reprocess"}]

TypeOK ==
  /\ receiving \in [Import -> {"absent", "open", "ended", "closed", "failed"}]
  /\ status \in [Import -> {"none", "ready", "processing", "completed"}]
  /\ attempts \in [Import -> Nat]
  /\ buffered \subseteq Record
  /\ staged \subseteq Record
  /\ mapping \in [Shape -> {"none", "inactive", "active"}]
  /\ marked \in [Pass -> SUBSET Record]
  /\ temp \in [Pass -> SUBSET Record]
  /\ graph \in [Pass -> [Record -> Nat]]
  /\ tagged \in [Pass -> [Record -> Nat]]
  /\ lock \in [Container -> Worker \cup {NoWorker}]
  /\ worker \in [Worker -> WorkerType]
  /\ reprocess \in [Import -> {"idle", "status", "delete", "unmark"}]
  /\ exited \subseteq Import
  /\ faults \in Nat
  /\ requests \in Nat

Init ==
  /\ receiving = [i \in Import |-> IF i \in Preloaded THEN "closed" ELSE "absent"]
  /\ status = [i \in Import |-> IF i \in Preloaded THEN "ready" ELSE "none"]
  /\ attempts = [i \in Import |-> 0]
  /\ buffered = RecordsOf(Import \ Preloaded)
  /\ staged = RecordsOf(Preloaded)
  /\ mapping \in [Shape -> {"none", "active"}]
  /\ marked = [p \in Pass |-> {}]
  /\ temp = [p \in Pass |-> {}]
  /\ graph = [p \in Pass |-> [r \in Record |-> 0]]
  /\ tagged = [p \in Pass |-> [r \in Record |-> 0]]
  /\ lock = [c \in Container |-> NoWorker]
  /\ worker = [w \in Worker |-> IdleWorker]
  /\ reprocess = [i \in Import |-> "idle"]
  /\ exited = {}
  /\ faults = 0
  /\ requests = 0

---------------------------------------------------------------------------
(* Receiving data: StandardDataSourceImpl.ReceiveData.                     *)

CreateImport(i) ==
  /\ receiving[i] = "absent"
  /\ receiving' = [receiving EXCEPT ![i] = "open"]
  /\ status' = [status EXCEPT ![i] = "ready"]
  /\ UNCHANGED <<attempts, buffered, staged, mapping, tables, threads,
                 reprocess, faults, requests>>

\* A full buffer is saved.  Rows saved inside a transaction stay invisible.
SaveBuffer(i) ==
  /\ receiving[i] = "open"
  /\ i \notin TxImport
  /\ \E rs \in SUBSET (buffered \cap RecordsOf({i})) :
        /\ rs # {}
        /\ buffered' = buffered \ rs
        /\ staged' = IF status[i] = "none" THEN staged ELSE staged \cup rs
  /\ UNCHANGED <<receiving, status, attempts, mapping, tables, threads,
                 reprocess, faults, requests>>

\* A save of a full buffer fails: its Result is not looked at.
SaveFails(i) ==
  /\ receiving[i] = "open"
  /\ i \notin TxImport
  /\ faults < MaxFaults
  /\ faults' = faults + 1
  /\ \E rs \in SUBSET (buffered \cap RecordsOf({i})) :
        /\ rs # {}
        /\ buffered' = buffered \ rs
  /\ UNCHANGED <<receiving, status, attempts, staged, mapping, tables, threads,
                 reprocess, requests>>

\* The stream ends: the last save is started, not awaited, and
\* ReprocessImport is called at once.
StreamEnd(i) ==
  /\ receiving[i] = "open"
  /\ reprocess[i] = "idle"
  /\ receiving' = [receiving EXCEPT ![i] = "ended"]
  /\ reprocess' = [reprocess EXCEPT ![i] = "status"]
  /\ UNCHANGED <<status, attempts, buffered, staged, mapping, tables, threads,
                 faults, requests>>

\* The payload is not valid JSON, so the last save is never made, or that
\* save fails after the worker was started.
ReceiveFails(i) ==
  /\ receiving[i] \in {"open", "ended"}
  /\ faults < MaxFaults
  /\ receiving' = [receiving EXCEPT ![i] = "failed"]
  /\ buffered' = buffered \ RecordsOf({i})
  /\ faults' = faults + 1
  /\ UNCHANGED <<status, attempts, staged, mapping, tables, threads, reprocess,
                 requests>>

\* The last save, or the transaction around all of them, commits.  It fails
\* when the import is gone: data_staging.import_id is a foreign key.
FinalSave(i) ==
  LET rs == buffered \cap RecordsOf({i})
      saved == rs = {} \/ status[i] # "none" IN
  /\ receiving[i] = "ended"
  /\ receiving' = [receiving EXCEPT ![i] = IF saved THEN "closed" ELSE "failed"]
  /\ buffered' = buffered \ rs
  /\ staged' = IF saved THEN staged \cup rs ELSE staged
  /\ UNCHANGED <<status, attempts, mapping, tables, threads, reprocess, faults,
                 requests>>

---------------------------------------------------------------------------
(* Worker threads: ProcessWorkerStart.                                     *)

Spawn(w, c, is, origin) ==
  /\ worker[w].step = "idle"
  /\ worker' = [worker EXCEPT ![w] =
       [step |-> "spawned", container |-> c, imports |-> is, pass |-> "node",
        batch |-> {}, origin |-> origin]]

\* A worker thread ends: its connections close, which releases its lock.
Exit(w) ==
  /\ worker' = [worker EXCEPT ![w] = IdleWorker]
  /\ lock' = [c \in Container |-> IF lock[c] = w THEN NoWorker ELSE lock[c]]
  /\ exited' = IF worker[w].origin = "reprocess"
                 THEN exited \cup worker[w].imports
                 ELSE exited

\* Mutant: IS NOT NULL for IS NULL.
InsertedInstead ==
  {i \in Import :
     /\ attempts[i] < MaxImportRetries
     /\ \E r \in staged : importOf[r] = i /\ \A p \in Pass : r \in marked[p]}

\* ListWithUninsertedData
Uninserted ==
  {i \in Import :
     /\ attempts[i] < MaxImportRetries
     /\ \E r \in staged : importOf[r] = i /\ \A p \in Pass : r \notin marked[p]}

\* The import job starts a worker for the listed imports of one container.
Dispatch(c) ==
  LET listed == {i \in Uninserted : containerOf[i] = c} IN
  /\ listed # {}
  /\ \E w \in Worker : Spawn(w, c, listed, "job")
  /\ UNCHANGED <<staging, status, attempts, mapping, tables, lock, reprocess,
                 exited, faults, requests>>

\* Mutant: the attempts are counted down.
AttemptsLeft(i) == attempts[i] - 1
Attempted(i) == attempts[i] + 1

IncrementAttempts(w) ==
  /\ worker[w].step = "spawned"
  /\ attempts' = [i \in Import |->
       IF i \in worker[w].imports THEN Attempted(i) ELSE attempts[i]]
  /\ worker' = [worker EXCEPT ![w].step = "lock"]
  /\ UNCHANGED <<staging, status, mapping, tables, lock, reprocess, exited,
                 faults, requests>>

\* Mutant: the Result of the statement is tested instead of its value.
AlwaysTruthy(w) == TRUE
CanLock(w) == lock[worker[w].container] = NoWorker

\* pg_try_advisory_xact_lock: the worker exits when it is not granted.
AdvisoryLockContainer(w) ==
  /\ worker[w].step = "lock"
  /\ \/ /\ CanLock(w)
        /\ lock' = [lock EXCEPT ![worker[w].container] = w]
        /\ worker' = [worker EXCEPT ![w].step = "list"]
        /\ UNCHANGED exited
     \/ /\ ~CanLock(w)
        /\ Exit(w)
  /\ UNCHANGED <<staging, status, attempts, mapping, tables, reprocess, faults,
                 requests>>

\* Mutant: rows processed before are listed again.
ActiveMappingUnfiltered(p, is) ==
  {r \in staged \cap RecordsOf(is) : mapping[shapeOf[r]] = "active"}

\* The WHERE clause of listImportActiveMappingStatementNodes / Edges.  AND
\* binds tighter than OR: records without a mapping come from every import.
ActiveMapping(p, is) ==
  {r \in staged \cap RecordsOf(is) : mapping[shapeOf[r]] = "active" /\ r \notin marked[p]}
Unmapped == {r \in staged : mapping[shapeOf[r]] = "none"}
Listing(p, is) == ActiveMapping(p, is) \cup Unmapped

ListRecords(w) ==
  /\ worker[w].step = "list"
  /\ worker' = [worker EXCEPT ![w].step = "copy",
                              ![w].batch = Listing(worker[w].pass, worker[w].imports)]
  /\ UNCHANGED <<staging, status, attempts, mapping, tables, lock, reprocess,
                 exited, faults, requests>>

HasNode(k) == \E r \in Record : keyOf["node"][r] = k /\ graph["node"][r] > 0

\* Mutant: an edge is made whether or not its nodes are found.
GeneratesUnchecked(p, r) == r \in produces[p] /\ mapping[shapeOf[r]] = "active"

\* GenerateNodes / GenerateEdges read the mapping again.  An edge is only
\* made when the nodes it connects are found.
Generates(p, r) ==
  /\ r \in produces[p]
  /\ mapping[shapeOf[r]] = "active"
  /\ p = "edge" => \A k \in endpoints[r] : HasNode(k)

\* The stream of generated rows is copied into the temporary table; a shape
\* seen for the first time gets an inactive mapping.
CopyToTemp(w) ==
  LET p == worker[w].pass
      rs == worker[w].batch IN
  /\ worker[w].step = "copy"
  /\ temp' = [temp EXCEPT ![p] = @ \cup {r \in rs : Generates(p, r)}]
  /\ mapping' = [s \in Shape |->
       IF mapping[s] = "none" /\ (\E r \in rs : shapeOf[r] = s)
         THEN "inactive" ELSE mapping[s]]
  /\ worker' = [worker EXCEPT ![w].step = "move", ![w].batch = {}]
  /\ UNCHANGED <<staging, status, attempts, marked, graph, tagged, lock,
                 reprocess, exited, faults, requests>>

\* Mutant: the rows of every import in the temporary table are moved.
AllInTemp(p, is) == temp[p]
InTemp(p, is) == temp[p] \cap RecordsOf(is)

\* Mutant: deleteFromTemp is left out.
NothingDeleted(p, is) == temp[p]
OthersInTemp(p, is) == temp[p] \ RecordsOf(is)

\* Mutant: the partition leaves out original_data_id, so that one row of all
\* is kept.
KeepsOne(p, is, kept) ==
  /\ \A r, q \in kept : r = q
  /\ InTemp(p, is) # {} => kept # {}

\* deduplicateFromTemp ranks the rows with one value of rankOf over the whole
\* table and deletes those of the given imports that are not first.  For nodes
\* these are the columns of the unique constraint, for edges the original ids of
\* the nodes they connect, where the index has the nodes' ids.
Deduplicated(p, is, kept) ==
  /\ kept \subseteq InTemp(p, is)
  /\ \A r, q \in kept : rankOf[p][r] = rankOf[p][q] => r = q
  /\ \A r \in InTemp(p, is) :
        \E q \in kept \cup OthersInTemp(p, is) : rankOf[p][q] = rankOf[p][r]

\* Mutant: the table has no unique constraint.
InsertFailsForeignKey(p, kept) == \E r \in kept : status[importOf[r]] = "none"

\* The INSERT of moveFromTemp breaks the unique constraint of the table, with a
\* row that is there or another one of its own, or the foreign key to imports.
InsertFails(p, kept) ==
  \E r \in kept :
     \/ status[importOf[r]] = "none"
     \/ /\ keyOf[p][r] \notin NullKey
        /\ \E q \in Record : keyOf[p][q] = keyOf[p][r] /\ (graph[p][q] > 0 \/ q \in kept \ {r})

\* MoveFromTemp, one transaction.  On failure it rolls back and the worker
\* exits, which leaves the rows in the temporary table.
MoveFromTemp(w) ==
  LET p == worker[w].pass
      is == worker[w].imports IN
  /\ worker[w].step = "move"
  /\ \E kept \in SUBSET InTemp(p, is) :
        /\ Deduplicated(p, is, kept)
        /\ \/ /\ InsertFails(p, kept)
              /\ Exit(w)
              /\ UNCHANGED <<temp, graph>>
           \/ /\ ~InsertFails(p, kept)
              /\ graph' = [graph EXCEPT ![p] =
                   [r \in Record |-> IF r \in kept THEN @[r] + 1 ELSE @[r]]]
              /\ temp' = [temp EXCEPT ![p] = OthersInTemp(p, is)]
              /\ worker' = [worker EXCEPT ![w].step = "mark"]
              /\ UNCHANGED <<lock, exited>>
  /\ UNCHANGED <<staging, status, attempts, mapping, marked, tagged, reprocess,
                 faults, requests>>

\* The next step of a worker after it marked, or tried to mark, a pass.
AfterMark(w) ==
  worker' = [worker EXCEPT ![w].step = IF worker[w].pass = "node" THEN "list" ELSE "attach",
                           ![w].pass = IF worker[w].pass = "node" THEN "edge" ELSE "node"]

\* Mutant: every row of the imports is marked.
AllOfImports(p, is) == staged \cap RecordsOf(is)
Moved(p, is) == {r \in staged \cap RecordsOf(is) : graph[p][r] > 0}

MarkProcessed(w) ==
  LET p == worker[w].pass IN
  /\ worker[w].step = "mark"
  /\ marked' = [marked EXCEPT ![p] = @ \cup Moved(p, worker[w].imports)]
  /\ AfterMark(w)
  /\ UNCHANGED <<staging, status, attempts, mapping, temp, graph, tagged, lock,
                 reprocess, exited, faults, requests>>

\* The UPDATE fails: the error is logged and the worker goes on.
MarkFails(w) ==
  /\ worker[w].step = "mark"
  /\ faults < MaxFaults
  /\ faults' = faults + 1
  /\ AfterMark(w)
  /\ UNCHANGED <<staging, status, attempts, mapping, tables, lock, reprocess,
                 exited, requests>>

\* Mutant: the statement for nodes is run twice.
NodeRows(p, is) ==
  {r \in RecordsOf(is) : status[importOf[r]] # "none" /\ p = "node" /\ graph[p][r] > 0}
RowsOf(p, is) ==
  {r \in RecordsOf(is) : status[importOf[r]] # "none" /\ graph[p][r] > 0}

\* AttachTagsForImport inserts one row per node of the imports in a single
\* statement, so one node that has its tag already makes it fail.  The error
\* is logged.  AttachFilesForImport does the same on node_files / edge_files.
AttachTagsForImport(w) ==
  LET p == worker[w].pass
      rs == RowsOf(p, worker[w].imports) IN
  /\ worker[w].step = "attach"
  /\ tagged' = IF \E r \in rs : tagged[p][r] > 0
                 THEN tagged
                 ELSE [tagged EXCEPT ![p] =
                        [r \in Record |-> IF r \in rs THEN graph[p][r] ELSE @[r]]]
  /\ worker' = [worker EXCEPT ![w].step = IF p = "node" THEN "attach" ELSE "finish",
                              ![w].pass = "edge"]
  /\ UNCHANGED <<staging, status, attempts, mapping, marked, temp, graph, lock,
                 reprocess, exited, faults, requests>>

\* setEnd, COMMIT of the lock's transaction and process.exit.
Finish(w) ==
  /\ worker[w].step = "finish"
  /\ Exit(w)
  /\ UNCHANGED <<staging, status, attempts, mapping, tables, reprocess, faults,
                 requests>>

\* A worker is killed: Bree's one hour limit, an unhandled rejection, or the
\* end of its process.
Crash(w) ==
  /\ worker[w].step # "idle"
  /\ faults < MaxFaults
  /\ faults' = faults + 1
  /\ Exit(w)
  /\ UNCHANGED <<staging, status, attempts, mapping, tables, reprocess, requests>>

---------------------------------------------------------------------------
(* ReprocessImport, called by ReceiveData and by the reprocess routes.     *)

UserReprocess(i) ==
  /\ requests < MaxRequests
  /\ status[i] # "none"
  /\ reprocess[i] = "idle"
  /\ reprocess' = [reprocess EXCEPT ![i] = "status"]
  /\ requests' = requests + 1
  /\ UNCHANGED <<staging, status, attempts, mapping, tables, threads, faults>>

ReprocessSetStatus(i) ==
  /\ reprocess[i] = "status"
  /\ reprocess' = [reprocess EXCEPT ![i] = "delete"]
  /\ status' = [status EXCEPT ![i] = IF @ = "none" THEN @ ELSE "processing"]
  /\ UNCHANGED <<staging, attempts, mapping, tables, threads, faults, requests>>

\* The rows made from these records are deleted from nodes and edges.
DeleteRows(rs) ==
  /\ graph' = [p \in Pass |-> [r \in Record |-> IF r \in rs THEN 0 ELSE graph[p][r]]]
  /\ tagged' = [p \in Pass |-> [r \in Record |-> IF r \in rs THEN 0 ELSE tagged[p][r]]]

ReprocessDeleteData(i) ==
  /\ reprocess[i] = "delete"
  /\ reprocess' = [reprocess EXCEPT ![i] = "unmark"]
  /\ IF status[i] = "none" THEN UNCHANGED <<graph, tagged>> ELSE DeleteRows(RecordsOf({i}))
  /\ UNCHANGED <<staging, status, attempts, mapping, marked, temp, threads,
                 faults, requests>>

\* setProcessedNull, then a worker is started for this import alone.
ReprocessSpawn(i) ==
  /\ reprocess[i] = "unmark"
  /\ reprocess' = [reprocess EXCEPT ![i] = "idle"]
  /\ marked' = [p \in Pass |-> marked[p] \ RecordsOf({i})]
  /\ \E w \in Worker : Spawn(w, containerOf[i], {i}, "reprocess")
  /\ UNCHANGED <<staging, status, attempts, mapping, temp, graph, tagged, lock,
                 exited, faults, requests>>

\* worker.on('exit'): whatever the worker did, the import is completed.
ExitHandler(i) ==
  /\ i \in exited
  /\ exited' = exited \ {i}
  /\ status' = [status EXCEPT ![i] = IF @ = "none" THEN @ ELSE "completed"]
  /\ UNCHANGED <<staging, attempts, mapping, tables, lock, worker, reprocess,
                 faults, requests>>

\* The server process that runs ReprocessImport dies between two of its
\* statements.
ReprocessCrash(i) ==
  /\ reprocess[i] # "idle"
  /\ faults < MaxFaults
  /\ faults' = faults + 1
  /\ reprocess' = [reprocess EXCEPT ![i] = "idle"]
  /\ UNCHANGED <<staging, status, attempts, mapping, tables, threads, requests>>

---------------------------------------------------------------------------
(* Other users of the tables.                                              *)

\* ImportMapper.Delete.  data_staging rows go with the import (ON DELETE
\* CASCADE); without withData the nodes and edges stay (ON DELETE SET NULL).
DeleteImport(i) ==
  /\ requests < MaxRequests
  /\ requests' = requests + 1
  /\ status[i] # "none"
  /\ status' = [status EXCEPT ![i] = "none"]
  /\ staged' = staged \ RecordsOf({i})
  /\ marked' = [p \in Pass |-> marked[p] \ RecordsOf({i})]
  /\ \/ DeleteRows(RecordsOf({i}))
     \/ UNCHANGED <<graph, tagged>>
  /\ UNCHANGED <<receiving, attempts, buffered, mapping, temp, threads,
                 reprocess, faults>>

\* A user switches a type mapping on or off.
SetMapping(s) ==
  /\ requests < MaxRequests
  /\ requests' = requests + 1
  /\ \E m \in {"active", "inactive"} \ {mapping[s]} :
        mapping' = [mapping EXCEPT ![s] = m]
  /\ UNCHANGED <<staging, status, attempts, tables, threads, reprocess, faults>>

\* staging_clean deletes the rows of an import past the retention period,
\* processed or not.
CleanStaging(i) ==
  /\ requests < MaxRequests
  /\ requests' = requests + 1
  /\ staged \cap RecordsOf({i}) # {}
  /\ staged' = staged \ RecordsOf({i})
  /\ marked' = [p \in Pass |-> marked[p] \ RecordsOf({i})]
  /\ UNCHANGED <<receiving, status, attempts, buffered, mapping, temp, graph,
                 tagged, threads, reprocess, faults>>

---------------------------------------------------------------------------
WorkerStep(w) ==
  \/ IncrementAttempts(w)
  \/ AdvisoryLockContainer(w)
  \/ ListRecords(w)
  \/ CopyToTemp(w)
  \/ MoveFromTemp(w)
  \/ MarkProcessed(w)
  \/ AttachTagsForImport(w)
  \/ Finish(w)

ReceiveStep(i) ==
  \/ CreateImport(i)
  \/ SaveBuffer(i)
  \/ StreamEnd(i)
  \/ FinalSave(i)

ReprocessStep(i) ==
  \/ ReprocessSetStatus(i)
  \/ ReprocessDeleteData(i)
  \/ ReprocessSpawn(i)
  \/ ExitHandler(i)

Fault ==
  \/ \E w \in Worker : MarkFails(w) \/ Crash(w)
  \/ \E i \in Import : SaveFails(i) \/ ReceiveFails(i) \/ ReprocessCrash(i)

UserRequest ==
  \/ \E i \in Import : UserReprocess(i) \/ DeleteImport(i) \/ CleanStaging(i)
  \/ \E s \in Shape : SetMapping(s)

Next ==
  \/ \E w \in Worker : WorkerStep(w)
  \/ \E c \in Container : Dispatch(c)
  \/ \E i \in Import : ReceiveStep(i) \/ ReprocessStep(i)
  \/ Fault
  \/ UserRequest

Spec == Init /\ [][Next]_vars

\* Threads and statements already sent make progress.  The import job runs
\* every minute and visits every listed container whenever a thread is free.
\* Nothing forces a client to start or to end an upload.
Fairness ==
  /\ \A w \in Worker : WF_vars(WorkerStep(w))
  /\ \A c \in Container : SF_vars(Dispatch(c))
  /\ \A i \in Import : WF_vars(FinalSave(i)) /\ SF_vars(ReprocessStep(i))

FairSpec == Spec /\ Fairness

---------------------------------------------------------------------------
(* Properties.                                                             *)

\* Quiet: nothing is in flight.  Drained: the import job has nothing to do.
Quiet ==
  /\ \A w \in Worker : worker[w].step = "idle"
  /\ \A i \in Import : reprocess[i] = "idle" /\ receiving[i] \in {"absent", "closed", "failed"}
  /\ exited = {}
Drained == Quiet /\ Uninserted = {}

\* The job gives up on an import after MaxImportRetries attempts.
GivenUp(r) == attempts[importOf[r]] >= MaxImportRetries
HasRow(p, r) == \E q \in Record : keyOf[p][q] = keyOf[p][r] /\ graph[p][q] > 0

\* At most one worker is past the advisory lock of a container: the promise
\* process_worker.ts makes before it takes the lock, crashes included.
OneWorkerPerContainer ==
  \A v, w \in Worker :
     /\ worker[v].step \in LockedSteps
     /\ worker[w].step \in LockedSteps
     /\ worker[v].container = worker[w].container
     => v = w

\* A row reaches nodes or edges only through the worker that holds the lock
\* of its container and was started for its import (MoveFromTemp), although
\* the temporary tables are shared by every worker.
GraphWrittenUnderLock ==
  [][\A p \in Pass, r \in Record :
       graph'[p][r] > graph[p][r] =>
         \E w \in Worker : /\ lock[containerOf[importOf[r]]] = w
                          /\ importOf[r] \in worker[w].imports]_vars

\* nodes and edges hold at most one row of a complete key, whatever workers
\* crash between the move and the mark and whatever is generated again.
UniqueKeys ==
  \A p \in Pass, r, q \in Record :
     /\ keyOf[p][r] = keyOf[p][q] /\ keyOf[p][r] \notin NullKey
     /\ graph[p][r] > 0 /\ graph[p][q] > 0
     => r = q /\ graph[p][r] = 1

\* A staging row marked processed has its row in the graph, except between
\* the two statements of ReprocessImport that delete the rows and clear the
\* marks, whatever worker is busy on the import meanwhile.
MarkedHasRow ==
  \A p \in Pass : \A r \in marked[p] :
     graph[p][r] > 0 \/ reprocess[importOf[r]] = "unmark"

\* Once the import job has nothing left to do, every staged record with an
\* active mapping has its rows, or its import used up its retries: the
\* dispatcher's criterion loses nothing.
Complete ==
  Drained => \A p \in Pass, r \in staged :
                Generates(p, r) => HasRow(p, r) \/ GivenUp(r)

\* No rows are left in nodes_temp / edges_temp when nothing runs: "we don't
\* want to leave anything hanging" (node_mapper.ts:110).
TempEmptied == Quiet => \A p \in Pass : temp[p] = {}

\* An edge is generated only after the nodes of its import are in the graph:
\* the order the two passes are made for (process_worker.ts:295).
NodesBeforeEdges ==
  [][\A r \in temp'["edge"] \ temp["edge"] :
       \A q \in staged \cap RecordsOf({importOf[r]}) :
          Generates("node", q) => HasRow("node", q)]_vars

\* The tags and files of the transformations are attached to every node and
\* edge once nothing is left to do (process_worker.ts:271).
AllTagged == Drained => tagged = graph

\* A record never has two nodes or two edges, keys with a NULL included.
NoDuplicates == \A p \in Pass, r \in Record : graph[p][r] <= 1

\* An edge connects nodes that exist.
NoDanglingEdge ==
  \A r \in Record : graph["edge"][r] > 0 => \A k \in endpoints[r] : HasNode(k)

\* "reprocessing completed" (import_mapper.ts:166-167): a reprocessed import is
\* completed only when its records were processed.  It is violated: README, section 6.
CompletedIsProcessed ==
  \A i \in Import : status[i] = "completed" /\ Quiet =>
     \A p \in Pass, r \in staged \cap RecordsOf({i}) : Generates(p, r) => HasRow(p, r)

\* When ReceiveData reports success, every record of the upload is staged
\* (standard_data_source_impl.ts:219), while staging is not cleaned.  It is
\* violated: README, section 6.
ReceivedIsStaged ==
  \A i \in Import : receiving[i] = "closed" /\ status[i] # "none" => RecordsOf({i}) \subseteq staged

\* Every staged record with an active mapping eventually has its node, unless
\* its import used up its retries.
EventuallyNode ==
  \A r \in Record :
     (r \in staged /\ Generates("node", r)) ~> (HasRow("node", r) \/ GivenUp(r))

\* The pipeline implements GraphStore: what a reader of nodes and edges sees
\* of uploads, retries, crashes and reprocessing is batches of an exclusive
\* owner without repeated keys, and removals of whole imports.
Store == INSTANCE GraphStore WITH Nobody <- NoWorker, owner <- lock, rows <- graph
ImplementsStore == Store!Spec
===========================================================================
