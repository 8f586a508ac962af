# Deep Lynx: specifications of its data path

Deep Lynx stores an ontology and, next to it, a graph of data shaped by that
ontology. Sources deliver JSON records; type mappings turn them into nodes and
edges; exports carry the graph to other databases. Postgres holds everything, a
cache (Redis, or the memory of a process) stands before some of it, and worker
threads started by Bree do the work. This directory models what happens to shared
state between two awaits. Code paths below are relative to `src/server/src`.

## 1. The system

| component | state it keeps | operations | what makes it hard | what makes it correct |
|---|---|---|---|---|
| import pipeline (`jobs/process_worker.ts`, `data_processing/process.ts`, import and staging mappers, `standard_data_source_impl.ts`) | `imports`, `data_staging`, `nodes_temp`, `edges_temp`, `nodes`, `edges`, tags, advisory locks | receive, save, list, copy, move, mark, attach, reprocess, delete, clean | every step is its own statement on its own connection; threads die at any of them; temp tables are shared | one worker per container; no repeated unique key; nothing lost, nothing twice; nodes before edges |
| import dispatcher (`jobs/import_process.ts`) | a map container -> imports, a queue, a count, one closure per worker | list, group, start, exitFunc | exit handlers interleave around an awaited listing | counts its workers, ends only when done, ends at all |
| type transformation (`domain_objects/data_warehouse/etl/type_transformation.ts`) | none | transform, conditions, key mapping, conversion | recursion over nested arrays with index lists; three error actions at two places | each element once, from its own values, required keys present |
| data sources and pollers (`jobs/data_source_process.ts`, `interfaces_and_impl/.../import`, `mappers/mapper.ts`) | source status, last import, pooled clients and their transactions | poll, receive, complete | a transaction around a network call, ended by two callers; a pool that all polls share; a thread that may end at any time | an import shows all of a poll's data or none; every client comes back; every poll ends |
| ontology versions (`ontology_version_repository.ts`, `clone_ontology`, `importOntology`) | version status, metatypes, keys; active type mappings | create, clone, import, approve, publish, delete, edit | statements of a background clone between requests; status set outside of the transaction | a published version stays; what is copied fits together; a version is not being generated for ever while its server lives |
| type mapping and cache (`repositories/.../etl`, `services/cache`) | rows, and their cached copies | find, save, archive, delete | drop before write, write after read, un-awaited set | a save is seen, and undoes no other |
| exports (`gremlin_export_impl.ts`, `export_repository.ts`, `jobs/export.ts`) | export status, snapshot tables, row locks | create, restart, stop, delete, loop | competing runs in server and job, transactions left open | what is left open locks nothing; a stopped export stops |
| nodes, edges, query builder | rows | single statements, text of queries | little state of their own | - |
| event system, task runner, reports, timeseries, files, access, HTTP, GraphQL, UI | rows, files | single statements, streams, formatting | little state of their own | - |

They meet in the database and in threads. A route or a poller calls
`ReceiveData`, which fills `data_staging` and calls `ReprocessImport`, which starts a
worker thread. The dispatcher starts workers too, each minute, on each server. A worker
takes its container's advisory lock, runs `GenerateNodes` and `GenerateEdges` over the
listed records (which apply the type transformations), copies the rows to temporary
tables, moves them into the graph, marks the records, and attaches tags and files.
Users meanwhile edit type transformations through the cache, and the ontology by
versions: publishing one disables every type mapping. An export copies the graph to
tables of its own and walks them in the server and, restarted, in the export job.

`PROJECT.json` lists every component with its status and every hazard with its line.

## 2. Modules

* **ImportProcessing**: the pipeline. One action per round trip to the database, so
  that any other thread, or a crash, may act in between.
  `receiving`, `buffered`, `staged` follow `ReceiveData` (`CreateImport`,
  `SaveBuffer`, `SaveFails`, `StreamEnd`, `FinalSave`, `ReceiveFails`). `worker`,
  `lock`, `temp`, `graph`, `marked`, `tagged` follow `ProcessWorkerStart`
  (`IncrementAttempts`, `AdvisoryLockContainer`, `ListRecords`, `CopyToTemp`,
  `MoveFromTemp`, `MarkProcessed`, `AttachTagsForImport`, `Finish`), whose node pass
  and edge pass are the same code over tables indexed by the pass. `reprocess`,
  `exited`, `status` follow `ReprocessImport` and its exit handler. `Dispatch` stands
  for the dispatcher; `DeleteImport`, `SetMapping`, `CleanStaging`, `UserReprocess`
  are what others do to the tables; `Crash`, `MarkFails`, `ReprocessCrash` are faults.
  `keyOf` is a row's value of the unique constraint, `rankOf` its value of the columns
  that `deduplicateFromTemp` ranks by: for nodes they are the same, for edges the first
  has the ids of the nodes and the second their original ids.
* **GraphStore**: what readers of the graph are promised: batches of an exclusive
  owner, no repeated key, removal of whole imports. ImportProcessing implements it with
  `owner <- lock`, `rows <- graph`.
* **ImportDispatch**: the job of `import_process.ts`. A slot is what one worker and its
  exit handler go through; `orig` is the container the handler closed over, which the
  code deletes from the map at every later exit too. `importMap`, `containerIDs` and
  `incomplete` are the three variables of the job. The listing between `ExitFunc` and
  `Resume` is a step of its own because other handlers run during the await. What a
  worker does inside is reduced to attempt, lock, and done or failed.
* **Transformation**: `transform`, `generateResults`, `validTransformationCondition`,
  `getNestedValue`, `convertValue` as operators over JSON trees, and the loop of
  `GenerateNodes`/`GenerateEdges` over a record's transformations as the state machine.
  The code's loops over the segments of a key, over subexpressions and over the keys, and
  its recursion over nested arrays, are recursive functions (`at`, `result`, `after`,
  `walk`), so that theorems can be proved about them. `Values` is a set of JSON values that has, with a value, all that
  it is made of; a key that sets properties of two kinds is two keys of the model.
* **TransformationReference**: elements and values by structure alone (`Elements`,
  `ValueAt`, `ConditionHolds`, `Refused`), and the properties that compare the two.
  `Reached` is all that a key leads to in a payload, each with the numbers of the array
  elements on its way. `MarkersFit` and `PropertiesDiffer` say which mappings the
  theorems are about; MCTransformation assumes both, so that TLC finds them true of the
  payloads and mappings it checks.
* **HttpPolling**: `Run` of `http_data_source_impl.ts`, `ReceiveData` inside it, and the
  transactions of `mapper.ts` over the pool. `run[v][s]` is the call of `Run` for source
  s in the job's thread on server v; `client[v][c]` is a pooled client with its session
  (transaction, what it wrote and locked, whether `release()` is still due), `idle[v]`
  the pool's stack. `Write` puts a statement into whatever transaction is open on its
  client, which is how one Run's completion can end another's; on a client whose
  transaction another Run has left aborted, BEGIN is that error. `status`, `last` and
  `fresh` are the columns the poller reads. pg, pg-pool and Postgres are external:
  they are modelled as the code uses them.
* **OntologyVersions**: `cloneOntology` and the function `clone_ontology` (`clone`),
  `publish` in its two statements (`publishing`), `delete` in its two (`deleting`),
  `importOntology` (`import`), the approval routes, and users who edit a version or
  enable a mapping at any point. Of each statement whose result the code drops there is a
  disjunct in which it fails; `ServerEnds` is a server that dies, by itself or since
  nobody catches what a ROLLBACK throws. `seen` is history: the contents the base had
  while a clone was reading it; so is `unreviewed`: the mappings active since before a
  request last published a version.
* **CachedTransformation**: the requests for one type transformation. `req[r].pc` is
  where request r awaits; `filling` is the set of the cache that nobody waits for,
  `dropping` the deletion nobody waits for. A row is the set of the saves it contains:
  each save sets a field of its own, so that an edit undone is an element missing. A
  mapping's payload may know any of the saves before it (`Sent`), whatever the row has
  now: the client may have made it long ago. `acked` is history: the saves that have
  answered and that nothing has undone in the row.
* **GremlinExport**: `export()` of the Gremlin exporter, once per element of `Run`, in
  the server or in the job; the routes and the job that start, stop and delete;
  `leaked` counts the clients that a transaction keeps for good: those of both loops,
  and of a BEGIN or COMMIT that fails. A run is `awaited` by a request or by nobody;
  `CompleteThrows` ends the request of the first and the process of the second.
* **ImportProcessing_proofs**, **ImportUndisturbed_proofs**, **ImportDispatch_proofs**,
  **Transformation_proofs**, **HttpPolling_proofs**, **OntologyVersions_proofs**,
  **CachedTransformation_proofs**, **GremlinExport_proofs**: the theorems of section 5.
* **MCImportProcessing**, **MCImportDispatch**, **MCTransformation**,
  **MCHttpPolling**, **MCOntologyVersions**, **MCCachedTransformation**,
  **MCGremlinExport**: constants for TLC.

HttpPolling refines what ImportProcessing calls an import received in a transaction
(`TxImport`); ImportDispatch what it calls `Dispatch`; Transformation what it calls
`Generates`; OntologyVersions and CachedTransformation show two ways in which mappings
change under it (`SetMapping`).

Operators commented "Mutant" are plausible bugs, used only to see that a property
notices them.

## 3. Runs

| run | shows | bounds | distinct states |
|---|---|---|---|
| `faults` | the lock excludes, keys stay unique, rows reach the graph through the lock holder only, GraphStore is implemented | 2 imports (one still being received), 3 records, 2 edges between the same nodes, 2 workers, 1 fault anywhere, a repeated key across imports | 889 000 |
| `complete` | with both imports staged and no faults: every row made once, tags attached, temp tables emptied, nodes before edges, no dangling edge, and every node made in the end | 2 workers, 3 attempts, an edge across imports, a NULL key | 1 800 |
| `reprocess` | a marked record has its row under any user request between any two steps, with an import received in a transaction | 1 request, 1 attempt | 1 114 000 |
| `dispatch` | the worker count is right, the job ends only idle and leaves nothing it listed untried, it ends, and every import is tried | 2 workers, 3 containers, 1 late import, 2 attempts, 1 kill | 182 000 |
| `transform` | exactly one item per wanted element, from its own values, with its required keys | arrays of up to 2 elements at 2 levels, all combinations of root array, conditions, actions; about 25 000 record and mapping pairs | 78 000 |
| `polling` | an import shows all of its poll's data or none; locks and rows belong to open transactions | 2 servers, 1 source, 2 clients each, 2 imports, 1 failed statement, threads ended anywhere | 701 000 |
| `pool` | no client is lost unless its connection broke, none is given back twice, and every Run ends unless each client broke or is kept by a Run that waits for a second one | 1 server, 2 sources, 2 clients, 1 failed statement | 44 000 |
| `mixed` (violation) | the transaction that is completed twice commits half of another poll | 2 sources, 3 clients, answers that fill buffers | - |
| `versions` | no keys without metatype, no published version deleted, no version left being generated unless COMMIT or the writing of 'error' failed or its server ended | 2 versions, 1 metatype, 1 mapping, 4 requests, 2 failed statements or ended servers, one import | 319 000 |
| `snapshot` (violation) | a clone holds a state its base never had | 2 metatypes, 3 requests | - |
| `cache` | a save that has answered, and that nothing has undone, is seen; an update undoes no edit made since its save began | 4 requests of any kind, alike (symmetry) | 1 464 000 |
| `exports` | what runs leave open locks nothing, and every run of a stopped export ends | 2 exports, 2 runs, 3 clients, 2 stops or deletions, 1 failed statement | 328 000 |

Why the bounds suffice. Two workers are what it takes to race on a lock, on temp
tables and on marks. Three records give two in one import and one in another, which
the deduplication and the listing treat differently, and one record with an edge. One
fault separates any two steps; requests likewise. Three containers on two workers
make a queue, a pop and a refill of the queue. Two elements per level are the first,
the last and a sibling; the third level repeats the second.
Two pollers race on the one row they lock. Two sources on two clients are as many Runs
as clients: one takes another's client, and both wait for a third that is not there; in
`mixed`, with three, the one that was stolen from has saves left to make. Two versions
are a base and its clone, or the old and the new one of an import; of two faults the
second hits the report of the first. Of four requests for a transformation one can fill
the cache, one save, one write the save back out of a mapping and one read. Two runs are
two of one export or one of each, and three clients are used up by two runs that leave
two each.

Bounds in guards: `MaxFaults`, `MaxRequests`, `MaxKills`, `MaxImports`, `MaxVersions`,
`Answers`, `MaxImportRetries` (the last is a configuration value of the program;
`attempts` of ImportDispatch stops counting at it, since no guard tells larger values
apart), `Late`, the sets `Req`, `Export` and `Run`, and in ImportProcessing one
`ReprocessImport` per import at a time. `PoolSize` is the program's `max` of the pool
(10 by default); in HttpPolling less the client that the job's stream keeps.

`CHECK_DEADLOCK FALSE` is used because the systems stop: nothing left to import,
every attempt or request used, or a record's last transformation applied. In
HttpPolling and GremlinExport it also covers what may really happen, the wait of all
for a client of an empty pool, which `RunsEnd` and `StopEnds` except.

## 4. Fairness and liveness

ImportProcessing's `FairSpec`: a running worker continues (a statement answers or
fails, and Bree ends a thread after an hour); a last save that was started commits;
`ReprocessImport` goes on; a listed container is dispatched again and again, because
Bree starts the job each minute. `Dispatch` and `ReprocessStep` need strong fairness:
they wait for a free worker thread, which comes and goes. Nothing forces a client to
begin or end an upload.

ImportDispatch: weak fairness for `Start` (each minute) and each slot's steps (as
above). Kills, arrivals and failures get none.

HttpPolling: weak fairness for each Run's steps: statements answer, and so does
`axios.get`, after its timeout at the latest. Starting and ending threads get none.
The circular wait is in the bounds of `pool`: `RunsEnd` excepts it by name (each client
is broken or kept by a Run that waits in `CreateImport`), so that the run shows that
nothing else keeps a Run from its end; `SourcesDoNotWait` does not except it, and is
violated (section 6).

OntologyVersions: weak fairness for the steps of a clone, none for faults. `GenerationEnds`
excepts a clone whose COMMIT or whose report of an error failed, and one whose server
ended: nothing in the code looks for such versions later. CachedTransformation has no
liveness: that an entry expires is what the cache promises, whatever the requests do.
GremlinExport: strong fairness for the steps of
a run, because the pool serves its waiters, and Postgres those of a row lock, in the
order in which they came.

`EventuallyNode`, `Complete` and `EventuallyTried` are promised only up to
`MaxImportRetries`: a worker counts its attempt before it tries the lock, so that
contention alone can use them up. `StopEnds` is promised only while the pool of the
run's process has a client left: each export that completes, and each BEGIN or COMMIT
that fails, takes one for good. The models keep both.

## 5. Proofs

TLAPS proves these for all constants that satisfy the modules' named assumptions, so for
any number of workers, imports, records, versions, requests, exports and faults. The
assumptions are typing, finiteness where something is counted, and that a value which
stands for "none" is none of the others.

**ImportProcessing_proofs** (`ConstantsAssumption`)

* `TypeCorrect`: `Spec => []TypeOK`.
* `OneWorker`: `Spec => []OneWorkerPerContainer`. Not inductive as it stands: two workers
  past the lock of one container can only be excluded by what the lock table says of
  each. The strengthening `LockInv` says for every busy worker that its imports are of
  its container (`Dispatch` and `ReprocessSpawn` group them so) and that it holds the
  lock once past it. Every way out of a worker (`Exit`) releases.
* `LockDiscipline`: `Spec => GraphWrittenUnderLock`. Only `MoveFromTemp` adds rows
  (`GraphChange`), only of the worker's own imports, and `LockInv` gives the lock.
* `KeysUnique`: `Spec => []UniqueKeys`, inductive with the type invariant: a move keeps
  one row per value of `rankOf` (`Deduplicated`), and the INSERT fails on a key that is
  there or twice among its own rows (`InsertFails`).
* `Implements`: `Spec => ImplementsStore`; each step of the pipeline is a step of
  GraphStore or leaves its variables alone.
* `MarksHold`: `Spec => []MarkedHasRow` for behaviours in which no `ReprocessImport` dies
  between deleting the rows of an import and clearing its marks; section 6 says why that
  crash is left out. What a worker may mark has its row while the lock is its own.
* `NoDangling`: `Spec => []NoDanglingEdge` for behaviours in which no node disappears that
  an edge may connect (`NodesStay`): the edges in the temporary table have their nodes,
  whoever copied them and however often they are moved.

**ImportUndisturbed_proofs**: the same pipeline when all imports are staged beforehand and
users leave them alone (`Undisturbed`: `Preloaded = Import`, `MaxRequests = 0`), and in the
last four theorems when nothing fails either (`Faultless`: `MaxFaults = 0` too). The run
`complete` has these constants; section 6 shows `Complete`, `TempEmptied` and
`NodesBeforeEdges` fail without them. `Base` says what follows for all: types, locks, marks, and that nothing
but the job and its workers moves.

* `NodesFirst`: `NodesBeforeEdges`, whatever crashes and fails, if imports share no key
  (`KeysWithinImport`). `PassInv` follows a worker through its node pass: what its
  listing found is in the temporary table or has its row, and what it moved has; what it
  did not list was marked, and marked records have rows. So all its nodes are there when
  its edge pass begins.
* `EdgesStand`: `NoDanglingEdge`, whatever crashes and fails: here nothing deletes a node.
* `NoRowTwice`: `NoDuplicates`, NULL keys included. `RowInv`: a record with a row is marked
  or about to be by the worker that holds the lock, and is in no temporary table, so that
  no other listing can find it again.
* `TempLeftEmpty`: `TempEmptied`, if complete keys differ (`CompleteKeysDiffer`, for both
  `keyOf` and `rankOf`). What is in
  a temporary table is some worker's who is about to move it (`TempInv`), and no move
  fails.
* `TagsAttached`, `NothingLost`: `AllTagged` and `Complete`, if each record has its own key
  and no edge leaves its container. `ContainerInv` tells what the workers of a container
  owe it: at first nothing is made and every worker has all its imports; then all its
  nodes are made, and its edges are, or a worker holds the lock to make them; and the
  tags of a pass are attached, or a worker is on its way to attach them all.

**ImportDispatch_proofs** (`DispatchAssumption`)

* `TypeCorrect`, `Counted`: `Spec => []TypeOK`, `Spec => []WorkersCounted`. `OneSlot` is
  the argument: a step changes one slot, and the counter with it exactly when the slot
  gets or loses a worker. That the first containers are as many as are popped needs
  `Keys` to be a sequence at all, which `Ascending` shows: how many containers are not
  greater than each is an injection, and so a bijection, onto their places.
* `EndsIdle`: `Spec => JobEndsIdle`. The job ends when nothing is incomplete, which
  `Counted` makes: no slot is busy.
* `AllGiven`: `Spec => NothingLeftBehind`, from `OwedOK`. While something listed at the
  start is owed, the queue is not empty, so that no handler lists again and none appends
  to it; each queued container has imports and is none that a slot began with, which is
  what the handlers delete; and each import owed is filed under a container that is
  queued. Then a handler that pops always finds a container to start, and the job's end
  is not reached.

**Transformation_proofs** (`TransformationAssumption`)

Nothing here is induction that the prover does: that the recursive functions exist, and
what all their values have in common, follows from the least number principle (`UpTo`),
once for each of them (`AtIs`, `AfterIs`, `WalkIs`, and `FlattenExists` for the library's
`FlattenSeq`). `walk` exists because a call only asks calls with a longer index
(`CallsDeeper`), of which there are finitely many lengths: a root array has finitely
many markers, and `NthMember` finds each of them.

* `TypeCorrect`: `Spec => []TypeOK`. The invariant says that every result is one of the
  items that the transformation it names can make of the record (`Produced`,
  `TransformGenerates`).
* `RequiredAreThere`: `Spec => []RequiredPresent` if no two keys of one transformation set
  the same property (`PropertiesDiffer`): a later optional key that finds nothing would
  set its constant over the value of a required one. `Covers` is the loop's invariant:
  the transformation is aborted, or each needed key so far has a value of its kind.
* `OneForEachElement`: `Spec => []OnePerElement` if markers fit (`MarkersFit`). The
  reference only knows what a key reaches in the payload; the code cuts keys at arrays
  and hands on a list of indexes. `KeyTracks` goes with `getNestedValue` from segment to
  segment: where the key fits the payload it is at the value of the reference and has
  used as many indexes as the key had markers (`NestedIsValueAt`). So conditions,
  keys and arrays are those of the reference (`ConditionAgrees`, `MappedKeysFollow`,
  `ArrayKeyReached`); the children of a level of the walk are the elements below it
  (`ChildIsLevel`, `ElementIsChild`); flattening loses, repeats and reorders nothing
  (`FlattenIsFlat`); and each call returns the items of the elements under its index,
  in their order (`WalkYields`), from the deepest level up. The state's invariant
  `Blocks` adds that the results of each applied transformation are one block of the
  list, which no later transformation moves (`MadeAfter`).
* `ValuesAreOwn`: `Spec => []OwnElement` if markers fit and no two keys set the same
  property; `Owns` is what the loop over the keys keeps (`MappedKeysFollow`).

`MarkersFit`: no field is called "[]"; a key ends with a field and has "[]" wherever the
payload has an array on its way; a root array has a field before each marker. The editor
(`src/ui/AdminWebApp/src/components/etl/TransformationDialog.vue:1612-1680` and
`flatten`) offers keys of this form, made from the arrays of a sample payload, except
that it offers arrays that are elements of arrays too. Where a payload has an
array that the sample had not, or a key was written by hand, `getNestedValue` uses up an
index at whatever array it meets, marker or not, and reads what the reference does not.

**HttpPolling_proofs** (`PollingAssumption`)

* `TypeCorrect`: `Spec => []TypeOK`, which says too that rows and locks belong to open
  transactions (`NoneLeft`); `Held` adds that a Run that works on a client has one.
* `ClientsReturn`: `Spec => []NoClientLost`, for any number of sources that share a pool,
  although the code completes a transaction twice, so that a Run can end another's or
  release its client. A client is in the pool, once, exactly when it is not out
  (`PoolKept`); one that is out has a Run that will release it, and an open
  transaction has a Run that will end it (`ClientKept`).
* `PollsAreAtomic`: `Spec => []PollIsAtomic` if there is one source (`OneSource`), on any
  number of servers; the run `mixed` shows that two break it. `ClientsInv` says
  that the client a Run holds carries what that Run wrote and nothing else; `StoredInv`
  that nothing of an answer is in the table before its commit (`NotYetStored`) and that
  no two Runs have one import (`OwnImports`).

**OntologyVersions_proofs** (`VersionsAssumption`)

* `TypeCorrect`, `KeysFit`: `Spec => []TypeOK`, `Spec => []KeysHaveTypes`. The invariant
  adds that a version without a row has no content, that an import knows its versions,
  and `CloneOf`: what a clone has copied goes to a row that is there, since it has the
  row locked, or nothing was copied; and its keys are of metatypes it has copied.
* `PublishedStays`: `Spec => PublishedNotDeleted`; only `Delete` removes a row, under the
  guard of its own statement, which is why the check that came earlier may be stale.
**CachedTransformation_proofs** (`GoneAssumption`)

* `TypeCorrect`: `Spec => []TypeOK`.
* `SavesSeen`: `Spec => []SaveIsSeen`, for any payload a mapping may be saved with. What
  has answered is in the row (`acked` loses what a write undoes), and in the cached entry
  if that was the row when it was set (`Seen`): a save that answers has just dropped the
  entry, and one set since is the row, so it has the save.
* `UpdatesKeep`: `Spec => EditsKept`. What was in the row since a save began is in every
  entry that was current when it was set, since the save dropped older ones, and so in
  the original it merges with.

**GremlinExport_proofs** (`ExportAssumption`)

* `TypeCorrect`: `Spec => []TypeOK`, with the bound of the pools: `Bounded` counts the
  runs that have a client and the clients left behind, a transaction starts when there is
  room (`StartInv`), and a loop that leaves its transaction open, like a BEGIN or COMMIT
  that fails, only changes a run that has a client into a client that is gone
  (`LosesItsClient`).
* `LeftOpenIsHarmless`: `Spec => []LeftOpenLocksNothing`; a run has rows locked exactly
  between a listing that found some and the end of that transaction.

Every safety property that a passing run checks, invariant or action property, is stated
by a theorem. Where a theorem has a hypothesis, section 6 and the run `mixed` show
what goes wrong without it, as far as TLC found it. Only model-checked is liveness under
fairness, which is out of the prover's reach:
`RunsEnd`, `GenerationEnds`, `StopEnds`, `JobsEnd`, `EventuallyTried`
and ImportProcessing's.

## 6. What the code does against its own words

Two disagreements have a run (see "findings" of `PROJECT.json`): `mixed`, that a poll's
saves share one transaction, and `snapshot`, that a clone's transaction keeps its data
from changing. The following ones were found by TLC too; each is seen again by checking
the property named, alone, with the configuration named and the changes given.

| property | configuration | the code | its words |
|---|---|---|---|
| `Complete` | `ImportProcessing_faults.cfg`, own keys, `Preloaded = {i1, i2}` | a worker that dies after `MarkNodesProcessed` and before the edge pass leaves an import that is never listed again (`import_mapper.ts:399-403`) | `import_mapper.ts:113-115`: "checking for inserted records is a far better method when attempting to gauge if an import still needs processed" |
| `TempEmptied` | `ImportProcessing_faults.cfg`, own keys but `keyOf <- RepeatedInImport` and `rankOf <- RepeatedInImport`, `Preloaded = {i1, i2}`, `Worker = {w1}`, `MaxImportRetries = 3`, `MaxFaults = 0` | of two records with one unique identifier and `created_at` (a `created_at_key` gives it) the second is kept for the next run, which violates `node_unique_constraint_nodes`; the move rolls back, its deletion too, and every retry fails alike | `node_mapper.ts:110`: "Since we don't want to leave anything hanging we wrap this in a transaction" |
| `NodesBeforeEdges` | `ImportProcessing_faults.cfg`, own keys, `endpoints <- EdgeToR1`, `Preloaded = {}`, `Worker = {w1}`, `MaxFaults = 0` | a worker lists the records once for each pass, while an upload goes on or, started by `ReceiveData` itself, before its last `bulkSave` is done (`standard_data_source_impl.ts:147-151`): records appear between the two listings | `process_worker.ts:295-297`: "this allows us to at least ensure some kind of order in dealing with building edges" |
| `ReceivedIsStaged` | `ImportProcessing_faults.cfg`, own keys, `Preloaded = {i2}`, `Worker = {w1}` | the result of the save of a full buffer is not looked at (`standard_data_source_impl.ts:129`) | `standard_data_source_impl.ts:219`: "if any of the save operations have an error, fail and rollback the transaction etc" |
| `CompletedIsProcessed` | `ImportProcessing_faults.cfg`, own keys, `Preloaded = {i1, i2}`, `MaxFaults = 0`, `MaxRequests = 2` | the exit handler sets 'completed' whatever the worker did, refused the lock included | `import_mapper.ts:167`: "reprocessing completed" |
| `NoToesSteppedOn` | `ImportDispatch_dispatch.cfg` | the listing at a worker's exit excludes the containers not yet started, not those being processed (`import_process.ts:89`) | `import_process.ts:82-83`: "while not stepping on the toes of any other container being processed elsewhere" |
| `ErrorsAreKept` | `Transformation_transform.cfg` | an element of a root array whose required key does not convert is dropped with a line in the log (`type_transformation.ts:460`) | `process.ts:98-99`: conversion errors "will be contained in the metadata object on the transformed object" |

| `SourcesDoNotWait` | `HttpPolling_pool.cfg`, `MaxFaults = 0` | each Run holds the client of its transaction and waits in `CreateImport` (`standard_data_source_impl.ts:57`) for another: as many Runs as clients (`postgres.ts:24`: 10 by default, for up to 500 Runs) wait for ever | `data_source_process.ts:44-45`: "we don't want to make one data source wait on anther's execution" |
| `MappingsReviewed` | `OntologyVersions_versions.cfg`, `MaxVersions = 1`, `MaxRequests = 2`, `MaxFaults = 1` | when the statement that disables the mappings fails, publishing logs it, creates the alert and succeeds (`ontology_version_repository.ts:83`) | the alert (`:92`): "all Type Mappings for all Data Sources have been temporarily disabled pending user review" |
| `ErrorsReported` | `OntologyVersions_versions.cfg`, `MaxRequests = 0`, `MaxFaults = 1` | a clone whose COMMIT fails stays 'generating': the error is returned to nobody (`ontology_version_repository.ts:131`) | `:113-114`: "the function itself has methods for updating the ontology in case of errors" |
| `ArchiveIsSeen` | `CachedTransformation_cache.cfg`, `Req = {r1, r2}` | archive drops the entry before it writes the row, and not after: a read in between caches a transformation that is not archived | `type_transformation_repository.ts:80`: "we must delete the cached versions so as to get the archived field updated" |

("Own keys" is `keyOf <- OwnKeys`, `rankOf <- OwnKeys`, `produces <- NodesAndOneEdge` and
`endpoints <- EdgeOfR2`.) `Complete`, `TempEmptied` and `NodesBeforeEdges` are checked by
the run `complete`, without what breaks them; the others by no run.

Met on the way, in the models as the code has it:

* `data_processing/process.ts:85` says that after an error no more transformations of
  a record are run; the loop continues, and `setErrors` of a later failure replaces
  the earlier one (`Apply`).
* The error action 'fail' only leaves its `switch`: the key is mapped as if nothing had
  happened, and a node is made (`ErrorAction`).
* A condition whose root value is 0 or false is rejected before its operator or its
  subexpressions are tried (`type_transformation.ts:811`); the reference of
  `OnePerElement` takes falsy values in the same way and would not notice.
* A node whose unique identifier is missing is given the original id "undefined".
* `import_mapper.ts:164`: the statement for a worker's 'error' event is built, never run.
* `import_mapper.ts:146-149`: a server that dies between deleting an import's rows and
  clearing its marks leaves marked records without rows; `MarkedHasRow` is checked
  without that crash.
* `data_source_repository.ts` reprocesses "from oldest to newest" but starts all
  workers at once, of which one gets the lock.
* `http_data_source_impl.ts:134` has its comparison the wrong way round: a source is
  polled while its interval runs and left alone when it is over. On this way out the
  status stays 'polling', and after a poll that succeeded it does too, because the
  second `release()` throws.
* `mapper.ts:49-54`: COMMIT of a transaction in which a statement failed is a ROLLBACK
  and reported as success; a COMMIT or BEGIN that fails keeps the client.
* A new ontology version is 'ready' until its clone marks it 'generating'. In between it
  is the newest usable one, though empty (`middleware.ts:168-199`), and what is
  published or approved in that window is overwritten. Publishing asks for no approval.
* `cloneOntology` does not look at the result of `startTransaction` nor at that of either
  status it sets (`MarkGenerating`, `CloneError`); `rollbackTransaction` has no catch
  (`mapper.ts:60-66`), so that a ROLLBACK on a broken connection ends the server.
* `ontology_version_mapper.ts`: `fullUpdateStatement` has a trailing comma and always fails.
* `importOntology` deprecates the old version also when the new one was deleted meanwhile:
  the container is left without a usable version. Neither statement is awaited. Where the
  ontology is not versioned it publishes the new version without disabling any mapping.
* Delete and the save of a mapping drop the cached entry before the write only, like
  archive; a read in between caches what was, for 300 s. A save of a mapping may bring
  back an edit that a reader has just cached the row without: its own drop came earlier.
* `type_mapping_repository.ts`: the save of a mapping whose original is not found keeps
  its client. `main.ts:108` listens for 'flush', `cache.ts` emits 'flushed'.
* `gremlin_export_impl.ts:242` and `:306` skip every row, so that a run over a snapshot
  with rows ends only when the status is changed; `:238` and `:301` leave the loops with
  their transaction open. A run that completes an export which was deleted meanwhile
  ends its process (`export_mapper.ts:84`). Restarting a 'created' export completes it with nothing done;
  the job's restart overwrites a stop; a second export of a container fails on the
  primary key of the snapshot tables.

## 7. What is not modelled, and the limits of what is

* Of the pipeline: file rows (`data_staging_files`), error texts, `BackfillIDs`,
  contents of rows. A record yields at most one row per pass. A worker reads mappings
  once per copy step. `staging_clean`, `DeleteImport` and the rest are one step each.
  Deletion follows the foreign keys: staging rows go with the import (migration 026),
  nodes and edges stay and lose their import.
* Of the dispatcher: what a worker does inside; a listing that fails finds nothing;
  `Kill` stands for Bree's hour, an uncaught worker error and the death of a server.
* Of transformations: operators "in" and "contains", conversion of dates,
  `created_at_key`, edge parameters and tags. Texts are numerals or words.
  Keys that reach through an array are walked as the code does, including keys
  outside the root array.
* `complete` promises emptied temp tables and complete data only when imports are
  staged and nothing interferes; section 6 shows why. The runs of the
  pipeline have one container; its theorems hold for any number.
* Of the pollers: the worker that `ReceiveData` starts (ImportProcessing), the user and
  authentication lookups other than as users of the pool, the other kinds of sources.
* Of versions: relationships, pairs and inheritance, which are cloned like keys; the
  upgrade of mappings after an import; a second import at the same time.
* Of the cache: an entry set after the row had changed is excepted in both properties of
  saves (the code does not prevent it); `flush`, keys other than the transformation's own, the memory caches of
  several threads, which no message keeps alike.
* Of exports: the Gremlin client and `SetGremlinNodeID`, which are never reached; `Reset`
  and the HTTP target's `Run`, which nothing calls.
* Not modelled at all: the components with status `not_modelled`, each with its reason.
  Most of the repository's lines are of this kind: the Vue front end, the generated part
  of GraphQL, the text of SQL statements, entities with their validation, the Rust
  libraries that hash shapes and query data frames, and routes that hand a request to
  one statement. They keep no state between two steps that a model could tell apart.

## 8. Plan

Done: ImportProcessing with GraphStore, ImportDispatch, Transformation with its
reference, HttpPolling, OntologyVersions, CachedTransformation, GremlinExport, and the
proofs of section 5.

Next, in this order:

1. **ShapeHash**: shapes as bags of path and type, against the reference of equal paths;
   `upgradeMappings` over them.
2. **Files**: uploads and deletions of `file_repository.ts`, a blob and its row.
3. A composition of ImportDispatch and ImportProcessing: the dispatcher's abstract
   `Dispatch` implemented by the slots of a job.
