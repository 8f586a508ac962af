--------------------------- MODULE ImportDispatch ---------------------------
(***************************************************************************)
(* The job import_process (src/server/src/jobs/import_process.ts): Bree    *)
(* starts it every minute on every server; it lists the imports that still *)
(* have uninserted records, groups them by container, and keeps at most    *)
(* MaxWorkers worker threads busy, one container each.  When a worker      *)
(* exits, exitFunc lists again and starts the next container.  What a      *)
(* worker does inside is ImportProcessing's business: here it counts an    *)
(* attempt, tries the container's advisory lock, and processes its imports *)
(* or fails.                                                               *)
(***************************************************************************)
EXTENDS Integers, Sequences, FiniteSets

CONSTANTS Job,               \* the servers that run the job
          MaxWorkers,        \* os.availableParallelism()
          Container,         \* container ids: numbers, as Object.keys sorts them
          Import,
          Late,              \* bound: the imports that arrive later on
          containerOf,       \* the container of each import
          MaxImportRetries,  \* Config.max_import_retries
          MaxKills           \* bound: how often a job thread is killed

ASSUME DispatchAssumption ==
    /\ MaxWorkers \in Nat \ {0}
    /\ Container \subseteq Nat
    /\ IsFiniteSet(Container)
    /\ Late \subseteq Import
    /\ containerOf \in [Import -> Container]
    /\ MaxImportRetries \in Nat \ {0}
    /\ MaxKills \in Nat

VARIABLES pending,       \* the imports with uninserted records
          attempts,      \* imports.attempts, counted up to MaxImportRetries
          lock,          \* the containers whose advisory lock is held
          running,       \* running[j]: the job thread of j exists
          importMap,     \* containerImportMap of each job; {} is a missing key
          containerIDs,  \* containerIDs of each job
          incomplete,    \* incompleteContainerIDs.length of each job
          workers,       \* workers[j][s]: slot s of job j
          kills,
          owed           \* history: imports listed at the start, not yet given to a worker

vars == <<pending, attempts, lock, running, importMap, containerIDs, incomplete,
          workers, kills, owed>>

Slot == 1..MaxWorkers

\* A slot: what its worker, or the exit handler of its last worker, is at.
\* "orig" is the container the slot began with, the one exitFunc closes over.
SlotState == {"unused", "spawned", "counted", "working", "exited", "listing", "listed"}

Unused == [state |-> "unused", orig |-> 0, container |-> 0, imports |-> {}, found |-> {}]

\* The slots of a job that have a worker thread.
Busy(j) == {s \in Slot : workers[j][s].state \in {"spawned", "counted", "working", "exited"}}

NoImports == [c \in Container |-> {}]

Init ==
    /\ pending = Import \ Late
    /\ attempts = [i \in Import |-> 0]
    /\ lock = {}
    /\ running = [j \in Job |-> FALSE]
    /\ importMap = [j \in Job |-> NoImports]
    /\ containerIDs = [j \in Job |-> <<>>]
    /\ incomplete = [j \in Job |-> 0]
    /\ workers = [j \in Job |-> [s \in Slot |-> Unused]]
    /\ kills = 0
    /\ owed = [j \in Job |-> {}]

-----------------------------------------------------------------------------
(* Listing and grouping *)

\* Mutant: the last attempt is not listed.
UninsertedOneLess == {i \in pending : attempts[i] + 1 < MaxImportRetries}

\* ListWithUninsertedData without excluded containers.
Uninserted == {i \in pending : attempts[i] < MaxImportRetries}

\* Mutant: every key of the map gets all that was listed.
GroupedUnfiltered(map, found) == [c \in Container |-> IF map[c] # {} \/ c \in {containerOf[i] : i \in found}
                                                      THEN map[c] \cup found ELSE {}]

\* containerImportMap after the listed imports are pushed on it.
Grouped(map, found) == [c \in Container |-> map[c] \cup {i \in found : containerOf[i] = c}]

\* Object.keys(containerImportMap): integer-like keys come in ascending order.
Keys(map) ==
    LET present == {c \in Container : map[c] # {}}
    IN  CHOOSE q \in [1..Cardinality(present) -> present] :
            \A a, b \in DOMAIN q : a < b => q[a] < q[b]

\* Mutant: one container too many leaves the queue.
PoppedOneMore(q, k) == SubSeq(q, 1, Len(q) - k - 1)

\* containerIDs after its first k pops.
Popped(q, k) == SubSeq(q, 1, Len(q) - k)

Lesser(a, b) == IF a < b THEN a ELSE b

Started(c, orig, imports) ==
    [state |-> "spawned", orig |-> orig, container |-> c, imports |-> imports, found |-> {}]

\* Bree starts the job; with nothing listed it is done at once.
Start(j) ==
    LET map == Grouped(NoImports, Uninserted)
        keys == Keys(map)
        n == Len(keys)
        k == Lesser(n, MaxWorkers)
        first(s) == keys[n + 1 - s]  \* pop takes the last
    IN  /\ ~running[j]
        /\ n > 0
        /\ running' = [running EXCEPT ![j] = TRUE]
        /\ importMap' = [importMap EXCEPT ![j] = map]
        /\ containerIDs' = [containerIDs EXCEPT ![j] = Popped(keys, k)]
        /\ incomplete' = [incomplete EXCEPT ![j] = k]
        /\ workers' = [workers EXCEPT ![j] = [s \in Slot |->
               IF s <= k THEN Started(first(s), first(s), map[first(s)]) ELSE Unused]]
        /\ owed' = [owed EXCEPT ![j] = {i \in Uninserted : \A s \in 1..k : containerOf[i] # first(s)}]
        /\ UNCHANGED <<pending, attempts, lock, kills>>

-----------------------------------------------------------------------------
(* A worker thread *)

\* Slot s of job j, at "from", moves to "to".
Step(j, s, from, to) ==
    /\ workers[j][s].state = from
    /\ workers' = [workers EXCEPT ![j][s].state = to]

IncrementAttempts(j, s) ==
    /\ Step(j, s, "spawned", "counted")
    /\ attempts' = [i \in Import |-> IF i \in workers[j][s].imports
                                     THEN Lesser(attempts[i] + 1, MaxImportRetries)
                                     ELSE attempts[i]]
    /\ UNCHANGED <<pending, lock, running, importMap, containerIDs, incomplete, kills, owed>>

LockContainer(j, s) ==
    /\ workers[j][s].container \notin lock
    /\ Step(j, s, "counted", "working")
    /\ lock' = lock \cup {workers[j][s].container}
    /\ UNCHANGED <<pending, attempts, running, importMap, containerIDs, incomplete, kills, owed>>

LockRefused(j, s) ==
    /\ workers[j][s].container \in lock
    /\ Step(j, s, "counted", "exited")
    /\ UNCHANGED <<pending, attempts, lock, running, importMap, containerIDs, incomplete, kills, owed>>

\* The worker marks the records of its imports, or one of its steps fails.
Work(j, s) ==
    /\ Step(j, s, "working", "exited")
    /\ \E done \in {{}, workers[j][s].imports} : pending' = pending \ done
    /\ lock' = lock \ {workers[j][s].container}
    /\ UNCHANGED <<attempts, running, importMap, containerIDs, incomplete, kills, owed>>

-----------------------------------------------------------------------------
(* exitFunc *)

\* Mutant: the container stays incomplete.
ExitFuncCountsNot(j, s) ==
    /\ Step(j, s, "exited", IF containerIDs[j] = <<>> THEN "listing" ELSE "listed")
    /\ importMap' = [importMap EXCEPT ![j][workers[j][s].orig] = {}]
    /\ UNCHANGED <<pending, attempts, lock, running, containerIDs, incomplete, kills, owed>>

\* Up to the listing.  With containers left in the queue the statement has an
\* exclusion list, for which format() is given one argument for two
\* placeholders: it throws, and the handler goes on with nothing found.
ExitFunc(j, s) ==
    /\ Step(j, s, "exited", IF containerIDs[j] = <<>> THEN "listing" ELSE "listed")
    /\ importMap' = [importMap EXCEPT ![j][workers[j][s].orig] = {}]
    /\ incomplete' = [incomplete EXCEPT ![j] = @ - 1]
    /\ UNCHANGED <<pending, attempts, lock, running, containerIDs, kills, owed>>

\* The listing answers, or fails and finds nothing.
ListMore(j, s) ==
    /\ workers[j][s].state = "listing"
    /\ \E found \in {Uninserted, {}} :
          workers' = [workers EXCEPT ![j][s].state = "listed", ![j][s].found = found]
    /\ UNCHANGED <<pending, attempts, lock, running, importMap, containerIDs, incomplete, kills, owed>>

\* Mutant: the last worker still runs.
AtMostOneIncomplete(n) == n <= 1

\* The job may end.
NoneIncomplete(n) == n = 0

\* .finally of slot s, when it starts a worker for the container it pops.
StartNext(j, s, map, next) ==
    /\ incomplete' = [incomplete EXCEPT ![j] = @ + 1]
    /\ workers' = [workers EXCEPT ![j][s] = Started(next, workers[j][s].orig, map[next])]
    /\ owed' = [owed EXCEPT ![j] = @ \ map[next]]
    /\ UNCHANGED <<pending, attempts, lock, running, kills>>

\* .finally of slot s, when the slot is left without a worker.
LeaveSlot(j, s) ==
    /\ ~NoneIncomplete(incomplete[j])
    /\ workers' = [workers EXCEPT ![j][s] = Unused]
    /\ UNCHANGED <<pending, attempts, lock, running, incomplete, kills, owed>>

\* The job thread ends and its workers with it; their connections drop the locks.
ThreadEnds(j) ==
    /\ running' = [running EXCEPT ![j] = FALSE]
    /\ lock' = lock \ {workers[j][s].container : s \in {t \in Slot : workers[j][t].state = "working"}}
    /\ importMap' = [importMap EXCEPT ![j] = NoImports]
    /\ containerIDs' = [containerIDs EXCEPT ![j] = <<>>]
    /\ incomplete' = [incomplete EXCEPT ![j] = 0]
    /\ workers' = [workers EXCEPT ![j] = [s \in Slot |-> Unused]]
    /\ owed' = [owed EXCEPT ![j] = {}]
    /\ UNCHANGED <<pending, attempts>>

\* .then merges what was listed, .finally pops the next container; when no
\* container is incomplete the job is over, process.exit(0).
Resume(j, s) ==
    LET found == workers[j][s].found
        map == Grouped(importMap[j], found)
        queue == containerIDs[j] \o (IF found = {} THEN <<>> ELSE Keys(map))
        hasNext == queue # <<>> /\ map[queue[Len(queue)]] # {}
    IN  /\ workers[j][s].state = "listed"
        /\ \/ /\ IF hasNext THEN StartNext(j, s, map, queue[Len(queue)]) ELSE LeaveSlot(j, s)
              /\ importMap' = [importMap EXCEPT ![j] = map]
              /\ containerIDs' = [containerIDs EXCEPT ![j] = Popped(queue, Lesser(Len(queue), 1))]
           \/ /\ ~hasNext
              /\ NoneIncomplete(incomplete[j])
              /\ ThreadEnds(j)
              /\ UNCHANGED kills

\* Bree kills the job thread after an hour (closeWorkerAfterMs), a worker's
\* uncaught exception ends it (its 'error' event has no listener), or the
\* server dies.
Kill(j) ==
    /\ running[j]
    /\ kills < MaxKills
    /\ kills' = kills + 1
    /\ ThreadEnds(j)

\* The records of a new import are saved.
Arrive(i) ==
    /\ i \in Late
    /\ i \notin pending
    /\ attempts[i] = 0
    /\ pending' = pending \cup {i}
    /\ UNCHANGED <<attempts, lock, running, importMap, containerIDs, incomplete, workers, kills, owed>>

-----------------------------------------------------------------------------
SlotStep(j, s) ==
    \/ IncrementAttempts(j, s)
    \/ LockContainer(j, s)
    \/ LockRefused(j, s)
    \/ Work(j, s)
    \/ ExitFunc(j, s)
    \/ ListMore(j, s)
    \/ Resume(j, s)

Next ==
    \/ \E j \in Job : Start(j) \/ Kill(j) \/ \E s \in Slot : SlotStep(j, s)
    \/ \E i \in Import : Arrive(i)

\* Bree starts the job again every minute; a worker makes progress or fails.
Fairness ==
    /\ \A j \in Job : WF_vars(Start(j))
    /\ \A j \in Job, s \in Slot : WF_vars(SlotStep(j, s))

Spec == Init /\ [][Next]_vars /\ Fairness

-----------------------------------------------------------------------------
(* Properties *)

\* The state has its type; an import is filed under its own container, and so
\* is a worker only given imports of the container it locks.
TypeOK ==
    /\ pending \subseteq Import
    /\ attempts \in [Import -> 0..MaxImportRetries]
    /\ lock \subseteq Container
    /\ running \in [Job -> BOOLEAN]
    /\ kills \in 0..MaxKills
    /\ \A j \in Job :
          /\ \A c \in Container : importMap[j][c] \subseteq {i \in Import : containerOf[i] = c}
          /\ containerIDs[j] \in Seq(Container)
          /\ incomplete[j] \in 0..MaxWorkers
          /\ owed[j] \subseteq Import
          /\ \A s \in Slot :
                /\ workers[j][s].state \in SlotState
                /\ workers[j][s].found \subseteq Import
                /\ \A i \in workers[j][s].imports : containerOf[i] = workers[j][s].container

\* incompleteContainerIDs is as long as there are workers, although exitFunc
\* pops whatever id is last: "we don't care about the ids" (line 86).
WorkersCounted == \A j \in Job : incomplete[j] = Cardinality(Busy(j))

\* A job that ends by itself ends no worker in the middle of its container:
\* process.exit(0) of line 127 comes when no worker thread is left.
JobEndsIdle ==
    [][\A j \in Job : running[j] /\ ~running'[j] /\ kills' = kills => Busy(j) = {}]_vars

\* A job that ends by itself has given every import it listed at its start to
\* a worker, whatever the order in which workers exited and lists came back.
NothingLeftBehind ==
    [][\A j \in Job : running[j] /\ ~running'[j] /\ kills' = kills => owed[j] = {}]_vars

\* "not stepping on the toes of any other container being processed elsewhere"
\* (lines 82-83): one job never has two workers for one container.  It is
\* violated: README, section 6.
NoToesSteppedOn ==
    \A j \in Job : \A s, t \in Busy(j) :
        s # t => workers[j][s].container # workers[j][t].container

\* The recursion of exitFunc ends: no job keeps starting workers forever.
JobsEnd == \A j \in Job : running[j] ~> ~running[j]

\* An import is processed in the end, or all its attempts are used up.
EventuallyTried ==
    \A i \in Import : i \in pending ~> (i \notin pending \/ attempts[i] = MaxImportRetries)
=============================================================================
