---------------------------- MODULE GremlinExport ----------------------------
(***************************************************************************)
(* The exports of a container to a Gremlin database (export_routes.ts,     *)
(* export_repository.ts, gremlin_export_impl.ts, jobs/export.ts): each has *)
(* a snapshot of the container's nodes and edges, which runs of export()   *)
(* walk in batches.  Runs are started in the server by requests and in the *)
(* thread of the export job, for one export as often as it happens; each   *)
(* process has a pool of database clients.                                 *)
(***************************************************************************)
EXTENDS Integers, FiniteSets

CONSTANTS Export,      \* bound: the exports of the container
          Run,         \* bound: the runs of export()
          PoolSize,    \* clients of a process
          MaxRequests, \* bound: requests to stop or to delete
          MaxFaults    \* bound: statements that fail

ASSUME ExportAssumption ==
    /\ PoolSize \in Nat \ {0} /\ MaxRequests \in Nat /\ MaxFaults \in Nat
    /\ IsFiniteSet(Run)

Part == {"nodes", "edges"}

Process == {"server", "job"}

VARIABLES
    status,     \* exports.status; "none" is no row yet, "deleted" no row any more
    snapshot,   \* of each export: the gremlin_export_ tables that have rows of it
    run,        \* the runs of export()
    leaked,     \* of each process: the clients of transactions nobody ends
    listed,     \* the exports the job has listed and not restarted
    deleting,   \* the exports that are stopped to be deleted
    requests, faults

vars == <<status, snapshot, run, leaked, listed, deleting, requests, faults>>

\* awaited: somebody awaits export(); client: the run has a client; held: the
\* parts of the snapshot its transactions lock rows of, those left open included
NoRun == [pc |-> "none", of |-> "none", in |-> "server", awaited |-> TRUE, phase |-> "nodes",
          client |-> FALSE, held |-> {}]

Init ==
    /\ status = [e \in Export |-> "none"]
    /\ snapshot = [e \in Export |-> {}]
    /\ run = [n \in Run |-> NoRun]
    /\ leaked = [p \in Process |-> 0]
    /\ listed = {}
    /\ deleting = {}
    /\ requests = 0
    /\ faults = 0

-----------------------------------------------------------------------------
Exists(e) == status[e] \notin {"none", "deleted"}

Active(n) == run[n].pc \notin {"none", "done"}

Goto(n, pc) == run' = [run EXCEPT ![n].pc = pc]

Clients(p) == leaked[p] + Cardinality({n \in Run : run[n].in = p /\ run[n].client})

\* Mutant: the pool has always another client.
Unlimited(p) == TRUE

\* Pool.connect and Pool.query wait for a client.
ClientFree(p) == Clients(p) < PoolSize

Locked(e, part) == \E n \in Run : run[n].of = e /\ part \in run[n].held

\* UPDATE exports SET status
SetStatus(e, new) == status' = [status EXCEPT ![e] = IF Exists(e) THEN new ELSE @]

Fault ==
    /\ faults < MaxFaults
    /\ faults' = faults + 1

\* The same of a run, which does not look at what the statement returns.
TrySetStatus(e, new) ==
    \/ SetStatus(e, new) /\ UNCHANGED faults
    \/ Fault /\ UNCHANGED status

\* A client of p's pool is never given back.
LoseClient(p) == leaked' = [leaked EXCEPT ![p] = @ + 1]

\* The processes ps end: so do their runs, pools, transactions and deletions.
End(ps) ==
    /\ run' = [n \in Run |->
                  IF run[n].in \notin ps \/ run[n].pc = "none" THEN run[n]
                  ELSE [run[n] EXCEPT !.pc = "done", !.client = FALSE, !.held = {}]]
    /\ leaked' = [p \in Process |-> IF p \in ps THEN 0 ELSE leaked[p]]
    /\ listed' = IF "job" \in ps THEN {} ELSE listed
    /\ deleting' = IF "server" \in ps THEN {} ELSE deleting

-----------------------------------------------------------------------------
(* Starting a run *)

\* POST: the export is saved,
Create(n, e) ==
    /\ run[n].pc = "none"
    /\ status[e] = "none"
    /\ status' = [status EXCEPT ![e] = "created"]
    /\ run' = [run EXCEPT ![n].pc = "initiate", ![n].of = e, ![n].awaited = FALSE]
    /\ UNCHANGED <<snapshot, leaked, listed, deleting, requests, faults>>

\* and the nodes and edges the container has are copied, which fails when one of
\* them is in the snapshot of another export: the id is the primary key.
InitiateExport(n) ==
    LET e == run[n].of
    IN  /\ run[n].pc = "initiate"
        /\ ClientFree("server")
        /\ \/ /\ Exists(e)
              /\ \E parts \in {{}, {"nodes"}, Part} : snapshot' = [snapshot EXCEPT ![e] = parts]
              /\ Goto(n, "mark")
           \/ /\ ~Exists(e) \/ \E other \in Export \ {e} : snapshot[other] # {}
              /\ Goto(n, "done")
              /\ UNCHANGED snapshot
        /\ UNCHANGED <<status, leaked, listed, deleting, requests, faults>>

\* A request restarts any export there is.
Restart(n, e) ==
    /\ run[n].pc = "none"
    /\ Exists(e)
    /\ run' = [run EXCEPT ![n].pc = "mark", ![n].of = e]
    /\ UNCHANGED <<status, snapshot, leaked, listed, deleting, requests, faults>>

JobDone == listed = {} /\ \A n \in Run : run[n].in = "job" => ~Active(n)

\* The job lists what is being processed, by whomever, and restarts each.
JobList ==
    /\ JobDone
    /\ listed' = {e \in Export : status[e] = "processing"}
    /\ leaked' = [leaked EXCEPT !["job"] = 0]
    /\ UNCHANGED <<status, snapshot, run, deleting, requests, faults>>

JobRestart(n, e) ==
    /\ e \in listed
    /\ run[n].pc = "none"
    /\ listed' = listed \ {e}
    /\ run' = [run EXCEPT ![n].pc = "mark", ![n].of = e, ![n].in = "job"]
    /\ UNCHANGED <<status, snapshot, leaked, deleting, requests, faults>>

\* Initiate and Restart set 'processing', whatever the status has become.
Mark(n) ==
    /\ run[n].pc = "mark"
    /\ ClientFree(run[n].in)
    /\ TrySetStatus(run[n].of, "processing")
    /\ Goto(n, "check")
    /\ UNCHANGED <<snapshot, leaked, listed, deleting, requests>>

-----------------------------------------------------------------------------
(* export() *)

\* Mutant: the status is looked at before the nodes only.
GoesOnAtEdges(n) == status[run[n].of] = "processing" \/ run[n].phase = "edges"

GoesOn(n) == status[run[n].of] = "processing"

Check(n) ==
    /\ run[n].pc = "check"
    /\ ClientFree(run[n].in)
    /\ \/ Goto(n, IF GoesOn(n) THEN "start" ELSE "done") /\ UNCHANGED faults
       \/ Goto(n, "done") /\ Fault
    /\ UNCHANGED <<status, snapshot, leaked, listed, deleting, requests>>

\* When BEGIN fails the client is not given back.
StartTransaction(n) ==
    /\ run[n].pc = "start"
    /\ ClientFree(run[n].in)
    /\ \/ run' = [run EXCEPT ![n].pc = "list", ![n].client = TRUE] /\ UNCHANGED <<leaked, faults>>
       \/ Goto(n, "done") /\ LoseClient(run[n].in) /\ Fault
    /\ UNCHANGED <<status, snapshot, listed, deleting, requests>>

\* Mutant: the last batch is the last there is.
OneBatch(n) == TRUE

\* No row without a Gremlin id is left in this phase.
NothingLeft(n) == run[n].phase \notin snapshot[run[n].of]

\* SELECT ... FOR UPDATE: the rows are locked; without rows the loop is left, and
\* its transaction with it.
List(n) ==
    LET r == run[n]
        found == {r.phase} \cap snapshot[r.of]
    IN  /\ r.pc = "list"
        /\ ~Locked(r.of, r.phase)
        /\ \/ /\ ~NothingLeft(n)
              /\ run' = [run EXCEPT ![n].pc = "batch", ![n].held = @ \cup found]
              /\ UNCHANGED leaked
           \/ /\ NothingLeft(n)
              /\ run' = [run EXCEPT ![n].pc = IF r.phase = "nodes" THEN "check" ELSE "complete",
                                    ![n].phase = "edges", ![n].client = FALSE,
                                    ![n].held = @ \cup found]
              /\ LoseClient(r.in)
        /\ UNCHANGED <<status, snapshot, listed, deleting, requests, faults>>

\* The statement fails: the transaction is completed and the run ends.  Its
\* client is kept when COMMIT fails too, which is not looked at.
ListFails(n) ==
    /\ run[n].pc = "list"
    /\ Fault
    /\ run' = [run EXCEPT ![n].pc = "done", ![n].client = FALSE]
    /\ UNCHANGED leaked \/ LoseClient(run[n].in)
    /\ UNCHANGED <<status, snapshot, listed, deleting, requests>>

\* The test whether a row has its Gremlin id is true of every value of it, so
\* that each row is skipped; then COMMIT, which may fail likewise.
Batch(n) ==
    /\ run[n].pc = "batch"
    /\ run' = [run EXCEPT ![n].pc = "check", ![n].client = FALSE,
                          ![n].held = @ \ {run[n].phase}]
    /\ \/ UNCHANGED <<leaked, faults>>
       \/ LoseClient(run[n].in) /\ Fault
    /\ UNCHANGED <<status, snapshot, listed, deleting, requests>>

\* SetStatus reads the export for its event.
Complete(n) ==
    /\ run[n].pc = "complete"
    /\ ClientFree(run[n].in)
    /\ Exists(run[n].of)
    /\ TrySetStatus(run[n].of, "completed")
    /\ Goto(n, "clean")
    /\ UNCHANGED <<snapshot, leaked, listed, deleting, requests>>

\* Without an answer it throws.  A request that restarts answers with the error;
\* the job ends; a run that was initiated is awaited by nobody, and the server
\* ends with it, the job's thread included.
CompleteThrows(n) ==
    /\ run[n].pc = "complete"
    /\ ClientFree(run[n].in)
    /\ \/ ~Exists(run[n].of) /\ UNCHANGED faults
       \/ Fault
    /\ \/ /\ run[n].in = "server" /\ run[n].awaited
          /\ Goto(n, "done")
          /\ UNCHANGED <<leaked, listed, deleting>>
       \/ run[n].in = "job" /\ End({"job"})
       \/ ~run[n].awaited /\ End(Process)
    /\ UNCHANGED <<status, snapshot, requests>>

\* DeleteForExport
Clean(n) ==
    /\ run[n].pc = "clean"
    /\ ClientFree(run[n].in)
    /\ \A part \in Part : ~Locked(run[n].of, part)
    /\ \/ snapshot' = [snapshot EXCEPT ![run[n].of] = {}] /\ UNCHANGED faults
       \/ Fault /\ UNCHANGED snapshot
    /\ Goto(n, "done")
    /\ UNCHANGED <<status, leaked, listed, deleting, requests>>

-----------------------------------------------------------------------------
(* Stopping and deleting *)

\* To delete an export it is stopped first.
Stop(e) ==
    /\ Exists(e)
    /\ ClientFree("server")
    /\ requests < MaxRequests
    /\ requests' = requests + 1
    /\ SetStatus(e, "paused")
    /\ deleting' \in {deleting, deleting \cup {e}}
    /\ UNCHANGED <<snapshot, run, leaked, listed, faults>>

\* The rows of the snapshot go with their export, and have to be unlocked.
Delete(e) ==
    /\ e \in deleting
    /\ ClientFree("server")
    /\ \A part \in Part : ~Locked(e, part)
    /\ deleting' = deleting \ {e}
    /\ status' = [status EXCEPT ![e] = "deleted"]
    /\ snapshot' = [snapshot EXCEPT ![e] = {}]
    /\ UNCHANGED <<run, leaked, listed, requests, faults>>

-----------------------------------------------------------------------------
RunStep(n) ==
    \/ InitiateExport(n) \/ Mark(n) \/ Check(n) \/ StartTransaction(n)
    \/ List(n) \/ ListFails(n) \/ Batch(n)
    \/ Complete(n) \/ CompleteThrows(n) \/ Clean(n)

Next ==
    \/ \E n \in Run : RunStep(n) \/ \E e \in Export : Create(n, e) \/ Restart(n, e) \/ JobRestart(n, e)
    \/ JobList
    \/ \E e \in Export : Stop(e) \/ Delete(e)

\* A run goes on.  The pool gives a client that is released to the one that waits
\* longest, and the database a row lock likewise, so that a run whose step is
\* possible again and again takes it.
Spec == Init /\ [][Next]_vars /\ \A n \in Run : SF_vars(RunStep(n))

-----------------------------------------------------------------------------
(* Properties *)

\* The state has its type, and no process uses more clients than its pool has.
TypeOK ==
    /\ status \in [Export -> {"none", "created", "processing", "paused", "completed", "deleted"}]
    /\ snapshot \in [Export -> SUBSET Part]
    /\ \A n \in Run : Active(n) => run[n].of \in Export /\ run[n].held \subseteq Part
    /\ \A p \in Process : Clients(p) <= PoolSize

\* The transaction that both loops leave open (lines 238 and 301) locks no row: a
\* run that has ended, or has no client, keeps no other run or deletion waiting.
LeftOpenLocksNothing ==
    \A n \in Run : run[n].held # {} => Active(n) /\ run[n].client

\* "Verify that the process hasn't stopped, then continue" (lines 207, 270): once
\* an export is not being processed, each run of it ends, unless it is restarted
\* or no client is left in the pool the run waits at.
StopEnds ==
    \A n \in Run : \A e \in Export :
        (run[n].pc \in {"check", "start", "list", "batch"} /\ run[n].of = e /\ status[e] # "processing")
            ~> (~Active(n) \/ status[e] = "processing" \/ leaked[run[n].in] = PoolSize)
=============================================================================
