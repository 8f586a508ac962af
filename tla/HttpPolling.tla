----------------------------- MODULE HttpPolling -----------------------------
(***************************************************************************)
(* The poller of HTTP data sources.  Bree starts the job                   *)
(* data_source_process on every server; its thread calls Run of each       *)
(* source (http_data_source_impl.ts) without waiting for one before the    *)
(* next, so that all of them share the thread's pool of Postgres clients   *)
(* (mapper.ts, and the external pg and pg-pool).  Run locks the last       *)
(* import in a transaction, asks the endpoint, and hands answer and        *)
(* transaction to ReceiveData (standard_data_source_impl.ts), which ends   *)
(* the transaction; Run then ends it again.                                *)
(***************************************************************************)
EXTENDS Integers, Sequences, FiniteSets

CONSTANTS Server,
          Source,       \* active HTTP data sources
          PoolSize,     \* clients of a thread's pool, less the one the job's stream keeps
          Answers,      \* bound: the sets of saves that answers lead to
          MaxImports,   \* bound: imports of a source
          MaxFaults     \* bound: statements that fail

ASSUME PollingAssumption ==
    /\ PoolSize \in Nat \ {0}
    /\ Answers \subseteq (SUBSET {"full", "rest"}) \ {{}}
    /\ MaxImports \in Nat
    /\ MaxFaults \in Nat

Client == 1..PoolSize
Id == 1..MaxImports

\* What saves of buffers store: those that got full, and what is left at the end.
Part == {"full", "rest"}

\* A row of imports or of data_staging.
Row == Source \X Id \X (Part \cup {"import"})

VARIABLES
    table,    \* the committed rows
    answered, \* history: the staging rows each import should have
    made,     \* made[s]: how many import ids were handed out
    last,     \* last[s]: the import with the latest modified_at; 0 is none
    fresh,    \* fresh[s]: poll_interval is not over since then
    status,   \* data_sources.status
    alive,    \* alive[v]: the job's thread runs on server v
    idle,     \* idle[v]: the pool's idle clients, taken from the end
    client,   \* client[v][c]: a pooled client and its session
    run,      \* run[v][s]: the call of Run
    faults

vars == <<table, answered, made, last, fresh, status, alive, idle, client, run, faults>>

tables == <<table, answered, made, last, fresh, status>>

\* "out": release() of the latest checkout was not called yet.  "tx": no
\* transaction, an open one, one a failed statement spoilt, or a broken
\* connection.  "rows", "lock": what the transaction wrote and locked.
NoClient == [out |-> FALSE, tx |-> "none", rows |-> {}, lock |-> {}]

NoRun == [pc |-> "over", c |-> 0, import |-> 0, answer |-> {}, then |-> "over"]

Init ==
    /\ table = {}
    /\ answered = {}
    /\ made = [s \in Source |-> 0]
    /\ last = [s \in Source |-> 0]
    /\ fresh = [s \in Source |-> FALSE]
    /\ status = [s \in Source |-> "ready"]
    /\ alive = [v \in Server |-> FALSE]
    /\ idle = [v \in Server |-> <<>>]
    /\ client = [v \in Server |-> [c \in Client |-> NoClient]]
    /\ run = [v \in Server |-> [s \in Source |-> NoRun]]
    /\ faults = 0

-----------------------------------------------------------------------------
(* Pool and sessions *)

\* Run (v, s) goes from "from" to "to".
Go(v, s, from, to) ==
    /\ run[v][s].pc = from
    /\ run' = [run EXCEPT ![v][s] = IF to = "over" THEN NoRun ELSE [@ EXCEPT !.pc = to]]

Fault ==
    /\ faults < MaxFaults
    /\ faults' = faults + 1

\* Pool.query: some client must be idle; it is back when the answer is.
QueryPool(v) == idle[v] # <<>>

Top(v) == idle[v][Len(idle[v])]

\* The rows are committed; a new import is the last one modified.
Committed(rows) ==
    LET new(s) == {r[2] : r \in {x \in rows : x[1] = s /\ x[3] = "import"}}
    IN  /\ table' = table \cup rows
        /\ last' = [s \in Source |-> IF new(s) = {} THEN last[s] ELSE CHOOSE i \in new(s) : \A j \in new(s) : j <= i]
        /\ fresh' = [s \in Source |-> fresh[s] \/ new(s) # {}]

\* A statement on client c writes rows: in its transaction, or at once without one.
Write(v, c, rows) ==
    \/ /\ client[v][c].tx = "open"
       /\ client' = [client EXCEPT ![v][c].rows = @ \cup rows]
       /\ UNCHANGED <<table, last, fresh>>
    \/ /\ client[v][c].tx = "none"
       /\ Committed(rows)
       /\ UNCHANGED client

\* Every statement of such a session fails.
Failed == {"aborted", "broken"}

\* Mutant: the rows are written without the transaction.
WriteOutside(v, c, rows) ==
    /\ client[v][c].tx \in {"open", "none"}
    /\ Committed(rows)
    /\ UNCHANGED client

\* A save of staging records is given the transaction.
SaveRows(v, c, rows) == Write(v, c, rows)

\* Client c after a statement of it failed: an open transaction is undone at
\* once, and what follows in it fails until it is ended.
Spoilt(v, c) ==
    [client EXCEPT ![v][c] = IF @.tx = "open" THEN [@ EXCEPT !.tx = "aborted", !.rows = {}, !.lock = {}] ELSE @]

\* Mutant: locks outlive their transaction.
EndedKeepsLocks(v, c) == [client EXCEPT ![v][c] = [@ EXCEPT !.tx = "none", !.rows = {}]]

\* Client c after its transaction ended.
Ended(v, c) == [client EXCEPT ![v][c] = [@ EXCEPT !.tx = "none", !.rows = {}, !.lock = {}]]

\* Client c after its connection failed: the server dropped the transaction.
Broken(v, c) == [client EXCEPT ![v][c] = [@ EXCEPT !.tx = "broken", !.rows = {}, !.lock = {}]]

-----------------------------------------------------------------------------
(* The job's thread *)

StartThread(v) ==
    /\ ~alive[v]
    /\ alive' = [alive EXCEPT ![v] = TRUE]
    /\ idle' = [idle EXCEPT ![v] = [c \in Client |-> c]]
    /\ client' = [client EXCEPT ![v] = [c \in Client |-> NoClient]]
    /\ run' = [run EXCEPT ![v] = [s \in Source |-> [NoRun EXCEPT !.pc = "begin"]]]
    /\ UNCHANGED <<tables, faults>>

\* 'done' is posted once the stream is set up: Bree may end the thread, and
\* the server drop its transactions, whatever its Runs are at.
Terminate(v) ==
    /\ alive[v]
    /\ alive' = [alive EXCEPT ![v] = FALSE]
    /\ idle' = [idle EXCEPT ![v] = <<>>]
    /\ client' = [client EXCEPT ![v] = [c \in Client |-> NoClient]]
    /\ run' = [run EXCEPT ![v] = [s \in Source |-> NoRun]]
    /\ UNCHANGED <<tables, faults>>

-----------------------------------------------------------------------------
(* Run *)

SetStatusPolling(v, s) ==
    /\ QueryPool(v)
    /\ Go(v, s, "begin", "retrieve")
    /\ status' = [status EXCEPT ![s] = "polling"]
    /\ UNCHANGED <<table, answered, made, last, fresh, alive, idle, client, faults>>

\* The source is read again; it may have become inactive, or the read fails.
Retrieve(v, s) ==
    /\ QueryPool(v)
    /\ \/ Go(v, s, "retrieve", "connect") /\ UNCHANGED faults
       \/ Go(v, s, "retrieve", "ready") /\ UNCHANGED faults
       \/ Go(v, s, "retrieve", "over") /\ Fault
    /\ UNCHANGED <<tables, alive, idle, client>>

\* startTransaction: when BEGIN fails, because a statement of the session failed
\* and nobody ended its transaction yet, or because the connection does, the
\* client is not given back.
StartTransaction(v, s) ==
    /\ idle[v] # <<>>
    /\ run[v][s].pc = "connect"
    /\ idle' = [idle EXCEPT ![v] = SubSeq(@, 1, Len(@) - 1)]
    /\ \/ /\ client[v][Top(v)].tx \in {"none", "open"}
          /\ client' = [client EXCEPT ![v][Top(v)] = [@ EXCEPT !.out = TRUE, !.tx = "open"]]
          /\ run' = [run EXCEPT ![v][s] = [@ EXCEPT !.pc = "lock", !.c = Top(v)]]
          /\ UNCHANGED faults
       \/ /\ client[v][Top(v)].tx = "aborted"
          /\ client' = [client EXCEPT ![v][Top(v)].out = TRUE]
          /\ Go(v, s, "connect", "over")
          /\ UNCHANGED faults
       \/ /\ client' = [client EXCEPT ![v][Top(v)] = [NoClient EXCEPT !.out = TRUE, !.tx = "broken"]]
          /\ Go(v, s, "connect", "over")
          /\ Fault
    /\ UNCHANGED <<tables, alive>>

\* Some other client has the row of the import locked.
LockedElsewhere(v, c, lock) ==
    \E w \in Server, d \in Client : <<w, d>> # <<v, c>> /\ lock \in client[w][d].lock

\* Mutant: the poll is given up without ending the transaction.
GiveUpAtOnce(v, s) == Go(v, s, "lock", "over")

\* The transaction is completed and Run returns.
GiveUp(v, s) ==
    run' = [run EXCEPT ![v][s] = [@ EXCEPT !.pc = "commit", !.then = "over"]]

\* findLastAndLock, NOWAIT, and the check of the interval: Run gives up when
\* the row is locked, when the statement fails, and when the interval is over.
FindLastAndLock(v, s) ==
    LET c == run[v][s].c
        lock == <<s, last[s]>>
    IN  /\ run[v][s].pc = "lock"
        /\ \/ /\ last[s] = 0
              /\ client[v][c].tx \notin Failed
              /\ Go(v, s, "lock", "request")
              /\ UNCHANGED client
           \/ /\ last[s] # 0
              /\ client[v][c].tx \notin Failed
              /\ ~LockedElsewhere(v, c, lock)
              /\ client' = [client EXCEPT ![v][c].lock = IF client[v][c].tx = "open" THEN @ \cup {lock} ELSE @]
              /\ IF fresh[s] THEN Go(v, s, "lock", "request") ELSE GiveUp(v, s)
           \/ /\ \/ last[s] # 0 /\ LockedElsewhere(v, c, lock)
                 \/ client[v][c].tx \in Failed
              /\ client' = Spoilt(v, c)
              /\ GiveUp(v, s)
        /\ UNCHANGED <<tables, alive, idle, faults>>

\* Mutant: a poll that failed is tried again, as long as it takes.
RequestAgain(v, s) ==
    /\ \/ Go(v, s, "request", "lock")
       \/ \E answer \in Answers :
             /\ run[v][s].pc = "request"
             /\ run' = [run EXCEPT ![v][s] = [@ EXCEPT !.pc = "create", !.answer = answer]]
    /\ UNCHANGED <<tables, alive, idle, client, faults>>

\* axios.get: an error, a bad status, no data, or data that fills buffers.
Request(v, s) ==
    /\ run[v][s].pc = "request"
    /\ \/ run' = [run EXCEPT ![v][s] = [@ EXCEPT !.pc = "commit", !.then = "ready"]]
       \/ \E answer \in Answers :
             run' = [run EXCEPT ![v][s] = [@ EXCEPT !.pc = "create", !.answer = answer]]
    /\ UNCHANGED <<tables, alive, idle, client, faults>>

-----------------------------------------------------------------------------
(* ReceiveData *)

\* ReceiveData ends the transaction with "how"; Run's own completion follows.
Close(v, s, how) == run' = [run EXCEPT ![v][s] = [@ EXCEPT !.pc = how, !.then = "receive"]]

\* CreateImport is not part of the transaction: it runs on whatever client
\* the pool has, in a transaction that is open on it if there is one.  It may
\* fail, and does at the bound.
CreateImport(v, s) ==
    LET i == made[s] + 1
    IN  /\ QueryPool(v)
        /\ run[v][s].pc = "create"
        /\ \/ /\ i <= MaxImports
              /\ Write(v, Top(v), {<<s, i, "import">>})
              /\ made' = [made EXCEPT ![s] = i]
              /\ answered' = answered \cup {<<s, i, p>> : p \in run[v][s].answer}
              /\ run' = [run EXCEPT ![v][s] = [@ EXCEPT !.pc = "find", !.import = i]]
              /\ UNCHANGED faults
           \/ /\ Close(v, s, "rollback")
              /\ IF client[v][Top(v)].tx = "aborted" \/ i > MaxImports THEN UNCHANGED faults ELSE Fault
              /\ UNCHANGED <<table, last, fresh, made, answered, client>>
        /\ UNCHANGED <<status, alive, idle>>

\* The import is found by its id, in the transaction.
FindImport(v, s) ==
    LET me == client[v][run[v][s].c]
        found == me.tx \notin Failed /\ <<s, run[v][s].import, "import">> \in table \cup me.rows
    IN  /\ run[v][s].pc = "find"
        /\ IF found
           THEN Go(v, s, "find", IF "full" \in run[v][s].answer THEN "full" ELSE "rest")
           ELSE Close(v, s, "rollback")
        /\ UNCHANGED <<tables, alive, idle, client, faults>>

Saves(v, s, part) ==
    /\ SaveRows(v, run[v][s].c, {<<s, run[v][s].import, part>>})
    /\ UNCHANGED faults

SaveFails(v, s) ==
    /\ client' = Spoilt(v, run[v][s].c)
    /\ IF client[v][run[v][s].c].tx \in Failed THEN UNCHANGED faults ELSE Fault
    /\ UNCHANGED <<table, last, fresh>>

\* The save of a full buffer; its result is not looked at.
SaveFull(v, s) ==
    /\ Go(v, s, "full", "rest")
    /\ Saves(v, s, "full") \/ SaveFails(v, s)
    /\ UNCHANGED <<answered, made, status, alive, idle>>

\* The save of what is left; with nothing left there is no statement.
SaveRest(v, s) ==
    /\ run[v][s].pc = "rest"
    /\ \/ /\ "rest" \in run[v][s].answer
          /\ \/ Saves(v, s, "rest") /\ Close(v, s, "commit")
             \/ SaveFails(v, s) /\ Close(v, s, "rollback")
       \/ /\ "rest" \notin run[v][s].answer
          /\ Close(v, s, "commit")
          /\ UNCHANGED <<table, last, fresh, client, faults>>
    /\ UNCHANGED <<answered, made, status, alive, idle>>

-----------------------------------------------------------------------------
(* completeTransaction, rollbackTransaction *)

\* The caller goes on; what ReceiveData ended, Run completes again.
Returned(v, s) ==
    LET me == run[v][s]
    IN  run' = [run EXCEPT ![v][s] =
            CASE me.then = "receive" -> [NoRun EXCEPT !.pc = "commit", !.c = me.c, !.then = "ready"]
              [] me.then = "ready" -> [NoRun EXCEPT !.pc = "ready"]
              [] me.then = "over" -> NoRun]

\* COMMIT, which for a spoilt transaction is a ROLLBACK.
Commit(v, s) ==
    LET me == client[v][run[v][s].c]
    IN  /\ Go(v, s, "commit", "release")
        /\ me.tx # "broken"
        /\ IF me.tx = "open" THEN Committed(me.rows) ELSE UNCHANGED <<table, last, fresh>>
        /\ client' = Ended(v, run[v][s].c)
        /\ UNCHANGED <<answered, made, status, alive, idle, faults>>

\* completeTransaction returns, or rollbackTransaction rejects, and neither
\* releases the client.  The pool replaces a client that breaks when idle.
EndFails(v, s) ==
    LET c == run[v][s].c
    IN  /\ run[v][s].pc \in {"commit", "rollback"}
        /\ Returned(v, s)
        /\ client' = IF client[v][c].out THEN Broken(v, c) ELSE Ended(v, c)
        /\ IF client[v][c].tx = "broken" THEN UNCHANGED faults ELSE Fault
        /\ UNCHANGED <<tables, alive, idle>>

Rollback(v, s) ==
    /\ Go(v, s, "rollback", "release")
    /\ client[v][run[v][s].c].tx # "broken"
    /\ client' = Ended(v, run[v][s].c)
    /\ UNCHANGED <<tables, alive, idle, faults>>

\* client.release() of the latest checkout, whoever made it; it throws when
\* it was called before, which ReceiveData's caller catches and Run's does not.
\* The pool replaces a broken client.
Release(v, s) ==
    LET c == run[v][s].c
    IN  /\ run[v][s].pc = "release"
        /\ \/ /\ client[v][c].out
              /\ client' = [client EXCEPT ![v][c] = IF @.tx = "broken" THEN NoClient ELSE [@ EXCEPT !.out = FALSE]]
              /\ idle' = [idle EXCEPT ![v] = Append(@, c)]
              /\ Returned(v, s)
           \/ /\ ~client[v][c].out
              /\ IF run[v][s].then = "receive" THEN Returned(v, s) ELSE Go(v, s, "release", "over")
              /\ UNCHANGED <<client, idle>>
        /\ UNCHANGED <<tables, alive, faults>>

SetStatusReady(v, s) ==
    /\ QueryPool(v)
    /\ Go(v, s, "ready", "over")
    /\ status' = [status EXCEPT ![s] = "ready"]
    /\ UNCHANGED <<table, answered, made, last, fresh, alive, idle, client, faults>>

-----------------------------------------------------------------------------
(* What goes on elsewhere *)

\* Processing sets the status, and with it modified_at, of an import.
Touch(s, i) ==
    /\ <<s, i, "import">> \in table
    /\ \A v \in Server, c \in Client : <<s, i>> \notin client[v][c].lock
    /\ last' = [last EXCEPT ![s] = i]
    /\ fresh' = [fresh EXCEPT ![s] = TRUE]
    /\ UNCHANGED <<table, answered, made, status, alive, idle, client, run, faults>>

\* poll_interval minutes go by.
Elapse(s) ==
    /\ fresh[s]
    /\ fresh' = [fresh EXCEPT ![s] = FALSE]
    /\ UNCHANGED <<table, answered, made, last, status, alive, idle, client, run, faults>>

-----------------------------------------------------------------------------
RunStep(v, s) ==
    \/ SetStatusPolling(v, s) \/ Retrieve(v, s) \/ StartTransaction(v, s)
    \/ FindLastAndLock(v, s) \/ Request(v, s)
    \/ CreateImport(v, s) \/ FindImport(v, s) \/ SaveFull(v, s) \/ SaveRest(v, s)
    \/ Commit(v, s) \/ EndFails(v, s) \/ Rollback(v, s) \/ Release(v, s)
    \/ SetStatusReady(v, s)

Next ==
    \/ \E v \in Server : StartThread(v) \/ Terminate(v) \/ \E s \in Source : RunStep(v, s)
    \/ \E s \in Source : Elapse(s) \/ \E i \in Id : Touch(s, i)

\* A statement answers, and so does axios.get, after its timeout at the latest.
Fairness == \A v \in Server, s \in Source : WF_vars(RunStep(v, s))

Spec == Init /\ [][Next]_vars /\ Fairness

-----------------------------------------------------------------------------
(* Properties *)

\* The state has its type; rows and locks belong to an open transaction, and
\* the last import is a row.
TypeOK ==
    /\ table \subseteq Row /\ answered \subseteq Row
    /\ made \in [Source -> 0..MaxImports]
    /\ \A s \in Source : last[s] # 0 => <<s, last[s], "import">> \in table
    /\ fresh \in [Source -> BOOLEAN]
    /\ status \in [Source -> {"ready", "polling"}]
    /\ alive \in [Server -> BOOLEAN]
    /\ faults \in 0..MaxFaults
    /\ \A v \in Server :
          /\ idle[v] \in Seq(Client)
          /\ \A c \in Client :
                /\ client[v][c].out \in BOOLEAN
                /\ client[v][c].tx \in {"none", "open", "aborted", "broken"}
                /\ client[v][c].rows \subseteq Row
                /\ client[v][c].lock \subseteq Source \X Id
                /\ client[v][c].tx # "open" => client[v][c].rows = {} /\ client[v][c].lock = {}
          /\ \A s \in Source :
                /\ run[v][s].c \in 0..PoolSize
                /\ run[v][s].import \in 0..MaxImports
                /\ run[v][s].answer \subseteq Part

\* "all the save operations will share the same database transaction under
\* the hood" (standard_data_source_impl.ts:91-92): an import of a poll shows
\* all of its data or none of it, whatever fails or ends in between.
PollIsAtomic ==
    \A s \in Source, i \in Id :
        LET rows == {r \in table : r[1] = s /\ r[2] = i /\ r[3] \in Part}
        IN  rows = {} \/ rows = {r \in answered : r[1] = s /\ r[2] = i}

\* When all Runs of a thread are over, every client is back in the pool, once,
\* unless its connection broke: completing a transaction twice, rolling back
\* and giving up lose no client and give none back twice.
NoClientLost ==
    \A v \in Server : alive[v] /\ (\A s \in Source : run[v][s].pc = "over") =>
        /\ \A c \in Client : (client[v][c].tx # "broken") <=> \E k \in DOMAIN idle[v] : idle[v][k] = c
        /\ \A j, k \in DOMAIN idle[v] : idle[v][j] = idle[v][k] => j = k
        /\ \A c \in Client : client[v][c].tx \notin {"open", "aborted"}

\* A Run that waits in CreateImport for a second client keeps the one it has.
WaitsWith(v, c) == \E s \in Source : run[v][s].pc = "create" /\ run[v][s].c = c

\* Every Run ends, unless there comes a time when each client of its pool has a
\* broken connection or is kept by a Run that waits for a second one.
RunsEnd ==
    \A v \in Server, s \in Source :
        [](run[v][s].pc # "over" =>
            <>(run[v][s].pc = "over" \/ \A c \in Client : client[v][c].tx = "broken" \/ WaitsWith(v, c)))

\* "because the data sources might be dealing with I/O - we don't want to make
\* one data source wait on anther's execution" (data_source_process.ts:44-45):
\* a Run ends whatever the Runs beside it are at.  It is violated: README, section 6.
SourcesDoNotWait == \A v \in Server, s \in Source : [](run[v][s].pc # "over" => <>(run[v][s].pc = "over"))
=============================================================================
