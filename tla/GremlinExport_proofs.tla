-------------------------- MODULE GremlinExport_proofs --------------------------
(***************************************************************************)
(* For any number of exports, runs and clients: the types, that no process *)
(* uses more clients than its pool has, and that a transaction which is    *)
(* left open locks no row (LeftOpenLocksNothing).                          *)
(***************************************************************************)
EXTENDS GremlinExport, FiniteSetTheorems, TLAPS

RunType ==
  [pc : {"none", "initiate", "mark", "check", "start", "list", "batch", "complete", "clean", "done"},
   of : Export \cup {"none"}, in : Process, awaited : BOOLEAN, phase : Part, client : BOOLEAN, held : SUBSET Part]

StatusType == {"none", "created", "processing", "paused", "completed", "deleted"}

Typed ==
  /\ status \in [Export -> StatusType]
  /\ snapshot \in [Export -> SUBSET Part]
  /\ run \in [Run -> RunType]
  /\ leaked \in [Process -> Nat]
  /\ listed \subseteq Export /\ deleting \subseteq Export

\* A run has a client between the start of its transaction and its end, and the
\* rows of its batch locked between the listing and the end.
RunOK(n) ==
  /\ Active(n) => run[n].of \in Export
  /\ run[n].client <=> run[n].pc \in {"list", "batch"}
  /\ run[n].held = IF run[n].pc = "batch" THEN {run[n].phase} ELSE {}

Users(p) == {n \in Run : run[n].in = p /\ run[n].client}

Bounded == \A p \in Process : leaked[p] + Cardinality(Users(p)) <= PoolSize

IInv == Typed /\ (\A n \in Run : RunOK(n)) /\ Bounded

LEMMA InitInv == Init => IInv
<1> SUFFICES ASSUME Init PROVE IInv
  OBVIOUS
<1>1. NoRun \in RunType
  BY DEF NoRun, RunType, Process, Part
<1>2. Typed
  BY <1>1 DEF Init, Typed, StatusType
<1>3. \A n \in Run : RunOK(n)
  BY DEF Init, RunOK, Active, NoRun
<1>4. \A p \in Process : Users(p) = {}
  BY DEF Init, Users, NoRun
<1>5. Bounded
  BY <1>4, FS_EmptySet, ExportAssumption DEF Init, Bounded
<1>6. QED
  BY <1>2, <1>3, <1>5 DEF IInv

\* Who uses a client of p is one of finitely many.
LEMMA UsersFinite ==
  ASSUME NEW p
  PROVE  IsFiniteSet(Users(p)) /\ Cardinality(Users(p)) \in Nat
BY FS_Subset, FS_CardinalityType, ExportAssumption DEF Users

\* A step in which nobody gets a client keeps within the pools.
LEMMA FewerClients ==
  ASSUME Typed, Typed', Bounded, \A p \in Process : leaked'[p] <= leaked[p],
         \A n \in Run : run'[n].client => run[n].client /\ run'[n].in = run[n].in
  PROVE  Bounded'
<1> SUFFICES ASSUME NEW p \in Process
             PROVE  leaked'[p] + Cardinality(Users(p)') <= PoolSize
  BY DEF Bounded
<1>1. Users(p)' \subseteq Users(p)
  BY DEF Users
<1>2. Cardinality(Users(p)') <= Cardinality(Users(p)) /\ Cardinality(Users(p)') \in Nat
  BY <1>1, UsersFinite, FS_Subset, FS_CardinalityType
<1>3. leaked[p] \in Nat /\ leaked'[p] \in Nat /\ leaked'[p] <= leaked[p]
  BY DEF Typed
<1>4. leaked[p] + Cardinality(Users(p)) <= PoolSize
  BY DEF Bounded
<1>5. QED
  BY <1>2, <1>3, <1>4, UsersFinite, ExportAssumption

\* A step of one run, in which it gets no client and ends what it had with one.
LEMMA RunStepKeeps ==
  ASSUME IInv, NEW n \in Run, NEW new \in RunType,
         run' = [run EXCEPT ![n] = new],
         \/ new.pc \notin {"list", "batch"} /\ ~new.client /\ new.held = {}
         \/ /\ run[n].pc = "list" /\ new.pc = "batch" /\ new.held = {new.phase}
            /\ new.client = run[n].client /\ new.in = run[n].in,
         new.pc \notin {"none", "done"} => new.of \in Export,
         status' \in [Export -> StatusType], snapshot' \in [Export -> SUBSET Part],
         listed' \subseteq Export, UNCHANGED <<leaked, deleting>>
  PROVE  IInv'
<1>1. Typed'
  BY DEF IInv, Typed
<1>2. run'[n] = new /\ \A m \in Run \ {n} : run'[m] = run[m]
  BY DEF IInv, Typed
<1>3. \A m \in Run : RunOK(m)'
  <2>1. RunOK(n)'
    <3>1. /\ new.pc \notin {"none", "done"} => new.of \in Export
          /\ new.client <=> new.pc \in {"list", "batch"}
          /\ new.held = IF new.pc = "batch" THEN {new.phase} ELSE {}
      BY DEF IInv, RunOK
    <3>2. QED
      BY <1>2, <3>1 DEF RunOK, Active
  <2>2. ASSUME NEW m \in Run \ {n}
        PROVE  RunOK(m)'
    <3>1. run'[m] = run[m] /\ RunOK(m)
      BY <1>2 DEF IInv
    <3>2. QED
      BY <3>1 DEF RunOK, Active
  <2>3. QED
    BY <2>1, <2>2
<1>4. \A m \in Run : run'[m].client => run[m].client /\ run'[m].in = run[m].in
  BY <1>2 DEF IInv, RunOK
<1>5. \A p \in Process : leaked'[p] <= leaked[p]
  BY DEF IInv, Typed
<1>6. Bounded'
  BY <1>1, <1>4, <1>5, FewerClients DEF IInv
<1>7. QED
  BY <1>1, <1>3, <1>6 DEF IInv

\* A run goes on, or ends, without the client it had, which nobody gives back.
LEMMA LosesItsClient ==
  ASSUME IInv, NEW n \in Run, run[n].pc \in {"list", "batch"}, NEW new \in RunType,
         run' = [run EXCEPT ![n] = new], LoseClient(run[n].in),
         new.pc \notin {"none", "list", "batch"}, new.held = {}, ~new.client,
         new.of = run[n].of,
         UNCHANGED <<status, snapshot, listed, deleting>>
  PROVE  IInv'
<1>0. run[n] \in RunType /\ RunOK(n) /\ run[n].in \in Process
  BY DEF IInv, Typed, RunType
<1>1. run[n].of \in Export /\ run[n].client
  BY <1>0 DEF RunOK, Active
<1>2. run'[n] = new /\ \A m \in Run \ {n} : run'[m] = run[m]
  BY DEF IInv, Typed
<1>3. leaked' = [leaked EXCEPT ![run[n].in] = @ + 1]
  BY DEF LoseClient
<1>4. Typed'
  BY <1>0, <1>3 DEF IInv, Typed
<1>5. RunOK(n)'
  BY <1>1, <1>2 DEF RunOK, Active
<1>6. ASSUME NEW m \in Run \ {n}
      PROVE  RunOK(m)'
  <2>1. run'[m] = run[m] /\ RunOK(m)
    BY <1>2 DEF IInv
  <2>2. QED
    BY <2>1 DEF RunOK, Active
<1>7. ASSUME NEW p \in Process
      PROVE  leaked'[p] + Cardinality(Users(p)') <= PoolSize
  <2>1. /\ leaked[p] \in Nat /\ leaked[p] + Cardinality(Users(p)) <= PoolSize
        /\ IsFiniteSet(Users(p)) /\ Cardinality(Users(p)) \in Nat
    BY UsersFinite DEF IInv, Typed, Bounded
  <2>2. CASE p = run[n].in
    <3>1. n \in Users(p) /\ Users(p)' = Users(p) \ {n} /\ leaked'[p] = leaked[p] + 1
      BY <1>1, <1>2, <1>3, <2>2 DEF Users, IInv, Typed
    <3>2. Cardinality(Users(p)') = Cardinality(Users(p)) - 1
      BY <2>1, <3>1, FS_RemoveElement
    <3>3. QED
      BY <2>1, <3>1, <3>2, ExportAssumption
  <2>3. CASE p # run[n].in
    <3>1. Users(p)' = Users(p) /\ leaked'[p] = leaked[p]
      BY <1>2, <1>3, <2>3 DEF Users, IInv, Typed
    <3>2. QED
      BY <2>1, <3>1
  <2>4. QED
    BY <2>2, <2>3
<1>8. QED
  BY <1>4, <1>5, <1>6, <1>7 DEF IInv, Bounded

\* Processes end, and with them their runs and what these have.
LEMMA EndInv ==
  ASSUME IInv, NEW ps \in SUBSET Process, End(ps), UNCHANGED <<status, snapshot>>
  PROVE  IInv'
<1>0. \A n \in Run : run[n] \in RunType /\ RunOK(n)
  BY DEF IInv, Typed
<1>1. ASSUME NEW n \in Run
      PROVE  \/ run'[n] = run[n]
             \/ /\ run'[n] \in RunType /\ run'[n].pc = "done"
                /\ ~run'[n].client /\ run'[n].held = {}
  <2> DEFINE over == [run[n] EXCEPT !.pc = "done", !.client = FALSE, !.held = {}]
  <2>1. over \in RunType /\ over.pc = "done" /\ ~over.client /\ over.held = {}
    BY <1>0 DEF RunType
  <2>2. run'[n] = run[n] \/ run'[n] = over
    BY DEF End
  <2> HIDE DEF over
  <2>3. QED
    BY <2>1, <2>2
<1>2. run' \in [Run -> RunType]
  <2>1. \A n \in Run : run'[n] \in RunType
    BY <1>0, <1>1
  <2>2. DOMAIN run' = Run /\ run' = [n \in Run |-> run'[n]]
    BY DEF End
  <2>3. QED
    BY <2>1, <2>2
<1>3. leaked' \in [Process -> Nat] /\ \A p \in Process : leaked'[p] <= leaked[p]
  <2>1. \A p \in Process : leaked[p] \in Nat
    BY DEF IInv, Typed
  <2>2. leaked' = [p \in Process |-> IF p \in ps THEN 0 ELSE leaked[p]]
    BY DEF End
  <2>3. QED
    BY <2>1, <2>2
<1>4. Typed'
  BY <1>2, <1>3 DEF IInv, Typed, End
<1>5. \A n \in Run : RunOK(n)'
  BY <1>0, <1>1 DEF RunOK, Active
<1>6. \A n \in Run : run'[n].client => run[n].client /\ run'[n].in = run[n].in
  BY <1>1
<1>7. Bounded'
  BY <1>3, <1>4, <1>6, FewerClients DEF IInv
<1>8. QED
  BY <1>4, <1>5, <1>7 DEF IInv

\* A change of the rows alone.
LEMMA RowsKeep ==
  ASSUME IInv, UNCHANGED <<run, leaked>>,
         status' \in [Export -> StatusType], snapshot' \in [Export -> SUBSET Part],
         listed' \subseteq Export, deleting' \subseteq Export
  PROVE  IInv'
<1>1. Typed'
  BY DEF IInv, Typed
<1>2. \A m \in Run : RunOK(m)'
  BY DEF IInv, RunOK, Active
<1>3. Bounded'
  BY DEF IInv, Bounded, Users
<1>4. QED
  BY <1>1, <1>2, <1>3 DEF IInv

\* A transaction is started with a client that is free.
LEMMA BeginOkInv ==
  ASSUME IInv, NEW n \in Run, StartTransaction(n),
         run' = [run EXCEPT ![n].pc = "list", ![n].client = TRUE], UNCHANGED leaked
  PROVE  IInv'
<1> DEFINE new == [run[n] EXCEPT !.pc = "list", !.client = TRUE]
<1>0. run[n] \in RunType /\ RunOK(n) /\ run[n].pc = "start" /\ run[n].in \in Process
  BY DEF IInv, Typed, StartTransaction, RunType
<1>1. run' = [run EXCEPT ![n] = new]
  OBVIOUS
<1>2. /\ new \in RunType /\ new.pc = "list" /\ new.client /\ new.held = run[n].held
      /\ new.of = run[n].of /\ new.in = run[n].in
  BY <1>0 DEF RunType
<1> HIDE DEF new
<1>3. run'[n] = new /\ \A m \in Run \ {n} : run'[m] = run[m]
  BY <1>1 DEF IInv, Typed
<1>4. Typed'
  BY <1>1, <1>2 DEF IInv, Typed, StartTransaction
<1>5. \A m \in Run : RunOK(m)'
  <2>1. RunOK(n)'
    BY <1>0, <1>2, <1>3 DEF RunOK, Active
  <2>2. ASSUME NEW m \in Run \ {n}
        PROVE  RunOK(m)'
    <3>1. run'[m] = run[m] /\ RunOK(m)
      BY <1>3 DEF IInv
    <3>2. QED
      BY <3>1 DEF RunOK, Active
  <2>3. QED
    BY <2>1, <2>2
<1>6. ASSUME NEW p \in Process
      PROVE  leaked'[p] + Cardinality(Users(p)') <= PoolSize
  <2>1. leaked'[p] = leaked[p] /\ leaked[p] \in Nat /\ leaked[p] + Cardinality(Users(p)) <= PoolSize
    BY DEF IInv, Typed, Bounded, StartTransaction
  <2>2. CASE p = run[n].in
    <3>1. leaked[p] + Cardinality(Users(p)) < PoolSize
      BY <2>2 DEF StartTransaction, ClientFree, Clients, Users
    <3>2. Users(p)' = Users(p) \cup {n}
      BY <1>2, <1>3, <2>2 DEF Users
    <3>3. Cardinality(Users(p)') <= Cardinality(Users(p)) + 1 /\ Cardinality(Users(p)') \in Nat
      <4>1. IsFiniteSet(Users(p)) /\ Cardinality(Users(p)) \in Nat
        BY UsersFinite
      <4>2. Cardinality(Users(p) \cup {n}) = IF n \in Users(p) THEN Cardinality(Users(p))
                                             ELSE Cardinality(Users(p)) + 1
        BY <4>1, FS_AddElement
      <4>3. QED
        BY <3>2, <4>1, <4>2
    <3>4. QED
      BY <2>1, <3>1, <3>3, UsersFinite, ExportAssumption
  <2>3. CASE p # run[n].in
    <3>1. Users(p)' = Users(p)
      BY <1>2, <1>3, <2>3 DEF Users
    <3>2. QED
      BY <2>1, <3>1
  <2>4. QED
    BY <2>2, <2>3
<1>7. QED
  BY <1>4, <1>5, <1>6 DEF IInv, Bounded

\* When BEGIN fails, the client that was free is lost.
LEMMA BeginFailsInv ==
  ASSUME IInv, NEW n \in Run, StartTransaction(n), Goto(n, "done"), LoseClient(run[n].in)
  PROVE  IInv'
<1> DEFINE new == [run[n] EXCEPT !.pc = "done"]
<1>0. run[n] \in RunType /\ RunOK(n) /\ run[n].pc = "start" /\ run[n].in \in Process
  BY DEF IInv, Typed, StartTransaction, RunType
<1>1. run' = [run EXCEPT ![n] = new]
  BY DEF Goto
<1>2. /\ new \in RunType /\ new.pc = "done" /\ ~new.client /\ new.held = {}
      /\ ~run[n].client
  BY <1>0 DEF RunType, RunOK
<1> HIDE DEF new
<1>3. run'[n] = new /\ \A m \in Run \ {n} : run'[m] = run[m]
  BY <1>1 DEF IInv, Typed
<1>4. leaked' = [leaked EXCEPT ![run[n].in] = @ + 1]
  BY DEF LoseClient
<1>5. Typed'
  BY <1>0, <1>1, <1>2, <1>4 DEF IInv, Typed, StartTransaction
<1>6. \A m \in Run : RunOK(m)'
  BY <1>0, <1>2, <1>3 DEF IInv, RunOK, Active
<1>7. ASSUME NEW p \in Process
      PROVE  leaked'[p] + Cardinality(Users(p)') <= PoolSize
  <2>1. Users(p)' = Users(p)
    BY <1>2, <1>3 DEF Users
  <2>2. /\ leaked[p] \in Nat /\ leaked[p] + Cardinality(Users(p)) <= PoolSize
        /\ Cardinality(Users(p)) \in Nat
    BY UsersFinite DEF IInv, Typed, Bounded
  <2>3. CASE p = run[n].in
    <3>1. leaked[p] + Cardinality(Users(p)) < PoolSize
      BY <2>3 DEF StartTransaction, ClientFree, Clients, Users
    <3>2. leaked'[p] = leaked[p] + 1
      BY <1>4, <2>3 DEF IInv, Typed
    <3>3. QED
      BY <2>1, <2>2, <3>1, <3>2, ExportAssumption
  <2>4. CASE p # run[n].in
    <3>1. leaked'[p] = leaked[p]
      BY <1>4, <2>4 DEF IInv, Typed
    <3>2. QED
      BY <2>1, <2>2, <3>1
  <2>5. QED
    BY <2>3, <2>4
<1>8. QED
  BY <1>5, <1>6, <1>7 DEF IInv, Bounded

LEMMA StartInv ==
  ASSUME IInv, NEW n \in Run, StartTransaction(n)
  PROVE  IInv'
BY BeginOkInv, BeginFailsInv DEF StartTransaction

\* Without rows the loop leaves its transaction open: its client stays away.
LEMMA ListInv ==
  ASSUME IInv, NEW n \in Run, List(n)
  PROVE  IInv'
<1>0. run[n] \in RunType /\ RunOK(n) /\ run[n].pc = "list" /\ run[n].in \in Process
  BY DEF IInv, Typed, List, RunType
<1>1. run[n].of \in Export /\ run[n].held = {} /\ run[n].client /\ run[n].phase \in Part
  BY <1>0 DEF RunOK, Active, RunType
<1> DEFINE found == {run[n].phase} \cap snapshot[run[n].of]
<1>2. CASE ~NothingLeft(n)
  <2> DEFINE new == [run[n] EXCEPT !.pc = "batch", !.held = @ \cup found]
  <2>1. run' = [run EXCEPT ![n] = new] /\ UNCHANGED <<status, snapshot, leaked, listed, deleting>>
    BY <1>2 DEF List
  <2>2. found = {run[n].phase}
    BY <1>2 DEF NothingLeft
  <2>3. /\ new \in RunType /\ new.pc = "batch" /\ new.held = {new.phase}
        /\ new.client = run[n].client /\ new.in = run[n].in /\ new.of = run[n].of
    BY <1>0, <1>1, <2>2 DEF RunType
  <2> HIDE DEF new
  <2>4. QED
    BY <1>0, <1>1, <2>1, <2>3, RunStepKeeps DEF IInv, Typed
<1>3. CASE NothingLeft(n)
  <2> DEFINE pc == IF run[n].phase = "nodes" THEN "check" ELSE "complete"
             new == [run[n] EXCEPT !.pc = pc, !.phase = "edges", !.client = FALSE,
                                   !.held = @ \cup found]
  <2>1. /\ run' = [run EXCEPT ![n] = new] /\ LoseClient(run[n].in)
        /\ UNCHANGED <<status, snapshot, listed, deleting>>
    BY <1>3 DEF List
  <2>2. found = {} /\ pc \in {"check", "complete"}
    BY <1>3 DEF NothingLeft
  <2>3. /\ new \in RunType /\ new.pc \in {"check", "complete"} /\ new.held = {}
        /\ ~new.client /\ new.of = run[n].of
    BY <1>0, <1>1, <2>2 DEF RunType, Part
  <2> HIDE DEF new
  <2>4. QED
    BY <1>0, <2>1, <2>3, LosesItsClient
<1>4. QED
  BY <1>2, <1>3

\* The steps that start a run.
LEMMA BeginInv ==
  ASSUME IInv, NEW n \in Run, NEW e \in Export, Create(n, e) \/ Restart(n, e) \/ JobRestart(n, e)
  PROVE  IInv'
<1>1. run[n] \in RunType /\ RunOK(n) /\ run[n].pc = "none"
  BY DEF IInv, Typed, Create, Restart, JobRestart
<1>2. run[n].held = {} /\ ~run[n].client
  BY <1>1 DEF RunOK
<1>3. /\ status' \in [Export -> StatusType] /\ snapshot' \in [Export -> SUBSET Part]
      /\ listed' \subseteq Export /\ UNCHANGED <<leaked, deleting>>
  BY DEF Create, Restart, JobRestart, IInv, Typed, StatusType
<1>4. CASE Create(n, e) \/ Restart(n, e)
  <2>1. PICK pc \in {"initiate", "mark"}, a \in BOOLEAN :
            run' = [run EXCEPT ![n] = [@ EXCEPT !.pc = pc, !.of = e, !.awaited = a]]
    <3>1. CASE Create(n, e)
      BY <3>1 DEF Create
    <3>2. CASE Restart(n, e)
      <4>1. run' = [run EXCEPT ![n] = [@ EXCEPT !.pc = "mark", !.of = e, !.awaited = run[n].awaited]]
        BY <1>1, <3>2 DEF Restart, RunType
      <4>2. run[n].awaited \in BOOLEAN
        BY <1>1 DEF RunType
      <4>3. QED
        BY <4>1, <4>2
    <3>3. QED
      BY <1>4, <3>1, <3>2
  <2> DEFINE new == [run[n] EXCEPT !.pc = pc, !.of = e, !.awaited = a]
  <2>2. run' = [run EXCEPT ![n] = new]
    BY <2>1
  <2>3. /\ new \in RunType /\ new.pc \in {"initiate", "mark"} /\ ~new.client /\ new.held = {}
        /\ new.of = e
    BY <1>1, <1>2 DEF RunType
  <2> HIDE DEF new
  <2>4. QED
    BY <1>3, <2>2, <2>3, RunStepKeeps
<1>5. CASE JobRestart(n, e)
  <2> DEFINE new == [run[n] EXCEPT !.pc = "mark", !.of = e, !.in = "job"]
  <2>1. run' = [run EXCEPT ![n] = new]
    BY <1>5 DEF JobRestart
  <2>2. new \in RunType /\ new.pc = "mark" /\ ~new.client /\ new.held = {} /\ new.of = e
    BY <1>1, <1>2 DEF RunType, Process
  <2> HIDE DEF new
  <2>3. QED
    BY <1>3, <2>1, <2>2, RunStepKeeps
<1>6. QED
  BY <1>4, <1>5

\* The steps of a run that only move on.
LEMMA MoveInv ==
  ASSUME IInv, NEW n \in Run,
         \/ InitiateExport(n) \/ Mark(n) \/ Check(n) \/ Complete(n) \/ Clean(n)
  PROVE  IInv'
<1>1. run[n] \in RunType /\ RunOK(n) /\ run[n].pc \notin {"none", "done", "list", "batch"}
  BY DEF IInv, Typed, InitiateExport, Mark, Check, Complete, Clean
<1>2. run[n].of \in Export /\ ~run[n].client /\ run[n].held = {}
  BY <1>1 DEF RunOK, Active
<1>3. /\ status' \in [Export -> StatusType] /\ snapshot' \in [Export -> SUBSET Part]
      /\ UNCHANGED <<leaked, listed, deleting>> /\ listed \subseteq Export
  BY <1>2 DEF InitiateExport, Mark, Check, Complete, Clean, TrySetStatus, SetStatus, Exists,
              IInv, Typed, StatusType, Part
<1>4. PICK pc \in {"mark", "done", "check", "start", "clean"} : Goto(n, pc)
  BY DEF InitiateExport, Mark, Check, Complete, Clean
<1> DEFINE new == [run[n] EXCEPT !.pc = pc]
<1>5. run' = [run EXCEPT ![n] = new]
  BY <1>4 DEF Goto
<1>6. /\ new \in RunType /\ new.pc = pc /\ ~new.client /\ new.held = {}
      /\ new.of = run[n].of
  BY <1>1, <1>2 DEF RunType
<1> HIDE DEF new
<1>7. QED
  BY <1>2, <1>3, <1>5, <1>6, RunStepKeeps

\* Those that end a transaction, with or without its client.
LEMMA EndsInv ==
  ASSUME IInv, NEW n \in Run, ListFails(n) \/ Batch(n)
  PROVE  IInv'
<1>1. run[n] \in RunType /\ RunOK(n) /\ run[n].pc \in {"list", "batch"}
  BY DEF IInv, Typed, ListFails, Batch
<1>2. run[n].of \in Export
  BY <1>1 DEF RunOK, Active
<1>3. UNCHANGED <<status, snapshot, listed, deleting>> /\ (UNCHANGED leaked \/ LoseClient(run[n].in))
  BY DEF ListFails, Batch
<1>4. ASSUME NEW new \in RunType, run' = [run EXCEPT ![n] = new], new.pc \in {"done", "check"},
             ~new.client, new.held = {}, new.of = run[n].of
      PROVE  IInv'
  <2>1. CASE UNCHANGED leaked
    BY <1>2, <1>3, <1>4, <2>1, RunStepKeeps DEF IInv, Typed
  <2>2. CASE LoseClient(run[n].in)
    BY <1>1, <1>3, <1>4, <2>2, LosesItsClient
  <2>3. QED
    BY <1>3, <2>1, <2>2
<1>5. CASE ListFails(n)
  <2> DEFINE new == [run[n] EXCEPT !.pc = "done", !.client = FALSE]
  <2>1. run' = [run EXCEPT ![n] = new] /\ run[n].held = {}
    BY <1>1, <1>5 DEF ListFails, RunOK
  <2>2. /\ new \in RunType /\ new.pc = "done" /\ ~new.client /\ new.held = {}
        /\ new.of = run[n].of
    BY <1>1, <2>1 DEF RunType
  <2> HIDE DEF new
  <2>3. QED
    BY <1>4, <2>1, <2>2
<1>6. CASE Batch(n)
  <2> DEFINE new == [run[n] EXCEPT !.pc = "check", !.client = FALSE, !.held = @ \ {run[n].phase}]
  <2>1. run' = [run EXCEPT ![n] = new] /\ run[n].held = {run[n].phase}
    BY <1>1, <1>6 DEF Batch, RunOK
  <2>2. /\ new \in RunType /\ new.pc = "check" /\ ~new.client /\ new.held = {}
        /\ new.of = run[n].of
    BY <1>1, <2>1 DEF RunType
  <2> HIDE DEF new
  <2>3. QED
    BY <1>4, <2>1, <2>2
<1>7. QED
  BY <1>5, <1>6

\* SetStatus throws: the run ends, or its process does.
LEMMA ThrowsInv ==
  ASSUME IInv, NEW n \in Run, CompleteThrows(n)
  PROVE  IInv'
<1>1. run[n] \in RunType /\ RunOK(n) /\ run[n].pc = "complete"
  BY DEF IInv, Typed, CompleteThrows
<1>2. UNCHANGED <<status, snapshot>>
  BY DEF CompleteThrows
<1>3. CASE Goto(n, "done") /\ UNCHANGED <<leaked, listed, deleting>>
  <2> DEFINE new == [run[n] EXCEPT !.pc = "done"]
  <2>1. run' = [run EXCEPT ![n] = new]
    BY <1>3 DEF Goto
  <2>2. new \in RunType /\ new.pc = "done" /\ ~new.client /\ new.held = {}
    BY <1>1 DEF RunType, RunOK
  <2> HIDE DEF new
  <2>3. status' \in [Export -> StatusType] /\ snapshot' \in [Export -> SUBSET Part] /\ listed' \subseteq Export
    BY <1>2, <1>3 DEF IInv, Typed
  <2>4. QED
    BY <1>3, <2>1, <2>2, <2>3, RunStepKeeps
<1>4. CASE End({"job"}) \/ End(Process)
  <2>1. {"job"} \in SUBSET Process /\ Process \in SUBSET Process
    BY DEF Process
  <2>2. QED
    BY <1>2, <1>4, <2>1, EndInv
<1>5. QED
  BY <1>3, <1>4 DEF CompleteThrows

\* The steps of the job's scheduler and of the users who stop and delete.
LEMMA OtherInv ==
  ASSUME IInv, JobList \/ \E e \in Export : Stop(e) \/ Delete(e)
  PROVE  IInv'
<1>1. CASE JobList
  <2>1. /\ listed' \subseteq Export /\ UNCHANGED <<status, snapshot, run, deleting>>
        /\ leaked' = [leaked EXCEPT !["job"] = 0]
    BY <1>1 DEF JobList
  <2>2. Typed' /\ \A p \in Process : leaked'[p] <= leaked[p]
    <3>1. leaked \in [Process -> Nat]
      BY DEF IInv, Typed
    <3>2. /\ leaked' \in [Process -> Nat]
          /\ \A p \in Process : leaked'[p] = leaked[p] \/ leaked'[p] = 0
      BY <2>1, <3>1
    <3>3. \A p \in Process : leaked'[p] <= leaked[p]
      BY <3>1, <3>2
    <3>4. QED
      BY <2>1, <3>2, <3>3 DEF IInv, Typed
  <2>3. \A m \in Run : RunOK(m)'
    BY <2>1 DEF IInv, RunOK, Active
  <2>4. Bounded'
    BY <2>1, <2>2, FewerClients DEF IInv
  <2>5. QED
    BY <2>2, <2>3, <2>4 DEF IInv
<1>2. CASE \E e \in Export : Stop(e) \/ Delete(e)
  <2>1. PICK e \in Export : Stop(e) \/ Delete(e)
    BY <1>2
  <2>2. /\ UNCHANGED <<run, leaked, listed>>
        /\ status' \in [Export -> StatusType] /\ snapshot' \in [Export -> SUBSET Part]
        /\ deleting' \subseteq Export /\ listed \subseteq Export
    BY <2>1 DEF Stop, Delete, SetStatus, Exists, IInv, Typed, StatusType
  <2>3. QED
    BY <2>2, RowsKeep
<1>3. QED
  BY <1>1, <1>2

LEMMA StepInv == IInv /\ [Next]_vars => IInv'
<1> SUFFICES ASSUME IInv, [Next]_vars PROVE IInv'
  OBVIOUS
<1>1. CASE UNCHANGED vars
  BY <1>1, RowsKeep DEF vars, IInv, Typed
<1>2. CASE Next
  BY <1>2, StartInv, ListInv, BeginInv, MoveInv, EndsInv, ThrowsInv, OtherInv DEF Next, RunStep
<1>3. QED
  BY <1>1, <1>2

LEMMA Invariance == Spec => []IInv
BY InitInv, StepInv, PTL DEF Spec

\* No process uses more clients than its pool has, those of transactions left open
\* included, and every variable keeps its type.
THEOREM TypeCorrect == Spec => []TypeOK
<1>1. IInv => TypeOK
  BY DEF IInv, Typed, Bounded, Users, RunOK, RunType, StatusType, Active, Clients, TypeOK
<1>2. QED
  BY <1>1, Invariance, PTL

\* Rows are locked only by runs that are under way with a client.
THEOREM LeftOpenIsHarmless == Spec => []LeftOpenLocksNothing
<1>1. IInv => LeftOpenLocksNothing
  BY DEF IInv, RunOK, Active, LeftOpenLocksNothing
<1>2. QED
  BY <1>1, Invariance, PTL
=============================================================================
