-------------------------- MODULE HttpPolling_proofs --------------------------
(***************************************************************************)
(* Theorems about HttpPolling: the type invariant; that a thread loses no  *)
(* client of its pool, for any number of sources, servers and faults; and  *)
(* that a poll is stored as a whole when there is one source.              *)
(***************************************************************************)
EXTENDS HttpPolling, WellFoundedInduction, SequenceTheorems, TLAPS

-----------------------------------------------------------------------------
(* The shape of the state *)

\* A Run that uses its client's transaction, ends it, and has its client at all.
Working == {"lock", "request", "create", "find", "full", "rest"}
Ending == {"commit", "rollback"}
Holding == Working \cup Ending \cup {"release"}

\* A Run that has an import, and adds rows to it.
Saving == {"find", "full", "rest"}

ClientState == [out : BOOLEAN, tx : {"none", "open", "aborted", "broken"},
                rows : SUBSET Row, lock : SUBSET (Source \X Id)]

RunState == [pc : Holding \cup {"over", "begin", "retrieve", "connect", "ready"},
             c : 0..PoolSize, import : 0..MaxImports, answer : SUBSET Part,
             then : {"over", "ready", "receive"}]

Shapes ==
    /\ table \in SUBSET Row
    /\ answered \in SUBSET Row
    /\ made \in [Source -> 0..MaxImports]
    /\ last \in [Source -> 0..MaxImports]
    /\ fresh \in [Source -> BOOLEAN]
    /\ status \in [Source -> {"ready", "polling"}]
    /\ alive \in [Server -> BOOLEAN]
    /\ idle \in [Server -> Seq(Client)]
    /\ client \in [Server -> [Client -> ClientState]]
    /\ run \in [Server -> [Source -> RunState]]
    /\ faults \in 0..MaxFaults

\* The last import of a source is in the table; what a client's transaction
\* wrote and locked is gone once it is not open.
LastIsRow == \A s \in Source : last[s] # 0 => <<s, last[s], "import">> \in table

NoneLeft ==
    \A v \in Server, c \in Client :
        client[v][c].tx # "open" => client[v][c].rows = {} /\ client[v][c].lock = {}

\* A Run that holds a client holds one of the pool's, and a Run that saves has
\* an import.
Held ==
    \A v \in Server, s \in Source :
        /\ run[v][s].pc \in Holding => run[v][s].c \in Client
        /\ run[v][s].pc \in Saving => run[v][s].import \in Id

Typed == Shapes /\ LastIsRow /\ NoneLeft /\ Held

LEMMA TypedTypeOK == Typed => TypeOK
BY SMT DEF Typed, Shapes, LastIsRow, NoneLeft, Held, TypeOK, ClientState, RunState

-----------------------------------------------------------------------------
(* Operators of the model *)

\* A set of ids that is not empty has a largest one.
LEMMA LargestId ==
    ASSUME NEW S \in SUBSET Id, S # {}
    PROVE  \E i \in S : \A j \in S : j <= i
<1> DEFINE T == {MaxImports - i : i \in S}
<1>1. MaxImports \in Nat
    BY PollingAssumption
<1>2. T \subseteq Nat /\ T # {}
    <2>1. PICK i : i \in S
        OBVIOUS
    <2>2. MaxImports - i \in T
        BY <2>1
    <2>3. ASSUME NEW j \in S
          PROVE  MaxImports - j \in Nat
        BY <1>1 DEF Id
    <2> QED BY <2>2, <2>3
<1>3. PICK x \in T : \A y \in T : ~(<<y, x>> \in OpToRel(<, Nat))
    BY <1>2, WFMin, NatLessThanWellFounded
<1>4. \A y \in T : ~(y < x)
    BY <1>2, <1>3 DEF OpToRel
<1>5. PICK i \in S : x = MaxImports - i
    OBVIOUS
<1>6. \A j \in S : j <= i
    BY <1>1, <1>4, <1>5 DEF Id
<1> QED BY <1>6

\* Committing rows keeps the shape of the tables, and the last import in them.
LEMMA CommittedTyped ==
    ASSUME Shapes, LastIsRow, NEW rows \in SUBSET Row, Committed(rows)
    PROVE  /\ table' = table \cup rows
           /\ table' \in SUBSET Row
           /\ last' \in [Source -> 0..MaxImports]
           /\ fresh' \in [Source -> BOOLEAN]
           /\ LastIsRow'
<1> DEFINE new(s) == {r[2] : r \in {x \in rows : x[1] = s /\ x[3] = "import"}}
<1>1. table' = table \cup rows /\ table' \in SUBSET Row
    BY DEF Committed, Shapes
<1>2. \A s \in Source : new(s) \in SUBSET Id
    BY DEF Row
<1>3. ASSUME NEW s \in Source
      PROVE  last'[s] = IF new(s) = {} THEN last[s] ELSE CHOOSE i \in new(s) : \A j \in new(s) : j <= i
    BY <1>3 DEF Committed
<1>4. ASSUME NEW s \in Source, new(s) # {}
      PROVE  last'[s] \in new(s)
    <2>1. \E i \in new(s) : \A j \in new(s) : j <= i
        BY <1>2, <1>4, LargestId
    <2>2. last'[s] = CHOOSE i \in new(s) : \A j \in new(s) : j <= i
        BY <1>3, <1>4
    <2> HIDE DEF new
    <2> QED BY <2>1, <2>2, Zenon
<1>5. ASSUME NEW s \in Source
      PROVE  last'[s] \in 0..MaxImports /\ (last'[s] # 0 => <<s, last'[s], "import">> \in table')
    <2>1. CASE new(s) = {}
        BY <1>1, <1>3, <2>1 DEF Shapes, LastIsRow
    <2>2. CASE new(s) # {}
        <3>1. PICK r \in rows : r[1] = s /\ r[3] = "import" /\ last'[s] = r[2]
            BY <1>4, <2>2
        <3>2. r = <<s, last'[s], "import">> /\ last'[s] \in Id
            BY <3>1 DEF Row
        <3> QED BY <1>1, <3>1, <3>2, PollingAssumption DEF Id
    <2> QED BY <2>1, <2>2
<1>6. DOMAIN last' = Source /\ last' = [s \in Source |-> last'[s]]
    BY DEF Committed
<1>7. fresh' \in [Source -> BOOLEAN]
    BY DEF Committed, Shapes
<1> QED BY <1>1, <1>5, <1>6, <1>7 DEF LastIsRow

\* One Run, or one client, gets a new record that is of its type.
LEMMA RunTyped ==
    ASSUME Typed, NEW v \in Server, NEW s \in Source, NEW r \in RunState,
           r.pc \in Holding => r.c \in Client,
           r.pc \in Saving => r.import \in Id,
           run' = [run EXCEPT ![v][s] = r]
    PROVE  run' \in [Server -> [Source -> RunState]] /\ Held'
BY DEF Typed, Shapes, Held

LEMMA ClientTyped ==
    ASSUME Typed, NEW v \in Server, NEW c \in Client, NEW k \in ClientState,
           k.tx # "open" => k.rows = {} /\ k.lock = {},
           client' = [client EXCEPT ![v][c] = k]
    PROVE  client' \in [Server -> [Client -> ClientState]] /\ NoneLeft'
BY DEF Typed, Shapes, NoneLeft

\* The record a Run has after it went to "to".
After(r, to) == IF to = "over" THEN NoRun ELSE [r EXCEPT !.pc = to]

LEMMA NoRunTyped == NoRun \in RunState
BY PollingAssumption DEF NoRun, RunState

LEMMA GoTyped ==
    ASSUME Typed, NEW v \in Server, NEW s \in Source, NEW from, NEW to,
           Go(v, s, from, to),
           to \in Holding \cup {"over", "begin", "retrieve", "connect", "ready"},
           to \in Holding => from \in Holding,
           to \in Saving => from \in Saving
    PROVE  /\ run' = [run EXCEPT ![v][s] = After(run[v][s], to)]
           /\ run' \in [Server -> [Source -> RunState]]
           /\ Held'
<1>1. run[v][s] \in RunState /\ run[v][s].pc = from
    BY DEF Typed, Shapes, Go
<1>2. run' = [run EXCEPT ![v][s] = After(run[v][s], to)]
    BY DEF Go, After
<1>3. After(run[v][s], to) \in RunState
    BY <1>1, NoRunTyped DEF After, RunState
<1>4. /\ After(run[v][s], to).pc \in Holding => After(run[v][s], to).c \in Client
      /\ After(run[v][s], to).pc \in Saving => After(run[v][s], to).import \in Id
    BY <1>1 DEF After, NoRun, Typed, Held, RunState, Holding, Saving, Working, Ending
<1> QED BY <1>2, <1>3, <1>4, RunTyped

\* A statement keeps the types of what it writes.
LEMMA WriteTyped ==
    ASSUME Typed, NEW v \in Server, NEW c \in Client, NEW rows \in SUBSET Row, Write(v, c, rows)
    PROVE  /\ table' \in SUBSET Row
           /\ last' \in [Source -> 0..MaxImports]
           /\ fresh' \in [Source -> BOOLEAN]
           /\ client' \in [Server -> [Client -> ClientState]]
           /\ LastIsRow' /\ NoneLeft'
<1>1. CASE client[v][c].tx = "open" /\ client' = [client EXCEPT ![v][c].rows = @ \cup rows] /\ UNCHANGED <<table, last, fresh>>
    <2> DEFINE k == [client[v][c] EXCEPT !.rows = @ \cup rows]
    <2>1. client[v][c] \in ClientState
        BY DEF Typed, Shapes
    <2>2. k \in ClientState /\ k.tx = "open"
        BY <1>1, <2>1 DEF ClientState
    <2>3. client' = [client EXCEPT ![v][c] = k]
        BY <1>1
    <2>4. client' \in [Server -> [Client -> ClientState]] /\ NoneLeft'
        BY <2>2, <2>3, ClientTyped
    <2> QED BY <1>1, <2>4 DEF Typed, Shapes, LastIsRow
<1>2. CASE client[v][c].tx = "none" /\ Committed(rows) /\ UNCHANGED client
    BY <1>2, CommittedTyped DEF Typed, Shapes, NoneLeft
<1> QED BY <1>1, <1>2 DEF Write

\* So do a statement's failure, the end of a transaction and that of a connection.
LEMMA SpoiltTyped ==
    ASSUME Typed, NEW v \in Server, NEW c \in Client,
           client' \in {Spoilt(v, c), Ended(v, c), Broken(v, c)}
    PROVE  client' \in [Server -> [Client -> ClientState]] /\ NoneLeft'
<1> DEFINE old == client[v][c]
<1>1. old \in ClientState
    BY DEF Typed, Shapes
<1>2. CASE client' = Spoilt(v, c)
    <2> DEFINE k == IF old.tx = "open" THEN [old EXCEPT !.tx = "aborted", !.rows = {}, !.lock = {}] ELSE old
    <2>1. client' = [client EXCEPT ![v][c] = k]
        BY <1>2 DEF Spoilt
    <2>2. k \in ClientState /\ (k.tx # "open" => k.rows = {} /\ k.lock = {})
        BY <1>1 DEF ClientState, Typed, NoneLeft
    <2> QED BY <2>1, <2>2, ClientTyped
<1>3. CASE client' = Ended(v, c)
    <2> DEFINE k == [old EXCEPT !.tx = "none", !.rows = {}, !.lock = {}]
    <2>1. client' = [client EXCEPT ![v][c] = k]
        BY <1>3 DEF Ended
    <2>2. k \in ClientState /\ k.rows = {} /\ k.lock = {}
        BY <1>1 DEF ClientState
    <2> QED BY <2>1, <2>2, ClientTyped
<1>4. CASE client' = Broken(v, c)
    <2> DEFINE k == [old EXCEPT !.tx = "broken", !.rows = {}, !.lock = {}]
    <2>1. client' = [client EXCEPT ![v][c] = k]
        BY <1>4 DEF Broken
    <2>2. k \in ClientState /\ k.rows = {} /\ k.lock = {}
        BY <1>1 DEF ClientState
    <2> QED BY <2>1, <2>2, ClientTyped
<1> QED BY <1>2, <1>3, <1>4

\* The client that the pool hands out next is one of it, and the rest of them stay.
LEMMA TopTyped ==
    ASSUME Typed, NEW v \in Server, idle[v] # <<>>
    PROVE  /\ Len(idle[v]) \in Nat \ {0}
           /\ Top(v) \in Client
           /\ SubSeq(idle[v], 1, Len(idle[v]) - 1) \in Seq(Client)
           /\ Len(SubSeq(idle[v], 1, Len(idle[v]) - 1)) = Len(idle[v]) - 1
           /\ \A k \in 1..(Len(idle[v]) - 1) : SubSeq(idle[v], 1, Len(idle[v]) - 1)[k] = idle[v][k]
<1> DEFINE q == idle[v]
<1>1. q \in Seq(Client)
    BY DEF Typed, Shapes
<1>2. Len(q) \in Nat \ {0} /\ \A k \in 1..Len(q) : q[k] \in Client
    BY <1>1
<1>3. \A k \in 1..(Len(q) - 1) : q[k] \in Client
    BY <1>2
<1>4. /\ SubSeq(q, 1, Len(q) - 1) \in Seq(Client)
      /\ Len(SubSeq(q, 1, Len(q) - 1)) = IF 1 <= Len(q) - 1 THEN (Len(q) - 1) - 1 + 1 ELSE 0
      /\ \A k \in 1..((Len(q) - 1) - 1 + 1) : SubSeq(q, 1, Len(q) - 1)[k] = q[1 + k - 1]
    <2>1. 1 \in Int /\ Len(q) - 1 \in Int
        BY <1>2
    <2> HIDE DEF q
    <2> QED BY <1>3, <2>1, SubSeqProperties
<1>5. Top(v) \in Client
    BY <1>2 DEF Top
<1>6. ASSUME NEW k \in 1..(Len(q) - 1)
      PROVE  SubSeq(q, 1, Len(q) - 1)[k] = q[k]
    <2>1. k \in 1..((Len(q) - 1) - 1 + 1) /\ 1 + k - 1 = k
        BY <1>2
    <2> QED BY <1>4, <2>1
<1>7. Len(SubSeq(q, 1, Len(q) - 1)) = Len(q) - 1
    BY <1>2, <1>4
<1> QED BY <1>2, <1>4, <1>5, <1>6, <1>7

-----------------------------------------------------------------------------
(* The type invariant *)

\* The record a Run has after completeTransaction or rollbackTransaction.
AfterEnd(me) ==
    IF me.then = "receive" THEN [NoRun EXCEPT !.pc = "commit", !.c = me.c, !.then = "ready"]
    ELSE IF me.then = "ready" THEN [NoRun EXCEPT !.pc = "ready"]
    ELSE NoRun

LEMMA ReturnedTyped ==
    ASSUME Typed, NEW v \in Server, NEW s \in Source, run[v][s].pc \in Holding, Returned(v, s)
    PROVE  /\ run' = [run EXCEPT ![v][s] = AfterEnd(run[v][s])]
           /\ run' \in [Server -> [Source -> RunState]]
           /\ Held'
<1>1. run[v][s] \in RunState
    BY DEF Typed, Shapes
<1>2. run' = [run EXCEPT ![v][s] = AfterEnd(run[v][s])]
    BY <1>1 DEF Returned, AfterEnd, RunState
<1>3. AfterEnd(run[v][s]) \in RunState
    BY <1>1, NoRunTyped DEF AfterEnd, RunState, Holding, Ending
<1>4. /\ AfterEnd(run[v][s]).pc \in Holding => AfterEnd(run[v][s]).c \in Client
      /\ AfterEnd(run[v][s]).pc \notin Saving
    BY <1>1 DEF AfterEnd, NoRun, Typed, Held, RunState, Holding, Saving, Working, Ending
<1> QED BY <1>2, <1>3, <1>4, RunTyped

\* A Run that gives up, or whose ReceiveData ends, goes on with its client.
LEMMA EndingTyped ==
    ASSUME Typed, NEW v \in Server, NEW s \in Source, run[v][s].pc \in Holding,
           NEW how \in Ending, NEW then \in {"over", "ready", "receive"},
           run' = [run EXCEPT ![v][s] = [@ EXCEPT !.pc = how, !.then = then]]
    PROVE  run' \in [Server -> [Source -> RunState]] /\ Held'
<1> DEFINE r == [run[v][s] EXCEPT !.pc = how, !.then = then]
<1>1. run[v][s] \in RunState
    BY DEF Typed, Shapes
<1>2. run' = [run EXCEPT ![v][s] = r]
    OBVIOUS
<1>3. r \in RunState /\ r.pc = how /\ r.c = run[v][s].c
    BY <1>1 DEF RunState, Holding
<1>4. (r.pc \in Holding => r.c \in Client) /\ r.pc \notin Saving
    BY <1>3 DEF Typed, Held, Ending, Saving
<1> QED BY <1>2, <1>3, <1>4, RunTyped

\* Every step of a Run keeps the state typed.
LEMMA TypedRunStep ==
    ASSUME Typed, NEW v \in Server, NEW s \in Source, RunStep(v, s)
    PROVE  Typed'
<1> USE DEF tables
<1>0. Shapes /\ LastIsRow /\ NoneLeft /\ Held /\ run[v][s] \in RunState
    BY DEF Typed, Shapes
<1>f. Fault => faults' \in 0..MaxFaults
    BY <1>0, PollingAssumption DEF Fault, Shapes
<1>h. ASSUME run[v][s].pc \in Holding
      PROVE  /\ run[v][s].c \in Client
             /\ client[v][run[v][s].c] \in ClientState
    BY <1>0, <1>h DEF Held, Shapes
<1>1. CASE SetStatusPolling(v, s)
    <2>1. run' \in [Server -> [Source -> RunState]] /\ Held'
        BY <1>1, GoTyped DEF SetStatusPolling, Holding, Saving, Working, Ending
    <2> QED BY <1>0, <1>1, <2>1 DEF SetStatusPolling, Typed, Shapes, LastIsRow, NoneLeft
<1>2. CASE Retrieve(v, s)
    <2>1. run' \in [Server -> [Source -> RunState]] /\ Held'
        BY <1>2, GoTyped DEF Retrieve, Holding, Saving, Working, Ending
    <2> QED BY <1>0, <1>2, <1>f, <2>1 DEF Retrieve, Typed, Shapes, LastIsRow, NoneLeft
<1>3. CASE StartTransaction(v, s)
    <2> DEFINE k == client[v][Top(v)]
    <2>1. Top(v) \in Client /\ k \in ClientState
        BY <1>0, <1>3, TopTyped DEF StartTransaction, Shapes
    <2>2. idle' \in [Server -> Seq(Client)]
        BY <1>0, <1>3, TopTyped DEF StartTransaction, Shapes
    <2>3. CASE /\ k.tx \in {"none", "open"}
               /\ client' = [client EXCEPT ![v][Top(v)] = [@ EXCEPT !.out = TRUE, !.tx = "open"]]
               /\ run' = [run EXCEPT ![v][s] = [@ EXCEPT !.pc = "lock", !.c = Top(v)]]
               /\ UNCHANGED faults
        <3>1. [k EXCEPT !.out = TRUE, !.tx = "open"] \in ClientState
            BY <2>1 DEF ClientState
        <3>2. client' \in [Server -> [Client -> ClientState]] /\ NoneLeft'
            <4>1. [k EXCEPT !.out = TRUE, !.tx = "open"].tx = "open"
                BY <2>1 DEF ClientState
            <4>2. client' = [client EXCEPT ![v][Top(v)] = [k EXCEPT !.out = TRUE, !.tx = "open"]]
                BY <2>3
            <4> QED BY <2>1, <3>1, <4>1, <4>2, ClientTyped
        <3>3. run' \in [Server -> [Source -> RunState]] /\ Held'
            <4> DEFINE r == [run[v][s] EXCEPT !.pc = "lock", !.c = Top(v)]
            <4>0. Top(v) \in 0..PoolSize
                BY <2>1, PollingAssumption DEF Client
            <4>1. r \in RunState /\ r.c \in Client /\ r.pc \notin Saving
                BY <1>0, <2>1, <4>0 DEF RunState, Saving, Holding, Working
            <4> QED BY <2>3, <4>1, RunTyped
        <3> QED BY <1>0, <1>3, <2>2, <2>3, <3>2, <3>3 DEF StartTransaction, Typed, Shapes, LastIsRow
    <2>4. CASE /\ client' = [client EXCEPT ![v][Top(v)] = [NoClient EXCEPT !.out = TRUE, !.tx = "broken"]]
               /\ Go(v, s, "connect", "over")
               /\ faults' \in 0..MaxFaults
        <3>1. LET b == [NoClient EXCEPT !.out = TRUE, !.tx = "broken"]
              IN  b \in ClientState /\ b.rows = {} /\ b.lock = {}
            BY DEF NoClient, ClientState
        <3>2. client' \in [Server -> [Client -> ClientState]] /\ NoneLeft'
            BY <2>1, <2>4, <3>1, ClientTyped
        <3>3. run' \in [Server -> [Source -> RunState]] /\ Held'
            BY <2>4, GoTyped DEF Holding, Saving, Working, Ending
        <3> QED BY <1>0, <1>3, <2>2, <2>4, <3>2, <3>3 DEF StartTransaction, Typed, Shapes, LastIsRow
    <2>5. CASE /\ k.tx = "aborted"
               /\ client' = [client EXCEPT ![v][Top(v)].out = TRUE]
               /\ Go(v, s, "connect", "over")
               /\ UNCHANGED faults
        <3>1. LET b == [k EXCEPT !.out = TRUE]
              IN  /\ b \in ClientState /\ b.rows = {} /\ b.lock = {}
                  /\ client' = [client EXCEPT ![v][Top(v)] = b]
            BY <1>0, <2>1, <2>5 DEF ClientState, NoneLeft
        <3>2. client' \in [Server -> [Client -> ClientState]] /\ NoneLeft'
            BY <2>1, <3>1, ClientTyped
        <3>3. run' \in [Server -> [Source -> RunState]] /\ Held'
            BY <2>5, GoTyped DEF Holding, Saving, Working, Ending
        <3> QED BY <1>0, <1>3, <2>2, <2>5, <3>2, <3>3 DEF StartTransaction, Typed, Shapes, LastIsRow
    <2> QED BY <1>3, <1>f, <2>3, <2>4, <2>5 DEF StartTransaction
<1>4. CASE FindLastAndLock(v, s)
    <2> DEFINE c == run[v][s].c
               lock == <<s, last[s]>>
    <2>1. run[v][s].pc \in Holding /\ c \in Client /\ client[v][c] \in ClientState
        BY <1>4, <1>h DEF FindLastAndLock, Holding, Working
    <2>2. run' \in [Server -> [Source -> RunState]] /\ Held'
        <3>1. Go(v, s, "lock", "request") \/ GiveUp(v, s)
            BY <1>4 DEF FindLastAndLock
        <3>2. CASE Go(v, s, "lock", "request")
            BY <3>2, GoTyped DEF Holding, Saving, Working, Ending
        <3>3. CASE GiveUp(v, s)
            BY <2>1, <3>3, EndingTyped DEF GiveUp, Ending
        <3> QED BY <3>1, <3>2, <3>3
    <2>3. client' \in [Server -> [Client -> ClientState]] /\ NoneLeft'
        <3>1. CASE UNCHANGED client
            BY <1>0, <3>1 DEF Shapes, NoneLeft
        <3>2. CASE client' = Spoilt(v, c)
            BY <2>1, <3>2, SpoiltTyped
        <3>3. CASE /\ last[s] # 0
                   /\ client' = [client EXCEPT ![v][c].lock = IF client[v][c].tx = "open" THEN @ \cup {lock} ELSE @]
            <4> DEFINE k == [client[v][c] EXCEPT !.lock = IF client[v][c].tx = "open" THEN @ \cup {lock} ELSE @]
            <4>1. lock \in Source \X Id
                BY <1>0, <3>3 DEF Shapes, LastIsRow, Row
            <4>2. k \in ClientState /\ (k.tx # "open" => k.rows = {} /\ k.lock = {})
                BY <1>0, <2>1, <4>1 DEF ClientState, NoneLeft
            <4>3. client' = [client EXCEPT ![v][c] = k]
                BY <3>3
            <4> QED BY <2>1, <4>2, <4>3, ClientTyped
        <3> QED BY <1>4, <3>1, <3>2, <3>3 DEF FindLastAndLock
    <2> QED BY <1>0, <1>4, <2>2, <2>3 DEF FindLastAndLock, Typed, Shapes, LastIsRow
<1>5. CASE Request(v, s)
    <2>1. run[v][s].pc \in Holding
        BY <1>5 DEF Request, Holding, Working
    <2>2. run' \in [Server -> [Source -> RunState]] /\ Held'
        <3>1. CASE run' = [run EXCEPT ![v][s] = [@ EXCEPT !.pc = "commit", !.then = "ready"]]
            BY <2>1, <3>1, EndingTyped DEF Ending
        <3>2. ASSUME NEW answer \in Answers,
                     run' = [run EXCEPT ![v][s] = [@ EXCEPT !.pc = "create", !.answer = answer]]
              PROVE  run' \in [Server -> [Source -> RunState]] /\ Held'
            <4> DEFINE r == [run[v][s] EXCEPT !.pc = "create", !.answer = answer]
            <4>1. answer \in SUBSET Part
                BY PollingAssumption DEF Part
            <4>2. r \in RunState /\ r.c \in Client /\ r.pc \notin Saving
                BY <1>0, <1>h, <2>1, <4>1 DEF RunState, Saving, Holding, Working
            <4> QED BY <3>2, <4>2, RunTyped
        <3> QED BY <1>5, <3>1, <3>2 DEF Request
    <2> QED BY <1>0, <1>5, <2>2 DEF Request, Typed, Shapes, LastIsRow, NoneLeft
<1>6. CASE CreateImport(v, s)
    <2> DEFINE i == made[s] + 1
    <2>1. run[v][s].pc \in Holding
        BY <1>6 DEF CreateImport, Holding, Working
    <2>2. CASE /\ i <= MaxImports
               /\ Write(v, Top(v), {<<s, i, "import">>})
               /\ made' = [made EXCEPT ![s] = i]
               /\ answered' = answered \cup {<<s, i, p>> : p \in run[v][s].answer}
               /\ run' = [run EXCEPT ![v][s] = [@ EXCEPT !.pc = "find", !.import = i]]
               /\ UNCHANGED faults
        <3>1. i \in Id /\ i \in 0..MaxImports
            BY <1>0, <2>2, PollingAssumption DEF Shapes, Id
        <3>2. Top(v) \in Client
            BY <1>6, TopTyped DEF CreateImport, QueryPool
        <3>3. {<<s, i, "import">>} \in SUBSET Row
            BY <3>1 DEF Row
        <3>4. /\ table' \in SUBSET Row
              /\ last' \in [Source -> 0..MaxImports]
              /\ fresh' \in [Source -> BOOLEAN]
              /\ client' \in [Server -> [Client -> ClientState]]
              /\ LastIsRow' /\ NoneLeft'
            BY <2>2, <3>2, <3>3, WriteTyped
        <3>5. answered' \in SUBSET Row /\ made' \in [Source -> 0..MaxImports]
            BY <1>0, <2>2, <3>1 DEF Shapes, Row, RunState
        <3>6. run' \in [Server -> [Source -> RunState]] /\ Held'
            <4> DEFINE r == [run[v][s] EXCEPT !.pc = "find", !.import = i]
            <4>1. r \in RunState /\ r.c \in Client /\ r.import \in Id
                BY <1>0, <1>h, <2>1, <3>1 DEF RunState, Holding, Working
            <4> QED BY <2>2, <4>1, RunTyped
        <3> QED BY <1>0, <1>6, <2>2, <3>4, <3>5, <3>6 DEF CreateImport, Typed, Shapes
    <2>3. CASE /\ Close(v, s, "rollback")
               /\ faults' \in 0..MaxFaults
               /\ UNCHANGED <<table, last, fresh, made, answered, client>>
        <3>1. run' \in [Server -> [Source -> RunState]] /\ Held'
            BY <2>1, <2>3, EndingTyped DEF Close, Ending
        <3> QED BY <1>0, <1>6, <2>3, <3>1 DEF CreateImport, Typed, Shapes, LastIsRow, NoneLeft
    <2>4. faults \in 0..MaxFaults
        BY <1>0 DEF Shapes
    <2> QED BY <1>6, <1>f, <2>2, <2>3, <2>4 DEF CreateImport
<1>7. CASE FindImport(v, s)
    <2>1. run[v][s].pc \in Holding
        BY <1>7 DEF FindImport, Go, Close, Holding, Working
    <2>2. run' \in [Server -> [Source -> RunState]] /\ Held'
        <3>1. Go(v, s, "find", "full") \/ Go(v, s, "find", "rest") \/ Close(v, s, "rollback")
            BY <1>7 DEF FindImport
        <3>2. CASE Go(v, s, "find", "full") \/ Go(v, s, "find", "rest")
            BY <3>2, GoTyped DEF Holding, Saving, Working, Ending
        <3>3. CASE Close(v, s, "rollback")
            BY <2>1, <3>3, EndingTyped DEF Close, Ending
        <3> QED BY <3>1, <3>2, <3>3
    <2> QED BY <1>0, <1>7, <2>2 DEF FindImport, Typed, Shapes, LastIsRow, NoneLeft
<1>w. ASSUME run[v][s].pc \in Saving, NEW part \in Part, Saves(v, s, part) \/ SaveFails(v, s)
      PROVE  /\ table' \in SUBSET Row
             /\ last' \in [Source -> 0..MaxImports]
             /\ fresh' \in [Source -> BOOLEAN]
             /\ client' \in [Server -> [Client -> ClientState]]
             /\ LastIsRow' /\ NoneLeft'
             /\ faults' \in 0..MaxFaults
    <2>1. run[v][s].c \in Client /\ run[v][s].import \in Id
        BY <1>0, <1>h, <1>w DEF Held, Holding, Working, Saving
    <2>2. CASE Saves(v, s, part)
        <3>1. {<<s, run[v][s].import, part>>} \in SUBSET Row
            BY <2>1, <1>w DEF Row
        <3> QED BY <1>0, <2>1, <2>2, <3>1, WriteTyped DEF Saves, SaveRows, Shapes
    <2>3. CASE SaveFails(v, s)
        BY <1>0, <1>f, <2>1, <2>3, SpoiltTyped DEF SaveFails, Shapes, LastIsRow
    <2> QED BY <1>w, <2>2, <2>3
<1>8. CASE SaveFull(v, s)
    <2>1. run[v][s].pc \in Saving /\ "full" \in Part /\ (Saves(v, s, "full") \/ SaveFails(v, s))
        BY <1>8 DEF SaveFull, Go, Saving, Part
    <2>2. run' \in [Server -> [Source -> RunState]] /\ Held'
        BY <1>8, GoTyped DEF SaveFull, Holding, Saving, Working, Ending
    <2> QED BY <1>0, <1>8, <1>w, <2>1, <2>2 DEF SaveFull, Typed, Shapes
<1>9. CASE SaveRest(v, s)
    <2>1. run[v][s].pc \in Saving /\ run[v][s].pc \in Holding /\ "rest" \in Part
        BY <1>9 DEF SaveRest, Saving, Holding, Working, Part
    <2>2. run' \in [Server -> [Source -> RunState]] /\ Held'
        BY <1>9, <2>1, EndingTyped DEF SaveRest, Close, Ending
    <2>3. CASE Saves(v, s, "rest") \/ SaveFails(v, s)
        BY <1>0, <1>9, <1>w, <2>1, <2>2, <2>3 DEF SaveRest, Typed, Shapes
    <2>4. CASE UNCHANGED <<table, last, fresh, client, faults>>
        BY <1>0, <1>9, <2>2, <2>4 DEF SaveRest, Typed, Shapes, LastIsRow, NoneLeft
    <2> QED BY <1>9, <2>3, <2>4 DEF SaveRest
<1>10. CASE Commit(v, s)
    <2> DEFINE me == client[v][run[v][s].c]
    <2>1. run[v][s].pc \in Holding
        BY <1>10 DEF Commit, Go, Holding, Ending
    <2>2. run' \in [Server -> [Source -> RunState]] /\ Held'
        BY <1>10, GoTyped DEF Commit, Holding, Saving, Working, Ending
    <2>3. client' \in [Server -> [Client -> ClientState]] /\ NoneLeft'
        BY <1>10, <1>h, <2>1, SpoiltTyped DEF Commit
    <2>4. /\ table' \in SUBSET Row
          /\ last' \in [Source -> 0..MaxImports]
          /\ fresh' \in [Source -> BOOLEAN]
          /\ LastIsRow'
        <3>1. me.rows \in SUBSET Row
            BY <1>h, <2>1 DEF ClientState
        <3>2. CASE Committed(me.rows)
            BY <1>0, <3>1, <3>2, CommittedTyped
        <3>3. CASE UNCHANGED <<table, last, fresh>>
            BY <1>0, <3>3 DEF Shapes, LastIsRow
        <3> QED BY <1>10, <3>2, <3>3 DEF Commit
    <2> QED BY <1>0, <1>10, <2>2, <2>3, <2>4 DEF Commit, Typed, Shapes
<1>11. CASE EndFails(v, s)
    <2>1. run[v][s].pc \in Holding
        BY <1>11 DEF EndFails, Holding, Ending
    <2>2. run' \in [Server -> [Source -> RunState]] /\ Held'
        BY <1>11, <2>1, ReturnedTyped DEF EndFails
    <2>3. client' \in [Server -> [Client -> ClientState]] /\ NoneLeft'
        BY <1>11, <1>h, <2>1, SpoiltTyped DEF EndFails
    <2>4. faults' \in 0..MaxFaults
        BY <1>0, <1>11, <1>f DEF EndFails, Shapes
    <2> QED BY <1>0, <1>11, <2>2, <2>3, <2>4 DEF EndFails, Typed, Shapes, LastIsRow
<1>12. CASE Rollback(v, s)
    <2>1. run[v][s].pc \in Holding
        BY <1>12 DEF Rollback, Go, Holding, Ending
    <2>2. run' \in [Server -> [Source -> RunState]] /\ Held'
        BY <1>12, GoTyped DEF Rollback, Holding, Saving, Working, Ending
    <2>3. client' \in [Server -> [Client -> ClientState]] /\ NoneLeft'
        BY <1>12, <1>h, <2>1, SpoiltTyped DEF Rollback
    <2> QED BY <1>0, <1>12, <2>2, <2>3 DEF Rollback, Typed, Shapes, LastIsRow
<1>13. CASE Release(v, s)
    <2> DEFINE c == run[v][s].c
    <2>1. run[v][s].pc \in Holding /\ c \in Client /\ client[v][c] \in ClientState
        BY <1>13, <1>h DEF Release, Holding
    <2>2. run' \in [Server -> [Source -> RunState]] /\ Held'
        <3>1. CASE Returned(v, s)
            BY <2>1, <3>1, ReturnedTyped
        <3>2. CASE Go(v, s, "release", "over")
            BY <3>2, GoTyped DEF Holding, Saving, Working, Ending
        <3> QED BY <1>13, <3>1, <3>2 DEF Release
    <2>3. CASE UNCHANGED <<client, idle>>
        BY <1>0, <1>13, <2>2, <2>3 DEF Release, Typed, Shapes, LastIsRow, NoneLeft
    <2>4. CASE /\ client' = [client EXCEPT ![v][c] = IF @.tx = "broken" THEN NoClient ELSE [@ EXCEPT !.out = FALSE]]
               /\ idle' = [idle EXCEPT ![v] = Append(@, c)]
        <3> DEFINE k == IF client[v][c].tx = "broken" THEN NoClient ELSE [client[v][c] EXCEPT !.out = FALSE]
        <3>1. k \in ClientState /\ (k.tx # "open" => k.rows = {} /\ k.lock = {})
            BY <1>0, <2>1 DEF ClientState, NoClient, NoneLeft
        <3>2. client' = [client EXCEPT ![v][c] = k]
            BY <2>4
        <3>3. client' \in [Server -> [Client -> ClientState]] /\ NoneLeft'
            BY <2>1, <3>1, <3>2, ClientTyped
        <3>4. idle[v] \in Seq(Client)
            BY <1>0 DEF Shapes
        <3>5. idle' \in [Server -> Seq(Client)]
            BY <1>0, <2>1, <2>4, <3>4, AppendProperties DEF Shapes
        <3> QED BY <1>0, <1>13, <2>2, <3>3, <3>5 DEF Release, Typed, Shapes, LastIsRow
    <2> QED BY <1>13, <2>3, <2>4 DEF Release
<1>14. CASE SetStatusReady(v, s)
    <2>1. run' \in [Server -> [Source -> RunState]] /\ Held'
        BY <1>14, GoTyped DEF SetStatusReady, Holding, Saving, Working, Ending
    <2> QED BY <1>0, <1>14, <2>1 DEF SetStatusReady, Typed, Shapes, LastIsRow, NoneLeft
<1> QED BY <1>1, <1>2, <1>3, <1>4, <1>5, <1>6, <1>7, <1>8, <1>9, <1>10, <1>11, <1>12, <1>13, <1>14 DEF RunStep

LEMMA TypedInit == Init => Typed
BY PollingAssumption, NoRunTyped
   DEF Init, Typed, Shapes, LastIsRow, NoneLeft, Held, ClientState, NoClient, NoRun, Holding, Working, Ending, Saving

LEMMA TypedNext == Typed /\ [Next]_vars => Typed'
<1> SUFFICES ASSUME Typed, [Next]_vars
             PROVE  Typed'
    OBVIOUS
<1> USE DEF tables
<1>0. Shapes /\ LastIsRow /\ NoneLeft /\ Held
    BY DEF Typed
<1>1. ASSUME NEW v \in Server, StartThread(v)
      PROVE  Typed'
    <2>1. [c \in Client |-> c] \in Seq(Client)
        BY PollingAssumption, IsASeq DEF Client
    <2>2. [NoRun EXCEPT !.pc = "begin"] \in RunState
        BY NoRunTyped DEF RunState
    <2>3. idle' \in [Server -> Seq(Client)]
        BY <1>0, <1>1, <2>1 DEF StartThread, Shapes
    <2>4. run' \in [Server -> [Source -> RunState]] /\ Held'
        BY <1>0, <1>1, <2>2 DEF StartThread, Shapes, Held, NoRun, Holding, Working, Ending, Saving
    <2>5. client' \in [Server -> [Client -> ClientState]] /\ NoneLeft'
        BY <1>0, <1>1 DEF StartThread, Shapes, NoneLeft, ClientState, NoClient
    <2> QED BY <1>0, <1>1, <2>3, <2>4, <2>5 DEF StartThread, Typed, Shapes, LastIsRow
<1>2. ASSUME NEW v \in Server, Terminate(v)
      PROVE  Typed'
    <2>1. <<>> \in Seq(Client)
        OBVIOUS
    <2>2. idle' \in [Server -> Seq(Client)]
        BY <1>0, <1>2, <2>1 DEF Terminate, Shapes
    <2>3. run' \in [Server -> [Source -> RunState]] /\ Held'
        BY <1>0, <1>2, NoRunTyped DEF Terminate, Shapes, Held, NoRun, Holding, Working, Ending, Saving
    <2>4. client' \in [Server -> [Client -> ClientState]] /\ NoneLeft'
        BY <1>0, <1>2 DEF Terminate, Shapes, NoneLeft, ClientState, NoClient
    <2> QED BY <1>0, <1>2, <2>2, <2>3, <2>4 DEF Terminate, Typed, Shapes, LastIsRow
<1>3. ASSUME NEW s \in Source, Elapse(s)
      PROVE  Typed'
    BY <1>0, <1>3 DEF Elapse, Typed, Shapes, LastIsRow, NoneLeft, Held
<1>4. ASSUME NEW s \in Source, NEW i \in Id, Touch(s, i)
      PROVE  Typed'
    <2>1. i \in 0..MaxImports
        BY PollingAssumption DEF Id
    <2>2. last' \in [Source -> 0..MaxImports] /\ fresh' \in [Source -> BOOLEAN]
        BY <1>0, <1>4, <2>1 DEF Touch, Shapes
    <2>3. LastIsRow'
        BY <1>0, <1>4 DEF Touch, Shapes, LastIsRow
    <2> QED BY <1>0, <1>4, <2>2, <2>3 DEF Touch, Typed, Shapes, NoneLeft, Held
<1>5. CASE UNCHANGED vars
    BY <1>0, <1>5 DEF vars, Typed, Shapes, LastIsRow, NoneLeft, Held
<1> QED BY <1>1, <1>2, <1>3, <1>4, <1>5, TypedRunStep DEF Next

\* The state has its type, rows and locks belong to open transactions only, and
\* the last import of a source is in the table.
THEOREM TypeCorrect == Spec => []TypeOK
<1>1. Spec => []Typed
    BY TypedInit, TypedNext, PTL DEF Spec
<1> QED BY <1>1, TypedTypeOK, PTL

-----------------------------------------------------------------------------
(* What a step of a Run does *)

\* A step of one Run leaves the other Runs, and what the other servers keep, alone.
LEMMA RunFrame ==
    ASSUME Typed, NEW v \in Server, NEW s \in Source, RunStep(v, s)
    PROVE  /\ alive' = alive
           /\ \A w \in Server \ {v} : idle'[w] = idle[w] /\ client'[w] = client[w] /\ run'[w] = run[w]
           /\ \A t \in Source \ {s} : run'[v][t] = run[v][t]
           /\ run[v][s].pc # "over"
<1> USE DEF tables
<1> DEFINE Runs == /\ \A w \in Server \ {v} : run'[w] = run[w]
                   /\ \A t \in Source \ {s} : run'[v][t] = run[v][t]
           Clients == \A w \in Server \ {v} : client'[w] = client[w]
           Pools == alive' = alive /\ \A w \in Server \ {v} : idle'[w] = idle[w]
<1>0. run \in [Server -> [Source -> RunState]] /\ client \in [Server -> [Client -> ClientState]]
    BY DEF Typed, Shapes
<1>a. ASSUME NEW r, run' = [run EXCEPT ![v][s] = r]
      PROVE  Runs
    BY <1>0, <1>a
<1>b. ASSUME NEW r, client' = [client EXCEPT ![v] = r]
      PROVE  Clients
    BY <1>0, <1>b
<1>c. UNCHANGED client => Clients
    OBVIOUS
<1> HIDE DEF Clients
<1>1. /\ \A f, t : Go(v, s, f, t) => Runs
      /\ \A how : Close(v, s, how) => Runs
      /\ GiveUp(v, s) => Runs
      /\ Returned(v, s) => Runs
    BY <1>a DEF Go, Close, GiveUp, Returned
<1>2. ASSUME NEW c, NEW rows, Write(v, c, rows)
      PROVE  Clients
    BY <1>2, <1>0, <1>c DEF Write, Clients
<1>3. ASSUME NEW c, client' \in {Spoilt(v, c), Ended(v, c), Broken(v, c)}
      PROVE  Clients
    BY <1>3, <1>0 DEF Spoilt, Ended, Broken, Clients
<1>4. CASE SetStatusPolling(v, s) \/ Retrieve(v, s) \/ SetStatusReady(v, s)
    <2>1. Pools /\ Clients /\ run[v][s].pc # "over"
        BY <1>4, <1>c DEF SetStatusPolling, Retrieve, SetStatusReady, Go
    <2>2. Runs
        BY <1>4, <1>1 DEF SetStatusPolling, Retrieve, SetStatusReady
    <2> QED BY <2>1, <2>2 DEF Clients
<1>5. CASE StartTransaction(v, s)
    <2>1. Pools /\ run[v][s].pc # "over"
        BY <1>5 DEF StartTransaction, Typed, Shapes
    <2>2. Clients
        BY <1>5, <1>0 DEF StartTransaction, Clients
    <2>3. Runs
        BY <1>5, <1>1, <1>a DEF StartTransaction
    <2> QED BY <2>1, <2>2, <2>3 DEF Clients
<1>6. CASE FindLastAndLock(v, s)
    <2>1. Pools /\ run[v][s].pc # "over"
        BY <1>6 DEF FindLastAndLock
    <2>2. Clients
        BY <1>6, <1>c, <1>3, <1>0 DEF FindLastAndLock, Clients
    <2>3. Runs
        BY <1>6, <1>1 DEF FindLastAndLock
    <2> QED BY <2>1, <2>2, <2>3 DEF Clients
<1>7. CASE Request(v, s)
    <2>1. Pools /\ Clients /\ run[v][s].pc # "over"
        BY <1>7, <1>c DEF Request
    <2>2. Runs
        BY <1>7, <1>a DEF Request
    <2> QED BY <2>1, <2>2 DEF Clients
<1>8. CASE CreateImport(v, s)
    <2>1. Pools /\ run[v][s].pc # "over"
        BY <1>8 DEF CreateImport
    <2>2. Clients
        BY <1>8, <1>2, <1>c DEF CreateImport
    <2>3. Runs
        BY <1>8, <1>1, <1>a DEF CreateImport
    <2> QED BY <2>1, <2>2, <2>3 DEF Clients
<1>9. CASE FindImport(v, s)
    <2>1. Pools /\ Clients /\ run[v][s].pc # "over"
        BY <1>9, <1>c DEF FindImport
    <2>2. Runs
        BY <1>9, <1>1 DEF FindImport
    <2> QED BY <2>1, <2>2 DEF Clients
<1>10. CASE SaveFull(v, s) \/ SaveRest(v, s)
    <2>1. Pools /\ run[v][s].pc # "over"
        BY <1>10 DEF SaveFull, SaveRest, Go
    <2>2. Clients
        BY <1>10, <1>2, <1>3, <1>c DEF SaveFull, SaveRest, Saves, SaveRows, SaveFails
    <2>3. Runs
        BY <1>10, <1>1 DEF SaveFull, SaveRest
    <2> QED BY <2>1, <2>2, <2>3 DEF Clients
<1>11. CASE Commit(v, s) \/ Rollback(v, s) \/ EndFails(v, s)
    <2>1. Pools /\ run[v][s].pc # "over"
        BY <1>11 DEF Commit, Rollback, EndFails, Go
    <2>2. Clients
        BY <1>11, <1>3 DEF Commit, Rollback, EndFails
    <2>3. Runs
        BY <1>11, <1>1 DEF Commit, Rollback, EndFails
    <2> QED BY <2>1, <2>2, <2>3 DEF Clients
<1>12. CASE Release(v, s)
    <2>1. Pools /\ run[v][s].pc # "over"
        BY <1>12 DEF Release, Typed, Shapes
    <2>2. Clients
        BY <1>12, <1>0, <1>c DEF Release, Clients
    <2>3. Runs
        BY <1>12, <1>1 DEF Release
    <2> QED BY <2>1, <2>2, <2>3 DEF Clients
<1> QED BY <1>4, <1>5, <1>6, <1>7, <1>8, <1>9, <1>10, <1>11, <1>12 DEF RunStep

\* The steps between the start of the transaction and its end take no client
\* from the pool and give none back; a transaction that was open may be spoilt.
LEMMA WorkingSteps ==
    ASSUME Typed, NEW v \in Server, NEW s \in Source,
           \/ FindLastAndLock(v, s) \/ Request(v, s) \/ CreateImport(v, s)
           \/ FindImport(v, s) \/ SaveFull(v, s) \/ SaveRest(v, s)
    PROVE  /\ run[v][s].pc \in Working /\ run'[v][s].pc \in Working \cup Ending
           /\ run'[v][s].c = run[v][s].c
           /\ idle' = idle
           /\ \A d \in Client :
                 /\ client'[v][d].out = client[v][d].out
                 /\ client'[v][d].tx \in {client[v][d].tx, IF client[v][d].tx = "open" THEN "aborted" ELSE client[v][d].tx}
<1> USE DEF tables, Working, Ending
<1>0. run[v][s] \in RunState /\ \A d \in Client : client[v][d] \in ClientState
    BY DEF Typed, Shapes
<1>1. \A how : Close(v, s, how) => run'[v][s].pc = how /\ run'[v][s].c = run[v][s].c
    BY <1>0 DEF Close, Typed, Shapes, RunState
<1>2. GiveUp(v, s) => run'[v][s].pc = "commit" /\ run'[v][s].c = run[v][s].c
    BY <1>0 DEF GiveUp, Typed, Shapes, RunState
<1>3. \A f, t : Go(v, s, f, t) /\ t # "over" => run[v][s].pc = f /\ run'[v][s].pc = t /\ run'[v][s].c = run[v][s].c
    BY <1>0 DEF Go, Typed, Shapes, RunState
<1> DEFINE Keeps == \A d \in Client :
                        /\ client'[v][d].out = client[v][d].out
                        /\ client'[v][d].tx \in {client[v][d].tx, IF client[v][d].tx = "open" THEN "aborted" ELSE client[v][d].tx}
<1>4. UNCHANGED client => Keeps
    OBVIOUS
<1>5. ASSUME NEW c \in Client, NEW rows, Write(v, c, rows)
      PROVE  Keeps
    <2>1. CASE client' = [client EXCEPT ![v][c].rows = @ \cup rows]
        <3> DEFINE k == [client[v][c] EXCEPT !.rows = @ \cup rows]
        <3>1. k.out = client[v][c].out /\ k.tx = client[v][c].tx
            BY <1>0 DEF ClientState
        <3>2. client' = [client EXCEPT ![v][c] = k]
            BY <2>1
        <3> HIDE DEF k
        <3>3. client'[v][c] = k /\ \A d \in Client \ {c} : client'[v][d] = client[v][d]
            BY <3>2 DEF Typed, Shapes
        <3> QED BY <3>1, <3>3
    <2> QED BY <1>4, <1>5, <2>1 DEF Write
<1>6. ASSUME NEW c \in Client, client' = Spoilt(v, c)
      PROVE  Keeps
    <2> DEFINE k == IF client[v][c].tx = "open" THEN [client[v][c] EXCEPT !.tx = "aborted", !.rows = {}, !.lock = {}]
                    ELSE client[v][c]
    <2>1. k.out = client[v][c].out /\ k.tx = IF client[v][c].tx = "open" THEN "aborted" ELSE client[v][c].tx
        BY <1>0 DEF ClientState
    <2>2. client' = [client EXCEPT ![v][c] = k]
        BY <1>6 DEF Spoilt
    <2> HIDE DEF k
    <2>3. client'[v][c] = k /\ \A d \in Client \ {c} : client'[v][d] = client[v][d]
        BY <2>2 DEF Typed, Shapes
    <2> QED BY <2>1, <2>3
<1>7. CASE FindLastAndLock(v, s)
    <2>1. run[v][s].pc = "lock" /\ idle' = idle
        BY <1>7 DEF FindLastAndLock
    <2>2. run[v][s].c \in Client
        BY <2>1 DEF Typed, Held, Holding
    <2>3. Keeps
        <3>1. CASE client' = [client EXCEPT ![v][run[v][s].c].lock =
                                 IF client[v][run[v][s].c].tx = "open" THEN @ \cup {<<s, last[s]>>} ELSE @]
            <4> DEFINE c == run[v][s].c
                       k == [client[v][c] EXCEPT !.lock =
                                 IF client[v][c].tx = "open" THEN @ \cup {<<s, last[s]>>} ELSE @]
            <4>1. k.out = client[v][c].out /\ k.tx = client[v][c].tx
                BY <1>0, <2>2 DEF ClientState
            <4>2. client' = [client EXCEPT ![v][c] = k]
                BY <3>1
            <4> HIDE DEF k
            <4>3. client'[v][c] = k /\ \A d \in Client \ {c} : client'[v][d] = client[v][d]
                BY <2>2, <4>2 DEF Typed, Shapes
            <4> QED BY <4>1, <4>3
        <3> QED BY <1>4, <1>6, <1>7, <2>2, <3>1 DEF FindLastAndLock
    <2>4. Go(v, s, "lock", "request") \/ GiveUp(v, s)
        BY <1>7 DEF FindLastAndLock
    <2> QED BY <1>2, <1>3, <2>1, <2>3, <2>4
<1>8. CASE Request(v, s)
    <2>1. run[v][s].pc = "request" /\ idle' = idle /\ UNCHANGED client
        BY <1>8 DEF Request
    <2>2. run'[v][s].pc \in {"commit", "create"} /\ run'[v][s].c = run[v][s].c
        <3>1. CASE run' = [run EXCEPT ![v][s] = [@ EXCEPT !.pc = "commit", !.then = "ready"]]
            BY <1>0, <3>1 DEF Typed, Shapes, RunState
        <3>2. ASSUME NEW answer, run' = [run EXCEPT ![v][s] = [@ EXCEPT !.pc = "create", !.answer = answer]]
              PROVE  run'[v][s].pc = "create" /\ run'[v][s].c = run[v][s].c
            BY <1>0, <3>2 DEF Typed, Shapes, RunState
        <3> QED BY <1>8, <3>1, <3>2 DEF Request
    <2> QED BY <1>4, <2>1, <2>2
<1>9. CASE CreateImport(v, s)
    <2>1. run[v][s].pc = "create" /\ idle' = idle /\ Top(v) \in Client
        BY <1>9, TopTyped DEF CreateImport, QueryPool
    <2>2. Keeps
        BY <1>4, <1>5, <1>9, <2>1 DEF CreateImport
    <2>3. run'[v][s].pc \in {"find", "rollback"} /\ run'[v][s].c = run[v][s].c
        <3>1. CASE Close(v, s, "rollback")
            BY <1>1, <3>1
        <3>2. CASE run' = [run EXCEPT ![v][s] = [@ EXCEPT !.pc = "find", !.import = made[s] + 1]]
            BY <1>0, <3>2 DEF Typed, Shapes, RunState
        <3> QED BY <1>9, <3>1, <3>2 DEF CreateImport
    <2> QED BY <2>1, <2>2, <2>3
<1>10. CASE FindImport(v, s)
    BY <1>1, <1>3, <1>4, <1>10 DEF FindImport
<1>11. CASE SaveFull(v, s) \/ SaveRest(v, s)
    <2>1. run[v][s].pc \in {"full", "rest"} /\ idle' = idle
        BY <1>11 DEF SaveFull, SaveRest, Go
    <2>2. run[v][s].c \in Client
        BY <2>1 DEF Typed, Held, Holding
    <2>3. Keeps
        BY <1>4, <1>5, <1>6, <1>11, <2>2 DEF SaveFull, SaveRest, Saves, SaveRows, SaveFails
    <2>4. run'[v][s].pc \in {"rest", "commit", "rollback"} /\ run'[v][s].c = run[v][s].c
        BY <1>1, <1>3, <1>11 DEF SaveFull, SaveRest
    <2> QED BY <2>1, <2>3, <2>4
<1> QED BY <1>7, <1>8, <1>9, <1>10, <1>11

-----------------------------------------------------------------------------
(* The clients of a thread's pool *)

\* A thread that ended has no Runs.
ThreadRuns(v) == ~alive[v] => \A s \in Source : run[v][s].pc = "over"

InPool(v, c) == \E k \in DOMAIN idle[v] : idle[v][k] = c

\* A client is in the pool, once, exactly when its latest checkout was
\* released, whoever did that.
PoolKept(v) ==
    /\ alive[v] => \A c \in Client : InPool(v, c) <=> ~client[v][c].out
    /\ \A j, k \in DOMAIN idle[v] : idle[v][j] = idle[v][k] => j = k

\* A Run has client c and will release it; and will end its transaction before.
Keeper(v, c) == \E s \in Source : run[v][s].c = c /\ run[v][s].pc \in Holding
Ender(v, c) == \E s \in Source : run[v][s].c = c /\ run[v][s].pc \in Working \cup Ending

ClientKept(v, c) ==
    /\ client[v][c].tx = "broken" => client[v][c].out
    /\ client[v][c].out => client[v][c].tx = "broken" \/ Keeper(v, c)
    /\ client[v][c].tx \in {"open", "aborted"} => Ender(v, c)

PoolInv == \A v \in Server : ThreadRuns(v) /\ PoolKept(v) /\ \A c \in Client : ClientKept(v, c)

LEMMA PoolInvNoClientLost == Typed /\ PoolInv => NoClientLost
<1> SUFFICES ASSUME Typed, PoolInv, NEW v \in Server, alive[v], \A s \in Source : run[v][s].pc = "over"
             PROVE  /\ \A c \in Client : (client[v][c].tx # "broken") <=> InPool(v, c)
                    /\ \A j, k \in DOMAIN idle[v] : idle[v][j] = idle[v][k] => j = k
                    /\ \A c \in Client : client[v][c].tx \notin {"open", "aborted"}
    BY DEF NoClientLost, InPool
<1>1. \A c \in Client : ~Keeper(v, c) /\ ~Ender(v, c)
    BY DEF Keeper, Ender, Holding, Working, Ending
<1>2. \A c \in Client : client[v][c].out \in BOOLEAN
    BY DEF Typed, Shapes, ClientState
<1> QED BY <1>1, <1>2 DEF PoolInv, PoolKept, ClientKept

\* Taking the client the pool hands out next takes that one only.
LEMMA PoolTakes ==
    ASSUME Typed, NEW v \in Server, idle[v] # <<>>, PoolKept(v), alive[v],
           idle' = [idle EXCEPT ![v] = SubSeq(@, 1, Len(@) - 1)]
    PROVE  /\ \A c \in Client : InPool(v, c)' <=> InPool(v, c) /\ c # Top(v)
           /\ \A j, k \in DOMAIN idle'[v] : idle'[v][j] = idle'[v][k] => j = k
<1> DEFINE q == idle[v]
           p == SubSeq(q, 1, Len(q) - 1)
<1>1. q \in Seq(Client) /\ idle'[v] = p
    BY DEF Typed, Shapes
<1>2. /\ Len(q) \in Nat \ {0} /\ DOMAIN q = 1..Len(q)
      /\ p \in Seq(Client) /\ Len(p) = Len(q) - 1 /\ DOMAIN p = 1..(Len(q) - 1)
      /\ \A k \in 1..(Len(q) - 1) : p[k] = q[k]
    <2>1. /\ Len(q) \in Nat \ {0} /\ p \in Seq(Client) /\ Len(p) = Len(q) - 1
          /\ \A k \in 1..(Len(q) - 1) : p[k] = q[k]
        BY TopTyped
    <2>2. DOMAIN q = 1..Len(q) /\ DOMAIN p = 1..Len(p)
        BY <1>1, <2>1, LenProperties
    <2> QED BY <2>1, <2>2
<1>3. q[Len(q)] = Top(v)
    BY DEF Top
<1>4. \A j, k \in DOMAIN q : q[j] = q[k] => j = k
    BY DEF PoolKept
<1> HIDE DEF q, p
<1>5. ASSUME NEW c \in Client
      PROVE  (\E k \in DOMAIN p : p[k] = c) <=> (\E k \in DOMAIN q : q[k] = c) /\ c # Top(v)
    <2>1. ASSUME NEW k \in DOMAIN p, p[k] = c
          PROVE  k \in DOMAIN q /\ q[k] = c /\ c # Top(v)
        BY <1>2, <1>3, <1>4, <2>1
    <2>2. ASSUME NEW k \in DOMAIN q, q[k] = c, c # Top(v)
          PROVE  k \in DOMAIN p /\ p[k] = c
        BY <1>2, <1>3, <2>2
    <2> QED BY <2>1, <2>2
<1>6. \A j, k \in DOMAIN p : p[j] = p[k] => j = k
    BY <1>2, <1>4
<1>7. ASSUME NEW c \in Client
      PROVE  InPool(v, c)' <=> InPool(v, c) /\ c # Top(v)
    <2>1. InPool(v, c)' <=> \E k \in DOMAIN p : p[k] = c
        BY <1>1 DEF InPool
    <2>2. InPool(v, c) <=> \E k \in DOMAIN q : q[k] = c
        BY DEF InPool, q
    <2> QED BY <1>5, <2>1, <2>2
<1> QED BY <1>1, <1>6, <1>7

\* Giving a client back that is not in the pool adds that one only.
LEMMA PoolGains ==
    ASSUME Typed, NEW v \in Server, NEW c \in Client, ~InPool(v, c), PoolKept(v), alive[v],
           idle' = [idle EXCEPT ![v] = Append(@, c)]
    PROVE  /\ \A d \in Client : InPool(v, d)' <=> InPool(v, d) \/ d = c
           /\ \A j, k \in DOMAIN idle'[v] : idle'[v][j] = idle'[v][k] => j = k
<1> DEFINE q == idle[v]
           p == Append(q, c)
<1>1. q \in Seq(Client) /\ idle'[v] = p
    BY DEF Typed, Shapes
<1>2. /\ Len(q) \in Nat /\ DOMAIN q = 1..Len(q)
      /\ DOMAIN p = 1..(Len(q) + 1) /\ p[Len(q) + 1] = c
      /\ \A k \in 1..Len(q) : p[k] = q[k]
    <2>1. Len(q) \in Nat /\ DOMAIN q = 1..Len(q)
        BY <1>1, LenProperties
    <2>2. /\ p \in Seq(Client) /\ Len(p) = Len(q) + 1 /\ p[Len(q) + 1] = c
          /\ \A k \in 1..Len(q) : p[k] = q[k]
        BY <1>1, AppendProperties
    <2>3. DOMAIN p = 1..Len(p)
        BY <2>2, LenProperties
    <2> QED BY <2>1, <2>2, <2>3
<1>3. \A j, k \in DOMAIN q : q[j] = q[k] => j = k
    BY DEF PoolKept
<1>4. \A k \in DOMAIN q : q[k] # c
    BY DEF InPool
<1> HIDE DEF q, p
<1>5. ASSUME NEW d \in Client
      PROVE  (\E k \in DOMAIN p : p[k] = d) <=> (\E k \in DOMAIN q : q[k] = d) \/ d = c
    <2>1. ASSUME NEW k \in DOMAIN p, p[k] = d, d # c
          PROVE  k \in DOMAIN q /\ q[k] = d
        BY <1>2, <2>1
    <2>2. ASSUME NEW k \in DOMAIN q, q[k] = d
          PROVE  k \in DOMAIN p /\ p[k] = d
        BY <1>2, <2>2
    <2>3. Len(q) + 1 \in DOMAIN p
        BY <1>2
    <2> QED BY <1>2, <2>1, <2>2, <2>3
<1>6. \A j, k \in DOMAIN p : p[j] = p[k] => j = k
    <2>1. ASSUME NEW k \in DOMAIN p
          PROVE  (k \in DOMAIN q /\ p[k] = q[k]) \/ (k = Len(q) + 1 /\ p[k] = c)
        BY <1>2
    <2> QED BY <1>3, <1>4, <2>1
<1> QED BY <1>1, <1>5, <1>6 DEF InPool, q

\* A new record for one client leaves the others alone.
LEMMA OneClient ==
    ASSUME Typed, NEW v \in Server, NEW c \in Client, NEW k, client' = [client EXCEPT ![v][c] = k]
    PROVE  client'[v][c] = k /\ \A d \in Client \ {c} : client'[v][d] = client[v][d]
BY DEF Typed, Shapes

\* What the end of a transaction does to its client.
LEMMA EndedClient ==
    ASSUME Typed, NEW v \in Server, NEW c \in Client
    PROVE  /\ client' = Ended(v, c) =>
                /\ client'[v][c].tx = "none" /\ client'[v][c].out = client[v][c].out
                /\ client'[v][c].rows = {}
                /\ \A d \in Client \ {c} : client'[v][d] = client[v][d]
           /\ client' = Broken(v, c) =>
                /\ client'[v][c].tx = "broken" /\ client'[v][c].out = client[v][c].out
                /\ client'[v][c].rows = {}
                /\ \A d \in Client \ {c} : client'[v][d] = client[v][d]
<1> DEFINE e == [client[v][c] EXCEPT !.tx = "none", !.rows = {}, !.lock = {}]
           b == [client[v][c] EXCEPT !.tx = "broken", !.rows = {}, !.lock = {}]
<1>1. client[v][c] \in ClientState
    BY DEF Typed, Shapes
<1>2. e.tx = "none" /\ e.out = client[v][c].out /\ e.rows = {}
    BY <1>1 DEF ClientState
<1>3. b.tx = "broken" /\ b.out = client[v][c].out /\ b.rows = {}
    BY <1>1 DEF ClientState
<1>4. Ended(v, c) = [client EXCEPT ![v][c] = e] /\ Broken(v, c) = [client EXCEPT ![v][c] = b]
    BY DEF Ended, Broken
<1> HIDE DEF e, b
<1> QED BY <1>2, <1>3, <1>4, OneClient

\* A step of a Run keeps the pool: what it takes is in its hands until it gives
\* it back, whoever else has it by then.
LEMMA PoolRunStep ==
    ASSUME Typed, PoolInv, NEW v \in Server, NEW s \in Source, RunStep(v, s)
    PROVE  PoolInv'
<1> USE DEF tables
<1>0. run[v][s] \in RunState /\ \A c \in Client : client[v][c] \in ClientState
    BY DEF Typed, Shapes
<1>t. Typed'
    BY TypedRunStep
<1>f. /\ alive' = alive
      /\ \A w \in Server \ {v} : idle'[w] = idle[w] /\ client'[w] = client[w] /\ run'[w] = run[w]
      /\ \A t \in Source \ {s} : run'[v][t] = run[v][t]
      /\ run[v][s].pc # "over"
    BY RunFrame
<1>a. alive[v] /\ alive'[v]
    BY <1>f DEF PoolInv, ThreadRuns
<1>p. PoolKept(v) /\ \A c \in Client : ClientKept(v, c)
    BY DEF PoolInv
\* It is enough to look at the server of the step, and at s's client there.
<1>s. SUFFICES PoolKept(v)' /\ \A c \in Client : ClientKept(v, c)'
    <2>1. ASSUME NEW w \in Server \ {v}
          PROVE  ThreadRuns(w)' /\ PoolKept(w)' /\ \A c \in Client : ClientKept(w, c)'
        BY <1>f, <2>1 DEF PoolInv, ThreadRuns, PoolKept, ClientKept, InPool, Keeper, Ender
    <2>2. ThreadRuns(v)'
        BY <1>a DEF ThreadRuns
    <2> QED BY <2>1, <2>2 DEF PoolInv
<1>q. ASSUME idle' = idle, \A c \in Client : client'[v][c].out = client[v][c].out
      PROVE  PoolKept(v)'
    BY <1>f, <1>p, <1>q DEF PoolKept, InPool
<1>k. ASSUME NEW c \in Client, run[v][s].c # c \/ run[v][s].pc \notin Holding
      PROVE  (Keeper(v, c) => Keeper(v, c)') /\ (Ender(v, c) => Ender(v, c)')
    BY <1>f, <1>k DEF Keeper, Ender, Holding
<1>o. ASSUME NEW c \in Client, client'[v][c] = client[v][c],
             (Keeper(v, c) => Keeper(v, c)') /\ (Ender(v, c) => Ender(v, c)')
      PROVE  ClientKept(v, c)'
    BY <1>p, <1>o DEF ClientKept
<1>1. CASE SetStatusPolling(v, s) \/ Retrieve(v, s) \/ SetStatusReady(v, s)
    <2>1. idle' = idle /\ client' = client /\ run[v][s].pc \notin Holding
        BY <1>1 DEF SetStatusPolling, Retrieve, SetStatusReady, Go, Holding, Working, Ending
    <2>2. PoolKept(v)'
        BY <1>q, <2>1
    <2> QED BY <1>k, <1>o, <2>1, <2>2
<1>2. CASE StartTransaction(v, s)
    <2>1. run[v][s].pc = "connect" /\ run[v][s].pc \notin Holding /\ idle[v] # <<>>
        BY <1>2 DEF StartTransaction, Go, Holding, Working, Ending
    <2>2. Top(v) \in Client
        BY <2>1, TopTyped
    <2> PICK d \in Client : d = Top(v)
        BY <2>2
    <2>3. /\ \A c \in Client : InPool(v, c)' <=> InPool(v, c) /\ c # d
          /\ \A j, k \in DOMAIN idle'[v] : idle'[v][j] = idle'[v][k] => j = k
        BY <1>2, <1>a, <1>p, <2>1, PoolTakes DEF StartTransaction
    <2>4. /\ client'[v][d].out
          /\ \A c \in Client \ {d} : client'[v][c] = client[v][c]
          /\ \/ client'[v][d].tx = "open" /\ run'[v][s].pc = "lock" /\ run'[v][s].c = d
             \/ client'[v][d].tx = "broken"
             \/ client'[v][d].tx = "aborted" /\ client[v][d].tx = "aborted"
        <3>1. CASE /\ client' = [client EXCEPT ![v][d] = [@ EXCEPT !.out = TRUE, !.tx = "open"]]
                   /\ run' = [run EXCEPT ![v][s] = [@ EXCEPT !.pc = "lock", !.c = d]]
            <4> DEFINE k == [client[v][d] EXCEPT !.out = TRUE, !.tx = "open"]
                       r == [run[v][s] EXCEPT !.pc = "lock", !.c = d]
            <4>1. k.out = TRUE /\ k.tx = "open" /\ r.pc = "lock" /\ r.c = d
                BY <1>0, <2>2 DEF ClientState, RunState
            <4>2. client' = [client EXCEPT ![v][d] = k] /\ run' = [run EXCEPT ![v][s] = r]
                BY <3>1
            <4> HIDE DEF k, r
            <4>3. client'[v][d] = k /\ \A c \in Client \ {d} : client'[v][c] = client[v][c]
                BY <4>2 DEF Typed, Shapes
            <4>4. run'[v][s] = r
                BY <4>2 DEF Typed, Shapes
            <4> QED BY <4>1, <4>3, <4>4
        <3>2. CASE client' = [client EXCEPT ![v][d] = [NoClient EXCEPT !.out = TRUE, !.tx = "broken"]]
            <4> DEFINE k == [NoClient EXCEPT !.out = TRUE, !.tx = "broken"]
            <4>1. k.out = TRUE /\ k.tx = "broken"
                BY DEF NoClient
            <4>2. client' = [client EXCEPT ![v][d] = k]
                BY <3>2
            <4> HIDE DEF k
            <4>3. client'[v][d] = k /\ \A c \in Client \ {d} : client'[v][c] = client[v][c]
                BY <4>2 DEF Typed, Shapes
            <4> QED BY <4>1, <4>3
        <3>3. CASE client[v][d].tx = "aborted" /\ client' = [client EXCEPT ![v][d].out = TRUE]
            <4> DEFINE k == [client[v][d] EXCEPT !.out = TRUE]
            <4>1. k.out = TRUE /\ k.tx = "aborted"
                BY <1>0, <2>2, <3>3 DEF ClientState
            <4>2. client' = [client EXCEPT ![v][d] = k]
                BY <3>3
            <4> HIDE DEF k
            <4>3. client'[v][d] = k /\ \A c \in Client \ {d} : client'[v][c] = client[v][c]
                BY <4>2 DEF Typed, Shapes
            <4> QED BY <3>3, <4>1, <4>3
        <3> QED BY <1>2, <3>1, <3>2, <3>3 DEF StartTransaction
    <2>5. PoolKept(v)'
        BY <1>p, <1>a, <2>3, <2>4 DEF PoolKept
    <2>6. ClientKept(v, d)'
        <3>1. CASE client[v][d].tx = "aborted" /\ client'[v][d].tx = "aborted"
            <4>1. Ender(v, d)'
                BY <1>p, <1>k, <2>1, <3>1 DEF ClientKept
            <4>2. Keeper(v, d)'
                BY <4>1 DEF Keeper, Ender, Holding
            <4> QED BY <3>1, <4>1, <4>2 DEF ClientKept
        <3> QED BY <2>4, <3>1 DEF ClientKept, Keeper, Ender, Holding, Working
    <2>7. \A c \in Client \ {d} : ClientKept(v, c)'
        BY <1>k, <1>o, <2>1, <2>4
    <2> QED BY <2>5, <2>6, <2>7
<1>3. CASE \/ FindLastAndLock(v, s) \/ Request(v, s) \/ CreateImport(v, s)
           \/ FindImport(v, s) \/ SaveFull(v, s) \/ SaveRest(v, s)
    <2>1. /\ run[v][s].pc \in Working /\ run'[v][s].pc \in Working \cup Ending
          /\ run'[v][s].c = run[v][s].c
          /\ idle' = idle
          /\ \A d \in Client :
                /\ client'[v][d].out = client[v][d].out
                /\ client'[v][d].tx \in {client[v][d].tx, IF client[v][d].tx = "open" THEN "aborted" ELSE client[v][d].tx}
        BY <1>3, WorkingSteps
    <2>2. PoolKept(v)'
        BY <1>q, <2>1
    <2>3. ASSUME NEW c \in Client
          PROVE  (Keeper(v, c) => Keeper(v, c)') /\ (Ender(v, c) => Ender(v, c)')
        BY <1>f, <2>1 DEF Keeper, Ender, Holding
    <2> QED BY <1>p, <2>1, <2>2, <2>3 DEF ClientKept
<1>h. ASSUME run[v][s].pc \in Holding
      PROVE  run[v][s].c \in Client
    BY <1>h DEF Typed, Held
<1>4. CASE Commit(v, s) \/ Rollback(v, s)
    <2> PICK d : d = run[v][s].c
        OBVIOUS
    <2>1. /\ run[v][s].pc \in Ending /\ idle' = idle /\ client' = Ended(v, d)
          /\ run' = [run EXCEPT ![v][s] = [@ EXCEPT !.pc = "release"]] /\ client[v][d].tx # "broken"
        BY <1>4 DEF Commit, Rollback, Go, Ending
    <2>2. d \in Client
        BY <1>h, <2>1 DEF Holding
    <2>3. run'[v][s].pc = "release" /\ run'[v][s].c = d
        BY <1>0, <2>1 DEF Typed, Shapes, RunState
    <2>4. /\ client'[v][d].tx = "none" /\ client'[v][d].out = client[v][d].out
          /\ \A c \in Client \ {d} : client'[v][c] = client[v][c]
        BY <2>1, <2>2, EndedClient
    <2>5. PoolKept(v)'
        BY <1>q, <2>1, <2>4
    <2>6. ClientKept(v, d)'
        BY <2>3, <2>4 DEF ClientKept, Keeper, Holding
    <2>7. \A c \in Client \ {d} : ClientKept(v, c)'
        BY <1>k, <1>o, <2>4
    <2> QED BY <2>5, <2>6, <2>7
<1>5. CASE EndFails(v, s)
    <2> PICK d : d = run[v][s].c
        OBVIOUS
    <2>1. /\ run[v][s].pc \in Ending /\ idle' = idle
          /\ client' = IF client[v][d].out THEN Broken(v, d) ELSE Ended(v, d)
        BY <1>5 DEF EndFails, Ending
    <2>2. d \in Client
        BY <1>h, <2>1 DEF Holding
    <2>4. /\ client'[v][d].tx = (IF client[v][d].out THEN "broken" ELSE "none")
          /\ client'[v][d].out = client[v][d].out
          /\ \A c \in Client \ {d} : client'[v][c] = client[v][c]
        BY <2>1, <2>2, EndedClient
    <2>5. PoolKept(v)'
        BY <1>q, <2>1, <2>4
    <2>6. ClientKept(v, d)'
        BY <2>4 DEF ClientKept
    <2>7. \A c \in Client \ {d} : ClientKept(v, c)'
        BY <1>k, <1>o, <2>4
    <2> QED BY <2>5, <2>6, <2>7
<1>6. CASE Release(v, s)
    <2> PICK d : d = run[v][s].c
        OBVIOUS
    <2>1. run[v][s].pc = "release" /\ d \in Client
        BY <1>6, <1>h DEF Release, Holding
    <2>2. \A c \in Client : Ender(v, c) => Ender(v, c)'
        BY <1>f, <2>1 DEF Ender, Working, Ending
    <2>3. CASE /\ client[v][d].out
               /\ client' = [client EXCEPT ![v][d] = IF @.tx = "broken" THEN NoClient ELSE [@ EXCEPT !.out = FALSE]]
               /\ idle' = [idle EXCEPT ![v] = Append(@, d)]
        <3> DEFINE k == IF client[v][d].tx = "broken" THEN NoClient ELSE [client[v][d] EXCEPT !.out = FALSE]
        <3>1. k.out = FALSE /\ k.tx = IF client[v][d].tx = "broken" THEN "none" ELSE client[v][d].tx
            <4>1. client[v][d] \in ClientState
                BY <1>0, <2>1
            <4> QED BY <4>1 DEF ClientState, NoClient
        <3>2. client' = [client EXCEPT ![v][d] = k]
            BY <2>3
        <3> HIDE DEF k
        <3>3. client'[v][d] = k /\ \A c \in Client \ {d} : client'[v][c] = client[v][c]
            BY <2>1, <3>2 DEF Typed, Shapes
        <3>4. ~InPool(v, d)
            BY <1>a, <1>p, <2>1, <2>3 DEF PoolKept
        <3>5. /\ \A c \in Client : InPool(v, c)' <=> InPool(v, c) \/ c = d
              /\ \A i, j \in DOMAIN idle'[v] : idle'[v][i] = idle'[v][j] => i = j
            BY <1>a, <1>p, <2>1, <2>3, <3>4, PoolGains
        <3>6. PoolKept(v)'
            BY <1>a, <1>p, <3>1, <3>3, <3>5 DEF PoolKept
        <3>7. ClientKept(v, d)'
            BY <1>p, <2>1, <2>2, <3>1, <3>3 DEF ClientKept
        <3>8. \A c \in Client \ {d} : ClientKept(v, c)'
            BY <1>k, <1>o, <3>3
        <3> QED BY <3>6, <3>7, <3>8
    <2>4. CASE ~client[v][d].out /\ UNCHANGED <<client, idle>>
        <3>1. PoolKept(v)'
            BY <1>q, <2>4
        <3>2. ClientKept(v, d)'
            BY <1>p, <2>1, <2>2, <2>4 DEF ClientKept
        <3>3. \A c \in Client \ {d} : ClientKept(v, c)'
            BY <1>k, <1>o, <2>4
        <3> QED BY <3>1, <3>2, <3>3
    <2> QED BY <1>6, <2>3, <2>4 DEF Release
<1> QED BY <1>1, <1>2, <1>3, <1>4, <1>5, <1>6 DEF RunStep

LEMMA PoolInit == Init => PoolInv
BY DEF Init, PoolInv, ThreadRuns, PoolKept, ClientKept, NoRun, NoClient

LEMMA PoolNext == Typed /\ PoolInv /\ [Next]_vars => PoolInv'
<1> SUFFICES ASSUME Typed, PoolInv, [Next]_vars
             PROVE  PoolInv'
    OBVIOUS
<1> USE DEF tables
<1>1. ASSUME NEW v \in Server, UNCHANGED <<alive, idle, client, run>>
      PROVE  ThreadRuns(v)' /\ PoolKept(v)' /\ \A c \in Client : ClientKept(v, c)'
    BY <1>1 DEF PoolInv, ThreadRuns, PoolKept, InPool, ClientKept, Keeper, Ender
<1>2. ASSUME UNCHANGED <<alive, idle, client, run>>
      PROVE  PoolInv'
    BY <1>1, <1>2 DEF PoolInv
\* A thread that starts or ends touches no other's pool.
<1>3. ASSUME NEW v \in Server, StartThread(v) \/ Terminate(v), NEW w \in Server \ {v}
      PROVE  ThreadRuns(w)' /\ PoolKept(w)' /\ \A c \in Client : ClientKept(w, c)'
    <2>1. alive'[w] = alive[w] /\ idle'[w] = idle[w] /\ client'[w] = client[w] /\ run'[w] = run[w]
        BY <1>3 DEF StartThread, Terminate, Typed, Shapes
    <2> QED BY <2>1 DEF PoolInv, ThreadRuns, PoolKept, InPool, ClientKept, Keeper, Ender
<1>4. ASSUME NEW v \in Server, StartThread(v)
      PROVE  PoolInv'
    <2>1. /\ alive'[v] /\ idle'[v] = [c \in Client |-> c]
          /\ client'[v] = [c \in Client |-> NoClient]
        BY <1>4 DEF StartThread, Typed, Shapes
    <2>2. ThreadRuns(v)' /\ \A c \in Client : ClientKept(v, c)'
        BY <2>1 DEF ThreadRuns, ClientKept, NoClient
    <2>3. PoolKept(v)'
        BY <2>1 DEF PoolKept, InPool, NoClient
    <2> QED BY <1>3, <1>4, <2>2, <2>3 DEF PoolInv
<1>5. ASSUME NEW v \in Server, Terminate(v)
      PROVE  PoolInv'
    <2>1. /\ alive'[v] = FALSE /\ idle'[v] = <<>>
          /\ client'[v] = [c \in Client |-> NoClient] /\ run'[v] = [s \in Source |-> NoRun]
        BY <1>5 DEF Terminate, Typed, Shapes
    <2>2. ThreadRuns(v)' /\ PoolKept(v)' /\ \A c \in Client : ClientKept(v, c)'
        BY <2>1 DEF ThreadRuns, PoolKept, ClientKept, NoClient, NoRun
    <2> QED BY <1>3, <1>5, <2>2 DEF PoolInv
<1>6. ASSUME NEW s \in Source, Elapse(s) \/ \E i \in Id : Touch(s, i)
      PROVE  PoolInv'
    BY <1>2, <1>6 DEF Elapse, Touch
<1>7. CASE UNCHANGED vars
    BY <1>2, <1>7 DEF vars
<1> QED BY <1>4, <1>5, <1>6, <1>7, PoolRunStep DEF Next

\* When the Runs of a thread are over, every client is back in the pool, once,
\* unless its connection broke: for any number of sources that share the pool,
\* and although a Run ends transactions and releases clients that others have.
THEOREM ClientsReturn == Spec => []NoClientLost
<1>1. Spec => [](Typed /\ PoolInv)
    <2>1. Init => Typed /\ PoolInv
        BY TypedInit, PoolInit
    <2>2. Typed /\ PoolInv /\ [Next]_vars => (Typed /\ PoolInv)'
        BY TypedNext, PoolNext
    <2> QED BY <2>1, <2>2, PTL DEF Spec
<1> QED BY <1>1, PoolInvNoClientLost, PTL

-----------------------------------------------------------------------------
(* One source: the polls of a thread have its pool to themselves.  Any     *)
(* number of servers may poll the source, and any number of statements fail. *)

OneSource == \A s, t \in Source : s = t

Parts(S, s, i) == {r \in S : r[1] = s /\ r[2] = i /\ r[3] \in Part}
Stores(s, i, answer) == {<<s, i, p>> : p \in answer}

\* What the transaction of client k holds of the poll me of source s: nothing
\* before the saves, and at its commit all of the answer or, if a save failed,
\* nothing that would be committed.
Wrote(me, s, k) ==
    /\ me.pc \in Working => k.tx \in {"open", "aborted"}
    /\ me.pc \in {"lock", "request", "create", "find", "full"} => k.rows = {}
    /\ me.pc = "commit" /\ me.then # "receive" => k.rows = {}
    /\ me.pc = "release" => k.tx = "none"
    /\ me.pc = "full" => "full" \in me.answer
    /\ me.pc = "rest" /\ k.tx = "open" => k.rows = Stores(s, me.import, me.answer \cap {"full"})
    /\ me.pc = "commit" /\ me.then = "receive" =>
          /\ me.import \in Id
          /\ k.tx = "open" => k.rows = Stores(s, me.import, me.answer)

RunsWrote ==
    \A v \in Server, s \in Source :
        run[v][s].pc \in Holding => Wrote(run[v][s], s, client[v][run[v][s].c])

\* The clients in a pool have no transaction.
IdleClean == \A v \in Server, c \in Client : ~client[v][c].out => client[v][c].tx = "none"

Answering(me) == me.pc \in Saving \/ (me.pc = "commit" /\ me.then = "receive")

\* Until its commit, nothing of a poll's answer is stored.
NotYetStored ==
    \A v \in Server, s \in Source :
        Answering(run[v][s]) =>
            /\ Parts(table, s, run[v][s].import) = {}
            /\ Parts(answered, s, run[v][s].import) = Stores(s, run[v][s].import, run[v][s].answer)

\* No two Runs have the same import, and none has one that is yet to be made.
OwnImports ==
    \A v \in Server, s \in Source :
        /\ run[v][s].import <= made[s]
        /\ \A w \in Server : run[v][s].import # 0 /\ run[w][s].import = run[v][s].import => v = w

Handed ==
    /\ \A r \in table \cup answered : r[2] <= made[r[1]]
    /\ \A r \in answered : r[3] \in Part

ClientsInv == IdleClean /\ RunsWrote
StoredInv == NotYetStored /\ OwnImports /\ Handed /\ PollIsAtomic

\* The kinds of steps a Run takes, by what they do to its record and client.
LEMMA WroteQuiet ==
    ASSUME Typed, ClientsInv, NEW v \in Server, NEW s \in Source, OneSource, RunStep(v, s),
           run'[v][s].pc \in Holding =>
               Wrote(run'[v][s], s, client'[v][run'[v][s].c]),
           \A c \in Client : ~client'[v][c].out => client'[v][c].tx = "none"
    PROVE  ClientsInv'
<1>1. \A w \in Server \ {v} : client'[w] = client[w] /\ run'[w] = run[w]
    BY RunFrame
<1>2. \A t \in Source : t = s
    BY DEF OneSource
<1>3. IdleClean'
    BY <1>1 DEF ClientsInv, IdleClean
<1>4. ASSUME NEW w \in Server, NEW t \in Source, run'[w][t].pc \in Holding
      PROVE  Wrote(run'[w][t], t, client'[w][run'[w][t].c])
    <2>1. CASE w = v
        BY <1>2, <1>4, <2>1
    <2>2. CASE w # v
        BY <1>1, <1>4, <2>2 DEF ClientsInv, RunsWrote
    <2> QED BY <2>1, <2>2
<1> QED BY <1>3, <1>4 DEF ClientsInv, RunsWrote

\* The parts of an import among the rows of two sets, and those of a row or an answer.
LEMMA PartsCup ==
    ASSUME NEW S, NEW T, NEW s, NEW i
    PROVE  Parts(S \cup T, s, i) = Parts(S, s, i) \cup Parts(T, s, i)
BY DEF Parts

LEMMA PartsOfImport ==
    ASSUME NEW s, NEW i, NEW j
    PROVE  Parts({<<s, j, "import">>}, s, i) = {}
BY DEF Parts, Part

LEMMA PartsOfAnswer ==
    ASSUME NEW s, NEW i, NEW j, NEW A \in SUBSET Part
    PROVE  Parts(Stores(s, j, A), s, i) = IF j = i THEN Stores(s, j, A) ELSE {}
BY DEF Parts, Stores

\* What a statement of a Run, in its own transaction, does to its client.
LEMMA OwnWrite ==
    ASSUME Typed, NEW v \in Server, NEW c \in Client, NEW rows, client[v][c].tx # "none", Write(v, c, rows)
    PROVE  /\ client[v][c].tx = "open" /\ client'[v][c].tx = "open"
           /\ client'[v][c].rows = client[v][c].rows \cup rows
           /\ UNCHANGED <<table, last, fresh>>
<1>1. client[v][c] \in ClientState
    BY DEF Typed, Shapes
<1>2. /\ client[v][c].tx = "open"
      /\ client' = [client EXCEPT ![v][c].rows = @ \cup rows]
      /\ UNCHANGED <<table, last, fresh>>
    BY DEF Write
<1> DEFINE k == [client[v][c] EXCEPT !.rows = @ \cup rows]
<1>3. k.tx = client[v][c].tx /\ k.rows = client[v][c].rows \cup rows
    BY <1>1 DEF ClientState
<1>4. client'[v][c] = k
    BY <1>2 DEF Typed, Shapes
<1> QED BY <1>2, <1>3, <1>4

LEMMA SpoiltClient ==
    ASSUME Typed, NEW v \in Server, NEW c \in Client, client' = Spoilt(v, c)
    PROVE  /\ client'[v][c].tx = (IF client[v][c].tx = "open" THEN "aborted" ELSE client[v][c].tx)
           /\ client'[v][c].rows = {}
<1>1. client[v][c] \in ClientState /\ (client[v][c].tx # "open" => client[v][c].rows = {})
    BY DEF Typed, Shapes, NoneLeft
<1> DEFINE k == IF client[v][c].tx = "open" THEN [client[v][c] EXCEPT !.tx = "aborted", !.rows = {}, !.lock = {}]
                ELSE client[v][c]
<1>3. k.tx = (IF client[v][c].tx = "open" THEN "aborted" ELSE client[v][c].tx) /\ k.rows = {}
    BY <1>1 DEF ClientState
<1>4. client'[v][c] = k
    BY DEF Spoilt, Typed, Shapes
<1> QED BY <1>3, <1>4

\* CreateImport finds a client without a transaction: its import is committed.
LEMMA CreatesAtOnce ==
    ASSUME Typed, PoolInv, ClientsInv, NEW v \in Server, NEW s \in Source, CreateImport(v, s),
           NEW rows, Write(v, Top(v), rows)
    PROVE  Committed(rows) /\ UNCHANGED client
<1>1. idle[v] # <<>> /\ run[v][s].pc = "create"
    BY DEF CreateImport, QueryPool
<1>2. Top(v) \in Client /\ Len(idle[v]) \in Nat \ {0}
    BY <1>1, TopTyped
<1>3. idle[v] \in Seq(Client)
    BY DEF Typed, Shapes
<1>4. Len(idle[v]) \in DOMAIN idle[v]
    BY <1>2, <1>3, LenProperties
<1>5. InPool(v, Top(v))
    BY <1>4 DEF InPool, Top
<1>6. alive[v]
    BY <1>1 DEF PoolInv, ThreadRuns
<1>7. ~client[v][Top(v)].out
    BY <1>2, <1>5, <1>6 DEF PoolInv, PoolKept
<1>8. client[v][Top(v)].tx = "none"
    BY <1>2, <1>7 DEF ClientsInv, IdleClean
<1> QED BY <1>8 DEF Write

LEMMA ClientsRunStep ==
    ASSUME Typed, PoolInv, ClientsInv, OneSource, NEW v \in Server, NEW s \in Source, RunStep(v, s)
    PROVE  ClientsInv'
<1> USE DEF tables
<1>0. run[v][s] \in RunState /\ \A c \in Client : client[v][c] \in ClientState
    BY DEF Typed, Shapes
<1>n. NoneLeft
    BY DEF Typed
<1>i. \A c \in Client : ~client[v][c].out => client[v][c].tx = "none"
    BY DEF ClientsInv, IdleClean
<1>s. SUFFICES /\ run'[v][s].pc \in Holding => Wrote(run'[v][s], s, client'[v][run'[v][s].c])
               /\ \A c \in Client : ~client'[v][c].out => client'[v][c].tx = "none"
    BY WroteQuiet
<1>w. ASSUME run[v][s].pc \in Holding
      PROVE  Wrote(run[v][s], s, client[v][run[v][s].c]) /\ run[v][s].c \in Client
    BY <1>w DEF ClientsInv, RunsWrote, Typed, Held
<1>1. CASE SetStatusPolling(v, s) \/ Retrieve(v, s) \/ SetStatusReady(v, s)
    <2>1. client' = client /\ run'[v][s].pc \notin Holding
        BY <1>0, <1>1 DEF SetStatusPolling, Retrieve, SetStatusReady, Go, NoRun,
                          Holding, Working, Ending, Typed, Shapes, RunState
    <2> QED BY <1>i, <2>1
<1>2. CASE StartTransaction(v, s)
    <2>1. run[v][s].pc = "connect" /\ idle[v] # <<>>
        BY <1>2 DEF StartTransaction, Go
    <2>2. Top(v) \in Client /\ Len(idle[v]) \in Nat \ {0} /\ idle[v] \in Seq(Client)
        BY <2>1, TopTyped DEF Typed, Shapes
    <2> PICK d \in Client : d = Top(v)
        BY <2>2
    <2>3. InPool(v, d) /\ alive[v]
        BY <2>1, <2>2, LenProperties DEF InPool, Top, PoolInv, ThreadRuns
    <2>4. client[v][d].tx = "none" /\ client[v][d].rows = {}
        BY <1>i, <1>n, <2>3 DEF PoolInv, PoolKept, NoneLeft
    <2>5. CASE /\ client' = [client EXCEPT ![v][d] = [@ EXCEPT !.out = TRUE, !.tx = "open"]]
               /\ run' = [run EXCEPT ![v][s] = [@ EXCEPT !.pc = "lock", !.c = d]]
        <3> DEFINE k == [client[v][d] EXCEPT !.out = TRUE, !.tx = "open"]
                   r == [run[v][s] EXCEPT !.pc = "lock", !.c = d]
        <3>1. k.out = TRUE /\ k.tx = "open" /\ k.rows = {} /\ r.pc = "lock" /\ r.c = d
            BY <1>0, <2>4 DEF ClientState, RunState
        <3>2. client'[v][d] = k /\ (\A c \in Client \ {d} : client'[v][c] = client[v][c]) /\ run'[v][s] = r
            BY <2>5 DEF Typed, Shapes
        <3> HIDE DEF k, r
        <3> QED BY <1>i, <3>1, <3>2 DEF Wrote, Working
    <2>6. CASE /\ client' = [client EXCEPT ![v][d] = [NoClient EXCEPT !.out = TRUE, !.tx = "broken"]]
               /\ Go(v, s, "connect", "over")
        <3>1. client'[v][d].out = TRUE /\ \A c \in Client \ {d} : client'[v][c] = client[v][c]
            BY <2>6 DEF NoClient, Typed, Shapes
        <3>2. run'[v][s].pc = "over"
            BY <2>6 DEF Go, NoRun, Typed, Shapes
        <3> QED BY <1>i, <3>1, <3>2 DEF Holding, Working, Ending
    <2> QED BY <1>2, <2>4, <2>5, <2>6 DEF StartTransaction
<1>k. ASSUME \/ FindLastAndLock(v, s) \/ Request(v, s) \/ CreateImport(v, s)
             \/ FindImport(v, s) \/ SaveFull(v, s) \/ SaveRest(v, s)
      PROVE  /\ run[v][s].pc \in Working /\ run[v][s].pc \in Holding
             /\ run'[v][s].c = run[v][s].c
             /\ \A c \in Client : ~client'[v][c].out => client'[v][c].tx = "none"
    BY <1>i, <1>k, WorkingSteps DEF Holding
<1>g. \A f, t : Go(v, s, f, t) /\ t # "over" =>
          /\ run[v][s].pc = f /\ run'[v][s].pc = t /\ run'[v][s].then = run[v][s].then
          /\ run'[v][s].import = run[v][s].import /\ run'[v][s].answer = run[v][s].answer
    BY <1>0 DEF Go, Typed, Shapes, RunState
<1>c. \A how : Close(v, s, how) =>
          /\ run'[v][s].pc = how /\ run'[v][s].then = "receive"
          /\ run'[v][s].import = run[v][s].import /\ run'[v][s].answer = run[v][s].answer
    BY <1>0 DEF Close, Typed, Shapes, RunState
<1>3. CASE FindLastAndLock(v, s)
    <2> PICK d : d = run[v][s].c
        OBVIOUS
    <2>1. run[v][s].pc = "lock" /\ d \in Client /\ client[v][d].tx \in {"open", "aborted"} /\ client[v][d].rows = {}
        BY <1>3, <1>k, <1>w DEF FindLastAndLock, Wrote
    <2>2. client'[v][d].rows = {} /\ client'[v][d].tx \in {"open", "aborted"}
        <3>1. CASE client' = [client EXCEPT ![v][d].lock = IF client[v][d].tx = "open" THEN @ \cup {<<s, last[s]>>} ELSE @]
            <4> DEFINE k == [client[v][d] EXCEPT !.lock = IF client[v][d].tx = "open" THEN @ \cup {<<s, last[s]>>} ELSE @]
            <4>1. k.rows = {} /\ k.tx = client[v][d].tx
                BY <1>0, <2>1 DEF ClientState
            <4>2. client'[v][d] = k
                BY <2>1, <3>1 DEF Typed, Shapes
            <4> QED BY <2>1, <4>1, <4>2
        <3>2. CASE client' = Spoilt(v, d)
            BY <2>1, <3>2, SpoiltClient
        <3> QED BY <1>3, <2>1, <3>1, <3>2 DEF FindLastAndLock
    <2>3. \/ run'[v][s].pc = "request"
          \/ run'[v][s].pc = "commit" /\ run'[v][s].then = "over"
        <3>1. CASE Go(v, s, "lock", "request")
            BY <1>g, <3>1
        <3>2. CASE GiveUp(v, s)
            BY <1>0, <3>2 DEF GiveUp, Typed, Shapes, RunState
        <3> QED BY <1>3, <3>1, <3>2 DEF FindLastAndLock
    <2> QED BY <1>3, <1>k, <2>2, <2>3 DEF Wrote, Working
<1>4. CASE Request(v, s)
    <2> PICK d : d = run[v][s].c
        OBVIOUS
    <2>1. /\ run[v][s].pc = "request" /\ client' = client
          /\ client[v][d].tx \in {"open", "aborted"} /\ client[v][d].rows = {}
        BY <1>4, <1>k, <1>w DEF Request, Wrote
    <2>2. \/ run'[v][s].pc = "create"
          \/ run'[v][s].pc = "commit" /\ run'[v][s].then = "ready"
        <3>1. CASE run' = [run EXCEPT ![v][s] = [@ EXCEPT !.pc = "commit", !.then = "ready"]]
            BY <1>0, <3>1 DEF Typed, Shapes, RunState
        <3>2. ASSUME NEW answer, run' = [run EXCEPT ![v][s] = [@ EXCEPT !.pc = "create", !.answer = answer]]
              PROVE  run'[v][s].pc = "create"
            BY <1>0, <3>2 DEF Typed, Shapes, RunState
        <3> QED BY <1>4, <3>1, <3>2 DEF Request
    <2> QED BY <1>4, <1>k, <2>1, <2>2 DEF Wrote, Working
<1>5. CASE CreateImport(v, s)
    <2> PICK d : d = run[v][s].c
        OBVIOUS
    <2>1. /\ run[v][s].pc = "create"
          /\ client[v][d].tx \in {"open", "aborted"} /\ client[v][d].rows = {}
        BY <1>5, <1>k, <1>w DEF CreateImport, Wrote
    <2>2. client' = client
        BY <1>5, CreatesAtOnce DEF CreateImport
    <2>3. run'[v][s].pc \in {"find", "rollback"}
        <3>1. CASE Close(v, s, "rollback")
            BY <1>c, <3>1
        <3>2. CASE run' = [run EXCEPT ![v][s] = [@ EXCEPT !.pc = "find", !.import = made[s] + 1]]
            BY <1>0, <3>2 DEF Typed, Shapes, RunState
        <3> QED BY <1>5, <3>1, <3>2 DEF CreateImport
    <2> QED BY <1>5, <1>k, <2>1, <2>2, <2>3 DEF Wrote, Working
<1>6. CASE FindImport(v, s)
    <2> PICK d : d = run[v][s].c
        OBVIOUS
    <2>1. /\ client' = client /\ run[v][s].pc = "find"
          /\ client[v][d].tx \in {"open", "aborted"} /\ client[v][d].rows = {}
        BY <1>6, <1>k, <1>w DEF FindImport, Wrote
    <2>2. CASE Go(v, s, "find", IF "full" \in run[v][s].answer THEN "full" ELSE "rest")
        <3>1. /\ run'[v][s].answer = run[v][s].answer
              /\ \/ run'[v][s].pc = "full" /\ "full" \in run[v][s].answer
                 \/ run'[v][s].pc = "rest" /\ "full" \notin run[v][s].answer
            BY <1>g, <2>2
        <3>2. "full" \notin run[v][s].answer => \A i : Stores(s, i, run[v][s].answer \cap {"full"}) = {}
            BY DEF Stores
        <3> QED BY <1>6, <1>k, <2>1, <3>1, <3>2 DEF Wrote, Working
    <2>3. CASE Close(v, s, "rollback")
        BY <1>6, <1>k, <1>c, <2>1, <2>3 DEF Wrote, Working
    <2> QED BY <1>6, <2>2, <2>3 DEF FindImport
<1>7. CASE SaveFull(v, s)
    <2> PICK d : d = run[v][s].c
        OBVIOUS
    <2>1. /\ run[v][s].pc = "full" /\ run'[v][s].pc = "rest" /\ d \in Client
          /\ run'[v][s].answer = run[v][s].answer /\ run'[v][s].import = run[v][s].import
        BY <1>7, <1>g, <1>k, <1>w DEF SaveFull
    <2>2. client[v][d].tx \in {"open", "aborted"} /\ client[v][d].rows = {} /\ "full" \in run[v][s].answer
        BY <1>7, <1>k, <1>w, <2>1 DEF Wrote
    <2>3. CASE Saves(v, s, "full")
        <3>1. client'[v][d].tx = "open" /\ client'[v][d].rows = {<<s, run[v][s].import, "full">>}
            BY <2>1, <2>2, <2>3, OwnWrite DEF Saves, SaveRows
        <3>2. Stores(s, run[v][s].import, run[v][s].answer \cap {"full"}) = {<<s, run[v][s].import, "full">>}
            BY <2>2 DEF Stores
        <3> QED BY <1>7, <1>k, <2>1, <3>1, <3>2 DEF Wrote
    <2>4. CASE SaveFails(v, s)
        <3>1. client'[v][d].tx = "aborted"
            BY <2>1, <2>2, <2>4, SpoiltClient DEF SaveFails
        <3> QED BY <1>7, <1>k, <2>1, <3>1 DEF Wrote
    <2> QED BY <1>7, <2>3, <2>4 DEF SaveFull
<1>8. CASE SaveRest(v, s)
    <2> PICK d : d = run[v][s].c
        OBVIOUS
    <2>1. run[v][s].pc = "rest" /\ d \in Client /\ run[v][s].import \in Id
        BY <1>8, <1>k, <1>w DEF SaveRest, Typed, Held, Saving
    <2>2. /\ client[v][d].tx \in {"open", "aborted"}
          /\ client[v][d].tx = "open" => client[v][d].rows = Stores(s, run[v][s].import, run[v][s].answer \cap {"full"})
        BY <1>8, <1>k, <1>w, <2>1 DEF Wrote
    <2>p. run[v][s].answer \in SUBSET Part
        BY <1>0 DEF RunState
    <2>c. Close(v, s, "commit") =>
              /\ run'[v][s].pc = "commit" /\ run'[v][s].then = "receive" /\ run'[v][s].c = d
              /\ run'[v][s].import = run[v][s].import /\ run'[v][s].answer = run[v][s].answer
        BY <1>8, <1>c, <1>k
    <2>3. CASE "rest" \in run[v][s].answer /\ Saves(v, s, "rest") /\ Close(v, s, "commit")
        <3>1. /\ client[v][d].tx = "open" /\ client'[v][d].tx = "open"
              /\ client'[v][d].rows = client[v][d].rows \cup {<<s, run[v][s].import, "rest">>}
            BY <2>1, <2>2, <2>3, OwnWrite DEF Saves, SaveRows
        <3>2. Stores(s, run[v][s].import, run[v][s].answer) =
                 Stores(s, run[v][s].import, run[v][s].answer \cap {"full"}) \cup {<<s, run[v][s].import, "rest">>}
            BY <2>3, <2>p DEF Stores, Part
        <3>3. client'[v][d].rows = Stores(s, run[v][s].import, run[v][s].answer)
            BY <2>2, <3>1, <3>2
        <3> QED BY <1>8, <1>k, <2>1, <2>3, <2>c, <3>3 DEF Wrote, Working
    <2>4. CASE SaveFails(v, s) /\ Close(v, s, "rollback")
        BY <1>8, <1>c, <1>k, <2>4 DEF Wrote, Working
    <2>5. CASE "rest" \notin run[v][s].answer /\ Close(v, s, "commit") /\ client' = client
        <3>1. run[v][s].answer \cap {"full"} = run[v][s].answer
            BY <2>5, <2>p DEF Part
        <3>2. client'[v][d].tx = "open" => client'[v][d].rows = Stores(s, run[v][s].import, run[v][s].answer)
            BY <2>2, <2>5, <3>1
        <3> QED BY <1>8, <1>k, <2>1, <2>5, <2>c, <3>2 DEF Wrote, Working
    <2> QED BY <1>8, <2>3, <2>4, <2>5 DEF SaveRest
<1>9. CASE Commit(v, s) \/ Rollback(v, s)
    <2> PICK d : d = run[v][s].c
        OBVIOUS
    <2>1. /\ run[v][s].pc \in Holding /\ client' = Ended(v, d)
          /\ run' = [run EXCEPT ![v][s] = [@ EXCEPT !.pc = "release"]]
        BY <1>9 DEF Commit, Rollback, Go, Ending, Holding
    <2>2. d \in Client
        BY <1>w, <2>1
    <2>3. run'[v][s].pc = "release" /\ run'[v][s].c = d
        BY <1>0, <2>1 DEF Typed, Shapes, RunState
    <2>4. client'[v][d].tx = "none" /\ \A c \in Client \ {d} : client'[v][c] = client[v][c]
        BY <2>1, <2>2, EndedClient
    <2> QED BY <1>i, <2>3, <2>4 DEF Wrote, Working
<1>r. ASSUME run[v][s].pc \in Holding, Returned(v, s)
      PROVE  \/ run'[v][s].pc = "commit" /\ run'[v][s].then = "ready" /\ run'[v][s].c = run[v][s].c
             \/ run'[v][s].pc \notin Holding
    <2>1. run' = [run EXCEPT ![v][s] = AfterEnd(run[v][s])]
        BY <1>r, ReturnedTyped
    <2>2. run'[v][s] = AfterEnd(run[v][s])
        BY <2>1 DEF Typed, Shapes
    <2> QED BY <2>2 DEF AfterEnd, NoRun, Holding, Working, Ending
<1>10. CASE EndFails(v, s)
    <2> PICK d : d = run[v][s].c
        OBVIOUS
    <2>1. /\ run[v][s].pc \in Holding /\ Returned(v, s)
          /\ client' = IF client[v][d].out THEN Broken(v, d) ELSE Ended(v, d)
        BY <1>10 DEF EndFails, Ending, Holding
    <2>2. d \in Client
        BY <1>w, <2>1
    <2>3. /\ client'[v][d].tx = (IF client[v][d].out THEN "broken" ELSE "none")
          /\ client'[v][d].out = client[v][d].out /\ client'[v][d].rows = {}
          /\ \A c \in Client \ {d} : client'[v][c] = client[v][c]
        BY <2>1, <2>2, EndedClient
    <2> QED BY <1>i, <1>r, <2>1, <2>3 DEF Wrote, Working
<1>11. CASE Release(v, s)
    <2> PICK d : d = run[v][s].c
        OBVIOUS
    <2>1. run[v][s].pc = "release" /\ run[v][s].pc \in Holding
        BY <1>11 DEF Release, Holding
    <2>2. d \in Client /\ client[v][d].tx = "none" /\ client[v][d].rows = {}
        BY <1>w, <1>n, <2>1 DEF Wrote, NoneLeft
    <2>3. \/ run'[v][s].pc = "commit" /\ run'[v][s].then = "ready" /\ run'[v][s].c = d
          \/ run'[v][s].pc \notin Holding
        <3>1. CASE Returned(v, s)
            BY <1>r, <2>1, <3>1
        <3>2. CASE Go(v, s, "release", "over")
            BY <3>2 DEF Go, NoRun, Typed, Shapes, Holding, Working, Ending
        <3> QED BY <1>11, <3>1, <3>2 DEF Release
    <2>4. /\ client'[v][d].tx = "none" /\ client'[v][d].rows = {}
          /\ \A c \in Client \ {d} : client'[v][c] = client[v][c]
        <3>1. CASE client' = [client EXCEPT ![v][d] = IF @.tx = "broken" THEN NoClient ELSE [@ EXCEPT !.out = FALSE]]
            <4> DEFINE k == [client[v][d] EXCEPT !.out = FALSE]
            <4>1. k.tx = "none" /\ k.rows = {}
                BY <1>0, <2>2 DEF ClientState
            <4>2. client'[v][d] = k /\ \A c \in Client \ {d} : client'[v][c] = client[v][c]
                BY <2>2, <3>1 DEF Typed, Shapes
            <4> QED BY <4>1, <4>2
        <3>2. CASE client' = client
            BY <2>2, <3>2
        <3> QED BY <1>11, <3>1, <3>2 DEF Release
    <2> QED BY <1>i, <2>3, <2>4 DEF Wrote, Working
<1> QED BY <1>1, <1>2, <1>3, <1>4, <1>5, <1>6, <1>7, <1>8, <1>9, <1>10, <1>11 DEF RunStep

\* What a step of a Run does to the tables: nothing, make the import, or
\* store the whole answer.
StoresNothing(v, s) ==
    /\ UNCHANGED <<table, answered, made>>
    /\ run'[v][s].import \in {run[v][s].import, 0}
    /\ Answering(run'[v][s]) => /\ Answering(run[v][s])
                                /\ run'[v][s].import = run[v][s].import
                                /\ run'[v][s].answer = run[v][s].answer

MakesImport(v, s) ==
    LET i == made[s] + 1
    IN  /\ table' = table \cup {<<s, i, "import">>}
        /\ answered' = answered \cup Stores(s, i, run'[v][s].answer)
        /\ made' = [made EXCEPT ![s] = i]
        /\ run'[v][s].import = i

StoresAnswer(v, s) ==
    /\ run[v][s].import \in Id /\ Answering(run[v][s])
    /\ table' = table \cup Stores(s, run[v][s].import, run[v][s].answer)
    /\ UNCHANGED <<answered, made>>
    /\ run'[v][s].import = run[v][s].import
    /\ ~Answering(run'[v][s])

LEMMA TableStep ==
    ASSUME Typed, PoolInv, ClientsInv, NEW v \in Server, NEW s \in Source, RunStep(v, s)
    PROVE  StoresNothing(v, s) \/ MakesImport(v, s) \/ StoresAnswer(v, s)
<1> USE DEF tables
<1>0. run[v][s] \in RunState
    BY DEF Typed, Shapes
<1>w. ASSUME run[v][s].pc \in Holding
      PROVE  Wrote(run[v][s], s, client[v][run[v][s].c]) /\ run[v][s].c \in Client
    BY <1>w DEF ClientsInv, RunsWrote, Typed, Held
<1>g. \A f, t : Go(v, s, f, t) =>
          /\ run[v][s].pc = f
          /\ \/ /\ run'[v][s].pc = t /\ run'[v][s].then = run[v][s].then
                /\ run'[v][s].import = run[v][s].import /\ run'[v][s].answer = run[v][s].answer
             \/ t = "over" /\ run'[v][s].pc = "over" /\ run'[v][s].import = 0
    BY <1>0 DEF Go, NoRun, Typed, Shapes, RunState
<1>c. \A how : Close(v, s, how) =>
          /\ run'[v][s].pc = how
          /\ run'[v][s].import = run[v][s].import /\ run'[v][s].answer = run[v][s].answer
    BY <1>0 DEF Close, Typed, Shapes, RunState
<1>u. GiveUp(v, s) => /\ run'[v][s].pc = "commit" /\ run'[v][s].then = "over"
                      /\ run'[v][s].import = run[v][s].import
    BY <1>0 DEF GiveUp, Typed, Shapes, RunState
<1>r. ASSUME run[v][s].pc \in Holding, Returned(v, s)
      PROVE  ~Answering(run'[v][s]) /\ run'[v][s].import = 0
    <2>1. run' = [run EXCEPT ![v][s] = AfterEnd(run[v][s])]
        BY <1>r, ReturnedTyped
    <2>2. run'[v][s] = AfterEnd(run[v][s])
        BY <2>1 DEF Typed, Shapes
    <2> QED BY <2>2 DEF AfterEnd, NoRun, Answering, Saving
<1>1. CASE SetStatusPolling(v, s) \/ Retrieve(v, s) \/ SetStatusReady(v, s)
    BY <1>1, <1>g DEF SetStatusPolling, Retrieve, SetStatusReady, StoresNothing, Answering, Saving
<1>2. CASE StartTransaction(v, s)
    <2>1. CASE run' = [run EXCEPT ![v][s] = [@ EXCEPT !.pc = "lock", !.c = Top(v)]]
        <3>1. run'[v][s].pc = "lock" /\ run'[v][s].import = run[v][s].import
            BY <1>0, <2>1 DEF Typed, Shapes, RunState
        <3> QED BY <1>2, <3>1 DEF StartTransaction, StoresNothing, Answering, Saving
    <2>2. CASE Go(v, s, "connect", "over")
        BY <1>2, <1>g, <2>2 DEF StartTransaction, StoresNothing, Answering, Saving
    <2> QED BY <1>2, <2>1, <2>2 DEF StartTransaction
<1>3. CASE FindLastAndLock(v, s)
    <2>1. /\ UNCHANGED <<table, answered, made>>
          /\ Go(v, s, "lock", "request") \/ GiveUp(v, s)
        BY <1>3 DEF FindLastAndLock
    <2>2. run'[v][s].import = run[v][s].import /\ ~Answering(run'[v][s])
        BY <1>g, <1>u, <2>1 DEF Answering, Saving
    <2> QED BY <2>1, <2>2 DEF StoresNothing
<1>4. CASE Request(v, s)
    <2>1. run'[v][s].import = run[v][s].import /\ ~Answering(run'[v][s])
        <3>1. CASE run' = [run EXCEPT ![v][s] = [@ EXCEPT !.pc = "commit", !.then = "ready"]]
            BY <1>0, <3>1 DEF Typed, Shapes, RunState, Answering, Saving
        <3>2. ASSUME NEW answer, run' = [run EXCEPT ![v][s] = [@ EXCEPT !.pc = "create", !.answer = answer]]
              PROVE  run'[v][s].import = run[v][s].import /\ ~Answering(run'[v][s])
            BY <1>0, <3>2 DEF Typed, Shapes, RunState, Answering, Saving
        <3> QED BY <1>4, <3>1, <3>2 DEF Request
    <2> QED BY <1>4, <2>1 DEF Request, StoresNothing
<1>5. CASE CreateImport(v, s)
    <2>1. CASE Close(v, s, "rollback") /\ UNCHANGED <<table, made, answered>>
        BY <1>c, <2>1 DEF StoresNothing, Answering, Saving
    <2>2. CASE /\ Write(v, Top(v), {<<s, made[s] + 1, "import">>})
               /\ made' = [made EXCEPT ![s] = made[s] + 1]
               /\ answered' = answered \cup {<<s, made[s] + 1, p>> : p \in run[v][s].answer}
               /\ run' = [run EXCEPT ![v][s] = [@ EXCEPT !.pc = "find", !.import = made[s] + 1]]
        <3>1. table' = table \cup {<<s, made[s] + 1, "import">>}
            BY <1>5, <2>2, CreatesAtOnce DEF Committed
        <3>2. run'[v][s].import = made[s] + 1 /\ run'[v][s].answer = run[v][s].answer
            BY <1>0, <2>2 DEF Typed, Shapes, RunState
        <3> QED BY <2>2, <3>1, <3>2 DEF MakesImport, Stores
    <2> QED BY <1>5, <2>1, <2>2 DEF CreateImport
<1>6. CASE FindImport(v, s)
    <2>1. CASE Close(v, s, "rollback")
        BY <1>6, <1>c, <2>1 DEF FindImport, StoresNothing, Answering, Saving
    <2>2. CASE Go(v, s, "find", IF "full" \in run[v][s].answer THEN "full" ELSE "rest")
        BY <1>6, <1>g, <2>2 DEF FindImport, StoresNothing, Answering, Saving
    <2> QED BY <1>6, <2>1, <2>2 DEF FindImport
<1>7. CASE SaveFull(v, s) \/ SaveRest(v, s)
    <2>1. /\ UNCHANGED <<answered, made>>
          /\ run[v][s].pc \in Saving /\ run[v][s].pc \in Working
        BY <1>7 DEF SaveFull, SaveRest, Go, Saving, Working
    <2>2. run[v][s].c \in Client /\ client[v][run[v][s].c].tx # "none"
        BY <1>w, <2>1 DEF Wrote, Holding
    <2>3. table' = table
        BY <1>7, <2>2, OwnWrite DEF SaveFull, SaveRest, Saves, SaveRows, SaveFails
    <2>4. run'[v][s].import = run[v][s].import /\ run'[v][s].answer = run[v][s].answer
        BY <1>7, <1>g, <1>c DEF SaveFull, SaveRest
    <2> QED BY <2>1, <2>3, <2>4 DEF StoresNothing, Answering
<1>8. CASE Commit(v, s)
    <2>1. /\ run[v][s].pc = "commit" /\ run'[v][s].pc = "release" /\ UNCHANGED <<answered, made>>
          /\ run'[v][s].import = run[v][s].import
        BY <1>8, <1>g DEF Commit
    <2>2. Wrote(run[v][s], s, client[v][run[v][s].c])
        BY <1>w, <2>1 DEF Holding, Ending
    <2>3. ~Answering(run'[v][s])
        BY <2>1 DEF Answering, Saving
    <2>4. CASE client[v][run[v][s].c].tx = "open" /\ run[v][s].then = "receive"
        <3>1. table' = table \cup Stores(s, run[v][s].import, run[v][s].answer) /\ run[v][s].import \in Id
            BY <1>8, <2>1, <2>2, <2>4 DEF Commit, Committed, Wrote
        <3> QED BY <2>1, <2>3, <2>4, <3>1 DEF StoresAnswer, Answering
    <2>5. CASE ~(client[v][run[v][s].c].tx = "open" /\ run[v][s].then = "receive")
        <3>1. table' = table
            BY <1>8, <2>1, <2>2, <2>5 DEF Commit, Committed, Wrote
        <3> QED BY <2>1, <2>3, <3>1 DEF StoresNothing
    <2> QED BY <2>4, <2>5
<1>9. CASE Rollback(v, s)
    BY <1>9, <1>g DEF Rollback, StoresNothing, Answering, Saving
<1>10. CASE EndFails(v, s)
    <2>1. run[v][s].pc \in Holding
        BY <1>10 DEF EndFails, Holding, Ending
    <2> QED BY <1>10, <1>r, <2>1 DEF EndFails, StoresNothing
<1>11. CASE Release(v, s)
    <2>1. run[v][s].pc \in Holding
        BY <1>11 DEF Release, Holding
    <2>2. CASE Returned(v, s)
        BY <1>11, <1>r, <2>1, <2>2 DEF Release, StoresNothing
    <2>3. CASE Go(v, s, "release", "over")
        BY <1>11, <1>g, <2>3 DEF Release, StoresNothing, Answering, Saving
    <2> QED BY <1>11, <2>2, <2>3 DEF Release
<1> QED BY <1>1, <1>2, <1>3, <1>4, <1>5, <1>6, <1>7, <1>8, <1>9, <1>10, <1>11 DEF RunStep

\* Other Runs are not concerned by what a step stores.
LEMMA StoredRunStep ==
    ASSUME Typed, PoolInv, ClientsInv, StoredInv, OneSource, NEW v \in Server, NEW s \in Source, RunStep(v, s)
    PROVE  StoredInv'
<1>0. Typed'
    BY TypedRunStep
<1>t. \A t \in Source : t = s
    BY DEF OneSource
<1>f. \A w \in Server \ {v} : run'[w] = run[w]
    BY RunFrame
<1>m. made[s] \in Nat /\ made'[s] \in Nat /\ \A w \in Server : run[w][s] \in RunState /\ run[w][s].import \in Nat
    BY <1>0, PollingAssumption DEF Typed, Shapes, RunState
<1>p. table \in SUBSET Row /\ answered \in SUBSET Row
    BY DEF Typed, Shapes
<1>h. Handed /\ NotYetStored /\ OwnImports /\ PollIsAtomic
    BY DEF StoredInv
\* An import and its rows, said without the other source there is not.
<1>a. \A i \in Id : Parts(table, s, i) = {} \/ Parts(table, s, i) = Parts(answered, s, i)
    BY <1>h DEF PollIsAtomic, Parts, Handed
<1>b. ASSUME Handed',
             \A i \in Id : Parts(table', s, i) = {} \/ Parts(table', s, i) = Parts(answered', s, i)
      PROVE  PollIsAtomic'
    <2>1. \A t \in Source, i \in Id : {r \in answered' : r[1] = t /\ r[2] = i} = Parts(answered', t, i)
        BY <1>b DEF Handed, Parts
    <2> QED BY <1>b, <1>t, <2>1 DEF PollIsAtomic, Parts
<1>1. CASE StoresNothing(v, s)
    <2>1. UNCHANGED <<table, answered, made>>
        BY <1>1 DEF StoresNothing
    <2>2. Handed' /\ PollIsAtomic'
        BY <1>h, <2>1 DEF Handed, PollIsAtomic
    <2>3. NotYetStored'
        BY <1>1, <1>f, <1>h, <1>t, <2>1 DEF StoresNothing, NotYetStored
    <2>4. OwnImports'
        BY <1>1, <1>f, <1>h, <1>m, <1>t, <2>1 DEF StoresNothing, OwnImports
    <2> QED BY <2>2, <2>3, <2>4 DEF StoredInv
<1>2. CASE MakesImport(v, s)
    <2> PICK i : i = made[s] + 1
        OBVIOUS
    <2> PICK A : A = run'[v][s].answer
        OBVIOUS
    <2>1. /\ table' = table \cup {<<s, i, "import">>}
          /\ answered' = answered \cup Stores(s, i, A)
          /\ made'[s] = i /\ run'[v][s].import = i
        BY <1>2 DEF MakesImport, Typed, Shapes
    <2>2. A \in SUBSET Part
        BY <1>0 DEF Typed, Shapes, RunState
    <2>3. Handed'
        <3>1. ASSUME NEW r \in table \cup answered
              PROVE  r[1] = s /\ r[2] \in Nat /\ r[2] <= made[s]
            <4>1. r \in Row
                BY <1>p
            <4>2. r[1] = s /\ r[2] \in Nat
                BY <1>t, <4>1 DEF Row, Id
            <4> QED BY <1>h, <4>2 DEF Handed
        <3>2. \A r \in table \cup answered : r[2] <= made'[r[1]]
            BY <1>m, <2>1, <3>1
        <3>3. \A r \in {<<s, i, "import">>} \cup Stores(s, i, A) : r[2] <= made'[r[1]]
            BY <1>m, <2>1 DEF Stores
        <3>4. \A r \in answered' : r[3] \in Part
            BY <1>h, <2>1, <2>2 DEF Handed, Stores
        <3> QED BY <2>1, <3>2, <3>3, <3>4 DEF Handed
    <2>4. Parts(table, s, i) = {} /\ Parts(answered, s, i) = {}
        BY <1>h, <1>m DEF Handed, Parts
    <2>5. ASSUME NEW j
          PROVE  /\ Parts(table', s, j) = Parts(table, s, j)
                 /\ Parts(answered', s, j) = IF j = i THEN Stores(s, i, A) ELSE Parts(answered, s, j)
        <3>1. /\ Parts(table', s, j) = Parts(table, s, j) \cup Parts({<<s, i, "import">>}, s, j)
              /\ Parts(answered', s, j) = Parts(answered, s, j) \cup Parts(Stores(s, i, A), s, j)
            BY <2>1, PartsCup
        <3>2. /\ Parts({<<s, i, "import">>}, s, j) = {}
              /\ Parts(Stores(s, i, A), s, j) = IF i = j THEN Stores(s, i, A) ELSE {}
            BY <2>2, PartsOfImport, PartsOfAnswer
        <3> QED BY <2>4, <3>1, <3>2
    <2>6. PollIsAtomic'
        BY <1>a, <1>b, <2>3, <2>4, <2>5
    <2>7. \A w \in Server \ {v} : run[w][s].import # i /\ run'[w][s].import # i
        BY <1>f, <1>h, <1>m DEF OwnImports
    <2>8. NotYetStored'
        <3>1. Parts(table', s, i) = {} /\ Parts(answered', s, i) = Stores(s, i, A)
            BY <2>4, <2>5
        <3>2. ASSUME NEW w \in Server \ {v}, Answering(run'[w][s])
              PROVE  /\ Parts(table', s, run'[w][s].import) = {}
                     /\ Parts(answered', s, run'[w][s].import) = Stores(s, run'[w][s].import, run'[w][s].answer)
            BY <1>f, <1>h, <2>5, <2>7, <3>2 DEF NotYetStored
        <3> QED BY <1>t, <2>1, <3>1, <3>2 DEF NotYetStored
    <2>9. OwnImports'
        BY <1>f, <1>h, <1>m, <1>t, <2>1, <2>7 DEF OwnImports
    <2> QED BY <2>3, <2>6, <2>8, <2>9 DEF StoredInv
<1>3. CASE StoresAnswer(v, s)
    <2> PICK i : i = run[v][s].import
        OBVIOUS
    <2> PICK A : A = run[v][s].answer
        OBVIOUS
    <2>1. /\ i \in Id /\ Answering(run[v][s]) /\ ~Answering(run'[v][s])
          /\ table' = table \cup Stores(s, i, A)
          /\ UNCHANGED <<answered, made>> /\ run'[v][s].import = i
        BY <1>3 DEF StoresAnswer
    <2>2. A \in SUBSET Part /\ i \in Nat \ {0} /\ i <= made[s]
        BY <1>h, <1>m, <2>1, PollingAssumption DEF RunState, Id, OwnImports
    <2>3. Handed'
        BY <1>h, <1>p, <1>t, <2>1, <2>2 DEF Handed, Stores, Row
    <2>4. Parts(table, s, i) = {} /\ Parts(answered, s, i) = Stores(s, i, A)
        BY <1>h, <2>1 DEF NotYetStored
    <2>5. ASSUME NEW j
          PROVE  Parts(table', s, j) = IF j = i THEN Stores(s, i, A) ELSE Parts(table, s, j)
        <3>1. Parts(table', s, j) = Parts(table, s, j) \cup Parts(Stores(s, i, A), s, j)
            BY <2>1, PartsCup
        <3>2. Parts(Stores(s, i, A), s, j) = IF i = j THEN Stores(s, i, A) ELSE {}
            BY <2>2, PartsOfImport, PartsOfAnswer
        <3> QED BY <2>4, <3>1, <3>2
    <2>6. PollIsAtomic'
        BY <1>a, <1>b, <2>1, <2>3, <2>4, <2>5
    <2>7. \A w \in Server \ {v} : run[w][s].import # i
        BY <1>h, <2>2 DEF OwnImports
    <2>8. NotYetStored'
        <3>1. ASSUME NEW w \in Server \ {v}, Answering(run'[w][s])
              PROVE  /\ Parts(table', s, run'[w][s].import) = {}
                     /\ Parts(answered', s, run'[w][s].import) = Stores(s, run'[w][s].import, run'[w][s].answer)
            BY <1>f, <1>h, <2>1, <2>5, <2>7, <3>1 DEF NotYetStored
        <3> QED BY <1>t, <2>1, <3>1 DEF NotYetStored
    <2>9. OwnImports'
        BY <1>f, <1>h, <1>m, <1>t, <2>1 DEF OwnImports
    <2> QED BY <2>3, <2>6, <2>8, <2>9 DEF StoredInv
<1> QED BY <1>1, <1>2, <1>3, TableStep

LEMMA OneInit == Init => ClientsInv /\ StoredInv
<1> SUFFICES ASSUME Init
             PROVE  ClientsInv /\ StoredInv
    OBVIOUS
<1>1. ClientsInv
    BY DEF Init, ClientsInv, IdleClean, RunsWrote, NoClient, NoRun, Holding, Working, Ending
<1>2. NotYetStored /\ OwnImports
    BY DEF Init, NotYetStored, OwnImports, Answering, Saving, NoRun
<1>3. Handed /\ PollIsAtomic
    BY DEF Init, Handed, PollIsAtomic
<1> QED BY <1>1, <1>2, <1>3 DEF StoredInv

LEMMA OneNext ==
    OneSource /\ Typed /\ PoolInv /\ ClientsInv /\ StoredInv /\ [Next]_vars => (ClientsInv /\ StoredInv)'
<1> SUFFICES ASSUME OneSource, Typed, PoolInv, ClientsInv, StoredInv, [Next]_vars
             PROVE  (ClientsInv /\ StoredInv)'
    OBVIOUS
<1> USE DEF tables
<1>1. ASSUME UNCHANGED <<table, answered, made, client, run>>
      PROVE  (ClientsInv /\ StoredInv)'
    BY <1>1 DEF ClientsInv, IdleClean, RunsWrote, StoredInv, NotYetStored, OwnImports, Handed, PollIsAtomic
<1>2. ASSUME NEW v \in Server, StartThread(v) \/ Terminate(v)
      PROVE  (ClientsInv /\ StoredInv)'
    <2>1. /\ UNCHANGED <<table, answered, made>>
          /\ \A w \in Server \ {v} : client'[w] = client[w] /\ run'[w] = run[w]
          /\ \A c \in Client : client'[v][c] = NoClient
          /\ \A s \in Source : run'[v][s].pc \in {"begin", "over"} /\ run'[v][s].import = 0
        BY <1>2 DEF StartThread, Terminate, NoRun, Typed, Shapes
    <2>2. IdleClean'
        BY <2>1 DEF ClientsInv, IdleClean, NoClient
    <2>3. RunsWrote'
        BY <2>1 DEF ClientsInv, RunsWrote, Holding, Working, Ending
    <2>4. NotYetStored'
        BY <2>1 DEF StoredInv, NotYetStored, Answering, Saving
    <2>5. OwnImports'
        <3>1. \A s \in Source : made[s] \in Nat
            BY PollingAssumption DEF Typed, Shapes
        <3> QED BY <2>1, <3>1 DEF StoredInv, OwnImports
    <2>6. Handed' /\ PollIsAtomic'
        BY <2>1 DEF StoredInv, Handed, PollIsAtomic
    <2> QED BY <2>2, <2>3, <2>4, <2>5, <2>6 DEF ClientsInv, StoredInv
<1>3. ASSUME NEW s \in Source, Elapse(s) \/ \E i \in Id : Touch(s, i)
      PROVE  (ClientsInv /\ StoredInv)'
    BY <1>1, <1>3 DEF Elapse, Touch
<1>4. CASE UNCHANGED vars
    BY <1>1, <1>4 DEF vars
<1> QED BY <1>2, <1>3, <1>4, ClientsRunStep, StoredRunStep DEF Next

\* With one source, an import shows all of its poll's data or none of it:
\* whatever fails, on however many servers, and wherever a thread ends.
THEOREM PollsAreAtomic == OneSource => (Spec => []PollIsAtomic)
<1> SUFFICES ASSUME OneSource
             PROVE  Spec => []PollIsAtomic
    OBVIOUS
<1> DEFINE Inv == Typed /\ PoolInv /\ ClientsInv /\ StoredInv
<1>1. Init => Inv
    BY TypedInit, PoolInit, OneInit
<1>2. Inv /\ [Next]_vars => Inv'
    BY TypedNext, PoolNext, OneNext
<1>3. Inv => PollIsAtomic
    BY DEF StoredInv
<1> QED BY <1>1, <1>2, <1>3, PTL DEF Spec
=============================================================================
