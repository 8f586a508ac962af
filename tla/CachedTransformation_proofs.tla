---------------------- MODULE CachedTransformation_proofs ----------------------
(***************************************************************************)
(* For any number of requests: the types, that a save which has answered   *)
(* is seen (SaveIsSeen) and that an update keeps the edits that were there *)
(* when its save began (EditsKept).                                        *)
(***************************************************************************)
EXTENDS CachedTransformation, TLAPS

Pc == {"idle", "get", "retrieve", "found", "write", "updated", "save", "transaction",
       "commit", "done"}

ReqType ==
  [pc : Pc, kind : Kind, stage : {"context", "merge"}, original : Row \cup {Gone},
   late : BOOLEAN, filling : Row \cup {Gone}, dropping : BOOLEAN,
   written : Row \cup {Gone}, began : SUBSET Req]

Entry == [value : Row \cup {Gone}, late : BOOLEAN]

Typed ==
  /\ row \in Row \cup {Gone}
  /\ cache \in Entry
  /\ cache = NoEntry \/ cache.value \in Row
  /\ req \in [Req -> ReqType]
  /\ locked \in Req \cup {Gone}
  /\ acked \subseteq Req

\* An entry that was current when it was set.
Current == cache # NoEntry /\ ~cache.late

\* What a request has found is a row; a save's history is in the row, in an entry
\* that was current, and in an original read from one.
ReqOK(r) ==
  /\ At(r, "found") => req[r].original \in Row
  /\ req[r].began \subseteq Edits(row)
  /\ Current => req[r].began \subseteq cache.value.edits
  /\ At(r, "found") /\ ~req[r].late => req[r].began \subseteq req[r].original.edits

\* What has been answered is in the row and in an entry that was current.
Seen ==
  /\ acked \subseteq Edits(row)
  /\ Current => acked \subseteq cache.value.edits

IInv == Typed /\ (\A r \in Req : ReqOK(r)) /\ Seen

LEMMA NoEntryType == NoEntry \in Entry
BY DEF NoEntry, Entry

LEMMA InitInv == Init => IInv
<1> SUFFICES ASSUME Init PROVE IInv
  OBVIOUS
<1>1. Idle \in ReqType
  BY DEF Idle, ReqType, Pc, Kind
<1>2. Typed
  BY <1>1, NoEntryType DEF Init, Typed, Row
<1>3. \A r \in Req : ReqOK(r)
  BY DEF Init, ReqOK, At, Idle, Current
<1>4. Seen
  BY DEF Init, Seen, Current
<1>5. QED
  BY <1>2, <1>3, <1>4 DEF IInv

\* A request that goes on keeps its history or forgets it.
LEMMA OnType ==
  ASSUME NEW me \in ReqType, NEW pc \in Pc
  PROVE  /\ On(me, pc) \in ReqType
         /\ On(me, pc).pc = pc
         /\ On(me, pc).began \in {{}, me.began}
<1>1. CASE pc \in {"write", "updated", "done"}
  <2> DEFINE new == [Idle EXCEPT !.pc = pc, !.kind = me.kind, !.filling = me.filling,
                                 !.dropping = me.dropping]
  <2>1. On(me, pc) = new
    BY <1>1 DEF On
  <2>2. new \in ReqType /\ new.pc = pc /\ new.began = {}
    BY DEF Idle, ReqType
  <2>3. QED
    BY <2>1, <2>2
<1>2. CASE pc \notin {"write", "updated", "done"}
  <2> DEFINE new == [me EXCEPT !.pc = pc]
  <2>1. On(me, pc) = new
    BY <1>2 DEF On
  <2>2. new \in ReqType /\ new.pc = pc /\ new.began = me.began
    BY DEF ReqType
  <2>3. QED
    BY <2>1, <2>2
<1>3. QED
  BY <1>1, <1>2

\* A step of one request, which reaches neither the cache nor the row.
LEMMA RequestStep ==
  ASSUME IInv, NEW r \in Req, NEW new \in ReqType,
         req' = [req EXCEPT ![r] = new],
         UNCHANGED <<row, cache, acked>>, locked' \in Req \cup {Gone},
         new.began \subseteq req[r].began,
         new.pc = "found" => /\ new.original \in Row
                             /\ ~new.late => new.began \subseteq new.original.edits
  PROVE  IInv'
<1>1. Typed'
  BY DEF IInv, Typed
<1>2. req'[r] = new /\ \A q \in Req \ {r} : req'[q] = req[q]
  BY DEF IInv, Typed
<1>3. ReqOK(r)'
  BY <1>2 DEF IInv, ReqOK, At, Current
<1>4. \A q \in Req \ {r} : ReqOK(q)'
  BY <1>2 DEF IInv, ReqOK, At, Current
<1>5. Seen'
  BY DEF IInv, Seen, Current
<1>6. QED
  BY <1>1, <1>3, <1>4, <1>5 DEF IInv

\* ...to a place where it has found nothing new.
LEMMA GotoStep ==
  ASSUME IInv, NEW r \in Req, NEW pc \in Pc \ {"found"}, Goto(r, pc),
         UNCHANGED <<row, cache, acked>>, locked' \in Req \cup {Gone}
  PROVE  IInv'
<1> DEFINE new == On(req[r], pc)
<1>1. req' = [req EXCEPT ![r] = new]
  BY DEF Goto
<1>2. req[r] \in ReqType
  BY DEF IInv, Typed
<1>3. new \in ReqType /\ new.pc = pc /\ new.began \in {{}, req[r].began}
  BY <1>2, OnType
<1> HIDE DEF new
<1>4. QED
  BY <1>1, <1>3, RequestStep

\* A step that drops the entry.
LEMMA DropStep ==
  ASSUME IInv, NEW r \in Req, NEW new \in ReqType,
         req' = [req EXCEPT ![r] = new],
         cache' = NoEntry, UNCHANGED <<row, locked>>,
         acked' \subseteq acked \cup ({r} \cap Edits(row)),
         new.began \subseteq Edits(row),
         new.pc = "found" => /\ At(r, "found") /\ new.began = req[r].began
                             /\ new.original = req[r].original /\ new.late = req[r].late
  PROVE  IInv'
<1>1. Typed'
  BY NoEntryType DEF IInv, Typed
<1>2. req'[r] = new /\ \A q \in Req \ {r} : req'[q] = req[q]
  BY DEF IInv, Typed
<1>3. ReqOK(r)'
  BY <1>2 DEF IInv, ReqOK, At, Current
<1>4. \A q \in Req \ {r} : ReqOK(q)'
  BY <1>2 DEF IInv, ReqOK, At, Current
<1>5. Seen'
  BY DEF IInv, Seen, Current, Edits
<1>6. QED
  BY <1>1, <1>3, <1>4, <1>5 DEF IInv

\* A write takes what it undoes out of every history.
LEMMA WriteStep ==
  ASSUME IInv, NEW r \in Req, NEW value \in Row \cup {Gone}, NEW pc \in {"updated", "done"},
         Write(r, value, pc), UNCHANGED cache, locked' \in Req \cup {Gone}
  PROVE  IInv'
<1>1. row' = value /\ acked' = acked \cap Edits(value)
  BY DEF Write
<1> DEFINE on(q) == IF q = r THEN On(req[r], pc) ELSE req[q]
<1>2. ASSUME NEW q \in Req
      PROVE  /\ on(q) \in ReqType
             /\ on(q).began \subseteq req[q].began
             /\ on(q).pc = "found" => on(q) = req[q]
             /\ req[q] \in ReqType
  <2>1. req[q] \in ReqType /\ req[r] \in ReqType
    BY DEF IInv, Typed
  <2>2. /\ On(req[r], pc) \in ReqType
        /\ On(req[r], pc).pc = pc
        /\ On(req[r], pc).began \in {{}, req[r].began}
    BY <2>1, OnType DEF Pc
  <2>3. CASE q = r
    BY <2>1, <2>2, <2>3
  <2>4. CASE q # r
    BY <2>1, <2>4
  <2>5. QED
    BY <2>3, <2>4
<1>3. req' = [q \in Req |-> [on(q) EXCEPT !.began = @ \cap Edits(value)]]
  BY DEF Write
<1> HIDE DEF on
<1>4. ASSUME NEW q \in Req
      PROVE  /\ req'[q] \in ReqType
             /\ req'[q].began = on(q).began \cap Edits(value)
             /\ req'[q].pc = on(q).pc
             /\ req'[q].original = on(q).original
             /\ req'[q].late = on(q).late
  <2>1. req'[q] = [on(q) EXCEPT !.began = @ \cap Edits(value)]
    BY <1>3
  <2>2. on(q) \in ReqType /\ on(q).began \cap Edits(value) \in SUBSET Req
    BY <1>2 DEF ReqType
  <2>3. QED
    BY <2>1, <2>2 DEF ReqType
<1>5. Typed'
  BY <1>1, <1>3, <1>4 DEF IInv, Typed
<1>6. ASSUME NEW q \in Req
      PROVE  ReqOK(q)'
  <2>1. /\ req'[q].began \subseteq req[q].began \cap Edits(value)
        /\ req'[q].pc = "found" => /\ req[q].pc = "found"
                                   /\ req'[q].original = req[q].original
                                   /\ req'[q].late = req[q].late
    BY <1>2, <1>4
  <2>2. ReqOK(q)
    BY DEF IInv
  <2>3. Edits(row)' = Edits(value)
    BY <1>1 DEF Edits
  <2>4. QED
    BY <2>1, <2>2, <2>3 DEF ReqOK, At, Current
<1>7. Seen'
  <2>1. Edits(row)' = Edits(value)
    BY <1>1 DEF Edits
  <2>2. QED
    BY <1>1, <2>1 DEF IInv, Seen, Current
<1>8. QED
  BY <1>5, <1>6, <1>7 DEF IInv

\* An entry is set to the row a request has found.
LEMMA SetInv ==
  ASSUME IInv, NEW r \in Req, SetCache(r)
  PROVE  IInv'
<1> DEFINE new == [req[r] EXCEPT !.filling = Gone]
<1>1. /\ req[r].filling \in Row
      /\ cache' = [value |-> req[r].filling, late |-> req[r].filling # row]
      /\ req' = [req EXCEPT ![r] = new]
      /\ UNCHANGED <<row, locked, acked>>
  BY DEF SetCache, IInv, Typed, ReqType
<1>2. /\ new \in ReqType
      /\ new.pc = req[r].pc /\ new.began = req[r].began /\ new.original = req[r].original
      /\ new.late = req[r].late
  BY DEF IInv, Typed, ReqType
<1> HIDE DEF new
<1>3. \A q \in Req : /\ req'[q] \in ReqType
                     /\ req'[q].pc = req[q].pc /\ req'[q].began = req[q].began
                     /\ req'[q].original = req[q].original /\ req'[q].late = req[q].late
  BY <1>1, <1>2 DEF IInv, Typed
<1>4. cache'.value \in Row /\ cache' \in Entry
  BY <1>1 DEF Entry
<1>5. Typed'
  BY <1>1, <1>2, <1>4 DEF IInv, Typed
<1>6. Current' => cache'.value = row /\ Edits(row) = cache'.value.edits
  BY <1>1, GoneAssumption DEF Current, Edits
<1>7. \A q \in Req : ReqOK(q)'
  BY <1>1, <1>3, <1>6 DEF IInv, ReqOK, At
<1>8. Seen'
  BY <1>1, <1>6 DEF IInv, Seen
<1>9. QED
  BY <1>5, <1>7, <1>8 DEF IInv

\* The steps of findByID, and those that only move on.
LEMMA ReadInv ==
  ASSUME IInv, NEW r \in Req,
         Begin(r) \/ Get(r) \/ Retrieve(r) \/ Answer(r) \/ MappingBegin(r)
  PROVE  IInv'
<1>0. req[r] \in ReqType /\ ReqOK(r) /\ row \in Row \cup {Gone} /\ locked \in Req \cup {Gone}
  BY DEF IInv, Typed
<1>1. CASE Begin(r)
  <2>1. PICK kind \in Kind :
          req' = [req EXCEPT ![r].pc = IF kind = "mapping" THEN "save" ELSE "get", ![r].kind = kind]
    BY <1>1 DEF Begin
  <2> DEFINE new == [req[r] EXCEPT !.pc = IF kind = "mapping" THEN "save" ELSE "get", !.kind = kind]
  <2>2. req' = [req EXCEPT ![r] = new]
    BY <2>1
  <2>3. new \in ReqType /\ new.pc \in {"save", "get"} /\ new.began = req[r].began
    BY <1>0 DEF ReqType, Pc
  <2> HIDE DEF new
  <2>4. QED
    BY <1>0, <1>1, <2>2, <2>3, RequestStep DEF Begin
<1>2. CASE Get(r)
  <2>1. CASE cache = NoEntry
    <3>1. Goto(r, "retrieve") /\ UNCHANGED <<row, cache, locked, acked>>
      BY <1>2, <2>1 DEF Get
    <3>2. QED
      BY <1>0, <3>1, GotoStep DEF Pc
  <2>2. CASE cache # NoEntry
    <3> DEFINE new == [req[r] EXCEPT !.pc = "found", !.original = cache.value, !.late = cache.late]
    <3>1. req' = [req EXCEPT ![r] = new]
      BY <1>2, <2>2 DEF Get
    <3>2. cache.value \in Row /\ cache.late \in BOOLEAN
      BY <2>2 DEF IInv, Typed, Entry
    <3>3. /\ new \in ReqType /\ new.pc = "found" /\ new.began = req[r].began
          /\ new.original = cache.value /\ new.late = cache.late
      BY <1>0, <3>2 DEF ReqType, Pc
    <3> HIDE DEF new
    <3>4. ~new.late => new.began \subseteq new.original.edits
      BY <1>0, <2>2, <3>3 DEF ReqOK, Current
    <3>5. QED
      BY <1>0, <1>2, <3>1, <3>2, <3>3, <3>4, RequestStep DEF Get
  <2>3. QED
    BY <2>1, <2>2
<1>3. CASE Retrieve(r)
  <2> DEFINE new == [req[r] EXCEPT !.pc = Found, !.original = row, !.late = FALSE, !.filling = row]
  <2>1. req' = [req EXCEPT ![r] = new]
    BY <1>3 DEF Retrieve
  <2>2. Found \in {"done", "found"} /\ (Found = "found" => row # Gone)
    BY DEF Found
  <2>3. /\ new \in ReqType /\ new.pc = Found /\ new.began = req[r].began
        /\ new.original = row /\ new.late = FALSE
    BY <1>0, <2>2 DEF ReqType, Pc
  <2> HIDE DEF new
  <2>4. row # Gone => row \in Row /\ new.began \subseteq row.edits
    BY <1>0, <2>3 DEF ReqOK, Edits
  <2>5. QED
    BY <1>0, <1>3, <2>1, <2>2, <2>3, <2>4, RequestStep DEF Retrieve
<1>4. CASE Answer(r)
  BY <1>0, <1>4, GotoStep DEF Answer, Pc
<1>5. CASE MappingBegin(r)
  <2> DEFINE new == [req[r] EXCEPT !.dropping = TRUE, !.pc = "transaction"]
  <2>1. req' = [req EXCEPT ![r] = new]
    BY <1>5 DEF MappingBegin
  <2>2. new \in ReqType /\ new.pc = "transaction" /\ new.began = req[r].began
    BY <1>0 DEF ReqType, Pc
  <2> HIDE DEF new
  <2>3. QED
    BY <1>0, <1>5, <2>1, <2>2, RequestStep DEF MappingBegin
<1>6. QED
  BY <1>1, <1>2, <1>3, <1>4, <1>5

\* The steps that drop the entry.
LEMMA DropInv ==
  ASSUME IInv, NEW r \in Req,
         SaveBegin(r) \/ SaveEnd(r) \/ ArchiveBegin(r) \/ DeleteBegin(r) \/ MappingDrop(r)
  PROVE  IInv'
<1>0. req[r] \in ReqType /\ ReqOK(r) /\ row \in Row \cup {Gone} /\ locked \in Req \cup {Gone}
  BY DEF IInv, Typed
<1>1. ASSUME NEW pc \in {"done", "write"}, Goto(r, pc), cache' = NoEntry,
             acked' \subseteq acked \cup ({r} \cap Edits(row)), UNCHANGED <<row, locked>>
      PROVE  IInv'
  <2> DEFINE new == On(req[r], pc)
  <2>1. req' = [req EXCEPT ![r] = new]
    BY <1>1 DEF Goto
  <2>2. new \in ReqType /\ new.pc = pc /\ new.began \in {{}, req[r].began}
    BY <1>0, OnType DEF Pc
  <2> HIDE DEF new
  <2>3. new.began \subseteq Edits(row)
    BY <1>0, <2>2 DEF ReqOK
  <2>4. QED
    BY <1>1, <2>1, <2>2, <2>3, DropStep
<1>2. CASE SaveBegin(r)
  <2>1. /\ cache' = NoEntry /\ UNCHANGED <<row, locked, acked>>
        /\ \/ req' = [req EXCEPT ![r].pc = "get", ![r].stage = "merge", ![r].began = Edits(row)]
           \/ Goto(r, "done")
    BY <1>2 DEF SaveBegin, Drop
  <2>2. CASE req' = [req EXCEPT ![r].pc = "get", ![r].stage = "merge", ![r].began = Edits(row)]
    <3> DEFINE new == [req[r] EXCEPT !.pc = "get", !.stage = "merge", !.began = Edits(row)]
    <3>1. req' = [req EXCEPT ![r] = new]
      BY <2>2
    <3>2. Edits(row) \subseteq Req
      BY <1>0 DEF Edits, Row
    <3>3. new \in ReqType /\ new.pc = "get" /\ new.began = Edits(row)
      BY <1>0, <3>2 DEF ReqType, Pc
    <3> HIDE DEF new
    <3>4. QED
      BY <2>1, <3>1, <3>3, DropStep
  <2>3. CASE Goto(r, "done")
    BY <1>1, <2>1, <2>3
  <2>4. QED
    BY <2>1, <2>2, <2>3
<1>3. CASE SaveEnd(r)
  BY <1>1, <1>3 DEF SaveEnd, DropAgain
<1>4. CASE ArchiveBegin(r)
  BY <1>1, <1>4 DEF ArchiveBegin
<1>5. CASE DeleteBegin(r)
  <2>1. UNCHANGED <<row, locked, acked>>
    BY <1>5 DEF DeleteBegin
  <2>2. CASE cache' = NoEntry /\ Goto(r, "write")
    BY <1>1, <2>1, <2>2
  <2>3. CASE Goto(r, "done") /\ UNCHANGED cache
    BY <1>0, <2>1, <2>3, GotoStep DEF Pc
  <2>4. QED
    BY <1>5, <2>2, <2>3 DEF DeleteBegin
<1>6. CASE MappingDrop(r)
  <2> DEFINE new == [req[r] EXCEPT !.dropping = FALSE]
  <2>1. req' = [req EXCEPT ![r] = new]
    BY <1>6 DEF MappingDrop
  <2>2. /\ new \in ReqType /\ new.pc = req[r].pc /\ new.began = req[r].began
        /\ new.original = req[r].original /\ new.late = req[r].late
    BY <1>0 DEF ReqType
  <2> HIDE DEF new
  <2>3. /\ new.began \subseteq Edits(row)
        /\ new.pc = "found" => At(r, "found")
    BY <1>0, <2>2 DEF ReqOK, At
  <2>4. cache' = NoEntry /\ UNCHANGED <<row, locked, acked>>
    BY <1>6 DEF MappingDrop
  <2>5. QED
    BY <2>1, <2>2, <2>3, <2>4, DropStep
<1>7. QED
  BY <1>2, <1>3, <1>4, <1>5, <1>6

LEMMA ExpireInv ==
  ASSUME IInv, Expire
  PROVE  IInv'
<1>1. cache' = NoEntry /\ UNCHANGED <<row, req, locked, acked>>
  BY DEF Expire
<1>2. Typed'
  BY <1>1, NoEntryType DEF IInv, Typed
<1>3. (\A r \in Req : ReqOK(r)') /\ Seen'
  BY <1>1 DEF IInv, ReqOK, Seen, Current, At
<1>4. QED
  BY <1>2, <1>3 DEF IInv

\* The statements that write the row.
LEMMA WriteInv ==
  ASSUME IInv, NEW r \in Req, Update(r) \/ Archive(r) \/ Delete(r) \/ MappingCommit(r)
  PROVE  IInv'
<1>0. req[r] \in ReqType /\ ReqOK(r) /\ row \in Row \cup {Gone} /\ locked \in Req \cup {Gone}
  BY DEF IInv, Typed
<1>1. CASE Update(r)
  <2>1. req[r].original \in Row /\ UNCHANGED <<cache, locked>>
    BY <1>0, <1>1 DEF Update, In, ReqOK
  <2>2. CASE Goto(r, "done") /\ UNCHANGED <<row, acked>>
    BY <1>0, <2>1, <2>2, GotoStep DEF Pc
  <2>3. CASE ~(Goto(r, "done") /\ UNCHANGED <<row, acked>>)
    <3> DEFINE value == IF row = Gone THEN Gone
                        ELSE [row EXCEPT !.edits = req[r].original.edits \cup {r}]
    <3>1. Write(r, value, "updated")
      BY <1>1, <2>3 DEF Update
    <3>2. req[r].original.edits \cup {r} \in SUBSET Req
      BY <2>1 DEF Row
    <3>3. value \in Row \cup {Gone}
      BY <1>0, <3>2 DEF Row
    <3> HIDE DEF value
    <3>4. QED
      BY <1>0, <2>1, <3>1, <3>3, WriteStep
  <2>4. QED
    BY <2>2, <2>3
<1>2. CASE Archive(r)
  <2> DEFINE value == IF row = Gone THEN Gone ELSE [row EXCEPT !.archived = TRUE]
  <2>1. Write(r, value, "done") /\ UNCHANGED <<cache, locked>>
    BY <1>2 DEF Archive
  <2>2. value \in Row \cup {Gone}
    BY <1>0 DEF Row
  <2> HIDE DEF value
  <2>3. QED
    BY <1>0, <2>1, <2>2, WriteStep
<1>3. CASE Delete(r)
  BY <1>0, <1>3, WriteStep DEF Delete
<1>4. CASE MappingCommit(r)
  <2>1. Write(r, req[r].written, "done") /\ locked' = Gone /\ UNCHANGED cache
    BY <1>4 DEF MappingCommit
  <2>2. req[r].written \in Row \cup {Gone}
    BY <1>0 DEF ReqType
  <2>3. QED
    BY <2>1, <2>2, WriteStep
<1>5. QED
  BY <1>1, <1>2, <1>3, <1>4

\* The transaction of a mapping locks the row and gives it up.
LEMMA LockInv ==
  ASSUME IInv, NEW r \in Req, MappingWrite(r) \/ MappingRollback(r)
  PROVE  IInv'
<1>0. req[r] \in ReqType /\ row \in Row \cup {Gone} /\ locked \in Req \cup {Gone}
  BY DEF IInv, Typed
<1>1. CASE MappingWrite(r)
  <2>1. PICK known \in SUBSET Sent :
        \E written \in {Gone, IF row = Gone THEN Gone ELSE [row EXCEPT !.edits = known \cup {r}]} :
           req' = [req EXCEPT ![r].pc = "commit", ![r].written = written]
    BY <1>1 DEF MappingWrite
  <2>2. PICK written \in {Gone, IF row = Gone THEN Gone ELSE [row EXCEPT !.edits = known \cup {r}]} :
          req' = [req EXCEPT ![r].pc = "commit", ![r].written = written]
    BY <2>1
  <2>3. locked' = r /\ UNCHANGED <<row, cache, acked>>
    BY <1>1 DEF MappingWrite
  <2>4. known \cup {r} \in SUBSET Req
    BY DEF Sent
  <2>5. written \in Row \cup {Gone}
    BY <1>0, <2>4 DEF Row
  <2> DEFINE new == [req[r] EXCEPT !.pc = "commit", !.written = written]
  <2>6. req' = [req EXCEPT ![r] = new]
    BY <2>2
  <2>7. new \in ReqType /\ new.pc = "commit" /\ new.began = req[r].began
    BY <1>0, <2>5 DEF ReqType, Pc
  <2> HIDE DEF new
  <2>8. QED
    BY <2>3, <2>6, <2>7, RequestStep
<1>2. CASE MappingRollback(r)
  BY <1>0, <1>2, GotoStep DEF MappingRollback, Pc
<1>3. QED
  BY <1>1, <1>2

LEMMA StepInv == IInv /\ [Next]_vars => IInv'
<1> SUFFICES ASSUME IInv, [Next]_vars PROVE IInv'
  OBVIOUS
<1>1. CASE UNCHANGED vars
  BY <1>1 DEF vars, IInv, Typed, ReqOK, Seen, At, Current
<1>2. CASE Next
  BY <1>2, ReadInv, SetInv, DropInv, ExpireInv, WriteInv, LockInv DEF Next
<1>3. QED
  BY <1>1, <1>2

LEMMA Invariance == Spec => []IInv
BY InitInv, StepInv, PTL DEF Spec

\* What a request has found and what the cache has is a row, for any number of requests.
THEOREM TypeCorrect == Spec => []TypeOK
<1>1. IInv => TypeOK
  BY DEF IInv, Typed, ReqOK, ReqType, TypeOK
<1>2. QED
  BY <1>1, Invariance, PTL

\* An entry that was current when it was set hides no save that has answered and
\* that nothing has undone in the row since.
THEOREM SavesSeen == Spec => []SaveIsSeen
<1>1. IInv => SaveIsSeen
  BY DEF IInv, Seen, Current, SaveIsSeen
<1>2. QED
  BY <1>1, Invariance, PTL

\* An update keeps the edits that have been in the row since its save began.
THEOREM UpdatesKeep == Spec => EditsKept
<1> DEFINE Kept == \A r \in Req :
                      Update(r) /\ row' # row /\ ~req[r].late => req[r].began \subseteq row'.edits
<1>1. ASSUME IInv, [Next]_vars
      PROVE  Kept
  <2> SUFFICES ASSUME NEW r \in Req, Update(r), row' # row, ~req[r].late
               PROVE  req[r].began \subseteq row'.edits
    OBVIOUS
  <2>1. At(r, "found")
    BY DEF Update, In
  <2>2. req[r].began \subseteq req[r].original.edits /\ row \in Row \cup {Gone}
    BY <1>1, <2>1 DEF IInv, Typed, ReqOK
  <2>3. row' = (IF row = Gone THEN Gone
                ELSE [row EXCEPT !.edits = req[r].original.edits \cup {r}])
    BY DEF Update, Write
  <2>4. row \in Row /\ row' = [row EXCEPT !.edits = req[r].original.edits \cup {r}]
    BY <2>2, <2>3
  <2>5. row'.edits = req[r].original.edits \cup {r}
    BY <2>4 DEF Row
  <2>6. QED
    BY <2>2, <2>5
<1>2. IInv /\ [Next]_vars => [Kept]_vars
  BY <1>1
<1>3. QED
  BY <1>2, Invariance, PTL DEF Spec, EditsKept
=============================================================================
