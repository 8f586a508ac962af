------------------------- MODULE CachedTransformation -------------------------
(***************************************************************************)
(* One type transformation behind the cache (type_transformation_-         *)
(* repository.ts, cache.ts): the requests that read, save, archive and     *)
(* delete it, and those that save its type mapping with all of its         *)
(* transformations (type_mapping_repository.ts), interleave at every       *)
(* await.  The cache is the Redis the servers share, or the memory of one  *)
(* of them.  A row is the set of the saves it contains (each sets a field  *)
(* of its own) and whether it is archived.                                 *)
(***************************************************************************)
EXTENDS FiniteSets

CONSTANTS Req,  \* bound: the requests for the transformation
          Gone  \* no row; nothing to put into the cache; no request

Kind == {"read", "save", "archive", "delete", "mapping"}

Row == [edits : SUBSET Req, archived : BOOLEAN]

ASSUME GoneAssumption == Gone \notin Row \cup Req

NoEntry == [value |-> Gone, late |-> FALSE]

VARIABLES
    row,    \* type_mapping_transformations
    cache,  \* the entry of the transformation: its value, and (history) whether
            \* the row was another one when it was set
    req,    \* the requests
    locked, \* the request of a mapping whose transaction has written the row; Gone is none
    acked   \* history: the saves that have answered with success, and that the
            \* row has contained ever since

vars == <<row, cache, req, locked, acked>>

\* original: what findByID has found; late: of a late entry; filling: what is to be
\* cached; dropping: an entry is to be dropped; written: by the open transaction;
\* began (history): the edits in the row since before the save's drop
Idle == [pc |-> "idle", kind |-> "read", stage |-> "context", original |-> Gone,
         late |-> FALSE, filling |-> Gone, dropping |-> FALSE, written |-> Gone,
         began |-> {}]

Init ==
    /\ row = [edits |-> {}, archived |-> FALSE]
    /\ cache = NoEntry
    /\ req = [r \in Req |-> Idle]
    /\ locked = Gone
    /\ acked = {}

At(r, pc) == req[r].pc = pc

\* A request at pc, where it has no more use for what it has found.
On(me, pc) ==
    IF pc \in {"write", "updated", "done"} THEN [Idle EXCEPT !.pc = pc, !.kind = me.kind,
                                     !.filling = me.filling, !.dropping = me.dropping]
    ELSE [me EXCEPT !.pc = pc]

Goto(r, pc) == req' = [req EXCEPT ![r] = On(@, pc)]

Edits(value) == IF value = Gone THEN {} ELSE value.edits

\* Request r writes the row, when no transaction has it locked, and goes on at pc.
Write(r, value, pc) ==
    /\ locked \in {Gone, r}
    /\ row' = value
    /\ acked' = acked \cap Edits(value)
    /\ req' = [q \in Req |-> [IF q = r THEN On(req[r], pc) ELSE req[q]
                                EXCEPT !.began = @ \cap Edits(value)]]

-----------------------------------------------------------------------------
(* findByID: of the route's context, and again in save *)

Begin(r) ==
    /\ At(r, "idle")
    /\ \E kind \in Kind :
          req' = [req EXCEPT ![r].pc = IF kind = "mapping" THEN "save" ELSE "get", ![r].kind = kind]
    /\ UNCHANGED <<row, cache, locked, acked>>

\* The commands of a request reach the cache in order: setCache is not awaited,
\* but what follows it comes after it.
CacheFree(r) == req[r].filling = Gone

Get(r) ==
    /\ At(r, "get")
    /\ CacheFree(r)
    /\ IF cache = NoEntry
       THEN Goto(r, "retrieve")
       ELSE req' = [req EXCEPT ![r].pc = "found", ![r].original = cache.value,
                               ![r].late = cache.late]
    /\ UNCHANGED <<row, cache, locked, acked>>

\* Mutant: the error of a retrieval is not looked at.
FoundAnyway == "found"

\* A transformation that is not there ends the request.
Found == IF row = Gone THEN "done" ELSE "found"

Retrieve(r) ==
    /\ At(r, "retrieve")
    /\ req' = [req EXCEPT ![r].pc = Found,
                          ![r].original = row, ![r].late = FALSE,
                          ![r].filling = row]
    /\ UNCHANGED <<row, cache, locked, acked>>

\* Cache.set(key, value, Config.cache_default_ttl)
SetCache(r) ==
    /\ req[r].filling # Gone
    /\ cache' = [value |-> req[r].filling, late |-> req[r].filling # row]
    /\ req' = [req EXCEPT ![r].filling = Gone]
    /\ UNCHANGED <<row, locked, acked>>

\* The entry's time to live is over.
Expire ==
    /\ cache # NoEntry
    /\ cache' = NoEntry
    /\ UNCHANGED <<row, req, locked, acked>>

-----------------------------------------------------------------------------
(* The handlers *)

In(r, kind, stage) == At(r, "found") /\ req[r].kind = kind /\ req[r].stage = stage

Answer(r) ==
    /\ In(r, "read", "context")
    /\ Goto(r, "done")
    /\ UNCHANGED <<row, cache, locked, acked>>

\* Mutants: the entry is not dropped.
Keep == UNCHANGED cache

KeepAgain == UNCHANGED cache

\* deleteCached, before save fetches the original
Drop == cache' = NoEntry

\* deleteCached, after the update
DropAgain == cache' = NoEntry

\* save: the cache is dropped; a transformation that is not valid is refused.
SaveBegin(r) ==
    /\ In(r, "save", "context")
    /\ CacheFree(r)
    /\ Drop
    /\ \/ req' = [req EXCEPT ![r].pc = "get", ![r].stage = "merge",
                             ![r].began = Edits(row)]
       \/ Goto(r, "done")
    /\ UNCHANGED <<row, locked, acked>>

\* The whole row is written from the original and the edit, but for archived;
\* without a row the statement succeeds and changes nothing.  Or it fails.
Update(r) ==
    /\ In(r, "save", "merge")
    /\ \/ Write(r, IF row = Gone THEN Gone
                   ELSE [row EXCEPT !.edits = req[r].original.edits \cup {r}], "updated")
       \/ Goto(r, "done") /\ UNCHANGED <<row, acked>>
    /\ UNCHANGED <<cache, locked>>

SaveEnd(r) ==
    /\ At(r, "updated")
    /\ CacheFree(r)
    /\ DropAgain
    /\ Goto(r, "done")
    /\ acked' = acked \cup ({r} \cap Edits(row))
    /\ UNCHANGED <<row, locked>>

\* archive and delete drop the entry before they write.
ArchiveBegin(r) ==
    /\ In(r, "archive", "context")
    /\ CacheFree(r)
    /\ cache' = NoEntry
    /\ Goto(r, "write")
    /\ UNCHANGED <<row, locked, acked>>

\* Without force, a transformation with nodes or edges is not deleted.
DeleteBegin(r) ==
    /\ In(r, "delete", "context")
    /\ \/ CacheFree(r) /\ cache' = NoEntry /\ Goto(r, "write")
       \/ Goto(r, "done") /\ UNCHANGED cache
    /\ UNCHANGED <<row, locked, acked>>

Archive(r) ==
    /\ At(r, "write") /\ req[r].kind = "archive"
    /\ Write(r, IF row = Gone THEN Gone ELSE [row EXCEPT !.archived = TRUE], "done")
    /\ UNCHANGED <<cache, locked>>

Delete(r) ==
    /\ At(r, "write") /\ req[r].kind = "delete"
    /\ Write(r, Gone, "done")
    /\ UNCHANGED <<cache, locked>>

-----------------------------------------------------------------------------
(* The type mapping, saved with its transformations *)

\* The transformation's entry is dropped, which is not waited for; a
\* transformation that is not valid rolls the mapping's transaction back.
MappingBegin(r) ==
    /\ At(r, "save")
    /\ req' = [req EXCEPT ![r].dropping = TRUE, ![r].pc = "transaction"]
    /\ UNCHANGED <<row, cache, locked, acked>>

MappingDrop(r) ==
    /\ req[r].dropping
    /\ cache' = NoEntry
    /\ req' = [req EXCEPT ![r].dropping = FALSE]
    /\ UNCHANGED <<row, locked, acked>>

\* The saves that have reached the row so far, or were to.
Sent == {q \in Req : req[q].kind \in {"save", "mapping"} /\ req[q].pc \in {"updated", "done"}}

\* BulkUpdate writes the row from the payload alone, or BulkDelete removes it.  The
\* client made the payload from what it had seen at any time, however long ago.
MappingWrite(r) ==
    /\ At(r, "transaction")
    /\ locked = Gone
    /\ locked' = r
    /\ \E known \in SUBSET Sent :
       \E written \in {Gone, IF row = Gone THEN Gone ELSE [row EXCEPT !.edits = known \cup {r}]} :
          req' = [req EXCEPT ![r].pc = "commit", ![r].written = written]
    /\ UNCHANGED <<row, cache, acked>>

MappingCommit(r) ==
    /\ At(r, "commit")
    /\ Write(r, req[r].written, "done")
    /\ locked' = Gone
    /\ UNCHANGED cache

MappingRollback(r) ==
    /\ req[r].pc \in {"transaction", "commit"}
    /\ Goto(r, "done")
    /\ locked' = IF locked = r THEN Gone ELSE locked
    /\ UNCHANGED <<row, cache, acked>>

-----------------------------------------------------------------------------
Next ==
    \/ \E r \in Req :
          \/ Begin(r) \/ Get(r) \/ Retrieve(r) \/ SetCache(r) \/ Answer(r)
          \/ SaveBegin(r) \/ Update(r) \/ SaveEnd(r)
          \/ ArchiveBegin(r) \/ Archive(r) \/ DeleteBegin(r) \/ Delete(r)
          \/ MappingBegin(r) \/ MappingDrop(r) \/ MappingWrite(r)
          \/ MappingCommit(r) \/ MappingRollback(r)
    \/ Expire

Spec == Init /\ [][Next]_vars

-----------------------------------------------------------------------------
(* Properties *)

\* The state has its type; what is cached is a row, with edits that were saved.
TypeOK ==
    /\ row \in Row \cup {Gone}
    /\ cache = NoEntry \/ cache.value \in Row
    /\ acked \subseteq Req
    /\ \A r \in Req : /\ req[r].filling \in Row \cup {Gone}
                      /\ At(r, "found") => req[r].original \in Row

\* What save's two deleteCached are for: once a save has answered, no entry that
\* was current when it was set hides the save from later readers, for as long as
\* nothing undoes it in the row.
SaveIsSeen == cache # NoEntry /\ ~cache.late => acked \subseteq cache.value.edits

\* "we must delete the cached versions so as to get the archived field updated"
\* (line 80): an archived transformation is not cached as one that is not, by an
\* entry that was current when it was set.  It is violated: README, section 6.
ArchiveIsSeen == cache # NoEntry /\ ~cache.late /\ row # Gone /\ row.archived => cache.value.archived

\* "to allow partial updates we must first fetch the original object" (line
\* 125): an update does not undo what has been in the row since its save began,
\* unless its original was cached after the row had changed.
EditsKept ==
    [][\A r \in Req :
          Update(r) /\ row' # row /\ ~req[r].late => req[r].began \subseteq row'.edits]_vars
=============================================================================
