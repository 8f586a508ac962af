--------------------------- MODULE OntologyVersions ---------------------------
(***************************************************************************)
(* The versions of one container's ontology: created empty or cloned from  *)
(* a base version in the background (ontology_version_repository.ts,       *)
(* clone_ontology of migration 068), sent for approval, approved, revoked, *)
(* published, deleted (ontology_version_routes.ts), or imported from a     *)
(* file (importOntology of container_repository.ts).  A version holds      *)
(* metatypes and their keys.  Requests interleave statement by statement.  *)
(***************************************************************************)
EXTENDS Integers, FiniteSets

CONSTANTS MaxVersions,  \* bound: versions of the container
          Type,         \* metatypes, by name
          Mapping,      \* the container's type mappings
          MaxRequests,  \* bound: requests of users, other than for a new version
          MaxFaults     \* bound: statements that fail, servers that end

ASSUME VersionsAssumption ==
    MaxVersions \in Nat \ {0} /\ MaxRequests \in Nat /\ MaxFaults \in Nat

Version == 1..MaxVersions

Status == {"pending", "approved", "rejected", "published", "deprecated", "ready",
           "error", "generating"}

VARIABLES
    status,      \* ontology_versions.status; "none" is no row yet, "deleted" no row any more
    types, keys, \* the metatypes of each version, and those of them with their keys
    clone,       \* cloneOntology of each version
    publishing,  \* the versions a publish request has marked and not returned for
    deleting,    \* the versions a delete request has found not to be published
    import,      \* importOntology
    active,      \* the type mappings that are active
    unreviewed,  \* history: those of them that were when a request last published a version
    seen,        \* history: the contents <<types, keys>> of its base while a clone reads it
    requests, faults

vars == <<status, types, keys, clone, publishing, deleting, import, active,
          unreviewed, seen, requests, faults>>

NoClone == [pc |-> "none", base |-> 0, types |-> {}, keys |-> {}]

NoImport == [pc |-> "none", old |-> 0, new |-> 0]

\* The trigger on containers inserts the first version, published.
Init ==
    /\ status = [v \in Version |-> IF v = 1 THEN "published" ELSE "none"]
    /\ types = [v \in Version |-> {}]
    /\ keys = [v \in Version |-> {}]
    /\ clone = [v \in Version |-> NoClone]
    /\ publishing = {}
    /\ deleting = {}
    /\ import = NoImport
    /\ active = Mapping
    /\ unreviewed = {}
    /\ seen = [v \in Version |-> {}]
    /\ requests = 0
    /\ faults = 0

-----------------------------------------------------------------------------
(* Rows *)

Exists(v) == status[v] \notin {"none", "deleted"}

\* The clone's transaction updates its version first and keeps the row locked.
Unlocked(v) == clone[v].pc \notin {"types", "keys"}

\* UPDATE ontology_versions SET status: without a row nothing happens.
SetStatus(v, new) ==
    /\ Unlocked(v)
    /\ status' = [status EXCEPT ![v] = IF Exists(v) THEN new ELSE @]

Request ==
    /\ requests < MaxRequests
    /\ requests' = requests + 1

Fault ==
    /\ faults < MaxFaults
    /\ faults' = faults + 1

\* The content of v changes.
SetContent(v, newTypes, newKeys) ==
    /\ types' = [types EXCEPT ![v] = newTypes]
    /\ keys' = [keys EXCEPT ![v] = newKeys]
    /\ seen' = [w \in Version |-> IF clone[w].pc = "types" /\ clone[w].base = v
                                   THEN seen[w] \cup {<<newTypes, newKeys>>} ELSE seen[w]]

content == <<types, keys, seen>>

\* ids are handed out in order.
NextId(v) ==
    /\ status[v] = "none"
    /\ v = 1 \/ status[v - 1] # "none"

-----------------------------------------------------------------------------
(* Creation and cloning *)

\* save: the row has its default status 'ready'; a clone is started and not waited for.
Create(v) ==
    /\ NextId(v)
    /\ status' = [status EXCEPT ![v] = "ready"]
    /\ \E base \in {0} \cup {b \in Version : Exists(b)} :
          clone' = [clone EXCEPT ![v] = IF base = 0 THEN NoClone
                                        ELSE [NoClone EXCEPT !.pc = "called", !.base = base]]
    /\ UNCHANGED <<content, publishing, deleting, import, active, unreviewed, requests, faults>>

\* startTransaction, then 'generating' on another connection; whether it could be
\* set is not looked at.
MarkGenerating(v) ==
    /\ clone[v].pc = "called"
    /\ \/ SetStatus(v, "generating") /\ UNCHANGED faults
       \/ Fault /\ UNCHANGED status
    /\ clone' = [clone EXCEPT ![v].pc = "marked"]
    /\ UNCHANGED <<content, publishing, deleting, import, active, unreviewed, requests>>

\* Mutant: metatypes can be inserted for a version without a row.
HoldsAnyway(v, copied) == TRUE

\* The metatypes refer to their version.
CanHold(v, copied) == Exists(v) \/ copied = {}

\* clone_ontology locks the row and copies the metatypes of the base.  Each
\* of its statements sees what was committed when it began.
CloneTypes(v) ==
    LET copied == types[clone[v].base]
    IN  /\ clone[v].pc = "marked"
        /\ clone' = [clone EXCEPT ![v].pc = IF CanHold(v, copied) THEN "types" ELSE "failed",
                                  ![v].types = copied]
        /\ seen' = [seen EXCEPT ![v] = {<<copied, keys[clone[v].base]>>}]
        /\ UNCHANGED <<status, types, keys, publishing, deleting, import, active, unreviewed, requests, faults>>

\* Mutant: keys are copied without joining the copied metatypes.
KeysOf(copied, baseKeys) == baseKeys

\* LEFT JOIN metatypes ON old_id ... WHERE metatypes.ontology_version = targetOntology
KeysOfCopied(copied, baseKeys) == baseKeys \cap copied

CloneKeys(v) ==
    /\ clone[v].pc = "types"
    /\ clone' = [clone EXCEPT ![v].pc = "keys",
                              ![v].keys = KeysOfCopied(clone[v].types, keys[clone[v].base])]
    /\ seen' = [seen EXCEPT ![v] = {}]
    /\ UNCHANGED <<status, types, keys, publishing, deleting, import, active, unreviewed, requests, faults>>

\* The function's last statement sets 'ready'; COMMIT.
CloneCommit(v) ==
    /\ clone[v].pc = "keys"
    /\ status' = [status EXCEPT ![v] = IF Exists(v) THEN "ready" ELSE @]
    /\ SetContent(v, types[v] \cup clone[v].types, keys[v] \cup clone[v].keys)
    /\ clone' = [clone EXCEPT ![v] = [NoClone EXCEPT !.pc = "done"]]
    /\ UNCHANGED <<publishing, deleting, import, active, unreviewed, requests, faults>>

\* A statement of the function fails and ROLLBACK does not; when it does, because
\* the connection broke, nobody catches it and the server ends (ServerEnds).
CloneFails(v) ==
    /\ clone[v].pc \in {"types", "keys"}
    /\ Fault
    /\ clone' = [clone EXCEPT ![v] = [NoClone EXCEPT !.pc = "failed"]]
    /\ UNCHANGED <<status, content, publishing, deleting, import, active, unreviewed, requests>>

\* COMMIT fails: completeTransaction's error is returned to nobody.
CloneCommitFails(v) ==
    /\ clone[v].pc = "keys"
    /\ Fault
    /\ clone' = [clone EXCEPT ![v] = [NoClone EXCEPT !.pc = "lost"]]
    /\ UNCHANGED <<status, content, publishing, deleting, import, active, unreviewed, requests>>

\* Mutant: the failure is only logged.
CloneErrorLogged(v) ==
    /\ clone[v].pc = "failed"
    /\ clone' = [clone EXCEPT ![v].pc = "done"]
    /\ UNCHANGED <<status, content, publishing, deleting, import, active, unreviewed, requests, faults>>

\* Whether 'error' could be set is not looked at.
CloneError(v) ==
    /\ clone[v].pc = "failed"
    /\ \/ /\ SetStatus(v, "error")
          /\ clone' = [clone EXCEPT ![v].pc = "done"]
          /\ UNCHANGED faults
       \/ /\ Fault
          /\ clone' = [clone EXCEPT ![v].pc = "lost"]
          /\ UNCHANGED status
    /\ UNCHANGED <<content, publishing, deleting, import, active, unreviewed, requests>>

\* A server ends, by itself or because nobody catches the rejection of a ROLLBACK:
\* what it was at ends with it, and Postgres rolls open transactions back.
ServerEnds ==
    /\ Fault
    /\ \E there \in SUBSET {v \in Version : clone[v].pc \in {"called", "marked", "types", "keys", "failed"}} :
          clone' = [v \in Version |-> IF v \in there THEN [NoClone EXCEPT !.pc = "dead"] ELSE clone[v]]
    /\ publishing' \in SUBSET publishing
    /\ deleting' \in SUBSET deleting
    /\ import' \in {import, NoImport}
    /\ UNCHANGED <<status, content, active, unreviewed, requests>>

-----------------------------------------------------------------------------
(* Requests about a version *)

SendForApproval(v) ==
    /\ Exists(v)
    /\ Request
    /\ SetStatus(v, "pending")
    /\ UNCHANGED <<content, clone, publishing, deleting, import, active, unreviewed, faults>>

\* By an admin of the container; approved_by and approved_at go with the status.
Approve(v) ==
    /\ Exists(v)
    /\ Request
    /\ SetStatus(v, "approved")
    /\ UNCHANGED <<content, clone, publishing, deleting, import, active, unreviewed, faults>>

RevokeApproval(v) ==
    /\ Exists(v)
    /\ Request
    /\ SetStatus(v, "rejected")
    /\ UNCHANGED <<content, clone, publishing, deleting, import, active, unreviewed, faults>>

\* publish: the status first, whatever it was.
Publish(v) ==
    /\ Exists(v)
    /\ Request
    /\ v \notin publishing
    /\ SetStatus(v, "published")
    /\ publishing' = publishing \cup {v}
    /\ unreviewed' = active
    /\ UNCHANGED <<content, clone, deleting, import, active, faults>>

\* Then every type mapping of the container is disabled; a failure is logged and
\* the alert that they were is created none the less.
DisableMappings(v) ==
    /\ v \in publishing
    /\ publishing' = publishing \ {v}
    /\ \/ active' = {} /\ unreviewed' = {} /\ UNCHANGED faults
       \/ Fault /\ UNCHANGED <<active, unreviewed>>
    /\ UNCHANGED <<status, content, clone, deleting, import, requests>>

\* delete: the version is read and is not published,
DeleteChecked(v) ==
    /\ Exists(v)
    /\ Request
    /\ status[v] # "published"
    /\ v \notin deleting
    /\ deleting' = deleting \cup {v}
    /\ UNCHANGED <<status, content, clone, publishing, import, active, unreviewed, faults>>

\* Mutant: the statement trusts the check.
DeletableOnceChecked(v) == Exists(v)

\* ... AND status <> 'published'
Deletable(v) == Exists(v) /\ status[v] # "published"

\* and its row, which may have changed, is deleted with its metatypes and keys.
Delete(v) ==
    /\ v \in deleting
    /\ Unlocked(v)
    /\ deleting' = deleting \ {v}
    /\ IF Deletable(v)
       THEN status' = [status EXCEPT ![v] = "deleted"] /\ SetContent(v, {}, {})
       ELSE UNCHANGED <<status, content>>
    /\ UNCHANGED <<clone, publishing, import, active, unreviewed, requests, faults>>

-----------------------------------------------------------------------------
(* Users at work *)

\* A metatype, or the keys of one, are added to a version, whatever its status.
Edit(v) ==
    /\ Exists(v)
    /\ Request
    /\ \E t \in Type :
          \/ t \notin types[v] /\ SetContent(v, types[v] \cup {t}, keys[v])
          \/ t \in types[v] \ keys[v] /\ SetContent(v, types[v], keys[v] \cup {t})
    /\ UNCHANGED <<status, clone, publishing, deleting, import, active, unreviewed, faults>>

\* A user has reviewed a mapping and enables it.
Enable(m) ==
    /\ m \notin active
    /\ Request
    /\ active' = active \cup {m}
    /\ UNCHANGED <<status, content, clone, publishing, deleting, import, unreviewed, faults>>

-----------------------------------------------------------------------------
(* importOntology *)

\* The newest version with one of these statuses; 0 is none.
Latest(which) ==
    LET those == {v \in Version : status[v] \in which}
    IN  IF those = {} THEN 0 ELSE CHOOSE v \in those : \A w \in those : w <= v

\* The version to replace: the newest published, or else ready, one.
ImportStart ==
    LET old == IF Latest({"published"}) # 0 THEN Latest({"published"}) ELSE Latest({"ready"})
    IN  /\ import.pc = "none"
        /\ old # 0
        /\ import' = [import EXCEPT !.pc = "create", !.old = old]
        /\ UNCHANGED <<status, content, clone, publishing, deleting, active, unreviewed, requests, faults>>

ImportCreate(v) ==
    /\ import.pc = "create"
    /\ NextId(v)
    /\ status' = [status EXCEPT ![v] = "generating"]
    /\ import' = [import EXCEPT !.pc = "types", !.new = v]
    /\ UNCHANGED <<content, clone, publishing, deleting, active, unreviewed, requests, faults>>

\* Metatypes, then keys, each in a statement whose result is not looked at.
ImportTypes ==
    LET v == import.new
    IN  /\ import.pc = "types"
        /\ import' = [import EXCEPT !.pc = "keys"]
        /\ \/ Exists(v) /\ SetContent(v, Type, keys[v]) /\ UNCHANGED faults
           \/ ~Exists(v) /\ UNCHANGED <<content, faults>>
           \/ Fault /\ UNCHANGED content
        /\ UNCHANGED <<status, clone, publishing, deleting, active, unreviewed, requests>>

ImportKeys ==
    LET v == import.new
    IN  /\ import.pc = "keys"
        /\ import' = [import EXCEPT !.pc = "finish"]
        /\ \/ Exists(v) /\ SetContent(v, types[v], types[v]) /\ UNCHANGED faults
           \/ ~Exists(v) /\ UNCHANGED <<content, faults>>
           \/ Fault /\ UNCHANGED content
        /\ UNCHANGED <<status, clone, publishing, deleting, active, unreviewed, requests>>

\* The old version is deprecated and the new one ready, or published when the
\* container does not version its ontology (its mappings are not disabled then but
\* upgraded).  Neither statement is waited for or looked at: either order.
ImportFinish ==
    LET deprecated == SetStatus(import.old, "deprecated")
        usable == \E new \in {"ready", "published"} : SetStatus(import.new, new)
        done(pc) == import' = IF pc = "none" THEN NoImport ELSE [import EXCEPT !.pc = pc]
        did(statement) == (statement /\ UNCHANGED faults) \/ (Fault /\ UNCHANGED status)
    IN  /\ \/ import.pc = "finish" /\ did(deprecated) /\ done("usable")
           \/ import.pc = "finish" /\ did(usable) /\ done("deprecate")
           \/ import.pc = "deprecate" /\ did(deprecated) /\ done("none")
           \/ import.pc = "usable" /\ did(usable) /\ done("none")
        /\ UNCHANGED <<content, clone, publishing, deleting, active, unreviewed, requests>>

-----------------------------------------------------------------------------
CloneStep(v) ==
    \/ MarkGenerating(v) \/ CloneTypes(v) \/ CloneKeys(v) \/ CloneCommit(v)
    \/ CloneFails(v) \/ CloneCommitFails(v) \/ CloneError(v)

Next ==
    \/ \E v \in Version :
          \/ Create(v) \/ CloneStep(v)
          \/ SendForApproval(v) \/ Approve(v) \/ RevokeApproval(v)
          \/ Publish(v) \/ DisableMappings(v) \/ DeleteChecked(v) \/ Delete(v)
          \/ Edit(v) \/ ImportCreate(v)
    \/ ImportStart \/ ImportTypes \/ ImportKeys \/ ImportFinish
    \/ \E m \in Mapping : Enable(m)
    \/ ServerEnds

\* A clone goes on: a statement answers, sooner or later.
Fairness == \A v \in Version : WF_vars(CloneStep(v))

Spec == Init /\ [][Next]_vars /\ Fairness

-----------------------------------------------------------------------------
(* Properties *)

\* The state has its type, and what is not there has no content.
TypeOK ==
    /\ status \in [Version -> Status \cup {"none", "deleted"}]
    /\ publishing \subseteq Version /\ deleting \subseteq Version
    /\ active \subseteq Mapping /\ unreviewed \subseteq active
    /\ import.old \in 0..MaxVersions /\ import.new \in 0..MaxVersions
    /\ \A v \in Version :
          /\ types[v] \subseteq Type
          /\ ~Exists(v) => types[v] = {} /\ keys[v] = {}

\* No keys without their metatype, although a clone reads the two in separate
\* snapshots while the base is edited, and an import ignores what failed.
KeysHaveTypes == \A v \in Version : keys[v] \subseteq types[v]

\* A published version is not deleted, whatever its status was when the
\* request looked at it.
PublishedNotDeleted ==
    [][\A v \in Version : status[v] = "published" => status'[v] # "deleted"]_vars

\* "all Type Mappings for all Data Sources have been temporarily disabled pending
\* user review" (the alert of publish, line 92): when no request to publish is
\* under way, every active mapping was enabled after the last one.  It is
\* violated: README, section 6.
MappingsReviewed == publishing = {} => unreviewed = {}

\* "the cloning function handles its own status changes" (lines 52-54): a
\* version marked as being generated gets another status, with whatever
\* requests in between, unless COMMIT fails, 'error' cannot be written or the
\* server ends.
GenerationEnds ==
    \A v \in Version :
        clone[v].pc = "marked" ~> status[v] # "generating" \/ clone[v].pc \in {"lost", "dead"}

\* "the function itself has methods for updating the ontology in case of errors"
\* (lines 113-114): so it does unless its server ends.  It is violated: README,
\* section 6.
ErrorsReported ==
    \A v \in Version :
        clone[v].pc = "marked" ~> status[v] # "generating" \/ clone[v].pc = "dead"

\* "the transaction its wrapped in will make sure there won't be orphaned or
\* changed data" (lines 113-116): what a clone copied is what its base
\* contained at some moment.
CloneIsSnapshot ==
    [][\A v \in Version :
          CloneKeys(v) => <<clone[v].types, clone'[v].keys>> \in seen[v]]_vars
=============================================================================
