----------------------- MODULE OntologyVersions_proofs -----------------------
(***************************************************************************)
(* Type correctness of OntologyVersions, and what its versions promise,    *)
(* for any number of versions, metatypes, mappings, requests and faults.   *)
(***************************************************************************)
EXTENDS OntologyVersions, WellFoundedInduction, TLAPS

\* Every nonempty set of versions has a newest one.
LEMMA Newest ==
  ASSUME NEW those \in SUBSET Version, those # {}
  PROVE  \E v \in those : \A w \in those : w <= v
<1> DEFINE before == OpToRel(<, Nat)
           age == {MaxVersions - v : v \in those}
<1>1. \A v \in those : v \in Nat /\ MaxVersions - v \in Nat
  BY VersionsAssumption DEF Version
<1>2. age \subseteq Nat /\ age # {}
  BY <1>1
<1>3. IsWellFoundedOn(before, Nat)
  BY NatLessThanWellFounded
<1>4. \A x, y \in Nat : y < x => <<y, x>> \in before
  BY DEF OpToRel
<1>5. PICK x \in age : \A y \in age : ~ (<<y, x>> \in before)
  <2> HIDE DEF before, age
  <2> QED
    BY <1>2, <1>3, WFMin
<1>6. PICK v \in those : x = MaxVersions - v
  BY <1>5
<1>7. \A w \in those : ~ (MaxVersions - w < MaxVersions - v)
  BY <1>1, <1>2, <1>4, <1>5, <1>6
<1>8. QED
  BY <1>1, <1>7, VersionsAssumption

LEMMA LatestType ==
  ASSUME NEW which
  PROVE  Latest(which) \in 0..MaxVersions /\ (Latest(which) # 0 => status[Latest(which)] \in which)
<1> DEFINE those == {v \in Version : status[v] \in which}
<1>1. CASE those = {}
  BY <1>1, VersionsAssumption DEF Latest
<1>2. CASE those # {}
  <2>1. Latest(which) \in those
    BY <1>2, Newest DEF Latest
  <2>2. QED
    BY <2>1, VersionsAssumption DEF Version
<1>3. QED
  BY <1>1, <1>2
-----------------------------------------------------------------------------
CloneType ==
  [pc : {"none", "called", "marked", "types", "keys", "failed", "done", "lost", "dead"},
   base : 0..MaxVersions, types : SUBSET Type, keys : SUBSET Type]

ImportType ==
  [pc : {"none", "create", "types", "keys", "finish", "usable", "deprecate"},
   old : 0..MaxVersions, new : 0..MaxVersions]

\* The type of every variable but seen, which no guard reads.
Typed ==
  /\ status \in [Version -> Status \cup {"none", "deleted"}]
  /\ types \in [Version -> SUBSET Type]
  /\ keys \in [Version -> SUBSET Type]
  /\ clone \in [Version -> CloneType]
  /\ import \in ImportType
  /\ publishing \subseteq Version /\ deleting \subseteq Version
  /\ active \subseteq Mapping /\ unreviewed \subseteq active
  /\ requests \in Nat /\ faults \in Nat

\* A clone has a base; its transaction keeps the row it copies for; the keys it
\* has copied are of metatypes it has copied.
CloneOf(v) ==
  /\ clone[v].pc \in {"called", "marked", "types"} => clone[v].base \in Version
  /\ clone[v].pc \in {"types", "keys"} => Exists(v) \/ clone[v].types = {}
  /\ clone[v].keys \subseteq clone[v].types
  /\ clone[v].keys # {} => clone[v].pc = "keys"

\* A version without a row has no content.
NoOrphans == \A v \in Version : ~Exists(v) => types[v] = {} /\ keys[v] = {}

\* An import has found its old version, and made its new one.
ImportOf ==
  /\ import.pc # "none" => import.old \in Version
  /\ import.pc \notin {"none", "create"} => import.new \in Version

IInv ==
  /\ Typed
  /\ NoOrphans
  /\ KeysHaveTypes
  /\ ImportOf
  /\ \A v \in Version : CloneOf(v)

LEMMA InitInv == Init => IInv
<1> SUFFICES ASSUME Init PROVE IInv
  OBVIOUS
<1>1. Typed
  BY VersionsAssumption DEF Init, Typed, Status, NoClone, NoImport, CloneType, ImportType, Version
<1>2. NoOrphans /\ KeysHaveTypes /\ ImportOf
  BY DEF Init, NoOrphans, KeysHaveTypes, ImportOf, NoImport
<1>3. \A v \in Version : CloneOf(v)
  BY DEF Init, CloneOf, NoClone
<1>4. QED
  BY <1>1, <1>2, <1>3 DEF IInv

\* The three parts of a step that leaves the import and all clones alone.
LEMMA SetStatusKeeps ==
  ASSUME IInv, NEW v \in Version, NEW new \in Status, SetStatus(v, new)
  PROVE  /\ status' \in [Version -> Status \cup {"none", "deleted"}]
         /\ \A w \in Version : Exists(w)' = Exists(w)
         /\ \A w \in Version : status'[w] = "deleted" => status[w] = "deleted"
BY DEF IInv, Typed, SetStatus, Exists, Status

\* A change of status that makes or removes no row.
LEMMA StatusStep ==
  ASSUME IInv, NEW v \in Version, NEW new \in Status, SetStatus(v, new),
         UNCHANGED <<content, clone, import, faults>>,
         requests' \in Nat, deleting' \subseteq Version,
         publishing' \subseteq Version, active' \subseteq Mapping, unreviewed' \subseteq active'
  PROVE  IInv'
<1>1. Typed'
  BY SetStatusKeeps DEF IInv, Typed, content
<1>2. NoOrphans' /\ KeysHaveTypes' /\ ImportOf'
  BY SetStatusKeeps DEF IInv, NoOrphans, KeysHaveTypes, ImportOf, content
<1>3. \A w \in Version : CloneOf(w)'
  BY SetStatusKeeps DEF IInv, CloneOf
<1>4. QED
  BY <1>1, <1>2, <1>3 DEF IInv

\* A step of a clone that leaves the rows and contents alone.
LEMMA CloneOnly ==
  ASSUME IInv, NEW v \in Version, NEW c \in CloneType, clone' = [clone EXCEPT ![v] = c],
         CloneOf(v)', faults' \in Nat, \A w \in Version : Exists(w)' = Exists(w),
         status' \in [Version -> Status \cup {"none", "deleted"}],
         UNCHANGED <<types, keys, publishing, deleting, import, active, unreviewed, requests>>
  PROVE  IInv'
<1>1. Typed'
  BY DEF IInv, Typed
<1>2. NoOrphans' /\ KeysHaveTypes' /\ ImportOf'
  BY DEF IInv, NoOrphans, KeysHaveTypes, ImportOf
<1>3. ASSUME NEW w \in Version
      PROVE  CloneOf(w)'
  <2>1. CASE w = v
    BY <2>1
  <2>2. CASE w # v
    BY <2>2 DEF IInv, CloneOf, Typed
  <2>3. QED
    BY <2>1, <2>2
<1>4. QED
  BY <1>1, <1>2, <1>3 DEF IInv

LEMMA CloneStepInv ==
  ASSUME IInv, NEW v \in Version, CloneStep(v)
  PROVE  IInv'
<1>0. clone[v] \in CloneType /\ CloneOf(v) /\ clone \in [Version -> CloneType]
  BY DEF IInv, Typed
<1>1. CASE MarkGenerating(v)
  <2> DEFINE c == [clone[v] EXCEPT !.pc = "marked"]
  <2>1. c \in CloneType /\ clone' = [clone EXCEPT ![v] = c]
    BY <1>0, <1>1 DEF MarkGenerating, CloneType
  <2>2. CloneOf(v)'
    BY <1>0, <1>1 DEF MarkGenerating, CloneOf, CloneType
  <2>3. faults' \in Nat /\ UNCHANGED <<types, keys, publishing, deleting, import, active, unreviewed, requests>>
    BY <1>1 DEF MarkGenerating, Fault, content, IInv, Typed
  <2>4. /\ status' \in [Version -> Status \cup {"none", "deleted"}]
        /\ \A w \in Version : Exists(w)' = Exists(w)
    BY <1>1, SetStatusKeeps DEF MarkGenerating, Status, Exists, IInv, Typed
  <2> HIDE DEF c
  <2>5. QED
    BY <2>1, <2>2, <2>3, <2>4, CloneOnly
<1>2. CASE CloneTypes(v)
  <2> DEFINE copied == types[clone[v].base]
             c == [clone[v] EXCEPT !.pc = IF CanHold(v, copied) THEN "types" ELSE "failed",
                                   !.types = copied]
  <2>1. clone[v].base \in Version /\ copied \in SUBSET Type
    BY <1>0, <1>2 DEF CloneTypes, CloneOf, IInv, Typed
  <2>2. c \in CloneType /\ clone' = [clone EXCEPT ![v] = c]
    BY <1>0, <1>2, <2>1 DEF CloneTypes, CloneType
  <2>3. CloneOf(v)'
    <3>1. /\ c.keys = {} /\ c.types = copied /\ c.base \in Version
          /\ c.pc = (IF CanHold(v, copied) THEN "types" ELSE "failed")
      BY <1>0, <1>2, <2>1 DEF CloneTypes, CloneOf, CloneType
    <3>2. clone'[v] = c /\ Exists(v)' = Exists(v)
      BY <1>0, <1>2, <2>2 DEF CloneTypes, Exists
    <3> HIDE DEF c, copied
    <3>3. QED
      BY <3>1, <3>2 DEF CloneOf, CanHold
  <2>4. QED
    BY <1>2, <2>2, <2>3, CloneOnly DEF CloneTypes, IInv, Typed, Exists
<1>3. CASE CloneKeys(v)
  <2> DEFINE copied == KeysOfCopied(clone[v].types, keys[clone[v].base])
             c == [clone[v] EXCEPT !.pc = "keys", !.keys = copied]
  <2>1. copied \subseteq clone[v].types /\ clone[v].types \subseteq Type
    BY <1>0 DEF KeysOfCopied, CloneType
  <2>2. c \in CloneType /\ clone' = [clone EXCEPT ![v] = c]
    BY <1>0, <1>3, <2>1 DEF CloneKeys, CloneType
  <2>3. CloneOf(v)'
    BY <1>0, <1>3, <2>1, <2>2 DEF CloneKeys, CloneOf, CloneType, Exists
  <2>4. QED
    BY <1>3, <2>2, <2>3, CloneOnly DEF CloneKeys, IInv, Typed, Exists
<1>4. CASE CloneCommit(v)
  <2> DEFINE c == [NoClone EXCEPT !.pc = "done"]
  <2>1. c \in CloneType /\ clone' = [clone EXCEPT ![v] = c] /\ c.keys = {} /\ c.pc = "done"
    BY <1>4, VersionsAssumption DEF CloneCommit, CloneType, NoClone
  <2>2. /\ status' \in [Version -> Status \cup {"none", "deleted"}]
        /\ \A w \in Version : Exists(w)' = Exists(w)
    BY <1>4 DEF CloneCommit, IInv, Typed, Status, Exists
  <2>3. Typed'
    <3>1. clone[v].types \subseteq Type /\ clone[v].keys \subseteq Type
      BY <1>0 DEF CloneType
    <3>2. types' \in [Version -> SUBSET Type] /\ keys' \in [Version -> SUBSET Type]
      BY <1>4, <3>1 DEF CloneCommit, SetContent, IInv, Typed
    <3>3. UNCHANGED <<publishing, deleting, import, active, unreviewed, requests, faults>>
      BY <1>4 DEF CloneCommit
    <3> HIDE DEF c
    <3>4. QED
      BY <1>0, <2>1, <2>2, <3>2, <3>3 DEF IInv, Typed
  <2>4. NoOrphans' /\ KeysHaveTypes' /\ ImportOf'
    BY <1>0, <1>4, <2>2 DEF CloneCommit, SetContent, IInv, Typed, NoOrphans, KeysHaveTypes, ImportOf, CloneOf
  <2>5. \A w \in Version : CloneOf(w)'
    BY <1>0, <2>1, <2>2 DEF IInv, CloneOf
  <2>6. QED
    BY <2>3, <2>4, <2>5 DEF IInv
<1>5. CASE CloneFails(v)
  <2> DEFINE c == [NoClone EXCEPT !.pc = "failed"]
  <2>1. c \in CloneType /\ clone' = [clone EXCEPT ![v] = c] /\ c.keys = {} /\ c.pc = "failed"
    BY <1>5, VersionsAssumption DEF CloneFails, CloneType, NoClone
  <2>2. CloneOf(v)'
    BY <1>0, <2>1 DEF CloneOf
  <2>3. faults' \in Nat
    BY <1>5 DEF CloneFails, Fault, IInv, Typed
  <2>4. QED
    <3> HIDE DEF c
    <3> QED
      BY <1>5, <2>1, <2>2, <2>3, CloneOnly DEF CloneFails, content, IInv, Typed, Exists
<1>6. CASE CloneCommitFails(v)
  <2> DEFINE c == [NoClone EXCEPT !.pc = "lost"]
  <2>1. c \in CloneType /\ clone' = [clone EXCEPT ![v] = c] /\ c.keys = {} /\ c.pc = "lost"
    BY <1>6, VersionsAssumption DEF CloneCommitFails, CloneType, NoClone
  <2>2. CloneOf(v)'
    BY <1>0, <2>1 DEF CloneOf
  <2>3. faults' \in Nat
    BY <1>6 DEF CloneCommitFails, Fault, IInv, Typed
  <2>4. QED
    <3> HIDE DEF c
    <3> QED
      BY <1>6, <2>1, <2>2, <2>3, CloneOnly DEF CloneCommitFails, content, IInv, Typed, Exists
<1>7. CASE CloneError(v)
  <2>1. PICK pc \in {"done", "lost"} : clone' = [clone EXCEPT ![v].pc = pc]
    BY <1>7 DEF CloneError
  <2> DEFINE c == [clone[v] EXCEPT !.pc = pc]
  <2>2. /\ c \in CloneType /\ clone' = [clone EXCEPT ![v] = c]
        /\ c.pc = pc /\ c.keys = clone[v].keys
    BY <1>0, <2>1 DEF CloneType
  <2>3. clone[v].keys = {}
    BY <1>0, <1>7 DEF CloneError, CloneOf
  <2> HIDE DEF c
  <2>4. clone'[v] = c
    BY <1>0, <2>2
  <2>5. CloneOf(v)'
    BY <2>2, <2>3, <2>4 DEF CloneOf
  <2>6. faults' \in Nat /\ UNCHANGED <<types, keys, publishing, deleting, import, active, unreviewed, requests>>
    BY <1>7 DEF CloneError, Fault, content, IInv, Typed
  <2>7. /\ status' \in [Version -> Status \cup {"none", "deleted"}]
        /\ \A w \in Version : Exists(w)' = Exists(w)
    BY <1>7, SetStatusKeeps DEF CloneError, Status, Exists, IInv, Typed
  <2>8. QED
    BY <2>2, <2>5, <2>6, <2>7, CloneOnly
<1>8. QED
  BY <1>1, <1>2, <1>3, <1>4, <1>5, <1>6, <1>7 DEF CloneStep

\* A server that ends leaves every row as it is.
LEMMA ServerInv ==
  ASSUME IInv, ServerEnds
  PROVE  IInv'
<1>1. PICK there \in SUBSET Version :
         clone' = [v \in Version |-> IF v \in there THEN [NoClone EXCEPT !.pc = "dead"] ELSE clone[v]]
  BY DEF ServerEnds
<1> DEFINE dead == [NoClone EXCEPT !.pc = "dead"]
<1>2. dead \in CloneType /\ dead.pc = "dead" /\ dead.keys = {}
  BY VersionsAssumption DEF CloneType, NoClone
<1> HIDE DEF dead
<1>3. \A v \in Version : clone'[v] \in {dead, clone[v]}
  BY <1>1 DEF dead
<1>4. clone' \in [Version -> CloneType]
  BY <1>1, <1>2 DEF dead, IInv, Typed
<1>5. import' \in ImportType /\ ImportOf'
  BY VersionsAssumption DEF ServerEnds, NoImport, ImportType, ImportOf, IInv, Typed
<1>6. /\ UNCHANGED <<status, types, keys, active, unreviewed, requests>>
      /\ publishing' \subseteq Version /\ deleting' \subseteq Version /\ faults' \in Nat
  BY DEF ServerEnds, Fault, content, IInv, Typed
<1>7. Typed' /\ NoOrphans' /\ KeysHaveTypes'
  BY <1>4, <1>5, <1>6 DEF IInv, Typed, NoOrphans, KeysHaveTypes, Exists
<1>8. ASSUME NEW v \in Version
      PROVE  CloneOf(v)'
  <2>1. CASE clone'[v] = dead
    BY <1>2, <2>1 DEF CloneOf
  <2>2. CASE clone'[v] = clone[v]
    BY <1>6, <2>2 DEF IInv, CloneOf, Exists
  <2>3. QED
    BY <1>3, <2>1, <2>2
<1>9. QED
  BY <1>5, <1>7, <1>8 DEF IInv

\* The requests about one version.
LEMMA RequestInv ==
  ASSUME IInv, NEW v \in Version,
         \/ Create(v) \/ SendForApproval(v) \/ Approve(v) \/ RevokeApproval(v)
         \/ Publish(v) \/ DisableMappings(v) \/ DeleteChecked(v) \/ Delete(v)
  PROVE  IInv'
<1>0. requests + 1 \in Nat /\ faults + 1 \in Nat
  BY DEF IInv, Typed
<1>1. CASE Create(v)
  <2>1. PICK base \in {0} \cup Version :
            clone' = [clone EXCEPT ![v] = IF base = 0 THEN NoClone
                                          ELSE [NoClone EXCEPT !.pc = "called", !.base = base]]
    BY <1>1 DEF Create
  <2> DEFINE c == IF base = 0 THEN NoClone ELSE [NoClone EXCEPT !.pc = "called", !.base = base]
  <2>2. c \in CloneType /\ c.keys = {} /\ (c.pc = "called" => c.base \in Version)
        /\ c.pc \in {"none", "called"}
    <3>1. CASE base = 0
      BY <3>1, VersionsAssumption DEF CloneType, NoClone
    <3>2. CASE base \in Version
      <4>1. base # 0 /\ base \in 0..MaxVersions
        BY <3>2, VersionsAssumption DEF Version
      <4>2. QED
        BY <3>2, <4>1 DEF CloneType, NoClone
    <3>3. QED
      BY <3>1, <3>2
  <2>3. status[v] = "none" /\ status' = [status EXCEPT ![v] = "ready"]
    BY <1>1 DEF Create, NextId
  <2>4. Typed'
    BY <1>1, <2>1, <2>2, <2>3 DEF Create, content, IInv, Typed, Status
  <2>5. NoOrphans' /\ KeysHaveTypes' /\ ImportOf'
    BY <1>1, <2>3 DEF Create, content, IInv, Typed, NoOrphans, KeysHaveTypes, ImportOf, Exists
  <2>6. ASSUME NEW w \in Version
        PROVE  CloneOf(w)'
    <3>1. CASE w = v
      BY <2>1, <2>2, <3>1 DEF IInv, Typed, CloneOf
    <3>2. CASE w # v
      BY <2>1, <2>3, <3>2 DEF IInv, Typed, CloneOf, Exists
    <3>3. QED
      BY <3>1, <3>2
  <2>7. QED
    BY <2>4, <2>5, <2>6 DEF IInv
<1>2. CASE SendForApproval(v)
  BY <1>0, <1>2, StatusStep DEF SendForApproval, Request, IInv, Typed, Status
<1>3. CASE Approve(v)
  BY <1>0, <1>3, StatusStep DEF Approve, Request, IInv, Typed, Status
<1>4. CASE RevokeApproval(v)
  BY <1>0, <1>4, StatusStep DEF RevokeApproval, Request, IInv, Typed, Status
<1>5. CASE Publish(v)
  BY <1>0, <1>5, StatusStep DEF Publish, Request, IInv, Typed, Status
<1>6. CASE DisableMappings(v)
  <2>1. active' \subseteq Mapping /\ unreviewed' \subseteq active'
    BY <1>6 DEF DisableMappings, IInv, Typed
  <2>2. QED
    BY <1>0, <1>6, <2>1 DEF DisableMappings, Fault, content, IInv, Typed, NoOrphans, KeysHaveTypes, ImportOf, CloneOf, Exists
<1>7. CASE DeleteChecked(v)
  BY <1>0, <1>7 DEF DeleteChecked, Request, content, IInv, Typed, NoOrphans, KeysHaveTypes, ImportOf, CloneOf, Exists
<1>8. CASE Delete(v)
  <2>1. CASE ~Deletable(v)
    BY <1>8, <2>1 DEF Delete, content, IInv, Typed, NoOrphans, KeysHaveTypes, ImportOf, CloneOf, Exists
  <2>2. CASE Deletable(v)
    <3>1. status' = [status EXCEPT ![v] = "deleted"] /\ SetContent(v, {}, {}) /\ Unlocked(v)
      BY <1>8, <2>2 DEF Delete
    <3>2. Typed'
      BY <1>8, <3>1 DEF Delete, SetContent, IInv, Typed
    <3>3. NoOrphans' /\ KeysHaveTypes' /\ ImportOf'
      BY <1>8, <3>1 DEF Delete, SetContent, IInv, Typed, NoOrphans, KeysHaveTypes, ImportOf, Exists
    <3>4. \A w \in Version : CloneOf(w)'
      BY <1>8, <3>1 DEF Delete, Unlocked, IInv, Typed, CloneOf, Exists
    <3>5. QED
      BY <3>2, <3>3, <3>4 DEF IInv
  <2>3. QED
    BY <2>1, <2>2
<1>9. QED
  BY <1>1, <1>2, <1>3, <1>4, <1>5, <1>6, <1>7, <1>8

LEMMA ImportInv ==
  ASSUME IInv, ImportStart \/ (\E v \in Version : ImportCreate(v)) \/ ImportTypes \/ ImportKeys \/ ImportFinish
  PROVE  IInv'
<1> DEFINE new == import.new
<1>1. CASE ImportStart
  <2> DEFINE old == IF Latest({"published"}) # 0 THEN Latest({"published"}) ELSE Latest({"ready"})
  <2>1. old \in Version
    BY <1>1, LatestType, VersionsAssumption DEF ImportStart, Version
  <2>2. import' = [import EXCEPT !.pc = "create", !.old = old]
    BY <1>1 DEF ImportStart
  <2> HIDE DEF old
  <2>3. import' \in ImportType /\ import'.old \in Version /\ import'.pc = "create"
    <3>1. import \in ImportType
      BY DEF IInv, Typed
    <3>2. old \in 0..MaxVersions
      BY <2>1 DEF Version
    <3>3. QED
      BY <2>1, <2>2, <3>1, <3>2 DEF ImportType
  <2>4. QED
    BY <1>1, <2>3 DEF ImportStart, content, IInv, Typed, NoOrphans, KeysHaveTypes, ImportOf, CloneOf, Exists
<1>2. CASE \E v \in Version : ImportCreate(v)
  <2>1. PICK v \in Version : ImportCreate(v)
    BY <1>2
  <2>2. /\ import' = [import EXCEPT !.pc = "types", !.new = v]
        /\ UNCHANGED <<content, clone, publishing, deleting, active, unreviewed, requests, faults>>
        /\ import.old \in Version
    BY <2>1 DEF ImportCreate, IInv, ImportOf
  <2>3. import' \in ImportType /\ import'.old \in Version /\ import'.new \in Version
    <3>1. import \in ImportType
      BY DEF IInv, Typed
    <3>2. v \in 0..MaxVersions
      BY DEF Version
    <3>3. QED
      BY <2>2, <3>1, <3>2 DEF ImportType
  <2>4. status[v] = "none" /\ status' = [status EXCEPT ![v] = "generating"]
    BY <2>1 DEF ImportCreate, NextId
  <2>5. Typed'
    BY <2>2, <2>3, <2>4 DEF content, IInv, Typed, Status
  <2>6. NoOrphans' /\ KeysHaveTypes' /\ ImportOf'
    BY <2>2, <2>3, <2>4 DEF content, IInv, Typed, NoOrphans, KeysHaveTypes, ImportOf, Exists
  <2>7. \A w \in Version : Exists(w) => Exists(w)'
    BY <2>4 DEF IInv, Typed, Exists
  <2>8. \A w \in Version : CloneOf(w)'
    BY <2>2, <2>7 DEF IInv, CloneOf
  <2>9. QED
    BY <2>5, <2>6, <2>8 DEF IInv
<1>3. CASE ImportTypes
  <2>1. new \in Version /\ import' \in ImportType /\ import'.old = import.old /\ import'.new = new
        /\ import'.pc = "keys" /\ import.old \in Version
    BY <1>3 DEF ImportTypes, IInv, Typed, ImportOf, ImportType
  <2>2. /\ types' \in [Version -> SUBSET Type] /\ keys' \in [Version -> SUBSET Type]
        /\ NoOrphans' /\ KeysHaveTypes' /\ faults' \in Nat
    BY <1>3, <2>1 DEF ImportTypes, SetContent, Fault, content, IInv, Typed, NoOrphans, KeysHaveTypes, Exists
  <2>3. QED
    BY <1>3, <2>1, <2>2 DEF ImportTypes, IInv, Typed, ImportOf, CloneOf, Exists
<1>4. CASE ImportKeys
  <2>1. new \in Version /\ import' \in ImportType /\ import'.old = import.old /\ import'.new = new
        /\ import'.pc = "finish" /\ import.old \in Version
    BY <1>4 DEF ImportKeys, IInv, Typed, ImportOf, ImportType
  <2>2. /\ types' \in [Version -> SUBSET Type] /\ keys' \in [Version -> SUBSET Type]
        /\ NoOrphans' /\ KeysHaveTypes' /\ faults' \in Nat
    BY <1>4, <2>1 DEF ImportKeys, SetContent, Fault, content, IInv, Typed, NoOrphans, KeysHaveTypes, Exists
  <2>3. QED
    BY <1>4, <2>1, <2>2 DEF ImportKeys, IInv, Typed, ImportOf, CloneOf, Exists
<1>5. CASE ImportFinish
  <2>1. new \in Version /\ import.old \in Version
    BY <1>5 DEF ImportFinish, IInv, ImportOf
  <2>2. \/ UNCHANGED status
        \/ \E v \in Version : \E s \in Status : SetStatus(v, s)
    BY <1>5, <2>1 DEF ImportFinish, Status
  <2>3. /\ status' \in [Version -> Status \cup {"none", "deleted"}]
        /\ \A w \in Version : Exists(w)' = Exists(w)
        /\ faults' \in Nat
    BY <1>5, <2>2, SetStatusKeeps DEF ImportFinish, Fault, IInv, Typed, Exists
  <2>4. /\ import' \in ImportType
        /\ import'.pc # "none" => import'.old \in Version /\ import'.new \in Version
    <3>1. NoImport \in ImportType /\ NoImport.pc = "none"
      BY VersionsAssumption DEF NoImport, ImportType
    <3>2. \A pc \in {"usable", "deprecate"} :
             LET i == [import EXCEPT !.pc = pc]
             IN  i \in ImportType /\ i.old = import.old /\ i.new = new
      BY DEF IInv, Typed, ImportType
    <3>3. QED
      BY <1>5, <2>1, <3>1, <3>2 DEF ImportFinish
  <2>5. QED
    BY <1>5, <2>3, <2>4 DEF ImportFinish, content, IInv, Typed, NoOrphans, KeysHaveTypes, ImportOf, CloneOf
<1>6. QED
  BY <1>1, <1>2, <1>3, <1>4, <1>5

LEMMA UserInv ==
  ASSUME IInv, (\E v \in Version : Edit(v)) \/ (\E m \in Mapping : Enable(m))
  PROVE  IInv'
<1>0. requests + 1 \in Nat
  BY DEF IInv, Typed
<1>1. CASE \E v \in Version : Edit(v)
  <2> PICK v \in Version : Edit(v)
    BY <1>1
  <2>1. /\ types' \in [Version -> SUBSET Type] /\ keys' \in [Version -> SUBSET Type]
        /\ NoOrphans' /\ KeysHaveTypes'
    BY DEF Edit, SetContent, IInv, Typed, NoOrphans, KeysHaveTypes, Exists
  <2>2. QED
    BY <1>0, <2>1 DEF Edit, Request, IInv, Typed, ImportOf, CloneOf, Exists
<1>2. CASE \E m \in Mapping : Enable(m)
  BY <1>0, <1>2 DEF Enable, Request, content, IInv, Typed, NoOrphans, KeysHaveTypes, ImportOf, CloneOf, Exists
<1>3. QED
  BY <1>1, <1>2

LEMMA StepInv == IInv /\ [Next]_vars => IInv'
<1> SUFFICES ASSUME IInv, [Next]_vars PROVE IInv'
  OBVIOUS
<1>1. CASE UNCHANGED vars
  BY <1>1 DEF vars, IInv, Typed, NoOrphans, KeysHaveTypes, ImportOf, CloneOf, Exists
<1>2. CASE Next
  BY <1>2, CloneStepInv, ServerInv, RequestInv, ImportInv, UserInv DEF Next
<1>3. QED
  BY <1>1, <1>2

LEMMA Invariance == Spec => []IInv
BY InitInv, StepInv, PTL DEF Spec

\* Every variable keeps its type, and a version without a row keeps no content.
THEOREM TypeCorrect == Spec => []TypeOK
<1>1. IInv => TypeOK
  BY DEF IInv, Typed, NoOrphans, ImportType, TypeOK
<1>2. QED
  BY <1>1, Invariance, PTL

\* Whatever is edited, deleted, or fails while a version is cloned or imported, no
\* version has the keys of a metatype it does not have.
THEOREM KeysFit == Spec => []KeysHaveTypes
<1>1. IInv => KeysHaveTypes
  BY DEF IInv
<1>2. QED
  BY <1>1, Invariance, PTL

\* A published version is not deleted by any interleaving of requests.
THEOREM PublishedStays == Spec => PublishedNotDeleted
<1> DEFINE Kept == \A v \in Version : status[v] = "published" => status'[v] # "deleted"
<1>1. ASSUME IInv, [Next]_vars
      PROVE  Kept
  <2>1. CASE UNCHANGED vars
    BY <2>1 DEF vars
  <2>2. ASSUME NEW v \in Version, NEW new \in Status, SetStatus(v, new)
        PROVE  Kept
    BY <1>1, <2>2, SetStatusKeeps
  <2>3. ASSUME NEW v \in Version, CloneStep(v)
        PROVE  Kept
    BY <1>1, <2>2, <2>3 DEF CloneStep, Status, MarkGenerating, CloneTypes, CloneKeys, CloneCommit, CloneFails,
         CloneCommitFails, CloneError, IInv, Typed
  <2>4. ASSUME NEW v \in Version,
               Create(v) \/ SendForApproval(v) \/ Approve(v) \/ RevokeApproval(v) \/ Publish(v)
               \/ DisableMappings(v) \/ DeleteChecked(v) \/ Edit(v) \/ ImportCreate(v)
        PROVE  Kept
    BY <1>1, <2>2, <2>4 DEF Status, Create, SendForApproval, Approve, RevokeApproval, Publish, DisableMappings,
         DeleteChecked, Edit, ImportCreate, IInv, Typed
  <2>5. ASSUME NEW v \in Version, Delete(v)
        PROVE  Kept
    BY <1>1, <2>5 DEF Delete, Deletable, IInv, Typed
  <2>6. CASE ImportStart \/ ImportTypes \/ ImportKeys \/ ServerEnds \/ \E m \in Mapping : Enable(m)
    BY <2>6 DEF ImportStart, ImportTypes, ImportKeys, ServerEnds, Enable
  <2>7. CASE ImportFinish
    <3>1. UNCHANGED status \/ \E v \in Version : \E new \in Status : SetStatus(v, new)
      BY <1>1, <2>7 DEF ImportFinish, Status, IInv, ImportOf
    <3>2. QED
      BY <2>2, <3>1
  <2>8. QED
    BY <1>1, <2>1, <2>3, <2>4, <2>5, <2>6, <2>7 DEF Next
<1>2. QED
  BY <1>1, Invariance, PTL DEF Spec, PublishedNotDeleted
=============================================================================
