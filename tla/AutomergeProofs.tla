---------------------------- MODULE AutomergeProofs ----------------------------
(***************************************************************************)
(* Proofs about AutomergePersistence for any clients, records, types,      *)
(* fields, index configurations, queries and patches.                      *)
(***************************************************************************)
EXTENDS AutomergePersistence, Loops

USE RecordsAssumption, IndexAssumption, CallsAssumption, NoneAssumption

(* A merge patch of data is data (applyMergePatch,                         *)
(* automerge-persistence.ts:136-152).                                      *)
LEMMA MergeTyped ==
  ASSUME NEW data \in Data, NEW patch \in PatchData PROVE Merge(data, patch) \in Data
<1>1. PICK S \in SUBSET Fields : patch \in [S -> Scalars \cup {Null}]
  BY DEF PatchData
<1>2. ASSUME NEW f \in Fields
      PROVE  (IF f \notin DOMAIN patch THEN data[f]
              ELSE IF patch[f] = Null THEN Absent ELSE patch[f]) \in Values
  BY <1>1 DEF Data, Values
<1>. QED  BY <1>2 DEF Merge, Data

(* Patched records are records, and the number of them is a number.        *)
LEMMA PatchTyped ==
  ASSUME NEW records \in [Ids -> Record \cup {None}], NEW patch \in PatchData,
         NEW hits \in SUBSET Ids, \A id \in hits : records[id] # None
  PROVE  /\ [id \in Ids |-> IF id \in hits
                           THEN [records[id] EXCEPT !.data = Merge(records[id].data, patch)]
                           ELSE records[id]] \in [Ids -> Record \cup {None}]
         /\ Cardinality(hits) \in Nat
<1>1. ASSUME NEW id \in hits
      PROVE  [records[id] EXCEPT !.data = Merge(records[id].data, patch)] \in Record
  <2>1. PICK record \in Record : record = records[id]
    OBVIOUS
  <2>2. Merge(record.data, patch) \in Data
    BY MergeTyped DEF Record
  <2>3. [record EXCEPT !.data = Merge(record.data, patch)] \in Record
    BY <2>2 DEF Record
  <2>. QED  BY <2>1, <2>3
<1>2. Cardinality(hits) \in Nat
  BY RecordsAssumption, FS_Subset, FS_CardinalityType
<1>. QED  BY <1>1, <1>2

(* A record whose type and data are changed keeps when it was created.     *)
LEMMA RecordChanged ==
  ASSUME NEW r \in Record, NEW type, NEW data
  PROVE  [r EXCEPT !.type = type, !.data = data]
           = [type |-> type, data |-> data, created |-> r.created]
<1>1. PICK t \in Types, d \in Data, n \in Nat : r = [type |-> t, data |-> d, created |-> n]
  BY DEF Record
<1>2. PICK s : s = [r EXCEPT !.type = type]
  OBVIOUS
<1>3. s = [type |-> type, data |-> d, created |-> n]
  BY <1>1, <1>2
<1>4. [s EXCEPT !.data = data] = [type |-> type, data |-> data, created |-> n]
  BY <1>3
<1>5. [r EXCEPT !.type = type, !.data = data] = [s EXCEPT !.data = data]
  BY <1>2
<1>. QED  BY <1>1, <1>4, <1>5

(* What a record is listed under has the type of the indexes               *)
(* (extractIndexedValues, automerge-persistence.ts:212-226).               *)
LEMMA EntriesTyped ==
  ASSUME NEW specs \in SUBSET (Types \X Fields), NEW id \in Ids,
         NEW type \in Types, NEW data \in Data
  PROVE  Entries(specs, id, type, data) \subseteq Names \X Texts \X Ids
<1>1. SUFFICES ASSUME NEW f \in Fields, data[f] \notin {Null, Absent}
               PROVE  <<IndexName[type][f], Text[data[f]], id>> \in Names \X Texts \X Ids
  BY DEF Entries
<1>2. data[f] \in Scalars
  BY <1>1 DEF Data, Values
<1>3. Text[data[f]] \in Texts /\ IndexName[type][f] \in Names
  BY <1>2
<1>. QED  BY <1>3

(* Every entry made for a record names that record, so the entries of two  *)
(* records are never the same.                                             *)
OwnKeys(keys, id) == \A key \in keys : key[3] = id

(* A record is indexed under its own id only.                              *)
LEMMA EntriesOwn ==
  ASSUME NEW specs, NEW id, NEW type, NEW data
  PROVE  OwnKeys(Entries(specs, id, type, data), id)
<1>1. SUFFICES ASSUME NEW key \in Entries(specs, id, type, data) PROVE key[3] = id
  BY DEF OwnKeys
<1>2. PICK f \in Fields : key = <<IndexName[type][f], Text[data[f]], id>>
  BY DEF Entries
<1>. QED  BY <1>2

-----------------------------------------------------------------------------
Keys == SUBSET (Names \X Texts \X Ids)

Part == UNION {[S -> Data] : S \in SUBSET Ids}

PutJob == [op : {"put"}, id : Ids, type : Types, created : Nat, keys : Keys]
UpdateJob == [op : {"update"}, id : Ids, type : Types, data : PutData, old : CatalogEntry]
UpdatedJob == [op : {"updated"}, id : Ids, type : Types, old : CatalogEntry, keys : Keys]
PatchJob == [op : {"patch", "patching"}, left : Seq(TypePatch), seen : Catalog,
             done : Seq(Part), count : Nat]
RemoveJob == [op : {"remove", "removed"}, id : Ids, old : CatalogEntry \cup {None}]
QueryJob == [op : {"query"}, query : Queries, seen : Catalog]
GetJob == [op : {"get"}, id : Ids, seen : Catalog]
SaveJob == [op : {"save"}, seen : Catalog]

(* The name of a call tells what is remembered of it.                      *)
LEMMA JobShapes ==
  ASSUME NEW now \in Jobs
  PROVE  /\ now.op = "put" => now \in PutJob
         /\ now.op = "update" => now \in UpdateJob
         /\ now.op = "updated" => now \in UpdatedJob
         /\ now.op \in {"patch", "patching"} => now \in PatchJob
         /\ now.op \in {"remove", "removed"} => now \in RemoveJob
         /\ now.op = "query" => now \in QueryJob
         /\ now.op = "get" => now \in GetJob
         /\ now.op = "save" => now \in SaveJob
         /\ now # Idle => now.op # "idle"
BY DEF Jobs, Idle, PutJob, UpdateJob, UpdatedJob, PatchJob, RemoveJob, QueryJob, GetJob, SaveJob,
       Keys, Part

(* ... and what has these parts is a job.                                  *)
LEMMA JobsOf ==
  /\ Idle \in Jobs /\ Idle.op = "idle"
  /\ PutJob \subseteq Jobs /\ UpdateJob \subseteq Jobs /\ UpdatedJob \subseteq Jobs
  /\ PatchJob \subseteq Jobs /\ RemoveJob \subseteq Jobs /\ QueryJob \subseteq Jobs
  /\ GetJob \subseteq Jobs /\ SaveJob \subseteq Jobs
BY DEF Jobs, Idle, PutJob, UpdateJob, UpdatedJob, PatchJob, RemoveJob, QueryJob, GetJob, SaveJob,
       Keys, Part

(* A fiber goes on with a call, or leaves it, and the calls of the others  *)
(* are as they were.                                                       *)
LEMMA GotoTyped ==
  ASSUME job \in [Clients -> Jobs], NEW c \in Clients, NEW next \in Jobs, Goto(c, next)
  PROVE  /\ job' \in [Clients -> Jobs] /\ job'[c] = next
         /\ \A d \in Clients \ {c} : job'[d] = job[d]
BY DEF Goto

(* A client whose call is over is idle, and the others go on.              *)
LEMMA LeaveTyped ==
  ASSUME job \in [Clients -> Jobs], NEW c \in Clients, Leave(c)
  PROVE  /\ job' \in [Clients -> Jobs] /\ job'[c] = Idle
         /\ \A d \in Clients \ {c} : job'[d] = job[d]
BY JobsOf DEF Leave

(* What has been patched is of records that the catalog had when it was    *)
(* read.                                                                   *)
DoneSeen ==
  \A c \in Clients : job[c].op \in {"patch", "patching"} =>
    \A i \in DOMAIN job[c].done : \A id \in DOMAIN job[c].done[i] :
      job[c].seen.entries[id] # None

(* The records that the next entry of a patch hits, and their new data.    *)
Hits(now) == {id \in Candidates(now.seen, Head(now.left).type) :
                MatchesAll(docs[id], Head(now.left).filters)}

Changed(now) == [id \in Hits(now) |-> Merge(docs[id], Head(now.left).patch)]

(* An entry of a patch leaves data, and its call goes on with the rest.    *)
LEMMA PatchDocsTyped ==
  ASSUME TypeOK, NEW c \in Clients, PatchDocs(c)
  PROVE  /\ job[c] \in PatchJob /\ job[c].left # <<>>
         /\ Head(job[c].left) \in TypePatch /\ Tail(job[c].left) \in Seq(TypePatch)
         /\ Hits(job[c]) \in SUBSET Ids
         /\ Changed(job[c]) \in [Hits(job[c]) -> Data] /\ Changed(job[c]) \in Part
         /\ docs' = [id \in Ids |-> IF id \in Hits(job[c]) THEN Changed(job[c])[id] ELSE docs[id]]
         /\ docs' \in [Ids -> Data \cup {None}]
         /\ job'[c] \in PatchJob /\ job'[c].op = "patching"
         /\ job'[c].left = Tail(job[c].left) /\ job'[c].seen = job[c].seen
         /\ job'[c].done = Append(job[c].done, Changed(job[c]))
         /\ job'[c].count = job[c].count + Cardinality(Hits(job[c]))
         /\ job' \in [Clients -> Jobs] /\ \A d \in Clients \ {c} : job'[d] = job[d]
<1>. DEFINE now == job[c]
            entry == Head(now.left)
            hits == Hits(now)
            patched == Changed(now)
            next == [now EXCEPT !.op = "patching", !.left = Tail(@), !.done = Append(@, patched),
                                !.count = @ + Cardinality(hits)]
<1>1. now \in PatchJob /\ now.left # <<>>
  BY JobShapes DEF PatchDocs, In, TypeOK
<1>2. entry \in TypePatch /\ Tail(now.left) \in Seq(TypePatch)
  BY <1>1, HeadTailProperties DEF PatchJob
<1>3. hits \in SUBSET Ids /\ \A id \in hits : docs[id] \in Data
  BY DEF Hits, Candidates, TypeOK
<1>4. patched \in [hits -> Data] /\ patched \in Part
  <2>1. entry.patch \in PatchData
    BY <1>2 DEF TypePatch
  <2>2. \A id \in hits : Merge(docs[id], entry.patch) \in Data
    BY <1>3, <2>1, MergeTyped
  <2>3. patched = [id \in hits |-> Merge(docs[id], entry.patch)]
    BY DEF Changed
  <2>. HIDE DEF hits, patched, entry
  <2>4. patched \in [hits -> Data]
    BY <2>2, <2>3
  <2>5. [hits -> Data] \in {[S -> Data] : S \in SUBSET Ids}
    BY <1>3
  <2>. QED  BY <2>4, <2>5 DEF Part
<1>5. docs' = [id \in Ids |-> IF id \in hits THEN patched[id] ELSE docs[id]]
  BY DEF PatchDocs, Hits, Changed
<1>6. docs' \in [Ids -> Data \cup {None}]
  <2>. HIDE DEF hits, patched
  <2>. QED  BY <1>4, <1>5 DEF TypeOK
<1>7. Cardinality(hits) \in Nat
  <2>. HIDE DEF hits
  <2>. QED  BY <1>3, FS_Subset, FS_CardinalityType
<1>8. /\ next \in PatchJob /\ next.op = "patching" /\ next.left = Tail(now.left)
      /\ next.seen = now.seen /\ next.done = Append(now.done, patched)
      /\ next.count = now.count + Cardinality(hits)
  <2>. HIDE DEF now, hits, patched
  <2>1. now.done \in Seq(Part) /\ now.count \in Nat
    BY <1>1 DEF PatchJob
  <2>2. Append(now.done, patched) \in Seq(Part) /\ now.count + Cardinality(hits) \in Nat
    BY <2>1, <1>4, <1>7
  <2>. QED  BY <1>1, <1>2, <2>2 DEF PatchJob
<1>9. Goto(c, next)
  BY DEF PatchDocs, Hits, Changed
<1>10. next \in Jobs /\ job \in [Clients -> Jobs]
  <2>. HIDE DEF next
  <2>. QED  BY <1>8, JobsOf DEF TypeOK
<1>11. /\ job' \in [Clients -> Jobs] /\ job'[c] = next
       /\ \A d \in Clients \ {c} : job'[d] = job[d]
  <2>. HIDE DEF next
  <2>. QED  BY <1>9, <1>10, GotoTyped
<1>. HIDE DEF next, hits, patched
<1>12. /\ hits \in SUBSET Ids /\ patched \in [hits -> Data] /\ patched \in Part
       /\ docs' = [id \in Ids |-> IF id \in hits THEN patched[id] ELSE docs[id]]
       /\ job'[c] \in PatchJob /\ job'[c].op = "patching"
       /\ job'[c].left = Tail(now.left) /\ job'[c].seen = now.seen
       /\ job'[c].done = Append(now.done, patched)
       /\ job'[c].count = now.count + Cardinality(hits)
  BY <1>3, <1>4, <1>5, <1>8, <1>11
<1>. QED  BY <1>1, <1>2, <1>6, <1>11, <1>12 DEF hits, patched

(* The keys that a patch gives the entries of the records it has changed,  *)
(* each time from the keys in the catalog as it was read.                  *)
Rounds(done, id) == {i \in DOMAIN done : id \in DOMAIN done[i]}

LastRound(done, id) == CHOOSE i \in Rounds(done, id) : \A j \in Rounds(done, id) : j <= i

KeysAt(seen, done, i, id) == Entries(indexed, id, seen.entries[id].type, done[i][id])

(* There is a last entry of the patch that changed the record.             *)
LEMMA LastRoundIsLast ==
  ASSUME NEW done \in Seq(Part), NEW id, Rounds(done, id) # {}
  PROVE  /\ LastRound(done, id) \in Rounds(done, id)
         /\ \A j \in Rounds(done, id) : j <= LastRound(done, id)
<1>. DEFINE S == Rounds(done, id)
<1>1. Len(done) \in Nat /\ S \in SUBSET (1..Len(done)) /\ S # {}
  BY DEF Rounds
<1>2. S \subseteq Int
  BY <1>1
<1>. HIDE DEF S
<1>3. PICK m \in S : m = Max(S) /\ \A j \in S : m >= j
  BY <1>1, MaxProperties
<1>4. \A j \in S : j <= m
  BY <1>2, <1>3
<1>5. \E i \in S : \A j \in S : j <= i
  BY <1>4
<1>6. /\ (CHOOSE i \in S : \A j \in S : j <= i) \in S
      /\ \A j \in S : j <= (CHOOSE i \in S : \A k \in S : k <= i)
  BY <1>5
<1>. QED  BY <1>6 DEF S, LastRound

(* The catalog that a patch writes is one (patch, automerge-               *)
(* persistence.ts).                                                        *)
LEMMA PatchCatalogTyped ==
  ASSUME TypeOK, DoneSeen, NEW c \in Clients, PatchCatalog(c)
  PROVE  /\ job[c] \in PatchJob /\ job[c].op = "patching" /\ job[c].left = <<>>
         /\ \A id \in Ids : \A i \in Rounds(job[c].done, id) :
              KeysAt(job[c].seen, job[c].done, i, id) \in Keys
         /\ catalog' \in Catalog
<1>. DEFINE now == job[c]
            IdsDone == {id \in Ids : /\ catalog.entries[id] # None
                                     /\ \E i \in DOMAIN now.done : id \in DOMAIN now.done[i]}
            old == UNION {now.seen.entries[id].keys : id \in IdsDone}
            passing == UNION {UNION {KeysAt(now.seen, now.done, i, id) : i \in Rounds(now.done, id)} : id \in IdsDone}
            new == UNION {KeysAt(now.seen, now.done, LastRound(now.done, id), id) : id \in IdsDone}
            keysOf(id) == KeysAt(now.seen, now.done, LastRound(now.done, id), id)
<1>1. now \in PatchJob /\ now.op = "patching" /\ now.left = <<>>
  BY JobShapes DEF PatchCatalog, In, TypeOK
<1>2. now.done \in Seq(Part) /\ now.seen \in Catalog
  BY <1>1 DEF PatchJob
<1>3. ASSUME NEW id \in Ids, NEW i \in Rounds(now.done, id)
      PROVE  KeysAt(now.seen, now.done, i, id) \in Keys
  <2>1. i \in DOMAIN now.done /\ id \in DOMAIN now.done[i] /\ now.done[i] \in Part
    BY <1>2 DEF Rounds
  <2>2. now.done[i][id] \in Data
    BY <2>1 DEF Part
  <2>3. now.seen.entries[id] # None
    BY <1>1, <2>1 DEF DoneSeen
  <2>4. now.seen.entries[id].type \in Types
    BY <1>2, <2>3 DEF Catalog, CatalogEntry
  <2>. QED  BY <2>2, <2>4, EntriesTyped DEF KeysAt, Keys, TypeOK
<1>4. ASSUME NEW id \in IdsDone
      PROVE  /\ id \in Ids /\ catalog.entries[id] # None /\ keysOf(id) \in Keys
             /\ [catalog.entries[id] EXCEPT !.keys = keysOf(id)] \in CatalogEntry
  <2>1. LastRound(now.done, id) \in Rounds(now.done, id)
    BY <1>2, LastRoundIsLast DEF Rounds
  <2>2. keysOf(id) \in Keys
    BY <1>3, <2>1
  <2>3. catalog.entries[id] \in CatalogEntry
    BY DEF TypeOK, Catalog
  <2>. HIDE DEF keysOf
  <2>. QED  BY <2>2, <2>3 DEF CatalogEntry, Keys
<1>5. catalog' = [catalog EXCEPT
         !.entries = [id \in Ids |-> IF id \in IdsDone
                                     THEN [@[id] EXCEPT !.keys = keysOf(id)] ELSE @[id]],
         !.index = ((@ \cup passing) \ old) \cup new]
  BY DEF PatchCatalog, KeysAt, Rounds, LastRound
<1>6. passing \in Keys /\ new \in Keys
  <2>1. \A id \in IdsDone : \A i \in Rounds(now.done, id) : KeysAt(now.seen, now.done, i, id) \in Keys
    BY <1>3
  <2>2. \A id \in IdsDone : keysOf(id) \in Keys
    BY <1>4
  <2>. HIDE DEF IdsDone
  <2>. QED  BY <2>1, <2>2 DEF Keys
<1>. HIDE DEF IdsDone, old, passing, new, keysOf
<1>7. catalog \in Catalog
  BY DEF TypeOK
<1>8. PICK entries : entries = [id \in Ids |-> IF id \in IdsDone
                                     THEN [catalog.entries[id] EXCEPT !.keys = keysOf(id)]
                                     ELSE catalog.entries[id]]
  OBVIOUS
<1>9. entries \in [Ids -> CatalogEntry \cup {None}]
  BY <1>4, <1>7, <1>8 DEF Catalog
<1>10. catalog' = [catalog EXCEPT !.entries = entries,
                                  !.index = ((catalog.index \cup passing) \ old) \cup new]
  BY <1>5, <1>7, <1>8 DEF Catalog
<1>11. ((catalog.index \cup passing) \ old) \cup new \in Keys
  BY <1>6, <1>7 DEF Catalog, Keys
<1>12. catalog' \in Catalog
  BY <1>7, <1>9, <1>10, <1>11 DEF Catalog, Keys
<1>. QED  BY <1>1, <1>3, <1>12

(* The variables keep their types, also when fibers switch between the     *)
(* steps of a call and a new process starts in the middle of one.          *)
THEOREM AutomergeTyped == Spec => []TypeOK
<1>1. Init => TypeOK /\ DoneSeen
  <2>. SUFFICES ASSUME Init PROVE TypeOK /\ DoneSeen
    OBVIOUS
  <2>1. Empty \in Catalog
    BY DEF Empty, Catalog
  <2>2. /\ docs \in [Ids -> Data \cup {None}] /\ job \in [Clients -> Jobs]
        /\ saved = [catalog |-> Empty, docs |-> docs]
    BY JobsOf DEF Init
  <2>3. saved \in Snapshot
    BY <2>1, <2>2 DEF Snapshot
  <2>. QED  BY <2>1, <2>2, <2>3 DEF Init, TypeOK, DoneSeen, Idle
<1>2. TypeOK /\ DoneSeen /\ [Next]_vars => TypeOK' /\ DoneSeen'
  <2>. SUFFICES ASSUME TypeOK, DoneSeen, [Next]_vars PROVE TypeOK' /\ DoneSeen'
    OBVIOUS
  <2>. DEFINE Rest == /\ docs' \in [Ids -> Data \cup {None}] /\ catalog' \in Catalog
                      /\ saved' \in Snapshot /\ UNCHANGED <<indexed, ready, clock>>
  <2>0. /\ job \in [Clients -> Jobs] /\ catalog \in Catalog /\ docs \in [Ids -> Data \cup {None}]
        /\ saved \in Snapshot /\ clock \in Nat
    BY DEF TypeOK
  <2>1. ASSUME NEW c \in Clients, NEW next \in Jobs, Goto(c, next), Rest,
               next.op \in {"patch", "patching"} =>
                 \A i \in DOMAIN next.done : \A id \in DOMAIN next.done[i] :
                   next.seen.entries[id] # None
        PROVE  TypeOK' /\ DoneSeen'
    <3>1. /\ job' \in [Clients -> Jobs] /\ job'[c] = next
          /\ \A d \in Clients \ {c} : job'[d] = job[d]
      BY <2>0, <2>1, GotoTyped
    <3>. QED  BY <2>1, <3>1 DEF TypeOK, DoneSeen
  <2>2. ASSUME NEW c \in Clients, Leave(c), Rest PROVE TypeOK' /\ DoneSeen'
    <3>1. /\ job' \in [Clients -> Jobs] /\ job'[c] = Idle
          /\ \A d \in Clients \ {c} : job'[d] = job[d]
      BY <2>0, <2>2, LeaveTyped
    <3>. QED  BY <2>2, <3>1, JobsOf DEF TypeOK, DoneSeen
  <2>3. ASSUME NEW specs \in Specs, Initialize(specs) PROVE TypeOK' /\ DoneSeen'
    <3>1. catalog' \in Catalog
      BY <2>0, <2>3 DEF Initialize, Catalog
    <3>. QED  BY <2>3, <3>1 DEF Initialize, TypeOK, DoneSeen
  <2>4. ASSUME NEW read \in BadSpecs, InitializeFails(read) PROVE TypeOK' /\ DoneSeen'
    BY <2>4 DEF InitializeFails, state, TypeOK, DoneSeen
  <2>5. CASE Restart
    BY <2>0, <2>5, JobsOf DEF Restart, TypeOK, DoneSeen, Snapshot
  <2>6. CASE Tick \/ UNCHANGED vars
    BY <2>6 DEF Tick, state, vars, TypeOK, DoneSeen
  <2>7. ASSUME NEW c \in Clients, NEW id \in Ids, NEW type \in Types, NEW data \in PutData,
               PutDoc(c, id, type, data)
        PROVE  TypeOK' /\ DoneSeen'
    <3>1. PICK next : next = [op |-> "put", id |-> id, type |-> type, created |-> clock,
                              keys |-> Entries(indexed, id, type, data)]
      OBVIOUS
    <3>2. next \in PutJob /\ next.op = "put"
      BY <2>0, <3>1, EntriesTyped DEF PutJob, Keys, TypeOK
    <3>3. docs' \in [Ids -> Data \cup {None}]
      BY <2>0, <2>7 DEF PutDoc
    <3>4. Goto(c, next)
      BY <2>7, <3>1 DEF PutDoc, Begin
    <3>. QED  BY <2>0, <2>1, <2>7, <3>2, <3>3, <3>4, JobsOf DEF PutDoc
  <2>8. ASSUME NEW c \in Clients, PutCatalog(c) PROVE TypeOK' /\ DoneSeen'
    <3>1. job[c] \in PutJob
      BY <2>0, <2>8, JobShapes DEF PutCatalog, In
    <3>2. PICK entry : entry = [type |-> job[c].type, created |-> job[c].created, keys |-> job[c].keys]
      OBVIOUS
    <3>3. entry \in CatalogEntry
      BY <3>1, <3>2 DEF PutJob, CatalogEntry, Keys
    <3>4. catalog' = [entries |-> [catalog.entries EXCEPT ![job[c].id] = entry],
                      byType  |-> catalog.byType \cup {<<job[c].type, job[c].id>>},
                      index   |-> catalog.index \cup job[c].keys]
      BY <2>8, <3>2 DEF PutCatalog
    <3>5. catalog' \in Catalog
      BY <2>0, <3>1, <3>3, <3>4 DEF Catalog, PutJob, Keys
    <3>. QED  BY <2>0, <2>2, <2>8, <3>5 DEF PutCatalog, Finish
  <2>9. ASSUME NEW c \in Clients, NEW id \in Ids, NEW type \in Types, NEW data \in PutData,
               UpdateRead(c, id, type, data)
        PROVE  TypeOK' /\ DoneSeen'
    <3>1. PICK next : next = [op |-> "update", id |-> id, type |-> type, data |-> data,
                              old |-> catalog.entries[id]]
      OBVIOUS
    <3>2. next \in UpdateJob /\ next.op = "update"
      BY <2>0, <2>9, <3>1 DEF UpdateRead, UpdateJob, Catalog
    <3>3. Goto(c, next)
      BY <2>9, <3>1 DEF UpdateRead, Begin
    <3>. QED  BY <2>0, <2>1, <2>9, <3>2, <3>3, JobsOf DEF UpdateRead, state
  <2>10. ASSUME NEW c \in Clients,
                \/ \E id \in Ids : UpdateMissing(c, id)
                \/ \E call \in PatchCalls : PatchNothing(c, call)
                \/ \E id \in Ids : GetMissing(c, id)
                \/ PatchThrows(c) \/ GetAnswer(c) \/ QueryAnswer(c)
         PROVE  TypeOK' /\ DoneSeen'
    <3>1. Leave(c) /\ UNCHANGED <<state, indexed, ready, saved, clock>>
      BY <2>10 DEF UpdateMissing, PatchNothing, PatchThrows, GetMissing, GetAnswer,
                   QueryAnswer, Finish
    <3>. QED  BY <2>0, <2>2, <3>1 DEF state
  <2>11. ASSUME NEW c \in Clients, UpdateDoc(c) PROVE TypeOK' /\ DoneSeen'
    <3>. DEFINE update == job[c]
    <3>1. update \in UpdateJob
      BY <2>0, <2>11, JobShapes DEF UpdateDoc, In
    <3>2. PICK next : next = [op |-> "updated", id |-> update.id, type |-> update.type,
                              old |-> update.old,
                              keys |-> Entries(indexed, update.id, update.type, update.data)]
      OBVIOUS
    <3>3. next \in UpdatedJob /\ next.op = "updated"
      <4>1. update.data \in Data
        BY <3>1 DEF UpdateJob
      <4>2. Entries(indexed, update.id, update.type, update.data) \in Keys
        BY <3>1, <4>1, EntriesTyped DEF UpdateJob, Keys, TypeOK
      <4>. QED  BY <3>1, <3>2, <4>2 DEF UpdateJob, UpdatedJob
    <3>4. docs' \in [Ids -> Data \cup {None}]
      BY <2>0, <2>11, <3>1 DEF UpdateDoc, UpdateJob
    <3>5. Goto(c, next)
      BY <2>11, <3>2 DEF UpdateDoc
    <3>. QED  BY <2>0, <2>1, <2>11, <3>3, <3>4, <3>5, JobsOf DEF UpdateDoc
  <2>12. ASSUME NEW c \in Clients, UpdateCatalog(c) PROVE TypeOK' /\ DoneSeen'
    <3>. DEFINE update == job[c]
    <3>1. update \in UpdatedJob
      BY <2>0, <2>12, JobShapes DEF UpdateCatalog, In
    <3>2. catalog' \in Catalog
      <4>1. CASE catalog.entries[update.id] = None
        BY <2>0, <2>12, <4>1 DEF UpdateCatalog
      <4>2. CASE catalog.entries[update.id] # None
        <5>1. PICK entry : entry = [type |-> update.type, keys |-> update.keys,
                                    created |-> catalog.entries[update.id].created]
          OBVIOUS
        <5>2. entry \in CatalogEntry
          BY <2>0, <3>1, <4>2, <5>1 DEF UpdatedJob, Catalog, CatalogEntry, Keys
        <5>3. catalog' = [entries |-> [catalog.entries EXCEPT ![update.id] = entry],
                byType  |-> (catalog.byType \ {<<catalog.entries[update.id].type, update.id>>})
                            \cup {<<update.type, update.id>>},
                index   |-> (catalog.index \ update.old.keys) \cup update.keys]
          BY <2>12, <4>2, <5>1 DEF UpdateCatalog
        <5>. QED  BY <2>0, <3>1, <5>2, <5>3 DEF Catalog, UpdatedJob, Keys
      <4>. QED  BY <4>1, <4>2
    <3>. QED  BY <2>0, <2>2, <2>12, <3>2 DEF UpdateCatalog, Finish
  <2>13. ASSUME NEW c \in Clients, NEW call \in PatchCalls, PatchRead(c, call)
         PROVE  TypeOK' /\ DoneSeen'
    <3>1. PICK next : next = [op |-> "patch", left |-> call, seen |-> catalog, done |-> <<>>,
                              count |-> 0]
      OBVIOUS
    <3>2. next \in PatchJob /\ next.done = <<>>
      BY <2>0, <3>1 DEF PatchJob
    <3>3. Goto(c, next)
      BY <2>13, <3>1 DEF PatchRead, Begin
    <3>4. next \in Jobs /\ DOMAIN next.done = {}
      BY <3>2, JobsOf
    <3>. QED  BY <2>0, <2>1, <2>13, <3>3, <3>4 DEF PatchRead, state
  <2>14. ASSUME NEW c \in Clients, PatchDocs(c) PROVE TypeOK' /\ DoneSeen'
    <3>1. PICK hits : hits = Hits(job[c])
      OBVIOUS
    <3>2. PICK patched : patched = Changed(job[c])
      OBVIOUS
    <3>3. /\ job[c] \in PatchJob /\ patched \in [hits -> Data] /\ patched \in Part
          /\ docs' \in [Ids -> Data \cup {None}]
          /\ job'[c].seen = job[c].seen /\ job'[c].done = Append(job[c].done, patched)
          /\ job' \in [Clients -> Jobs] /\ \A d \in Clients \ {c} : job'[d] = job[d]
      BY <2>14, <3>1, <3>2, PatchDocsTyped
    <3>4. \A i \in DOMAIN job'[c].done : \A id \in DOMAIN job'[c].done[i] :
            job'[c].seen.entries[id] # None
      <4>1. job[c].done \in Seq(Part) /\ job[c].op \in {"patch", "patching"}
        BY <3>3 DEF PatchJob
      <4>2. ASSUME NEW i \in DOMAIN job'[c].done
            PROVE  (i \in DOMAIN job[c].done /\ job'[c].done[i] = job[c].done[i])
                   \/ job'[c].done[i] = patched
        <5>1. PICK old \in Seq(Part) : old = job[c].done
          BY <4>1
        <5>2. i \in DOMAIN Append(old, patched) /\ job'[c].done[i] = Append(old, patched)[i]
          BY <3>3, <5>1
        <5>. QED  BY <3>3, <5>1, <5>2
      <4>3. \A id \in hits : job[c].seen.entries[id] # None
        BY <3>1 DEF Hits, Candidates
      <4>. QED  BY <3>3, <4>1, <4>2, <4>3 DEF DoneSeen
    <3>. QED  BY <2>14, <3>3, <3>4 DEF PatchDocs, TypeOK, DoneSeen
  <2>15. ASSUME NEW c \in Clients, PatchCatalog(c) PROVE TypeOK' /\ DoneSeen'
    <3>1. catalog' \in Catalog
      BY <2>15, PatchCatalogTyped
    <3>. QED  BY <2>0, <2>2, <2>15, <3>1 DEF PatchCatalog, Finish
  <2>16. ASSUME NEW c \in Clients, NEW id \in Ids, RemoveRead(c, id) PROVE TypeOK' /\ DoneSeen'
    <3>1. PICK next : next = [op |-> "remove", id |-> id, old |-> catalog.entries[id]]
      OBVIOUS
    <3>2. next \in RemoveJob /\ next.op = "remove"
      BY <2>0, <3>1 DEF RemoveJob, Catalog
    <3>3. Goto(c, next)
      BY <2>16, <3>1 DEF RemoveRead, Begin
    <3>. QED  BY <2>0, <2>1, <2>16, <3>2, <3>3, JobsOf DEF RemoveRead, state
  <2>17. ASSUME NEW c \in Clients, RemoveDoc(c) PROVE TypeOK' /\ DoneSeen'
    <3>1. PICK next : next = [job[c] EXCEPT !.op = "removed"]
      OBVIOUS
    <3>2. next \in RemoveJob /\ next.op = "removed"
      BY <2>0, <2>17, <3>1, JobShapes DEF RemoveDoc, In, RemoveJob
    <3>3. docs' \in [Ids -> Data \cup {None}]
      BY <2>0, <2>17 DEF RemoveDoc
    <3>4. Goto(c, next) \/ Leave(c)
      BY <2>17, <3>1 DEF RemoveDoc, Finish
    <3>. QED  BY <2>0, <2>1, <2>2, <2>17, <3>2, <3>3, <3>4, JobsOf DEF RemoveDoc
  <2>18. ASSUME NEW c \in Clients, RemoveCatalog(c) PROVE TypeOK' /\ DoneSeen'
    <3>1. catalog' \in Catalog
      BY <2>0, <2>18 DEF RemoveCatalog, Catalog
    <3>. QED  BY <2>0, <2>2, <2>18, <3>1 DEF RemoveCatalog, Finish
  <2>19. ASSUME NEW c \in Clients, NEW query \in Queries, QueryRead(c, query)
         PROVE  TypeOK' /\ DoneSeen'
    <3>1. PICK next : next = [op |-> "query", query |-> query, seen |-> catalog]
      OBVIOUS
    <3>2. next \in QueryJob /\ next.op = "query"
      BY <2>0, <3>1 DEF QueryJob
    <3>3. Goto(c, next)
      BY <2>19, <3>1 DEF QueryRead, Begin
    <3>. QED  BY <2>0, <2>1, <2>19, <3>2, <3>3, JobsOf DEF QueryRead, state
  <2>20. ASSUME NEW c \in Clients, SaveRead(c) PROVE TypeOK' /\ DoneSeen'
    <3>1. PICK next : next = [op |-> "save", seen |-> catalog]
      OBVIOUS
    <3>2. next \in SaveJob /\ next.op = "save"
      BY <2>0, <3>1 DEF SaveJob
    <3>3. Goto(c, next)
      BY <2>20, <3>1 DEF SaveRead, Begin
    <3>. QED  BY <2>0, <2>1, <2>20, <3>2, <3>3, JobsOf DEF SaveRead, state
  <2>21. ASSUME NEW c \in Clients, SaveDocs(c) PROVE TypeOK' /\ DoneSeen'
    <3>1. saved' \in Snapshot
      BY <2>0, <2>21, JobShapes DEF SaveDocs, In, SaveJob, Snapshot
    <3>. QED  BY <2>0, <2>2, <2>21, <3>1 DEF SaveDocs, state
  <2>22. ASSUME NEW c \in Clients, NEW id \in Ids, GetRead(c, id) PROVE TypeOK' /\ DoneSeen'
    <3>1. PICK next : next = [op |-> "get", id |-> id, seen |-> catalog]
      OBVIOUS
    <3>2. next \in GetJob /\ next.op = "get"
      BY <2>0, <3>1 DEF GetJob
    <3>3. Goto(c, next)
      BY <2>22, <3>1 DEF GetRead, Begin
    <3>. QED  BY <2>0, <2>1, <2>22, <3>2, <3>3, JobsOf DEF GetRead, state
  <2>. QED
    BY <2>3, <2>4, <2>5, <2>6, <2>7, <2>8, <2>9, <2>10, <2>11, <2>12, <2>13, <2>14, <2>15,
       <2>16, <2>17, <2>18, <2>19, <2>20, <2>21, <2>22
       DEF Next, Call, Continue
<1>. QED  BY <1>1, <1>2, PTL DEF Spec

-----------------------------------------------------------------------------
(* What the catalog says of one record, and whether it says of it what is  *)
(* in its document.                                                        *)
ListedAt(cat, id) ==
  \A type \in Types : <<type, id>> \in cat.byType
    <=> cat.entries[id] # None /\ cat.entries[id].type = type

AgreesAt(cat, data, specs, id) ==
  /\ cat.entries[id] = None <=> data[id] = None
  /\ ListedAt(cat, id)
  /\ cat.entries[id] # None =>
       /\ cat.entries[id].keys = Entries(specs, id, cat.entries[id].type, data[id])
       /\ cat.entries[id].keys \subseteq cat.index

(* The catalog agrees with the documents if it does for each record.       *)
LEMMA AgreesEverywhere ==
  ASSUME NEW cat, NEW data, NEW specs
  PROVE  Agrees(cat, data, specs) <=> \A id \in Ids : AgreesAt(cat, data, specs, id)
BY DEF Agrees, AgreesAt, ListedAt

(* What the catalog says of a record stays right when others are written.  *)
LEMMA OthersAgree ==
  ASSUME NEW cat, NEW data, NEW specs, NEW id, NEW cat2, NEW data2,
         AgreesAt(cat, data, specs, id),
         cat2.entries[id] = cat.entries[id], data2[id] = data[id],
         \A type \in Types : <<type, id>> \in cat2.byType <=> <<type, id>> \in cat.byType,
         \A key \in cat.index : key[3] = id => key \in cat2.index
  PROVE  AgreesAt(cat2, data2, specs, id)
<1>1. CASE cat.entries[id] = None
  BY <1>1 DEF AgreesAt, ListedAt
<1>2. CASE cat.entries[id] # None
  <2>1. /\ cat.entries[id].keys = Entries(specs, id, cat.entries[id].type, data[id])
        /\ cat.entries[id].keys \subseteq cat.index
    BY <1>2 DEF AgreesAt
  <2>2. OwnKeys(cat.entries[id].keys, id)
    BY <2>1, EntriesOwn
  <2>3. cat.entries[id].keys \subseteq cat2.index
    BY <2>1, <2>2 DEF OwnKeys
  <2>. QED  BY <1>2, <2>1, <2>3 DEF AgreesAt, ListedAt
<1>. QED  BY <1>1, <1>2

(* The keys of a record that the catalog is right about name that record.  *)
LEMMA AgreedKeys ==
  ASSUME NEW cat, NEW data, NEW specs, NEW id, AgreesAt(cat, data, specs, id)
  PROVE  cat.entries[id] # None => OwnKeys(cat.entries[id].keys, id)
<1>. SUFFICES ASSUME cat.entries[id] # None PROVE OwnKeys(cat.entries[id].keys, id)
  OBVIOUS
<1>1. cat.entries[id].keys = Entries(specs, id, cat.entries[id].type, data[id])
  BY DEF AgreesAt
<1>. QED  BY <1>1, EntriesOwn

(* The records that a catalog and documents make up.                       *)
LEMMA HeldTyped ==
  ASSUME NEW cat \in Catalog, NEW data \in [Ids -> Data \cup {None}]
  PROVE  /\ Held(cat, data) \in [Ids -> Record \cup {None}]
         /\ \A id \in Ids :
              /\ Held(cat, data)[id] = Stored(cat.entries, data, id)
              /\ Held(cat, data)[id] = None <=> cat.entries[id] = None \/ data[id] = None
              /\ Held(cat, data)[id] # None =>
                   /\ Held(cat, data)[id].type = cat.entries[id].type
                   /\ Held(cat, data)[id].data = data[id]
                   /\ Held(cat, data)[id].created = cat.entries[id].created
<1>1. ASSUME NEW id \in Ids, cat.entries[id] # None, data[id] # None
      PROVE  [type |-> cat.entries[id].type, data |-> data[id],
              created |-> cat.entries[id].created] \in Record
  <2>1. cat.entries[id] \in CatalogEntry /\ data[id] \in Data
    BY <1>1 DEF Catalog
  <2>. QED  BY <2>1 DEF CatalogEntry, Record
<1>2. ASSUME NEW id \in Ids
      PROVE  /\ Stored(cat.entries, data, id) \in Record \cup {None}
             /\ Stored(cat.entries, data, id) = None <=> cat.entries[id] = None \/ data[id] = None
             /\ Stored(cat.entries, data, id) # None =>
                  Stored(cat.entries, data, id)
                    = [type |-> cat.entries[id].type, data |-> data[id],
                       created |-> cat.entries[id].created]
  BY <1>1 DEF Stored
<1>3. \A id \in Ids : Held(cat, data)[id] = Stored(cat.entries, data, id)
  BY DEF Held
<1>4. Held(cat, data) \in [Ids -> Record \cup {None}]
  BY <1>2 DEF Held
<1>5. ASSUME NEW id \in Ids
      PROVE  /\ Held(cat, data)[id] = None <=> cat.entries[id] = None \/ data[id] = None
             /\ Held(cat, data)[id] # None =>
                  /\ Held(cat, data)[id].type = cat.entries[id].type
                  /\ Held(cat, data)[id].data = data[id]
                  /\ Held(cat, data)[id].created = cat.entries[id].created
  <2>1. Held(cat, data)[id] = Stored(cat.entries, data, id)
    BY <1>3
  <2>2. CASE Stored(cat.entries, data, id) = None
    BY <1>2, <2>1, <2>2
  <2>3. CASE Stored(cat.entries, data, id) # None
    <3>1. PICK e, d : e = cat.entries[id] /\ d = data[id]
      OBVIOUS
    <3>2. Stored(cat.entries, data, id) = [type |-> e.type, data |-> d, created |-> e.created]
      BY <1>2, <2>3, <3>1
    <3>3. /\ Stored(cat.entries, data, id).type = e.type
          /\ Stored(cat.entries, data, id).data = d
          /\ Stored(cat.entries, data, id).created = e.created
      BY <3>2
    <3>4. ~ (cat.entries[id] = None \/ data[id] = None)
      BY <1>2, <2>3
    <3>. QED  BY <2>1, <2>3, <3>1, <3>3, <3>4
  <2>. QED  BY <2>2, <2>3
<1>. QED  BY <1>3, <1>4, <1>5

-----------------------------------------------------------------------------
(* What an entry of a patch makes of the records and of their number, as   *)
(* the contract says it.                                                   *)
State == [records : [Ids -> Record \cup {None}], count : Nat]

Applied(current, entry) ==
  [records |-> Contract!PatchOne(current, entry),
   count   |-> current.count + Contract!Cardinality(Contract!Touched(current.records, entry))]

(* The entry hits these records of the contract ...                        *)
AreHit(hits, current, entry) ==
  hits = {id \in Ids : /\ current.records[id] # None
                       /\ current.records[id].type = entry.type
                       /\ MatchesAll(current.records[id].data, entry.filters)}

(* ... and this is what it leaves if it hits these.                        *)
Left(current, entry, hits) ==
  [records |-> [id \in Ids |->
                  IF id \in hits
                  THEN [current.records[id] EXCEPT
                          !.data = Merge(current.records[id].data, entry.patch)]
                  ELSE current.records[id]],
   count |-> current.count + Cardinality(hits)]

(* The contract's operators are those of the backends.                     *)
LEMMA AppliedIs ==
  ASSUME NEW current, NEW entry, NEW hits, AreHit(hits, current, entry)
  PROVE  Applied(current, entry) = Left(current, entry, hits)
<1>1. hits = Contract!Touched(current.records, entry)
  BY DEF AreHit, Contract!Touched
<1>2. Contract!Cardinality(hits) = Cardinality(hits)
  BY DEF Cardinality, Contract!Cardinality
<1>3. \A data, patch : Contract!Merge(data, patch) = Merge(data, patch)
  BY DEF Contract!Merge, Merge
<1>4. Contract!PatchOne(current, entry)
        = [id \in Ids |-> IF id \in hits
                          THEN [current.records[id] EXCEPT
                                  !.data = Merge(current.records[id].data, entry.patch)]
                          ELSE current.records[id]]
  BY <1>1, <1>3 DEF Contract!PatchOne
<1>. QED  BY <1>1, <1>2, <1>4 DEF Applied, Left

(* An entry leaves records and a number.                                   *)
LEMMA AppliedTyped ==
  ASSUME NEW current \in State, NEW entry \in TypePatch PROVE Applied(current, entry) \in State
<1>1. PICK hits : hits = {id \in Ids : /\ current.records[id] # None
                                       /\ current.records[id].type = entry.type
                                       /\ MatchesAll(current.records[id].data, entry.filters)}
  OBVIOUS
<1>2. hits \in SUBSET Ids /\ \A id \in hits : current.records[id] # None
  BY <1>1
<1>3. current.records \in [Ids -> Record \cup {None}] /\ current.count \in Nat
  BY DEF State
<1>4. entry.patch \in PatchData
  BY DEF TypePatch
<1>5. /\ [id \in Ids |-> IF id \in hits
                         THEN [current.records[id] EXCEPT
                                 !.data = Merge(current.records[id].data, entry.patch)]
                         ELSE current.records[id]] \in [Ids -> Record \cup {None}]
      /\ Cardinality(hits) \in Nat
  BY <1>2, <1>3, <1>4, PatchTyped
<1>6. Applied(current, entry) =
           [records |-> [id \in Ids |->
                           IF id \in hits
                           THEN [current.records[id] EXCEPT
                                   !.data = Merge(current.records[id].data, entry.patch)]
                           ELSE current.records[id]],
            count |-> current.count + Cardinality(hits)]
  <2>1. AreHit(hits, current, entry)
    BY <1>1 DEF AreHit
  <2>2. Applied(current, entry) = Left(current, entry, hits)
    BY <2>1, AppliedIs
  <2>. QED  BY <2>2 DEF Left
<1>. QED  BY <1>3, <1>5, <1>6 DEF State

(* The records and the number that each entry of a call leaves, one after  *)
(* the other.                                                              *)
Chain(call, k, t) ==
  /\ t \in [0..k -> State]
  /\ \A i \in 1..k : t[i] = Applied(t[i - 1], call[i])

(* A call makes of the records what the last of its entries leaves.        *)
LEMMA PatchedIsLast ==
  ASSUME NEW call \in Seq(TypePatch), NEW t, Chain(call, Len(call), t),
         t[0] = [records |-> settled, count |-> 0]
  PROVE  Contract!Patched(call) = t[Len(call)]
<1>. DEFINE n == Len(call)
            base == [records |-> settled, count |-> 0]
            step == [p \in (1..n) \X State |-> Applied(p[2], call[p[1]])]
            Is(h) == h = [s \in SUBSET (1..n) |->
                            IF s = {} THEN base
                            ELSE Applied(h[s \ {Max(s)}], call[Max(s)])]
<1>1. n \in Nat /\ DOMAIN call = 1..n /\ \A i \in 1..n : call[i] \in TypePatch
  OBVIOUS
<1>2. base \in State
  BY <1>1 DEF Chain
<1>3. step \in [(1..n) \X State -> State]
  BY <1>1, AppliedTyped
<1>4. \E h : Is(h)
  <2>. HIDE DEF base, step, n
  <2>1. PICK g \in [SUBSET (1..n) -> State] : Folds(g, n, base, step)
    BY <1>1, <1>2, <1>3, FoldExists
  <2>2. ASSUME NEW s \in SUBSET (1..n), s # {}
        PROVE  step[<<Max(s), g[s \ {Max(s)}]>>] = Applied(g[s \ {Max(s)}], call[Max(s)])
    <3>1. Max(s) \in 1..n
      BY <1>1, <2>2, MaxProperties
    <3>2. <<Max(s), g[s \ {Max(s)}]>> \in (1..n) \X State
      BY <3>1
    <3>. QED  BY <3>2 DEF step
  <2>3. Is(g)
    BY <2>1, <2>2 DEF Folds
  <2>. QED  BY <2>3
<1>5. Contract!Patched(call) = (CHOOSE h : Is(h))[1..n]
  BY <1>1 DEF Contract!Patched, Contract!FoldLeft, Contract!MapThenFoldSet, Applied, Contract!Max, Max
<1>6. PICK h : Is(h) /\ Contract!Patched(call) = h[1..n]
  <2>. HIDE DEF Is
  <2>. QED  BY <1>4, <1>5
<1>7. h[1..0] = t[0]
  <2>1. (1..0) \in SUBSET (1..n) /\ 1..0 = {}
    OBVIOUS
  <2>. QED  BY <1>6, <2>1
<1>8. ASSUME NEW k \in 1..n, h[1..(k - 1)] = t[k - 1] PROVE h[1..k] = t[k]
  <2>1. k \in Nat \ {0} /\ (1..k) \in SUBSET (1..n) /\ 1..k # {}
    <3>1. n \in Nat /\ k \in 1..n
      BY <1>1
    <3>. HIDE DEF n, Is
    <3>2. k \in Nat \ {0} /\ k <= n
      BY <3>1
    <3>3. 1 \in 1..k /\ \A i \in 1..k : i \in 1..n
      BY <3>1, <3>2
    <3>. QED  BY <3>2, <3>3
  <2>2. h[1..k] = Applied(h[(1..k) \ {Max(1..k)}], call[Max(1..k)])
    BY <1>6, <2>1
  <2>. HIDE DEF Is
  <2>3. h[1..k] = Applied(h[1..(k - 1)], call[k])
    BY <2>1, <2>2, MaxOfPrefix
  <2>. QED  BY <1>8, <2>3 DEF Chain
<1>. HIDE DEF Is, n
<1>9. h[1..n] = t[n]
  <2>1. n \in Nat
    BY <1>1
  <2>. QED  BY <2>1, <1>7, <1>8, SameToTheEnd
<1>. QED  BY <1>6, <1>9 DEF n

-----------------------------------------------------------------------------
(* What the theorems below take of the application: fibers do not switch   *)
(* within a call, it puts no id to another type, declares its indexes the  *)
(* same each time, and of a patch only the first entry has a pattern that  *)
(* may not compile.                                                        *)
FirstRefusedOnly ==
  \A call \in PatchCalls : \A i \in DOMAIN call : i > 1 => ~ Refused(call[i].filters)

OneSpec == \A specs, other \in Specs : specs = other

Careful == Preempts = FALSE /\ Retypes = FALSE /\ OneSpec /\ FirstRefusedOnly

AgreesFor(id) == \A specs \in Specs : AgreesAt(catalog, docs, specs, id)

(* All calls are over: the catalog is right about all records, and they    *)
(* are the ones that the last call left.                                   *)
Whole ==
  /\ \A id \in Ids : AgreesFor(id)
  /\ settled = Held(catalog, docs)

(* One record is being written: the others are as the last call left them. *)
Elsewhere(id) ==
  /\ ListedAt(catalog, id)
  /\ catalog.entries[id] # None => OwnKeys(catalog.entries[id].keys, id)
  /\ \A i \in Ids \ {id} : AgreesFor(i) /\ settled[i] = Stored(catalog.entries, docs, i)

(* A patch has applied the first k entries of its call to the documents.   *)
Along(now, call, k, t) ==
  /\ Chain(call, k, t)
  /\ t[0] = [records |-> settled, count |-> 0]
  /\ t[k] = [records |-> Held(catalog, docs), count |-> now.count]
  /\ now.left = SubSeq(call, k + 1, Len(call)) /\ Len(now.done) = k

Patching(now) ==
  /\ now.seen = catalog
  /\ \A id \in Ids :
       /\ catalog.entries[id] = None <=> docs[id] = None
       /\ ListedAt(catalog, id)
       /\ catalog.entries[id] # None => OwnKeys(catalog.entries[id].keys, id)
       /\ Rounds(now.done, id) = {} => AgreesFor(id)
       /\ Rounds(now.done, id) # {} => /\ catalog.entries[id] # None
                                       /\ now.done[LastRound(now.done, id)][id] = docs[id]
  /\ \E call \in PatchCalls : \E k \in 0..Len(call) : \E t : Along(now, call, k, t)

(* What is so in the middle of each call.                                  *)
Mid(now) ==
  /\ now.op = "put" =>
       /\ Elsewhere(now.id) /\ docs[now.id] \in PutData /\ now.created = clock
       /\ now.keys = Entries(indexed, now.id, now.type, docs[now.id])
       /\ catalog.entries[now.id] # None => catalog.entries[now.id].type = now.type
  /\ now.op = "update" => Whole /\ now.old = catalog.entries[now.id]
  /\ now.op = "updated" =>
       /\ Elsewhere(now.id) /\ docs[now.id] \in PutData
       /\ now.old = catalog.entries[now.id]
       /\ now.keys = Entries(indexed, now.id, now.type, docs[now.id])
       /\ settled[now.id] # None /\ settled[now.id].created = now.old.created
  /\ now.op \in {"patch", "patching"} => Patching(now)
  /\ now.op = "remove" => Whole /\ now.old = catalog.entries[now.id]
  /\ now.op = "removed" =>
       /\ Elsewhere(now.id) /\ docs[now.id] = None
       /\ now.old = catalog.entries[now.id] /\ now.old # None
  /\ now.op \in {"query", "get", "save"} => Whole /\ now.seen = catalog

SavedAgrees == \A id \in Ids : \A specs \in Specs : AgreesAt(saved.catalog, saved.docs, specs, id)

Inv ==
  /\ settled \in [Ids -> Record \cup {None}]
  /\ ready => indexed \in Specs
  /\ SavedAgrees
  /\ Quiet => Whole
  /\ \A c \in Clients, now \in Jobs : job[c] = now /\ now # Idle => ready /\ Mid(now)

(* Where no call is under way, one can begin.                              *)
LEMMA Begins ==
  ASSUME TypeOK, Inv, Careful, NEW c \in Clients, MayBegin(c)
  PROVE  /\ Quiet /\ Whole /\ ready /\ indexed \in Specs /\ MayRun(c)
         /\ \A id \in Ids : /\ AgreesFor(id) /\ AgreesAt(catalog, docs, indexed, id)
                            /\ settled[id] = Stored(catalog.entries, docs, id)
<1>1. Quiet /\ ready /\ MayRun(c)
  BY DEF MayBegin, MayRun, Quiet, Careful
<1>2. Whole /\ indexed \in Specs
  BY <1>1 DEF Inv
<1>. QED  BY <1>1, <1>2, HeldTyped DEF Whole, AgreesFor, TypeOK

(* A call that may go on is in its middle, and it is the only one.         *)
LEMMA Running ==
  ASSUME TypeOK, Inv, Careful, NEW c \in Clients, MayRun(c), job[c].op # "idle"
  PROVE  /\ job[c] # Idle /\ ready /\ indexed \in Specs /\ Mid(job[c])
         /\ \A d \in Clients \ {c} : job[d] = Idle
<1>1. job[c] # Idle /\ job[c] \in Jobs
  BY JobsOf DEF TypeOK
<1>. QED  BY <1>1 DEF Inv, MayRun, Careful

(* A call begins or goes on.                                               *)
LEMMA StaysWithin ==
  ASSUME TypeOK, Inv, Careful, NEW c \in Clients, MayRun(c), NEW next \in Jobs, next.op # "idle",
         Goto(c, next), ready, UNCHANGED <<indexed, ready, saved>>, Mid(next)'
  PROVE  Inv'
<1>1. /\ job' \in [Clients -> Jobs] /\ job'[c] = next
      /\ \A d \in Clients \ {c} : job'[d] = job[d]
  BY GotoTyped DEF TypeOK
<1>2. \A d \in Clients \ {c} : job'[d] = Idle
  BY <1>1 DEF MayRun, Careful
<1>3. next # Idle /\ ~ Quiet'
  BY <1>1, JobsOf DEF Quiet
<1>4. settled' = settled /\ SavedAgrees'
  BY DEF Goto, Inv, SavedAgrees
<1>5. ASSUME NEW d \in Clients, NEW now \in Jobs, job'[d] = now, now # Idle
      PROVE  ready' /\ Mid(now)'
  <2>1. now = next
    BY <1>1, <1>2, <1>5
  <2>. QED  BY <2>1
<1>. QED  BY <1>3, <1>4, <1>5 DEF Inv

(* A call ends.                                                            *)
LEMMA LeavesWhole ==
  ASSUME TypeOK, TypeOK', Inv, Careful, NEW c \in Clients, MayRun(c), Leave(c),
         UNCHANGED <<indexed, ready>>, SavedAgrees', \A id \in Ids : AgreesFor(id)'
  PROVE  Inv' /\ settled' = Held(catalog', docs')
<1>1. /\ job' \in [Clients -> Jobs] /\ job'[c] = Idle
      /\ \A d \in Clients \ {c} : job'[d] = job[d]
  BY LeaveTyped DEF TypeOK
<1>2. Quiet'
  BY <1>1 DEF MayRun, Careful, Quiet
<1>3. settled' = Held(catalog', docs')
  BY <1>2 DEF Leave
<1>4. settled' \in [Ids -> Record \cup {None}]
  BY <1>3, HeldTyped DEF TypeOK
<1>5. Whole'
  BY <1>3 DEF Whole
<1>. QED  BY <1>2, <1>3, <1>4, <1>5 DEF Inv, Quiet

(* A call ends that has written nothing, or only what was there.           *)
LEMMA NothingWritten ==
  ASSUME TypeOK, TypeOK', Inv, Careful, Whole, NEW c \in Clients, MayRun(c), Leave(c),
         UNCHANGED <<docs, catalog, indexed, ready>>, SavedAgrees'
  PROVE  Inv' /\ settled' = settled
<1>1. \A id \in Ids : AgreesFor(id)'
  BY DEF Whole, AgreesFor
<1>2. Inv' /\ settled' = Held(catalog', docs')
  BY <1>1, LeavesWhole
<1>. QED  BY <1>2 DEF Whole

(* What was there is what a whole state says.                              *)
LEMMA WholeSays ==
  ASSUME TypeOK, Inv, Whole, indexed \in Specs
  PROVE  \A id \in Ids : /\ AgreesFor(id) /\ AgreesAt(catalog, docs, indexed, id)
                         /\ settled[id] = Stored(catalog.entries, docs, id)
BY HeldTyped DEF Whole, AgreesFor, TypeOK

(* Where the catalog is right about all records, one can be written.       *)
LEMMA OneLeftOut ==
  ASSUME TypeOK, Inv, Whole, indexed \in Specs, NEW id \in Ids, NEW data,
         catalog' = catalog, settled' = settled, docs' = [docs EXCEPT ![id] = data]
  PROVE  Elsewhere(id)' /\ docs'[id] = data
<1>1. \A i \in Ids \ {id} : docs'[i] = docs[i]
  BY DEF TypeOK
<1>2. ASSUME NEW i \in Ids \ {id}
      PROVE  AgreesFor(i)' /\ settled'[i] = Stored(catalog'.entries, docs', i)
  <2>1. \A specs \in Specs : AgreesAt(catalog', docs', specs, i)
    <3>1. ASSUME NEW specs \in Specs PROVE AgreesAt(catalog', docs', specs, i)
      <4>1. AgreesAt(catalog, docs, specs, i)
        BY WholeSays DEF AgreesFor
      <4>. QED  BY <1>1, <4>1, OthersAgree
    <3>. QED  BY <3>1
  <2>2. settled'[i] = Stored(catalog'.entries, docs', i)
    BY <1>1, WholeSays DEF Stored
  <2>. QED  BY <2>1, <2>2 DEF AgreesFor
<1>3. ListedAt(catalog', id)
  BY WholeSays DEF AgreesAt
<1>4. catalog'.entries[id] # None => OwnKeys(catalog'.entries[id].keys, id)
  BY WholeSays, AgreedKeys
<1>. QED  BY <1>2, <1>3, <1>4 DEF Elsewhere, TypeOK

(* The record that is written is the only one that changes.                *)
LEMMA OneChanged ==
  ASSUME Inv, settled' = Held(catalog', docs'), NEW id \in Ids, NEW r,
         Stored(catalog'.entries, docs', id) = r,
         \A i \in Ids \ {id} : Stored(catalog'.entries, docs', i) = settled[i]
  PROVE  settled' = [settled EXCEPT ![id] = r]
<1>1. settled \in [Ids -> Record \cup {None}]
  BY DEF Inv
<1>2. settled' = [i \in Ids |-> Stored(catalog'.entries, docs', i)]
  BY DEF Held
<1>. QED  BY <1>1, <1>2

(* The catalog is written for one record: it stays right about the others, *)
(* and they are as they were.                                              *)
LEMMA CatalogOfOne ==
  ASSUME TypeOK, NEW id \in Ids, Elsewhere(id), docs' = docs,
         \A i \in Ids \ {id} :
           /\ catalog'.entries[i] = catalog.entries[i]
           /\ \A type \in Types : <<type, i>> \in catalog'.byType <=> <<type, i>> \in catalog.byType
           /\ \A key \in catalog.index : key[3] = i => key \in catalog'.index
  PROVE  \A i \in Ids \ {id} : /\ AgreesFor(i)'
                               /\ Stored(catalog'.entries, docs', i) = settled[i]
<1>1. ASSUME NEW i \in Ids \ {id}
      PROVE  AgreesFor(i)' /\ Stored(catalog'.entries, docs', i) = settled[i]
  <2>1. ASSUME NEW specs \in Specs PROVE AgreesAt(catalog', docs', specs, i)
    <3>1. AgreesAt(catalog, docs, specs, i)
      BY DEF Elsewhere, AgreesFor
    <3>. QED  BY <3>1, OthersAgree
  <2>2. Stored(catalog'.entries, docs', i) = settled[i]
    BY DEF Elsewhere, Stored
  <2>. QED  BY <2>1, <2>2 DEF AgreesFor
<1>. QED  BY <1>1

-----------------------------------------------------------------------------
(* put: the document first, then the catalog (312-361).                    *)
LEMMA PutBegins ==
  ASSUME TypeOK, TypeOK', Inv, Careful, NEW c \in Clients, NEW id \in Ids, NEW type \in Types,
         NEW data \in PutData, PutDoc(c, id, type, data)
  PROVE  Inv' /\ Contract!Ready
<1>1. /\ Quiet /\ Whole /\ ready /\ indexed \in Specs /\ MayRun(c)
  BY Begins DEF PutDoc
<1>2. PICK next : next = [op |-> "put", id |-> id, type |-> type, created |-> clock,
                          keys |-> Entries(indexed, id, type, data)]
  OBVIOUS
<1>3. /\ next.op = "put" /\ next.id = id /\ next.type = type /\ next.created = clock
      /\ next.keys = Entries(indexed, id, type, data)
  BY <1>2
<1>4. next \in Jobs
  <2>1. next \in PutJob
    BY <1>2, EntriesTyped DEF PutJob, Keys, TypeOK
  <2>. QED  BY <2>1, JobsOf
<1>5. /\ Goto(c, next) /\ catalog' = catalog /\ docs' = [docs EXCEPT ![id] = data]
      /\ UNCHANGED <<indexed, ready, saved, clock, settled>> /\ answer' = <<"none">>
  BY <1>2 DEF PutDoc, Begin, Goto
<1>6. Elsewhere(id)' /\ docs'[id] = data
  BY <1>1, <1>5, OneLeftOut
<1>7. catalog'.entries[id] # None => catalog'.entries[id].type = type
  BY <1>5 DEF PutDoc, Careful
<1>8. Mid(next)'
  BY <1>3, <1>5, <1>6, <1>7 DEF Mid
<1>9. Inv'
  BY <1>1, <1>3, <1>4, <1>5, <1>8, StaysWithin
<1>. QED  BY <1>5, <1>9 DEF Contract!Ready

(* Writing the catalog ends a put: to the contract the call is this step.  *)
LEMMA PutEnds ==
  ASSUME TypeOK, TypeOK', Inv, Careful, NEW c \in Clients, PutCatalog(c)
  PROVE  Inv' /\ \E id \in Ids, type \in Types, data \in PutData : Contract!Put(id, type, data)
<1>1. PICK now : now = job[c]
  OBVIOUS
<1>2. MayRun(c) /\ now.op = "put" /\ now \in PutJob
  BY <1>1, JobShapes DEF PutCatalog, In, TypeOK
<1>3. ready /\ indexed \in Specs /\ Mid(now)
  BY <1>1, <1>2, Running
<1>4. PICK id \in Ids, type \in Types : id = now.id /\ type = now.type
  BY <1>2 DEF PutJob
<1>5. /\ Elsewhere(id) /\ docs[id] \in PutData /\ now.created = clock
      /\ now.keys = Entries(indexed, id, type, docs[id])
      /\ catalog.entries[id] # None => catalog.entries[id].type = type
  BY <1>2, <1>3, <1>4 DEF Mid
<1>6. PICK entry : entry = [type |-> type, created |-> clock, keys |-> now.keys]
  OBVIOUS
<1>7. /\ catalog' = [entries |-> [catalog.entries EXCEPT ![id] = entry],
                     byType  |-> catalog.byType \cup {<<type, id>>},
                     index   |-> catalog.index \cup now.keys]
      /\ UNCHANGED <<docs, indexed, ready, saved, clock>>
      /\ Leave(c) /\ answer' = <<"stored", id>>
  BY <1>1, <1>4, <1>5, <1>6 DEF PutCatalog, Finish
<1>8. /\ catalog'.entries = [catalog.entries EXCEPT ![id] = entry]
      /\ catalog'.byType = catalog.byType \cup {<<type, id>>}
      /\ catalog'.index = catalog.index \cup now.keys
  BY <1>7
<1>9. /\ catalog'.entries[id] = entry
      /\ \A i \in Ids \ {id} : catalog'.entries[i] = catalog.entries[i]
  BY <1>8 DEF TypeOK, Catalog
<1>10. \A i \in Ids \ {id} : AgreesFor(i)' /\ Stored(catalog'.entries, docs', i) = settled[i]
  BY <1>5, <1>7, <1>8, <1>9, CatalogOfOne
<1>11. entry # None /\ docs[id] # None
  <2>1. catalog'.entries[id] \in CatalogEntry \cup {None} /\ entry \in CatalogEntry
    BY <1>2, <1>6, <1>7, <1>9 DEF TypeOK, Catalog, CatalogEntry, PutJob, Keys
  <2>. QED  BY <1>5, <2>1
<1>12. AgreesFor(id)'
  <2>1. ASSUME NEW specs \in Specs PROVE AgreesAt(catalog', docs', specs, id)
    <3>1. specs = indexed
      BY <1>3 DEF Careful, OneSpec
    <3>2. ListedAt(catalog', id)
      BY <1>5, <1>6, <1>8, <1>9, <1>11 DEF Elsewhere, ListedAt
    <3>. QED  BY <1>5, <1>6, <1>7, <1>8, <1>9, <1>11, <3>1, <3>2 DEF AgreesAt
  <2>. QED  BY <2>1 DEF AgreesFor
<1>13. Inv' /\ settled' = Held(catalog', docs')
  BY <1>2, <1>7, <1>10, <1>12, LeavesWhole DEF Inv, SavedAgrees
<1>14. Stored(catalog'.entries, docs', id) = [type |-> type, data |-> docs[id], created |-> clock]
  BY <1>6, <1>7, <1>9, <1>11 DEF Stored
<1>15. settled' = [settled EXCEPT ![id] = [type |-> type, data |-> docs[id], created |-> clock]]
  BY <1>10, <1>13, <1>14, OneChanged
<1>16. Contract!Put(id, type, docs[id])
  BY <1>7, <1>15 DEF Contract!Put, Contract!Stores
<1>. QED  BY <1>5, <1>13, <1>16

(* A call begins with what the catalog says.                               *)
LEMMA ReadBegins ==
  ASSUME TypeOK, Inv, Careful, NEW c \in Clients, MayBegin(c), NEW next \in Jobs,
         next.op \in {"update", "remove", "query", "get", "save"}, Begin(c, next),
         next.op \in {"update", "remove"} => next.old = catalog.entries[next.id],
         next.op \in {"query", "get", "save"} => next.seen = catalog,
         UNCHANGED <<state, indexed, ready, saved, clock>>
  PROVE  Inv' /\ Contract!Ready
<1>1. /\ Whole /\ ready /\ MayRun(c)
  BY Begins
<1>2. /\ Goto(c, next) /\ UNCHANGED <<docs, catalog, indexed, ready, saved, clock, settled>>
      /\ answer' = <<"none">>
  BY DEF Begin, Goto, state
<1>3. Whole'
  BY <1>1, <1>2 DEF Whole, AgreesFor
<1>4. Mid(next)'
  BY <1>2, <1>3 DEF Mid
<1>5. Inv'
  BY <1>1, <1>2, <1>4, StaysWithin
<1>. QED  BY <1>2, <1>5 DEF Contract!Ready

(* update: the catalog is read, then the document written, then the        *)
(* catalog (495-571).                                                      *)
LEMMA UpdateBegins ==
  ASSUME TypeOK, TypeOK', Inv, Careful, NEW c \in Clients, NEW id \in Ids, NEW type \in Types,
         NEW data \in PutData, UpdateRead(c, id, type, data)
  PROVE  Inv' /\ Contract!Ready
<1>1. PICK next : next = [op |-> "update", id |-> id, type |-> type, data |-> data,
                          old |-> catalog.entries[id]]
  OBVIOUS
<1>2. next.op = "update" /\ next.old = catalog.entries[next.id]
  BY <1>1
<1>3. next \in Jobs
  <2>1. next \in UpdateJob
    BY <1>1 DEF UpdateRead, UpdateJob, TypeOK, Catalog
  <2>. QED  BY <2>1, JobsOf
<1>4. /\ Begin(c, next) /\ MayBegin(c)
      /\ UNCHANGED <<state, indexed, ready, saved, clock>>
  BY <1>1 DEF UpdateRead
<1>. QED  BY <1>2, <1>3, <1>4, ReadBegins

(* Writing the document of an update is nothing yet to the contract ...    *)
LEMMA UpdateWrites ==
  ASSUME TypeOK, TypeOK', Inv, Careful, NEW c \in Clients, UpdateDoc(c)
  PROVE  Inv' /\ UNCHANGED Contract!vars
<1>1. PICK now : now = job[c]
  OBVIOUS
<1>2. MayRun(c) /\ now.op = "update" /\ now \in UpdateJob
  BY <1>1, JobShapes DEF UpdateDoc, In, TypeOK
<1>3. ready /\ indexed \in Specs /\ Mid(now)
  BY <1>1, <1>2, Running
<1>4. PICK id \in Ids, type \in Types, data \in PutData :
        id = now.id /\ type = now.type /\ data = now.data
  BY <1>2 DEF UpdateJob
<1>5. Whole /\ now.old = catalog.entries[id] /\ now.old # None
  BY <1>2, <1>3, <1>4 DEF Mid, UpdateJob
<1>6. docs[id] # None
  BY <1>3, <1>5, WholeSays DEF AgreesAt
<1>7. PICK next : next = [op |-> "updated", id |-> id, type |-> type, old |-> now.old,
                          keys |-> Entries(indexed, id, type, data)]
  OBVIOUS
<1>8. /\ next.op = "updated" /\ next.id = id /\ next.type = type /\ next.old = now.old
      /\ next.keys = Entries(indexed, id, type, data)
  BY <1>7
<1>9. next \in Jobs
  <2>1. next \in UpdatedJob
    BY <1>2, <1>7, EntriesTyped DEF UpdateJob, UpdatedJob, Keys, TypeOK
  <2>. QED  BY <2>1, JobsOf
<1>10. /\ Goto(c, next) /\ docs' = [docs EXCEPT ![id] = data]
       /\ UNCHANGED <<catalog, indexed, ready, saved, clock, answer, settled>>
  BY <1>1, <1>4, <1>6, <1>7 DEF UpdateDoc, Goto
<1>11. Elsewhere(id)' /\ docs'[id] = data
  BY <1>3, <1>5, <1>10, OneLeftOut
<1>12. settled[id] # None /\ settled[id].created = now.old.created
  <2>1. settled = Held(catalog, docs)
    BY <1>5 DEF Whole
  <2>. QED  BY <1>5, <1>6, <2>1, HeldTyped DEF TypeOK
<1>13. Mid(next)'
  BY <1>5, <1>8, <1>10, <1>11, <1>12 DEF Mid
<1>14. Inv'
  BY <1>2, <1>3, <1>8, <1>9, <1>10, <1>13, StaysWithin
<1>. QED  BY <1>10, <1>14 DEF Contract!vars

(* ... and writing the catalog after it is the update.                     *)
LEMMA UpdateEnds ==
  ASSUME TypeOK, TypeOK', Inv, Careful, NEW c \in Clients, UpdateCatalog(c)
  PROVE  Inv' /\ \E id \in Ids, type \in Types, data \in PutData : Contract!Update(id, type, data)
<1>1. PICK now : now = job[c]
  OBVIOUS
<1>2. MayRun(c) /\ now.op = "updated" /\ now \in UpdatedJob
  BY <1>1, JobShapes DEF UpdateCatalog, In, TypeOK
<1>3. ready /\ indexed \in Specs /\ Mid(now)
  BY <1>1, <1>2, Running
<1>4. PICK id \in Ids, type \in Types : id = now.id /\ type = now.type
  BY <1>2 DEF UpdatedJob
<1>5. PICK old \in CatalogEntry : old = now.old
  BY <1>2 DEF UpdatedJob
<1>6. /\ Elsewhere(id) /\ docs[id] \in PutData
      /\ old = catalog.entries[id] /\ old # None
      /\ now.keys = Entries(indexed, id, type, docs[id])
      /\ settled[id] # None /\ settled[id].created = old.created
  BY <1>2, <1>3, <1>4, <1>5 DEF Mid
<1>7. PICK entry : entry = [type |-> type, created |-> old.created, keys |-> now.keys]
  OBVIOUS
<1>8. /\ catalog' = [entries |-> [catalog.entries EXCEPT ![id] = entry],
                     byType  |-> (catalog.byType \ {<<old.type, id>>}) \cup {<<type, id>>},
                     index   |-> (catalog.index \ old.keys) \cup now.keys]
      /\ UNCHANGED <<docs, indexed, ready, saved, clock>>
      /\ Leave(c) /\ answer' = <<"updated", id>>
  BY <1>1, <1>4, <1>5, <1>6, <1>7 DEF UpdateCatalog, Finish
<1>9. /\ catalog'.entries = [catalog.entries EXCEPT ![id] = entry]
      /\ catalog'.byType = (catalog.byType \ {<<old.type, id>>}) \cup {<<type, id>>}
      /\ catalog'.index = (catalog.index \ old.keys) \cup now.keys
  BY <1>8
<1>10. /\ catalog'.entries[id] = entry
       /\ \A i \in Ids \ {id} : catalog'.entries[i] = catalog.entries[i]
  BY <1>9 DEF TypeOK, Catalog
<1>11. OwnKeys(old.keys, id) /\ ListedAt(catalog, id)
  BY <1>6 DEF Elsewhere
<1>12. \A i \in Ids \ {id} : AgreesFor(i)' /\ Stored(catalog'.entries, docs', i) = settled[i]
  BY <1>6, <1>8, <1>9, <1>10, <1>11, CatalogOfOne DEF OwnKeys
<1>13. entry # None /\ docs[id] # None
  <2>1. entry \in CatalogEntry
    BY <1>2, <1>5, <1>7 DEF CatalogEntry, UpdatedJob, Keys
  <2>. QED  BY <1>6, <2>1
<1>14. AgreesFor(id)'
  <2>1. ASSUME NEW specs \in Specs PROVE AgreesAt(catalog', docs', specs, id)
    <3>1. specs = indexed
      BY <1>3 DEF Careful, OneSpec
    <3>2. ListedAt(catalog', id)
      BY <1>6, <1>7, <1>9, <1>10, <1>11, <1>13 DEF ListedAt
    <3>. QED  BY <1>6, <1>7, <1>8, <1>9, <1>10, <1>13, <3>1, <3>2 DEF AgreesAt
  <2>. QED  BY <2>1 DEF AgreesFor
<1>15. Inv' /\ settled' = Held(catalog', docs')
  BY <1>2, <1>8, <1>12, <1>14, LeavesWhole DEF Inv, SavedAgrees
<1>16. Stored(catalog'.entries, docs', id)
         = [type |-> type, data |-> docs[id], created |-> settled[id].created]
  BY <1>6, <1>7, <1>8, <1>10, <1>13 DEF Stored
<1>17. settled' = [settled EXCEPT ![id] = [type |-> type, data |-> docs[id],
                                           created |-> settled[id].created]]
  BY <1>12, <1>15, <1>16, OneChanged
<1>18. settled \in [Ids -> Record \cup {None}] /\ settled[id] \in Record
  BY <1>6 DEF Inv
<1>19. settled' = [settled EXCEPT ![id].type = type, ![id].data = docs[id]]
  <2>1. PICK data : data = docs[id]
    OBVIOUS
  <2>2. [settled[id] EXCEPT !.type = type, !.data = data]
          = [type |-> type, data |-> data, created |-> settled[id].created]
    BY <1>18, RecordChanged
  <2>3. [settled EXCEPT ![id].type = type, ![id].data = data]
          = [settled EXCEPT ![id] = [settled[id] EXCEPT !.type = type, !.data = data]]
    BY <1>18
  <2>. QED  BY <1>17, <2>1, <2>2, <2>3
<1>20. Contract!Update(id, type, docs[id])
  BY <1>6, <1>8, <1>19 DEF Contract!Update, Contract!Changes
<1>. QED  BY <1>6, <1>15, <1>20

(* An update of a record that is not there changes nothing.                *)
LEMMA UpdateFails ==
  ASSUME TypeOK, TypeOK', Inv, Careful, NEW c \in Clients, NEW id \in Ids, NEW type \in Types,
         NEW data \in PutData, UpdateMissing(c, id)
  PROVE  Inv' /\ Contract!Update(id, type, data)
<1>1. /\ Whole /\ indexed \in Specs /\ MayRun(c)
  BY Begins DEF UpdateMissing
<1>2. /\ UNCHANGED <<docs, catalog, indexed, ready, saved, clock>> /\ Leave(c)
      /\ answer' = <<"failed">> /\ catalog.entries[id] = None
  BY DEF UpdateMissing, Finish, state
<1>3. Inv' /\ settled' = settled
  BY <1>1, <1>2, NothingWritten DEF Inv, SavedAgrees
<1>4. settled[id] = None
  BY <1>1, <1>2, WholeSays DEF Stored
<1>. QED  BY <1>2, <1>3, <1>4 DEF Contract!Update

(* remove: the catalog is read, then the document deleted, then the entry  *)
(* of the catalog (652-694).                                               *)
LEMMA RemoveBegins ==
  ASSUME TypeOK, TypeOK', Inv, Careful, NEW c \in Clients, NEW id \in Ids, RemoveRead(c, id)
  PROVE  Inv' /\ Contract!Ready
<1>1. PICK next : next = [op |-> "remove", id |-> id, old |-> catalog.entries[id]]
  OBVIOUS
<1>2. next.op = "remove" /\ next.old = catalog.entries[next.id]
  BY <1>1
<1>3. next \in Jobs
  <2>1. next \in RemoveJob
    BY <1>1 DEF RemoveJob, TypeOK, Catalog
  <2>. QED  BY <2>1, JobsOf
<1>4. /\ Begin(c, next) /\ MayBegin(c)
      /\ UNCHANGED <<state, indexed, ready, saved, clock>>
  BY <1>1 DEF RemoveRead
<1>. QED  BY <1>2, <1>3, <1>4, ReadBegins

(* Deleting the document is nothing yet to the contract, or the whole      *)
(* removal of a record that the catalog does not have ...                  *)
LEMMA RemoveWrites ==
  ASSUME TypeOK, TypeOK', Inv, Careful, NEW c \in Clients, RemoveDoc(c)
  PROVE  Inv' /\ (UNCHANGED Contract!vars \/ \E id \in Ids : Contract!RemoveOne(id))
<1>1. PICK now : now = job[c]
  OBVIOUS
<1>2. MayRun(c) /\ now.op = "remove" /\ now \in RemoveJob
  BY <1>1, JobShapes DEF RemoveDoc, In, TypeOK
<1>3. ready /\ indexed \in Specs /\ Mid(now)
  BY <1>1, <1>2, Running
<1>4. PICK id \in Ids : id = now.id
  BY <1>2 DEF RemoveJob
<1>5. Whole /\ now.old = catalog.entries[id]
  BY <1>2, <1>3, <1>4 DEF Mid
<1>6. /\ docs' = [docs EXCEPT ![id] = None]
      /\ UNCHANGED <<catalog, indexed, ready, saved, clock>>
  BY <1>1, <1>4 DEF RemoveDoc
<1>7. CASE now.old = None
  <2>1. docs[id] = None /\ settled[id] = None
    BY <1>3, <1>5, <1>7, WholeSays DEF AgreesAt, Stored
  <2>2. docs' = docs
    BY <1>6, <2>1 DEF TypeOK
  <2>3. Leave(c) /\ answer' = <<"done">>
    BY <1>1, <1>7 DEF RemoveDoc, Finish
  <2>4. Inv' /\ settled' = settled
    BY <1>2, <1>5, <1>6, <2>2, <2>3, NothingWritten DEF Inv, SavedAgrees
  <2>5. settled' = [settled EXCEPT ![id] = None]
    BY <2>1, <2>4 DEF Inv
  <2>6. Contract!RemoveOne(id)
    BY <1>6, <2>2, <2>3, <2>5 DEF Contract!RemoveOne, Contract!Removes
  <2>. QED  BY <2>4, <2>6
<1>8. CASE now.old # None
  <2>1. PICK next : next = [now EXCEPT !.op = "removed"]
    OBVIOUS
  <2>2. next \in RemoveJob /\ next.op = "removed" /\ next.id = id /\ next.old = now.old
    BY <1>2, <1>4, <2>1 DEF RemoveJob
  <2>3. Goto(c, next) /\ UNCHANGED <<answer, settled>>
    BY <1>1, <1>8, <2>1 DEF RemoveDoc, Goto
  <2>4. Elsewhere(id)' /\ docs'[id] = None
    BY <1>3, <1>5, <1>6, <2>3, OneLeftOut
  <2>5. Mid(next)'
    BY <1>5, <1>6, <1>8, <2>2, <2>4 DEF Mid
  <2>6. Inv'
    BY <1>2, <1>3, <1>6, <2>2, <2>3, <2>5, JobsOf, StaysWithin
  <2>. QED  BY <1>6, <2>3, <2>6 DEF Contract!vars
<1>. QED  BY <1>7, <1>8

(* ... and taking it out of the catalog is the removal.                    *)
LEMMA RemoveEnds ==
  ASSUME TypeOK, TypeOK', Inv, Careful, NEW c \in Clients, RemoveCatalog(c)
  PROVE  Inv' /\ \E id \in Ids : Contract!RemoveOne(id)
<1>1. PICK now : now = job[c]
  OBVIOUS
<1>2. MayRun(c) /\ now.op = "removed" /\ now \in RemoveJob
  BY <1>1, JobShapes DEF RemoveCatalog, In, TypeOK
<1>3. ready /\ indexed \in Specs /\ Mid(now)
  BY <1>1, <1>2, Running
<1>4. PICK id \in Ids : id = now.id
  BY <1>2 DEF RemoveJob
<1>5. PICK old \in CatalogEntry : old = now.old
  BY <1>2, <1>3 DEF RemoveJob, Mid
<1>6. Elsewhere(id) /\ docs[id] = None /\ old = catalog.entries[id] /\ old # None
  BY <1>2, <1>3, <1>4, <1>5 DEF Mid
<1>7. /\ catalog' = [entries |-> [catalog.entries EXCEPT ![id] = None],
                     byType  |-> catalog.byType \ {<<old.type, id>>},
                     index   |-> catalog.index \ old.keys]
      /\ UNCHANGED <<docs, indexed, ready, saved, clock>>
      /\ Leave(c) /\ answer' = <<"done">>
  BY <1>1, <1>4, <1>5 DEF RemoveCatalog, Finish
<1>8. /\ catalog'.entries = [catalog.entries EXCEPT ![id] = None]
      /\ catalog'.byType = catalog.byType \ {<<old.type, id>>}
      /\ catalog'.index = catalog.index \ old.keys
  BY <1>7
<1>9. /\ catalog'.entries[id] = None
      /\ \A i \in Ids \ {id} : catalog'.entries[i] = catalog.entries[i]
  BY <1>8 DEF TypeOK, Catalog
<1>10. OwnKeys(old.keys, id) /\ ListedAt(catalog, id)
  BY <1>6 DEF Elsewhere
<1>11. \A i \in Ids \ {id} : AgreesFor(i)' /\ Stored(catalog'.entries, docs', i) = settled[i]
  BY <1>6, <1>7, <1>8, <1>9, <1>10, CatalogOfOne DEF OwnKeys
<1>12. AgreesFor(id)'
  <2>1. ListedAt(catalog', id)
    BY <1>6, <1>8, <1>9, <1>10 DEF ListedAt
  <2>. QED  BY <1>6, <1>7, <1>9, <2>1 DEF AgreesFor, AgreesAt
<1>13. Inv' /\ settled' = Held(catalog', docs')
  BY <1>2, <1>7, <1>11, <1>12, LeavesWhole DEF Inv, SavedAgrees
<1>14. Stored(catalog'.entries, docs', id) = None
  BY <1>9 DEF Stored
<1>15. settled' = [settled EXCEPT ![id] = None]
  BY <1>11, <1>13, <1>14, OneChanged
<1>. QED  BY <1>7, <1>13, <1>15 DEF Contract!RemoveOne, Contract!Removes

-----------------------------------------------------------------------------
(* No query asks for null: the indexes leave nulls out.                    *)
PlainQueries ==
  \A query \in Queries : \A i \in DOMAIN query.filters :
    /\ query.filters[i].op = "eq" => query.filters[i].value # Null
    /\ query.filters[i].op = "in" => Null \notin query.filters[i].value

(* A record that matches a filter other than for null is under one of the  *)
(* texts that query looks up for the filter (417-447).                     *)
LEMMA IndexLosesNothing ==
  ASSUME NEW id \in Ids, AgreesAt(catalog, docs, indexed, id), catalog.entries[id] # None,
         NEW types, catalog.entries[id].type \in types, NEW filter \in Filter,
         Narrows(indexed, filter, types), Matches(docs[id], filter),
         filter.op = "eq" => filter.value # Null,
         filter.op = "in" => Null \notin filter.value
  PROVE  \E type \in types, text \in TextsOf(filter) :
           /\ <<type, filter.field>> \in indexed
           /\ <<IndexName[type][filter.field], text, id>> \in catalog.index
<1>. DEFINE type == catalog.entries[id].type
            value == docs[id][filter.field]
<1>1. filter.field \in Fields /\ <<type, filter.field>> \in indexed
  BY DEF Filter, Narrows
<1>2. value # Null /\ value # Absent /\ Text[value] \in TextsOf(filter)
  <2>1. CASE filter.op = "eq"
    <3>1. value = filter.value
      BY <2>1 DEF Matches
    <3>2. filter.value \in Scalars \cup {Null}
      BY <2>1 DEF Filter
    <3>. QED  BY <2>1, <3>1, <3>2 DEF TextsOf
  <2>2. CASE filter.op = "in"
    <3>1. value \in filter.value
      BY <2>2 DEF Matches
    <3>2. filter.value \subseteq Scalars \cup {Null}
      BY <2>2 DEF Filter
    <3>. QED  BY <2>2, <3>1, <3>2 DEF TextsOf
  <2>. QED  BY <2>1, <2>2 DEF Narrows
<1>3. <<IndexName[type][filter.field], Text[value], id>> \in Entries(indexed, id, type, docs[id])
  BY <1>1, <1>2 DEF Entries
<1>4. Entries(indexed, id, type, docs[id]) \subseteq catalog.index
  BY DEF AgreesAt
<1>. QED  BY <1>1, <1>2, <1>3, <1>4

(* Where the catalog is right about all records, a query finds exactly the *)
(* ones of its types that match its filters.                               *)
LEMMA FoundIsSelected ==
  ASSUME TypeOK, PlainQueries, \A id \in Ids : AgreesAt(catalog, docs, indexed, id),
         NEW query \in Queries
  PROVE  Found(query, catalog, docs) = Selected(query)
<1>1. query.filters \in Seq(Filter) /\ query.types \subseteq Types
  BY DEF Query
<1>2. ASSUME NEW id \in Ids
      PROVE  /\ Stored(catalog.entries, docs, id) = None <=> catalog.entries[id] = None
             /\ ListedAt(catalog, id)
             /\ catalog.entries[id] # None => catalog.entries[id].type \in Types
  <2>1. AgreesAt(catalog, docs, indexed, id)
    OBVIOUS
  <2>2. Held(catalog, docs)[id] = Stored(catalog.entries, docs, id)
    BY HeldTyped DEF TypeOK
  <2>3. Held(catalog, docs)[id] = None <=> catalog.entries[id] = None \/ docs[id] = None
    BY HeldTyped DEF TypeOK
  <2>. QED  BY <2>1, <2>2, <2>3 DEF AgreesAt, TypeOK, Catalog, CatalogEntry
<1>3. ASSUME NEW id \in Found(query, catalog, docs) PROVE id \in Selected(query)
  <2>1. /\ id \in Ids /\ Stored(catalog.entries, docs, id) # None
        /\ MatchesAll(docs[id], query.filters)
        /\ \E type \in query.types : <<type, id>> \in catalog.byType
    BY <1>3 DEF Found, Narrowed
  <2>2. catalog.entries[id].type \in query.types
    BY <1>1, <1>2, <2>1 DEF ListedAt
  <2>. QED  BY <2>1, <2>2 DEF Selected
<1>4. ASSUME NEW id \in Selected(query) PROVE id \in Found(query, catalog, docs)
  <2>1. /\ id \in Ids /\ Stored(catalog.entries, docs, id) # None
        /\ catalog.entries[id].type \in query.types /\ MatchesAll(docs[id], query.filters)
    BY <1>4 DEF Selected
  <2>2. catalog.entries[id] # None /\ <<catalog.entries[id].type, id>> \in catalog.byType
    BY <1>1, <1>2, <2>1 DEF ListedAt
  <2>3. ASSUME NEW i \in DOMAIN query.filters, Narrows(indexed, query.filters[i], query.types)
        PROVE  \E type \in query.types, text \in TextsOf(query.filters[i]) :
                 /\ <<type, query.filters[i].field>> \in indexed
                 /\ <<IndexName[type][query.filters[i].field], text, id>> \in catalog.index
    <3>1. query.filters[i] \in Filter
      BY <1>1, <2>3
    <3>2. Matches(docs[id], query.filters[i])
      BY <2>1, <2>3 DEF MatchesAll
    <3>3. /\ query.filters[i].op = "eq" => query.filters[i].value # Null
          /\ query.filters[i].op = "in" => Null \notin query.filters[i].value
      BY <2>3 DEF PlainQueries
    <3>. QED  BY <2>1, <2>2, <2>3, <3>1, <3>2, <3>3, IndexLosesNothing
  <2>4. id \in Narrowed(query, indexed, catalog.byType, catalog.index)
    BY <2>1, <2>2, <2>3 DEF Narrowed
  <2>. QED  BY <2>1, <2>4 DEF Found
<1>5. Found(query, catalog, docs) \subseteq Selected(query)
  BY <1>3
<1>6. Selected(query) \subseteq Found(query, catalog, docs)
  BY <1>4
<1>. QED  BY <1>5, <1>6

(* query: the catalog is read, then the documents (389-493).               *)
LEMMA QueryBegins ==
  ASSUME TypeOK, Inv, Careful, NEW c \in Clients, NEW query \in Queries, QueryRead(c, query)
  PROVE  Inv' /\ Contract!Ready
<1>1. PICK next : next = [op |-> "query", query |-> query, seen |-> catalog]
  OBVIOUS
<1>2. next.op = "query" /\ next.seen = catalog
  BY <1>1
<1>3. next \in Jobs
  <2>1. next \in QueryJob
    BY <1>1 DEF QueryJob, TypeOK
  <2>. QED  BY <2>1, JobsOf
<1>4. /\ Begin(c, next) /\ MayBegin(c)
      /\ UNCHANGED <<state, indexed, ready, saved, clock>>
  BY <1>1 DEF QueryRead
<1>. QED  BY <1>2, <1>3, <1>4, ReadBegins

(* What the two slices leave of the sorted rows is the page that was asked *)
(* for.                                                                    *)
LEMMA SlicesArePage ==
  ASSUME NEW S \in SUBSET Ids, NEW n \in Nat, NEW order \in [1..n -> S], NEW offset \in Nat,
         NEW limit \in Nat \cup {None}
  PROVE  Limited(Offset(order, offset), limit) = Contract!Page(order, n, offset, limit)
<1>1. PICK left \in Nat : left = IF n > offset THEN n - offset ELSE 0
  <2>1. (IF n > offset THEN n - offset ELSE 0) \in Nat
    OBVIOUS
  <2>. QED  BY <2>1
<1>2. PICK rest : rest = Offset(order, offset)
  OBVIOUS
<1>3. rest = [i \in 1..left |-> order[offset + i]]
  BY <1>1, <1>2, TwoSlices DEF Offset
<1>4. Len(rest) = left
  BY <1>3
<1>5. CASE limit = None \/ limit > left
  BY <1>1, <1>2, <1>3, <1>4, <1>5 DEF Limited, Contract!Page
<1>6. CASE limit # None /\ ~ limit > left
  <2>1. limit \in 0..left
    BY <1>6
  <2>2. SubSeq(rest, 1, limit) = [i \in 1..limit |-> order[offset + i]]
    BY <1>1, <1>3, <2>1, TwoSlices
  <2>. QED  BY <1>1, <1>2, <1>4, <1>6, <2>2 DEF Limited, Contract!Page
<1>. QED  BY <1>5, <1>6

(* The rows of an answer are what the contract answers with.               *)
LEMMA RowsArePage ==
  ASSUME NEW found \in SUBSET Ids, NEW created, NEW query \in Query,
         NEW result \in Windows(found, created, query)
  PROVE  \E order \in Contract!Orders(found, created) :
           result = Contract!Page(order, Contract!Cardinality(found), query.offset, query.limit)
<1>1. PICK n \in Nat : n = Cardinality(found)
  BY RecordsAssumption, FS_Subset, FS_CardinalityType
<1>2. PICK order \in Orders(found, created) :
        result = Limited(Offset(order, query.offset), query.limit)
  BY DEF Windows
<1>3. order \in [1..n -> found]
  BY <1>1, <1>2 DEF Orders
<1>4. PICK offset \in Nat, limit \in Nat \cup {None} : query.offset = offset /\ query.limit = limit
  BY DEF Query
<1>5. result = Contract!Page(order, n, query.offset, query.limit)
  <2>1. Limited(Offset(order, offset), limit) = Contract!Page(order, n, offset, limit)
    BY <1>3, SlicesArePage
  <2>. QED  BY <1>2, <1>4, <2>1
<1>6. Contract!Cardinality(found) = n
  BY <1>1 DEF Cardinality, Contract!Cardinality
<1>7. order \in Contract!Orders(found, created)
  BY <1>1, <1>2, <1>6 DEF Orders, Contract!Orders
<1>. QED  BY <1>5, <1>6, <1>7

(* A query answers from the catalog as it is.                              *)
LEMMA QueryKeeps ==
  ASSUME TypeOK, TypeOK', Inv, Careful, NEW c \in Clients, QueryAnswer(c)
  PROVE  /\ Inv' /\ settled' = settled /\ Whole /\ ready /\ indexed \in Specs
         /\ UNCHANGED <<docs, catalog, saved, clock>>
         /\ job[c] \in QueryJob /\ job[c].seen = catalog
<1>1. MayRun(c) /\ job[c].op = "query" /\ job[c] \in QueryJob
  BY JobShapes DEF QueryAnswer, In, TypeOK
<1>2. ready /\ indexed \in Specs /\ Mid(job[c])
  BY <1>1, Running
<1>3. Whole /\ job[c].seen = catalog
  BY <1>1, <1>2 DEF Mid
<1>4. Leave(c) /\ UNCHANGED <<docs, catalog, indexed, ready, saved, clock>>
  BY DEF QueryAnswer, Finish, state
<1>5. Inv' /\ settled' = settled
  BY <1>1, <1>3, <1>4, NothingWritten DEF Inv, SavedAgrees
<1>. QED  BY <1>1, <1>2, <1>3, <1>4, <1>5

(* Its answer is one that the contract allows.                             *)
LEMMA QueryAnswers ==
  ASSUME TypeOK, TypeOK', Inv, Careful, PlainQueries, NEW c \in Clients, QueryAnswer(c)
  PROVE  \E query \in Queries : Contract!Ask(query)
<1>1. /\ settled' = settled /\ Whole /\ ready /\ indexed \in Specs
      /\ UNCHANGED <<docs, catalog, saved, clock>>
      /\ job[c] \in QueryJob /\ job[c].seen = catalog
  BY QueryKeeps
<1>2. PICK query \in Queries : query = job[c].query
  BY <1>1 DEF QueryJob
<1>3. PICK found : found = Found(query, catalog, docs)
  OBVIOUS
<1>4. PICK created : created = [id \in found |-> catalog.entries[id].created]
  OBVIOUS
<1>5. \A id \in Ids : AgreesAt(catalog, docs, indexed, id)
  BY <1>1, WholeSays
<1>6. found = Selected(query)
  BY <1>3, <1>5, FoundIsSelected
<1>7. settled = Held(catalog, docs)
  BY <1>1 DEF Whole
<1>8. ASSUME NEW id \in Ids
      PROVE  /\ settled[id] = Stored(catalog.entries, docs, id)
             /\ settled[id] # None => /\ settled[id].type = catalog.entries[id].type
                                      /\ settled[id].data = docs[id]
                                      /\ settled[id].created = catalog.entries[id].created
  BY <1>7, HeldTyped DEF TypeOK
<1>9. found = Contract!Selected(query)
  <2>1. ASSUME NEW id \in Ids
        PROVE  (/\ Stored(catalog.entries, docs, id) # None
                /\ catalog.entries[id].type \in query.types
                /\ MatchesAll(docs[id], query.filters))
               <=> (/\ settled[id] # None /\ settled[id].type \in query.types
                    /\ MatchesAll(settled[id].data, query.filters))
    BY <1>8
  <2>. QED  BY <1>6, <2>1 DEF Selected, Contract!Selected
<1>10. created = [id \in found |-> settled[id].created]
  <2>1. ASSUME NEW id \in found PROVE catalog.entries[id].created = settled[id].created
    BY <1>6, <1>8 DEF Selected
  <2>. QED  BY <1>4, <2>1
<1>11. UNCHANGED <<settled, clock, Held(saved.catalog, saved.docs)>>
  BY <1>1
<1>12. CASE \E id \in Narrowed(query, indexed, catalog.byType, catalog.index) :
              Stored(catalog.entries, docs, id) # None /\ Throws(docs[id], query.filters)
  <2>1. Refused(query.filters)
    BY <1>12 DEF Throws, Refused
  <2>2. answer' = <<"failed">>
    BY <1>1, <1>2, <1>12 DEF QueryAnswer, Finish
  <2>. QED  BY <1>11, <2>1, <2>2 DEF Contract!Ask
<1>13. CASE ~ \E id \in Narrowed(query, indexed, catalog.byType, catalog.index) :
              Stored(catalog.entries, docs, id) # None /\ Throws(docs[id], query.filters)
  <2>1. PICK result \in Windows(found, created, query) : answer' = <<"rows", query, result>>
    BY <1>1, <1>2, <1>3, <1>4, <1>13 DEF QueryAnswer, Finish
  <2>2. found \in SUBSET Ids
    BY <1>6 DEF Selected
  <2>3. PICK order \in Contract!Orders(found, created) :
          result = Contract!Page(order, Contract!Cardinality(found), query.offset, query.limit)
    BY <2>1, <2>2, RowsArePage
  <2>. QED  BY <1>9, <1>10, <1>11, <2>1, <2>3 DEF Contract!Ask
<1>. QED  BY <1>12, <1>13

(* get: the catalog is read, then the document (363-387).                  *)
LEMMA GetBegins ==
  ASSUME TypeOK, Inv, Careful, NEW c \in Clients, NEW id \in Ids, GetRead(c, id)
  PROVE  Inv' /\ Contract!Ready
<1>1. PICK next : next = [op |-> "get", id |-> id, seen |-> catalog]
  OBVIOUS
<1>2. next.op = "get" /\ next.seen = catalog
  BY <1>1
<1>3. next \in Jobs
  <2>1. next \in GetJob
    BY <1>1 DEF GetJob, TypeOK
  <2>. QED  BY <2>1, JobsOf
<1>4. /\ Begin(c, next) /\ MayBegin(c)
      /\ UNCHANGED <<state, indexed, ready, saved, clock>>
  BY <1>1 DEF GetRead
<1>. QED  BY <1>2, <1>3, <1>4, ReadBegins

(* A get of an id without an entry answers null at once.                   *)
LEMMA GetFails ==
  ASSUME TypeOK, TypeOK', Inv, Careful, NEW c \in Clients, NEW id \in Ids, GetMissing(c, id)
  PROVE  Inv' /\ Contract!Get(id)
<1>1. /\ Whole /\ indexed \in Specs /\ MayRun(c)
  BY Begins DEF GetMissing
<1>2. /\ UNCHANGED <<docs, catalog, indexed, ready, saved, clock>> /\ Leave(c)
      /\ answer' = <<"record", id, None>> /\ catalog.entries[id] = None
  BY DEF GetMissing, Finish, state
<1>3. Inv' /\ settled' = settled
  BY <1>1, <1>2, NothingWritten DEF Inv, SavedAgrees
<1>4. settled[id] = None
  BY <1>1, <1>2, WholeSays DEF Stored
<1>. QED  BY <1>2, <1>3, <1>4 DEF Contract!Get

(* ... and of any other id, the record that the last call left.            *)
LEMMA GetEnds ==
  ASSUME TypeOK, TypeOK', Inv, Careful, NEW c \in Clients, GetAnswer(c)
  PROVE  Inv' /\ \E id \in Ids : Contract!Get(id)
<1>1. MayRun(c) /\ job[c].op = "get" /\ job[c] \in GetJob
  BY JobShapes DEF GetAnswer, In, TypeOK
<1>2. ready /\ indexed \in Specs /\ Mid(job[c])
  BY <1>1, Running
<1>3. Whole /\ job[c].seen = catalog
  BY <1>1, <1>2 DEF Mid
<1>4. PICK id \in Ids : id = job[c].id
  BY <1>1 DEF GetJob
<1>5. /\ Leave(c) /\ UNCHANGED <<docs, catalog, indexed, ready, saved, clock>>
      /\ answer' = <<"record", id, Stored(catalog.entries, docs, id)>>
  BY <1>3, <1>4 DEF GetAnswer, Finish, state
<1>6. Inv' /\ settled' = settled
  BY <1>1, <1>3, <1>5, NothingWritten DEF Inv, SavedAgrees
<1>7. settled[id] = Stored(catalog.entries, docs, id)
  BY <1>2, <1>3, WholeSays
<1>8. Contract!Get(id)
  BY <1>5, <1>6, <1>7 DEF Contract!Get
<1>. QED  BY <1>6, <1>8

(* saveState: the catalog is read, then the documents (719-727).           *)
LEMMA SaveBegins ==
  ASSUME TypeOK, Inv, Careful, NEW c \in Clients, SaveRead(c)
  PROVE  Inv' /\ Contract!Ready
<1>1. PICK next : next = [op |-> "save", seen |-> catalog]
  OBVIOUS
<1>2. next.op = "save" /\ next.seen = catalog
  BY <1>1
<1>3. next \in Jobs
  <2>1. next \in SaveJob
    BY <1>1 DEF SaveJob, TypeOK
  <2>. QED  BY <2>1, JobsOf
<1>4. /\ Begin(c, next) /\ MayBegin(c)
      /\ UNCHANGED <<state, indexed, ready, saved, clock>>
  BY <1>1 DEF SaveRead
<1>. QED  BY <1>2, <1>3, <1>4, ReadBegins

(* What is saved is what the records are.                                  *)
LEMMA SaveEnds ==
  ASSUME TypeOK, TypeOK', Inv, Careful, NEW c \in Clients, SaveDocs(c)
  PROVE  Inv' /\ Contract!Save
<1>1. MayRun(c) /\ job[c].op = "save"
  BY DEF SaveDocs, In
<1>2. Mid(job[c])
  BY <1>1, Running
<1>3. Whole /\ job[c].seen = catalog
  BY <1>1, <1>2 DEF Mid
<1>4. /\ Leave(c) /\ UNCHANGED <<docs, catalog, indexed, ready, clock, answer>>
      /\ saved' = [catalog |-> catalog, docs |-> docs]
  BY <1>3 DEF SaveDocs, state
<1>5. saved'.catalog = catalog /\ saved'.docs = docs
  BY <1>4
<1>6. SavedAgrees'
  BY <1>3, <1>5 DEF SavedAgrees, Whole, AgreesFor
<1>7. Inv' /\ settled' = settled
  BY <1>1, <1>3, <1>4, <1>6, NothingWritten
<1>8. Held(saved'.catalog, saved'.docs) = settled
  BY <1>3, <1>5 DEF Whole
<1>. QED  BY <1>4, <1>7, <1>8 DEF Contract!Save

-----------------------------------------------------------------------------
(* initialize deletes the indexes of other names than those it is given:   *)
(* if it is always given the same, none with entries (255-311).            *)
LEMMA InitializeKeeps ==
  ASSUME TypeOK, TypeOK', Inv, Careful, NEW specs \in Specs, Initialize(specs)
  PROVE  Inv' /\ UNCHANGED Contract!vars
<1>1. /\ Quiet /\ indexed' = specs /\ ready' = TRUE
      /\ UNCHANGED <<docs, job, saved, clock, answer, settled>>
  BY DEF Initialize
<1>2. /\ catalog'.entries = catalog.entries /\ catalog'.byType = catalog.byType
      /\ catalog'.index = {entry \in catalog.index : entry[1] \in NamesOf(specs)}
  BY DEF Initialize, TypeOK, Catalog
<1>3. Whole
  BY <1>1 DEF Inv
<1>4. ASSUME NEW id \in Ids, NEW other \in Specs PROVE AgreesAt(catalog', docs', other, id)
  <2>1. other = specs /\ AgreesAt(catalog, docs, other, id)
    BY <1>3 DEF Careful, OneSpec, Whole, AgreesFor
  <2>2. ASSUME catalog.entries[id] # None
        PROVE  catalog.entries[id].keys \subseteq catalog'.index
    <3>1. /\ catalog.entries[id].keys = Entries(specs, id, catalog.entries[id].type, docs[id])
          /\ catalog.entries[id].keys \subseteq catalog.index
          /\ catalog.entries[id].type \in Types
      BY <2>1, <2>2 DEF AgreesAt, TypeOK, Catalog, CatalogEntry
    <3>2. ASSUME NEW key \in Entries(specs, id, catalog.entries[id].type, docs[id])
          PROVE  key[1] \in NamesOf(specs)
      <4>1. PICK f \in Fields :
              /\ key = <<IndexName[catalog.entries[id].type][f], Text[docs[id][f]], id>>
              /\ <<catalog.entries[id].type, f>> \in specs
        BY <3>2 DEF Entries
      <4>2. IndexName[catalog.entries[id].type][f] \in NamesOf(specs)
        <5>1. PICK pair \in specs : pair[1] = catalog.entries[id].type /\ pair[2] = f
          BY <4>1
        <5>. QED  BY <5>1 DEF NamesOf
      <4>. QED  BY <4>1, <4>2
    <3>. QED  BY <1>2, <3>1, <3>2
  <2>. QED  BY <1>1, <1>2, <2>1, <2>2 DEF AgreesAt, ListedAt
<1>5. Held(catalog', docs') = Held(catalog, docs)
  BY <1>1, <1>2 DEF Held, Stored
<1>6. Whole'
  BY <1>1, <1>3, <1>4, <1>5 DEF Whole, AgreesFor
<1>7. \A c \in Clients : job'[c] = Idle
  BY <1>1 DEF Quiet
<1>. QED  BY <1>1, <1>6, <1>7 DEF Inv, SavedAgrees, Contract!vars

(* An initialize that throws leaves the records as they are.               *)
LEMMA InitializeFailsKeeps ==
  ASSUME TypeOK, Inv, Careful, NEW read \in BadSpecs, InitializeFails(read)
  PROVE  Inv' /\ UNCHANGED Contract!vars
<1>1. /\ Quiet /\ ready' = FALSE
      /\ UNCHANGED <<docs, catalog, job, saved, clock, answer, settled>>
  BY DEF InitializeFails, state
<1>2. Whole'
  BY <1>1 DEF Inv, Whole, AgreesFor
<1>3. \A c \in Clients : job'[c] = Idle
  BY <1>1 DEF Quiet
<1>. QED  BY <1>1, <1>2, <1>3 DEF Inv, SavedAgrees, Contract!vars

(* A new process starts from a saved state, in the middle of a call or not *)
(* (103-117).                                                              *)
LEMMA RestartKeeps ==
  ASSUME TypeOK, Inv, Careful, Restart
  PROVE  Inv' /\ Contract!Restore
<1>1. /\ docs' = saved.docs /\ catalog' = saved.catalog /\ ready' = FALSE
      /\ settled' = Held(saved.catalog, saved.docs)
      /\ \A c \in Clients : job'[c] = Idle
      /\ UNCHANGED <<saved, clock, answer>>
  BY DEF Restart
<1>2. saved.catalog \in Catalog /\ saved.docs \in [Ids -> Data \cup {None}]
  BY DEF TypeOK, Snapshot
<1>3. settled' \in [Ids -> Record \cup {None}]
  BY <1>1, <1>2, HeldTyped
<1>4. Whole'
  BY <1>1 DEF Inv, SavedAgrees, Whole, AgreesFor
<1>5. Inv'
  BY <1>1, <1>3, <1>4 DEF Inv, SavedAgrees
<1>. QED  BY <1>1, <1>5 DEF Contract!Restore

(* Time passes between calls.                                              *)
LEMMA TickKeeps ==
  ASSUME TypeOK, Inv, Careful, Tick
  PROVE  Inv' /\ Contract!Tick
<1>1. /\ Quiet /\ clock < MaxTime /\ clock' = clock + 1
      /\ UNCHANGED <<docs, catalog, indexed, ready, job, saved, answer, settled>>
  BY DEF Tick, state
<1>2. Whole'
  BY <1>1 DEF Inv, Whole, AgreesFor
<1>3. \A c \in Clients : job'[c] = Idle
  BY <1>1 DEF Quiet
<1>. QED  BY <1>1, <1>2, <1>3 DEF Inv, SavedAgrees, Contract!Tick

-----------------------------------------------------------------------------
(* One more entry of a call, after the first k.                            *)
LEMMA ChainGrows ==
  ASSUME NEW call, NEW k \in Nat, NEW t, Chain(call, k, t),
         NEW later \in State, later = Applied(t[k], call[k + 1])
  PROVE  \E u : Chain(call, k + 1, u) /\ u[0] = t[0] /\ u[k + 1] = later
<1>1. PICK u : u = [i \in 0..(k + 1) |-> IF i = k + 1 THEN later ELSE t[i]]
  OBVIOUS
<1>2. t \in [0..k -> State] /\ \A i \in 1..k : t[i] = Applied(t[i - 1], call[i])
  BY DEF Chain
<1>3. u \in [0..(k + 1) -> State]
  BY <1>1, <1>2
<1>4. u[k + 1] = later /\ u[0] = t[0] /\ u[k] = t[k] /\ (k + 1) - 1 = k
  BY <1>1
<1>5. \A i \in 1..(k + 1) : u[i] = Applied(u[i - 1], call[i])
  <2>1. ASSUME NEW i \in 1..k PROVE u[i] = Applied(u[i - 1], call[i])
    <3>1. u[i] = t[i] /\ u[i - 1] = t[i - 1]
      BY <1>1
    <3>. QED  BY <1>2, <3>1
  <2>2. u[k + 1] = Applied(u[(k + 1) - 1], call[k + 1])
    BY <1>4
  <2>3. \A i \in 1..(k + 1) : i \in 1..k \/ i = k + 1
    OBVIOUS
  <2>. QED  BY <2>1, <2>2, <2>3
<1>6. Chain(call, k + 1, u)
  BY <1>3, <1>5 DEF Chain
<1>. QED  BY <1>4, <1>6

(* patch: the catalog is read (574-578).                                   *)
LEMMA PatchBegins ==
  ASSUME TypeOK, TypeOK', Inv, Careful, NEW c \in Clients, NEW call \in PatchCalls,
         PatchRead(c, call)
  PROVE  Inv' /\ Contract!Ready
<1>1. Whole /\ ready /\ indexed \in Specs /\ MayRun(c)
  BY Begins DEF PatchRead
<1>2. PICK next : next = [op |-> "patch", left |-> call, seen |-> catalog, done |-> <<>>,
                          count |-> 0]
  OBVIOUS
<1>3. /\ next.op = "patch" /\ next.left = call /\ next.seen = catalog /\ next.done = <<>>
      /\ next.count = 0
  BY <1>2
<1>4. next \in Jobs
  <2>1. next \in PatchJob
    BY <1>2 DEF PatchJob, TypeOK
  <2>. QED  BY <2>1, JobsOf
<1>5. /\ Goto(c, next) /\ answer' = <<"none">>
      /\ UNCHANGED <<docs, catalog, indexed, ready, saved, clock, settled>>
  BY <1>2 DEF PatchRead, Begin, Goto, state
<1>6. PICK t : t = [i \in 0..0 |-> [records |-> settled, count |-> 0]]
  OBVIOUS
<1>7. Chain(call, 0, t) /\ t[0] = [records |-> settled, count |-> 0]
  BY <1>6 DEF Chain, State, Inv
<1>8. call = SubSeq(call, 0 + 1, Len(call)) /\ 0 \in 0..Len(call) /\ Len(next.done) = 0
  <2>1. call \in Seq(TypePatch)
    OBVIOUS
  <2>. QED  BY <1>3, <2>1
<1>9. settled = Held(catalog, docs)
  BY <1>1 DEF Whole
<1>10. Along(next, call, 0, t)'
  BY <1>3, <1>5, <1>7, <1>8, <1>9 DEF Along
<1>11. ASSUME NEW id \in Ids
       PROVE  /\ catalog.entries[id] = None <=> docs[id] = None
              /\ ListedAt(catalog, id)
              /\ catalog.entries[id] # None => OwnKeys(catalog.entries[id].keys, id)
              /\ AgreesFor(id) /\ Rounds(next.done, id) = {}
  <2>1. AgreesFor(id) /\ AgreesAt(catalog, docs, indexed, id)
    BY <1>1, WholeSays
  <2>2. Rounds(next.done, id) = {}
    BY <1>3 DEF Rounds
  <2>. QED  BY <2>1, <2>2, AgreedKeys DEF AgreesAt
<1>12. Patching(next)'
  <2>1. next.seen = catalog'
    BY <1>3, <1>5
  <2>2. ASSUME NEW id \in Ids
        PROVE  /\ catalog'.entries[id] = None <=> docs'[id] = None
               /\ ListedAt(catalog', id)
               /\ catalog'.entries[id] # None => OwnKeys(catalog'.entries[id].keys, id)
               /\ Rounds(next.done, id) = {} /\ AgreesFor(id)'
    <3>1. AgreesFor(id)'
      BY <1>5, <1>11 DEF AgreesFor
    <3>. QED  BY <1>5, <1>11, <3>1
  <2>. QED  BY <1>8, <1>10, <2>1, <2>2 DEF Patching
<1>13. Mid(next)'
  BY <1>3, <1>12 DEF Mid
<1>14. Inv'
  BY <1>1, <1>3, <1>4, <1>5, <1>13, StaysWithin
<1>. QED  BY <1>5, <1>14 DEF Contract!Ready

(* A patch without entries changes nothing.                                *)
LEMMA PatchNothingKeeps ==
  ASSUME TypeOK, TypeOK', Inv, Careful, NEW c \in Clients, NEW call \in PatchCalls,
         PatchNothing(c, call)
  PROVE  Inv' /\ Contract!Patch(call)
<1>1. /\ Whole /\ MayRun(c)
  BY Begins DEF PatchNothing
<1>2. /\ UNCHANGED <<docs, catalog, indexed, ready, saved, clock>> /\ Leave(c)
      /\ answer' = <<"patched", 0>> /\ call = <<>>
  BY DEF PatchNothing, Finish, state
<1>3. Inv' /\ settled' = settled
  BY <1>1, <1>2, NothingWritten DEF Inv, SavedAgrees
<1>4. PICK t : t = [i \in 0..0 |-> [records |-> settled, count |-> 0]]
  OBVIOUS
<1>5. call \in Seq(TypePatch) /\ Len(call) = 0
  BY <1>2
<1>6. Chain(call, 0, t) /\ t[0] = [records |-> settled, count |-> 0]
  BY <1>4 DEF Chain, State, Inv
<1>7. Contract!Patched(call) = t[0]
  BY <1>5, <1>6, PatchedIsLast
<1>8. Contract!Patched(call).records = settled /\ Contract!Patched(call).count = 0
  BY <1>6, <1>7
<1>. QED  BY <1>2, <1>3, <1>8 DEF Contract!Patch

(* A pattern of the first entry does not compile: nothing is written yet.  *)
LEMMA PatchThrowsKeeps ==
  ASSUME TypeOK, TypeOK', Inv, Careful, NEW c \in Clients, PatchThrows(c)
  PROVE  Inv' /\ \E call \in PatchCalls : Contract!Patch(call)
<1>1. PICK now : now = job[c]
  OBVIOUS
<1>2. MayRun(c) /\ now.op \in {"patch", "patching"} /\ now \in PatchJob /\ now.left # <<>>
  BY <1>1, JobShapes DEF PatchThrows, In, TypeOK
<1>3. ready /\ indexed \in Specs /\ Patching(now)
  <2>1. ready /\ indexed \in Specs /\ Mid(now)
    BY <1>1, <1>2, Running
  <2>. QED  BY <1>2, <2>1 DEF Mid
<1>4. PICK call \in PatchCalls : \E k \in 0..Len(call) : \E t : Along(now, call, k, t)
  BY <1>3 DEF Patching
<1>5. PICK k \in 0..Len(call) : \E t : Along(now, call, k, t)
  BY <1>4
<1>6. PICK t : Along(now, call, k, t)
  BY <1>5
<1>7. call \in Seq(TypePatch) /\ DOMAIN call = 1..Len(call)
  OBVIOUS
<1>8. k + 1 \in DOMAIN call /\ Head(now.left) = call[k + 1]
  BY <1>2, <1>6, <1>7, RestOfSequence DEF Along
<1>9. Refused(call[k + 1].filters)
  BY <1>1, <1>8 DEF PatchThrows, Throws, Refused
<1>10. k = 0
  <2>1. ~ (k + 1 > 1)
    BY <1>8, <1>9 DEF Careful, FirstRefusedOnly
  <2>. QED  BY <2>1
<1>11. Whole
  <2>1. settled = Held(catalog, docs)
    BY <1>6, <1>10 DEF Along
  <2>2. \A id \in Ids : Rounds(now.done, id) = {}
    <3>1. now.done \in Seq(Part) /\ Len(now.done) = 0
      BY <1>2, <1>6, <1>10 DEF Along, PatchJob
    <3>2. DOMAIN now.done = {}
      BY <3>1
    <3>. QED  BY <3>2 DEF Rounds
  <2>. QED  BY <1>3, <2>1, <2>2 DEF Patching, Whole
<1>12. /\ UNCHANGED <<docs, catalog, indexed, ready, saved, clock>> /\ Leave(c)
       /\ answer' = <<"failed">>
  BY DEF PatchThrows, Finish, state
<1>13. Inv' /\ settled' = settled
  BY <1>2, <1>11, <1>12, NothingWritten DEF Inv, SavedAgrees
<1>14. Contract!Patch(call)
  BY <1>8, <1>9, <1>12, <1>13 DEF Contract!Patch
<1>. QED  BY <1>13, <1>14

(* What an entry of a patch makes of the documents is what the contract    *)
(* makes of the records.                                                   *)
LEMMA EntryApplies ==
  ASSUME TypeOK, NEW c \in Clients, PatchDocs(c), Patching(job[c])
  PROVE  Applied([records |-> Held(catalog, docs), count |-> job[c].count], Head(job[c].left))
           = [records |-> Held(catalog', docs'), count |-> job'[c].count]
<1>1. PICK now : now = job[c]
  OBVIOUS
<1>2. PICK entry : entry = Head(now.left)
  OBVIOUS
<1>3. PICK hits : hits = Hits(now)
  OBVIOUS
<1>4. PICK current : current = [records |-> Held(catalog, docs), count |-> now.count]
  OBVIOUS
<1>9. current.records = Held(catalog, docs) /\ current.count = now.count
  BY <1>4
<1>5. entry \in TypePatch /\ hits \in SUBSET Ids
  BY <1>1, <1>2, <1>3, PatchDocsTyped
<1>6. /\ docs' = [id \in Ids |-> IF id \in hits THEN Merge(docs[id], entry.patch) ELSE docs[id]]
      /\ docs' \in [Ids -> Data \cup {None}]
      /\ job'[c].count = now.count + Cardinality(hits) /\ catalog' = catalog
  <2>1. PICK changed : changed = Changed(now)
    OBVIOUS
  <2>2. changed = [id \in hits |-> Merge(docs[id], entry.patch)]
    BY <1>2, <1>3, <2>1 DEF Changed
  <2>3. docs' = [id \in Ids |-> IF id \in hits THEN changed[id] ELSE docs[id]]
    BY <1>1, <1>3, <2>1, PatchDocsTyped
  <2>4. /\ docs' \in [Ids -> Data \cup {None}] /\ catalog' = catalog
        /\ job'[c].count = now.count + Cardinality(hits)
    BY <1>1, <1>3, PatchDocsTyped DEF PatchDocs
  <2>. QED  BY <2>2, <2>3, <2>4
<1>7. ASSUME NEW id \in Ids
      PROVE  /\ current.records[id] = Stored(catalog.entries, docs, id)
             /\ current.records[id] = None <=> catalog.entries[id] = None \/ docs[id] = None
             /\ current.records[id] # None => current.records[id].type = catalog.entries[id].type
                                   /\ current.records[id].data = docs[id]
  BY <1>9, HeldTyped DEF TypeOK
<1>8. hits = {id \in Ids : /\ current.records[id] # None /\ current.records[id].type = entry.type
                           /\ MatchesAll(current.records[id].data, entry.filters)}
  <2>1. ASSUME NEW id \in Ids
        PROVE  id \in hits <=> /\ current.records[id] # None /\ current.records[id].type = entry.type
                               /\ MatchesAll(current.records[id].data, entry.filters)
    <3>1. now.seen = catalog /\ ListedAt(catalog, id)
      BY <1>1 DEF Patching
    <3>2. entry.type \in Types
      BY <1>5 DEF TypePatch
    <3>3. id \in hits <=> /\ <<entry.type, id>> \in catalog.byType /\ catalog.entries[id] # None
                          /\ docs[id] # None /\ MatchesAll(docs[id], entry.filters)
      BY <1>2, <1>3, <3>1 DEF Hits, Candidates
    <3>. QED  BY <1>7, <3>1, <3>2, <3>3 DEF ListedAt
  <2>. QED  BY <1>5, <2>1
<1>11. Applied(current, entry)
         = [records |-> [id \in Ids |-> IF id \in hits
                                        THEN [current.records[id] EXCEPT
                                                !.data = Merge(current.records[id].data, entry.patch)]
                                        ELSE current.records[id]],
            count |-> current.count + Cardinality(hits)]
  <2>1. AreHit(hits, current, entry)
    BY <1>8 DEF AreHit
  <2>2. Applied(current, entry) = Left(current, entry, hits)
    BY <2>1, AppliedIs
  <2>. QED  BY <2>2 DEF Left
<1>12. ASSUME NEW id \in Ids
       PROVE  Stored(catalog.entries, docs', id)
                = IF id \in hits
                  THEN [current.records[id] EXCEPT
                          !.data = Merge(current.records[id].data, entry.patch)]
                  ELSE current.records[id]
  <2>1. CASE id \in hits
    <3>1. PICK e, d : e = catalog.entries[id] /\ d = docs[id]
      OBVIOUS
    <3>2. current.records[id] # None /\ e # None /\ d # None
      BY <1>7, <1>8, <2>1, <3>1
    <3>3. current.records[id] = [type |-> e.type, data |-> d, created |-> e.created]
      BY <1>7, <3>1, <3>2 DEF Stored
    <3>4. docs'[id] = Merge(d, entry.patch) /\ docs'[id] # None
      <4>1. docs'[id] = Merge(d, entry.patch)
        BY <1>6, <2>1, <3>1
      <4>2. d \in Data /\ entry.patch \in PatchData
        BY <1>5, <3>1, <3>2 DEF TypeOK, TypePatch
      <4>. QED  BY <4>1, <4>2, MergeTyped
    <3>5. Stored(catalog.entries, docs', id)
            = [type |-> e.type, data |-> Merge(d, entry.patch), created |-> e.created]
      BY <3>1, <3>2, <3>4 DEF Stored
    <3>6. PICK merged : merged = Merge(d, entry.patch)
      OBVIOUS
    <3>7. [current.records[id] EXCEPT !.data = merged] = [type |-> e.type, data |-> merged, created |-> e.created]
      BY <3>3
    <3>8. current.records[id].data = d
      BY <3>3
    <3>. QED  BY <2>1, <3>5, <3>6, <3>7, <3>8
  <2>2. CASE id \notin hits
    BY <1>6, <1>7, <2>2 DEF Stored
  <2>. QED  BY <2>1, <2>2
<1>13. Held(catalog', docs')
         = [id \in Ids |-> IF id \in hits
                           THEN [current.records[id] EXCEPT
                                   !.data = Merge(current.records[id].data, entry.patch)]
                           ELSE current.records[id]]
  BY <1>6, <1>12 DEF Held
<1>14. current = [records |-> Held(catalog, docs), count |-> job[c].count]
  BY <1>1, <1>4
<1>. QED  BY <1>1, <1>2, <1>6, <1>9, <1>11, <1>13, <1>14

(* The round in which a record was patched last, after one more.           *)
OneMore(done, part, more) ==
  /\ more \in Seq(Part) /\ DOMAIN more = 1..(Len(done) + 1) /\ more[Len(done) + 1] = part
  /\ \A i \in 1..Len(done) : more[i] = done[i]

(* A record that the newest entry changed has it as its last.              *)
LEMMA RoundAdded ==
  ASSUME NEW done \in Seq(Part), NEW part, NEW id, id \in DOMAIN part,
         NEW more, OneMore(done, part, more)
  PROVE  Rounds(more, id) # {} /\ more[LastRound(more, id)] = part
<1>1. /\ more \in Seq(Part) /\ Len(done) \in Nat /\ DOMAIN more = 1..(Len(done) + 1)
      /\ more[Len(done) + 1] = part
  BY DEF OneMore
<1>2. Len(done) + 1 \in Rounds(more, id)
  BY <1>1 DEF Rounds
<1>3. /\ LastRound(more, id) \in Rounds(more, id)
      /\ Len(done) + 1 <= LastRound(more, id)
  BY <1>1, <1>2, LastRoundIsLast
<1>4. LastRound(more, id) \in 1..(Len(done) + 1)
  BY <1>1, <1>3 DEF Rounds
<1>5. LastRound(more, id) = Len(done) + 1
  BY <1>1, <1>3, <1>4
<1>. QED  BY <1>1, <1>2, <1>5

(* ... and after one that left it out.                                     *)
LEMMA RoundsKept ==
  ASSUME NEW done \in Seq(Part), NEW part, NEW id, id \notin DOMAIN part,
         NEW more, OneMore(done, part, more)
  PROVE  /\ Rounds(more, id) = Rounds(done, id)
         /\ Rounds(done, id) # {} => more[LastRound(more, id)] = done[LastRound(done, id)]
<1>1. /\ more \in Seq(Part) /\ Len(done) \in Nat /\ DOMAIN more = 1..(Len(done) + 1)
      /\ DOMAIN done = 1..Len(done) /\ more[Len(done) + 1] = part
      /\ \A i \in 1..Len(done) : more[i] = done[i]
  BY DEF OneMore
<1>2. \A i \in 1..(Len(done) + 1) : i \in 1..Len(done) \/ i = Len(done) + 1
  BY <1>1
<1>3. Rounds(more, id) = Rounds(done, id)
  <2>1. \A i \in DOMAIN more : id \in DOMAIN more[i] => i \in DOMAIN done /\ id \in DOMAIN done[i]
    BY <1>1, <1>2
  <2>2. \A i \in DOMAIN done : i \in DOMAIN more /\ more[i] = done[i]
    BY <1>1
  <2>. QED  BY <2>1, <2>2 DEF Rounds
<1>4. LastRound(more, id) = LastRound(done, id)
  BY <1>3 DEF LastRound
<1>5. Rounds(done, id) # {} => LastRound(done, id) \in 1..Len(done)
  BY <1>1, LastRoundIsLast DEF Rounds
<1>. QED  BY <1>1, <1>3, <1>4, <1>5

(* The documents of one entry are written (587-622).                       *)
LEMMA PatchWrites ==
  ASSUME TypeOK, TypeOK', Inv, Careful, NEW c \in Clients, PatchDocs(c)
  PROVE  Inv' /\ UNCHANGED Contract!vars
<1>1. PICK now : now = job[c]
  OBVIOUS
<1>2. MayRun(c) /\ now.op \in {"patch", "patching"}
  BY <1>1 DEF PatchDocs, In
<1>3. ready /\ indexed \in Specs /\ Patching(now)
  <2>1. ready /\ indexed \in Specs /\ Mid(now)
    BY <1>1, <1>2, Running
  <2>. QED  BY <1>2, <2>1 DEF Mid
<1>4. PICK hits : hits = Hits(now)
  OBVIOUS
<1>23. PICK changed : changed = Changed(now)
  OBVIOUS
<1>24. PICK next : next = job'[c]
  OBVIOUS
<1>5. /\ now \in PatchJob /\ now.left # <<>> /\ Head(now.left) \in TypePatch
      /\ hits \in SUBSET Ids /\ changed \in [hits -> Data] /\ changed \in Part
      /\ docs' = [id \in Ids |-> IF id \in hits THEN changed[id] ELSE docs[id]]
  <2>1. /\ now \in PatchJob /\ now.left # <<>> /\ Head(now.left) \in TypePatch
        /\ hits \in SUBSET Ids /\ changed \in [hits -> Data] /\ changed \in Part
    BY <1>1, <1>4, <1>23, PatchDocsTyped
  <2>2. docs' = [id \in Ids |-> IF id \in hits THEN changed[id] ELSE docs[id]]
    BY <1>1, <1>4, <1>23, PatchDocsTyped
  <2>. QED  BY <2>1, <2>2
<1>6. /\ next \in PatchJob /\ next.op = "patching"
      /\ next.left = Tail(now.left) /\ next.seen = now.seen /\ next.done = Append(now.done, changed)
      /\ job' \in [Clients -> Jobs] /\ \A d \in Clients \ {c} : job'[d] = job[d]
  BY <1>1, <1>4, <1>23, <1>24, PatchDocsTyped
<1>7. /\ UNCHANGED <<catalog, indexed, ready, saved, clock, answer, settled>>
      /\ next \in Jobs
  BY <1>6, JobsOf DEF PatchDocs, Goto
<1>8. Goto(c, next)
  <2>1. job' = [job EXCEPT ![c] = next]
    BY <1>24, <1>6 DEF TypeOK
  <2>. QED  BY <1>7, <2>1 DEF Goto
<1>9. PICK call \in PatchCalls : \E k \in 0..Len(call) : \E t : Along(now, call, k, t)
  BY <1>3 DEF Patching
<1>10. PICK k \in 0..Len(call) : \E t : Along(now, call, k, t)
  BY <1>9
<1>11. PICK t : Along(now, call, k, t)
  BY <1>10
<1>12. call \in Seq(TypePatch) /\ k \in Nat /\ Len(call) \in Nat
  OBVIOUS
<1>13. /\ k + 1 \in 1..Len(call) /\ Head(now.left) = call[k + 1]
       /\ Tail(now.left) = SubSeq(call, (k + 1) + 1, Len(call))
  BY <1>5, <1>11, <1>12, RestOfSequence DEF Along
<1>14. PICK later : later = [records |-> Held(catalog', docs'), count |-> next.count]
  OBVIOUS
<1>15. later = Applied(t[k], call[k + 1])
  <2>1. t[k] = [records |-> Held(catalog, docs), count |-> now.count]
    BY <1>11 DEF Along
  <2>. QED  BY <1>1, <1>3, <1>24, <1>13, <1>14, <2>1, EntryApplies
<1>16. later \in State
  <2>1. next.count \in Nat
    BY <1>6 DEF PatchJob
  <2>2. Held(catalog', docs') \in [Ids -> Record \cup {None}]
    BY HeldTyped DEF TypeOK
  <2>. QED  BY <1>14, <2>1, <2>2 DEF State
<1>17. PICK u : Chain(call, k + 1, u) /\ u[0] = t[0] /\ u[k + 1] = later
  <2>1. Chain(call, k, t)
    BY <1>11 DEF Along
  <2>. QED  BY <1>12, <1>15, <1>16, <2>1, ChainGrows
<1>18. Along(next, call, k + 1, u)'
  <2>1. t[0] = [records |-> settled, count |-> 0] /\ Len(now.done) = k
    BY <1>11 DEF Along
  <2>2. Len(next.done) = k + 1
    BY <1>5, <1>6, <2>1 DEF PatchJob
  <2>. QED  BY <1>6, <1>7, <1>13, <1>14, <1>17, <2>1, <2>2 DEF Along
<1>19. ASSUME NEW id \in Ids
       PROVE  /\ catalog'.entries[id] = None <=> docs'[id] = None
              /\ ListedAt(catalog', id)
              /\ catalog'.entries[id] # None => OwnKeys(catalog'.entries[id].keys, id)
              /\ Rounds(next.done, id) = {} => AgreesFor(id)'
              /\ Rounds(next.done, id) # {} =>
                   /\ catalog'.entries[id] # None
                   /\ next.done[LastRound(next.done, id)][id] = docs'[id]
  <2>1. /\ catalog.entries[id] = None <=> docs[id] = None
        /\ ListedAt(catalog, id)
        /\ catalog.entries[id] # None => OwnKeys(catalog.entries[id].keys, id)
        /\ Rounds(now.done, id) = {} => AgreesFor(id)
        /\ Rounds(now.done, id) # {} => /\ catalog.entries[id] # None
                                        /\ now.done[LastRound(now.done, id)][id] = docs[id]
    BY <1>3 DEF Patching
  <2>2. now.done \in Seq(Part) /\ DOMAIN changed = hits
    BY <1>5 DEF PatchJob
  <2>5. PICK done : done = now.done
    OBVIOUS
  <2>6. PICK more : more = next.done
    OBVIOUS
  <2>7. done \in Seq(Part) /\ changed \in Part /\ OneMore(done, changed, more)
    BY <1>5, <1>6, <2>2, <2>5, <2>6 DEF OneMore
  <2>3. CASE id \in hits
    <3>1. catalog.entries[id] # None /\ docs[id] # None
      BY <1>3, <1>4, <2>3 DEF Hits, Candidates, Patching
    <3>2. docs'[id] = changed[id] /\ changed[id] \in Data
      BY <1>5, <2>3
    <3>3. /\ Rounds(next.done, id) # {}
          /\ next.done[LastRound(next.done, id)] = changed
      <4>1. id \in DOMAIN changed
        BY <2>2, <2>3
      <4>2. Rounds(more, id) # {} /\ more[LastRound(more, id)] = changed
        BY <2>7, <4>1, RoundAdded
      <4>. QED  BY <2>6, <4>2
    <3>. QED  BY <1>7, <2>1, <3>1, <3>2, <3>3
  <2>4. CASE id \notin hits
    <3>1. docs'[id] = docs[id]
      BY <1>5, <2>4
    <3>2. /\ Rounds(next.done, id) = Rounds(now.done, id)
          /\ Rounds(now.done, id) # {} =>
               next.done[LastRound(next.done, id)] = now.done[LastRound(now.done, id)]
      <4>1. id \notin DOMAIN changed
        BY <2>2, <2>4
      <4>2. /\ Rounds(more, id) = Rounds(done, id)
            /\ Rounds(done, id) # {} => more[LastRound(more, id)] = done[LastRound(done, id)]
        BY <2>7, <4>1, RoundsKept
      <4>. QED  BY <2>5, <2>6, <4>2
    <3>3. AgreesFor(id) => AgreesFor(id)'
      BY <1>7, <3>1 DEF AgreesFor, AgreesAt
    <3>. QED  BY <1>7, <2>1, <3>1, <3>2, <3>3
  <2>. QED  BY <2>3, <2>4
<1>20. Patching(next)'
  <2>1. next.seen = catalog'
    BY <1>3, <1>6, <1>7 DEF Patching
  <2>2. k + 1 \in 0..Len(call)
    BY <1>12, <1>13
  <2>. QED  BY <1>18, <1>19, <2>1, <2>2 DEF Patching
<1>21. Mid(next)'
  BY <1>6, <1>20 DEF Mid
<1>22. Inv'
  BY <1>2, <1>3, <1>6, <1>7, <1>8, <1>21, StaysWithin
<1>. QED  BY <1>7, <1>22 DEF Contract!vars

(* What the last step of a patch makes of the catalog, record by record.   *)
LEMMA PatchCatalogIs ==
  ASSUME TypeOK, DoneSeen, NEW c \in Clients, PatchCatalog(c), NEW now, now = job[c]
  PROVE  /\ catalog'.byType = catalog.byType
         /\ \A id \in Ids :
              /\ catalog.entries[id] = None \/ Rounds(now.done, id) = {} =>
                   catalog'.entries[id] = catalog.entries[id]
              /\ catalog.entries[id] # None /\ Rounds(now.done, id) # {} =>
                   /\ catalog'.entries[id] # None
                   /\ catalog'.entries[id].type = catalog.entries[id].type
                   /\ catalog'.entries[id].created = catalog.entries[id].created
                   /\ catalog'.entries[id].keys
                        = KeysAt(now.seen, now.done, LastRound(now.done, id), id)
                   /\ catalog'.entries[id].keys \subseteq catalog'.index
         /\ \A key \in catalog.index \ catalog'.index :
              \E id \in Ids : /\ catalog.entries[id] # None /\ Rounds(now.done, id) # {}
                              /\ key \in now.seen.entries[id].keys
<1>. DEFINE IdsDone == {id \in Ids : /\ catalog.entries[id] # None
                                     /\ \E i \in DOMAIN now.done : id \in DOMAIN now.done[i]}
            keysOf(id) == KeysAt(now.seen, now.done, LastRound(now.done, id), id)
            old == UNION {now.seen.entries[id].keys : id \in IdsDone}
            passing == UNION {UNION {KeysAt(now.seen, now.done, i, id) : i \in Rounds(now.done, id)} : id \in IdsDone}
            new == UNION {keysOf(id) : id \in IdsDone}
<1>1. \A id : Rounds(now.done, id) # {} <=> \E i \in DOMAIN now.done : id \in DOMAIN now.done[i]
  BY DEF Rounds
<1>2. catalog' = [catalog EXCEPT
         !.entries = [id \in Ids |-> IF id \in IdsDone
                                     THEN [@[id] EXCEPT !.keys = keysOf(id)] ELSE @[id]],
         !.index = ((@ \cup passing) \ old) \cup new]
  BY DEF PatchCatalog, KeysAt, Rounds, LastRound
<1>3. catalog \in Catalog /\ catalog' \in Catalog
  BY PatchCatalogTyped DEF TypeOK
<1>4. \A id \in IdsDone : id \in Ids /\ catalog.entries[id] # None /\ Rounds(now.done, id) # {}
  BY <1>1
<1>5. \A id \in Ids : catalog.entries[id] = None \/ Rounds(now.done, id) = {} => id \notin IdsDone
  BY <1>1
<1>6. \A id \in IdsDone : keysOf(id) \subseteq new
  OBVIOUS
<1>7. \A key \in old : \E id \in IdsDone : key \in now.seen.entries[id].keys
  OBVIOUS
<1>8. \A id \in Ids : catalog.entries[id] # None /\ Rounds(now.done, id) # {} => id \in IdsDone
  BY <1>1
<1>. HIDE DEF IdsDone, old, passing, new, keysOf
<1>9. PICK entries : entries = [id \in Ids |-> IF id \in IdsDone
                                     THEN [catalog.entries[id] EXCEPT !.keys = keysOf(id)]
                                     ELSE catalog.entries[id]]
  OBVIOUS
<1>10. catalog' = [catalog EXCEPT !.entries = entries,
                                  !.index = ((catalog.index \cup passing) \ old) \cup new]
  BY <1>2, <1>3, <1>9 DEF Catalog
<1>11. /\ catalog'.entries = entries /\ catalog'.byType = catalog.byType
       /\ catalog'.index = ((catalog.index \cup passing) \ old) \cup new
  BY <1>3, <1>10 DEF Catalog
<1>12. ASSUME NEW id \in Ids, id \in IdsDone
       PROVE  /\ catalog'.entries[id] # None
              /\ catalog'.entries[id].type = catalog.entries[id].type
              /\ catalog'.entries[id].created = catalog.entries[id].created
              /\ catalog'.entries[id].keys = keysOf(id)
              /\ keysOf(id) \subseteq catalog'.index
  <2>1. PICK was : was = catalog.entries[id]
    OBVIOUS
  <2>2. was \in CatalogEntry
    BY <1>3, <1>4, <1>12, <2>1 DEF Catalog
  <2>3. PICK keys : keys = keysOf(id)
    OBVIOUS
  <2>4. catalog'.entries[id] = [was EXCEPT !.keys = keys]
    BY <1>9, <1>11, <1>12, <2>1, <2>3
  <2>5. PICK entry : entry = [was EXCEPT !.keys = keys]
    OBVIOUS
  <2>6. /\ entry.type = was.type /\ entry.created = was.created /\ entry.keys = keys
    BY <2>2, <2>5 DEF CatalogEntry
  <2>7. catalog'.entries[id] \in CatalogEntry \cup {None}
    BY <1>3 DEF Catalog
  <2>8. entry # None
    <3>1. entry = [type |-> was.type, created |-> was.created, keys |-> keys]
      BY <2>2, <2>5 DEF CatalogEntry
    <3>2. keys \in SUBSET (Names \X Texts \X Ids)
      <4>1. keysOf(id) \subseteq catalog'.index
        BY <1>6, <1>11, <1>12
      <4>. QED  BY <1>3, <2>3, <4>1 DEF Catalog
    <3>3. entry \in CatalogEntry
      BY <2>2, <3>1, <3>2 DEF CatalogEntry
    <3>. QED  BY <3>3
  <2>9. keysOf(id) \subseteq catalog'.index
    BY <1>6, <1>11, <1>12
  <2>. QED  BY <2>1, <2>3, <2>4, <2>5, <2>6, <2>8, <2>9
<1>13. \A id \in Ids : id \notin IdsDone => catalog'.entries[id] = catalog.entries[id]
  BY <1>9, <1>11
<1>14. \A key \in catalog.index \ catalog'.index : key \in old
  BY <1>11
<1>15. \A key \in catalog.index \ catalog'.index :
         \E id \in Ids : /\ catalog.entries[id] # None /\ Rounds(now.done, id) # {}
                         /\ key \in now.seen.entries[id].keys
  BY <1>4, <1>7, <1>14
<1>16. ASSUME NEW id \in Ids
       PROVE  /\ catalog.entries[id] = None \/ Rounds(now.done, id) = {} =>
                   catalog'.entries[id] = catalog.entries[id]
              /\ catalog.entries[id] # None /\ Rounds(now.done, id) # {} =>
                   /\ catalog'.entries[id] # None
                   /\ catalog'.entries[id].type = catalog.entries[id].type
                   /\ catalog'.entries[id].created = catalog.entries[id].created
                   /\ catalog'.entries[id].keys
                        = KeysAt(now.seen, now.done, LastRound(now.done, id), id)
                   /\ catalog'.entries[id].keys \subseteq catalog'.index
  <2>1. keysOf(id) = KeysAt(now.seen, now.done, LastRound(now.done, id), id)
    BY DEF keysOf
  <2>. QED  BY <1>5, <1>8, <1>12, <1>13, <2>1
<1>. QED  BY <1>11, <1>15, <1>16

(* The catalog is told of the patched documents, each for the data that    *)
(* its last round left: the call is over.                                  *)
LEMMA PatchEnds ==
  ASSUME TypeOK, TypeOK', Inv, Careful, NEW c \in Clients, PatchCatalog(c)
  PROVE  Inv' /\ \E call \in PatchCalls : Contract!Patch(call)
<1>1. PICK now : now = job[c]
  OBVIOUS
<1>2. /\ MayRun(c) /\ now.op = "patching" /\ now \in PatchJob /\ now.left = <<>>
  BY <1>1, JobShapes DEF PatchCatalog, In, TypeOK
<1>3. /\ ready /\ indexed \in Specs /\ Patching(now) /\ \A d \in Clients \ {c} : job[d] = Idle
  <2>1. ready /\ indexed \in Specs /\ Mid(now) /\ \A d \in Clients \ {c} : job[d] = Idle
    BY <1>1, <1>2, Running
  <2>. QED  BY <1>2, <2>1 DEF Mid
<1>4. /\ now.seen = catalog
      /\ \A id \in Ids :
           /\ catalog.entries[id] = None <=> docs[id] = None
           /\ ListedAt(catalog, id)
           /\ catalog.entries[id] # None => OwnKeys(catalog.entries[id].keys, id)
           /\ Rounds(now.done, id) = {} => AgreesFor(id)
           /\ Rounds(now.done, id) # {} => /\ catalog.entries[id] # None
                                           /\ now.done[LastRound(now.done, id)][id] = docs[id]
  BY <1>3 DEF Patching
<1>5. DoneSeen
  <2>1. ASSUME NEW i \in DOMAIN now.done, NEW id \in DOMAIN now.done[i]
        PROVE  now.seen.entries[id] # None
    <3>1. now.done[i] \in Part
      BY <1>2 DEF PatchJob
    <3>2. id \in Ids /\ i \in Rounds(now.done, id)
      BY <3>1 DEF Part, Rounds
    <3>. QED  BY <1>4, <3>2
  <2>. QED  BY <1>1, <1>3, <2>1, JobsOf DEF DoneSeen
<1>6. /\ catalog'.byType = catalog.byType
      /\ \A id \in Ids :
           /\ Rounds(now.done, id) = {} => catalog'.entries[id] = catalog.entries[id]
           /\ Rounds(now.done, id) # {} =>
                /\ catalog'.entries[id] # None
                /\ catalog'.entries[id].type = catalog.entries[id].type
                /\ catalog'.entries[id].created = catalog.entries[id].created
                /\ catalog'.entries[id].keys
                     = KeysAt(catalog, now.done, LastRound(now.done, id), id)
                /\ catalog'.entries[id].keys \subseteq catalog'.index
      /\ \A key \in catalog.index \ catalog'.index :
           \E id \in Ids : /\ catalog.entries[id] # None /\ Rounds(now.done, id) # {}
                           /\ key \in catalog.entries[id].keys
  <2>1. /\ catalog'.byType = catalog.byType
        /\ \A id \in Ids :
             /\ catalog.entries[id] = None \/ Rounds(now.done, id) = {} =>
                  catalog'.entries[id] = catalog.entries[id]
             /\ catalog.entries[id] # None /\ Rounds(now.done, id) # {} =>
                  /\ catalog'.entries[id] # None
                  /\ catalog'.entries[id].type = catalog.entries[id].type
                  /\ catalog'.entries[id].created = catalog.entries[id].created
                  /\ catalog'.entries[id].keys
                       = KeysAt(now.seen, now.done, LastRound(now.done, id), id)
                  /\ catalog'.entries[id].keys \subseteq catalog'.index
        /\ \A key \in catalog.index \ catalog'.index :
             \E id \in Ids : /\ catalog.entries[id] # None /\ Rounds(now.done, id) # {}
                             /\ key \in now.seen.entries[id].keys
    BY <1>1, <1>5, PatchCatalogIs
  <2>. QED  BY <1>4, <2>1
<1>7. /\ UNCHANGED <<docs, indexed, ready, saved, clock>>
      /\ Leave(c) /\ answer' = <<"patched", now.count>>
  BY <1>1 DEF PatchCatalog, Finish
<1>8. ASSUME NEW id \in Ids PROVE AgreesFor(id)'
  <2>1. CASE Rounds(now.done, id) = {}
    <3>1. ASSUME NEW key \in catalog.index, key[3] = id PROVE key \in catalog'.index
      <4>. SUFFICES ASSUME key \notin catalog'.index PROVE FALSE
        OBVIOUS
      <4>1. PICK other \in Ids : /\ catalog.entries[other] # None /\ Rounds(now.done, other) # {}
                                 /\ key \in catalog.entries[other].keys
        BY <1>6
      <4>2. key[3] = other
        BY <1>4, <4>1 DEF OwnKeys
      <4>. QED  BY <2>1, <3>1, <4>1, <4>2
    <3>2. /\ catalog'.entries[id] = catalog.entries[id] /\ docs'[id] = docs[id]
          /\ \A type \in Types : <<type, id>> \in catalog'.byType <=> <<type, id>> \in catalog.byType
      BY <1>6, <1>7, <2>1
    <3>3. ASSUME NEW specs \in Specs PROVE AgreesAt(catalog', docs', specs, id)
      <4>1. AgreesAt(catalog, docs, specs, id)
        BY <1>4, <2>1 DEF AgreesFor
      <4>. QED  BY <3>1, <3>2, <4>1, OthersAgree
    <3>. QED  BY <3>3 DEF AgreesFor
  <2>2. CASE Rounds(now.done, id) # {}
    <3>1. /\ catalog'.entries[id] # None /\ docs'[id] # None
          /\ catalog'.entries[id].type = catalog.entries[id].type
          /\ catalog'.entries[id].keys \subseteq catalog'.index
      BY <1>4, <1>6, <1>7, <2>2
    <3>2. catalog'.entries[id].keys
            = Entries(indexed, id, catalog'.entries[id].type, docs'[id])
      BY <1>4, <1>6, <1>7, <2>2 DEF KeysAt
    <3>3. ListedAt(catalog', id)
      BY <1>4, <1>6, <2>2, <3>1 DEF ListedAt
    <3>4. ASSUME NEW specs \in Specs PROVE AgreesAt(catalog', docs', specs, id)
      <4>1. specs = indexed
        BY <1>3 DEF Careful, OneSpec
      <4>. QED  BY <3>1, <3>2, <3>3, <4>1 DEF AgreesAt
    <3>. QED  BY <3>4 DEF AgreesFor
  <2>. QED  BY <2>1, <2>2
<1>9. Inv' /\ settled' = Held(catalog', docs')
  <2>1. SavedAgrees'
    BY <1>7 DEF Inv, SavedAgrees
  <2>. QED  BY <1>2, <1>7, <1>8, <2>1, LeavesWhole
<1>10. Held(catalog', docs') = Held(catalog, docs)
  <2>1. ASSUME NEW id \in Ids
        PROVE  Stored(catalog'.entries, docs', id) = Stored(catalog.entries, docs, id)
    BY <1>4, <1>6, <1>7 DEF Stored
  <2>. QED  BY <2>1 DEF Held
<1>11. PICK call \in PatchCalls : \E k \in 0..Len(call) : \E t : Along(now, call, k, t)
  BY <1>3 DEF Patching
<1>12. PICK k \in 0..Len(call) : \E t : Along(now, call, k, t)
  BY <1>11
<1>13. PICK t : Along(now, call, k, t)
  BY <1>12
<1>14. call \in Seq(TypePatch)
  OBVIOUS
<1>15. k = Len(call)
  BY <1>2, <1>13, <1>14, RestOfSequence DEF Along
<1>16. Contract!Patched(call) = [records |-> Held(catalog, docs), count |-> now.count]
  <2>1. /\ Chain(call, Len(call), t) /\ t[0] = [records |-> settled, count |-> 0]
        /\ t[Len(call)] = [records |-> Held(catalog, docs), count |-> now.count]
    BY <1>13, <1>15 DEF Along
  <2>. QED  BY <1>14, <2>1, PatchedIsLast
<1>17. /\ Contract!Patched(call).records = settled' /\ Contract!Patched(call).count = now.count
  BY <1>9, <1>10, <1>16
<1>. QED  BY <1>7, <1>9, <1>17 DEF Contract!Patch

-----------------------------------------------------------------------------
(* A call begins, goes on or ends.                                         *)
LEMMA CallKeeps ==
  ASSUME TypeOK, TypeOK', Inv, Careful, NEW c \in Clients, Call(c)
  PROVE  Inv' /\ (Contract!Next \/ UNCHANGED Contract!vars)
<1>1. ASSUME NEW id \in Ids, NEW type \in Types, NEW data \in PutData,
             PutDoc(c, id, type, data) \/ UpdateRead(c, id, type, data)
      PROVE  Inv' /\ Contract!Ready
  BY <1>1, PutBegins, UpdateBegins
<1>2. ASSUME NEW id \in Ids, NEW type \in Types, NEW data \in PutData, UpdateMissing(c, id)
      PROVE  Inv' /\ Contract!Update(id, type, data)
  BY <1>2, UpdateFails
<1>3. ASSUME NEW id \in Ids, RemoveRead(c, id) PROVE Inv' /\ Contract!Ready
  BY <1>3, RemoveBegins
<1>4. ASSUME NEW call \in PatchCalls, PatchRead(c, call) PROVE Inv' /\ Contract!Ready
  BY <1>4, PatchBegins
<1>5. ASSUME NEW call \in PatchCalls, PatchNothing(c, call) PROVE Inv' /\ Contract!Patch(call)
  BY <1>5, PatchNothingKeeps
<1>6. ASSUME NEW query \in Queries, QueryRead(c, query) PROVE Inv' /\ Contract!Ready
  BY <1>6, QueryBegins
<1>7. ASSUME SaveRead(c) PROVE Inv' /\ Contract!Ready
  BY <1>7, SaveBegins
<1>8. ASSUME NEW id \in Ids, GetRead(c, id) PROVE Inv' /\ Contract!Ready
  BY <1>8, GetBegins
<1>9. ASSUME NEW id \in Ids, GetMissing(c, id) PROVE Inv' /\ Contract!Get(id)
  BY <1>9, GetFails
<1>. QED
  BY <1>1, <1>2, <1>3, <1>4, <1>5, <1>6, <1>7, <1>8, <1>9 DEF Call, Contract!Next

(* What no query answers goes on as the contract says.                     *)
LEMMA ContinueKeeps ==
  ASSUME TypeOK, TypeOK', Inv, Careful, NEW c \in Clients, Continue(c)
  PROVE  /\ Inv'
         /\ Contract!Next \/ UNCHANGED Contract!vars \/ QueryAnswer(c)
<1>1. CASE PutCatalog(c)
  BY <1>1, PutEnds DEF Contract!Next
<1>2. CASE UpdateDoc(c)
  BY <1>2, UpdateWrites
<1>3. CASE UpdateCatalog(c)
  BY <1>3, UpdateEnds DEF Contract!Next
<1>4. CASE PatchDocs(c)
  BY <1>4, PatchWrites
<1>5. CASE PatchThrows(c)
  BY <1>5, PatchThrowsKeeps DEF Contract!Next
<1>6. CASE PatchCatalog(c)
  BY <1>6, PatchEnds DEF Contract!Next
<1>7. CASE RemoveDoc(c)
  BY <1>7, RemoveWrites DEF Contract!Next
<1>8. CASE RemoveCatalog(c)
  BY <1>8, RemoveEnds DEF Contract!Next
<1>9. CASE QueryAnswer(c)
  BY <1>9, QueryKeeps
<1>10. CASE SaveDocs(c)
  BY <1>10, SaveEnds DEF Contract!Next
<1>11. CASE GetAnswer(c)
  BY <1>11, GetEnds DEF Contract!Next
<1>. QED
  BY <1>1, <1>2, <1>3, <1>4, <1>5, <1>6, <1>7, <1>8, <1>9, <1>10, <1>11
     DEF Continue

(* Where nothing happens, what held goes on to hold.                       *)
LEMMA StutterKeeps ==
  ASSUME Inv, UNCHANGED vars PROVE Inv' /\ UNCHANGED Contract!vars
<1>1. UNCHANGED <<docs, catalog, indexed, ready, job, saved, clock, answer, settled>>
  BY DEF vars
<1>2. Whole => Whole'
  BY <1>1 DEF Whole, AgreesFor
<1>3. \A id \in Ids : Elsewhere(id) => Elsewhere(id)'
  BY <1>1 DEF Elsewhere, AgreesFor
<1>4. ASSUME NEW now \in Jobs, Patching(now) PROVE Patching(now)'
  BY <1>1, <1>4 DEF Patching, AgreesFor, Along
<1>5. ASSUME NEW now \in Jobs, Mid(now) PROVE Mid(now)'
  <2>1. /\ now.op \in {"put", "updated", "removed"} => now.id \in Ids
    BY JobShapes DEF PutJob, UpdatedJob, RemoveJob
  <2>. QED  BY <1>1, <1>2, <1>3, <1>4, <1>5, <2>1 DEF Mid
<1>. QED  BY <1>1, <1>2, <1>5 DEF Inv, SavedAgrees, Quiet, Contract!vars

(* Every step keeps the invariant, and what it does, but for the answer of *)
(* a query, is a step of the contract or none.                             *)
LEMMA NextKeeps ==
  ASSUME TypeOK, TypeOK', Inv, Careful, [Next]_vars
  PROVE  /\ Inv'
         /\ \/ Contract!Next \/ UNCHANGED Contract!vars
            \/ \E c \in Clients : QueryAnswer(c)
<1>1. ASSUME NEW specs \in Specs, Initialize(specs) PROVE Inv' /\ UNCHANGED Contract!vars
  BY <1>1, InitializeKeeps
<1>2. ASSUME NEW read \in BadSpecs, InitializeFails(read) PROVE Inv' /\ UNCHANGED Contract!vars
  BY <1>2, InitializeFailsKeeps
<1>3. CASE Restart
  BY <1>3, RestartKeeps DEF Contract!Next
<1>4. CASE Tick
  BY <1>4, TickKeeps DEF Contract!Next
<1>5. CASE UNCHANGED vars
  BY <1>5, StutterKeeps
<1>. QED
  BY <1>1, <1>2, <1>3, <1>4, <1>5, CallKeeps, ContinueKeeps DEF Next

(* At first there are no records and no calls.                             *)
LEMMA InitWhole == Init => Inv
<1>. SUFFICES ASSUME Init PROVE Inv
  OBVIOUS
<1>1. /\ docs = [id \in Ids |-> None] /\ catalog = Empty /\ ready = FALSE
      /\ saved.catalog = Empty /\ saved.docs = docs
      /\ \A c \in Clients : job[c] = Idle
      /\ settled = Held(catalog, docs)
  BY DEF Init
<1>2. ASSUME NEW id \in Ids, NEW specs PROVE AgreesAt(catalog, docs, specs, id)
  BY <1>1 DEF Empty, AgreesAt, ListedAt
<1>3. Whole
  BY <1>1, <1>2 DEF Whole, AgreesFor
<1>4. SavedAgrees
  BY <1>1, <1>2 DEF SavedAgrees
<1>5. settled \in [Ids -> Record \cup {None}]
  BY <1>1 DEF Held, Stored, Empty
<1>. QED  BY <1>1, <1>3, <1>4, <1>5 DEF Inv

(* With one call at a time, the catalog and the documents are what the     *)
(* step that each call has come to makes of them (Mid), and what was saved *)
(* agrees with itself.                                                     *)
THEOREM AutomergeInvariant == ASSUME Careful PROVE Spec => []Inv
<1>1. TypeOK /\ TypeOK' /\ Inv /\ [Next]_vars => Inv'
  BY NextKeeps
<1>. QED  BY <1>1, InitWhole, AutomergeTyped, PTL DEF Spec

(* Between calls the catalog says of each document what is in it, however  *)
(* calls, saves and new processes follow each other.                       *)
THEOREM CatalogStaysAgreed == ASSUME Careful PROVE Spec => []CatalogAgrees
<1>1. Inv => CatalogAgrees
  <2>. SUFFICES ASSUME Inv, Quiet, ready PROVE Agrees(catalog, docs, indexed)
    BY DEF CatalogAgrees
  <2>1. Whole /\ indexed \in Specs
    BY DEF Inv
  <2>2. \A id \in Ids : AgreesAt(catalog, docs, indexed, id)
    BY <2>1 DEF Whole, AgreesFor
  <2>. QED  BY <2>2, AgreesEverywhere
<1>. QED  BY <1>1, AutomergeInvariant, PTL

(* Between calls a query that does not ask for null finds exactly the      *)
(* records of its types that match its filters.                            *)
THEOREM AutomergeQueriesExact == ASSUME Careful, PlainQueries PROVE Spec => []QueriesExact
<1>1. TypeOK /\ Inv => QueriesExact
  <2>. SUFFICES ASSUME TypeOK, Inv, Quiet, ready, NEW query \in Queries
                PROVE  Found(query, catalog, docs) = Selected(query)
    BY DEF QueriesExact
  <2>1. Whole /\ indexed \in Specs
    BY DEF Inv
  <2>2. \A id \in Ids : AgreesAt(catalog, docs, indexed, id)
    BY <2>1 DEF Whole, AgreesFor
  <2>. QED  BY <2>2, FoundIsSelected
<1>. QED  BY <1>1, AutomergeInvariant, AutomergeTyped, PTL

(* With one call at a time, each call acts on the records as if it were    *)
(* one step of the service, and a new process starts from those that were  *)
(* saved.                                                                  *)
THEOREM AutomergeImplements ==
  ASSUME Careful, PlainQueries PROVE Spec => ImplementsPersistence
<1>1. Init => Contract!Init
  BY DEF Init, Contract!Init, Held, Stored, Empty
<1>2. ASSUME TypeOK, TypeOK', Inv, [Next]_vars
      PROVE  [Contract!Next]_Contract!vars
  <2>1. ASSUME NEW c \in Clients, QueryAnswer(c) PROVE Contract!Next
    BY <1>2, <2>1, QueryAnswers DEF Contract!Next
  <2>. QED  BY <1>2, <2>1, NextKeeps
<1>. QED
  BY <1>1, <1>2, AutomergeTyped, AutomergeInvariant, PTL
     DEF Spec, ImplementsPersistence, Contract!Spec
=============================================================================
