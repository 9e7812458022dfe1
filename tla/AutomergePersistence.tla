------------------------- MODULE AutomergePersistence -------------------------
(***************************************************************************)
(* automergePersistenceLayer                                               *)
(* (packages/automerge/src/automerge-persistence.ts): one document per     *)
(* entity for its data, and one catalog document for everything else.      *)
(*                                                                         *)
(* A client is a fiber making one call at a time.  A call reads and writes *)
(* the two references in turn; `uninterruptible` keeps a call from ending  *)
(* half way, not other fibers from running in between, which the runtime   *)
(* lets them do when a fiber has taken many steps (Preempts).  Within one  *)
(* effect nothing else runs: that is why patch keeps the thread while it   *)
(* goes through its entries, until it yields the changed documents.        *)
(***************************************************************************)
EXTENDS FieldIndexes

CONSTANTS
  Clients,
  Specs,        \* what initialize is called with: sets of <<type, field>>
  BadSpecs,     \* what it read of such a list before an invalid name
  PutData,      \* the data callers put and update with
  Queries,      \* the queries callers ask
  PatchCalls,   \* the lists of patches callers pass
  Preempts,     \* TRUE: fibers switch between the effects of a call
  Retypes,      \* callers put with an id whose record is of another type
  Saves,        \* the application calls saveState
  MaxTime       \* bound of the clock

ASSUME CallsAssumption ==
  /\ Specs \subseteq SUBSET (Types \X Fields)
  /\ BadSpecs \subseteq SUBSET (Types \X Fields)
  /\ PutData \subseteq Data /\ Queries \subseteq Query
  /\ PatchCalls \subseteq Seq(TypePatch)
  /\ Preempts \in BOOLEAN /\ Retypes \in BOOLEAN /\ Saves \in BOOLEAN

VARIABLES
  docs,      \* id -> the data of its document, or None
  catalog,   \* entries, byType and fieldIndexes of the catalog document
  indexed,   \* indexLookup and typeIndexes: the <<type, field>> with an index
  ready,     \* initialize has succeeded
  job,       \* client -> the call it is in the middle of
  saved,     \* what saveState returned last: a catalog and documents
  clock, answer,
  settled    \* auxiliary: the records when no call was in the middle

state == <<docs, catalog>>
vars == <<docs, catalog, indexed, ready, job, saved, clock, answer, settled>>

CatalogEntry == [type : Types, created : Nat, keys : SUBSET (Names \X Texts \X Ids)]

Catalog == [entries : [Ids -> CatalogEntry \cup {None}],
            byType  : SUBSET (Types \X Ids),
            index   : SUBSET (Names \X Texts \X Ids)]

Idle == [op |-> "idle"]

Jobs ==
  {Idle}
  \cup [op : {"put"}, id : Ids, type : Types, created : Nat, keys : SUBSET (Names \X Texts \X Ids)]
  \cup [op : {"update"}, id : Ids, type : Types, data : PutData, old : CatalogEntry]
  \cup [op : {"updated"}, id : Ids, type : Types, old : CatalogEntry, keys : SUBSET (Names \X Texts \X Ids)]
  \cup [op : {"patch", "patching"}, left : Seq(TypePatch), seen : Catalog,
        done : Seq(UNION {[S -> Data] : S \in SUBSET Ids}), count : Nat]
  \cup [op : {"remove", "removed"}, id : Ids, old : CatalogEntry \cup {None}]
  \cup [op : {"query"}, query : Queries, seen : Catalog]
  \cup [op : {"get"}, id : Ids, seen : Catalog]
  \cup [op : {"save"}, seen : Catalog]

Snapshot == [catalog : Catalog, docs : [Ids -> Data \cup {None}]]

ASSUME NoneAssumption == None \notin Data /\ None \notin CatalogEntry

(* The variables keep their types.                                         *)
TypeOK ==
  /\ docs \in [Ids -> Data \cup {None}]
  /\ catalog \in Catalog
  /\ indexed \subseteq Types \X Fields
  /\ ready \in BOOLEAN
  /\ job \in [Clients -> Jobs]
  /\ saved \in Snapshot
  /\ clock \in Nat

Empty == [entries |-> [id \in Ids |-> None], byType |-> {}, index |-> {}]

(* The record of an id, if it has an entry and a document.                 *)
Stored(entries, data, id) ==
  IF entries[id] = None \/ data[id] = None THEN None
  ELSE [type |-> entries[id].type, data |-> data[id], created |-> entries[id].created]

Held(cat, data) == [id \in Ids |-> Stored(cat.entries, data, id)]

Init ==
  /\ docs = [id \in Ids |-> None] /\ catalog = Empty
  /\ indexed = {} /\ ready = FALSE
  /\ job = [c \in Clients |-> Idle]
  /\ saved = [catalog |-> Empty, docs |-> docs]
  /\ clock = 0 /\ answer = <<"none">>
  /\ settled = Held(Empty, docs)

Quiet == \A c \in Clients : job[c] = Idle

(* A patch goes through its entries without an effect between them.        *)
KeepsThread(c) == job[c].op = "patching" /\ job[c].left # <<>>

(* No other fiber keeps the thread.                                        *)
MayRun(c) == \A d \in Clients \ {c} : job[d] = Idle \/ (Preempts /\ ~ KeepsThread(d))

MayBegin(c) == ready /\ job[c] = Idle /\ MayRun(c)

In(c, op) == job[c].op = op /\ MayRun(c)

Goto(c, next) == job' = [job EXCEPT ![c] = next] /\ UNCHANGED settled

(* A call begins: its caller has no answer yet.                            *)
Begin(c, call) == Goto(c, call) /\ answer' = <<"none">>

(* A call ends in this step, after its last write.                         *)
Leave(c) ==
  /\ job' = [job EXCEPT ![c] = Idle]
  /\ settled' = IF Quiet' THEN Held(catalog', docs') ELSE settled

Finish(c, reply) == Leave(c) /\ answer' = reply

-----------------------------------------------------------------------------
(* initialize: the indexes that are no longer asked for are deleted, those *)
(* that are new start empty.                                               *)

NamesOf(specs) == {IndexName[pair[1]][pair[2]] : pair \in specs}

Initialize(specs) ==
  /\ Quiet
  /\ indexed' = specs /\ ready' = TRUE
  /\ catalog' = [catalog EXCEPT !.index = {entry \in @ : entry[1] \in NamesOf(specs)}]
  /\ UNCHANGED <<docs, job, saved, clock, answer, settled>>

(* A name the check refuses: what came before it stays configured, and the *)
(* catalog is as it was.                                                   *)
InitializeFails(read) ==
  /\ Quiet
  /\ indexed' = read /\ ready' = FALSE
  /\ UNCHANGED <<state, job, saved, clock, answer, settled>>

(* Mutated: the documents are loaded, the catalog is not.                  *)
RestartDocsOnly ==
  /\ docs' = saved.docs /\ catalog' = Empty
  /\ indexed' = {} /\ ready' = FALSE
  /\ job' = [c \in Clients |-> Idle]
  /\ settled' = Held(Empty, saved.docs)
  /\ UNCHANGED <<saved, clock, answer>>

(* A new process: the layer fromSaved.                                     *)
Restart ==
  /\ docs' = saved.docs /\ catalog' = saved.catalog
  /\ indexed' = {} /\ ready' = FALSE
  /\ job' = [c \in Clients |-> Idle]
  /\ settled' = Held(saved.catalog, saved.docs)
  /\ UNCHANGED <<saved, clock, answer>>

-----------------------------------------------------------------------------
PutDoc(c, id, type, data) ==
  /\ MayBegin(c)
  /\ catalog.entries[id] # None => (Retypes \/ catalog.entries[id].type = type)
  /\ docs' = [docs EXCEPT ![id] = data]
  /\ Begin(c, [op |-> "put", id |-> id, type |-> type, created |-> clock,
               keys |-> Entries(indexed, id, type, data)])
  /\ UNCHANGED <<catalog, indexed, ready, saved, clock>>

PutCatalog(c) ==
  LET put == job[c] IN
  /\ In(c, "put")
  /\ catalog' = [entries |-> [catalog.entries EXCEPT ![put.id] =
                    [type |-> put.type, created |-> put.created, keys |-> put.keys]],
                 byType  |-> catalog.byType \cup {<<put.type, put.id>>},
                 index   |-> catalog.index \cup put.keys]
  /\ UNCHANGED <<docs, indexed, ready, saved, clock>>
  /\ Finish(c, <<"stored", put.id>>)

UpdateRead(c, id, type, data) ==
  /\ MayBegin(c) /\ catalog.entries[id] # None
  /\ Begin(c, [op |-> "update", id |-> id, type |-> type, data |-> data,
               old |-> catalog.entries[id]])
  /\ UNCHANGED <<state, indexed, ready, saved, clock>>

UpdateMissing(c, id) ==
  /\ MayBegin(c) /\ catalog.entries[id] = None
  /\ UNCHANGED <<state, indexed, ready, saved, clock>>
  /\ Finish(c, <<"failed">>)

UpdateDoc(c) ==
  LET update == job[c] IN
  /\ In(c, "update")
  /\ docs' = IF docs[update.id] = None THEN docs
             ELSE [docs EXCEPT ![update.id] = update.data]
  /\ Goto(c, [op |-> "updated", id |-> update.id, type |-> update.type, old |-> update.old,
              keys |-> Entries(indexed, update.id, update.type, update.data)])
  /\ UNCHANGED <<catalog, indexed, ready, saved, clock, answer>>

(* Mutated: the entries of the old values are left in the indexes, and an  *)
(* id that changes its type stays under the old one.                       *)
UpdateCatalogInPlace(c) ==
  LET update == job[c]
      entry == catalog.entries[update.id]
  IN
  /\ In(c, "updated")
  /\ catalog' = IF entry = None THEN catalog
       ELSE [entries |-> [catalog.entries EXCEPT ![update.id] =
                [type |-> update.type, created |-> entry.created, keys |-> update.keys]],
             byType  |-> catalog.byType \cup {<<update.type, update.id>>},
             index   |-> catalog.index \cup update.keys]
  /\ UNCHANGED <<docs, indexed, ready, saved, clock>>
  /\ Finish(c, <<"updated", update.id>>)

UpdateCatalog(c) ==
  LET update == job[c]
      entry == catalog.entries[update.id]
  IN
  /\ In(c, "updated")
  /\ catalog' = IF entry = None THEN catalog
       ELSE [entries |-> [catalog.entries EXCEPT ![update.id] =
                [type |-> update.type, created |-> entry.created, keys |-> update.keys]],
             byType  |-> (catalog.byType \ {<<entry.type, update.id>>})
                         \cup {<<update.type, update.id>>},
             index   |-> (catalog.index \ update.old.keys) \cup update.keys]
  /\ UNCHANGED <<docs, indexed, ready, saved, clock>>
  /\ Finish(c, <<"updated", update.id>>)

-----------------------------------------------------------------------------
(* patch: the catalog as it was read lists the candidates; the documents   *)
(* are changed entry by entry, the catalog at the end.                     *)

PatchRead(c, call) ==
  /\ MayBegin(c) /\ call # <<>>
  /\ Begin(c, [op |-> "patch", left |-> call, seen |-> catalog, done |-> <<>>, count |-> 0])
  /\ UNCHANGED <<state, indexed, ready, saved, clock>>

PatchNothing(c, call) ==
  /\ MayBegin(c) /\ call = <<>>
  /\ UNCHANGED <<state, indexed, ready, saved, clock>>
  /\ Finish(c, <<"patched", 0>>)

Candidates(seen, type) ==
  {id \in Ids : <<type, id>> \in seen.byType /\ seen.entries[id] # None /\ docs[id] # None}

PatchDocs(c) ==
  LET patch == job[c]
      entry == Head(patch.left)
      hits == {id \in Candidates(patch.seen, entry.type) : MatchesAll(docs[id], entry.filters)}
      patched == [id \in hits |-> Merge(docs[id], entry.patch)]
  IN
  /\ In(c, "patch") \/ In(c, "patching")
  /\ patch.left # <<>>
  /\ \A id \in Candidates(patch.seen, entry.type) : ~ Throws(docs[id], entry.filters)
  /\ docs' = [id \in Ids |-> IF id \in hits THEN patched[id] ELSE docs[id]]
  /\ Goto(c, [patch EXCEPT !.op = "patching", !.left = Tail(@), !.done = Append(@, patched),
                            !.count = @ + Cardinality(hits)])
  /\ UNCHANGED <<catalog, indexed, ready, saved, clock, answer>>

(* A filter throws: the documents changed so far keep their new data, and  *)
(* the catalog is not told.                                                *)
PatchThrows(c) ==
  LET patch == job[c]
      entry == Head(patch.left)
  IN
  /\ In(c, "patch") \/ In(c, "patching")
  /\ patch.left # <<>>
  /\ \E id \in Candidates(patch.seen, entry.type) : Throws(docs[id], entry.filters)
  /\ UNCHANGED <<state, indexed, ready, saved, clock>>
  /\ Finish(c, <<"failed">>)

(* The entries are replaced one patched document after the other, each     *)
(* time from the keys in the catalog as it was read: of a document patched *)
(* twice, keys of the first patch that were not there before remain.       *)
PatchCatalog(c) ==
  LET patch == job[c]
      IdsDone == {id \in Ids : /\ catalog.entries[id] # None
                               /\ \E i \in DOMAIN patch.done : id \in DOMAIN patch.done[i]}
      KeysAt(i, id) == Entries(indexed, id, patch.seen.entries[id].type, patch.done[i][id])
      Rounds(id) == {i \in DOMAIN patch.done : id \in DOMAIN patch.done[i]}
      Last(id) == CHOOSE i \in Rounds(id) : \A j \in Rounds(id) : j <= i
      old == UNION {patch.seen.entries[id].keys : id \in IdsDone}
      passing == UNION {UNION {KeysAt(i, id) : i \in Rounds(id)} : id \in IdsDone}
      new == UNION {KeysAt(Last(id), id) : id \in IdsDone}
  IN
  /\ In(c, "patching") /\ patch.left = <<>>
  /\ catalog' = [catalog EXCEPT
       !.entries = [id \in Ids |-> IF id \in IdsDone
                                   THEN [@[id] EXCEPT !.keys = KeysAt(Last(id), id)] ELSE @[id]],
       !.index = ((@ \cup passing) \ old) \cup new]
  /\ UNCHANGED <<docs, indexed, ready, saved, clock>>
  /\ Finish(c, <<"patched", patch.count>>)

-----------------------------------------------------------------------------
RemoveRead(c, id) ==
  /\ MayBegin(c)
  /\ Begin(c, [op |-> "remove", id |-> id, old |-> catalog.entries[id]])
  /\ UNCHANGED <<state, indexed, ready, saved, clock>>

RemoveDoc(c) ==
  /\ In(c, "remove")
  /\ docs' = [docs EXCEPT ![job[c].id] = None]
  /\ UNCHANGED <<catalog, indexed, ready, saved, clock>>
  /\ IF job[c].old = None THEN Finish(c, <<"done">>)
     ELSE Goto(c, [job[c] EXCEPT !.op = "removed"]) /\ UNCHANGED answer

RemoveCatalog(c) ==
  LET remove == job[c] IN
  /\ In(c, "removed")
  /\ catalog' = [entries |-> [catalog.entries EXCEPT ![remove.id] = None],
                 byType  |-> catalog.byType \ {<<remove.old.type, remove.id>>},
                 index   |-> catalog.index \ remove.old.keys]
  /\ UNCHANGED <<docs, indexed, ready, saved, clock>>
  /\ Finish(c, <<"done">>)

-----------------------------------------------------------------------------
(* get: the entry as it was read, and the document of a moment later.      *)

GetMissing(c, id) ==
  /\ MayBegin(c) /\ catalog.entries[id] = None
  /\ UNCHANGED <<state, indexed, ready, saved, clock>>
  /\ Finish(c, <<"record", id, None>>)

GetRead(c, id) ==
  /\ MayBegin(c) /\ catalog.entries[id] # None
  /\ Begin(c, [op |-> "get", id |-> id, seen |-> catalog])
  /\ UNCHANGED <<state, indexed, ready, saved, clock>>

GetAnswer(c) ==
  LET get == job[c] IN
  /\ In(c, "get")
  /\ UNCHANGED <<state, indexed, ready, saved, clock>>
  /\ Finish(c, <<"record", get.id, Stored(get.seen.entries, docs, get.id)>>)

(* query: the catalog as it was read, and the documents of a moment later. *)

(* Mutated: what an index found is not compared with the filter again.     *)
FoundByIndex(query, cat, data) ==
  {id \in Narrowed(query, indexed, cat.byType, cat.index) :
     /\ Stored(cat.entries, data, id) # None
     /\ \A i \in DOMAIN query.filters :
          Narrows(indexed, query.filters[i], query.types) \/ Matches(data[id], query.filters[i])}

Found(query, cat, data) ==
  {id \in Narrowed(query, indexed, cat.byType, cat.index) :
     Stored(cat.entries, data, id) # None /\ MatchesAll(data[id], query.filters)}

QueryRead(c, query) ==
  /\ MayBegin(c)
  /\ Begin(c, [op |-> "query", query |-> query, seen |-> catalog])
  /\ UNCHANGED <<state, indexed, ready, saved, clock>>

(* Mutated: the rows are cut by the limit before the offset.               *)
QueryAnswerLimitFirst(c) ==
  LET query == job[c].query
      seen == job[c].seen
      found == Found(query, seen, docs)
      created == [id \in found |-> seen.entries[id].created]
  IN
  /\ In(c, "query")
  /\ UNCHANGED <<state, indexed, ready, saved, clock>>
  /\ IF \E id \in Narrowed(query, indexed, seen.byType, seen.index) :
          Stored(seen.entries, docs, id) # None /\ Throws(docs[id], query.filters)
     THEN Finish(c, <<"failed">>)
     ELSE \E result \in Windows(found, created, [query EXCEPT !.offset = 0]) :
            Finish(c, <<"rows", query, SubSeq(result, query.offset + 1, Len(result))>>)

QueryAnswer(c) ==
  LET query == job[c].query
      seen == job[c].seen
      found == Found(query, seen, docs)
      created == [id \in found |-> seen.entries[id].created]
  IN
  /\ In(c, "query")
  /\ UNCHANGED <<state, indexed, ready, saved, clock>>
  /\ IF \E id \in Narrowed(query, indexed, seen.byType, seen.index) :
          Stored(seen.entries, docs, id) # None /\ Throws(docs[id], query.filters)
     THEN Finish(c, <<"failed">>)
     ELSE \E result \in Windows(found, created, query) : Finish(c, <<"rows", query, result>>)

SaveRead(c) ==
  /\ Saves /\ MayBegin(c)
  /\ Begin(c, [op |-> "save", seen |-> catalog])
  /\ UNCHANGED <<state, indexed, ready, saved, clock>>

SaveDocs(c) ==
  /\ In(c, "save")
  /\ saved' = [catalog |-> job[c].seen, docs |-> docs]
  /\ UNCHANGED <<state, indexed, ready, clock, answer>>
  /\ Leave(c)

Tick ==
  /\ Quiet /\ clock < MaxTime /\ clock' = clock + 1
  /\ UNCHANGED <<state, indexed, ready, job, saved, answer, settled>>

Call(c) ==
  \/ \E id \in Ids, type \in Types, data \in PutData :
       PutDoc(c, id, type, data) \/ UpdateRead(c, id, type, data) \/ UpdateMissing(c, id)
  \/ \E id \in Ids : RemoveRead(c, id) \/ GetMissing(c, id) \/ GetRead(c, id)
  \/ \E call \in PatchCalls : PatchRead(c, call) \/ PatchNothing(c, call)
  \/ \E query \in Queries : QueryRead(c, query)
  \/ SaveRead(c)

Continue(c) ==
  \/ PutCatalog(c) \/ UpdateDoc(c) \/ UpdateCatalog(c)
  \/ PatchDocs(c) \/ PatchThrows(c) \/ PatchCatalog(c)
  \/ RemoveDoc(c) \/ RemoveCatalog(c) \/ GetAnswer(c) \/ QueryAnswer(c) \/ SaveDocs(c)

Next ==
  \/ \E specs \in Specs : Initialize(specs)
  \/ \E read \in BadSpecs : InitializeFails(read)
  \/ Restart \/ Tick
  \/ \E c \in Clients : Call(c) \/ Continue(c)

Spec == Init /\ [][Next]_vars

-----------------------------------------------------------------------------
(* The catalog says of a set of documents what is in them: every entry has *)
(* its document and every document its entry, an entry is listed under its *)
(* type alone, and its keys are those of the document's data.              *)
Agrees(cat, data, specs) ==
  \A id \in Ids :
    /\ cat.entries[id] = None <=> data[id] = None
    /\ \A type \in Types : <<type, id>> \in cat.byType
         <=> cat.entries[id] # None /\ cat.entries[id].type = type
    /\ cat.entries[id] # None =>
         /\ cat.entries[id].keys = Entries(specs, id, cat.entries[id].type, data[id])
         /\ cat.entries[id].keys \subseteq cat.index

(* Between calls the catalog agrees with the documents: put, update, patch *)
(* and remove (312-361, 495-694) write one after the other and leave none  *)
(* of them behind.                                                         *)
CatalogAgrees == Quiet /\ ready => Agrees(catalog, docs, indexed)

(* The records of its types that match its filters.                        *)
Selected(query) ==
  {id \in Ids : /\ Stored(catalog.entries, docs, id) # None
                /\ catalog.entries[id].type \in query.types
                /\ MatchesAll(docs[id], query.filters)}

(* A query between calls finds exactly the records of its types that match *)
(* its filters (389-493), also in a process that loaded a saved state.  Of *)
(* these MCAutomerge has the empty one; the theorem is about all, and      *)
(* MCAutomergeSaved checks the answers that such processes give.           *)
QueriesExact ==
  Quiet /\ ready => \A query \in Queries : Found(query, catalog, docs) = Selected(query)

(* Only a pattern that is no regular expression is refused.                *)
Refused(filters) ==
  \E i \in DOMAIN filters : filters[i].op = "like" /\ filters[i].value \in BadPatterns

NoWindow(offset, limit) == FALSE

Contract == INSTANCE Persistence WITH
  Meets <- MatchesAll, Refuses <- Refused, RefusesWindow <- NoWindow,
  records <- settled,
  saved   <- Held(saved.catalog, saved.docs)

(* With one call at a time, each call answers and changes the records as   *)
(* the service of packages/core/src/persistence.ts says it does (lines     *)
(* 76-121), as if it were one step, and a new process starts from the      *)
(* records that were there when saveState was called (719-727).            *)
ImplementsPersistence == Contract!Spec
=============================================================================
