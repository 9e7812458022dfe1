-------------------------- MODULE TinyBasePersistence --------------------------
(***************************************************************************)
(* tinybasePersistenceLayer (packages/tinybase/src/tinybase-persistence.ts)*)
(* with its tables `entities` and `byType`, kept in a TinyBase store, and  *)
(* its field indexes, kept in memory and rebuilt by initialize.            *)
(*                                                                         *)
(* No call awaits anything but the reference to the store, so each is one  *)
(* step; patch is one step per entry because an entry may throw after      *)
(* others were written.  A map of maps of ids is the set of its tuples: an *)
(* empty bucket and a missing one are the same.                            *)
(***************************************************************************)
EXTENDS FieldIndexes

CONSTANTS
  Specs,        \* what initialize is called with: sets of <<type, field>>
  BadSpecs,     \* what it read of such a list before an invalid name
  PutData,      \* the data callers put and update with
  Queries,      \* the queries callers ask
  PatchCalls,   \* the lists of patches callers pass
  Retypes,      \* callers put with an id whose record is of another type
  MaxTime       \* bound of the clock

ASSUME CallsAssumption ==
  /\ Specs \subseteq SUBSET (Types \X Fields)
  /\ BadSpecs \subseteq SUBSET (Types \X Fields)
  /\ PutData \subseteq Data /\ Queries \subseteq Query
  /\ PatchCalls \subseteq Seq(TypePatch)
  /\ Retypes \in BOOLEAN

VARIABLES
  rows,      \* the table entities: id -> its record, or None
  byType,    \* the table byType: <<type, id>>
  indexed,   \* indexLookup and typeIndexes: the <<type, field>> with an index
  index,     \* fieldIndexes: <<name, text, id>>
  ready,     \* initialize has succeeded
  patching,  \* the patch call that is running, or None
  clock, answer

tables == <<rows, byType>>
vars == <<rows, byType, indexed, index, ready, patching, clock, answer>>

Call == [entries : PatchCalls, left : Seq(TypePatch),
         before : [Ids -> Record \cup {None}], count : Nat]

ASSUME NoCallAssumption == None \notin Call

(* The variables keep their types.                                         *)
TypeOK ==
  /\ rows \in [Ids -> Record \cup {None}]
  /\ byType \subseteq Types \X Ids
  /\ indexed \subseteq Types \X Fields
  /\ index \subseteq Names \X Texts \X Ids
  /\ ready \in BOOLEAN
  /\ patching \in Call \cup {None}
  /\ clock \in Nat

EntriesOf(specs, table) ==
  UNION {Entries(specs, id, table[id].type, table[id].data) :
           id \in {i \in Ids : table[i] # None}}

Init ==
  /\ rows = [id \in Ids |-> None] /\ byType = {}
  /\ indexed = {} /\ index = {} /\ ready = FALSE
  /\ patching = None /\ clock = 0 /\ answer = <<"none">>

Initialize(specs) ==
  /\ patching = None
  /\ indexed' = specs /\ index' = EntriesOf(specs, rows) /\ ready' = TRUE
  /\ UNCHANGED <<tables, patching, clock, answer>>

(* A name the check refuses: what came before it stays configured, and the *)
(* indexes stay empty.  The layer of the Store that asked is not built.    *)
InitializeFails(read) ==
  /\ patching = None
  /\ indexed' = read /\ index' = {} /\ ready' = FALSE
  /\ UNCHANGED <<tables, patching, clock, answer>>

(* A new layer over the tables of an old one: fromStore.                   *)
Reopen ==
  /\ patching = None
  /\ indexed' = {} /\ index' = {} /\ ready' = FALSE
  /\ UNCHANGED <<tables, patching, clock, answer>>

Idle == ready /\ patching = None

Put(id, type, data) ==
  /\ Idle
  /\ rows[id] # None => (Retypes \/ rows[id].type = type)
  /\ rows' = [rows EXCEPT ![id] = [type |-> type, data |-> data, created |-> clock]]
  /\ byType' = byType \cup {<<type, id>>}
  /\ index' = index \cup Entries(indexed, id, type, data)
  /\ answer' = <<"stored", id>>
  /\ UNCHANGED <<indexed, ready, patching, clock>>

(* Mutated: the record gets a new time of creation.                        *)
UpdateRecreated(id, type, data) ==
  /\ Idle /\ rows[id] # None
  /\ rows' = [rows EXCEPT ![id] = [type |-> type, data |-> data, created |-> clock]]
  /\ byType' = (byType \ {<<rows[id].type, id>>}) \cup {<<type, id>>}
  /\ index' = (index \ Entries(indexed, id, rows[id].type, rows[id].data))
              \cup Entries(indexed, id, type, data)
  /\ answer' = <<"updated", id>>
  /\ UNCHANGED <<indexed, ready, patching, clock>>

Update(id, type, data) ==
  /\ Idle /\ rows[id] # None
  /\ rows' = [rows EXCEPT ![id] = [type |-> type, data |-> data, created |-> rows[id].created]]
  /\ byType' = (byType \ {<<rows[id].type, id>>}) \cup {<<type, id>>}
  /\ index' = (index \ Entries(indexed, id, rows[id].type, rows[id].data))
              \cup Entries(indexed, id, type, data)
  /\ answer' = <<"updated", id>>
  /\ UNCHANGED <<indexed, ready, patching, clock>>

UpdateMissing(id) ==
  /\ Idle /\ rows[id] = None
  /\ answer' = <<"failed">>
  /\ UNCHANGED <<tables, indexed, index, ready, patching, clock>>

-----------------------------------------------------------------------------
(* patch: the candidates of an entry are the ids listed under its type.    *)

PatchBegin(call) ==
  /\ Idle
  /\ patching' = [entries |-> call, left |-> call, before |-> rows, count |-> 0]
  /\ UNCHANGED <<tables, indexed, index, ready, clock, answer>>

Candidates(type) == {id \in Ids : <<type, id>> \in byType /\ rows[id] # None}

Hits(entry) == {id \in Candidates(entry.type) : MatchesAll(rows[id].data, entry.filters)}

(* Mutated: the new entries are added before the old ones are removed.     *)
PatchEntryAddingFirst ==
  LET entry == Head(patching.left)
      hits == Hits(entry)
      patched == [id \in hits |-> Merge(rows[id].data, entry.patch)]
      old == UNION {Entries(indexed, id, entry.type, rows[id].data) : id \in hits}
      new == UNION {Entries(indexed, id, entry.type, patched[id]) : id \in hits}
  IN
  /\ patching # None /\ patching.left # <<>>
  /\ \A id \in Candidates(entry.type) : ~ Throws(rows[id].data, entry.filters)
  /\ rows' = [id \in Ids |-> IF id \in hits THEN [rows[id] EXCEPT !.data = patched[id]]
                             ELSE rows[id]]
  /\ index' = (index \cup new) \ old
  /\ patching' = [patching EXCEPT !.left = Tail(@), !.count = @ + Cardinality(hits)]
  /\ UNCHANGED <<byType, indexed, ready, clock, answer>>

PatchEntry ==
  LET entry == Head(patching.left)
      hits == Hits(entry)
      patched == [id \in hits |-> Merge(rows[id].data, entry.patch)]
      old == UNION {Entries(indexed, id, entry.type, rows[id].data) : id \in hits}
      new == UNION {Entries(indexed, id, entry.type, patched[id]) : id \in hits}
  IN
  /\ patching # None /\ patching.left # <<>>
  /\ \A id \in Candidates(entry.type) : ~ Throws(rows[id].data, entry.filters)
  /\ rows' = [id \in Ids |-> IF id \in hits THEN [rows[id] EXCEPT !.data = patched[id]]
                             ELSE rows[id]]
  /\ index' = (index \ old) \cup new
  /\ patching' = [patching EXCEPT !.left = Tail(@), !.count = @ + Cardinality(hits)]
  /\ UNCHANGED <<byType, indexed, ready, clock, answer>>

(* A filter throws: what the entries before it wrote stays written.        *)
PatchThrows ==
  /\ patching # None /\ patching.left # <<>>
  /\ \E id \in Candidates(Head(patching.left).type) :
       Throws(rows[id].data, Head(patching.left).filters)
  /\ patching' = None /\ answer' = <<"failed">>
  /\ UNCHANGED <<tables, indexed, index, ready, clock>>

PatchEnd ==
  /\ patching # None /\ patching.left = <<>>
  /\ patching' = None /\ answer' = <<"patched", patching.count>>
  /\ UNCHANGED <<tables, indexed, index, ready, clock>>

RemoveOne(id) ==
  /\ Idle
  /\ rows' = [rows EXCEPT ![id] = None]
  /\ IF rows[id] = None THEN UNCHANGED <<byType, index>>
     ELSE /\ byType' = byType \ {<<rows[id].type, id>>}
          /\ index' = index \ Entries(indexed, id, rows[id].type, rows[id].data)
  /\ answer' = <<"done">>
  /\ UNCHANGED <<indexed, ready, patching, clock>>

-----------------------------------------------------------------------------
Get(id) ==
  /\ Idle
  /\ answer' = <<"record", id, rows[id]>>
  /\ UNCHANGED <<tables, indexed, index, ready, patching, clock>>

(* query: candidates of the types, narrowed by the indexed filters, then   *)
(* filtered by their data.                                                 *)

Found(query) ==
  {id \in Narrowed(query, indexed, byType, index) : rows[id] # None /\ MatchesAll(rows[id].data, query.filters)}

Ask(query) ==
  /\ Idle
  /\ IF \E id \in Narrowed(query, indexed, byType, index) : rows[id] # None /\ Throws(rows[id].data, query.filters)
     THEN answer' = <<"failed">>
     ELSE \E result \in Windows(Found(query), [id \in Found(query) |-> rows[id].created], query) :
            answer' = <<"rows", query, result>>
  /\ UNCHANGED <<tables, indexed, index, ready, patching, clock>>

Tick ==
  /\ patching = None /\ clock < MaxTime /\ clock' = clock + 1
  /\ UNCHANGED <<tables, indexed, index, ready, patching, answer>>

Next ==
  \/ \E specs \in Specs : Initialize(specs)
  \/ \E read \in BadSpecs : InitializeFails(read)
  \/ Reopen
  \/ \E id \in Ids, type \in Types, data \in PutData :
       Put(id, type, data) \/ Update(id, type, data) \/ UpdateMissing(id)
  \/ \E id \in Ids : RemoveOne(id) \/ Get(id)
  \/ \E call \in PatchCalls : PatchBegin(call)
  \/ PatchEntry \/ PatchThrows \/ PatchEnd
  \/ \E query \in Queries : Ask(query)
  \/ Tick

Spec == Init /\ [][Next]_vars

-----------------------------------------------------------------------------
(* The ids listed under a type are those of the records of that type, and  *)
(* every indexed value of a record is in the indexes: put, update, patch   *)
(* and remove (lines 267-567) keep three structures in step, and a failed  *)
(* initialize (222-265) is made good by the next one.                      *)
IndexesComplete ==
  /\ byType = {entry \in Types \X Ids : /\ rows[entry[2]] # None
                                        /\ rows[entry[2]].type = entry[1]}
  /\ ready => EntriesOf(indexed, rows) \subseteq index

(* The records of its types that match its filters.                        *)
Selected(query) ==
  {id \in Ids : /\ rows[id] # None /\ rows[id].type \in query.types
                /\ MatchesAll(rows[id].data, query.filters)}

(* Whatever was put, changed and removed before, and whichever fields have *)
(* an index, a query finds exactly the records of its types that match its *)
(* filters (query, 330-421): narrowing by an index loses none of them.     *)
QueriesExact == Idle => \A query \in Queries : Found(query) = Selected(query)

(* Only a pattern that is no regular expression is refused.                *)
Refused(filters) ==
  \E i \in DOMAIN filters : filters[i].op = "like" /\ filters[i].value \in BadPatterns

NoWindow(offset, limit) == FALSE

Contract == INSTANCE Persistence WITH
  Meets <- MatchesAll, Refuses <- Refused, RefusesWindow <- NoWindow,
  records <- IF patching = None THEN rows ELSE patching.before,
  saved   <- [id \in Ids |-> None]

(* Each call answers and changes the records as the service of             *)
(* packages/core/src/persistence.ts says it does (lines 76-121), as if it  *)
(* were one step; initialize and reopening change nothing a caller sees.   *)
ImplementsPersistence == Contract!Spec
=============================================================================
