----------------------------- MODULE Persistence -----------------------------
(***************************************************************************)
(* What a storage backend promises the Store: the service Persistence of   *)
(* packages/core/src/persistence.ts as its callers see it, a set of        *)
(* records on which every call acts in one step.  The backends are shown   *)
(* to implement it.  How a filter compares with null and with a field that *)
(* is missing is left open by the service, and differs between them.       *)
(***************************************************************************)
EXTENDS Records, SequencesExt

CONSTANTS
  PutData,      \* the data callers put and update with
  Queries,      \* the queries callers ask
  PatchCalls,   \* the lists of patches callers pass
  MaxTime,      \* bound of the clock
  Meets(_, _),  \* data meets all of a list of filters
  Refuses(_),   \* the backend may fail on a list of filters
  RefusesWindow(_, _)  \* it may fail on an offset with a limit

VARIABLES
  records,      \* id -> its record, or None
  clock,        \* seconds, as nowUnix() reads them
  answer,       \* of the last call
  saved         \* the records that a new process starts from

vars == <<records, clock, answer, saved>>

Init ==
  /\ records = [id \in Ids |-> None] /\ saved = records
  /\ clock = 0 /\ answer = <<"none">>

(* What a call does to the records, if it is carried out.                  *)
Stores(id, type, data) ==
  records' = [records EXCEPT ![id] = [type |-> type, data |-> data, created |-> clock]]

Changes(id, type, data) ==
  records' = [records EXCEPT ![id].type = type, ![id].data = data]

Removes(id) == records' = [records EXCEPT ![id] = None]

(* "Insert a new record": an id that is taken is refused or overwritten.   *)
Put(id, type, data) ==
  /\ \/ Stores(id, type, data) /\ answer' = <<"stored", id>>
     \/ records[id] # None /\ answer' = <<"failed">> /\ UNCHANGED records
  /\ UNCHANGED <<clock, saved>>

(* "Update a record's type and data", which fails if there is none.        *)
Update(id, type, data) ==
  /\ IF records[id] = None
     THEN answer' = <<"failed">> /\ UNCHANGED records
     ELSE Changes(id, type, data) /\ answer' = <<"updated", id>>
  /\ UNCHANGED <<clock, saved>>

(* "Merge-patch records matching the given types and optional filters":    *)
(* the patches of a call are applied in their order.                       *)
Touched(current, entry) ==
  {id \in Ids : /\ current[id] # None /\ current[id].type = entry.type
                /\ Meets(current[id].data, entry.filters)}

PatchOne(current, entry) ==
  [id \in Ids |-> IF id \in Touched(current.records, entry)
                  THEN [current.records[id] EXCEPT !.data = Merge(@, entry.patch)]
                  ELSE current.records[id]]

Patched(call) ==
  LET apply(current, entry) ==
        [records |-> PatchOne(current, entry),
         count   |-> current.count + Cardinality(Touched(current.records, entry))]
  IN  FoldLeft(apply, [records |-> records, count |-> 0], call)

(* "Implementations should execute atomically": all of it, or nothing.     *)
Patch(call) ==
  /\ \/ /\ records' = Patched(call).records
        /\ answer' = <<"patched", Patched(call).count>>
     \/ /\ \E i \in DOMAIN call : Refuses(call[i].filters)
        /\ answer' = <<"failed">> /\ UNCHANGED records
  /\ UNCHANGED <<clock, saved>>

(* "Delete a record by ID", which may be absent.                           *)
RemoveOne(id) ==
  /\ Removes(id)
  /\ answer' = <<"done">>
  /\ UNCHANGED <<clock, saved>>

(* "Fetch a single record by ID. Returns null if not found."               *)
Get(id) ==
  /\ answer' = <<"record", id, records[id]>>
  /\ UNCHANGED <<records, clock, saved>>

(* "Query records by type(s) with optional field-level filters."           *)
Selected(query) ==
  {id \in Ids : /\ records[id] # None /\ records[id].type \in query.types
                /\ Meets(records[id].data, query.filters)}

(* The i-th row of an answer is the one that has offset + i - 1 before it. *)
Page(order, size, offset, limit) ==
  LET left == IF size > offset THEN size - offset ELSE 0
      rows == IF limit = None \/ limit > left THEN left ELSE limit
  IN  [i \in 1..rows |-> order[offset + i]]

Ask(query) ==
  LET found == Selected(query) IN
  /\ \/ \E order \in Orders(found, [id \in found |-> records[id].created]) :
          answer' = <<"rows", query, Page(order, Cardinality(found), query.offset, query.limit)>>
     \/ /\ Refuses(query.filters) \/ RefusesWindow(query.offset, query.limit)
        /\ answer' = <<"failed">>
  /\ UNCHANGED <<records, clock, saved>>

Tick == clock < MaxTime /\ clock' = clock + 1 /\ UNCHANGED <<records, answer, saved>>

(* Another call begins, whose answer is still to come.                     *)
Ready == answer' = <<"none">> /\ UNCHANGED <<records, clock, saved>>

(* A backend that is saved as a whole and loaded by the next process.      *)
Save == saved' = records /\ UNCHANGED <<records, clock, answer>>

Restore == records' = saved /\ UNCHANGED <<clock, answer, saved>>

Next ==
  \/ \E id \in Ids, type \in Types, data \in PutData :
       Put(id, type, data) \/ Update(id, type, data)
  \/ \E call \in PatchCalls : Patch(call)
  \/ \E id \in Ids : RemoveOne(id) \/ Get(id)
  \/ \E query \in Queries : Ask(query)
  \/ Tick \/ Ready \/ Save \/ Restore

Spec == Init /\ [][Next]_vars

(* The records change by the whole of one call.                            *)
WholeCall ==
  \/ \E id \in Ids, type \in Types, data \in PutData :
       Stores(id, type, data) \/ (records[id] # None /\ Changes(id, type, data))
  \/ \E call \in PatchCalls : records' = Patched(call).records
  \/ \E id \in Ids : Removes(id)

(* The service between several callers: whenever the records change, they  *)
(* do so by the whole of one call.                                         *)
WholeCalls == [][WholeCall]_records
=============================================================================
