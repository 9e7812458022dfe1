--------------------------- MODULE SqlPersistence ---------------------------
(***************************************************************************)
(* sqlPersistenceLayer (packages/sql/src/sql-persistence.ts) over a client *)
(* with one connection, such as that of sql-storage-client.ts in           *)
(* packages/cloudflare.                                                    *)
(*                                                                         *)
(* Each statement is awaited, and each is one step: the fibers of several  *)
(* callers interleave between their statements.  patch runs its statements *)
(* in a transaction, which holds the client's only permit; the statements  *)
(* of the others wait for it.  Only names matter of an index: answers are  *)
(* the database's, with or without one.                                    *)
(***************************************************************************)
EXTENDS Records, SequencesExt

CONSTANTS
  Clients,
  Names,        \* the names of indexes
  IndexName,    \* type -> field -> the name computeIndexSpecs gives
  Specs,        \* what initialize is called with: lists of <<type, field>>
  BadFields,    \* fields whose name validateFieldName refuses
  Indexes,      \* the indexes the database may have at the start
  PutData,      \* the data callers put and update with
  Queries,      \* the queries callers ask
  PatchCalls,   \* the lists of patches callers pass
  MaxTime       \* bound of the clock

ASSUME SqlAssumption ==
  /\ IndexName \in [Types -> [Fields -> Names]]
  /\ Specs \subseteq Seq(Types \X Fields) /\ BadFields \subseteq Fields
  /\ Indexes \subseteq SUBSET Names
  /\ PutData \subseteq Data /\ Queries \subseteq Query
  /\ PatchCalls \subseteq Seq(TypePatch)
  /\ None \notin Clients

VARIABLES
  table,     \* the table entities: id -> its record, or None
  indexes,   \* the names of its indexes, without the one on the type
  holder,    \* the client whose transaction has the permit, or None
  before,    \* what a rollback brings back: the table when it began
  job,       \* client -> the call it is in the middle of
  declared,  \* auxiliary: the names of the last initialize that succeeded
  clock, answer

vars == <<table, indexes, holder, before, job, declared, clock, answer>>

Idle == [op |-> "idle"]

Table == [Ids -> Record \cup {None}]

Jobs ==
  {Idle}
  \cup [op : {"put", "update"}, id : Ids]
  \cup [op : {"patch"}, left : Seq(TypePatch), count : Nat]
  \cup [op : {"create"}, left : Seq(Types \X Fields), expected : SUBSET Names]
  \cup [op : {"drop"}, stale : SUBSET Names, expected : SUBSET Names]

(* The variables keep their types.                                         *)
TypeOK ==
  /\ table \in Table /\ before \in Table
  /\ indexes \subseteq Names /\ declared \subseteq Names
  /\ holder \in Clients \cup {None}
  /\ job \in [Clients -> Jobs]
  /\ clock \in Nat

Init ==
  /\ table = [id \in Ids |-> None] /\ before = table
  /\ indexes \in Indexes /\ declared = {}
  /\ holder = None
  /\ job = [c \in Clients |-> Idle]
  /\ clock = 0 /\ answer = <<"none">>

-----------------------------------------------------------------------------
(* compileFilters: a comparison with NULL, which a null and a missing      *)
(* field both are, is never true.                                          *)
Matched(data, filter) ==
  LET value == data[filter.field] IN
  /\ value \notin {Null, Absent}
  /\ \/ filter.op = "eq" /\ value = filter.value
     \/ filter.op = "neq" /\ value # filter.value /\ filter.value # Null
     \/ filter.op = "in" /\ value \in filter.value
     \/ filter.op = "like" /\ <<value, filter.value>> \in Like

MatchedAll(data, filters) == \A i \in DOMAIN filters : Matched(data, filters[i])

Compiles(filters) == \A i \in DOMAIN filters : filters[i].field \notin BadFields

-----------------------------------------------------------------------------
(* A statement runs on the connection unless another client's transaction  *)
(* has the permit.                                                         *)
MayRun(c) == holder \in {None, c}

Goto(c, next) == job' = [job EXCEPT ![c] = next]

Begin(c, call) == job[c] = Idle /\ MayRun(c) /\ Goto(c, call) /\ answer' = <<"none">>

Finish(c, reply) == Goto(c, Idle) /\ answer' = reply

In(c, op) == job[c].op = op /\ MayRun(c)

fixed == <<holder, before, declared, clock>>

(* Mutated: the column has no default for the time of creation.            *)
PutInsertUndated(c, id, type, data) ==
  /\ table[id] = None
  /\ Begin(c, [op |-> "put", id |-> id])
  /\ table' = [table EXCEPT ![id] = [type |-> type, data |-> data, created |-> None]]
  /\ UNCHANGED <<indexes, fixed>>

(* The database refuses a key that is there.                               *)
PutInsert(c, id, type, data) ==
  /\ table[id] = None
  /\ Begin(c, [op |-> "put", id |-> id])
  /\ table' = [table EXCEPT ![id] = [type |-> type, data |-> data, created |-> clock]]
  /\ UNCHANGED <<indexes, fixed>>

PutTaken(c, id) ==
  /\ job[c] = Idle /\ MayRun(c) /\ table[id] # None
  /\ Finish(c, <<"failed">>)
  /\ UNCHANGED <<table, indexes, fixed>>

UpdateRow(c, id, type, data) ==
  /\ Begin(c, [op |-> "update", id |-> id])
  /\ table' = IF table[id] = None THEN table
              ELSE [table EXCEPT ![id].type = type, ![id].data = data]
  /\ UNCHANGED <<indexes, fixed>>

(* put and update answer with the row as it is by then.                    *)
SelectBack(c) ==
  /\ In(c, "put") \/ In(c, "update")
  /\ Finish(c, IF table[job[c].id] = None THEN <<"failed">>
               ELSE <<"row", table[job[c].id]>>)
  /\ UNCHANGED <<table, indexes, fixed>>

RemoveOne(c, id) ==
  /\ job[c] = Idle /\ MayRun(c)
  /\ table' = [table EXCEPT ![id] = None]
  /\ Finish(c, <<"done">>)
  /\ UNCHANGED <<indexes, fixed>>

Selected(query) ==
  {id \in Ids : /\ table[id] # None /\ table[id].type \in query.types
                /\ MatchedAll(table[id].data, query.filters)}

(* An OFFSET without a LIMIT is a syntax error.                            *)
Ask(c, query) ==
  /\ job[c] = Idle /\ MayRun(c)
  /\ IF ~ Compiles(query.filters) \/ (query.limit = None /\ query.offset > 0)
     THEN Finish(c, <<"failed">>)
     ELSE \E rows \in Windows(Selected(query), [id \in Selected(query) |-> table[id].created], query) :
            Finish(c, <<"rows", query, rows>>)
  /\ UNCHANGED <<table, indexes, fixed>>

-----------------------------------------------------------------------------
(* patch, within withTransaction: it takes the permit, which is given back *)
(* when the scope of the transaction closes, whatever closes it.           *)

(* Mutated: the statements are not put in a transaction.                   *)
PatchBeginPlain(c, call) ==
  /\ holder = None
  /\ Begin(c, [op |-> "patch", left |-> call, count |-> 0])
  /\ UNCHANGED <<table, indexes, fixed>>

PatchBegin(c, call) ==
  /\ holder = None
  /\ Begin(c, [op |-> "patch", left |-> call, count |-> 0])
  /\ holder' = c /\ before' = table
  /\ UNCHANGED <<table, indexes, declared, clock>>

PatchEntry(c) ==
  LET entry == Head(job[c].left)
      hits == {id \in Ids : /\ table[id] # None /\ table[id].type = entry.type
                            /\ MatchedAll(table[id].data, entry.filters)}
  IN
  /\ In(c, "patch") /\ job[c].left # <<>> /\ Compiles(entry.filters)
  /\ table' = [id \in Ids |-> IF id \in hits
                              THEN [table[id] EXCEPT !.data = Merge(@, entry.patch)]
                              ELSE table[id]]
  /\ Goto(c, [job[c] EXCEPT !.left = Tail(@), !.count = @ + Cardinality(hits)])
  /\ UNCHANGED <<indexes, fixed, answer>>

(* What is left of a transaction that does not commit.                     *)
Rollback(c) ==
  IF holder = c THEN table' = before /\ holder' = None
  ELSE UNCHANGED <<table, holder>>

PatchFails(c) ==
  /\ In(c, "patch") /\ job[c].left # <<>> /\ ~ Compiles(Head(job[c].left).filters)
  /\ Rollback(c)
  /\ Finish(c, <<"failed">>)
  /\ UNCHANGED <<indexes, before, declared, clock>>

PatchCommit(c) ==
  /\ In(c, "patch") /\ job[c].left = <<>>
  /\ holder' = None
  /\ Finish(c, <<"patched", job[c].count>>)
  /\ UNCHANGED <<table, indexes, before, declared, clock>>

-----------------------------------------------------------------------------
(* initialize: the declared indexes are created, then those the database   *)
(* has besides are listed and dropped one by one.                          *)

InitBegin(c, spec) ==
  /\ Begin(c, [op |-> "create", left |-> spec, expected |-> {}])
  /\ UNCHANGED <<table, indexes, fixed>>

(* Mutated: the names are remembered only of indexes it had to create.     *)
InitCreateNew(c) ==
  LET next == Head(job[c].left)
      name == IndexName[next[1]][next[2]]
  IN
  /\ In(c, "create") /\ job[c].left # <<>> /\ next[2] \notin BadFields
  /\ indexes' = indexes \cup {name}
  /\ Goto(c, [job[c] EXCEPT !.left = Tail(@), !.expected = @ \cup ({name} \ indexes)])
  /\ UNCHANGED <<table, fixed, answer>>

InitCreate(c) ==
  LET next == Head(job[c].left)
      name == IndexName[next[1]][next[2]]
  IN
  /\ In(c, "create") /\ job[c].left # <<>> /\ next[2] \notin BadFields
  /\ indexes' = indexes \cup {name}
  /\ Goto(c, [job[c] EXCEPT !.left = Tail(@), !.expected = @ \cup {name}])
  /\ UNCHANGED <<table, fixed, answer>>

InitRefused(c) ==
  /\ In(c, "create") /\ job[c].left # <<>> /\ Head(job[c].left)[2] \in BadFields
  /\ Finish(c, <<"failed">>)
  /\ UNCHANGED <<table, indexes, fixed>>

InitList(c) ==
  /\ In(c, "create") /\ job[c].left = <<>>
  /\ Goto(c, [op |-> "drop", stale |-> indexes \ job[c].expected,
              expected |-> job[c].expected])
  /\ UNCHANGED <<table, indexes, fixed, answer>>

(* Another initialize may have dropped the index that this one listed.     *)
InitDrop(c, name) ==
  /\ In(c, "drop") /\ name \in job[c].stale
  /\ indexes' = indexes \ {name}
  /\ IF name \in indexes
     THEN Goto(c, [job[c] EXCEPT !.stale = @ \ {name}]) /\ UNCHANGED answer
     ELSE Finish(c, <<"failed">>)
  /\ UNCHANGED <<table, fixed>>

InitEnd(c) ==
  /\ In(c, "drop") /\ job[c].stale = {}
  /\ declared' = job[c].expected
  /\ Finish(c, <<"done">>)
  /\ UNCHANGED <<table, indexes, holder, before, clock>>

-----------------------------------------------------------------------------
(* Mutated: the permit of an interrupted transaction is not given back.    *)
InterruptHolding(c) ==
  /\ job[c] # Idle
  /\ IF holder = c THEN table' = before ELSE UNCHANGED table
  /\ Finish(c, <<"none">>)
  /\ UNCHANGED <<holder, indexes, before, declared, clock>>

(* The fiber of a caller is interrupted between two of its statements, or  *)
(* a statement fails for a reason of the database's own.                   *)
Interrupt(c) ==
  /\ job[c] # Idle
  /\ Rollback(c)
  /\ Finish(c, <<"none">>)
  /\ UNCHANGED <<indexes, before, declared, clock>>

(* The process dies: the database rolls back what was not committed.       *)
Crash ==
  /\ table' = IF holder = None THEN table ELSE before
  /\ holder' = None
  /\ job' = [c \in Clients |-> Idle] /\ answer' = <<"none">>
  /\ UNCHANGED <<indexes, before, declared, clock>>

Tick ==
  /\ clock < MaxTime /\ clock' = clock + 1
  /\ UNCHANGED <<table, indexes, holder, before, job, declared, answer>>

Call(c) ==
  \/ \E id \in Ids, type \in Types, data \in PutData :
       PutInsert(c, id, type, data) \/ UpdateRow(c, id, type, data)
  \/ \E id \in Ids : PutTaken(c, id) \/ RemoveOne(c, id)
  \/ \E query \in Queries : Ask(c, query)
  \/ \E call \in PatchCalls : PatchBegin(c, call)
  \/ \E spec \in Specs : InitBegin(c, spec)

Continue(c) ==
  \/ SelectBack(c)
  \/ PatchEntry(c) \/ PatchFails(c) \/ PatchCommit(c)
  \/ InitCreate(c) \/ InitRefused(c) \/ InitList(c) \/ InitEnd(c)
  \/ \E name \in Names : InitDrop(c, name)

Next ==
  \/ \E c \in Clients : Call(c) \/ Continue(c) \/ Interrupt(c)
  \/ Crash \/ Tick

Spec == Init /\ [][Next]_vars

(* Every statement is answered, and those that wait for the permit get it  *)
(* in turn: the semaphore keeps them in a queue.                           *)
FairSpec == Spec /\ \A c \in Clients : SF_vars(Continue(c))
-----------------------------------------------------------------------------
(* An index declared by an initialize that succeeded (39-93) is there from *)
(* then on, although another one with the same declarations may be listing *)
(* and dropping indexes at the time, and may itself fail on the way.       *)
DeclaredStay == declared \subseteq indexes

(* What callers may be refused: a filter on a field whose name is refused, *)
(* and an offset without a limit.                                          *)
NoFilters(filters) == ~ Compiles(filters)

NoLimit(offset, limit) == limit = None /\ offset > 0

Contract == INSTANCE Persistence WITH
  Meets <- MatchedAll, Refuses <- NoFilters, RefusesWindow <- NoLimit,
  records <- IF holder = None THEN table ELSE before,
  saved   <- [id \in Ids |-> None]

(* What the callers have committed changes by the whole of one call at a   *)
(* time (persistence.ts:85-109), however their statements interleave, fail *)
(* and are cut off: a patch is all or nothing, and takes nobody's write    *)
(* with it when it is rolled back.                                         *)
WholeCalls == Contract!WholeCalls

(* Every call comes to its end: no error, interruption or crash leaves the *)
(* permit with a transaction that is over (sql-storage-client.ts:117-126). *)
CallsEnd == \A c \in Clients : job[c] # Idle ~> job[c] = Idle
=============================================================================
