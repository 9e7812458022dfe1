-------------------------------- MODULE Store --------------------------------
(***************************************************************************)
(* Store.layer (packages/core/src/store.ts) over a persistence that runs   *)
(* each of its calls atomically, with the EntityBus and the subscription   *)
(* streams.                                                                *)
(*                                                                         *)
(* A client is a fiber running one mutation at a time; between two awaits  *)
(* of a mutation any other fiber may run.  A subscriber is a fiber running *)
(* subscribeEntity or subscribeEntities.  The persistence has no           *)
(* `subscribe` of its own, as none of the repository's backends has, so    *)
(* the store publishes every change itself.                                *)
(*                                                                         *)
(* A record is its schema tag and its data, a partial function from fields *)
(* to values; timestamps and the serialised form are left out.  Callers    *)
(* pass data with fields of the schema they name, as its type demands.     *)
(***************************************************************************)
EXTENDS LensPath, FiniteSets, Functions

CONSTANTS
  Clients, Subscribers, Ids, Entities, Fields, Values,
  Config,        \* the entities in the order of StoreConfig.entities
  Root,          \* entity -> the tag of entity.schema
  LensesOf,      \* entity -> the lenses declared for it, in order
  FieldsOf,      \* tag -> the fields of its schema
  Valid(_, _),   \* the data decodes as this schema
  Transform(_, _),  \* one lens step applied to data; Failure if it throws
  IdsOf,         \* entity -> the ids the application uses under it
  Payloads,      \* the data clients save and update with
  Patches,       \* the partial data clients patch with
  Filterings,    \* the filters of a patch: sets of <<field, value>>, all "eq"
  Watch,         \* subscriber -> [entity, id (or All), as, filters]
  Upsert,        \* TRUE: put replaces a record with that id; FALSE: it fails
  MayAbort,      \* TRUE: a mutation can end between its write and its events
  MaxMutations,  \* bound: mutations started in a behaviour
  None, Failure, All

Data == UNION {[S -> Values] : S \in SUBSET Fields}

ASSUME StoreAssumption ==
  /\ IsFiniteSet(Types)
  /\ Root \in [Entities -> Types]
  /\ LensesOf \in [Entities -> Seq(Lenses)]
  /\ IdsOf \in [Entities -> SUBSET Ids]
  /\ FieldsOf \in [Types -> SUBSET Fields]
  /\ Payloads \subseteq Data /\ Patches \subseteq Data
  /\ \A s \in Subscribers : /\ Watch[s].entity \in Entities
                            /\ Watch[s].id \in Ids \cup {All}
                            /\ Watch[s].as \in Types
  /\ Upsert \in BOOLEAN /\ MayAbort \in BOOLEAN
  /\ MaxMutations \in Nat
  /\ None \notin Types \cup Ids

(* defineEntity throws on an entity whose schemas are not connected.       *)
ASSUME EntitiesConnected == \A e \in Entities : Connected(Root[e], LensesOf[e])

-----------------------------------------------------------------------------
(* The registry and the conversions, fixed when the layer is built.        *)

TagsOf(entity) == EntityTags(Root[entity], LensesOf[entity])

Graph == GraphOf(FlattenSeq([i \in DOMAIN Config |-> LensesOf[Config[i]]]))

Paths == [pair \in Types \X Types |-> PathBetween(Graph, pair[1], pair[2])]

(* applyLensPath along registry.getPath: Failure stands for the errors     *)
(* LensPathNotFoundError and TransformError.                               *)
Convert(from, to, data) ==
  LET apply(current, step) ==
        IF current = Failure THEN Failure ELSE Transform(step, current)
  IN  IF Paths[from, to] = NoPath THEN Failure
      ELSE FoldLeft(apply, data, Paths[from, to])

(* The spread {...old, ...given}.                                          *)
Spread(old, given) ==
  [f \in DOMAIN old \cup DOMAIN given |->
     IF f \in DOMAIN given THEN given[f] ELSE old[f]]

Matches(data, filters) ==
  \A f \in filters : f[1] \in DOMAIN data /\ data[f[1]] = f[2]

(* The filters that a schema with these fields can be asked about.         *)
Applicable(tag, filters) == \A f \in filters : f[1] \in FieldsOf[tag]

(* Mutated: converted data is passed on unvalidated.                       *)
LoadUnvalidated(row, as) ==
  IF row = None THEN None
  ELSE IF row.type = as THEN row.data ELSE Convert(row.type, as, row.data)

(* loadEntity after its get: data of the asked schema is returned as it    *)
(* is stored, converted data is validated.  None stands for null.          *)
Load(row, as) ==
  IF row = None THEN None
  ELSE IF row.type = as THEN row.data
  ELSE LET converted == Convert(row.type, as, row.data)
       IN  IF converted # Failure /\ Valid(as, converted)
           THEN converted ELSE Failure

(* loadEntities: the rows of the eligible tags that match the filters, as  *)
(* the persistence compares them with the stored data; one row that cannot *)
(* be converted fails the whole call.                                      *)
LoadAll(store, entity, as, filters) ==
  LET eligible == {tag \in TagsOf(entity) : Applicable(tag, filters)}
      rows == {id \in Ids : /\ store[id] # None
                            /\ store[id].type \in eligible
                            /\ Matches(store[id].data, filters)}
  IN  IF \E id \in rows : Load(store[id], as) = Failure THEN Failure
      ELSE [id \in rows |-> Load(store[id], as)]

(* What a subscription would emit if it reloaded from this store.          *)
View(s, store) ==
  IF Watch[s].id = All
  THEN LoadAll(store, Watch[s].entity, Watch[s].as, Watch[s].filters)
  ELSE Load(store[Watch[s].id], Watch[s].as)

-----------------------------------------------------------------------------
VARIABLES
  db,       \* id -> [type, data] or None: the records of the persistence
  job,      \* client -> the mutation it is in the middle of
  started,  \* number of mutations started so far
  sub       \* subscriber -> [phase, queue, value, shown]

vars == <<db, job, started, sub>>

(* What a subscriber has emitted nothing of yet.                           *)
Nothing == [phase |-> "off", queue |-> <<>>, value |-> None, shown |-> None]

Idle == [op |-> "idle"]

Init ==
  /\ db = [id \in Ids |-> None]
  /\ job = [c \in Clients |-> Idle]
  /\ started = 0
  /\ sub = [s \in Subscribers |-> Nothing]

Begin(c) == job[c] = Idle /\ started < MaxMutations /\ started' = started + 1

(* A mutation that changed the persistence owes the bus these events.      *)
Owe(c, events) == job' = [job EXCEPT ![c] = [op |-> "publish", events |-> events]]

Finish(c) == job' = [job EXCEPT ![c] = Idle]

(* Mutated: the validation before the put is forgotten.                    *)
SaveUnvalidated(c) ==
  /\ Begin(c)
  /\ \E e \in Entities : \E tag \in TagsOf(e), id \in IdsOf[e], data \in Payloads :
       /\ db' = [db EXCEPT ![id] = [type |-> tag, data |-> data]]
       /\ Owe(c, <<[kind |-> "put", id |-> id, type |-> tag]>>)
  /\ UNCHANGED sub

(* saveEntity: validate, then put.  An invalid record, or a put that is    *)
(* refused, ends the call with an error and changes nothing.  The id is    *)
(* the caller's or a new one: both are members of Ids.                     *)
SaveEntity(c) ==
  /\ Begin(c)
  /\ \E e \in Entities : \E tag \in TagsOf(e), id \in IdsOf[e], data \in Payloads :
       /\ DOMAIN data \subseteq FieldsOf[tag]
       /\ Valid(tag, data)
       /\ db[id] = None \/ Upsert
       /\ db' = [db EXCEPT ![id] = [type |-> tag, data |-> data]]
       /\ Owe(c, <<[kind |-> "put", id |-> id, type |-> tag]>>)
  /\ UNCHANGED sub

(* What an update makes of a row: projected through the lenses without     *)
(* validation, then merged with what was given or replaced by it.          *)
UpdatedData(row, as, data, mode) ==
  LET projected == IF row.type = as THEN row.data
                   ELSE Convert(row.type, as, row.data)
  IN  IF projected = Failure THEN Failure
      ELSE IF mode = "merge" THEN Spread(projected, data) ELSE data

(* updateEntity up to its second await: get, project and merge, validate.  *)
UpdateRead(c) ==
  /\ Begin(c)
  /\ \E e \in Entities :
       \E as \in TagsOf(e), id \in IdsOf[e], data \in Payloads \cup Patches,
          mode \in {"merge", "replace"} :
         /\ DOMAIN data \subseteq FieldsOf[as]
         /\ db[id] # None
         /\ LET newData == UpdatedData(db[id], as, data, mode)
            IN  /\ newData # Failure /\ Valid(as, newData)
                /\ job' = [job EXCEPT ![c] = [op |-> "update", id |-> id,
                              row |-> [type |-> as, data |-> newData],
                              given |-> DOMAIN data, mode |-> mode]]
  /\ UNCHANGED <<db, sub>>

(* Mutated: the update writes its row whether or not one is still there.   *)
UpdateBlindly(c) ==
  /\ job[c].op = "update"
  /\ db' = [db EXCEPT ![job[c].id] = job[c].row]
  /\ Owe(c, <<[kind |-> "update", id |-> job[c].id, type |-> job[c].row.type]>>)
  /\ UNCHANGED <<started, sub>>

(* persistence.update finds the record again, or fails.                    *)
UpdateWrite(c) ==
  /\ job[c].op = "update" /\ db[job[c].id] # None
  /\ db' = [db EXCEPT ![job[c].id] = job[c].row]
  /\ Owe(c, <<[kind |-> "update", id |-> job[c].id, type |-> job[c].row.type]>>)
  /\ UNCHANGED <<started, sub>>

UpdateGone(c) ==
  /\ job[c].op = "update" /\ db[job[c].id] = None
  /\ Finish(c)
  /\ UNCHANGED <<db, started, sub>>

(* patchEntities: one entry per tag that has a patched field and all the   *)
(* filtered ones.  A patch that affects no record changes nothing and owes *)
(* nothing; the others owe one bulk event per entry, here in any order.    *)
(* Null members are left to the persistence modules.                       *)
PatchTags(e, patch, filters) ==
  {tag \in TagsOf(e) : Applicable(tag, filters) /\ FieldsOf[tag] \cap DOMAIN patch # {}}

Patched(row, patch) ==
  [row EXCEPT !.data = Spread(@, Restrict(patch, DOMAIN patch \cap FieldsOf[row.type]))]

PatchEntities(c) ==
  /\ Begin(c)
  /\ \E e \in Entities, patch \in Patches, filters \in Filterings :
       LET tags == PatchTags(e, patch, filters)
           hit  == {id \in Ids : /\ db[id] # None
                                 /\ db[id].type \in tags
                                 /\ Matches(db[id].data, filters)}
       IN  /\ hit # {}
           /\ db' = [id \in Ids |-> IF id \in hit THEN Patched(db[id], patch)
                                    ELSE db[id]]
           /\ \E order \in Surjection(1..Cardinality(tags), tags) :
                Owe(c, [i \in 1..Cardinality(tags) |->
                          [kind |-> "bulk", type |-> order[i]]])
  /\ UNCHANGED sub

(* deleteEntity: the type of the event is read before the removal.         *)
DeleteRead(c) ==
  /\ Begin(c)
  /\ \E id \in Ids :
       job' = [job EXCEPT ![c] = [op |-> "delete", id |-> id,
                 type |-> IF db[id] = None THEN None ELSE db[id].type]]
  /\ UNCHANGED <<db, sub>>

DeleteWrite(c) ==
  /\ job[c].op = "delete"
  /\ db' = [db EXCEPT ![job[c].id] = None]
  /\ Owe(c, <<[kind |-> "delete", id |-> job[c].id, type |-> job[c].type]>>)
  /\ UNCHANGED <<started, sub>>

(* Mutated: a subscription that is reloading gets no events.               *)
OpenWhenIdle == {"idle"}

(* The phases in which the subscription to the bus is held.                *)
Open == {"load", "emit", "idle"}

(* Mutated: the mutation ends one event too late.                          *)
PublishTooLong(c) ==
  /\ job[c].op = "publish"
  /\ sub' = [s \in Subscribers |->
               IF sub[s].phase \in Open
               THEN [sub[s] EXCEPT !.queue = Append(@, Head(job[c].events))]
               ELSE sub[s]]
  /\ IF job[c].events = <<>> THEN Finish(c) ELSE Owe(c, Tail(job[c].events))
  /\ UNCHANGED <<db, started>>

(* bus.publish: the event joins the buffer of every subscription that is   *)
(* open at this moment.                                                    *)
Publish(c) ==
  /\ job[c].op = "publish"
  /\ sub' = [s \in Subscribers |->
               IF sub[s].phase \in Open
               THEN [sub[s] EXCEPT !.queue = Append(@, Head(job[c].events))]
               ELSE sub[s]]
  /\ IF Len(job[c].events) = 1 THEN Finish(c) ELSE Owe(c, Tail(job[c].events))
  /\ UNCHANGED <<db, started>>

(* The fiber of the mutation is interrupted, or the persistence reports a  *)
(* failure of a write that it did apply: the remaining events are lost.    *)
Abort(c) ==
  /\ MayAbort
  /\ job[c].op = "publish"
  /\ Finish(c)
  /\ UNCHANGED <<db, started, sub>>

-----------------------------------------------------------------------------
(* Mutated: a deletion of a record whose type was unknown concerns no list. *)
RelevantIfTyped(s, ev) ==
  IF ev.kind = "bulk" THEN ev.type \in TagsOf(Watch[s].entity)
  ELSE IF Watch[s].id # All THEN ev.id = Watch[s].id
  ELSE ev.type \in TagsOf(Watch[s].entity)

(* The filters of the two streams.                                         *)
Relevant(s, ev) ==
  IF ev.kind = "bulk" THEN ev.type \in TagsOf(Watch[s].entity)
  ELSE IF Watch[s].id # All THEN ev.id = Watch[s].id
  ELSE \/ ev.type \in TagsOf(Watch[s].entity)
       \/ ev.kind = "delete" /\ ev.type = None

Step(s, record) == sub' = [sub EXCEPT ![s] = record] /\ UNCHANGED <<db, job, started>>

(* Stream.unwrap(bus.subscribe()): the buffer opens before the first load. *)
Subscribe(s) ==
  /\ sub[s].phase = "off"
  /\ Step(s, [Nothing EXCEPT !.phase = "load"])

(* reload reads the persistence; what it read is emitted in a later step.  *)
Reload(s) ==
  /\ sub[s].phase = "load"
  /\ Step(s, [sub[s] EXCEPT !.phase = "emit", !.value = View(s, db)])

(* Mutated: events that came during the reload are thought to be covered.  *)
EmitAndForget(s) ==
  /\ sub[s].phase = "emit" /\ sub[s].value # Failure
  /\ Step(s, [phase |-> "idle", queue |-> <<>>, shown |-> sub[s].value, value |-> None])

Emit(s) ==
  /\ sub[s].phase = "emit" /\ sub[s].value # Failure
  /\ Step(s, [sub[s] EXCEPT !.phase = "idle", !.shown = sub[s].value, !.value = None])

(* An error of reload ends the stream, and the subscription with it.       *)
EndInError(s) ==
  /\ sub[s].phase = "emit" /\ sub[s].value = Failure
  /\ Step(s, [sub[s] EXCEPT !.phase = "ended", !.queue = <<>>, !.value = None])

Receive(s) ==
  /\ sub[s].phase = "idle" /\ sub[s].queue # <<>>
  /\ Step(s, [sub[s] EXCEPT !.queue = Tail(@),
                            !.phase = IF Relevant(s, Head(sub[s].queue))
                                      THEN "load" ELSE "idle"])

(* The scope of the stream closes: the consumer left.                      *)
Unsubscribe(s) ==
  /\ sub[s].phase # "off"
  /\ Step(s, Nothing)

-----------------------------------------------------------------------------
Mutate(c) == SaveEntity(c) \/ UpdateRead(c) \/ PatchEntities(c) \/ DeleteRead(c)

Continue(c) == UpdateWrite(c) \/ UpdateGone(c) \/ DeleteWrite(c) \/ Publish(c)

Stream(s) == Reload(s) \/ Emit(s) \/ EndInError(s) \/ Receive(s)

Next ==
  \/ \E c \in Clients : Mutate(c) \/ Continue(c) \/ Abort(c)
  \/ \E s \in Subscribers : Subscribe(s) \/ Stream(s) \/ Unsubscribe(s)

Spec == Init /\ [][Next]_vars

(* A mutation that was started, and a stream that is open, go on: every    *)
(* await of theirs is answered.  Nobody has to start one.                  *)
Fairness ==
  /\ \A c \in Clients : WF_vars(Continue(c))
  /\ \A s \in Subscribers : WF_vars(Stream(s))

FairSpec == Spec /\ Fairness

-----------------------------------------------------------------------------
(* An application that keeps its entities apart: no schema and no id       *)
(* belongs to two of them, and a record is watched under its own entity.   *)
Separate ==
  /\ \A e, f \in Entities : e # f =>
       TagsOf(e) \cap TagsOf(f) = {} /\ IdsOf[e] \cap IdsOf[f] = {}
  /\ \A s \in Subscribers :
       Watch[s].id # All => Watch[s].id \in IdsOf[Watch[s].entity]

Rows == [type : Types, data : Data]
Events == [kind : {"put", "update", "delete"}, id : Ids, type : Types \cup {None}]
            \cup [kind : {"bulk"}, type : Types]
Jobs == [op : {"idle"}]
          \cup [op : {"update"}, id : Ids, row : Rows, given : SUBSET Fields,
                mode : {"merge", "replace"}]
          \cup [op : {"delete"}, id : Ids, type : Types \cup {None}]
          \cup [op : {"publish"}, events : Seq(Events) \ {<<>>}]
Views == {None, Failure} \cup Data \cup UNION {[S -> Data] : S \in SUBSET Ids}
Streams == [phase : {"off", "load", "emit", "idle", "ended"},
            queue : Seq(Events), value : Views, shown : Views]

(* The variables stay of the kinds the code declares.                      *)
TypeOK ==
  /\ db \in [Ids -> Rows \cup {None}]
  /\ job \in [Clients -> Jobs]
  /\ started \in 0..MaxMutations
  /\ sub \in [Subscribers -> Streams]

(* An event that will make s reload is on its way: buffered, or owed by a  *)
(* mutation that has changed the store already.                            *)
Notified(s) ==
  \/ \E i \in DOMAIN sub[s].queue : Relevant(s, sub[s].queue[i])
  \/ \E c \in Clients : /\ job[c].op = "publish"
                        /\ \E i \in DOMAIN job[c].events : Relevant(s, job[c].events[i])

(* store.ts:263-267, 287-291: a subscription emits the current value and   *)
(* re-emits whenever a relevant change occurs.  Whatever the mutations and *)
(* reloads interleave, a subscriber that waits for the next event has      *)
(* emitted what a reload would give now, unless such an event is coming.   *)
Fresh ==
  \A s \in Subscribers :
    sub[s].phase = "idle" => sub[s].shown = View(s, db) \/ Notified(s)

(* Every row of the store decodes as its schema, although updates are      *)
(* computed from what an earlier read returned, and projected data is not  *)
(* validated before the merge (for patches that fit the schemas, which     *)
(* store.ts:243 asks of the callers).                                      *)
StoredValid == \A id \in Ids : db[id] # None => Valid(db[id].type, db[id].data)

(* Nothing a subscriber is given violates the schema it asked for, though  *)
(* rows of that very schema are passed on without validation.              *)
ShownValid ==
  \A s \in Subscribers : sub[s].phase \in {"idle", "load"} /\ sub[s].shown # None =>
    IF Watch[s].id # All THEN Valid(Watch[s].as, sub[s].shown)
    ELSE \A id \in DOMAIN sub[s].shown : Valid(Watch[s].as, sub[s].shown[id])

(* A deleted record does not come back through a mutation that read it     *)
(* before the deletion: only a save creates a record.                      *)
OnlySaveCreates ==
  [][\A id \in Ids : db[id] = None /\ db'[id] # None =>
       \E c \in Clients : /\ job[c] = Idle
                          /\ job'[c].op = "publish"
                          /\ job'[c].events[1].kind = "put"
                          /\ job'[c].events[1].id = id]_vars

(* Once the mutations are over, a subscriber that loads, has just loaded   *)
(* the present value or has a relevant event in its buffer comes to show   *)
(* the store as it is, or is closed.  By Fresh that is every open one      *)
(* unless a mutation was cut off; what such a mutation left behind, the    *)
(* next relevant event repairs.                                            *)
Converges ==
  \A s \in Subscribers :
    (/\ \/ sub[s].phase = "load"
        \/ sub[s].phase = "emit" /\ sub[s].value = View(s, db)
        \/ \E i \in DOMAIN sub[s].queue : Relevant(s, sub[s].queue[i])
     /\ \A c \in Clients : job[c] = Idle)
    ~> (\/ sub[s].phase \in {"off", "ended"}
        \/ \E c \in Clients : job[c] # Idle
        \/ sub[s].shown = View(s, db))
=============================================================================
