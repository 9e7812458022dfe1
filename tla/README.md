# A TLA+ development of storic

storic is a schema-versioned datastore written with Effect. An application
declares *entities*: a root schema and the *lenses* that lead to the other
versions of it. A `Store` saves records under the tag of one version, and loads,
updates, patches, deletes and subscribes to them as any other version, over one
of several *persistence* backends.

This directory models the lens graph, the store with its subscriptions, the
contract of a persistence, the three backends, the store behind a Durable Object,
the React hooks, and the scripts that publish the packages and assemble the
changelog. Everything is checked with TLC on small instances. Every type invariant,
safety invariant and action property of the runs, and the refinement of the contract by
the two in-memory backends, are also proved with TLAPS for all instances; what is left
to TLC alone is liveness.

## Inventory

Paths are relative to `src/packages/` unless they begin with `scripts/`.

| component | state | operations | interacts with |
|---|---|---|---|
| lens graph (`core/src/lens-graph.ts`, `schema-registry.ts`, `entity.ts`, `lens.ts`) | adjacency lists, path cache | register, getPath, getConnectedTypes, defineEntity | built once by the Store, asked for a path by every conversion |
| Store (`core/src/store.ts`) | none of its own between calls; each mutation holds what it read across awaits | saveEntity, loadEntity, loadEntities, updateEntity, patchEntities, deleteEntity, subscribeEntity, subscribeEntities | calls the persistence, publishes on the bus |
| EntityBus (`core/src/entity-bus.ts`, `change-event.ts`) | one unbounded buffer per open subscription | publish, subscribe | between mutations and subscription streams |
| index specifications (`core/src/compute-indexes.ts`, `annotations.ts`) | none | computeIndexSpecs | passed by the Store to `initialize` |
| TinyBase persistence (`tinybase`) | tables `entities` and `byType`; field indexes in memory | initialize, put, get, query, update, patch, remove, fromStore | implements `Persistence` |
| Automerge persistence (`automerge`) | one document per record, a catalog document (entries, byType, fieldIndexes), index configuration in memory | the same, saveState, fromSaved | implements `Persistence`; the application merges documents with those of peers |
| SQL persistence (`sql`) | one table, expression indexes | the same; patch in a transaction | implements `Persistence` over an SqlClient that fibers share |
| Durable Object (`cloudflare/src/storic-object.ts`, `stub-persistence.ts`, `helpers.ts`) | the object's table; nothing in the caller between calls | the methods of `createStore`, each a layer of its own; the persistence calls as RPC | wraps the SQL persistence; the stub implements `Persistence` |
| client of its storage (`cloudflare/src/sql-storage-client.ts`) | one connection with a semaphore | statements, transactions | under the SQL persistence |
| reading hooks (`react/src/provider.tsx`, `use-entity.ts`, `use-entities.ts`, `cache.ts`, `sync-external-store.ts`) | the provider's store, promises of first loads by runtime and key, per component a snapshot and the fiber of a stream | render, subscribe, be given another id or runtime | subscribe to a Store |
| running hooks (`use-mutations.ts`, `use-effect-query.ts`) | the state of a mutation or query, the fiber of the newest run | run, render with other dependencies, be hidden and shown | run mutations and effects |
| listener hooks and atoms (`use-listener.ts`, `atom/factories.ts`) | a fiber per effect; the atom library's state | | subscribe to a Store |
| publishing (`scripts/publish-all.ts`, `publish-package.ts`) | npm, GitHub | runs of the script | run by CI, rerun after failures |
| changelog (`scripts/assemble-changelog.ts` and its workflow) | the main branch with its fragments and `CHANGELOG.md`, the clones that runs work in | pushes, runs of the workflow and by hand | run by CI upon pushes |

### What is hard, and what makes each component correct

- **Lens graph.** A cache in front of a search over a graph that grows. Correct:
  no cached path or absence of one survives a registration; the search finds a
  shortest chain, runs every lens in the right direction, and finds one exactly
  when there is one; `defineEntity` accepts exactly the entities whose versions
  can all be read as the root.
- **Store.** Every mutation is a read, a write and an event with awaits between
  them, and every subscription a registration, a load and an emission; fibers
  interleave at each. Correct: a subscriber that waits has emitted the present
  state or is about to be told (`Fresh`); it comes to show it (`Converges`);
  updates bring no deleted record back and store nothing that does not decode.
- **In-memory backends.** Three structures that every call must keep in step,
  one of them rebuilt (TinyBase) or not (Automerge) by `initialize`. Correct:
  queries that indexes narrow answer like scans, whatever happened before, and
  each call is as if it were one step of the contract. Automerge writes two
  documents per call and can be saved and loaded between any two steps.
- **SQL backend.** Statements of several callers interleave, transactions roll
  back, processes die. Correct: what is committed changes by whole calls, and
  nobody waits for a permit that is never released.
- **Publishing.** Runs stop or fail between effects on the outside world, are
  repeated, and overlap, as the workflow does not wait for an earlier one; npm may
  carry out what it reports as failed. Correct: what is on npm can be installed
  at every moment, success means that all is there, and a run that is left alone
  repairs what earlier ones left undone.
- **Durable Object.** Requests and replies are lost, connections break while the
  object goes on, and the object leaves the memory between two RPCs of a call.
  Correct: what a caller was told of a mutation is true, no mutation is carried
  out twice, what was acknowledged is found again, and every call returns.
- **Reading hooks.** React renders when it likes; the provider, the parent and the
  writers move in between; the promise of a first load may be as old as the
  runtime. Correct: a component shows the record it was given and of the right
  runtime, never falls back to an older state of it while it stays subscribed, and comes
  to show the present one.
- **Running hooks.** Runs of one hook overlap, are interrupted, and report their
  end in any order, while React hides and shows the component. Correct: what is
  surfaced is the outcome of the right run, and an answer comes.
- **Changelog.** Main moves while a run works on the commit it checked out; runs
  fail, are replaced in the queue, and are cut off. Correct: no fragment is lost
  and none is entered twice, and a success means that all are entered.

`PROJECT.json` lists the hazards of all components at their lines.

## Modules

| module | what it is | lines it stands for |
|---|---|---|
| `LensPath` | pure operators: `Register`, the search `Search` of `getPath`, `ConnectedTypes`, `Connected` | lens-graph.ts, entity.ts |
| `LensGraph` | the class as a state machine: registrations and lookups through the cache | lens-graph.ts |
| `Store` | mutations, bus and subscriptions, over an atomic persistence; `EXTENDS LensPath` | store.ts, entity-bus.ts |
| `CoreProofs` | the search, the graph and its cache; the store: types, `Fresh`, validity | |
| `Records` | records, filters, merge patches, the order and cut of answers | persistence.ts, filter.ts |
| `FieldIndexes` | what a record is indexed under, how a query narrows | the code that tinybase and automerge both have |
| `Persistence` | the contract: every call one step on a set of records | persistence.ts |
| `TinyBasePersistence`, `TinyBaseProofs` | the backend; its indexes, and that it implements the contract | tinybase-persistence.ts |
| `AutomergePersistence`, `AutomergeProofs` | the backend, each read and write of a document a step; its catalog, and that it implements the contract | automerge-persistence.ts |
| `SqlPersistence`, `SqlProofs` | the backend, each statement a step; that calls are whole | sql-persistence.ts, filter-sql.ts, sql-storage-client.ts |
| `PublishPackages` | runs of the publishing script against npm and GitHub | publish-all.ts, publish-package.ts |
| `DurableStore`, `DurableStoreProofs` | the calls of `createStore` as RPCs over a network that loses messages; what was told and acknowledged | storic-object.ts, stub-persistence.ts, helpers.ts |
| `UseEntity` | the provider, the cache of first loads, and the stream of a component | provider.tsx, use-entity.ts, use-entities.ts, cache.ts, sync-external-store.ts |
| `RunHooks` | a component with useEffectQuery and a mutation | use-effect-query.ts, use-mutations.ts |
| `Changelog` | the main branch, pushes, and runs of the script | assemble-changelog.ts, assemble-changelog.yml |
| `ReactProofs` | about `UseEntity`: what a component shows; about `RunHooks`: which run is surfaced | |
| `ReleaseProofs` | about `PublishPackages`: the order of packages, what is on npm; about `Changelog`: what is entered | |
| `Loops` | lemmas for all proofs: induction over the naturals, folds over lists, loops that go down, iteration, slices | |
| `MC*` | instances for TLC; those of the backends also hold the refinement mapping to `Persistence` | |

How code becomes action:

- **Store.** `job[c]` is what a mutation of fiber `c` holds across its awaits:
  the row an update computed, the type a deletion read, the events still to
  publish. `saveEntity` is `SaveEntity` (validate and `put`) and `Publish`;
  `updateEntity` is `UpdateRead` (get, project, merge, validate), then
  `UpdateWrite` or `UpdateGone`, then `Publish`; `deleteEntity` is `DeleteRead`,
  `DeleteWrite`, `Publish`; `patchEntities` is `PatchEntities` and one `Publish`
  per schema. A subscription goes `Subscribe` (its buffer opens), `Reload`,
  `Emit` or `EndInError`, and `Receive`s events, which send it back to reload if
  they are `Relevant`. `Abort` cuts a mutation off after its write.
- **Contract.** `Persistence` has one step per call. The rows of a query are told by
  their places (`Page`), those of the backends by the two slices of the code
  (`Offset`, `Limited`), so that a slip in the slices breaks the refinement. That both
  are the same for every offset and limit is lemma `RowsArePage`
  of their proofs.
- **TinyBase.** One action per operation, because nothing in an operation gives
  up the thread; `patch` has one per entry, because an entry may throw. `ready` bars
  calls after a failed `initialize`: the Store's layer is not built then
  (store.ts:394), while the backend itself would not refuse them.
- **Automerge.** One action per access of one of the two references:
  `PutDoc`/`PutCatalog`, `UpdateRead`/`UpdateDoc`/`UpdateCatalog`,
  `GetRead`/`GetAnswer` and so on. A `Restart` may come between any two. With
  `Preempts` other fibers may run between any two as well, except that a patch keeps the
  thread while it goes through its entries (588-619), which are within one effect and
  change the documents in place; they may run before it writes the catalog (626).
- **SQL.** One action per statement (`get`, one that changes nothing, is left out); `holder` is the fiber whose transaction has
  the client's permit, `before` what its rollback restores. `Interrupt` stands
  for an interrupted fiber and for a statement that fails for the database's own
  reasons.
- **Publishing.** `run[r]` is where a run stands: its checkout, the packages
  `left`, `justPublished` and `blocked`. For each package the loop goes
  `SkipBlocked`, or `LookUp`, `Preflight`, `LookUpAgain` (publishPackage asks npm
  once more), `Upload` and `Release`; an upload may also be refused, fail, or be
  carried out and reported as failed (`UploadReportedFailed`). `Stop` ends a run
  anywhere; `Start` takes the main branch or repeats a run with its checkout. As
  the packages are sorted, `Preflight` never has anything left to look up: every
  dependency is just published by then, or has blocked the package. The
  directory is taken to have no tarball of an earlier run, of which
  `findTarball` might take the wrong one; the workflow's checkouts have none.

- **Durable Object.** A call of `createStore` is `Invoke`, then per RPC a step of
  the object (`Initialize`, `Get`, `Put`, `Update`, `Patch`, `Remove`) and one of
  the stub, which goes on (`GoOn`) or settles the promise (`Succeed`, `NotFound`,
  `Fail`). The object carries an RPC out in one step, because the statements of
  its storage are synchronous and nothing else gets the thread. `Lose` takes a
  message, `Disconnect` rejects the promise while the message stays, `Evict` and
  `Construct` take the object out of the memory and bring it back. Schemas, lenses
  and events are those of `Store`. The constructor builds the runtime only; the table
  is made by the RPC `initialize`, with which every call begins.
- **Reading hooks.** `view[c]` is what React and useStreamState hold for a
  component: what it was last rendered with, the snapshot `data`, and the stream.
  A render that has no promise yet is `Suspend`, one that has is `Render` or
  `RenderThrows`, the effect is `Subscribe`; the stream goes `StreamReads`,
  `StreamEmits`, and `StreamHears` when an event came. A stream's registration
  with the bus and its reloads are those of `Store`; of them only the order is
  kept, which is that the buffer opens before the first load. `Hide` stands for
  StrictMode and for Activity: cleanup and effect again, with the state kept. The
  interruption of an old fiber is one step with what caused it: a fiber that waits
  is interrupted at once, and the object that the fiber of earlier dependencies
  writes to is not looked at any more.
- **Running hooks.** `Rerender` gives other dependencies, `Effects` runs cleanups
  and bodies of the effects that are due, `Hide` the cleanups alone. `RunEnds` is
  the exit of a run reaching its observer; it comes at any later time, for
  interrupted runs too, which may have ended by themselves before.
- **Changelog.** `work[w]` is the clone a run works in. `Read`, `Write`, `Delete`
  and `Push` are the steps of the script and of the workflow after it;
  `waiting` is the run that GitHub keeps for the concurrency group, of which a
  later request takes the place; `RunFails` throws a machine away, `CutOff` leaves
  the files of a developer as they are. A push by hand requests a run, one by the
  workflow does not.

Abstractions: data is flat (a dotted path is a field, a patch does not descend);
`updated_at` is left out; the key of the path cache is a pair of types, where
lens-graph.ts:94 joins the two tags with an arrow, so that tags with an arrow in them
could share a key; LIKE is a constant relation; a map of maps of ids is a
set of tuples; the order in which a patch visits records of a type is left out,
as it visits each on its own; in `Store` transforms and validation are constant
operators that may fail; `limit` and `offset` occur in the backends only.
Auxiliary variables: `registered` (lens graph), `patching.before` (TinyBase),
`settled` (Automerge), `declared` (SQL), `lucky` (publishing), `applied` and
`calls[n].known` (Durable Object), `last` and `missed` (running hooks), `added`
and `torn` (changelog).

## Runs

| run | what it asks | bounds |
|---|---|---|
| `MCLensGraph` | `CacheCurrent`, `AnswersCurrent`, `ShortestPaths`, `ReadableBothWays`, `AcceptedEntityReadable` | every sequence of three lenses among five types, and rings of five, where a depth-first search would take the long side; one cached path; types symmetric |
| `MCStore` | `Fresh`, `StoredValid`, `ShownValid`, `OnlySaveCreates` | two clients, three mutations, a subscriber of a record and one of a filtered list, two entities, one with two versions |
| `MCStoreLive` | `Converges`, with fair fibers, when mutations may be cut off after their write | two mutations |
| `MCTinyBase` | `IndexesComplete`, `QueriesExact`, `ImplementsPersistence` | two records, two types, an indexed field with three values, two of which share their text in filters and patches; patches of two entries; two seconds |
| `MCAutomerge` | `CatalogAgrees`, `QueriesExact`, `ImplementsPersistence` | the same records; one call at a time |
| `MCAutomergeSaved` | `ImplementsPersistence` with saved states and restarts in the middle of calls | one record, two seconds |
| `MCSql` | `WholeCalls`, `DeclaredStay`, `CallsEnd` | two callers, one record of either type, a field name that is refused, an obsolete index in the database |
| `MCPublish` | `DependenciesFirst`, `SuccessMeansPublished`, `RerunCompletes` | two runs; core, sql and cloudflare, which depend on each other like the packages of these names; the first two may get a second version |
| `MCDurableStore` | `ToldIsTrue`, `AcknowledgedIsFound`, `CallsReturn` | three calls on one record, two losses of any kind |
| `MCUseEntity` | `ShowsItsOwn`, `NeverBack`, `ComesToShow` | a component, two ids behind each of two runtimes, two writes, three moves of the application, failing loads, streams and layers |
| `MCRunHooks` | `AnswerOfNewestRun`, `StatusOfLastCall`, `ComesToAnswer` | a component with a query and a mutation; three renders with other dependencies or hidings, four runs, two calls |
| `MCChangelog` | `EnteredOnce`, `SuccessMeansEntered`, `ComesToBeEntered` | three fragments, one of them malformed; one developer who also runs the script; four pushes, one failing or cut off run |

Why these bounds. A stale subscriber needs one mutation under way, one that
overtakes it and one load between them: three mutations of two clients have every
such order. Entries of an index are lost or confused by one record, or between
two records that share a value, so that two records with values that share their
text meet every case of adding, keeping and removing an entry. The interleavings
of the SQL backend concern one row, because statements touch rows
independently; that a patch changes several rows in one statement, and
all statements of a patch roll back together, does not depend on their number.
Three packages have a dependency that is one both directly and through another
package, and a second version is what makes old checkouts, and a latest version
that goes back, possible.
A save that was acknowledged, a deletion or an eviction, and a later call are three
calls; a loss at each end of one RPC is two. In the hooks every hazard is one
component's: the cache is shared, but a promise that another component started is
one that this component started before it was given another id. One write before
and one after a load tell its age, two ids and two runtimes make every promise and
every stream confusable with one other. A run that is overtaken needs one run
before and one after, which is two calls or two renders, and a third move hides the
component between them. In the changelog a run is disturbed by one push with or
without a fragment, or by one developer's run; two fragments are enough for
one to be there when the run begins and one to come, and a third cannot be read.

The mutants in `PROJECT.json` change a definition the way a bug would; each
makes the property it is listed with fail. They are the definitions marked
`Mutated`.

### Fairness

`FairSpec` of `Store` has weak fairness of the steps that continue a mutation
or an open stream: each is an await that is answered. Nothing obliges anybody to
start a mutation or to subscribe. `FairSpec` of `SqlPersistence` has strong
fairness of the steps of each caller: a statement is disabled again and again
while transactions of others have the permit, but Effect's semaphore serves
those who wait in order. `CallsEnd` then says that the permit always comes back.

`FairSpec` of `DurableStore`: messages that are not lost arrive, the runtime
constructs the object when a request is there, and it rejects the promise of an
RPC whose request or reply was lost. `FairSpec` of `UseEntity`: promises settle,
React renders what must be rendered and runs effects, events are delivered and
streams go on; nobody has to write, to move or to fail. `FairSpec` of `RunHooks`:
effects run, and runs end. `FairSpec` of `Changelog`: GitHub starts a run that was
requested when none is active, and a run goes on until it ends or fails;
developers are obliged to nothing. All of these are weak: what they ask for stays
enabled until it is done.

## Behaviour worth knowing

What the properties leave out because the code does otherwise. Where a constant
shows it, no run has that value: the property named then fails.

- `MCStore` with `LensesOf <- OverlapLensesOf`, `IdsOf <- OverlapIdsOf` and
  `Upsert = FALSE`: `Fresh` fails. An update event carries the new type only
  (store.ts:639, 799). If entities share a schema, a record can leave the list of
  one by an update through the other, and that list is not told.
- `MCTinyBase` with `Retypes = TRUE`: `QueriesExact` fails. `put` over an id whose
  record has another type leaves the id in the row of the old type
  (tinybase-persistence.ts:282), and `query` does not compare the type of what it
  loads. The same holds of the index entries.
- `MCTinyBase` with `PutData <- MCNullData` and `Queries <- MCNullQueries`:
  `QueriesExact` fails. Null is not indexed (184) but a filter for null is narrowed
  by the index (346).
- `MCAutomerge` with `Specs <- MCSpecs`: `QueriesExact` fails. `initialize` does not
  fill an index that is new (automerge-persistence.ts:286), neither in the process
  that has the records nor, with `Saves = TRUE`, in one that loads them.
- `MCStore` with `MayAbort = TRUE`: `Fresh` fails. A mutation that is interrupted
  between its write and its event (store.ts:429), or whose backend fails after
  it wrote, leaves subscribers stale until the next event (`Converges`).
- A merge update (store.ts:635) writes the whole record it computed from an
  earlier get: what another mutation wrote in between is set back. In `MCStore`
  two updates of one record show it.
- `PatchCalls` of `MCTinyBase` or `MCAutomerge` with a call whose second entry has
  a pattern that does not compile: `ImplementsPersistence` fails, since the first
  entry was applied (tinybase-persistence.ts:494, automerge-persistence.ts:608),
  where persistence.ts:103 asks for atomicity. In Automerge the catalog then also
  disagrees with the documents.
- `MCAutomergeSaved` with `Preempts = TRUE` and two clients: `ImplementsPersistence`
  fails. A state saved, or a query answered, between the two writes of another
  fiber's put has a document without its entry (721, 390): `saved.docs` has the record
  and `saved.catalog.entries` has not, after `PutDoc`, `SaveRead` and `SaveDocs`. The
  runtime switches fibers inside a call only after many steps, and a call has few, so
  that the runs take one call at a time. `AutomergeTyped` is proved of such fibers too.
- A run with an old checkout (a rerun, or one that a later run overtook) whose
  version npm lacks makes that version the latest. The next run of the main
  branch then finds another version than its own, uploads again and is refused
  (publish-package.ts:85): it blocks that package and all that depend on it until
  somebody names the right version latest. `RerunCompletes` therefore starts from
  `Clear`.
- A release on GitHub that fails after the upload (publish-package.ts:197) is
  never made up for: reruns skip the package.
- Statements outside a transaction give the permit of the storage client back
  before they run (sql-storage-client.ts:116). As they are synchronous, and the
  steps from the acquirer to the statement are few, a transaction of another fiber
  can begin in between only if the runtime switches fibers there; the statement
  would then be rolled back with it. `SqlPersistence` takes a statement and its
  permit as one step, and takes the storage to accept `BEGIN`, `COMMIT` and
  `ROLLBACK`, which the client sends like other statements.
- The reply of a mutation that was carried out may be lost: its caller is told of a
  failure, and `ToldIsTrue` leaves open what became of it. A caller that saves again
  gets a second record, as `saveEntity` makes an id for each call; an update or a
  deletion may be repeated.
- Every call of `createStore`'s methods builds the store's layer (helpers.ts:57),
  with a bus of its own: a subscription through the layer that `createStore` also
  gives out hears nothing of what the methods write.
- A first load that failed is remembered for its key (use-entity.ts:56): every later
  mount throws the same error until there is another runtime. Between the switch to
  another runtime and the resolution of its store a component reads its first load
  from the new runtime and subscribes to the store of the old one; `ShowsItsOwn`
  allows for that, `NeverBack` is about components of one runtime.
- react/README.md:94 says "`run` is a stable callback"; `build` is a closure that
  the hooks make anew for every render, so that `run` is another function each time.
- A call of a mutation that ends while the component is hidden leaves `pending` in
  the state until the next call; `StatusOfLastCall` says so.
- A run of assemble-changelog.ts by hand that is cut off after it wrote the file
  enters the remaining fragments again when it is repeated; a run of the workflow
  whose push is refused, because main moved by a push without fragments, fails, and
  the fragments wait for the next push that has some.
- Between backends: SQL refuses an offset without a limit (sql-persistence.ts:156)
  and a put over an id that is taken, where the others answer and overwrite; a
  comparison with null is never true in SQL (filter-sql.ts:77), where the
  in-memory filters let `neq` match null and `eq` find it. The contract
  takes the meaning of filters as a parameter and allows refusals, because its
  text leaves them open.

## Proofs

All from the named assumptions on constants, for any sets and bounds; what a theorem
asks in addition is named with it. The type invariant of each component is among the
theorems; that of `LensGraph` is part of `GraphInv`.

### Induction, folds and loops (`Loops`)

The provers here have no induction scheme they can instantiate, and a recursive
function is to them a `CHOOSE` among functions of which none need exist. Both are got
from the library's fact that `<` on `Nat` is well founded. A set of naturals has a least
element (`LeastNumber`), so that a *set* with zero and all successors is `Nat`
(`Induction`), and a *set* that has each value if it has all smaller ones is everything
(`SizeInduction`, over a measure): what is to be proved of n is written as the set of
the n it holds of. `FoldExists`, `LoopExists` and `IterationExists` construct the
function that a `FoldLeft` over a list, a loop with a state, or a definition on `Nat`
stands for, whether the loop ends or not. Every proof about a list or a loop of the code then
has the same form: the function exists, so that the one chosen satisfies its equation;
an invariant is kept by one turn; a measure goes down.

### Lens graph and store (`CoreProofs`)

- `CacheStaysCurrent`, `AnswersStayCurrent`. `CacheCurrent` is inductive: a registration
  empties the cache, a miss stores what the search returns for the present graph,
  everything else leaves both alone. What the search returns does not matter here.
- `PathsAreShortest` (for finitely many types). `W[n]` are the types within n edges of
  the start (`Levels`). In each state of the breadth-first search (`Good`) every entry of
  the queue has a path as long as its type's distance, the entries are ordered by
  distance and differ by at most one (`Layered`), and what has been visited and is not
  in the queue has all its neighbours visited (`Covered`). So the first edge that hits
  the target ends a shortest path, and an empty queue means that what was visited is
  closed and the target in no `W[n]`. A turn takes an entry off the queue and adds one
  for each type that it visits newly, so that the unvisited types and the queue together
  go down (`Left`). `SearchRight` is the result for any graph and any two types.
- `VersionsReadBothWays`, `AcceptedIsReadable`. The graph of a `GraphSpec` mirrors its
  lenses (`GraphInv`): an edge for either direction of each lens registered, and no
  other, also where lenses are parallel or lead from a type to itself. Hence levels are
  symmetric; `getConnectedTypes`, an iteration to a fixpoint, gives the types of some
  `W[n]`; and `defineEntity` accepts exactly if all versions are among them.
- `TypeCorrect` (the store). From `ValidIsData`: what decodes as a schema is data.
- `SubscribersStayFresh`. From `Separate` (entities share neither schemas nor ids) and
  `MayAbort = FALSE`; `MCStore` with its overlapping constants, or with
  `MayAbort = TRUE`, fails, so that neither can be dropped. `Fresh` is not inductive: a
  value that was read and not yet emitted is the same obligation one step earlier
  (`FreshSub`), and a record must be stored under a schema of an entity that owns its id
  (`OwnedRows`), so that the event of a write concerns every list the record was or will
  be in. The lemma `OneRecordNotifies` says that a write changes no view or is
  announced; the rest is that buffers lose only events that lead to a reload.
- `StoredStaysValid`, `ShownStaysValid`, `SavesAloneCreate`: without those two
  conditions. The first two ask `PatchesFit` (merging the fitting part of a patch keeps
  valid data valid), which is what store.ts:243 asks of callers. `StoredInv` adds the row
  an update has validated and carries across its await; `ShownInv` adds the value a
  stream has read and not emitted. That rows of the asked schema are passed on
  unvalidated is sound by the first theorem.

### Backends

- `TinyBaseProofs!TypeCorrect`, `IndexesStayComplete` (from `Retypes = FALSE`: no put
  changes a record's type) and `QueriesStayExact` (and `PlainQueries`: no filter asks for
  null). The completeness of `byType` and of the indexes is inductive because the entries
  of two records are never the same (`EntriesOwn`), so that removing those of one keeps
  those of the others. They hold for types that share the name of an index, which
  compute-indexes.ts:12 lets happen.
- `TinyBaseImplements` (`ImplementsPersistence`): each call is a step of `Persistence`.
  In addition to the above it asks that only the first entry of a patch may have a
  pattern that does not compile (`FirstRefusedOnly`); the other case is the behaviour
  described above. A patch is one step of the contract and one step per entry
  here: while it runs, the records are those before it with the first entries of its call
  applied (`Along`, a `Chain` of values of which each is got from the one before by
  one entry), and at the end that chain is the contract's fold.
- `AutomergeProofs!AutomergeTyped`: for any number of fibers that switch anywhere, and
  restarts in the middle of calls. It needs that what a patch remembers is of records
  that the catalog had (`DoneSeen`).
- `CatalogStaysAgreed`, `AutomergeQueriesExact` and `AutomergeImplements`, from `Careful`:
  fibers do not switch within a call (`Preempts = FALSE`), no put changes a type, all
  processes declare the same indexes (`OneSpec`), and `FirstRefusedOnly`; the last two also
  from `PlainQueries`. *Behaviour worth knowing* tells what happens without each of these.
  The invariant (`Inv`, `AutomergeInvariant`) says what is true in the middle of each kind
  of call (`Mid`): all records but one are settled (`Elsewhere`), or a patch has applied its
  first entries to the documents and the catalog is as it read it, right about the
  records it did not touch (`Patching`), with the last round that changed a record
  telling the keys it will be indexed under; and that a saved state agrees with itself,
  since a new process starts from it. To the contract the write of the catalog is the
  call, and `settled` are the records it has until then.
- `SqlProofs!SqlTyped`, `CallsAreWhole`: for any number of fibers whose statements
  interleave. A permit is with the client whose patch runs and with no other (`Permit`);
  while it is, what `before` holds is what is committed, and the table is `before`
  with the first entries of that patch applied, because nobody else's statement is let
  in (`Underway`).
- `DeclaredIndexesStay`, from `OneDeclaration`: all lists of indexes that `initialize` can
  succeed with name the same indexes, as they do if one program uses the database; others
  would drop each other's. An `initialize` that can still succeed has created what it has
  gone through, expects it, and has nothing wanted among what it drops (`Declaring`),
  whichever others run between its statements.
- `DurableStoreProofs!DurableTyped`, `AnswersAreTrue`, `AcknowledgedLasts`: for any
  ids and any numbers of calls, losses and evictions. `ToldIsTrue` becomes inductive
  with what a message knows (`Telling`): while an RPC of a call is under way, its
  write was carried out exactly if that message is the answer to it, since a call
  has one RPC at a time and nothing sends one again. `AcknowledgedIsFound` needs in
  addition that a save that was carried out left a record unless somebody deletes it
  (`Stored`).

### Hooks (`ReactProofs`)

- `UseEntityTyped`, `ComponentsShowTheirOwn`, `ComponentsNeverGoBack`: for any
  components, ids and runtimes, whatever the provider and the streams do. The invariant
  (`ShowsInv`) is that a promise is of its own place and not of the future, and that a
  component which got past its promise has a stream whose value is of the place it was
  rendered with, not older than the promise and not older than what was shown before.
- `RunHooksTyped`, `AnswersOfNewestRuns`, `StatusIsOfLastCall`: for any dependencies and
  any number of runs. An answer that is there while effects are connected is of the
  newest run, also when a later render has not yet committed (`QueryInv`).

### Scripts (`ReleaseProofs`)

- `PublishTyped`, `PublishInOrder` and `PublishComplete`: for any finite set of packages
  with any dependencies and any number of runs. What makes `DependenciesFirst` inductive
  is what a run knows (`Sound`): what it counts as published is on npm in the version of
  its checkout, and past the preflight so are the dependencies of its package. npm keeps
  what it has, so that no other run can make this false. The order of the loop is not
  needed for it, as the preflight looks up what was not seen.
- `RerunRepairs` (`RerunCompletes`) is where the order is needed. `RerunInv` says that an
  undisturbed run is alone, that its preflight has nothing to look up (`Ordered`), and
  that npm names what the run has published latest. That the sorted list has each
  package's dependencies ahead of it is proved of Kahn's algorithm (`SortedIs`): at each
  turn the queue has, each once, the packages whose dependencies are sorted and which are not
  (`SortInv`), so that none is sorted twice and the unsorted ones go down.
- `OnlyCyclesFail`: if every package can be ranked above all that it depends on, the
  sort leaves none out, whatever the order in which the directory is listed. So the
  script's error about a circular dependency (publish-all.ts:98) is never wrong.
- `ChangelogTyped`, `FragmentsEnteredOnce`, `SuccessIsComplete`: for any fragments and
  developers. What is said of the tip of main is said of the tree of every run whose push
  would be accepted (`RunSound`), with the fragments that are written and not yet deleted
  in between; a run whose base is no longer the tip needs no invariant, as its push is
  refused. For the second property the run foresees what is in the directory (`Foreseen`):
  nothing is added without a request.

### Only model-checked

Liveness: `Converges`, `CallsEnd`, `CallsReturn`, `ComesToShow`, `ComesToAnswer` and
`ComesToBeEntered`. Their proofs need `ENABLED` of each fair action, which is out of the
prover's reach. That the hypotheses of the theorems can be met is shown by the runs, whose
constants meet them (`MCAutomerge` and `MCTinyBase` those of the refinements, `MCSql` with two
lists one of which is refused, `MCStore` those of `Fresh`).

## Not modelled, and what is left

- `computeIndexSpecs` (core/src/compute-indexes.ts) is a function of the schemas:
  which fields are indexed, and under which names, are constants of the backends.
  The theorems about TinyBase hold for names that types share.
- The pump of a backend with a change stream (store.ts, `subscribe` of the
  contract): no backend of the repository has one.
- The merge of Automerge documents with a peer's happens in the application;
  `AutomergePersistence` has restarts from saved states instead.
- The listener hooks keep no state: an effect forks a fiber and its cleanup
  interrupts it, as in `UseEntity`. The atom factories are wrappers of a library
  that is not in the repository.
- changelog-entry.ts, changelog.ts and release-notes.ts make text. The examples use
  the library.

Left to prove: `ImplementsPersistence` of Automerge with two fibers, for those
interleavings that do no harm (calls on different records), and with releases that
declare other indexes, for all but queries. Left to model: the merge
with a peer, and two stores over one Durable Object with their buses.
