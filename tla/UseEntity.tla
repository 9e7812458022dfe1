------------------------------- MODULE UseEntity -------------------------------
(***************************************************************************)
(* The reading hooks of packages/react: StoricProvider, useEntity with its *)
(* cache of first loads, and useStreamState below it.                      *)
(*                                                                         *)
(* A component is given an id, suspends until the first load of that id    *)
(* has ended, is committed with what that load returned, and subscribes in *)
(* an effect.  React renders when it likes: the provider, the parent and   *)
(* the writers of the records may all move before a component renders or   *)
(* its effects run.  useEntities differs in the key only.                  *)
(*                                                                         *)
(* The records of one store are those behind one runtime.  A record is the *)
(* number of writes to it and whether the last one left it deleted; a      *)
(* stream is one subscription of module Store, which reloads upon events.  *)
(***************************************************************************)
EXTENDS Integers, Sequences, Functions

CONSTANTS
  Components, Ids, Runtimes,
  MayFail,     \* TRUE: loads, streams and the provider's resolution may fail
  MaxWrites,   \* bound: writes to records
  MaxMoves,    \* bound: moves of the application and its user
  None

Places == Runtimes \X Ids

(* What a load returned.                                                   *)
Readings == [place : Places, writes : Nat, gone : BOOLEAN]

ASSUME UseEntityAssumption ==
  /\ Runtimes # {}
  /\ None \notin Ids \cup Runtimes \cup Readings
  /\ MayFail \in BOOLEAN
  /\ MaxWrites \in Nat /\ MaxMoves \in Nat

VARIABLES
  db,        \* place -> [writes, gone]: the record there
  owed,      \* the places whose last change is not yet on the bus
  attempts,  \* the provider's resolutions of Store, one per runtime prop
  store,     \* what the provider has in its state: a runtime's store, or None
  cache,     \* place -> the promise of its first load
  want,      \* component -> the id its parent gives it; None: not rendered
  view,      \* component -> what React and useStreamState hold for it
  moves

vars == <<db, owed, attempts, store, cache, want, view, moves>>

-----------------------------------------------------------------------------
NoStream == [phase |-> "off", dirty |-> FALSE, value |-> None]
Starting == [NoStream EXCEPT !.phase = "load"]

Unmounted == [phase |-> "off", deps |-> None, data |-> None, stream |-> NoStream]
Thrown == [Unmounted EXCEPT !.phase = "thrown"]

Mounted(c) == view[c].phase \in {"committed", "subscribed"}

(* What a load of this place returns now.                                  *)
Present(place) == [place |-> place, writes |-> db[place].writes, gone |-> db[place].gone]

Attempt(runtime) == [runtime |-> runtime, cancelled |-> FALSE, state |-> "open"]

Runtime == attempts[Len(attempts)].runtime

(* What the component would be rendered with now.                          *)
Deps(c) == [runtime |-> Runtime, store |-> store, id |-> want[c]]

(* The promise is looked up under the runtime and the id.                  *)
KeyOf(deps) == <<deps.runtime, deps.id>>

(* Where the stream reads.                                                 *)
SourceOf(deps) == <<deps.store, deps.id>>

Init ==
  /\ db = [p \in Places |-> [writes |-> 0, gone |-> TRUE]]
  /\ owed = {}
  /\ attempts = <<Attempt(CHOOSE r \in Runtimes : TRUE)>>
  /\ store = None
  /\ cache = [p \in Places |-> [state |-> "none"]]
  /\ want = [c \in Components |-> None]
  /\ view = [c \in Components |-> Unmounted]
  /\ moves = 0

-----------------------------------------------------------------------------
(* Writers, through this application or another.  The event follows the    *)
(* write in a step of its own.                                             *)
Written == FoldFunction(LAMBDA a, b : a + b, 0, [p \in Places |-> db[p].writes])

Write(p) ==
  /\ Written < MaxWrites
  /\ \E gone \in {~ db[p].gone, FALSE} :
       db' = [db EXCEPT ![p] = [writes |-> @.writes + 1, gone |-> gone]]
  /\ owed' = owed \cup {p}
  /\ UNCHANGED <<attempts, store, cache, want, view, moves>>

Hears(c, p) == view[c].stream.phase # "off" /\ SourceOf(view[c].deps) = p

Publish(p) ==
  /\ p \in owed
  /\ owed' = owed \ {p}
  /\ view' = [c \in Components |->
                IF Hears(c, p) THEN [view[c] EXCEPT !.stream.dirty = TRUE] ELSE view[c]]
  /\ UNCHANGED <<db, attempts, store, cache, want, moves>>

-----------------------------------------------------------------------------
Move == moves < MaxMoves /\ moves' = moves + 1

(* The runtime prop changes: the cleanup of the effect cancels the attempt *)
(* under way, its body starts another.  The store in the state stays.      *)
SwitchRuntime ==
  /\ Move
  /\ \E r \in Runtimes \ {Runtime} :
       attempts' = Append([attempts EXCEPT ![Len(attempts)].cancelled = TRUE], Attempt(r))
  /\ UNCHANGED <<db, owed, store, cache, want, view>>

(* Mutated: whichever attempt resolves sets the store.                     *)
ResolveAnyway(n) ==
  /\ attempts[n].state = "open"
  /\ attempts' = [attempts EXCEPT ![n].state = "resolved"]
  /\ store' = attempts[n].runtime
  /\ UNCHANGED <<db, owed, cache, want, view, moves>>

Resolve(n) ==
  /\ attempts[n].state = "open"
  /\ attempts' = [attempts EXCEPT ![n].state = "resolved"]
  /\ store' = IF attempts[n].cancelled THEN store ELSE attempts[n].runtime
  /\ UNCHANGED <<db, owed, cache, want, view, moves>>

(* A layer that cannot be built is warned about and nothing else.          *)
ResolveFails(n) ==
  /\ MayFail
  /\ attempts[n].state = "open"
  /\ attempts' = [attempts EXCEPT ![n].state = "failed"]
  /\ UNCHANGED <<db, owed, store, cache, want, view, moves>>

(* The parent mounts the component, gives it another id or removes it.     *)
GiveId(c, id) ==
  /\ Move
  /\ id # want[c]
  /\ want' = [want EXCEPT ![c] = id]
  /\ view' = IF id = None THEN [view EXCEPT ![c] = Unmounted] ELSE view
  /\ UNCHANGED <<db, owed, attempts, store, cache>>

(* A boundary that caught the component's error renders it anew.           *)
Reset(c) ==
  /\ Move
  /\ view[c].phase = "thrown"
  /\ view' = [view EXCEPT ![c] = Unmounted]
  /\ UNCHANGED <<db, owed, attempts, store, cache, want>>

(* React hides the component and keeps its state, or tries its effects     *)
(* twice: the last listener leaves, the fiber is interrupted and the       *)
(* snapshot is the initial one again.                                      *)
Hide(c) ==
  /\ Move
  /\ view[c].phase = "subscribed"
  /\ view' = [view EXCEPT ![c] = [@ EXCEPT !.phase = "committed", !.data = None,
                                           !.stream = NoStream]]
  /\ UNCHANGED <<db, owed, attempts, store, cache, want>>

-----------------------------------------------------------------------------
(* The component is to be rendered with other dependencies than before.    *)
MustRender(c) ==
  /\ want[c] # None /\ store # None
  /\ view[c].phase # "thrown"
  /\ view[c].phase = "off" \/ view[c].deps # Deps(c)

(* The first render of a key starts its load and suspends on the promise;  *)
(* the subscription there was goes on.                                     *)
Suspend(c) ==
  /\ MustRender(c)
  /\ cache[KeyOf(Deps(c))].state = "none"
  /\ cache' = [cache EXCEPT ![KeyOf(Deps(c))] = [state |-> "pending"]]
  /\ UNCHANGED <<db, owed, attempts, store, want, view, moves>>

LoadEnds(p) ==
  /\ cache[p].state = "pending"
  /\ cache' = [cache EXCEPT ![p] = [state |-> "loaded", value |-> Present(p)]]
  /\ UNCHANGED <<db, owed, attempts, store, want, view, moves>>

(* A failure of the load, other than that there is no such record, is      *)
(* remembered for the key like an answer.                                  *)
LoadFails(p) ==
  /\ MayFail
  /\ cache[p].state = "pending"
  /\ cache' = [cache EXCEPT ![p] = [state |-> "failed"]]
  /\ UNCHANGED <<db, owed, attempts, store, want, view, moves>>

(* Mutated: the id is forgotten among the dependencies.                    *)
MemoizedByStore(deps) == <<deps.runtime, deps.store>>

(* What decides whether the object of listeners, snapshot and fiber stays. *)
MemoizedBy(deps) == <<deps.runtime, deps.store, deps.id>>

(* A render that gets past the promise.  With other dependencies there is  *)
(* a new object with an initial snapshot; the fiber of the old one, of     *)
(* which nothing is shown any more, is interrupted.                        *)
Render(c) ==
  /\ MustRender(c)
  /\ cache[KeyOf(Deps(c))].state = "loaded"
  /\ view' = [view EXCEPT ![c] =
       IF Mounted(c) /\ MemoizedBy(@.deps) = MemoizedBy(Deps(c))
       THEN [@ EXCEPT !.deps = Deps(c)]
       ELSE [Unmounted EXCEPT !.phase = "committed", !.deps = Deps(c)]]
  /\ UNCHANGED <<db, owed, attempts, store, cache, want, moves>>

RenderThrows(c) ==
  /\ MustRender(c)
  /\ cache[KeyOf(Deps(c))].state = "failed"
  /\ view' = [view EXCEPT ![c] = Thrown]
  /\ UNCHANGED <<db, owed, attempts, store, cache, want, moves>>

(* The effect of useSyncExternalStore: the first listener starts a fiber.  *)
Subscribe(c) ==
  /\ view[c].phase = "committed"
  /\ view' = [view EXCEPT ![c] = [@ EXCEPT !.phase = "subscribed", !.stream = Starting]]
  /\ UNCHANGED <<db, owed, attempts, store, cache, want, moves>>

-----------------------------------------------------------------------------
Stream(c, stream) ==
  /\ view' = [view EXCEPT ![c].stream = stream]
  /\ UNCHANGED <<db, owed, attempts, store, cache, want, moves>>

StreamReads(c) ==
  /\ view[c].stream.phase = "load"
  /\ Stream(c, [view[c].stream EXCEPT !.phase = "emit",
                                      !.value = Present(SourceOf(view[c].deps))])

StreamHears(c) ==
  /\ view[c].stream.phase = "idle" /\ view[c].stream.dirty
  /\ Stream(c, Starting)

(* An emission becomes the snapshot, and the listener renders at once.     *)
StreamEmits(c) ==
  /\ view[c].stream.phase = "emit"
  /\ LET stream == view[c].stream
     IN  view' = [view EXCEPT ![c].data = stream.value,
                              ![c].stream = [stream EXCEPT !.phase = "idle", !.value = None]]
  /\ UNCHANGED <<db, owed, attempts, store, cache, want, moves>>

(* An error of the stream becomes the snapshot; the render throws it.      *)
StreamFails(c) ==
  /\ MayFail
  /\ view[c].stream.phase = "emit"
  /\ view' = [view EXCEPT ![c] = Thrown]
  /\ UNCHANGED <<db, owed, attempts, store, cache, want, moves>>

(* Mutated: a record that is deleted, null, counts as not there yet.       *)
ShownUnlessNull(c) ==
  IF view[c].data = None THEN cache[KeyOf(view[c].deps)].value
  ELSE IF view[c].data.gone THEN cache[KeyOf(view[c].deps)].value
  ELSE view[c].data

(* What the hook returns to a component that is mounted.                   *)
Shown(c) ==
  IF view[c].data = None THEN cache[KeyOf(view[c].deps)].value ELSE view[c].data

-----------------------------------------------------------------------------
Application ==
  \/ SwitchRuntime
  \/ \E c \in Components :
       \/ \E id \in Ids \cup {None} : GiveId(c, id)
       \/ Reset(c)
       \/ Hide(c)

Provider == \E n \in DOMAIN attempts : Resolve(n) \/ ResolveFails(n)

Hook(c) == Suspend(c) \/ Render(c) \/ RenderThrows(c) \/ Subscribe(c)

Fiber(c) == StreamReads(c) \/ StreamHears(c) \/ StreamEmits(c) \/ StreamFails(c)

Next ==
  \/ Application
  \/ Provider
  \/ \E p \in Places : Write(p) \/ Publish(p) \/ LoadEnds(p) \/ LoadFails(p)
  \/ \E c \in Components : Hook(c) \/ Fiber(c)

Spec == Init /\ [][Next]_vars

(* Promises settle, React renders and runs effects, streams and events go  *)
(* on.  Nobody has to write, to move, or to fail.                          *)
FairSpec ==
  /\ Spec
  /\ WF_vars(Provider)
  /\ \A p \in Places : WF_vars(Publish(p)) /\ WF_vars(LoadEnds(p) \/ LoadFails(p))
  /\ \A c \in Components : WF_vars(Hook(c)) /\ WF_vars(Fiber(c))
-----------------------------------------------------------------------------
Promises == [state : {"none", "pending", "failed"}] \cup [state : {"loaded"}, value : Readings]
Rendered == [runtime : Runtimes, store : Runtimes, id : Ids]
Streams == [phase : {"load", "emit", "idle"}, dirty : BOOLEAN,
            value : Readings \cup {None}]
Views == [phase : {"off", "thrown"}, deps : {None}, data : {None}, stream : {NoStream}]
         \cup [phase : {"committed"}, deps : Rendered, data : {None}, stream : {NoStream}]
         \cup [phase : {"subscribed"}, deps : Rendered, data : Readings \cup {None},
               stream : Streams]

(* The variables stay of the kinds the code declares.                      *)
TypeOK ==
  /\ db \in [Places -> [writes : Nat, gone : BOOLEAN]]
  /\ owed \subseteq Places
  /\ attempts \in Seq([runtime : Runtimes, cancelled : BOOLEAN,
                       state : {"open", "resolved", "failed"}])
  /\ attempts # <<>>
  /\ store \in Runtimes \cup {None}
  /\ cache \in [Places -> Promises]
  /\ want \in [Components -> Ids \cup {None}]
  /\ view \in [Components -> Views]
  /\ moves \in 0..MaxMoves

(* use-entity.ts:35-71: whatever the component was given before, whichever *)
(* stream is still open and whatever the provider is about to resolve, a   *)
(* component whose render is up to date shows a record with the id it was  *)
(* given, and once the provider has resolved the runtime, one of that      *)
(* runtime.                                                                *)
ShowsItsOwn ==
  \A c \in Components :
    Mounted(c) /\ view[c].deps = Deps(c) =>
      /\ Shown(c).place[2] = want[c]
      /\ Shown(c).place[1] \in {Runtime, store}

(* cache.ts:10-15: the stale promise is read on a first render only.  From *)
(* then on, for as long as a component stays subscribed to one record, it  *)
(* never shows an older state of it than it did, a deletion included.      *)
NeverBack ==
  [][\A c \in Components :
       (/\ view[c].phase = "subscribed" /\ view'[c].phase = "subscribed"
        /\ view[c].deps = view'[c].deps
        /\ view[c].deps.runtime = view[c].deps.store)
         => Shown(c)'.writes >= Shown(c).writes]_vars

(* What a component that the application leaves alone has come to: the     *)
(* present record, an error, or no runtime to read from.                   *)
UpToDate(c) ==
  \/ want[c] = None
  \/ view[c].phase = "thrown"
  \/ attempts[Len(attempts)].state = "failed"
  \/ /\ view[c].phase = "subscribed" /\ view[c].deps = Deps(c)
     /\ Shown(c) = Present(<<Runtime, want[c]>>)

(* use-entity.ts:19-22, provider.tsx:24-26: after the first load the value *)
(* is kept live: no component stays suspended, or shows a record of before *)
(* a write, or of a runtime its provider was given before, for ever.       *)
ComesToShow == \A c \in Components : []<>UpToDate(c)
=============================================================================
