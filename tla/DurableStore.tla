------------------------------ MODULE DurableStore ------------------------------
(***************************************************************************)
(* packages/cloudflare: the methods of createStore, which reach the        *)
(* records of a Durable Object through the RPC stub of doStubPersistence.  *)
(*                                                                         *)
(* Every method builds the Store layer anew, so that a call begins with    *)
(* `initialize`, goes on with what its operation reads and writes, and     *)
(* awaits each RPC.  Requests and replies travel, and either may be lost;  *)
(* the object may be evicted from memory at any time.  Its constructor     *)
(* builds the runtime and lets no request in before that; the table is     *)
(* made by the RPC initialize, if it is not there.  The object carries an  *)
(* RPC out in one step, as the statements of its storage are synchronous.  *)
(* A record is the number of the call that wrote it; schemas and lenses    *)
(* are those of module Store.                                              *)
(***************************************************************************)
EXTENDS Integers, Sequences

CONSTANTS
  Ids,
  MaxCalls,    \* bound: calls of the methods
  MaxLosses,   \* bound: lost messages, connections and evictions
  None

ASSUME DurableAssumption ==
  MaxCalls \in Nat /\ MaxLosses \in Nat /\ None \notin Nat

Ops == {"save", "update", "patch", "delete", "load"}

VARIABLES
  rows,     \* the table of the object: id -> the call that wrote it, or None
  object,   \* "absent", or "up"
  calls,    \* the calls made so far: [op, id, awaits, told], and known, which
            \* is auxiliary: a save of this id had been acknowledged before
  wire,     \* the RPCs under way: [call, rpc, at, result]
  applied,  \* auxiliary: call -> how often its write was carried out
  losses

vars == <<rows, object, calls, wire, applied, losses>>

Init ==
  /\ rows = [id \in Ids |-> None]
  /\ object = "absent"
  /\ calls = <<>> /\ wire = {} /\ applied = <<>>
  /\ losses = 0

-----------------------------------------------------------------------------
Request(n, rpc) == [call |-> n, rpc |-> rpc, at |-> "request", result |-> None]

Reply(m, result) == [m EXCEPT !.at = "reply", !.result = result]

Replace(m, next) == wire' = (wire \ {m}) \cup {next}

(* The end of a call: what its promise settles with.                       *)
Over(n, told) == calls' = [calls EXCEPT ![n].awaits = "nothing", ![n].told = told]

Send(n, m, rpc) ==
  /\ calls' = [calls EXCEPT ![n].awaits = rpc]
  /\ wire' = (wire \ {m}) \cup {Request(n, rpc)}

Acknowledged(id) ==
  \E n \in DOMAIN calls : calls[n].op = "save" /\ calls[n].id = id /\ calls[n].told = "ok"

(* run: the layer is provided to the effect of one method.                 *)
Invoke ==
  /\ Len(calls) < MaxCalls
  /\ \E op \in Ops, id \in Ids :
       calls' = Append(calls, [op |-> op, id |-> id, awaits |-> "initialize",
                               told |-> "nothing", known |-> Acknowledged(id)])
  /\ wire' = wire \cup {Request(Len(calls) + 1, "initialize")}
  /\ applied' = Append(applied, 0)
  /\ UNCHANGED <<rows, object, losses>>

(* What a method asks for when an RPC was answered: saveEntity puts,       *)
(* updateEntity and deleteEntity get and then write, loadEntity gets,      *)
(* patchEntities patches all records of an entity.                         *)
NextRpc(op, rpc) ==
  IF rpc = "get" THEN [update |-> "update", delete |-> "remove"][op]
  ELSE [save |-> "put", patch |-> "patch", update |-> "get", delete |-> "get",
        load |-> "get"][op]

Awaited(m) == m.at = "reply" /\ calls[m.call].awaits = m.rpc

GoOn(m) ==
  /\ Awaited(m) /\ m.result # "failed"
  /\ \/ m.rpc = "initialize"
     \/ m.rpc = "get" /\ calls[m.call].op = "delete"
     \/ m.rpc = "get" /\ calls[m.call].op = "update" /\ m.result # "missing"
  /\ Send(m.call, m, NextRpc(calls[m.call].op, m.rpc))
  /\ UNCHANGED <<rows, object, applied, losses>>

(* loadEntity, and the get of updateEntity, fail on a record that is not   *)
(* there; patchEntities returns that it changed none.                      *)
NotFound(m) ==
  /\ Awaited(m) /\ m.rpc \in {"get", "patch"} /\ m.result = "missing"
  /\ calls[m.call].op # "delete"
  /\ Over(m.call, "missing")
  /\ wire' = wire \ {m}
  /\ UNCHANGED <<rows, object, applied, losses>>

Succeed(m) ==
  /\ Awaited(m) /\ m.result = "ok"
  /\ \/ m.rpc \in {"put", "update", "patch", "remove"}
     \/ m.rpc = "get" /\ calls[m.call].op = "load"
  /\ Over(m.call, "ok")
  /\ wire' = wire \ {m}
  /\ UNCHANGED <<rows, object, applied, losses>>

(* Mutated: the stub tries a failed RPC again, for ever.                   *)
FailRetrying(n) ==
  /\ calls[n].awaits # "nothing"
  /\ ~ \E m \in wire : m.call = n /\ m.at # "reply"
  /\ \/ ~ \E m \in wire : m.call = n
     \/ \E m \in wire : m.call = n /\ Awaited(m) /\ m.result = "failed"
  /\ wire' = {m \in wire : m.call # n} \cup {Request(n, calls[n].awaits)}
  /\ UNCHANGED <<rows, object, calls, applied, losses>>

(* Any rejection of the RPC's promise is a PersistenceError: the object's  *)
(* own, and that of the runtime when request or reply were lost.           *)
Fail(n) ==
  /\ calls[n].awaits # "nothing"
  /\ ~ \E m \in wire : m.call = n /\ m.at # "reply"
  /\ \/ ~ \E m \in wire : m.call = n
     \/ \E m \in wire : m.call = n /\ Awaited(m) /\ m.result = "failed"
  /\ Over(n, "failed")
  /\ wire' = {m \in wire : m.call # n}
  /\ UNCHANGED <<rows, object, applied, losses>>

-----------------------------------------------------------------------------
Loss == losses < MaxLosses /\ losses' = losses + 1

(* The caller's connection breaks, and the object goes on with the request *)
(* or with carrying it out.                                                *)
Disconnect(n) ==
  /\ Loss
  /\ calls[n].awaits # "nothing"
  /\ \E m \in wire : m.call = n /\ m.at # "reply"
  /\ Over(n, "failed")
  /\ UNCHANGED <<rows, object, wire, applied>>

Lose(m) ==
  /\ Loss
  /\ wire' = wire \ {m}
  /\ UNCHANGED <<rows, object, calls, applied>>

(* A reply that nobody waits for any more.                                 *)
Ignore(m) ==
  /\ m.at = "reply" /\ ~ Awaited(m)
  /\ wire' = wire \ {m}
  /\ UNCHANGED <<rows, object, calls, applied, losses>>

(* The object leaves the memory, for lack of work or by a new deployment.  *)
Evict ==
  /\ Loss
  /\ object = "up"
  /\ object' = "absent"
  /\ UNCHANGED <<rows, calls, wire, applied>>

(* Mutated: the constructor makes a table of its own.                      *)
ConstructAnew ==
  /\ object = "absent"
  /\ \E m \in wire : m.at = "request"
  /\ object' = "up"
  /\ rows' = [id \in Ids |-> None]
  /\ UNCHANGED <<calls, wire, applied, losses>>

(* The constructor, in blockConcurrencyWhile, builds the runtime.  It does *)
(* not touch the storage, where the table of before still is.              *)
Construct ==
  /\ object = "absent"
  /\ \E m \in wire : m.at = "request"
  /\ object' = "up"
  /\ UNCHANGED <<rows, calls, wire, applied, losses>>

-----------------------------------------------------------------------------
IdOf(m) == calls[m.call].id

Arrived(m, rpc) == object = "up" /\ m.at = "request" /\ m.rpc = rpc

Apply(m, row) ==
  /\ rows' = [rows EXCEPT ![IdOf(m)] = row]
  /\ applied' = [applied EXCEPT ![m.call] = @ + 1]

(* CREATE TABLE IF NOT EXISTS: the rows of a table that is there stay.     *)
Initialize(m) ==
  /\ Arrived(m, "initialize")
  /\ Replace(m, Reply(m, "ok"))
  /\ UNCHANGED <<rows, object, calls, applied, losses>>

Get(m) ==
  /\ Arrived(m, "get")
  /\ Replace(m, Reply(m, IF rows[IdOf(m)] = None THEN "missing" ELSE "ok"))
  /\ UNCHANGED <<rows, object, calls, applied, losses>>

(* The INSERT of put, which a key that is there refuses.                   *)
Put(m) ==
  /\ Arrived(m, "put")
  /\ IF rows[IdOf(m)] = None
     THEN Apply(m, m.call) /\ Replace(m, Reply(m, "ok"))
     ELSE Replace(m, Reply(m, "failed")) /\ UNCHANGED <<rows, applied>>
  /\ UNCHANGED <<object, calls, losses>>

(* The UPDATE of update, which fails if it then finds no such row.         *)
Update(m) ==
  /\ Arrived(m, "update")
  /\ IF rows[IdOf(m)] # None
     THEN Apply(m, m.call) /\ Replace(m, Reply(m, "ok"))
     ELSE Replace(m, Reply(m, "failed")) /\ UNCHANGED <<rows, applied>>
  /\ UNCHANGED <<object, calls, losses>>

(* The transaction of patch, which returns how many rows it changed.       *)
Patch(m) ==
  /\ Arrived(m, "patch")
  /\ IF \E id \in Ids : rows[id] # None
     THEN /\ rows' = [id \in Ids |-> IF rows[id] = None THEN None ELSE m.call]
          /\ applied' = [applied EXCEPT ![m.call] = @ + 1]
          /\ Replace(m, Reply(m, "ok"))
     ELSE Replace(m, Reply(m, "missing")) /\ UNCHANGED <<rows, applied>>
  /\ UNCHANGED <<object, calls, losses>>

Remove(m) ==
  /\ Arrived(m, "remove")
  /\ Apply(m, None)
  /\ Replace(m, Reply(m, "ok"))
  /\ UNCHANGED <<object, calls, losses>>

-----------------------------------------------------------------------------
Object(m) ==
  Initialize(m) \/ Get(m) \/ Put(m) \/ Update(m) \/ Patch(m) \/ Remove(m)

Stub(m) == GoOn(m) \/ NotFound(m) \/ Succeed(m) \/ Ignore(m)

Rpc == \E m \in wire : Object(m) \/ Stub(m)

Next ==
  \/ Invoke
  \/ Rpc
  \/ \E m \in wire : Lose(m)
  \/ \E n \in DOMAIN calls : Fail(n) \/ Disconnect(n)
  \/ Evict \/ Construct

Spec == Init /\ [][Next]_vars

(* Messages that are not lost arrive, the object is constructed when there *)
(* is a request, and the runtime rejects what it lost.                     *)
FairSpec ==
  /\ Spec
  /\ WF_vars(Rpc) /\ WF_vars(Construct)
  /\ \A n \in 1..MaxCalls : WF_vars(n \in DOMAIN calls /\ Fail(n))
-----------------------------------------------------------------------------
Rpcs == {"initialize", "get", "put", "update", "patch", "remove"}

Calls == [op : Ops, id : Ids, awaits : Rpcs \cup {"nothing"},
          told : {"nothing", "ok", "missing", "failed"}, known : BOOLEAN]

Messages(numbers) ==
  [call : numbers, rpc : Rpcs, at : {"request"}, result : {None}]
  \cup [call : numbers, rpc : Rpcs, at : {"reply"}, result : {"ok", "missing", "failed"}]

(* The variables stay of the kinds the code declares, and no RPC is under  *)
(* way twice.                                                              *)
TypeOK ==
  /\ rows \in [Ids -> DOMAIN calls \cup {None}]
  /\ object \in {"absent", "up"}
  /\ calls \in Seq(Calls) /\ Len(calls) <= MaxCalls
  /\ \A n \in DOMAIN calls : calls[n].told = "nothing" <=> calls[n].awaits # "nothing"
  /\ wire \subseteq Messages(DOMAIN calls)
  /\ \A m, o \in wire : m.call = o.call => m = o
  /\ applied \in Seq(Nat) /\ Len(applied) = Len(calls)
  /\ losses \in 0..MaxLosses

(* stub-persistence.ts:24-67: a mutation whose success a caller was told   *)
(* was carried out, one that met no record was not, and none is carried    *)
(* out twice: whatever is lost, nothing behind a call repeats its RPCs.    *)
(* Of one whose failure was told, this leaves open whether it was.         *)
ToldIsTrue ==
  \A n \in DOMAIN calls :
    /\ applied[n] <= 1
    /\ calls[n].told = "ok" /\ calls[n].op # "load" => applied[n] = 1
    /\ calls[n].told = "missing" => applied[n] = 0

(* storic-object.ts:47-52: what the object acknowledged survives it.  A    *)
(* load, an update or a patch that began after a save of its id was        *)
(* acknowledged misses the record only if somebody deletes it.             *)
AcknowledgedIsFound ==
  \A n \in DOMAIN calls :
    calls[n].known /\ calls[n].told = "missing" =>
      \E m \in DOMAIN calls : calls[m].op = "delete" /\ calls[m].id = calls[n].id

(* Every promise of createStore settles, although messages are lost and    *)
(* the object has to be constructed again.                                 *)
CallsReturn ==
  \A n \in 1..MaxCalls :
    n \in DOMAIN calls ~> (n \in DOMAIN calls /\ calls[n].awaits = "nothing")
=============================================================================
