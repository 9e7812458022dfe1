-------------------------- MODULE DurableStoreProofs --------------------------
(***************************************************************************)
(* Proofs about DurableStore: what a caller was told of a mutation is true *)
(* and what the object acknowledged is found again, for any number of ids, *)
(* calls, lost messages and evictions.                                     *)
(***************************************************************************)
EXTENDS DurableStore, SequenceTheorems, TLAPS

Answers == {"nothing", "ok", "missing", "failed"}

(* The calls that were made keep what they were asked for.                 *)
Keeps(n) ==
  /\ calls'[n].op = calls[n].op /\ calls'[n].id = calls[n].id
  /\ calls'[n].known = calls[n].known

(* The calls are numbered without gaps, and each has its count.            *)
LEMMA Numbers ==
  TypeOK => /\ Len(calls) \in Nat /\ DOMAIN calls = 1..Len(calls)
            /\ DOMAIN applied = DOMAIN calls
            /\ \A n \in DOMAIN calls : calls[n] \in Calls /\ applied[n] \in Nat
<1> SUFFICES ASSUME TypeOK
             PROVE  /\ Len(calls) \in Nat /\ DOMAIN calls = 1..Len(calls)
                    /\ DOMAIN applied = DOMAIN calls
                    /\ \A n \in DOMAIN calls : calls[n] \in Calls /\ applied[n] \in Nat
  OBVIOUS
<1>1. calls \in Seq(Calls) /\ applied \in Seq(Nat) /\ Len(applied) = Len(calls)
  BY DEF TypeOK
<1> QED BY <1>1, LenProperties

(* One call goes on to await something else, or settles.                   *)
LEMMA CallChanged ==
  ASSUME TypeOK, NEW n \in DOMAIN calls, NEW call \in Calls,
         call.op = calls[n].op, call.id = calls[n].id, call.known = calls[n].known,
         calls' = [calls EXCEPT ![n] = call]
  PROVE  /\ calls' \in Seq(Calls) /\ Len(calls') = Len(calls) /\ DOMAIN calls' = DOMAIN calls
         /\ calls'[n] = call
         /\ \A k \in DOMAIN calls : Keeps(k)
         /\ \A k \in DOMAIN calls \ {n} : calls'[k] = calls[k]
<1>1. calls \in Seq(Calls) /\ n \in 1..Len(calls)
  BY Numbers DEF TypeOK
<1>2. /\ calls' \in Seq(Calls) /\ Len(calls') = Len(calls)
      /\ \A k \in 1..Len(calls) : calls'[k] = IF k = n THEN call ELSE calls[k]
  BY <1>1, ExceptSeq
<1>3. DOMAIN calls' = DOMAIN calls /\ DOMAIN calls = 1..Len(calls)
  BY <1>2, Numbers, LenProperties
<1> QED BY <1>2, <1>3 DEF Keeps

(* A promise that settles changes the call that waited for it alone.       *)
LEMMA CallOver ==
  ASSUME TypeOK, NEW n \in DOMAIN calls, NEW told \in Answers, Over(n, told)
  PROVE  /\ calls' \in Seq(Calls) /\ Len(calls') = Len(calls) /\ DOMAIN calls' = DOMAIN calls
         /\ calls'[n].awaits = "nothing" /\ calls'[n].told = told
         /\ \A k \in DOMAIN calls : Keeps(k)
         /\ \A k \in DOMAIN calls \ {n} : calls'[k] = calls[k]
<1> DEFINE call == [calls[n] EXCEPT !.awaits = "nothing", !.told = told]
<1>1. /\ call \in Calls /\ call.awaits = "nothing" /\ call.told = told
      /\ call.op = calls[n].op /\ call.id = calls[n].id /\ call.known = calls[n].known
  BY Numbers DEF Calls, Answers
<1>2. calls' = [calls EXCEPT ![n] = call]
  BY Numbers DEF Over, Calls
<1> HIDE DEF call
<1> QED BY <1>1, <1>2, CallChanged

(* So does an RPC that is sent.                                            *)
LEMMA CallSent ==
  ASSUME TypeOK, NEW n \in DOMAIN calls, NEW rpc \in Rpcs,
         calls' = [calls EXCEPT ![n].awaits = rpc]
  PROVE  /\ calls' \in Seq(Calls) /\ Len(calls') = Len(calls) /\ DOMAIN calls' = DOMAIN calls
         /\ calls'[n].awaits = rpc /\ calls'[n].told = calls[n].told
         /\ \A k \in DOMAIN calls : Keeps(k)
         /\ \A k \in DOMAIN calls \ {n} : calls'[k] = calls[k]
<1> DEFINE call == [calls[n] EXCEPT !.awaits = rpc]
<1>1. /\ call \in Calls /\ call.awaits = rpc /\ call.told = calls[n].told
      /\ call.op = calls[n].op /\ call.id = calls[n].id /\ call.known = calls[n].known
  BY Numbers DEF Calls, Answers
<1>2. calls' = [calls EXCEPT ![n] = call]
  BY Numbers
<1> HIDE DEF call
<1> QED BY <1>1, <1>2, CallChanged
-----------------------------------------------------------------------------
WireType(messages, numbers) ==
  /\ messages \subseteq Messages(numbers)
  /\ \A m, o \in messages : m.call = o.call => m = o

(* A message is a request or a reply of a call, the only one of that call. *)
LEMMA MessageType ==
  ASSUME TypeOK, NEW m \in wire
  PROVE  /\ m.call \in DOMAIN calls /\ m.rpc \in Rpcs /\ m.at \in {"request", "reply"}
         /\ m.at = "request" => m \in [call : DOMAIN calls, rpc : Rpcs, at : {"request"},
                                       result : {None}]
         /\ m.at = "reply" => m.result \in {"ok", "missing", "failed"}
         /\ \A o \in wire : o.call = m.call => o = m
         /\ calls[m.call] \in Calls /\ IdOf(m) \in Ids /\ applied[m.call] \in Nat
<1>1. m \in Messages(DOMAIN calls) /\ \A o \in wire : o.call = m.call => o = m
  BY DEF TypeOK
<1>2. /\ m.call \in DOMAIN calls /\ m.rpc \in Rpcs /\ m.at \in {"request", "reply"}
      /\ m.at = "request" => m \in [call : DOMAIN calls, rpc : Rpcs, at : {"request"},
                                    result : {None}]
      /\ m.at = "reply" => m.result \in {"ok", "missing", "failed"}
  BY <1>1 DEF Messages
<1>3. calls[m.call] \in Calls /\ applied[m.call] \in Nat
  BY <1>2, Numbers
<1>4. IdOf(m) \in Ids
  BY <1>3 DEF IdOf, Calls
<1> QED BY <1>1, <1>2, <1>3, <1>4

(* The object answers a request.                                           *)
LEMMA Replied ==
  ASSUME TypeOK, NEW m \in wire, m.at = "request", NEW result \in {"ok", "missing", "failed"},
         Replace(m, Reply(m, result))
  PROVE  /\ WireType(wire', DOMAIN calls)
         /\ Reply(m, result).call = m.call /\ Reply(m, result).rpc = m.rpc
         /\ Reply(m, result).at = "reply" /\ Reply(m, result).result = result
         /\ \A o \in wire' : o = Reply(m, result) \/ (o \in wire /\ o.call # m.call)
<1> DEFINE reply == Reply(m, result)
<1>1. /\ reply \in Messages(DOMAIN calls) /\ reply.call = m.call /\ reply.rpc = m.rpc
      /\ reply.at = "reply" /\ reply.result = result
  BY MessageType DEF Reply, Messages
<1>2. wire' = (wire \ {m}) \cup {reply}
  BY DEF Replace
<1> HIDE DEF reply
<1>3. \A o \in wire' : o = reply \/ (o \in wire /\ o.call # m.call)
  BY <1>2, MessageType
<1>4. WireType(wire', DOMAIN calls)
  BY <1>1, <1>2, <1>3 DEF TypeOK, WireType
<1> QED BY <1>1, <1>3, <1>4 DEF reply

(* A call without a message sends a request.                               *)
LEMMA Requested ==
  ASSUME NEW messages, NEW numbers, WireType(messages, numbers), NEW n \in numbers,
         NEW rpc \in Rpcs, \A o \in messages : o.call # n
  PROVE  /\ WireType(messages \cup {Request(n, rpc)}, numbers)
         /\ Request(n, rpc).call = n /\ Request(n, rpc).rpc = rpc
         /\ Request(n, rpc).at = "request" /\ Request(n, rpc).result = None
BY DEF WireType, Request, Messages

(* After a read, or the construction of the layer, a call goes on as its   *)
(* operation does.                                                         *)
LEMMA NextRpcType ==
  ASSUME TypeOK, NEW m \in wire, GoOn(m)
  PROVE  /\ NextRpc(calls[m.call].op, m.rpc) \in Rpcs
         /\ m.rpc = "get" => NextRpc(calls[m.call].op, m.rpc) =
              IF calls[m.call].op = "update" THEN "update" ELSE "remove"
         /\ m.rpc = "initialize" => NextRpc(calls[m.call].op, m.rpc) =
              IF calls[m.call].op = "save" THEN "put"
              ELSE IF calls[m.call].op = "patch" THEN "patch" ELSE "get"
<1>1. calls[m.call].op \in Ops
  BY MessageType DEF Calls
<1>2. CASE m.rpc = "initialize"
  BY <1>1, <1>2 DEF NextRpc, Ops, Rpcs
<1>3. CASE m.rpc = "get" /\ calls[m.call].op \in {"update", "delete"}
  BY <1>1, <1>3 DEF NextRpc, Ops, Rpcs
<1> QED BY <1>2, <1>3 DEF GoOn

(* Every step keeps the types.                                             *)
LEMMA TypeStep == TypeOK /\ [Next]_vars => TypeOK'
<1> SUFFICES ASSUME TypeOK, [Next]_vars PROVE TypeOK'
  OBVIOUS
<1>0. WireType(wire, DOMAIN calls)
  BY DEF TypeOK, WireType
<1>1. CASE Invoke
  <2>1. PICK op \in Ops, id \in Ids :
          calls' = Append(calls, [op |-> op, id |-> id, awaits |-> "initialize",
                                  told |-> "nothing", known |-> Acknowledged(id)])
    BY <1>1 DEF Invoke
  <2>2. PICK known \in BOOLEAN : known = Acknowledged(id)
    BY DEF Acknowledged
  <2> DEFINE call == [op |-> op, id |-> id, awaits |-> "initialize", told |-> "nothing",
                      known |-> known]
  <2>3. call \in Calls /\ call.awaits = "initialize" /\ call.told = "nothing"
    BY DEF Calls, Rpcs
  <2>4. calls' = Append(calls, call)
    BY <2>1, <2>2
  <2> HIDE DEF call
  <2>5. /\ calls' \in Seq(Calls) /\ Len(calls') = Len(calls) + 1
        /\ calls'[Len(calls) + 1] = call
        /\ \A n \in DOMAIN calls : calls'[n] = calls[n]
        /\ DOMAIN calls' = DOMAIN calls \cup {Len(calls) + 1}
    <3>1. calls \in Seq(Calls) /\ Len(calls) \in Nat /\ DOMAIN calls = 1..Len(calls)
      BY Numbers DEF TypeOK
    <3>2. /\ calls' \in Seq(Calls) /\ Len(calls') = Len(calls) + 1
          /\ calls'[Len(calls) + 1] = call
          /\ \A n \in 1..Len(calls) : calls'[n] = calls[n]
      BY <2>3, <2>4, <3>1, AppendProperties
    <3>3. DOMAIN calls' = 1..(Len(calls) + 1)
      BY <3>2, LenProperties
    <3> QED BY <3>1, <3>2, <3>3
  <2>6. applied' \in Seq(Nat) /\ Len(applied') = Len(calls')
    BY <1>1, <2>5, AppendProperties DEF Invoke, TypeOK
  <2>7. WireType(wire', DOMAIN calls')
    <3>1. WireType(wire, DOMAIN calls') /\ \A o \in wire : o.call # Len(calls) + 1
      <4>1. \A o \in wire : o.call \in 1..Len(calls) /\ Len(calls) \in Nat
        BY MessageType, Numbers
      <4> QED BY <1>0, <2>5, <4>1 DEF WireType, Messages
    <3>2. Len(calls) + 1 \in DOMAIN calls' /\ "initialize" \in Rpcs
      BY <2>5 DEF Rpcs
    <3> QED BY <1>1, <3>1, <3>2, Requested DEF Invoke
  <2>8. /\ \A n \in DOMAIN calls' : calls'[n].told = "nothing" <=> calls'[n].awaits # "nothing"
        /\ Len(calls') <= MaxCalls /\ rows' \in [Ids -> DOMAIN calls' \cup {None}]
    BY <1>1, <2>3, <2>5, Numbers, DurableAssumption DEF Invoke, TypeOK
  <2> QED BY <1>1, <2>5, <2>6, <2>7, <2>8 DEF Invoke, TypeOK, WireType
<1>2. ASSUME NEW m \in wire, Object(m) PROVE TypeOK'
  <2>1. /\ m.at = "request" /\ UNCHANGED <<object, calls, losses>>
        /\ \E result \in {"ok", "missing", "failed"} : Replace(m, Reply(m, result))
    BY <1>2 DEF Object, Initialize, Get, Put, Update, Patch, Remove, Arrived
  <2>2. WireType(wire', DOMAIN calls')
    BY <2>1, Replied
  <2>3. m.call \in DOMAIN calls /\ IdOf(m) \in Ids
    BY MessageType
  <2>4. \/ UNCHANGED <<rows, applied>>
        \/ /\ applied' = [applied EXCEPT ![m.call] = @ + 1]
           /\ rows' \in [Ids -> DOMAIN calls \cup {None}]
    BY <1>2, <2>3 DEF Object, Initialize, Get, Put, Update, Patch, Remove, Apply, TypeOK
  <2>5. /\ applied' \in Seq(Nat) /\ Len(applied') = Len(calls)
        /\ rows' \in [Ids -> DOMAIN calls \cup {None}]
    <3>1. /\ applied \in Seq(Nat) /\ Len(applied) = Len(calls)
          /\ m.call \in 1..Len(applied) /\ applied[m.call] + 1 \in Nat
          /\ rows \in [Ids -> DOMAIN calls \cup {None}]
      BY <2>3, Numbers DEF TypeOK
    <3>2. CASE UNCHANGED <<rows, applied>>
      BY <3>1, <3>2
    <3>3. CASE /\ applied' = [applied EXCEPT ![m.call] = @ + 1]
               /\ rows' \in [Ids -> DOMAIN calls \cup {None}]
      BY <3>1, <3>3, ExceptSeq
    <3> QED BY <2>4, <3>2, <3>3
  <2> QED BY <2>1, <2>2, <2>5 DEF TypeOK, WireType
<1>3. ASSUME NEW m \in wire, GoOn(m) PROVE TypeOK'
  <2> DEFINE rpc == NextRpc(calls[m.call].op, m.rpc)
  <2>1. rpc \in Rpcs /\ rpc # "nothing"
    BY <1>3, NextRpcType DEF Rpcs
  <2>2. /\ calls' = [calls EXCEPT ![m.call].awaits = rpc]
        /\ wire' = (wire \ {m}) \cup {Request(m.call, rpc)}
        /\ calls[m.call].awaits = m.rpc
        /\ UNCHANGED <<rows, object, applied, losses>>
    BY <1>3 DEF GoOn, Send, Awaited
  <2>3. m.call \in DOMAIN calls /\ m.rpc # "nothing"
    BY MessageType DEF Rpcs
  <2> HIDE DEF rpc
  <2>4. /\ calls' \in Seq(Calls) /\ Len(calls') = Len(calls) /\ DOMAIN calls' = DOMAIN calls
        /\ calls'[m.call].awaits = rpc /\ calls'[m.call].told = calls[m.call].told
        /\ \A k \in DOMAIN calls \ {m.call} : calls'[k] = calls[k]
    BY <2>1, <2>2, <2>3, CallSent
  <2>5. WireType(wire', DOMAIN calls')
    <3>1. WireType(wire \ {m}, DOMAIN calls') /\ \A o \in wire \ {m} : o.call # m.call
      BY <1>0, <2>4, MessageType DEF WireType
    <3> QED BY <2>1, <2>2, <2>3, <2>4, <3>1, Requested
  <2>6. \A n \in DOMAIN calls' : calls'[n].told = "nothing" <=> calls'[n].awaits # "nothing"
    BY <2>1, <2>2, <2>3, <2>4 DEF TypeOK
  <2> QED BY <2>2, <2>4, <2>5, <2>6 DEF TypeOK, WireType
<1>4. ASSUME NEW n \in DOMAIN calls, NEW told \in Answers \ {"nothing"}, Over(n, told),
             wire' \subseteq wire, UNCHANGED <<rows, object, applied>>,
             losses' \in 0..MaxLosses
      PROVE  TypeOK'
  <2>1. told \in Answers
    OBVIOUS
  <2>2. /\ calls' \in Seq(Calls) /\ Len(calls') = Len(calls) /\ DOMAIN calls' = DOMAIN calls
        /\ calls'[n].awaits = "nothing" /\ calls'[n].told = told
        /\ \A k \in DOMAIN calls \ {n} : calls'[k] = calls[k]
    BY <1>4, <2>1, CallOver
  <2>3. \A k \in DOMAIN calls' : calls'[k].told = "nothing" <=> calls'[k].awaits # "nothing"
    BY <2>2 DEF TypeOK
  <2> QED BY <1>4, <2>2, <2>3 DEF TypeOK
<1>5. ASSUME wire' \subseteq wire, UNCHANGED <<rows, calls, applied>>,
             object' \in {"absent", "up"}, losses' \in 0..MaxLosses
      PROVE  TypeOK'
  BY <1>5 DEF TypeOK
<1>6. ASSUME NEW m \in wire, NotFound(m) \/ Succeed(m) PROVE TypeOK'
  <2>1. m.call \in DOMAIN calls /\ losses \in 0..MaxLosses
    BY MessageType DEF TypeOK
  <2> QED BY <1>4, <1>6, <2>1 DEF NotFound, Succeed, Answers
<1>7. ASSUME NEW n \in DOMAIN calls, Fail(n) \/ Disconnect(n) PROVE TypeOK'
  <2>1. losses' \in 0..MaxLosses
    BY <1>7, DurableAssumption DEF Fail, Disconnect, Loss, TypeOK
  <2> QED BY <1>4, <1>7, <2>1 DEF Fail, Disconnect, Answers
<1>8. ASSUME NEW m \in wire, Lose(m) \/ Ignore(m) PROVE TypeOK'
  BY <1>5, <1>8, DurableAssumption DEF Lose, Ignore, Loss, TypeOK
<1>9. CASE Evict \/ Construct
  BY <1>5, <1>9, DurableAssumption DEF Evict, Construct, Loss, TypeOK
<1>10. CASE UNCHANGED vars
  BY <1>10 DEF vars, TypeOK
<1> QED BY <1>1, <1>2, <1>3, <1>6, <1>7, <1>8, <1>9, <1>10 DEF Next, Rpc, Stub

(* They hold at first.                                                     *)
LEMMA InitType == Init => TypeOK
<1> SUFFICES ASSUME Init PROVE TypeOK
  OBVIOUS
<1>1. calls = <<>> /\ applied = <<>> /\ wire = {}
  BY DEF Init
<1>2. calls \in Seq(Calls) /\ applied \in Seq(Nat) /\ Len(calls) = 0 /\ DOMAIN calls = {}
  BY <1>1
<1> QED BY <1>1, <1>2, DurableAssumption DEF Init, TypeOK

(* The table, the calls and the RPCs under way keep their types, and no    *)
(* call has two of them (stub-persistence.ts:24-67).                       *)
THEOREM DurableTyped == Spec => []TypeOK
BY InitType, TypeStep, PTL DEF Spec
-----------------------------------------------------------------------------
(* What a step leaves of the calls that were made: a promise that settled  *)
(* stays as it is.                                                         *)
Lasting ==
  /\ DOMAIN calls \subseteq DOMAIN calls'
  /\ \A k \in DOMAIN calls :
       Keeps(k) /\ (calls[k].told # "nothing" => calls'[k].told = calls[k].told)

(* A call that begins has a number of its own, and knows what was          *)
(* acknowledged before.                                                    *)
LEMMA Invoked ==
  ASSUME TypeOK, Invoke
  PROVE  LET new == Len(calls) + 1
         IN  /\ new \notin DOMAIN calls /\ DOMAIN calls' = DOMAIN calls \cup {new}
             /\ DOMAIN applied' = DOMAIN calls'
             /\ calls'[new].awaits = "initialize" /\ calls'[new].told = "nothing"
             /\ calls'[new].known <=> Acknowledged(calls'[new].id)
             /\ applied'[new] = 0
             /\ \A k \in DOMAIN calls : calls'[k] = calls[k] /\ applied'[k] = applied[k]
<1>1. PICK op \in Ops, id \in Ids :
        calls' = Append(calls, [op |-> op, id |-> id, awaits |-> "initialize",
                                told |-> "nothing", known |-> Acknowledged(id)])
  BY DEF Invoke
<1>2. PICK known \in BOOLEAN : known <=> Acknowledged(id)
  BY DEF Acknowledged
<1> DEFINE call == [op |-> op, id |-> id, awaits |-> "initialize", told |-> "nothing",
                    known |-> known]
<1>3. /\ call \in Calls /\ call.awaits = "initialize" /\ call.told = "nothing"
      /\ call.known = known /\ call.id = id
  BY DEF Calls, Rpcs
<1>4. calls' = Append(calls, call)
  <2>1. known = Acknowledged(id)
    BY <1>2 DEF Acknowledged
  <2> QED BY <1>1, <2>1
<1> HIDE DEF call
<1>5. /\ calls \in Seq(Calls) /\ Len(calls) \in Nat /\ DOMAIN calls = 1..Len(calls)
      /\ applied \in Seq(Nat) /\ Len(applied) = Len(calls)
  BY Numbers DEF TypeOK
<1>6. /\ calls' \in Seq(Calls) /\ Len(calls') = Len(calls) + 1
      /\ calls'[Len(calls) + 1] = call
      /\ \A n \in 1..Len(calls) : calls'[n] = calls[n]
  BY <1>3, <1>4, <1>5, AppendProperties
<1>7. /\ applied' \in Seq(Nat) /\ Len(applied') = Len(calls) + 1
      /\ applied'[Len(calls) + 1] = 0
      /\ \A n \in 1..Len(calls) : applied'[n] = applied[n]
  BY <1>5, AppendProperties DEF Invoke
<1>8. DOMAIN calls' = 1..(Len(calls) + 1) /\ DOMAIN applied' = 1..(Len(calls) + 1)
  BY <1>6, <1>7, LenProperties
<1>9. call.known <=> Acknowledged(call.id)
  BY <1>2, <1>3
<1> QED BY <1>3, <1>5, <1>6, <1>7, <1>8, <1>9

(* Every step leaves what settled as it is.                                *)
LEMMA StepLasts == TypeOK /\ [Next]_vars => Lasting
<1> SUFFICES ASSUME TypeOK, [Next]_vars PROVE Lasting
  OBVIOUS
<1>1. CASE Invoke
  BY <1>1, Invoked DEF Lasting, Keeps
<1>2. CASE UNCHANGED calls
  BY <1>2 DEF Lasting, Keeps
<1>3. ASSUME NEW n \in DOMAIN calls, NEW told \in Answers, Over(n, told),
             calls[n].awaits # "nothing"
      PROVE  Lasting
  <2>1. calls[n].told = "nothing"
    BY <1>3 DEF TypeOK
  <2> QED BY <1>3, <2>1, CallOver DEF Lasting
<1>4. ASSUME NEW m \in wire, GoOn(m) PROVE Lasting
  <2> DEFINE rpc == NextRpc(calls[m.call].op, m.rpc)
  <2>1. /\ rpc \in Rpcs /\ m.call \in DOMAIN calls
        /\ calls' = [calls EXCEPT ![m.call].awaits = rpc]
    BY <1>4, NextRpcType, MessageType DEF GoOn, Send
  <2> HIDE DEF rpc
  <2> QED BY <2>1, CallSent DEF Lasting
<1>5. ASSUME NEW m \in wire, NotFound(m) \/ Succeed(m) PROVE Lasting
  <2>1. m.call \in DOMAIN calls /\ m.rpc # "nothing"
    BY MessageType DEF Rpcs
  <2> QED BY <1>3, <1>5, <2>1 DEF NotFound, Succeed, Awaited, Answers
<1>6. ASSUME NEW n \in DOMAIN calls, Fail(n) \/ Disconnect(n) PROVE Lasting
  BY <1>3, <1>6 DEF Fail, Disconnect, Answers
<1> QED BY <1>1, <1>2, <1>4, <1>5, <1>6
        DEF Next, Rpc, Stub, Object, Initialize, Get, Put, Update, Patch, Remove, Lose, Ignore,
            Evict, Construct, vars

-----------------------------------------------------------------------------
Writing == {"put", "update", "patch", "remove"}

CarriedOut(m) == m.at = "reply" /\ m.rpc \in Writing /\ m.result = "ok"

(* The RPCs of a method.                                                   *)
Fits(op, rpc) ==
  \/ rpc = "initialize"
  \/ rpc = "get" /\ op \in {"update", "delete", "load"}
  \/ rpc = "put" /\ op = "save"
  \/ rpc = "update" /\ op = "update"
  \/ rpc = "patch" /\ op = "patch"
  \/ rpc = "remove" /\ op = "delete"

(* While an RPC of a call is under way, its write was carried out exactly  *)
(* if that RPC is the answer to it, and nobody was told of it.             *)
Telling(m) ==
  /\ Fits(calls[m.call].op, m.rpc)
  /\ calls[m.call].awaits \in {m.rpc, "nothing"}
  /\ calls[m.call].told \in {"nothing", "failed"}
  /\ applied[m.call] = IF CarriedOut(m) THEN 1 ELSE 0

ToldInv == (\A m \in wire : Telling(m)) /\ ToldIsTrue

(* No step makes untrue what a caller was told or a message will tell.     *)
LEMMA ToldStep == TypeOK /\ ToldInv /\ [Next]_vars => ToldInv'
<1> SUFFICES ASSUME TypeOK, ToldInv, [Next]_vars PROVE ToldInv'
  OBVIOUS
<1>0. /\ \A m \in wire : Telling(m) /\ m.call \in DOMAIN calls /\ m.rpc # "nothing"
      /\ DOMAIN applied = DOMAIN calls
  BY MessageType, Numbers DEF ToldInv, Rpcs
<1>1. CASE Invoke
  <2>0. PICK new, m : new = Len(calls) + 1 /\ m = Request(new, "initialize")
    OBVIOUS
  <2>1. /\ new \notin DOMAIN calls /\ DOMAIN calls' = DOMAIN calls \cup {new}
        /\ calls'[new].awaits = "initialize" /\ calls'[new].told = "nothing"
        /\ applied'[new] = 0
        /\ \A k \in DOMAIN calls : calls'[k] = calls[k] /\ applied'[k] = applied[k]
    BY <1>1, <2>0, Invoked
  <2>2. m.call = new /\ m.rpc = "initialize" /\ m.at = "request"
    BY <2>0 DEF Request
  <2>3. wire' = wire \cup {m}
    BY <1>1, <2>0 DEF Invoke
  <2>4. Telling(m)'
    BY <2>1, <2>2 DEF Telling, Fits, CarriedOut
  <2>5. ASSUME NEW o \in wire PROVE Telling(o)'
    BY <1>0, <2>1, <2>5 DEF Telling
  <2>6. ToldIsTrue'
    BY <2>1 DEF ToldInv, ToldIsTrue
  <2> QED BY <2>3, <2>4, <2>5, <2>6 DEF ToldInv
<1>2. ASSUME NEW m \in wire, Object(m) PROVE ToldInv'
  <2>1. m.at = "request" /\ calls' = calls
    BY <1>2 DEF Object, Initialize, Get, Put, Update, Patch, Remove, Arrived
  <2>2. PICK result \in {"ok", "missing", "failed"} :
          /\ Replace(m, Reply(m, result))
          /\ applied' = IF m.rpc \in Writing /\ result = "ok"
                        THEN [applied EXCEPT ![m.call] = @ + 1] ELSE applied
    BY <1>2 DEF Object, Initialize, Get, Put, Update, Patch, Remove, Arrived, Apply, Writing
  <2> DEFINE reply == Reply(m, result)
  <2>3. /\ reply.call = m.call /\ reply.rpc = m.rpc /\ reply.at = "reply"
        /\ reply.result = result
        /\ \A o \in wire' : o = reply \/ (o \in wire /\ o.call # m.call)
    BY <2>1, <2>2, Replied
  <2>4. Telling(m) /\ m.call \in DOMAIN applied /\ applied[m.call] = 0
    BY <1>0, <2>1 DEF Telling, CarriedOut
  <2>5. /\ applied'[m.call] = IF m.rpc \in Writing /\ result = "ok" THEN 1 ELSE 0
        /\ \A k \in DOMAIN applied \ {m.call} : applied'[k] = applied[k]
    BY <2>2, <2>4
  <2> HIDE DEF reply
  <2>6. Telling(reply)'
    BY <2>1, <2>3, <2>4, <2>5 DEF Telling, CarriedOut
  <2>7. ASSUME NEW o \in wire, o.call # m.call PROVE Telling(o)'
    BY <1>0, <2>1, <2>5, <2>7 DEF Telling
  <2>8. ToldIsTrue'
    <3>1. calls[m.call].told \in {"nothing", "failed"}
      BY <2>4 DEF Telling
    <3> QED BY <1>0, <2>1, <2>5, <3>1 DEF ToldInv, ToldIsTrue
  <2> QED BY <2>3, <2>6, <2>7, <2>8 DEF ToldInv
<1>3. ASSUME NEW m \in wire, GoOn(m) PROVE ToldInv'
  <2>0. PICK rpc, next : rpc = NextRpc(calls[m.call].op, m.rpc) /\ next = Request(m.call, rpc)
    OBVIOUS
  <2>1. /\ rpc \in Rpcs
        /\ Fits(calls[m.call].op, rpc)
    <3>1. calls[m.call].op \in Ops
      BY MessageType DEF Calls
    <3> QED BY <1>3, <2>0, <3>1, NextRpcType DEF GoOn, Fits, Ops
  <2>2. next.call = m.call /\ next.rpc = rpc /\ next.at = "request"
    BY <2>0 DEF Request
  <2>3. /\ calls' = [calls EXCEPT ![m.call].awaits = rpc] /\ wire' = (wire \ {m}) \cup {next}
        /\ applied' = applied /\ m.rpc \notin Writing
    BY <1>3, <2>0 DEF GoOn, Send, Writing
  <2>4. /\ DOMAIN calls' = DOMAIN calls /\ calls'[m.call].awaits = rpc
        /\ \A k \in DOMAIN calls : Keeps(k) /\ calls'[k].told = calls[k].told
        /\ \A k \in DOMAIN calls \ {m.call} : calls'[k] = calls[k]
    BY <1>0, <2>1, <2>3, CallSent
  <2>5. Telling(next)'
    BY <1>0, <2>1, <2>2, <2>3, <2>4 DEF Telling, CarriedOut, Keeps
  <2>6. ASSUME NEW o \in wire \ {m} PROVE Telling(o)'
    <3>1. o.call # m.call
      BY <2>6, MessageType
    <3> QED BY <1>0, <2>3, <2>4, <2>6, <3>1 DEF Telling
  <2>7. ToldIsTrue'
    BY <2>3, <2>4 DEF ToldInv, ToldIsTrue, Keeps
  <2> QED BY <2>3, <2>5, <2>6, <2>7 DEF ToldInv
<1>4. ASSUME NEW n \in DOMAIN calls, NEW told \in {"ok", "missing", "failed"}, Over(n, told),
             wire' \subseteq wire, applied' = applied,
             told # "failed" => \A o \in wire' : o.call # n,
             told = "ok" /\ calls[n].op # "load" => applied[n] = 1,
             told = "missing" => applied[n] = 0
      PROVE  ToldInv'
  <2>1. told \in Answers
    BY DEF Answers
  <2>2. /\ DOMAIN calls' = DOMAIN calls
        /\ calls'[n].awaits = "nothing" /\ calls'[n].told = told
        /\ \A k \in DOMAIN calls : Keeps(k)
        /\ \A k \in DOMAIN calls \ {n} : calls'[k] = calls[k]
    BY <1>4, <2>1, CallOver
  <2>3. ASSUME NEW o \in wire' PROVE Telling(o)'
    <3>1. o \in wire /\ Telling(o) /\ o.call \in DOMAIN calls
      BY <1>0, <1>4, <2>3
    <3>2. CASE o.call = n
      <4>1. told = "failed"
        BY <1>4, <2>3, <3>2
      <4> QED BY <1>4, <2>2, <3>1, <3>2, <4>1 DEF Telling, Keeps
    <3>3. CASE o.call # n
      BY <1>4, <2>2, <3>1, <3>3 DEF Telling
    <3> QED BY <3>2, <3>3
  <2>4. ToldIsTrue'
    BY <1>4, <2>2 DEF ToldInv, ToldIsTrue, Keeps
  <2> QED BY <2>3, <2>4 DEF ToldInv
<1>5. ASSUME wire' \subseteq wire, UNCHANGED <<calls, applied>> PROVE ToldInv'
  BY <1>5 DEF ToldInv, Telling, ToldIsTrue
<1>6. ASSUME NEW m \in wire, NotFound(m) PROVE ToldInv'
  <2>1. applied[m.call] = 0 /\ \A o \in wire \ {m} : o.call # m.call
    BY <1>0, <1>6, MessageType DEF NotFound, Telling, CarriedOut
  <2> QED BY <1>0, <1>4, <1>6, <2>1 DEF NotFound
<1>7. ASSUME NEW m \in wire, Succeed(m) PROVE ToldInv'
  <2>1. /\ \A o \in wire \ {m} : o.call # m.call
        /\ calls[m.call].op # "load" => applied[m.call] = 1
    BY <1>0, <1>7, MessageType DEF Succeed, Awaited, Telling, CarriedOut, Writing
  <2> QED BY <1>0, <1>4, <1>7, <2>1 DEF Succeed
<1>8. ASSUME NEW n \in DOMAIN calls, Fail(n) \/ Disconnect(n) PROVE ToldInv'
  BY <1>4, <1>8 DEF Fail, Disconnect
<1>9. ASSUME NEW m \in wire, Lose(m) \/ Ignore(m) PROVE ToldInv'
  BY <1>5, <1>9 DEF Lose, Ignore
<1>10. CASE Evict \/ Construct \/ UNCHANGED vars
  BY <1>5, <1>10 DEF Evict, Construct, vars
<1> QED BY <1>1, <1>2, <1>3, <1>6, <1>7, <1>8, <1>9, <1>10 DEF Next, Rpc, Stub

(* What a caller was told of its mutation is true, and no mutation is      *)
(* carried out twice (stub-persistence.ts:24-67).                          *)
THEOREM AnswersAreTrue == Spec => []ToldIsTrue
<1>1. Init => ToldInv
  BY DEF Init, ToldInv, ToldIsTrue
<1>2. ToldInv => ToldIsTrue
  BY DEF ToldInv
<1> QED BY <1>1, <1>2, InitType, TypeStep, ToldStep, PTL DEF Spec
-----------------------------------------------------------------------------
Deleted(id) == \E d \in DOMAIN calls : calls[d].op = "delete" /\ calls[d].id = id

(* A record that was saved is there unless somebody deletes it.            *)
Stored(n) ==
  calls[n].op = "save" /\ applied[n] > 0 => rows[calls[n].id] # None \/ Deleted(calls[n].id)

(* A reply that there is no record, to a call that began later.            *)
Missed(m) ==
  calls[m.call].known /\ m.at = "reply" /\ m.result = "missing" => Deleted(IdOf(m))

FoundInv ==
  /\ \A n \in DOMAIN calls : Stored(n) /\ (calls[n].known => Acknowledged(calls[n].id))
  /\ \A m \in wire : Missed(m)
  /\ AcknowledgedIsFound

(* What was deleted or acknowledged once stays so.                         *)
LEMMA DeletedLasts ==
  ASSUME Lasting, NEW id PROVE (Deleted(id) => Deleted(id)') /\ (Acknowledged(id) => Acknowledged(id)')
<1>1. Deleted(id) => Deleted(id)'
  BY DEF Lasting, Keeps, Deleted
<1>2. Acknowledged(id) => Acknowledged(id)'
  <2> SUFFICES ASSUME NEW n \in DOMAIN calls, calls[n].op = "save", calls[n].id = id,
                      calls[n].told = "ok"
               PROVE  Acknowledged(id)'
    BY DEF Acknowledged
  <2> QED BY DEF Lasting, Keeps, Acknowledged
<1> QED BY <1>1, <1>2

(* A record is removed only on behalf of a call that deletes it.           *)
LEMMA RowsLast ==
  ASSUME TypeOK, NEW m \in wire, Object(m), Telling(m), NEW id \in Ids, rows[id] # None
  PROVE  rows'[id] # None \/ Deleted(id)
<1>1. /\ m.call \in DOMAIN calls /\ IdOf(m) \in Ids /\ m.call # None
      /\ rows \in [Ids -> DOMAIN calls \cup {None}]
  BY MessageType, Numbers, DurableAssumption DEF TypeOK
<1>2. CASE m.rpc = "remove"
  <2>1. calls[m.call].op = "delete"
    BY <1>2 DEF Telling, Fits
  <2>2. CASE IdOf(m) = id
    BY <1>1, <2>1, <2>2 DEF Deleted, IdOf
  <2>3. CASE IdOf(m) # id
    BY <1>1, <1>2, <2>3 DEF Object, Initialize, Get, Put, Update, Patch, Remove, Arrived, Apply
  <2> QED BY <2>2, <2>3
<1>3. CASE m.rpc # "remove"
  BY <1>1, <1>3 DEF Object, Initialize, Get, Put, Update, Patch, Remove, Arrived, Apply
<1> QED BY <1>2, <1>3

(* No step loses a record that was acknowledged and that nobody deletes.   *)
LEMMA FoundStep == TypeOK /\ ToldInv /\ FoundInv /\ [Next]_vars => FoundInv'
<1> SUFFICES ASSUME TypeOK, ToldInv, FoundInv, [Next]_vars PROVE FoundInv'
  OBVIOUS
<1>0. /\ \A m \in wire : Telling(m) /\ m.call \in DOMAIN calls
      /\ DOMAIN applied = DOMAIN calls /\ Lasting
      /\ \A n \in DOMAIN calls : calls[n].id \in Ids /\ applied[n] \in Nat
      /\ \A id : (Deleted(id) => Deleted(id)') /\ (Acknowledged(id) => Acknowledged(id)')
  BY MessageType, Numbers, StepLasts, DeletedLasts DEF ToldInv, Calls
<1>1. CASE Invoke
  <2>0. PICK new, m : new = Len(calls) + 1 /\ m = Request(new, "initialize")
    OBVIOUS
  <2>1. /\ new \notin DOMAIN calls /\ DOMAIN calls' = DOMAIN calls \cup {new}
        /\ calls'[new].told = "nothing" /\ applied'[new] = 0
        /\ calls'[new].known => Acknowledged(calls'[new].id)
        /\ \A k \in DOMAIN calls : calls'[k] = calls[k] /\ applied'[k] = applied[k]
    BY <1>1, <2>0, Invoked
  <2>2. m.at = "request" /\ wire' = wire \cup {m} /\ rows' = rows
    BY <1>1, <2>0 DEF Invoke, Request
  <2>3. ASSUME NEW n \in DOMAIN calls'
        PROVE  Stored(n)' /\ (calls'[n].known => Acknowledged(calls[n].id)')
    <3>1. CASE n = new
      BY <1>0, <2>1, <3>1 DEF Stored
    <3>2. CASE n \in DOMAIN calls
      BY <1>0, <2>1, <2>2, <3>2 DEF FoundInv, Stored
    <3> QED BY <2>1, <2>3, <3>1, <3>2
  <2>4. ASSUME NEW o \in wire' PROVE Missed(o)'
    <3>1. CASE o = m
      BY <2>2, <3>1 DEF Missed
    <3>2. CASE o \in wire
      BY <1>0, <2>1, <3>2 DEF FoundInv, Missed, IdOf
    <3> QED BY <2>2, <2>4, <3>1, <3>2
  <2>5. AcknowledgedIsFound'
    <3> SUFFICES ASSUME NEW n \in DOMAIN calls', calls'[n].known, calls'[n].told = "missing"
                 PROVE  Deleted(calls[n].id)'
      BY DEF AcknowledgedIsFound, Deleted
    <3>1. n \in DOMAIN calls /\ calls'[n] = calls[n]
      BY <2>1
    <3>2. Deleted(calls[n].id)
      BY <3>1 DEF FoundInv, AcknowledgedIsFound, Deleted
    <3> QED BY <1>0, <3>1, <3>2
  <2> QED BY <2>3, <2>4, <2>5 DEF FoundInv
<1>2. ASSUME NEW m \in wire, Object(m) PROVE FoundInv'
  <2>1. m.at = "request" /\ calls' = calls
    BY <1>2 DEF Object, Initialize, Get, Put, Update, Patch, Remove, Arrived
  <2>2. PICK result \in {"ok", "missing", "failed"} :
          /\ Replace(m, Reply(m, result))
          /\ result = "missing" => rows[IdOf(m)] = None
          /\ applied' = IF m.rpc \in Writing /\ result = "ok"
                        THEN [applied EXCEPT ![m.call] = @ + 1] ELSE applied
          /\ m.rpc = "put" /\ result = "ok" => rows' = [rows EXCEPT ![IdOf(m)] = m.call]
    <3>1. IdOf(m) \in Ids
      BY MessageType
    <3> QED BY <1>2, <3>1
            DEF Object, Initialize, Get, Put, Update, Patch, Remove, Arrived, Apply, Writing
  <2>3. PICK reply : reply = Reply(m, result)
    OBVIOUS
  <2>4. /\ reply.call = m.call /\ reply.at = "reply" /\ reply.result = result
        /\ \A o \in wire' : o = reply \/ (o \in wire /\ o.call # m.call)
    BY <2>1, <2>2, <2>3, Replied
  <2>5. \A id : Deleted(id)' <=> Deleted(id)
    BY <2>1 DEF Deleted
  <2>6. ASSUME NEW n \in DOMAIN calls PROVE Stored(n)'
    <3>1. CASE n = m.call /\ calls[n].op = "save" /\ applied'[n] > 0
      <4>1. m.rpc = "put" /\ result = "ok"
        BY <1>0, <2>1, <2>2, <3>1 DEF Telling, Fits, CarriedOut, Writing
      <4>2. m.call # None /\ rows \in [Ids -> DOMAIN calls \cup {None}]
        BY <1>0, Numbers, DurableAssumption DEF TypeOK
      <4> QED BY <1>0, <2>1, <2>2, <3>1, <4>1, <4>2 DEF Stored, IdOf
    <3>2. CASE n # m.call
      <4>1. applied'[n] = applied[n]
        BY <1>0, <2>2, <3>2
      <4>2. calls[n].id \in Ids /\ Stored(n)
        BY <1>0 DEF FoundInv
      <4>3. rows[calls[n].id] # None => rows'[calls[n].id] # None \/ Deleted(calls[n].id)
        BY <1>0, <1>2, <4>2, RowsLast
      <4> QED BY <2>1, <2>5, <4>1, <4>2, <4>3 DEF Stored
    <3>3. CASE n = m.call /\ ~ (calls[n].op = "save" /\ applied'[n] > 0)
      BY <2>1, <3>3 DEF Stored
    <3> QED BY <3>1, <3>2, <3>3
  <2>7. Missed(reply)'
    <3> SUFFICES ASSUME calls[m.call].known, result = "missing" PROVE Deleted(IdOf(m))
      BY <2>1, <2>4, <2>5 DEF Missed, IdOf
    <3>1. rows[IdOf(m)] = None
      BY <2>2
    <3>2. PICK k \in DOMAIN calls :
            calls[k].op = "save" /\ calls[k].id = IdOf(m) /\ calls[k].told = "ok"
      BY <1>0 DEF FoundInv, Acknowledged, IdOf
    <3>3. applied[k] = 1 /\ Stored(k)
      BY <3>2 DEF ToldInv, ToldIsTrue, FoundInv
    <3> QED BY <3>1, <3>2, <3>3 DEF Stored
  <2>8. ASSUME NEW o \in wire PROVE Missed(o)'
    BY <2>1, <2>5, <2>8 DEF FoundInv, Missed, IdOf
  <2>9. /\ AcknowledgedIsFound'
        /\ \A n \in DOMAIN calls : calls[n].known => Acknowledged(calls[n].id)'
    BY <2>1 DEF FoundInv, AcknowledgedIsFound, Acknowledged
  <2> QED BY <2>1, <2>4, <2>6, <2>7, <2>8, <2>9 DEF FoundInv
<1>3. ASSUME DOMAIN calls' = DOMAIN calls, UNCHANGED <<rows, applied>>,
             \A o \in wire' : o \in wire \/ o.at = "request",
             \A n \in DOMAIN calls :
               calls'[n].told = "missing" => calls[n].told = "missing" \/ ~ calls[n].known
                                             \/ Deleted(calls[n].id)
      PROVE  FoundInv'
  <2>1. ASSUME NEW n \in DOMAIN calls
        PROVE  Stored(n)' /\ (calls'[n].known => Acknowledged(calls[n].id)')
    BY <1>0, <1>3, <2>1 DEF FoundInv, Stored, Lasting, Keeps
  <2>2. ASSUME NEW o \in wire' PROVE Missed(o)'
    <3>1. CASE o \in wire
      BY <1>0, <3>1 DEF FoundInv, Missed, IdOf, Lasting, Keeps
    <3>2. CASE o.at = "request"
      BY <3>2 DEF Missed
    <3> QED BY <1>3, <2>2, <3>1, <3>2
  <2>3. AcknowledgedIsFound'
    <3> SUFFICES ASSUME NEW n \in DOMAIN calls, calls'[n].known, calls'[n].told = "missing"
                 PROVE  Deleted(calls[n].id)'
      BY <1>3 DEF AcknowledgedIsFound, Deleted
    <3>1. Keeps(n)
      BY <1>0 DEF Lasting
    <3>2. Deleted(calls[n].id)
      BY <1>3, <3>1 DEF FoundInv, AcknowledgedIsFound, Deleted, Keeps
    <3> QED BY <1>0, <3>1, <3>2 DEF Keeps
  <2> QED BY <1>3, <2>1, <2>2, <2>3 DEF FoundInv
<1>4. ASSUME NEW m \in wire, GoOn(m) PROVE FoundInv'
  <2>0. PICK rpc, next : rpc = NextRpc(calls[m.call].op, m.rpc) /\ next = Request(m.call, rpc)
    OBVIOUS
  <2>1. rpc \in Rpcs /\ next.at = "request"
    BY <1>4, <2>0, NextRpcType DEF Request
  <2>2. /\ calls' = [calls EXCEPT ![m.call].awaits = rpc] /\ wire' = (wire \ {m}) \cup {next}
        /\ UNCHANGED <<rows, applied>>
    BY <1>4, <2>0 DEF GoOn, Send
  <2>3. /\ DOMAIN calls' = DOMAIN calls
        /\ \A k \in DOMAIN calls : calls'[k].told = calls[k].told
    BY <1>0, <2>1, <2>2, CallSent
  <2> QED BY <1>3, <2>1, <2>2, <2>3
<1>5. ASSUME NEW n \in DOMAIN calls, NEW told \in {"ok", "missing", "failed"}, Over(n, told),
             wire' \subseteq wire, UNCHANGED <<rows, applied>>,
             told = "missing" => ~ calls[n].known \/ Deleted(calls[n].id)
      PROVE  FoundInv'
  <2>1. told \in Answers
    BY DEF Answers
  <2>2. /\ DOMAIN calls' = DOMAIN calls /\ calls'[n].told = told
        /\ \A k \in DOMAIN calls \ {n} : calls'[k] = calls[k]
    BY <1>5, <2>1, CallOver
  <2> QED BY <1>3, <1>5, <2>2
<1>6. ASSUME NEW m \in wire, NotFound(m) PROVE FoundInv'
  <2>1. Missed(m) /\ m.at = "reply" /\ m.result = "missing"
    BY <1>6 DEF FoundInv, NotFound, Awaited
  <2> QED BY <1>0, <1>5, <1>6, <2>1 DEF NotFound, Missed, IdOf
<1>7. ASSUME NEW m \in wire, Succeed(m) PROVE FoundInv'
  BY <1>0, <1>5, <1>7 DEF Succeed
<1>8. ASSUME NEW n \in DOMAIN calls, Fail(n) \/ Disconnect(n) PROVE FoundInv'
  BY <1>5, <1>8 DEF Fail, Disconnect
<1>9. ASSUME NEW m \in wire, Lose(m) \/ Ignore(m) PROVE FoundInv'
  BY <1>3, <1>9 DEF Lose, Ignore
<1>10. CASE Evict \/ Construct \/ UNCHANGED vars
  BY <1>3, <1>10 DEF Evict, Construct, vars
<1> QED BY <1>1, <1>2, <1>4, <1>6, <1>7, <1>8, <1>9, <1>10 DEF Next, Rpc, Stub

(* What the object acknowledged outlives it: a call that began after a     *)
(* save of its id was acknowledged misses the record only if somebody      *)
(* deletes it (storic-object.ts:47-52).                                    *)
THEOREM AcknowledgedLasts == Spec => []AcknowledgedIsFound
<1>1. Init => ToldInv /\ FoundInv
  BY DEF Init, ToldInv, ToldIsTrue, FoundInv, AcknowledgedIsFound
<1>2. FoundInv => AcknowledgedIsFound
  BY DEF FoundInv
<1> QED BY <1>1, <1>2, InitType, TypeStep, ToldStep, FoundStep, PTL DEF Spec
=============================================================================
