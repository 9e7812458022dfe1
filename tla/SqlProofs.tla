------------------------------ MODULE SqlProofs ------------------------------
(***************************************************************************)
(* Proofs about SqlPersistence for any number of clients, any records,     *)
(* filters, patches and index declarations.                                *)
(***************************************************************************)
EXTENDS SqlPersistence, Loops

USE RecordsAssumption, SqlAssumption

(* A merge patch of data is data (json_patch, sql-persistence.ts:226).     *)
LEMMA MergeTyped ==
  ASSUME NEW data \in Data, NEW patch \in PatchData PROVE Merge(data, patch) \in Data
<1>1. PICK S \in SUBSET Fields : patch \in [S -> Scalars \cup {Null}]
  BY DEF PatchData
<1>2. ASSUME NEW f \in Fields
      PROVE  (IF f \notin DOMAIN patch THEN data[f]
              ELSE IF patch[f] = Null THEN Absent ELSE patch[f]) \in Values
  BY <1>1 DEF Data, Values
<1>. QED  BY <1>2 DEF Merge, Data

-----------------------------------------------------------------------------
(* What an entry of a patch makes of the table and of the number of rows   *)
(* patched (sql-persistence.ts:203-211), which is what the contract says.  *)
State == [records : Table, count : Nat]

Applied(state, entry) ==
  [records |-> Contract!PatchOne(state, entry),
   count   |-> state.count + Contract!Cardinality(Contract!Touched(state.records, entry))]

(* An entry leaves a table and a number.                                   *)
LEMMA AppliedTyped ==
  ASSUME NEW state \in State, NEW entry \in TypePatch PROVE Applied(state, entry) \in State
<1>. DEFINE now == state.records
            hits == Contract!Touched(now, entry)
<1>1. now \in Table /\ state.count \in Nat
  BY DEF State
<1>2. hits \subseteq Ids /\ Contract!Cardinality(hits) \in Nat
  <2>1. hits \subseteq Ids
    BY DEF Contract!Touched
  <2>. HIDE DEF hits
  <2>2. Cardinality(hits) \in Nat
    BY <2>1, FS_Subset, FS_CardinalityType
  <2>3. Contract!Cardinality(hits) = Cardinality(hits)
    BY DEF Cardinality, Contract!Cardinality
  <2>. QED  BY <2>1, <2>2, <2>3
<1>3. ASSUME NEW id \in Ids
      PROVE  Contract!PatchOne(state, entry)[id] \in Record \cup {None}
  <2>1. CASE id \in hits
    <3>1. now[id] \in Record
      BY <1>1, <2>1 DEF Contract!Touched, Table
    <3>2. Contract!Merge(now[id].data, entry.patch) = Merge(now[id].data, entry.patch)
      BY DEF Contract!Merge, Merge
    <3>3. Merge(now[id].data, entry.patch) \in Data
      BY <3>1, MergeTyped DEF TypePatch, Record
    <3>4. Contract!PatchOne(state, entry)[id]
            = [now[id] EXCEPT !.data = Contract!Merge(now[id].data, entry.patch)]
      BY <2>1 DEF Contract!PatchOne
    <3>5. Contract!PatchOne(state, entry)[id]
            = [now[id] EXCEPT !.data = Merge(now[id].data, entry.patch)]
      BY <3>2, <3>4
    <3>. HIDE DEF now, hits
    <3>. QED  BY <3>1, <3>3, <3>5 DEF Record
  <2>2. CASE id \notin hits
    <3>1. Contract!PatchOne(state, entry)[id] = now[id]
      BY <2>2 DEF Contract!PatchOne
    <3>. QED  BY <1>1, <3>1 DEF Table
  <2>. QED  BY <2>1, <2>2
<1>4. Contract!PatchOne(state, entry) \in Table
  <2>1. Contract!PatchOne(state, entry) = [id \in Ids |-> Contract!PatchOne(state, entry)[id]]
    BY DEF Contract!PatchOne
  <2>. QED  BY <1>3, <2>1 DEF Table
<1>. QED  BY <1>1, <1>2, <1>4 DEF Applied, State

(* The records and the number that each entry of a call leaves, one after  *)
(* the other.                                                              *)
Chain(call, k, t) ==
  /\ t \in [0..k -> State]
  /\ \A i \in 1..k : t[i] = Applied(t[i - 1], call[i])

(* A call makes of the records what the last of its entries leaves.        *)
LEMMA PatchedIsLast ==
  ASSUME NEW call \in Seq(TypePatch), NEW t, Chain(call, Len(call), t),
         t[0] = [records |-> IF holder = None THEN table ELSE before, count |-> 0]
  PROVE  Contract!Patched(call) = t[Len(call)]
<1>. DEFINE n == Len(call)
            base == [records |-> IF holder = None THEN table ELSE before, count |-> 0]
            step == [p \in (1..n) \X State |-> Applied(p[2], call[p[1]])]
            Is(h) == h = [s \in SUBSET (1..n) |->
                            IF s = {} THEN base
                            ELSE Applied(h[s \ {Max(s)}], call[Max(s)])]
<1>1. n \in Nat /\ DOMAIN call = 1..n /\ \A i \in 1..n : call[i] \in TypePatch
  OBVIOUS
<1>2. base \in State
  BY <1>1 DEF Chain
<1>3. step \in [(1..n) \X State -> State]
  BY <1>1, AppliedTyped
<1>4. \E h : Is(h)
  <2>. HIDE DEF base, step, n
  <2>1. PICK g \in [SUBSET (1..n) -> State] : Folds(g, n, base, step)
    BY <1>1, <1>2, <1>3, FoldExists
  <2>2. ASSUME NEW s \in SUBSET (1..n), s # {}
        PROVE  step[<<Max(s), g[s \ {Max(s)}]>>] = Applied(g[s \ {Max(s)}], call[Max(s)])
    <3>1. Max(s) \in 1..n
      BY <1>1, <2>2, MaxProperties
    <3>2. <<Max(s), g[s \ {Max(s)}]>> \in (1..n) \X State
      BY <3>1
    <3>. QED  BY <3>2 DEF step
  <2>3. Is(g)
    BY <2>1, <2>2 DEF Folds
  <2>. QED  BY <2>3
<1>5. Contract!Patched(call) = (CHOOSE h : Is(h))[1..n]
  BY <1>1 DEF Contract!Patched, Contract!FoldLeft, Contract!MapThenFoldSet, Applied, Contract!Max, Max
<1>6. PICK h : Is(h) /\ Contract!Patched(call) = h[1..n]
  <2>. HIDE DEF Is
  <2>. QED  BY <1>4, <1>5
<1>7. h[1..0] = t[0]
  <2>1. (1..0) \in SUBSET (1..n) /\ 1..0 = {}
    OBVIOUS
  <2>. QED  BY <1>6, <2>1
<1>8. ASSUME NEW k \in 1..n, h[1..(k - 1)] = t[k - 1] PROVE h[1..k] = t[k]
  <2>1. k \in Nat \ {0} /\ (1..k) \in SUBSET (1..n) /\ 1..k # {}
    <3>1. n \in Nat /\ k \in 1..n
      BY <1>1
    <3>. HIDE DEF n, Is
    <3>2. k \in Nat \ {0} /\ k <= n
      BY <3>1
    <3>3. 1 \in 1..k /\ \A i \in 1..k : i \in 1..n
      BY <3>1, <3>2
    <3>. QED  BY <3>2, <3>3
  <2>2. h[1..k] = Applied(h[(1..k) \ {Max(1..k)}], call[Max(1..k)])
    BY <1>6, <2>1
  <2>. HIDE DEF Is
  <2>3. h[1..k] = Applied(h[1..(k - 1)], call[k])
    BY <2>1, <2>2, MaxOfPrefix
  <2>. QED  BY <1>8, <2>3 DEF Chain
<1>. HIDE DEF Is, n
<1>9. h[1..n] = t[n]
  <2>1. n \in Nat
    BY <1>1
  <2>. QED  BY <2>1, <1>7, <1>8, SameToTheEnd
<1>. QED  BY <1>6, <1>9 DEF n

-----------------------------------------------------------------------------
PatchJob == [op : {"patch"}, left : Seq(TypePatch), count : Nat]
CreateJob == [op : {"create"}, left : Seq(Types \X Fields), expected : SUBSET Names]
DropJob == [op : {"drop"}, stale : SUBSET Names, expected : SUBSET Names]

(* The name of a call tells what is remembered of it.                      *)
LEMMA JobShapes ==
  ASSUME NEW j \in Jobs
  PROVE  /\ j.op = "patch" => j \in PatchJob
         /\ j.op = "create" => j \in CreateJob
         /\ j.op = "drop" => j \in DropJob
         /\ j.op \in {"put", "update"} => j.id \in Ids
BY DEF Jobs, Idle, PatchJob, CreateJob, DropJob

(* ... and what has these parts is a job.                                  *)
LEMMA JobsOf ==
  /\ Idle \in Jobs
  /\ PatchJob \subseteq Jobs /\ CreateJob \subseteq Jobs /\ DropJob \subseteq Jobs
BY DEF Jobs, PatchJob, CreateJob, DropJob

(* A statement goes on with a job, and leaves those of the others alone.   *)
LEMMA GotoTyped ==
  ASSUME job \in [Clients -> Jobs], NEW c \in Clients, NEW next \in Jobs, Goto(c, next)
  PROVE  /\ job' \in [Clients -> Jobs]
         /\ job'[c] = next /\ \A d \in Clients \ {c} : job'[d] = job[d]
BY DEF Goto

(* An entry patches the rows of its type that its filters match.           *)
LEMMA EntryTyped ==
  ASSUME TypeOK, NEW c \in Clients, PatchEntry(c)
  PROVE  /\ job[c] \in PatchJob /\ job[c].left # <<>>
         /\ Head(job[c].left) \in TypePatch
         /\ [records |-> table', count |-> job'[c].count]
              = Applied([records |-> table, count |-> job[c].count], Head(job[c].left))
         /\ table' \in Table /\ job'[c] \in PatchJob
         /\ job'[c].left = Tail(job[c].left)
         /\ \A d \in Clients \ {c} : job'[d] = job[d]
         /\ job' \in [Clients -> Jobs]
<1>. DEFINE now == job[c]
            entry == Head(now.left)
            hits == {id \in Ids : /\ table[id] # None /\ table[id].type = entry.type
                                  /\ MatchedAll(table[id].data, entry.filters)}
            state == [records |-> table, count |-> now.count]
            next == [now EXCEPT !.left = Tail(@), !.count = @ + Cardinality(hits)]
<1>1. now \in PatchJob /\ now.left # <<>>
  BY JobShapes DEF PatchEntry, In, TypeOK
<1>2. entry \in TypePatch /\ Tail(now.left) \in Seq(TypePatch)
  BY <1>1, HeadTailProperties DEF PatchJob
<1>3. state \in State
  BY <1>1 DEF State, PatchJob, TypeOK
<1>4. hits = Contract!Touched(state.records, entry)
  BY DEF Contract!Touched
<1>5. table' = Contract!PatchOne(state, entry)
  <2>1. \A data, patch : Contract!Merge(data, patch) = Merge(data, patch)
    BY DEF Contract!Merge, Merge
  <2>2. table' = [id \in Ids |-> IF id \in hits
                                 THEN [table[id] EXCEPT !.data = Merge(@, entry.patch)]
                                 ELSE table[id]]
    BY DEF PatchEntry
  <2>. HIDE DEF hits, entry
  <2>. QED  BY <1>4, <2>1, <2>2 DEF Contract!PatchOne
<1>6. Cardinality(hits) = Contract!Cardinality(Contract!Touched(state.records, entry))
  <2>. HIDE DEF hits, entry, state
  <2>1. Cardinality(hits) = Contract!Cardinality(hits)
    BY DEF Cardinality, Contract!Cardinality
  <2>. QED  BY <1>4, <2>1
<1>7. Applied(state, entry) = [records |-> table', count |-> now.count + Cardinality(hits)]
  <2>. HIDE DEF hits, entry
  <2>. QED  BY <1>5, <1>6 DEF Applied
<1>8. table' \in Table /\ now.count + Cardinality(hits) \in Nat
  <2>1. Applied(state, entry) \in State
    <3>. HIDE DEF state, entry, hits
    <3>. QED  BY <1>2, <1>3, AppliedTyped
  <2>. HIDE DEF state, entry, hits, now
  <2>. QED  BY <1>7, <2>1 DEF State
<1>9. next \in PatchJob /\ next.left = Tail(now.left) /\ next.count = now.count + Cardinality(hits)
  <2>. HIDE DEF hits, now
  <2>. QED  BY <1>1, <1>2, <1>8 DEF PatchJob
<1>10. Goto(c, next)
  BY DEF PatchEntry
<1>11. job \in [Clients -> Jobs] /\ next \in Jobs
  <2>. HIDE DEF next
  <2>. QED  BY <1>9, JobsOf DEF TypeOK
<1>12. /\ job'[c] = next /\ job' \in [Clients -> Jobs]
       /\ \A d \in Clients \ {c} : job'[d] = job[d]
  <2>. HIDE DEF next
  <2>. QED  BY <1>10, <1>11, GotoTyped
<1>13. [records |-> table', count |-> job'[c].count] = Applied(state, entry)
  <2>. HIDE DEF next, hits, state, entry, now
  <2>. QED  BY <1>7, <1>9, <1>12
<1>. HIDE DEF next, hits
<1>. QED  BY <1>1, <1>2, <1>8, <1>9, <1>12, <1>13

(* An index is created, and its name remembered.                           *)
LEMMA CreateTyped ==
  ASSUME TypeOK, NEW c \in Clients, InitCreate(c),
         NEW name, name = IndexName[Head(job[c].left)[1]][Head(job[c].left)[2]]
  PROVE  /\ job[c] \in CreateJob /\ job[c].left # <<>>
         /\ Head(job[c].left)[2] \notin BadFields
         /\ name \in Names /\ indexes' = indexes \cup {name}
         /\ job'[c] \in CreateJob
         /\ job'[c].left = Tail(job[c].left) /\ job'[c].expected = job[c].expected \cup {name}
         /\ \A d \in Clients \ {c} : job'[d] = job[d]
         /\ job' \in [Clients -> Jobs]
<1>. DEFINE now == job[c]
            next == [now EXCEPT !.left = Tail(@), !.expected = @ \cup {name}]
<1>1. now \in CreateJob /\ now.left # <<>> /\ Head(now.left)[2] \notin BadFields
  BY JobShapes DEF InitCreate, In, TypeOK
<1>2. Head(now.left) \in Types \X Fields /\ Tail(now.left) \in Seq(Types \X Fields)
  BY <1>1, HeadTailProperties DEF CreateJob
<1>3. name \in Names
  BY <1>2
<1>4. next \in CreateJob /\ next.left = Tail(now.left) /\ next.expected = now.expected \cup {name}
  <2>. HIDE DEF now
  <2>. QED  BY <1>1, <1>2, <1>3 DEF CreateJob
<1>5. Goto(c, next) /\ indexes' = indexes \cup {name}
  BY DEF InitCreate
<1>. HIDE DEF next
<1>6. next \in Jobs /\ job \in [Clients -> Jobs]
  BY <1>4, JobsOf DEF TypeOK
<1>. QED  BY <1>1, <1>3, <1>4, <1>5, <1>6, GotoTyped

(* The indexes are listed that are not to be there.                        *)
LEMMA ListTyped ==
  ASSUME TypeOK, NEW c \in Clients, InitList(c)
  PROVE  /\ job[c] \in CreateJob /\ job[c].left = <<>>
         /\ job'[c] \in DropJob /\ job'[c].stale = indexes \ job[c].expected
         /\ job'[c].expected = job[c].expected
         /\ \A d \in Clients \ {c} : job'[d] = job[d]
         /\ job' \in [Clients -> Jobs]
<1>. DEFINE next == [op |-> "drop", stale |-> indexes \ job[c].expected,
                     expected |-> job[c].expected]
<1>1. job[c] \in CreateJob /\ job[c].left = <<>>
  BY JobShapes DEF InitList, In, TypeOK
<1>2. next \in DropJob
  BY <1>1 DEF CreateJob, DropJob, TypeOK
<1>3. Goto(c, next)
  BY DEF InitList
<1>4. job'[c] = next /\ job' \in [Clients -> Jobs] /\ \A d \in Clients \ {c} : job'[d] = job[d]
  <2>. HIDE DEF next
  <2>. QED  BY <1>2, <1>3, JobsOf, GotoTyped DEF TypeOK
<1>. QED  BY <1>1, <1>2, <1>4

(* A listed index is dropped, if it is still there.                        *)
LEMMA DropTyped ==
  ASSUME TypeOK, NEW c \in Clients, NEW name \in Names, InitDrop(c, name)
  PROVE  /\ job[c] \in DropJob /\ name \in job[c].stale /\ indexes' = indexes \ {name}
         /\ \/ job'[c] = Idle
            \/ /\ job'[c] \in DropJob /\ job'[c].stale = job[c].stale \ {name}
               /\ job'[c].expected = job[c].expected
         /\ \A d \in Clients \ {c} : job'[d] = job[d]
         /\ job' \in [Clients -> Jobs]
<1>. DEFINE now == job[c]
            next == [now EXCEPT !.stale = @ \ {name}]
<1>1. now \in DropJob /\ name \in now.stale /\ indexes' = indexes \ {name}
  BY JobShapes DEF InitDrop, In, TypeOK
<1>2. next \in DropJob /\ next.stale = now.stale \ {name} /\ next.expected = now.expected
  <2>. HIDE DEF now
  <2>. QED  BY <1>1 DEF DropJob
<1>3. Goto(c, next) \/ Goto(c, Idle)
  BY DEF InitDrop, Finish
<1>. HIDE DEF next
<1>4. next \in Jobs /\ Idle \in Jobs /\ job \in [Clients -> Jobs]
  BY <1>2, JobsOf DEF TypeOK
<1>. QED  BY <1>1, <1>2, <1>3, <1>4, GotoTyped

(* The variables keep their types.                                         *)
THEOREM SqlTyped == Spec => []TypeOK
<1>1. Init => TypeOK
  BY JobsOf DEF Init, TypeOK, Table
<1>2. TypeOK /\ [Next]_vars => TypeOK'
  <2>. SUFFICES ASSUME TypeOK, [Next]_vars PROVE TypeOK'
    OBVIOUS
  <2>0. job \in [Clients -> Jobs] /\ table \in Table /\ before \in Table
    BY DEF TypeOK
  <2>1. ASSUME NEW c \in Clients, NEW id \in Ids, NEW type \in Types, NEW data \in PutData,
               PutInsert(c, id, type, data)
        PROVE  TypeOK'
    <3>1. [type |-> type, data |-> data, created |-> clock] \in Record
      BY DEF TypeOK, Record
    <3>2. table' \in Table
      BY <2>0, <2>1, <3>1 DEF PutInsert, Table
    <3>3. [op |-> "put", id |-> id] \in Jobs
      BY DEF Jobs
    <3>4. Goto(c, [op |-> "put", id |-> id])
      BY <2>1 DEF PutInsert, Begin
    <3>5. job' \in [Clients -> Jobs]
      BY <2>0, <3>3, <3>4, GotoTyped
    <3>. QED  BY <2>1, <3>2, <3>5 DEF PutInsert, fixed, TypeOK
  <2>2. ASSUME NEW c \in Clients, NEW id \in Ids, NEW type \in Types, NEW data \in PutData,
               UpdateRow(c, id, type, data)
        PROVE  TypeOK'
    <3>2. table' \in Table
      <4>1. CASE table[id] = None
        BY <2>0, <2>2, <4>1 DEF UpdateRow
      <4>2. CASE table[id] # None
        <5>1. table[id] \in Record
          BY <2>0, <4>2 DEF Table
        <5>2. table' = [table EXCEPT ![id].type = type, ![id].data = data]
          BY <2>2, <4>2 DEF UpdateRow
        <5>3. [table[id] EXCEPT !.type = type, !.data = data] \in Record
          BY <5>1 DEF Record
        <5>. QED  BY <2>0, <5>1, <5>2, <5>3 DEF Table, Record
      <4>. QED  BY <4>1, <4>2
    <3>3. [op |-> "update", id |-> id] \in Jobs
      BY DEF Jobs
    <3>4. Goto(c, [op |-> "update", id |-> id])
      BY <2>2 DEF UpdateRow, Begin
    <3>5. job' \in [Clients -> Jobs]
      BY <2>0, <3>3, <3>4, GotoTyped
    <3>. QED  BY <2>2, <3>2, <3>5 DEF UpdateRow, fixed, TypeOK
  <2>3. ASSUME NEW c \in Clients, NEW id \in Ids, PutTaken(c, id) \/ RemoveOne(c, id)
        PROVE  TypeOK'
    <3>1. Goto(c, Idle)
      BY <2>3 DEF PutTaken, RemoveOne, Finish
    <3>2. job' \in [Clients -> Jobs]
      BY <2>0, <3>1, GotoTyped, JobsOf
    <3>3. table' \in Table
      BY <2>0, <2>3 DEF PutTaken, RemoveOne, Table
    <3>. QED  BY <2>3, <3>2, <3>3 DEF PutTaken, RemoveOne, fixed, TypeOK
  <2>4. ASSUME NEW c \in Clients, NEW query \in Queries, Ask(c, query) PROVE TypeOK'
    <3>1. Goto(c, Idle)
      BY <2>4 DEF Ask, Finish
    <3>2. job' \in [Clients -> Jobs]
      BY <2>0, <3>1, GotoTyped, JobsOf
    <3>. QED  BY <2>4, <3>2 DEF Ask, fixed, TypeOK
  <2>5. ASSUME NEW c \in Clients, NEW call \in PatchCalls, PatchBegin(c, call) PROVE TypeOK'
    <3>1. [op |-> "patch", left |-> call, count |-> 0] \in PatchJob
      BY DEF PatchJob
    <3>2. Goto(c, [op |-> "patch", left |-> call, count |-> 0])
      BY <2>5 DEF PatchBegin, Begin
    <3>3. job' \in [Clients -> Jobs]
      BY <2>0, <3>1, <3>2, GotoTyped, JobsOf
    <3>. QED  BY <2>5, <3>3 DEF PatchBegin, TypeOK
  <2>6. ASSUME NEW c \in Clients, NEW spec \in Specs, InitBegin(c, spec) PROVE TypeOK'
    <3>1. [op |-> "create", left |-> spec, expected |-> {}] \in CreateJob
      BY DEF CreateJob
    <3>2. Goto(c, [op |-> "create", left |-> spec, expected |-> {}])
      BY <2>6 DEF InitBegin, Begin
    <3>3. job' \in [Clients -> Jobs]
      BY <2>0, <3>1, <3>2, GotoTyped, JobsOf
    <3>. QED  BY <2>6, <3>3 DEF InitBegin, fixed, TypeOK
  <2>7. ASSUME NEW c \in Clients, SelectBack(c) \/ InitRefused(c) \/ InitEnd(c) PROVE TypeOK'
    <3>1. Goto(c, Idle)
      BY <2>7 DEF SelectBack, InitRefused, InitEnd, Finish
    <3>2. job' \in [Clients -> Jobs]
      BY <2>0, <3>1, GotoTyped, JobsOf
    <3>3. declared' \subseteq Names
      <4>1. CASE SelectBack(c) \/ InitRefused(c)
        BY <4>1 DEF SelectBack, InitRefused, fixed, TypeOK
      <4>2. CASE InitEnd(c)
        <5>1. job[c] \in DropJob
          BY <2>0, <4>2, JobShapes DEF InitEnd, In
        <5>. QED  BY <4>2, <5>1 DEF InitEnd, DropJob
      <4>. QED  BY <2>7, <4>1, <4>2
    <3>. QED  BY <2>7, <3>2, <3>3 DEF SelectBack, InitRefused, InitEnd, fixed, TypeOK
  <2>8. ASSUME NEW c \in Clients, PatchEntry(c) PROVE TypeOK'
    BY <2>8, EntryTyped DEF PatchEntry, fixed, TypeOK
  <2>9. ASSUME NEW c \in Clients, PatchFails(c) \/ PatchCommit(c) \/ Interrupt(c) PROVE TypeOK'
    <3>1. Goto(c, Idle)
      BY <2>9 DEF PatchFails, PatchCommit, Interrupt, Finish
    <3>2. job' \in [Clients -> Jobs]
      BY <2>0, <3>1, GotoTyped, JobsOf
    <3>. QED  BY <2>9, <3>2 DEF PatchFails, PatchCommit, Interrupt, Rollback, TypeOK
  <2>10. ASSUME NEW c \in Clients, InitCreate(c) PROVE TypeOK'
    BY <2>0, <2>10, CreateTyped DEF InitCreate, fixed, TypeOK
  <2>11. ASSUME NEW c \in Clients, InitList(c) PROVE TypeOK'
    BY <2>0, <2>11, ListTyped DEF InitList, fixed, TypeOK
  <2>12. ASSUME NEW c \in Clients, NEW name \in Names, InitDrop(c, name) PROVE TypeOK'
    BY <2>0, <2>12, DropTyped DEF InitDrop, fixed, TypeOK
  <2>13. CASE Crash
    BY <2>13, JobsOf DEF Crash, TypeOK
  <2>14. CASE Tick
    BY <2>14 DEF Tick, TypeOK
  <2>15. CASE UNCHANGED vars
    BY <2>15 DEF vars, TypeOK
  <2>. QED
    BY <2>1, <2>2, <2>3, <2>4, <2>5, <2>6, <2>7, <2>8, <2>9, <2>10, <2>11, <2>12, <2>13,
       <2>14, <2>15 DEF Next, Call, Continue
<1>. QED  BY <1>1, <1>2, PTL DEF Spec

-----------------------------------------------------------------------------
(* The permit is with the client whose patch is running, and with no other *)
(* (withTransaction, sql-storage-client.ts:117-126).                       *)
Permit == \A c \in Clients : job[c].op = "patch" <=> holder = c

(* A call changes the table by the whole of one statement.                 *)
Statement ==
  \/ \E id \in Ids, type \in Types, data \in PutData :
       \/ table' = [table EXCEPT ![id] = [type |-> type, data |-> data, created |-> clock]]
       \/ table[id] # None /\ table' = [table EXCEPT ![id].type = type, ![id].data = data]
  \/ \E id \in Ids : table' = [table EXCEPT ![id] = None]

(* A statement of a call other than patch.                                 *)
Alone(c) ==
  /\ job[c].op # "patch" /\ job'[c].op # "patch"
  /\ \A d \in Clients \ {c} : job'[d] = job[d]
  /\ UNCHANGED <<holder, before>>
  /\ (MayRun(c) /\ Statement) \/ UNCHANGED table

(* A patch is given up.                                                    *)
Undone(c) ==
  /\ holder = c /\ holder' = None /\ table' = before /\ before' = before
  /\ job'[c] = Idle /\ \A d \in Clients \ {c} : job'[d] = job[d]

(* What a step is to the patches that are running.                         *)
LEMMA StepKinds ==
  ASSUME TypeOK, Permit, [Next]_vars
  PROVE  \/ \E c \in Clients : Alone(c)
         \/ \E c \in Clients, call \in PatchCalls : PatchBegin(c, call)
         \/ \E c \in Clients : PatchEntry(c)
         \/ \E c \in Clients : PatchCommit(c)
         \/ \E c \in Clients : Undone(c)
         \/ Crash
         \/ UNCHANGED <<table, holder, before, job>>
<1>0. job \in [Clients -> Jobs]
  BY DEF TypeOK
<1>1. ASSUME NEW c \in Clients, NEW id \in Ids, NEW type \in Types, NEW data \in PutData,
             PutInsert(c, id, type, data)
      PROVE  Alone(c)
  <2>1. [op |-> "put", id |-> id] \in Jobs /\ Goto(c, [op |-> "put", id |-> id])
    BY <1>1 DEF Jobs, PutInsert, Begin
  <2>2. /\ job'[c].op = "put" /\ job[c].op = "idle"
        /\ \A d \in Clients \ {c} : job'[d] = job[d]
    BY <1>0, <1>1, <2>1, GotoTyped DEF PutInsert, Begin, Idle
  <2>. QED  BY <1>1, <2>2 DEF Alone, Statement, PutInsert, Begin, fixed
<1>2. ASSUME NEW c \in Clients, NEW id \in Ids, NEW type \in Types, NEW data \in PutData,
             UpdateRow(c, id, type, data)
      PROVE  Alone(c)
  <2>1. [op |-> "update", id |-> id] \in Jobs /\ Goto(c, [op |-> "update", id |-> id])
    BY <1>2 DEF Jobs, UpdateRow, Begin
  <2>2. /\ job'[c].op = "update" /\ job[c].op = "idle"
        /\ \A d \in Clients \ {c} : job'[d] = job[d]
    BY <1>0, <1>2, <2>1, GotoTyped DEF UpdateRow, Begin, Idle
  <2>3. (MayRun(c) /\ Statement) \/ UNCHANGED table
    BY <1>2 DEF Statement, UpdateRow, Begin
  <2>. QED  BY <1>2, <2>2, <2>3 DEF Alone, UpdateRow, fixed
<1>3. ASSUME NEW c \in Clients, NEW id \in Ids, PutTaken(c, id) \/ RemoveOne(c, id)
      PROVE  Alone(c)
  <2>1. Idle \in Jobs /\ Goto(c, Idle) /\ job[c] = Idle
    BY <1>3, JobsOf DEF PutTaken, RemoveOne, Finish
  <2>2. job'[c] = Idle /\ \A d \in Clients \ {c} : job'[d] = job[d]
    BY <1>0, <2>1, GotoTyped
  <2>3. (MayRun(c) /\ Statement) \/ UNCHANGED table
    BY <1>3 DEF Statement, PutTaken, RemoveOne
  <2>. QED  BY <1>3, <2>1, <2>2, <2>3 DEF Alone, PutTaken, RemoveOne, fixed, Idle
<1>4. ASSUME NEW c \in Clients, NEW query \in Queries, Ask(c, query) PROVE Alone(c)
  <2>1. Idle \in Jobs /\ Goto(c, Idle) /\ job[c] = Idle
    BY <1>4, JobsOf DEF Ask, Finish
  <2>2. job'[c] = Idle /\ \A d \in Clients \ {c} : job'[d] = job[d]
    BY <1>0, <2>1, GotoTyped
  <2>. QED  BY <1>4, <2>1, <2>2 DEF Alone, Ask, fixed, Idle
<1>5. ASSUME NEW c \in Clients, NEW spec \in Specs, InitBegin(c, spec) PROVE Alone(c)
  <2>. DEFINE next == [op |-> "create", left |-> spec, expected |-> {}]
  <2>1. next \in Jobs
    <3>1. next \in CreateJob
      BY DEF CreateJob
    <3>. QED  BY <3>1, JobsOf
  <2>2. Goto(c, next) /\ job[c] = Idle
    BY <1>5 DEF InitBegin, Begin
  <2>3. next.op = "create"
    OBVIOUS
  <2>. HIDE DEF next
  <2>4. job'[c] = next /\ \A d \in Clients \ {c} : job'[d] = job[d]
    BY <1>0, <2>1, <2>2, GotoTyped
  <2>. QED  BY <1>5, <2>2, <2>3, <2>4 DEF Alone, InitBegin, fixed, Idle
<1>6. ASSUME NEW c \in Clients, SelectBack(c) \/ InitRefused(c) \/ InitEnd(c) PROVE Alone(c)
  <2>1. Idle \in Jobs /\ Goto(c, Idle) /\ job[c].op # "patch"
    BY <1>6, JobsOf DEF SelectBack, InitRefused, InitEnd, In, Finish
  <2>2. job'[c] = Idle /\ \A d \in Clients \ {c} : job'[d] = job[d]
    BY <1>0, <2>1, GotoTyped
  <2>. QED  BY <1>6, <2>1, <2>2 DEF Alone, SelectBack, InitRefused, InitEnd, fixed, Idle
<1>7. ASSUME NEW c \in Clients, PatchFails(c) PROVE Undone(c)
  <2>1. Idle \in Jobs /\ Goto(c, Idle) /\ holder = c
    BY <1>7, JobsOf DEF PatchFails, In, Finish, Permit
  <2>2. job'[c] = Idle /\ \A d \in Clients \ {c} : job'[d] = job[d]
    BY <1>0, <2>1, GotoTyped
  <2>. QED  BY <1>7, <2>1, <2>2 DEF Undone, PatchFails, Rollback
<1>8. ASSUME NEW c \in Clients, Interrupt(c) PROVE Undone(c) \/ Alone(c)
  <2>1. Idle \in Jobs /\ Goto(c, Idle) /\ (holder = c <=> job[c].op = "patch")
    BY <1>8, JobsOf DEF Interrupt, Finish, Permit
  <2>2. job'[c] = Idle /\ \A d \in Clients \ {c} : job'[d] = job[d]
    BY <1>0, <2>1, GotoTyped
  <2>3. CASE holder = c
    BY <1>8, <2>2, <2>3 DEF Undone, Interrupt, Rollback
  <2>4. CASE holder # c
    BY <1>8, <2>1, <2>2, <2>4 DEF Alone, Interrupt, Rollback, Idle
  <2>. QED  BY <2>3, <2>4
<1>9. ASSUME NEW c \in Clients, InitCreate(c) PROVE Alone(c)
  BY <1>9, CreateTyped DEF Alone, InitCreate, In, CreateJob, fixed
<1>10. ASSUME NEW c \in Clients, InitList(c) PROVE Alone(c)
  BY <1>10, ListTyped DEF Alone, InitList, In, DropJob, fixed
<1>11. ASSUME NEW c \in Clients, NEW name \in Names, InitDrop(c, name) PROVE Alone(c)
  BY <1>11, DropTyped DEF Alone, InitDrop, In, DropJob, fixed, Idle
<1>12. ASSUME Tick \/ UNCHANGED vars PROVE UNCHANGED <<table, holder, before, job>>
  BY <1>12 DEF Tick, vars
<1>. QED
  BY <1>1, <1>2, <1>3, <1>4, <1>5, <1>6, <1>7, <1>8, <1>9, <1>10, <1>11, <1>12
     DEF Next, Call, Continue

(* One patch at a time has the permit.                                     *)
LEMMA PermitHeld == Spec => []Permit
<1>1. Init => Permit
  BY DEF Init, Permit, Idle
<1>2. TypeOK /\ Permit /\ [Next]_vars => Permit'
  <2>. SUFFICES ASSUME TypeOK, Permit, [Next]_vars PROVE Permit'
    OBVIOUS
  <2>0. job \in [Clients -> Jobs]
    BY DEF TypeOK
  <2>1. ASSUME NEW c \in Clients, Alone(c) PROVE Permit'
    BY <2>1 DEF Permit, Alone
  <2>2. ASSUME NEW c \in Clients, NEW call \in PatchCalls, PatchBegin(c, call) PROVE Permit'
    <3>. DEFINE next == [op |-> "patch", left |-> call, count |-> 0]
    <3>1. next \in Jobs /\ next.op = "patch"
      <4>1. next \in PatchJob
        BY DEF PatchJob
      <4>. QED  BY <4>1, JobsOf
    <3>2. Goto(c, next) /\ holder = None /\ holder' = c
      BY <2>2 DEF PatchBegin, Begin
    <3>. HIDE DEF next
    <3>3. job'[c] = next /\ \A d \in Clients \ {c} : job'[d] = job[d]
      BY <2>0, <3>1, <3>2, GotoTyped
    <3>. QED  BY <3>1, <3>2, <3>3 DEF Permit
  <2>3. ASSUME NEW c \in Clients, PatchEntry(c) PROVE Permit'
    BY <2>3, EntryTyped DEF Permit, PatchEntry, In, PatchJob, fixed
  <2>4. ASSUME NEW c \in Clients, PatchCommit(c) PROVE Permit'
    <3>1. Idle \in Jobs /\ Goto(c, Idle) /\ holder = c /\ holder' = None
      BY <2>4, JobsOf DEF PatchCommit, In, Finish, Permit
    <3>2. job'[c] = Idle /\ \A d \in Clients \ {c} : job'[d] = job[d]
      BY <2>0, <3>1, GotoTyped
    <3>. QED  BY <3>1, <3>2 DEF Permit, Idle
  <2>5. ASSUME NEW c \in Clients, Undone(c) PROVE Permit'
    BY <2>5 DEF Permit, Undone, Idle
  <2>6. CASE Crash
    BY <2>6 DEF Permit, Crash, Idle
  <2>7. CASE UNCHANGED <<table, holder, before, job>>
    BY <2>7 DEF Permit
  <2>. QED  BY <2>1, <2>2, <2>3, <2>4, <2>5, <2>6, <2>7, StepKinds
<1>. QED  BY <1>1, <1>2, SqlTyped, PTL DEF Spec

-----------------------------------------------------------------------------
(* The first k entries of the call have been applied, and the others are   *)
(* still to come.                                                          *)
Along(c, call, k, t) ==
  /\ Chain(call, k, t) /\ t[0] = [records |-> before, count |-> 0]
  /\ job[c].left = SubSeq(call, k + 1, Len(call))
  /\ t[k] = [records |-> table, count |-> job[c].count]

(* A patch that is running has applied its first entries, in their order,  *)
(* to the table as it was when it began: nobody else writes meanwhile.     *)
Underway ==
  \A c \in Clients : holder = c =>
    \E call \in PatchCalls : \E k \in 0..Len(call) : \E t : Along(c, call, k, t)

(* An entry takes it one further.                                          *)
LEMMA EntryGoesOn ==
  ASSUME TypeOK, Permit, NEW c \in Clients, PatchEntry(c),
         NEW call \in PatchCalls, NEW k \in 0..Len(call), NEW t, Along(c, call, k, t)
  PROVE  k + 1 \in 0..Len(call) /\ \E u : Along(c, call, k + 1, u)'
<1>. DEFINE entry == Head(job[c].left)
            state == [records |-> table, count |-> job[c].count]
            later == [records |-> table', count |-> job'[c].count]
<1>0. call \in Seq(TypePatch) /\ k \in Nat /\ Len(call) \in Nat
  OBVIOUS
<1>1. /\ later = Applied(state, entry) /\ job[c].left # <<>>
      /\ table' \in Table /\ job'[c] \in PatchJob /\ job'[c].left = Tail(job[c].left)
  BY EntryTyped
<1>2. /\ k + 1 \in 1..Len(call) /\ entry = call[k + 1]
      /\ job'[c].left = SubSeq(call, (k + 1) + 1, Len(call))
  BY <1>0, <1>1, RestOfSequence DEF Along
<1>3. later \in State
  BY <1>1 DEF State, PatchJob
<1>4. before' = before
  BY DEF PatchEntry, fixed
<1>5. t \in [0..k -> State] /\ \A i \in 1..k : t[i] = Applied(t[i - 1], call[i])
  BY DEF Along, Chain
<1>6. t[k] = state /\ t[0] = [records |-> before, count |-> 0]
  BY DEF Along
<1>. HIDE DEF later, state, entry
<1>a. PICK u : u = [i \in 0..(k + 1) |-> IF i = k + 1 THEN later ELSE t[i]]
  OBVIOUS
<1>7. u \in [0..(k + 1) -> State]
  BY <1>0, <1>3, <1>5, <1>a
<1>8. \A i \in 1..(k + 1) : u[i] = Applied(u[i - 1], call[i])
  <2>1. ASSUME NEW i \in 1..k PROVE u[i] = Applied(u[i - 1], call[i])
    <3>1. u[i] = t[i] /\ u[i - 1] = t[i - 1]
      BY <1>0, <1>a
    <3>. QED  BY <1>5, <3>1
  <2>2. u[k + 1] = later /\ u[k] = t[k] /\ (k + 1) - 1 = k
    BY <1>0, <1>a
  <2>3. u[k + 1] = Applied(u[(k + 1) - 1], call[k + 1])
    BY <1>1, <1>2, <1>6, <2>2
  <2>4. \A i \in 1..(k + 1) : i \in 1..k \/ i = k + 1
    BY <1>0
  <2>. QED  BY <2>1, <2>3, <2>4
<1>9. u[k + 1] = later /\ u[0] = t[0]
  BY <1>0, <1>a
<1>10. Chain(call, k + 1, u)
  BY <1>7, <1>8 DEF Chain
<1>11. Along(c, call, k + 1, u)'
  BY <1>2, <1>4, <1>6, <1>9, <1>10 DEF Along, later
<1>. QED  BY <1>0, <1>2, <1>11

(* It is so from the first entry to the last.                              *)
LEMMA PatchesGoOn == Spec => []Underway
<1>1. Init => Underway
  BY DEF Init, Underway
<1>2. TypeOK /\ Permit /\ Underway /\ [Next]_vars => Underway'
  <2>. SUFFICES ASSUME TypeOK, Permit, Underway, [Next]_vars PROVE Underway'
    OBVIOUS
  <2>0. job \in [Clients -> Jobs]
    BY DEF TypeOK
  <2>1. ASSUME NEW c \in Clients, Alone(c) PROVE Underway'
    <3>1. ASSUME NEW d \in Clients, holder' = d
          PROVE  \E call \in PatchCalls : \E k \in 0..Len(call) : \E t : Along(d, call, k, t)'
      <4>1. holder = d /\ d # c /\ job'[d] = job[d] /\ before' = before
        BY <2>1, <3>1 DEF Alone, Permit
      <4>2. table' = table
        BY <2>1, <4>1 DEF Alone, MayRun
      <4>3. PICK call \in PatchCalls : \E k \in 0..Len(call) : \E t : Along(d, call, k, t)
        BY <4>1 DEF Underway
      <4>4. PICK k \in 0..Len(call) : \E t : Along(d, call, k, t)
        BY <4>3
      <4>5. PICK t : Along(d, call, k, t)
        BY <4>4
      <4>6. Along(d, call, k, t)'
        BY <4>1, <4>2, <4>5 DEF Along
      <4>. QED  BY <4>6
    <3>. QED  BY <3>1 DEF Underway
  <2>2. ASSUME NEW c \in Clients, NEW call \in PatchCalls, PatchBegin(c, call) PROVE Underway'
    <3>. DEFINE next == [op |-> "patch", left |-> call, count |-> 0]
    <3>a. PICK t : t = [i \in 0..0 |-> [records |-> table, count |-> 0]]
      OBVIOUS
    <3>1. next \in Jobs /\ next.left = call /\ next.count = 0
      <4>1. next \in PatchJob
        BY DEF PatchJob
      <4>. QED  BY <4>1, JobsOf
    <3>2. Goto(c, next) /\ holder' = c /\ before' = table /\ table' = table
      BY <2>2 DEF PatchBegin, Begin
    <3>3. Chain(call, 0, t) /\ t[0] = [records |-> table, count |-> 0]
      BY <3>a DEF Chain, State, TypeOK
    <3>4. call = SubSeq(call, 0 + 1, Len(call)) /\ 0 \in 0..Len(call)
      <4>1. call \in Seq(TypePatch)
        OBVIOUS
      <4>. QED  BY <4>1
    <3>. HIDE DEF next
    <3>5. job'[c] = next
      BY <2>0, <3>1, <3>2, GotoTyped
    <3>6. Along(c, call, 0, t)'
      BY <3>1, <3>2, <3>3, <3>4, <3>5 DEF Along
    <3>. QED  BY <3>2, <3>4, <3>6 DEF Underway
  <2>3. ASSUME NEW c \in Clients, PatchEntry(c) PROVE Underway'
    <3>1. holder = c /\ holder' = holder
      BY <2>3 DEF PatchEntry, In, Permit, fixed
    <3>2. PICK call \in PatchCalls : \E k \in 0..Len(call) : \E t : Along(c, call, k, t)
      BY <3>1 DEF Underway
    <3>3. PICK k \in 0..Len(call) : \E t : Along(c, call, k, t)
      BY <3>2
    <3>4. PICK t : Along(c, call, k, t)
      BY <3>3
    <3>5. k + 1 \in 0..Len(call) /\ \E u : Along(c, call, k + 1, u)'
      BY <2>3, <3>4, EntryGoesOn
    <3>. QED  BY <3>1, <3>5 DEF Underway
  <2>4. ASSUME holder' = None PROVE Underway'
    BY <2>4 DEF Underway
  <2>5. CASE UNCHANGED <<table, holder, before, job>>
    BY <2>5 DEF Underway, Along
  <2>. QED
    BY <2>1, <2>2, <2>3, <2>4, <2>5, StepKinds DEF PatchCommit, Undone, Crash
<1>. QED  BY <1>1, <1>2, SqlTyped, PermitHeld, PTL DEF Spec

(* A patch that commits has applied the whole of a call.                   *)
LEMMA CommitsWhole ==
  ASSUME TypeOK, Permit, Underway, NEW c \in Clients, PatchCommit(c)
  PROVE  \E call \in PatchCalls : table' = Contract!Patched(call).records
<1>1. holder = c /\ table' = table /\ job[c].left = <<>>
  BY DEF PatchCommit, In, Permit
<1>2. PICK call \in PatchCalls : \E k \in 0..Len(call) : \E t : Along(c, call, k, t)
  BY <1>1 DEF Underway
<1>3. PICK k \in 0..Len(call) : \E t : Along(c, call, k, t)
  BY <1>2
<1>4. PICK t : Along(c, call, k, t)
  BY <1>3
<1>5. call \in Seq(TypePatch)
  OBVIOUS
<1>6. k = Len(call)
  BY <1>1, <1>4, <1>5, RestOfSequence DEF Along
<1>7. Contract!Patched(call) = t[Len(call)]
  <2>1. Chain(call, Len(call), t)
    BY <1>4, <1>6 DEF Along
  <2>2. t[0] = [records |-> IF holder = None THEN table ELSE before, count |-> 0]
    BY <1>1, <1>4 DEF Along
  <2>. QED  BY <1>5, <2>1, <2>2, PatchedIsLast
<1>8. t[Len(call)] = [records |-> table, count |-> job[c].count]
  BY <1>4, <1>6 DEF Along
<1>9. Contract!Patched(call).records = table
  BY <1>7, <1>8
<1>. QED  BY <1>1, <1>9

(* What the callers have committed changes by the whole of one call at a   *)
(* time, however their statements interleave, fail and are cut off.        *)
THEOREM CallsAreWhole == Spec => WholeCalls
<1>1. ASSUME TypeOK, Permit, Underway, [Next]_vars,
             ~ (/\ (holder = None => table' = table /\ (holder' # None => before' = table))
                /\ (holder # None => before' = before /\ (holder' = None => table' = before)))
      PROVE  \/ /\ holder = None /\ holder' = None
                /\ Statement
             \/ /\ holder # None /\ holder' = None
                /\ \E call \in PatchCalls : table' = Contract!Patched(call).records
  <2>1. ASSUME NEW c \in Clients, Alone(c) PROVE holder = None /\ holder' = None /\ Statement
    BY <1>1, <2>1 DEF Alone, MayRun, Permit
  <2>2. ASSUME NEW c \in Clients, NEW call \in PatchCalls, PatchBegin(c, call) PROVE FALSE
    BY <1>1, <2>2 DEF PatchBegin
  <2>3. ASSUME NEW c \in Clients, PatchEntry(c) PROVE FALSE
    BY <1>1, <2>3 DEF PatchEntry, In, Permit, fixed
  <2>4. ASSUME NEW c \in Clients, PatchCommit(c)
        PROVE  /\ holder # None /\ holder' = None
               /\ \E call \in PatchCalls : table' = Contract!Patched(call).records
    BY <1>1, <2>4, CommitsWhole DEF PatchCommit, In, Permit
  <2>5. ASSUME NEW c \in Clients, Undone(c) PROVE FALSE
    BY <1>1, <2>5 DEF Undone
  <2>6. ASSUME Crash PROVE FALSE
    BY <1>1, <2>6 DEF Crash
  <2>7. ASSUME UNCHANGED <<table, holder, before, job>> PROVE FALSE
    BY <1>1, <2>7
  <2>. QED  BY <1>1, <2>1, <2>2, <2>3, <2>4, <2>5, <2>6, <2>7, StepKinds
<1>. DEFINE records == IF holder = None THEN table ELSE before
<1>2. ASSUME TypeOK, Permit, Underway, [Next]_vars PROVE [Contract!WholeCall]_records
  <2>1. CASE /\ (holder = None => table' = table /\ (holder' # None => before' = table))
             /\ (holder # None => before' = before /\ (holder' = None => table' = before))
    BY <2>1
  <2>2. CASE holder = None /\ holder' = None /\ Statement
    <3>1. records = table /\ records' = table'
      BY <2>2
    <3>2. ASSUME NEW id \in Ids, NEW type \in Types, NEW data \in PutData,
                 table' = [table EXCEPT ![id] = [type |-> type, data |-> data, created |-> clock]]
          PROVE  Contract!Stores(id, type, data)
      BY <2>2, <3>2 DEF Contract!Stores
    <3>3. ASSUME NEW id \in Ids, NEW type \in Types, NEW data \in PutData,
                 table' = [table EXCEPT ![id].type = type, ![id].data = data]
          PROVE  Contract!Changes(id, type, data)
      BY <2>2, <3>3 DEF Contract!Changes
    <3>4. ASSUME NEW id \in Ids, table' = [table EXCEPT ![id] = None]
          PROVE  Contract!Removes(id)
      BY <2>2, <3>4 DEF Contract!Removes
    <3>. QED  BY <2>2, <3>1, <3>2, <3>3, <3>4 DEF Statement, Contract!WholeCall
  <2>3. CASE /\ holder # None /\ holder' = None
             /\ \E call \in PatchCalls : table' = Contract!Patched(call).records
    BY <2>3 DEF Contract!WholeCall
  <2>. QED  BY <1>1, <1>2, <2>1, <2>2, <2>3
<1>. QED
  BY <1>2, SqlTyped, PermitHeld, PatchesGoOn, PTL DEF Spec, WholeCalls, Contract!WholeCalls

-----------------------------------------------------------------------------
(* The names of the indexes that a list declares, and whether all of its   *)
(* fields are accepted.                                                    *)
NamesOf(spec) == {IndexName[spec[i][1]][spec[i][2]] : i \in DOMAIN spec}

Accepted(spec) == \A i \in DOMAIN spec : spec[i][2] \notin BadFields

(* The indexes that an initialize can succeed with.                        *)
Wanted == UNION {NamesOf(spec) : spec \in {s \in Specs : Accepted(s)}}

(* All the callers that can succeed declare the same indexes: they run one *)
(* program on the database.                                                *)
OneDeclaration == \A spec \in Specs : Accepted(spec) => NamesOf(spec) = Wanted

(* An initialize that can still succeed creates the wanted indexes and     *)
(* drops none of them.                                                     *)
Declaring ==
  /\ declared \subseteq Wanted \cap indexes
  /\ \A c \in Clients : job[c].op = "create" =>
       /\ job[c].expected \cap Wanted \subseteq indexes
       /\ Accepted(job[c].left) => job[c].expected \cup NamesOf(job[c].left) = Wanted
  /\ \A c \in Clients : job[c].op = "drop" =>
       /\ job[c].expected = Wanted /\ Wanted \subseteq indexes
       /\ job[c].stale \cap Wanted = {}

(* The names of a list are those of its first declaration and of the rest. *)
LEMMA NamesOfParts ==
  ASSUME NEW spec \in Seq(Types \X Fields), spec # <<>>,
         NEW name, name = IndexName[Head(spec)[1]][Head(spec)[2]]
  PROVE  /\ NamesOf(spec) = {name} \cup NamesOf(Tail(spec))
         /\ Accepted(spec) <=> Head(spec)[2] \notin BadFields /\ Accepted(Tail(spec))
<1>1. /\ DOMAIN spec = 1..Len(spec) /\ Len(spec) \in Nat \ {0} /\ Head(spec) = spec[1]
      /\ Tail(spec) \in Seq(Types \X Fields) /\ Len(Tail(spec)) = Len(spec) - 1
      /\ DOMAIN Tail(spec) = 1..(Len(spec) - 1)
      /\ \A i \in 1..(Len(spec) - 1) : Tail(spec)[i] = spec[i + 1]
  <2>1. Len(spec) \in Nat \ {0}
    BY EmptySeq
  <2>2. /\ Tail(spec) \in Seq(Types \X Fields) /\ Len(Tail(spec)) = Len(spec) - 1
        /\ \A i \in 1..(Len(spec) - 1) : Tail(spec)[i] = spec[i + 1]
    BY HeadTailProperties
  <2>. QED  BY <2>1, <2>2
<1>2. ASSUME NEW i \in DOMAIN spec
      PROVE  i = 1 \/ (i - 1 \in DOMAIN Tail(spec) /\ Tail(spec)[i - 1] = spec[i])
  BY <1>1
<1>3. ASSUME NEW i \in DOMAIN Tail(spec)
      PROVE  i + 1 \in DOMAIN spec /\ spec[i + 1] = Tail(spec)[i]
  BY <1>1
<1>4. 1 \in DOMAIN spec
  BY <1>1
<1>5. NamesOf(spec) \subseteq {name} \cup NamesOf(Tail(spec))
  <2>1. ASSUME NEW i \in DOMAIN spec
        PROVE  IndexName[spec[i][1]][spec[i][2]] \in {name} \cup NamesOf(Tail(spec))
    <3>1. CASE i = 1
      BY <1>1, <3>1
    <3>2. CASE i # 1
      BY <1>2, <2>1, <3>2 DEF NamesOf
    <3>. QED  BY <3>1, <3>2
  <2>. QED  BY <2>1 DEF NamesOf
<1>6. {name} \cup NamesOf(Tail(spec)) \subseteq NamesOf(spec)
  <2>1. name \in NamesOf(spec)
    BY <1>1, <1>4 DEF NamesOf
  <2>2. NamesOf(Tail(spec)) \subseteq NamesOf(spec)
    BY <1>3 DEF NamesOf
  <2>. QED  BY <2>1, <2>2
<1>7. Accepted(spec) <=> Head(spec)[2] \notin BadFields /\ Accepted(Tail(spec))
  BY <1>1, <1>2, <1>3, <1>4 DEF Accepted
<1>. QED  BY <1>5, <1>6, <1>7

(* A declared index stays, although others list and drop indexes meanwhile *)
(* and fail on the way, if all that succeed declare the same.              *)
THEOREM DeclaredIndexesStay ==
  ASSUME OneDeclaration PROVE Spec => []DeclaredStay
<1>1. Init => Declaring
  BY DEF Init, Declaring, Idle
<1>2. TypeOK /\ Declaring /\ [Next]_vars => Declaring'
  <2>. SUFFICES ASSUME TypeOK, Declaring, [Next]_vars PROVE Declaring'
    OBVIOUS
  <2>0. job \in [Clients -> Jobs]
    BY DEF TypeOK
  <2>1. ASSUME NEW c \in Clients, NEW next \in Jobs, Goto(c, next),
               next.op \notin {"create", "drop"}, UNCHANGED <<indexes, declared>>
        PROVE  Declaring'
    <3>1. job'[c] = next /\ \A d \in Clients \ {c} : job'[d] = job[d]
      BY <2>0, <2>1, GotoTyped
    <3>. QED  BY <2>1, <3>1 DEF Declaring
  <2>2. ASSUME NEW c \in Clients,
               \/ \E id \in Ids, type \in Types, data \in PutData :
                    PutInsert(c, id, type, data) \/ UpdateRow(c, id, type, data)
               \/ \E id \in Ids : PutTaken(c, id) \/ RemoveOne(c, id)
               \/ \E query \in Queries : Ask(c, query)
        PROVE  Declaring'
    <3>1. PICK next \in Jobs : Goto(c, next) /\ next.op \in {"put", "update", "idle"}
      <4>1. ASSUME NEW id \in Ids, NEW type \in Types, NEW data \in PutData,
                   PutInsert(c, id, type, data) \/ UpdateRow(c, id, type, data)
            PROVE  \E next \in Jobs : Goto(c, next) /\ next.op \in {"put", "update", "idle"}
        <5>1. /\ [op |-> "put", id |-> id] \in Jobs /\ [op |-> "put", id |-> id].op = "put"
              /\ [op |-> "update", id |-> id] \in Jobs
              /\ [op |-> "update", id |-> id].op = "update"
          BY DEF Jobs
        <5>2. Goto(c, [op |-> "put", id |-> id]) \/ Goto(c, [op |-> "update", id |-> id])
          BY <4>1 DEF PutInsert, UpdateRow, Begin
        <5>. QED  BY <5>1, <5>2
      <4>2. ASSUME \/ \E id \in Ids : PutTaken(c, id) \/ RemoveOne(c, id)
                   \/ \E query \in Queries : Ask(c, query)
            PROVE  Goto(c, Idle)
        BY <4>2 DEF PutTaken, RemoveOne, Ask, Finish
      <4>3. Idle \in Jobs /\ Idle.op = "idle"
        BY JobsOf DEF Idle
      <4>. QED  BY <2>2, <4>1, <4>2, <4>3
    <3>2. UNCHANGED <<indexes, declared>>
      BY <2>2 DEF PutInsert, UpdateRow, PutTaken, RemoveOne, Ask, fixed
    <3>3. next.op \notin {"create", "drop"}
      BY <3>1
    <3>. QED  BY <2>1, <3>1, <3>2, <3>3
  <2>3. ASSUME NEW c \in Clients, NEW call \in PatchCalls, PatchBegin(c, call) PROVE Declaring'
    <3>. DEFINE next == [op |-> "patch", left |-> call, count |-> 0]
    <3>1. next \in Jobs /\ next.op \notin {"create", "drop"}
      <4>1. next \in PatchJob
        BY DEF PatchJob
      <4>2. next.op = "patch"
        OBVIOUS
      <4>. HIDE DEF next
      <4>. QED  BY <4>1, <4>2, JobsOf
    <3>2. Goto(c, next) /\ UNCHANGED <<indexes, declared>>
      BY <2>3 DEF PatchBegin, Begin
    <3>. HIDE DEF next
    <3>. QED  BY <2>1, <3>1, <3>2
  <2>4. ASSUME NEW c \in Clients, NEW spec \in Specs, InitBegin(c, spec) PROVE Declaring'
    <3>. DEFINE next == [op |-> "create", left |-> spec, expected |-> {}]
    <3>1. next \in Jobs /\ next.op = "create" /\ next.left = spec /\ next.expected = {}
      <4>1. next \in CreateJob
        BY DEF CreateJob
      <4>. QED  BY <4>1, JobsOf
    <3>2. Goto(c, next) /\ UNCHANGED <<indexes, declared>>
      BY <2>4 DEF InitBegin, Begin, fixed
    <3>. HIDE DEF next
    <3>3. job'[c] = next /\ \A d \in Clients \ {c} : job'[d] = job[d]
      BY <2>0, <3>1, <3>2, GotoTyped
    <3>4. Accepted(spec) => {} \cup NamesOf(spec) = Wanted
      BY DEF OneDeclaration
    <3>. QED  BY <3>1, <3>2, <3>3, <3>4 DEF Declaring
  <2>5. ASSUME NEW c \in Clients,
               \/ SelectBack(c) \/ InitRefused(c) \/ PatchFails(c) \/ PatchCommit(c) \/ Interrupt(c)
        PROVE  Declaring'
    <3>1. Goto(c, Idle) /\ UNCHANGED <<indexes, declared>>
      BY <2>5 DEF SelectBack, InitRefused, PatchFails, PatchCommit, Interrupt, Finish, fixed
    <3>2. Idle \in Jobs /\ Idle.op \notin {"create", "drop"}
      BY JobsOf DEF Idle
    <3>. QED  BY <2>1, <3>1, <3>2
  <2>6. ASSUME NEW c \in Clients, PatchEntry(c) PROVE Declaring'
    BY <2>6, EntryTyped DEF Declaring, PatchEntry, PatchJob, fixed
  <2>7. ASSUME NEW c \in Clients, InitCreate(c) PROVE Declaring'
    <3>. DEFINE left == job[c].left
    <3>0. PICK name : name = IndexName[Head(left)[1]][Head(left)[2]]
      OBVIOUS
    <3>1. /\ job[c] \in CreateJob /\ left # <<>> /\ Head(left)[2] \notin BadFields
          /\ indexes' = indexes \cup {name} /\ declared' = declared
          /\ job'[c] \in CreateJob /\ job'[c].left = Tail(left)
          /\ job'[c].expected = job[c].expected \cup {name}
          /\ \A d \in Clients \ {c} : job'[d] = job[d]
      BY <2>7, <3>0, CreateTyped DEF InitCreate, fixed
    <3>2. /\ NamesOf(left) = {name} \cup NamesOf(Tail(left))
          /\ Accepted(left) <=> Head(left)[2] \notin BadFields /\ Accepted(Tail(left))
      <4>1. left \in Seq(Types \X Fields)
        BY <3>1 DEF CreateJob
      <4>. QED  BY <3>0, <3>1, <4>1, NamesOfParts
    <3>3. /\ job[c].expected \cap Wanted \subseteq indexes
          /\ Accepted(left) => job[c].expected \cup NamesOf(left) = Wanted
          /\ job'[c].op = "create"
      BY <3>1 DEF Declaring, CreateJob
    <3>. HIDE DEF left
    <3>4. Accepted(Tail(left)) => job'[c].expected \cup NamesOf(Tail(left)) = Wanted
      BY <3>1, <3>2, <3>3
    <3>. QED  BY <3>1, <3>3, <3>4 DEF Declaring
  <2>8. ASSUME NEW c \in Clients, InitList(c) PROVE Declaring'
    <3>1. /\ job[c] \in CreateJob /\ job[c].left = <<>>
          /\ job'[c] \in DropJob /\ job'[c].stale = indexes \ job[c].expected
          /\ job'[c].expected = job[c].expected
          /\ \A d \in Clients \ {c} : job'[d] = job[d]
          /\ UNCHANGED <<indexes, declared>>
      BY <2>8, ListTyped DEF InitList, fixed
    <3>2. Accepted(<<>>) /\ NamesOf(<<>>) = {}
      BY DEF Accepted, NamesOf
    <3>3. job[c].expected = Wanted /\ Wanted \subseteq indexes
      BY <3>1, <3>2 DEF Declaring, CreateJob
    <3>. QED  BY <3>1, <3>3 DEF Declaring, DropJob
  <2>9. ASSUME NEW c \in Clients, NEW name \in Names, InitDrop(c, name) PROVE Declaring'
    <3>1. name \notin Wanted /\ indexes' = indexes \ {name} /\ declared' = declared
      BY <2>9, DropTyped DEF InitDrop, Declaring, DropJob, fixed
    <3>. QED  BY <2>9, <3>1, DropTyped DEF Declaring, DropJob, Idle
  <2>10. ASSUME NEW c \in Clients, InitEnd(c) PROVE Declaring'
    <3>1. /\ Goto(c, Idle) /\ Idle \in Jobs /\ Idle.op = "idle"
          /\ indexes' = indexes /\ declared' = job[c].expected /\ job[c].op = "drop"
      BY <2>10, JobsOf DEF InitEnd, In, Finish, Idle
    <3>2. job'[c] = Idle /\ \A d \in Clients \ {c} : job'[d] = job[d]
      BY <2>0, <3>1, GotoTyped
    <3>. QED  BY <3>1, <3>2 DEF Declaring
  <2>11. CASE Crash
    BY <2>11 DEF Crash, Declaring, Idle
  <2>12. CASE Tick \/ UNCHANGED vars
    BY <2>12 DEF Tick, vars, Declaring
  <2>. QED
    BY <2>2, <2>3, <2>4, <2>5, <2>6, <2>7, <2>8, <2>9, <2>10, <2>11, <2>12
       DEF Next, Call, Continue
<1>3. Declaring => DeclaredStay
  BY DEF Declaring, DeclaredStay
<1>. QED  BY <1>1, <1>2, <1>3, SqlTyped, PTL DEF Spec
=============================================================================
