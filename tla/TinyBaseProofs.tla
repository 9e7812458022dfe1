---------------------------- MODULE TinyBaseProofs ----------------------------
(***************************************************************************)
(* Proofs about TinyBasePersistence for any records, types, fields, index  *)
(* configurations, queries and patches.                                    *)
(***************************************************************************)
EXTENDS TinyBasePersistence, Loops

USE RecordsAssumption, IndexAssumption, CallsAssumption

(* A merge patch of data is data (applyMergePatch,                         *)
(* tinybase-persistence.ts:110-138).                                       *)
LEMMA MergeTyped ==
  ASSUME NEW data \in Data, NEW patch \in PatchData PROVE Merge(data, patch) \in Data
<1>1. PICK S \in SUBSET Fields : patch \in [S -> Scalars \cup {Null}]
  BY DEF PatchData
<1>2. ASSUME NEW f \in Fields
      PROVE  (IF f \notin DOMAIN patch THEN data[f]
              ELSE IF patch[f] = Null THEN Absent ELSE patch[f]) \in Values
  BY <1>1 DEF Data, Values
<1>. QED  BY <1>2 DEF Merge, Data

(* A record whose type and data are changed keeps when it was created.     *)
LEMMA RecordChanged ==
  ASSUME NEW r \in Record, NEW type, NEW data
  PROVE  [r EXCEPT !.type = type, !.data = data]
           = [type |-> type, data |-> data, created |-> r.created]
<1>1. PICK t \in Types, d \in Data, n \in Nat : r = [type |-> t, data |-> d, created |-> n]
  BY DEF Record
<1>2. PICK s : s = [r EXCEPT !.type = type]
  OBVIOUS
<1>3. s = [type |-> type, data |-> d, created |-> n]
  BY <1>1, <1>2
<1>4. [s EXCEPT !.data = data] = [type |-> type, data |-> data, created |-> n]
  BY <1>3
<1>5. [r EXCEPT !.type = type, !.data = data] = [s EXCEPT !.data = data]
  BY <1>2
<1>. QED  BY <1>1, <1>4, <1>5

(* What a record is listed under has the type of the indexes               *)
(* (extractIndexedValues, tinybase-persistence.ts:175-189).                *)
LEMMA EntriesTyped ==
  ASSUME NEW specs \in SUBSET (Types \X Fields), NEW id \in Ids,
         NEW type \in Types, NEW data \in Data
  PROVE  Entries(specs, id, type, data) \subseteq Names \X Texts \X Ids
<1>1. SUFFICES ASSUME NEW f \in Fields, data[f] \notin {Null, Absent}
               PROVE  <<IndexName[type][f], Text[data[f]], id>> \in Names \X Texts \X Ids
  BY DEF Entries
<1>2. data[f] \in Scalars
  BY <1>1 DEF Data, Values
<1>3. Text[data[f]] \in Texts
  BY <1>2
<1>4. IndexName[type][f] \in Names
  OBVIOUS
<1>. QED  BY <1>3, <1>4

(* Every entry made for a record names that record, so the entries of two  *)
(* records are never the same.                                             *)
LEMMA EntriesOwn ==
  ASSUME NEW specs, NEW id, NEW type, NEW data,
         NEW entry \in Entries(specs, id, type, data)
  PROVE  entry[3] = id
<1>1. PICK f \in Fields : entry = <<IndexName[type][f], Text[data[f]], id>>
  BY DEF Entries
<1>. QED  BY <1>1

(* The entries that initialize builds (253-262) are within a set exactly   *)
(* if those of each record are.                                            *)
LEMMA EntriesOfWithin ==
  ASSUME NEW specs, NEW table, NEW S
  PROVE  EntriesOf(specs, table) \subseteq S <=>
           \A id \in Ids : table[id] # None =>
             Entries(specs, id, table[id].type, table[id].data) \subseteq S
<1>. DEFINE E(id) == Entries(specs, id, table[id].type, table[id].data)
            Present == {i \in Ids : table[i] # None}
<1>1. EntriesOf(specs, table) = UNION {E(id) : id \in Present}
  BY DEF EntriesOf
<1>2. \A id \in Ids : table[id] # None <=> id \in Present
  OBVIOUS
<1>. HIDE DEF E, Present
<1>3. EntriesOf(specs, table) \subseteq S <=> \A id \in Present : E(id) \subseteq S
  BY <1>1
<1>4. Present \subseteq Ids
  BY DEF Present
<1>5. EntriesOf(specs, table) \subseteq S <=>
        \A id \in Ids : table[id] # None => E(id) \subseteq S
  BY <1>2, <1>3, <1>4
<1>. QED  BY <1>5 DEF E

-----------------------------------------------------------------------------
(* The variables keep their types.                                         *)
THEOREM TypeCorrect == Spec => []TypeOK
<1>1. Init => TypeOK
  <2>. SUFFICES ASSUME Init PROVE TypeOK
    OBVIOUS
  <2>1. rows \in [Ids -> Record \cup {None}]
    BY DEF Init
  <2>2. /\ byType = {} /\ indexed = {} /\ index = {} /\ ready = FALSE
        /\ patching = None /\ clock = 0
    BY DEF Init
  <2>. QED  BY <2>1, <2>2 DEF TypeOK
<1>2. TypeOK /\ [Next]_vars => TypeOK'
  <2>. SUFFICES ASSUME TypeOK, [Next]_vars PROVE TypeOK'
    OBVIOUS
  <2>1. CASE UNCHANGED vars
    BY <2>1 DEF vars, tables, TypeOK
  <2>2. ASSUME NEW specs \in SUBSET (Types \X Fields),
               EntriesOf(specs, rows) \subseteq Names \X Texts \X Ids
        PROVE  Initialize(specs) => TypeOK'
    BY <2>2 DEF Initialize, tables, TypeOK
  <2>3. \A specs \in SUBSET (Types \X Fields) :
          EntriesOf(specs, rows) \subseteq Names \X Texts \X Ids
    <3>1. ASSUME NEW specs \in SUBSET (Types \X Fields), NEW id \in Ids, rows[id] # None
          PROVE  Entries(specs, id, rows[id].type, rows[id].data)
                   \subseteq Names \X Texts \X Ids
      <4>1. rows[id].type \in Types /\ rows[id].data \in Data
        BY <3>1 DEF TypeOK, Record
      <4>. QED  BY <4>1, EntriesTyped
    <3>. QED  BY <3>1, EntriesOfWithin
  <2>4. ASSUME NEW read \in BadSpecs, InitializeFails(read) PROVE TypeOK'
    BY <2>4 DEF InitializeFails, tables, TypeOK
  <2>5. CASE Reopen
    BY <2>5 DEF Reopen, tables, TypeOK
  <2>6. ASSUME NEW id \in Ids, NEW type \in Types, NEW data \in PutData,
               Put(id, type, data)
        PROVE  TypeOK'
    <3>1. data \in Data
      OBVIOUS
    <3>2. Entries(indexed, id, type, data) \subseteq Names \X Texts \X Ids
      BY <3>1, EntriesTyped DEF TypeOK
    <3>3. [type |-> type, data |-> data, created |-> clock] \in Record
      BY <3>1 DEF Record, TypeOK
    <3>. QED  BY <2>6, <3>2, <3>3 DEF Put, TypeOK
  <2>7. ASSUME NEW id \in Ids, NEW type \in Types, NEW data \in PutData,
               Update(id, type, data)
        PROVE  TypeOK'
    <3>1. data \in Data
      OBVIOUS
    <3>2. Entries(indexed, id, type, data) \subseteq Names \X Texts \X Ids
      BY <3>1, EntriesTyped DEF TypeOK
    <3>3. [type |-> type, data |-> data, created |-> rows[id].created] \in Record
      BY <2>7, <3>1 DEF Update, Record, TypeOK
    <3>. QED  BY <2>7, <3>2, <3>3 DEF Update, TypeOK
  <2>8. ASSUME NEW id \in Ids, UpdateMissing(id) PROVE TypeOK'
    BY <2>8 DEF UpdateMissing, tables, TypeOK
  <2>9. ASSUME NEW id \in Ids, RemoveOne(id) \/ Get(id) PROVE TypeOK'
    BY <2>9 DEF RemoveOne, Get, tables, TypeOK
  <2>10. ASSUME NEW call \in PatchCalls, PatchBegin(call) PROVE TypeOK'
    <3>1. call \in Seq(TypePatch)
      OBVIOUS
    <3>2. patching' \in Call
      BY <2>10, <3>1 DEF PatchBegin, Call, TypeOK
    <3>. QED  BY <2>10, <3>2 DEF PatchBegin, tables, TypeOK
  <2>11. CASE PatchEntry
    <3>. DEFINE entry == Head(patching.left)
                hits == Hits(entry)
                new == UNION {Entries(indexed, id, entry.type, Merge(rows[id].data, entry.patch)) : id \in hits}
    <3>1. patching \in Call /\ patching.left \in Seq(TypePatch) /\ patching.left # <<>>
      BY <2>11 DEF PatchEntry, TypeOK, Call
    <3>2. entry \in TypePatch /\ Tail(patching.left) \in Seq(TypePatch)
      BY <3>1, HeadTailProperties
    <3>3. entry.type \in Types /\ entry.patch \in PatchData
      BY <3>2 DEF TypePatch
    <3>4. ASSUME NEW id \in hits
          PROVE  id \in Ids /\ rows[id] \in Record /\ Merge(rows[id].data, entry.patch) \in Data
      <4>1. id \in Ids /\ rows[id] \in Record
        BY <3>4 DEF Hits, Candidates, TypeOK
      <4>2. rows[id].data \in Data
        BY <4>1 DEF Record
      <4>. QED  BY <4>1, <4>2, <3>3, MergeTyped
    <3>5. new \subseteq Names \X Texts \X Ids
      BY <3>3, <3>4, EntriesTyped DEF TypeOK
    <3>6. index' \subseteq index \cup new
      BY <2>11 DEF PatchEntry
    <3>7. rows' \in [Ids -> Record \cup {None}]
      <4>1. rows' = [id \in Ids |-> IF id \in hits
                      THEN [rows[id] EXCEPT !.data = [i \in hits |-> Merge(rows[i].data, entry.patch)][id]]
                      ELSE rows[id]]
        BY <2>11 DEF PatchEntry
      <4>2. ASSUME NEW id \in Ids, id \in hits
            PROVE  [rows[id] EXCEPT !.data = [i \in hits |-> Merge(rows[i].data, entry.patch)][id]] \in Record
        <5>. HIDE DEF hits
        <5>1. [i \in hits |-> Merge(rows[i].data, entry.patch)][id] = Merge(rows[id].data, entry.patch)
          BY <4>2
        <5>. QED  BY <5>1, <4>2, <3>4 DEF Record
      <4>. HIDE DEF hits, entry
      <4>. QED  BY <4>1, <4>2 DEF TypeOK
    <3>8. patching' \in Call
      <4>1. Cardinality(hits) \in Nat
        <5>1. hits \subseteq Ids /\ IsFiniteSet(Ids)
          BY DEF Hits, Candidates
        <5>. QED  BY <5>1, FS_Subset, FS_CardinalityType
      <4>2. patching' = [patching EXCEPT !.left = Tail(@), !.count = @ + Cardinality(hits)]
        BY <2>11 DEF PatchEntry
      <4>. HIDE DEF hits, entry
      <4>3. patching.count \in Nat /\ patching.count + Cardinality(hits) \in Nat
        BY <3>1, <4>1 DEF Call
      <4>. QED  BY <3>1, <3>2, <4>2, <4>3 DEF Call
    <3>. QED  BY <2>11, <3>5, <3>6, <3>7, <3>8 DEF PatchEntry, TypeOK
  <2>12. CASE PatchThrows
    BY <2>12 DEF PatchThrows, tables, TypeOK
  <2>13. CASE PatchEnd
    BY <2>13 DEF PatchEnd, tables, TypeOK
  <2>14. ASSUME NEW query \in Queries, Ask(query) PROVE TypeOK'
    BY <2>14 DEF Ask, tables, TypeOK
  <2>15. CASE Tick
    BY <2>15 DEF Tick, tables, TypeOK
  <2>. QED
    BY <2>1, <2>2, <2>3, <2>4, <2>5, <2>6, <2>7, <2>8, <2>9, <2>10, <2>11, <2>12, <2>13,
       <2>14, <2>15 DEF Next
<1>. QED  BY <1>1, <1>2, PTL DEF Spec
-----------------------------------------------------------------------------
Listed == byType = {entry \in Types \X Ids : /\ rows[entry[2]] # None
                                              /\ rows[entry[2]].type = entry[1]}

Covered == \A id \in Ids : rows[id] # None =>
             Entries(indexed, id, rows[id].type, rows[id].data) \subseteq index

(* The table byType, stated for one type and one id at a time.             *)
LEMMA ListedIds ==
  ASSUME TypeOK
  PROVE  Listed <=> \A type \in Types, id \in Ids :
                      <<type, id>> \in byType <=> rows[id] # None /\ rows[id].type = type
BY DEF Listed, TypeOK

(* The invariant in the two parts that the proof keeps apart.              *)
LEMMA CompleteParts == IndexesComplete <=> Listed /\ (ready => Covered)
BY EntriesOfWithin DEF IndexesComplete, Listed, Covered

(* The ids under a type and the indexes are complete in every state that   *)
(* put, update, patch and remove can lead to, whatever initialize is       *)
(* called with and however often the layer is opened anew, as long as no   *)
(* put gives an id that is taken to a record of another type.              *)
THEOREM IndexesStayComplete ==
  ASSUME Retypes = FALSE PROVE Spec => []IndexesComplete
<1>1. Init => IndexesComplete
  BY DEF Init, IndexesComplete
<1>2. TypeOK /\ TypeOK' /\ IndexesComplete /\ [Next]_vars => IndexesComplete'
  <2>. SUFFICES ASSUME TypeOK, TypeOK', Listed, ready => Covered, [Next]_vars
                PROVE  Listed' /\ (ready => Covered)'
    BY CompleteParts, EntriesOfWithin DEF IndexesComplete, Listed, Covered
  <2>0. \A type \in Types, id \in Ids :
          <<type, id>> \in byType <=> rows[id] # None /\ rows[id].type = type
    BY ListedIds
  <2>1. CASE UNCHANGED <<rows, byType, indexed, index, ready>>
    BY <2>1 DEF Listed, Covered
  <2>2. ASSUME NEW specs \in Specs, Initialize(specs) PROVE Listed' /\ Covered'
    <3>1. Listed'
      BY <2>2 DEF Initialize, tables, Listed
    <3>2. EntriesOf(indexed', rows') \subseteq index'
      BY <2>2 DEF Initialize, tables
    <3>. QED  BY <3>1, <3>2, EntriesOfWithin DEF Covered
  <2>3. ASSUME UNCHANGED tables, ready' = FALSE PROVE Listed' /\ (ready => Covered)'
    BY <2>3 DEF tables, Listed
  <2>4. ASSUME NEW id \in Ids, NEW type \in Types, NEW data \in PutData, Put(id, type, data)
        PROVE  Listed' /\ Covered'
    <3>1. /\ rows' = [rows EXCEPT ![id] = [type |-> type, data |-> data, created |-> clock]]
          /\ byType' = byType \cup {<<type, id>>} /\ indexed' = indexed
          /\ index' = index \cup Entries(indexed, id, type, data)
          /\ rows[id] # None => rows[id].type = type
      BY <2>4 DEF Put
    <3>2. rows'[id] # None /\ rows'[id].type = type /\ rows'[id].data = data
      <4>1. rows'[id] = [type |-> type, data |-> data, created |-> clock]
        BY <3>1 DEF TypeOK
      <4>2. rows'[id] \in Record
        BY <4>1 DEF Record, TypeOK
      <4>. QED  BY <4>1, <4>2
    <3>3. \A i \in Ids \ {id} : rows'[i] = rows[i]
      BY <3>1 DEF TypeOK
    <3>4. Listed'
      <4>1. ASSUME NEW t \in Types, NEW i \in Ids, i # id
            PROVE  <<t, i>> \in byType' <=> rows'[i] # None /\ rows'[i].type = t
        <5>1. rows'[i] = rows[i] /\ (<<t, i>> \in byType' <=> <<t, i>> \in byType)
          BY <3>1, <3>3, <4>1
        <5>. QED  BY <2>0, <5>1
      <4>2. ASSUME NEW t \in Types
            PROVE  <<t, id>> \in byType' <=> rows'[id] # None /\ rows'[id].type = t
        <5>1. <<t, id>> \in byType <=> rows[id] # None /\ rows[id].type = t
          BY <2>0
        <5>. QED  BY <3>1, <3>2, <5>1
      <4>3. \A t \in Types, i \in Ids :
              <<t, i>> \in byType' <=> rows'[i] # None /\ rows'[i].type = t
        BY <4>1, <4>2
      <4>. QED  BY <4>3 DEF Listed, TypeOK
    <3>5. Covered'
      <4>1. ASSUME NEW i \in Ids, rows'[i] # None, i # id
            PROVE  Entries(indexed', i, rows'[i].type, rows'[i].data) \subseteq index'
        BY <2>4, <3>1, <3>3, <4>1 DEF Covered, Put, Idle
      <4>2. Entries(indexed', id, rows'[id].type, rows'[id].data) \subseteq index'
        BY <3>1, <3>2
      <4>. QED  BY <4>1, <4>2 DEF Covered
    <3>. QED  BY <3>4, <3>5
  <2>5. ASSUME NEW id \in Ids, NEW type \in Types, NEW data \in PutData, Update(id, type, data)
        PROVE  Listed' /\ Covered'
    <3>1. /\ rows[id] # None
          /\ rows' = [rows EXCEPT ![id] =
                        [type |-> type, data |-> data, created |-> rows[id].created]]
          /\ byType' = (byType \ {<<rows[id].type, id>>}) \cup {<<type, id>>}
          /\ indexed' = indexed
          /\ index' = (index \ Entries(indexed, id, rows[id].type, rows[id].data))
                       \cup Entries(indexed, id, type, data)
      BY <2>5 DEF Update
    <3>2. rows'[id] # None /\ rows'[id].type = type /\ rows'[id].data = data
      <4>1. rows'[id] = [type |-> type, data |-> data, created |-> rows[id].created]
        BY <3>1 DEF TypeOK
      <4>2. rows'[id] \in Record
        BY <3>1, <4>1 DEF Record, TypeOK
      <4>. QED  BY <4>1, <4>2
    <3>3. \A i \in Ids \ {id} : rows'[i] = rows[i]
      BY <3>1 DEF TypeOK
    <3>4. Listed'
      <4>1. ASSUME NEW t \in Types, NEW i \in Ids, i # id
            PROVE  <<t, i>> \in byType' <=> rows'[i] # None /\ rows'[i].type = t
        <5>1. rows'[i] = rows[i] /\ (<<t, i>> \in byType' <=> <<t, i>> \in byType)
          BY <3>1, <3>3, <4>1
        <5>. QED  BY <2>0, <5>1
      <4>2. ASSUME NEW t \in Types
            PROVE  <<t, id>> \in byType' <=> rows'[id] # None /\ rows'[id].type = t
        <5>1. <<t, id>> \in byType <=> rows[id] # None /\ rows[id].type = t
          BY <2>0
        <5>. QED  BY <3>1, <3>2, <5>1
      <4>3. \A t \in Types, i \in Ids :
              <<t, i>> \in byType' <=> rows'[i] # None /\ rows'[i].type = t
        BY <4>1, <4>2
      <4>. QED  BY <4>3 DEF Listed, TypeOK
    <3>5. Covered'
      <4>1. ASSUME NEW i \in Ids, rows'[i] # None, i # id
            PROVE  Entries(indexed', i, rows'[i].type, rows'[i].data) \subseteq index'
        <5>1. Entries(indexed, i, rows[i].type, rows[i].data) \subseteq index
          BY <2>5, <3>3, <4>1 DEF Covered, Update, Idle
        <5>2. \A e \in Entries(indexed, i, rows[i].type, rows[i].data) :
                e \notin Entries(indexed, id, rows[id].type, rows[id].data)
          BY <4>1, EntriesOwn
        <5>. QED  BY <3>1, <3>3, <4>1, <5>1, <5>2
      <4>2. Entries(indexed', id, rows'[id].type, rows'[id].data) \subseteq index'
        BY <3>1, <3>2
      <4>. QED  BY <4>1, <4>2 DEF Covered
    <3>. QED  BY <3>4, <3>5
  <2>6. ASSUME NEW id \in Ids, RemoveOne(id) PROVE Listed' /\ Covered'
    <3>1. /\ rows' = [rows EXCEPT ![id] = None] /\ indexed' = indexed
          /\ rows[id] = None => byType' = byType /\ index' = index
          /\ rows[id] # None =>
               /\ byType' = byType \ {<<rows[id].type, id>>}
               /\ index' = index \ Entries(indexed, id, rows[id].type, rows[id].data)
      BY <2>6 DEF RemoveOne
    <3>2. rows'[id] = None /\ \A i \in Ids \ {id} : rows'[i] = rows[i]
      BY <3>1 DEF TypeOK
    <3>3. Listed'
      <4>1. ASSUME NEW t \in Types, NEW i \in Ids, i # id
            PROVE  <<t, i>> \in byType' <=> rows'[i] # None /\ rows'[i].type = t
        <5>1. rows'[i] = rows[i] /\ (<<t, i>> \in byType' <=> <<t, i>> \in byType)
          BY <3>1, <3>2, <4>1
        <5>. QED  BY <2>0, <5>1
      <4>2. ASSUME NEW t \in Types
            PROVE  <<t, id>> \in byType' <=> rows'[id] # None /\ rows'[id].type = t
        <5>1. <<t, id>> \in byType <=> rows[id] # None /\ rows[id].type = t
          BY <2>0
        <5>. QED  BY <3>1, <3>2, <5>1
      <4>3. \A t \in Types, i \in Ids :
              <<t, i>> \in byType' <=> rows'[i] # None /\ rows'[i].type = t
        BY <4>1, <4>2
      <4>. QED  BY <4>3 DEF Listed, TypeOK
    <3>4. Covered'
      <4>1. ASSUME NEW i \in Ids, rows'[i] # None
            PROVE  Entries(indexed', i, rows'[i].type, rows'[i].data) \subseteq index'
        <5>1. i # id /\ rows'[i] = rows[i]
          BY <3>2, <4>1
        <5>2. Entries(indexed, i, rows[i].type, rows[i].data) \subseteq index
          BY <2>6, <4>1, <5>1 DEF Covered, RemoveOne, Idle
        <5>3. \A e \in Entries(indexed, i, rows[i].type, rows[i].data) :
                e \notin Entries(indexed, id, rows[id].type, rows[id].data)
          BY <5>1, EntriesOwn
        <5>. QED  BY <3>1, <5>1, <5>2, <5>3
      <4>. QED  BY <4>1 DEF Covered
    <3>. QED  BY <3>3, <3>4
  <2>7. CASE PatchEntry
    <3>. DEFINE entry == Head(patching.left)
                hits == Hits(entry)
                Old(id) == Entries(indexed, id, entry.type, rows[id].data)
                New(id) == Entries(indexed, id, entry.type, Merge(rows[id].data, entry.patch))
    <3>1. entry.type \in Types /\ entry.patch \in PatchData
      <4>1. patching \in Call /\ patching.left \in Seq(TypePatch) /\ patching.left # <<>>
        BY <2>7 DEF PatchEntry, TypeOK, Call
      <4>2. entry \in TypePatch
        BY <4>1, HeadTailProperties
      <4>. QED  BY <4>2 DEF TypePatch
    <3>2. \A id \in hits : id \in Ids /\ rows[id] # None /\ rows[id].type = entry.type
      BY <2>0, <3>1 DEF Hits, Candidates
    <3>3. \A id \in Ids \ hits : rows'[id] = rows[id]
      BY <2>7 DEF PatchEntry
    <3>4. \A id \in hits : /\ rows'[id].type = rows[id].type
                           /\ rows'[id].data = Merge(rows[id].data, entry.patch)
                           /\ rows'[id] # None
      <4>. SUFFICES ASSUME NEW id \in hits
                    PROVE  /\ rows'[id].type = rows[id].type
                           /\ rows'[id].data = Merge(rows[id].data, entry.patch)
                           /\ rows'[id] # None
        OBVIOUS
      <4>1. rows[id] \in Record
        BY <3>2 DEF TypeOK
      <4>2. rows'[id] = [rows[id] EXCEPT !.data = Merge(rows[id].data, entry.patch)]
        BY <2>7, <3>2 DEF PatchEntry
      <4>. HIDE DEF hits, entry
      <4>4. /\ rows'[id].type = rows[id].type
            /\ rows'[id].data = Merge(rows[id].data, entry.patch)
            /\ rows'[id] \in [type : Types, data : {Merge(rows[id].data, entry.patch)}, created : Nat]
        BY <4>1, <4>2 DEF Record
      <4>5. Merge(rows[id].data, entry.patch) \in Data
        BY <3>1, <4>1, MergeTyped DEF Record
      <4>6. rows'[id] \in Record
        BY <4>4, <4>5 DEF Record
      <4>. QED  BY <4>4, <4>6
    <3>5. /\ byType' = byType /\ indexed' = indexed /\ ready' = ready
          /\ index' = (index \ UNION {Old(id) : id \in hits}) \cup UNION {New(id) : id \in hits}
      BY <2>7 DEF PatchEntry
    <3>. HIDE DEF hits, entry, Old, New
    <3>7. Listed'
      <4>1. \A t \in Types, i \in Ids :
              <<t, i>> \in byType' <=> rows'[i] # None /\ rows'[i].type = t
        <5>1. ASSUME NEW t \in Types, NEW i \in Ids
              PROVE  <<t, i>> \in byType' <=> rows'[i] # None /\ rows'[i].type = t
          <6>1. <<t, i>> \in byType' <=> rows[i] # None /\ rows[i].type = t
            BY <2>0, <3>5
          <6>. QED  BY <3>2, <3>3, <3>4, <6>1
        <5>. QED  BY <5>1
      <4>. QED  BY <4>1 DEF Listed, TypeOK
    <3>8. ASSUME ready PROVE Covered'
      <4>1. ASSUME NEW i \in Ids, rows'[i] # None, i \notin hits
            PROVE  Entries(indexed', i, rows'[i].type, rows'[i].data) \subseteq index'
        <5>1. Entries(indexed, i, rows[i].type, rows[i].data) \subseteq index
          BY <3>3, <3>8, <4>1 DEF Covered
        <5>2. ASSUME NEW e \in Entries(indexed, i, rows[i].type, rows[i].data)
              PROVE  e \notin UNION {Old(id) : id \in hits}
          <6>1. e[3] = i
            BY EntriesOwn
          <6>2. \A id \in hits : \A o \in Old(id) : o[3] = id
            BY EntriesOwn DEF Old
          <6>. QED  BY <4>1, <6>1, <6>2
        <5>. QED  BY <3>3, <3>5, <4>1, <5>1, <5>2
      <4>2. ASSUME NEW i \in hits
            PROVE  Entries(indexed', i, rows'[i].type, rows'[i].data) \subseteq index'
        <5>1. Entries(indexed', i, rows'[i].type, rows'[i].data) = New(i)
          BY <3>2, <3>4, <3>5 DEF New
        <5>2. New(i) \subseteq UNION {New(id) : id \in hits}
          OBVIOUS
        <5>. QED  BY <3>5, <5>1, <5>2
      <4>. QED  BY <4>1, <4>2 DEF Covered
    <3>. QED  BY <3>5, <3>7, <3>8
  <2>8. ASSUME NEW read \in BadSpecs, InitializeFails(read) PROVE Listed' /\ (ready => Covered)'
    BY <2>3, <2>8 DEF InitializeFails
  <2>9. CASE Reopen
    BY <2>3, <2>9 DEF Reopen
  <2>10. ASSUME NEW id \in Ids, UpdateMissing(id)
         PROVE  UNCHANGED <<rows, byType, indexed, index, ready>>
    BY <2>10 DEF UpdateMissing, tables
  <2>11. ASSUME NEW call \in PatchCalls, PatchBegin(call)
         PROVE  UNCHANGED <<rows, byType, indexed, index, ready>>
    BY <2>11 DEF PatchBegin, tables
  <2>12. ASSUME NEW query \in Queries, Ask(query)
         PROVE  UNCHANGED <<rows, byType, indexed, index, ready>>
    BY <2>12 DEF Ask, tables
  <2>13. ASSUME PatchThrows \/ PatchEnd \/ Tick \/ (\E id \in Ids : Get(id)) \/ UNCHANGED vars
         PROVE  UNCHANGED <<rows, byType, indexed, index, ready>>
    BY <2>13 DEF PatchThrows, PatchEnd, Tick, Get, tables, vars
  <2>. QED
    BY <2>1, <2>2, <2>4, <2>5, <2>6, <2>7, <2>8, <2>9, <2>10, <2>11, <2>12, <2>13 DEF Next
<1>. QED  BY <1>1, <1>2, TypeCorrect, PTL DEF Spec

-----------------------------------------------------------------------------
(* No query asks for null: the indexes leave nulls out.                    *)
PlainQueries ==
  \A query \in Queries : \A i \in DOMAIN query.filters :
    /\ query.filters[i].op = "eq" => query.filters[i].value # Null
    /\ query.filters[i].op = "in" => Null \notin query.filters[i].value

(* A record that matches a filter other than for null is under one of the  *)
(* texts that query looks up for the filter (346-360).                     *)
LEMMA IndexLosesNothing ==
  ASSUME TypeOK, IndexesComplete, ready, NEW id \in Ids, rows[id] # None,
         NEW types, rows[id].type \in types, NEW filter \in Filter,
         Narrows(indexed, filter, types), Matches(rows[id].data, filter),
         filter.op = "eq" => filter.value # Null,
         filter.op = "in" => Null \notin filter.value
  PROVE  \E type \in types, text \in TextsOf(filter) :
           /\ <<type, filter.field>> \in indexed
           /\ <<IndexName[type][filter.field], text, id>> \in index
<1>. DEFINE type == rows[id].type
            value == rows[id].data[filter.field]
<1>1. filter.field \in Fields /\ <<type, filter.field>> \in indexed
  BY DEF Filter, Narrows
<1>2. value # Null /\ value # Absent /\ Text[value] \in TextsOf(filter)
  <2>1. CASE filter.op = "eq"
    <3>1. value = filter.value
      BY <2>1 DEF Matches
    <3>2. filter.value \in Scalars \cup {Null}
      BY <2>1 DEF Filter
    <3>. QED  BY <2>1, <3>1, <3>2 DEF TextsOf
  <2>2. CASE filter.op = "in"
    <3>1. value \in filter.value
      BY <2>2 DEF Matches
    <3>2. filter.value \subseteq Scalars \cup {Null}
      BY <2>2 DEF Filter
    <3>. QED  BY <2>2, <3>1, <3>2 DEF TextsOf
  <2>. QED  BY <2>1, <2>2 DEF Narrows
<1>3. <<IndexName[type][filter.field], Text[value], id>>
        \in Entries(indexed, id, type, rows[id].data)
  BY <1>1, <1>2 DEF Entries
<1>4. Entries(indexed, id, type, rows[id].data) \subseteq index
  BY EntriesOfWithin DEF IndexesComplete
<1>. QED  BY <1>1, <1>2, <1>3, <1>4

(* A query finds exactly the records of its types that match its filters,  *)
(* whichever indexes narrow it, unless it asks for null or records change  *)
(* their type by a put.                                                    *)
THEOREM QueriesStayExact ==
  ASSUME Retypes = FALSE, PlainQueries PROVE Spec => []QueriesExact
<1>1. TypeOK /\ IndexesComplete => QueriesExact
  <2>. SUFFICES ASSUME TypeOK, IndexesComplete, Idle, NEW query \in Queries
                PROVE  Found(query) = Selected(query)
    BY DEF QueriesExact
  <2>1. query.filters \in Seq(Filter) /\ query.types \subseteq Types
    BY DEF Query
  <2>2. \A type \in Types, id \in Ids :
          <<type, id>> \in byType <=> rows[id] # None /\ rows[id].type = type
    BY ListedIds, CompleteParts
  <2>3. ASSUME NEW id \in Found(query) PROVE id \in Selected(query)
    <3>1. /\ id \in Ids /\ rows[id] # None /\ MatchesAll(rows[id].data, query.filters)
          /\ \E type \in query.types : <<type, id>> \in byType
      BY <2>3 DEF Found, Narrowed
    <3>2. rows[id].type \in query.types
      BY <2>1, <2>2, <3>1
    <3>. QED  BY <3>1, <3>2 DEF Selected
  <2>4. ASSUME NEW id \in Selected(query) PROVE id \in Found(query)
    <3>1. /\ id \in Ids /\ rows[id] # None /\ rows[id].type \in query.types
          /\ MatchesAll(rows[id].data, query.filters)
      BY <2>4 DEF Selected
    <3>2. <<rows[id].type, id>> \in byType
      BY <2>1, <2>2, <3>1
    <3>3. ASSUME NEW i \in DOMAIN query.filters, Narrows(indexed, query.filters[i], query.types)
          PROVE  \E type \in query.types, text \in TextsOf(query.filters[i]) :
                   /\ <<type, query.filters[i].field>> \in indexed
                   /\ <<IndexName[type][query.filters[i].field], text, id>> \in index
      <4>1. query.filters[i] \in Filter
        BY <2>1, <3>3
      <4>2. Matches(rows[id].data, query.filters[i])
        BY <3>1, <3>3 DEF MatchesAll
      <4>3. /\ query.filters[i].op = "eq" => query.filters[i].value # Null
            /\ query.filters[i].op = "in" => Null \notin query.filters[i].value
        BY <3>3 DEF PlainQueries
      <4>. QED  BY <3>1, <3>3, <4>1, <4>2, <4>3, IndexLosesNothing DEF Idle
    <3>4. id \in Narrowed(query, indexed, byType, index)
      BY <3>1, <3>2, <3>3 DEF Narrowed
    <3>. QED  BY <3>1, <3>4 DEF Found
  <2>5. Found(query) \subseteq Selected(query) /\ Selected(query) \subseteq Found(query)
    BY <2>3, <2>4
  <2>. QED  BY <2>5
<1>. QED  BY <1>1, TypeCorrect, IndexesStayComplete, PTL

-----------------------------------------------------------------------------
(* What an entry of a patch makes of the records and of the number of them *)
(* that were patched (485-525), as the contract says it.                   *)
State == [records : [Ids -> Record \cup {None}], count : Nat]

Applied(state, entry) ==
  [records |-> Contract!PatchOne(state, entry),
   count   |-> state.count + Contract!Cardinality(Contract!Touched(state.records, entry))]

(* An entry leaves records and a number.                                   *)
LEMMA AppliedTyped ==
  ASSUME NEW state \in State, NEW entry \in TypePatch PROVE Applied(state, entry) \in State
<1>. DEFINE now == state.records
            hits == Contract!Touched(now, entry)
<1>1. now \in [Ids -> Record \cup {None}] /\ state.count \in Nat
  BY DEF State
<1>2. hits \subseteq Ids /\ Contract!Cardinality(hits) \in Nat
  <2>1. hits \subseteq Ids
    BY DEF Contract!Touched
  <2>. HIDE DEF hits
  <2>2. Cardinality(hits) \in Nat
    BY <2>1, FS_Subset, FS_CardinalityType
  <2>3. Contract!Cardinality(hits) = Cardinality(hits)
    BY DEF Cardinality, Contract!Cardinality
  <2>. QED  BY <2>1, <2>2, <2>3
<1>3. ASSUME NEW id \in Ids
      PROVE  Contract!PatchOne(state, entry)[id] \in Record \cup {None}
  <2>1. CASE id \in hits
    <3>1. now[id] \in Record
      BY <1>1, <2>1 DEF Contract!Touched
    <3>2. Contract!Merge(now[id].data, entry.patch) = Merge(now[id].data, entry.patch)
      BY DEF Contract!Merge, Merge
    <3>3. Merge(now[id].data, entry.patch) \in Data
      BY <3>1, MergeTyped DEF TypePatch, Record
    <3>4. Contract!PatchOne(state, entry)[id]
            = [now[id] EXCEPT !.data = Contract!Merge(now[id].data, entry.patch)]
      BY <2>1 DEF Contract!PatchOne
    <3>5. Contract!PatchOne(state, entry)[id]
            = [now[id] EXCEPT !.data = Merge(now[id].data, entry.patch)]
      BY <3>2, <3>4
    <3>. HIDE DEF now, hits
    <3>. QED  BY <3>1, <3>3, <3>5 DEF Record
  <2>2. CASE id \notin hits
    <3>1. Contract!PatchOne(state, entry)[id] = now[id]
      BY <2>2 DEF Contract!PatchOne
    <3>. QED  BY <1>1, <3>1
  <2>. QED  BY <2>1, <2>2
<1>4. Contract!PatchOne(state, entry) \in [Ids -> Record \cup {None}]
  <2>1. Contract!PatchOne(state, entry) = [id \in Ids |-> Contract!PatchOne(state, entry)[id]]
    BY DEF Contract!PatchOne
  <2>. QED  BY <1>3, <2>1
<1>. QED  BY <1>1, <1>2, <1>4 DEF Applied, State

(* The records and the number that each entry of a call leaves, one after  *)
(* the other.                                                              *)
Chain(call, k, t) ==
  /\ t \in [0..k -> State]
  /\ \A i \in 1..k : t[i] = Applied(t[i - 1], call[i])

(* A call makes of the records what the last of its entries leaves.        *)
LEMMA PatchedIsLast ==
  ASSUME NEW call \in Seq(TypePatch), NEW t, Chain(call, Len(call), t),
         t[0] = [records |-> IF patching = None THEN rows ELSE patching.before, count |-> 0]
  PROVE  Contract!Patched(call) = t[Len(call)]
<1>. DEFINE n == Len(call)
            base == [records |-> IF patching = None THEN rows ELSE patching.before, count |-> 0]
            step == [p \in (1..n) \X State |-> Applied(p[2], call[p[1]])]
            Is(h) == h = [s \in SUBSET (1..n) |->
                            IF s = {} THEN base
                            ELSE Applied(h[s \ {Max(s)}], call[Max(s)])]
<1>1. n \in Nat /\ DOMAIN call = 1..n /\ \A i \in 1..n : call[i] \in TypePatch
  OBVIOUS
<1>2. base \in State
  BY <1>1 DEF Chain
<1>3. step \in [(1..n) \X State -> State]
  BY <1>1, AppliedTyped
<1>4. \E h : Is(h)
  <2>. HIDE DEF base, step, n
  <2>1. PICK g \in [SUBSET (1..n) -> State] : Folds(g, n, base, step)
    BY <1>1, <1>2, <1>3, FoldExists
  <2>2. ASSUME NEW s \in SUBSET (1..n), s # {}
        PROVE  step[<<Max(s), g[s \ {Max(s)}]>>] = Applied(g[s \ {Max(s)}], call[Max(s)])
    <3>1. Max(s) \in 1..n
      BY <1>1, <2>2, MaxProperties
    <3>2. <<Max(s), g[s \ {Max(s)}]>> \in (1..n) \X State
      BY <3>1
    <3>. QED  BY <3>2 DEF step
  <2>3. Is(g)
    BY <2>1, <2>2 DEF Folds
  <2>. QED  BY <2>3
<1>5. Contract!Patched(call) = (CHOOSE h : Is(h))[1..n]
  BY <1>1 DEF Contract!Patched, Contract!FoldLeft, Contract!MapThenFoldSet, Applied, Contract!Max, Max
<1>6. PICK h : Is(h) /\ Contract!Patched(call) = h[1..n]
  <2>. HIDE DEF Is
  <2>. QED  BY <1>4, <1>5
<1>7. h[1..0] = t[0]
  <2>1. (1..0) \in SUBSET (1..n) /\ 1..0 = {}
    OBVIOUS
  <2>. QED  BY <1>6, <2>1
<1>8. ASSUME NEW k \in 1..n, h[1..(k - 1)] = t[k - 1] PROVE h[1..k] = t[k]
  <2>1. k \in Nat \ {0} /\ (1..k) \in SUBSET (1..n) /\ 1..k # {}
    <3>1. n \in Nat /\ k \in 1..n
      BY <1>1
    <3>. HIDE DEF n, Is
    <3>2. k \in Nat \ {0} /\ k <= n
      BY <3>1
    <3>3. 1 \in 1..k /\ \A i \in 1..k : i \in 1..n
      BY <3>1, <3>2
    <3>. QED  BY <3>2, <3>3
  <2>2. h[1..k] = Applied(h[(1..k) \ {Max(1..k)}], call[Max(1..k)])
    BY <1>6, <2>1
  <2>. HIDE DEF Is
  <2>3. h[1..k] = Applied(h[1..(k - 1)], call[k])
    BY <2>1, <2>2, MaxOfPrefix
  <2>. QED  BY <1>8, <2>3 DEF Chain
<1>. HIDE DEF Is, n
<1>9. h[1..n] = t[n]
  <2>1. n \in Nat
    BY <1>1
  <2>. QED  BY <2>1, <1>7, <1>8, SameToTheEnd
<1>. QED  BY <1>6, <1>9 DEF n

-----------------------------------------------------------------------------
(* The first k entries of the patch have been applied, and the others are  *)
(* still to come.                                                          *)
Along(k, t) ==
  /\ Chain(patching.entries, k, t) /\ t[0] = [records |-> patching.before, count |-> 0]
  /\ patching.left = SubSeq(patching.entries, k + 1, Len(patching.entries))
  /\ t[k] = [records |-> rows, count |-> patching.count]

(* A patch that is running has applied its first entries, in their order,  *)
(* to the records as they were when it began.                              *)
Underway == patching # None => \E k \in 0..Len(patching.entries) : \E t : Along(k, t)

(* An entry takes it one further: the ids listed under its type are those  *)
(* of the records that the contract patches.                               *)
LEMMA EntryGoesOn ==
  ASSUME TypeOK, IndexesComplete, PatchEntry,
         NEW k \in 0..Len(patching.entries), NEW t, Along(k, t)
  PROVE  /\ patching' \in Call /\ patching'.entries = patching.entries
         /\ patching'.before = patching.before
         /\ k + 1 \in 0..Len(patching.entries) /\ \E u : Along(k + 1, u)'
<1>. DEFINE now == patching
            call == patching.entries
            entry == Head(patching.left)
            hits == Hits(entry)
            state == [records |-> rows, count |-> patching.count]
            next == [patching EXCEPT !.left = Tail(@), !.count = @ + Cardinality(hits)]
<1>0. /\ now \in Call /\ call \in Seq(TypePatch) /\ k \in Nat /\ Len(call) \in Nat
      /\ now.left # <<>> /\ now.left \in Seq(TypePatch)
  BY DEF PatchEntry, TypeOK, Call
<1>1. /\ k + 1 \in 1..Len(call) /\ entry = call[k + 1]
      /\ Tail(now.left) = SubSeq(call, (k + 1) + 1, Len(call))
  BY <1>0, RestOfSequence DEF Along
<1>2. entry \in TypePatch /\ Tail(now.left) \in Seq(TypePatch)
  BY <1>0, HeadTailProperties
<1>3. state \in State
  BY <1>0 DEF State, Call, TypeOK
<1>4. hits = Contract!Touched(state.records, entry)
  <2>1. \A id \in Ids : <<entry.type, id>> \in byType
                         <=> rows[id] # None /\ rows[id].type = entry.type
    BY <1>2, ListedIds, CompleteParts DEF TypePatch
  <2>. HIDE DEF entry
  <2>. QED  BY <2>1 DEF Contract!Touched, Hits, Candidates
<1>5. rows' = Contract!PatchOne(state, entry)
  <2>1. \A data, patch : Contract!Merge(data, patch) = Merge(data, patch)
    BY DEF Contract!Merge, Merge
  <2>2. rows' = [id \in Ids |-> IF id \in hits
                                THEN [rows[id] EXCEPT !.data = Merge(rows[id].data, entry.patch)]
                                ELSE rows[id]]
    BY DEF PatchEntry
  <2>. HIDE DEF hits, entry
  <2>. QED  BY <1>4, <2>1, <2>2 DEF Contract!PatchOne
<1>6. Cardinality(hits) = Contract!Cardinality(Contract!Touched(state.records, entry))
  <2>. HIDE DEF hits, entry, state
  <2>1. Cardinality(hits) = Contract!Cardinality(hits)
    BY DEF Cardinality, Contract!Cardinality
  <2>. QED  BY <1>4, <2>1
<1>7. Applied(state, entry) = [records |-> rows', count |-> now.count + Cardinality(hits)]
  <2>. HIDE DEF hits, entry
  <2>. QED  BY <1>5, <1>6 DEF Applied
<1>8. Applied(state, entry) \in State
  <2>. HIDE DEF state, entry, hits
  <2>. QED  BY <1>2, <1>3, AppliedTyped
<1>9. now.count + Cardinality(hits) \in Nat
  <2>. HIDE DEF state, entry, hits, now
  <2>. QED  BY <1>7, <1>8 DEF State
<1>10. /\ next \in Call /\ next.left = Tail(now.left) /\ next.entries = now.entries
       /\ next.before = now.before /\ next.count = now.count + Cardinality(hits)
  <2>. HIDE DEF hits
  <2>. QED  BY <1>0, <1>2, <1>9 DEF Call
<1>11. patching' = next
  BY DEF PatchEntry
<1>12. t \in [0..k -> State] /\ \A i \in 1..k : t[i] = Applied(t[i - 1], call[i])
  BY DEF Along, Chain
<1>13. t[k] = state /\ t[0] = [records |-> now.before, count |-> 0]
  BY DEF Along
<1>14. PICK later : later = [records |-> rows', count |-> now.count + Cardinality(hits)]
  OBVIOUS
<1>15. PICK u : u = [i \in 0..(k + 1) |-> IF i = k + 1 THEN later ELSE t[i]]
  OBVIOUS
<1>. HIDE DEF state, entry, hits, next
<1>16. u \in [0..(k + 1) -> State]
  BY <1>0, <1>7, <1>8, <1>12, <1>14, <1>15
<1>17. u[k + 1] = later /\ u[0] = t[0]
  BY <1>0, <1>15
<1>18. \A i \in 1..(k + 1) : u[i] = Applied(u[i - 1], call[i])
  <2>1. ASSUME NEW i \in 1..k PROVE u[i] = Applied(u[i - 1], call[i])
    <3>1. u[i] = t[i] /\ u[i - 1] = t[i - 1]
      BY <1>0, <1>15
    <3>. QED  BY <1>12, <3>1
  <2>2. u[k] = t[k] /\ (k + 1) - 1 = k
    BY <1>0, <1>15
  <2>3. u[k + 1] = Applied(u[(k + 1) - 1], call[k + 1])
    BY <1>1, <1>7, <1>13, <1>14, <1>17, <2>2
  <2>4. \A i \in 1..(k + 1) : i \in 1..k \/ i = k + 1
    BY <1>0
  <2>. QED  BY <2>1, <2>3, <2>4
<1>19. Chain(call, k + 1, u)
  BY <1>16, <1>18 DEF Chain
<1>20. Along(k + 1, u)'
  BY <1>1, <1>10, <1>11, <1>13, <1>14, <1>17, <1>19 DEF Along
<1>. QED  BY <1>0, <1>1, <1>10, <1>11, <1>20

(* It is so from the first entry to the last.                              *)
LEMMA PatchesGoOn ==
  ASSUME Retypes = FALSE PROVE Spec => []Underway
<1>1. Init => Underway
  BY DEF Init, Underway
<1>2. TypeOK /\ IndexesComplete /\ Underway /\ [Next]_vars => Underway'
  <2>. SUFFICES ASSUME TypeOK, IndexesComplete, Underway, [Next]_vars PROVE Underway'
    OBVIOUS
  <2>1. ASSUME NEW call \in PatchCalls, PatchBegin(call) PROVE Underway'
    <3>1. PICK t : t = [i \in 0..0 |-> [records |-> rows, count |-> 0]]
      OBVIOUS
    <3>2. /\ patching' = [entries |-> call, left |-> call, before |-> rows, count |-> 0]
          /\ rows' = rows
      BY <2>1 DEF PatchBegin, tables
    <3>3. Chain(call, 0, t) /\ t[0] = [records |-> rows, count |-> 0]
      BY <3>1 DEF Chain, State, TypeOK
    <3>4. call = SubSeq(call, 0 + 1, Len(call)) /\ 0 \in 0..Len(call)
      <4>1. call \in Seq(TypePatch)
        OBVIOUS
      <4>. QED  BY <4>1
    <3>5. /\ patching'.entries = call /\ patching'.left = call /\ patching'.before = rows
          /\ patching'.count = 0
      BY <3>2
    <3>6. Along(0, t)'
      BY <3>2, <3>3, <3>4, <3>5 DEF Along
    <3>. QED  BY <3>4, <3>5, <3>6 DEF Underway
  <2>2. CASE PatchEntry
    <3>1. PICK k \in 0..Len(patching.entries) : \E t : Along(k, t)
      BY <2>2 DEF PatchEntry, Underway
    <3>2. PICK t : Along(k, t)
      BY <3>1
    <3>3. /\ patching'.entries = patching.entries
          /\ k + 1 \in 0..Len(patching.entries) /\ \E u : Along(k + 1, u)'
      BY <2>2, <3>2, EntryGoesOn
    <3>. QED  BY <3>3 DEF Underway
  <2>3. ASSUME patching' = None PROVE Underway'
    BY <2>3 DEF Underway
  <2>4. ASSUME patching = None, patching' = patching PROVE Underway'
    BY <2>4 DEF Underway
  <2>5. CASE UNCHANGED vars
    BY <2>5 DEF vars, Underway, Along
  <2>. QED
    BY <2>1, <2>2, <2>3, <2>4, <2>5
       DEF Next, Initialize, InitializeFails, Reopen, Put, Update, UpdateMissing, PatchThrows,
           PatchEnd, RemoveOne, Get, Ask, Tick, Idle
<1>. QED  BY <1>1, <1>2, TypeCorrect, IndexesStayComplete, PTL DEF Spec

(* A patch that ends has applied the whole of its call.                    *)
LEMMA EndsWhole ==
  ASSUME TypeOK, Underway, PatchEnd
  PROVE  /\ patching.entries \in PatchCalls
         /\ Contract!Patched(patching.entries) = [records |-> rows, count |-> patching.count]
<1>1. patching # None /\ patching.left = <<>> /\ patching \in Call
  BY DEF PatchEnd, TypeOK
<1>2. PICK k \in 0..Len(patching.entries) : \E t : Along(k, t)
  BY <1>1 DEF Underway
<1>3. PICK t : Along(k, t)
  BY <1>2
<1>4. patching.entries \in PatchCalls /\ patching.entries \in Seq(TypePatch)
  BY <1>1 DEF Call
<1>5. k = Len(patching.entries)
  BY <1>1, <1>3, <1>4, RestOfSequence DEF Along
<1>6. Chain(patching.entries, Len(patching.entries), t)
  BY <1>3, <1>5 DEF Along
<1>7. t[0] = [records |-> IF patching = None THEN rows ELSE patching.before, count |-> 0]
  BY <1>1, <1>3 DEF Along
<1>8. Contract!Patched(patching.entries) = t[Len(patching.entries)]
  BY <1>4, <1>6, <1>7, PatchedIsLast
<1>9. t[Len(patching.entries)] = [records |-> rows, count |-> patching.count]
  BY <1>3, <1>5 DEF Along
<1>. QED  BY <1>4, <1>8, <1>9

(* Of a call, only the first entry has a pattern that may not compile: the *)
(* service asks for atomicity (persistence.ts:103), and the backend leaves *)
(* what the entries before the one that throws have written (494).         *)
FirstRefusedOnly ==
  \A call \in PatchCalls : \A i \in DOMAIN call : i > 1 => ~ Refused(call[i].filters)

(* A patch that throws has written nothing.                                *)
LEMMA ThrowsFirst ==
  ASSUME FirstRefusedOnly, TypeOK, Underway, PatchThrows
  PROVE  /\ patching.entries \in PatchCalls /\ rows = patching.before
         /\ \E i \in DOMAIN patching.entries : Refused(patching.entries[i].filters)
<1>1. patching # None /\ patching.left # <<>> /\ patching \in Call
  BY DEF PatchThrows, TypeOK
<1>2. PICK k \in 0..Len(patching.entries) : \E t : Along(k, t)
  BY <1>1 DEF Underway
<1>3. PICK t : Along(k, t)
  BY <1>2
<1>4. /\ patching.entries \in PatchCalls /\ patching.entries \in Seq(TypePatch)
      /\ DOMAIN patching.entries = 1..Len(patching.entries)
  BY <1>1 DEF Call
<1>5. /\ k + 1 \in DOMAIN patching.entries
      /\ Head(patching.left) = patching.entries[k + 1]
  BY <1>1, <1>3, <1>4, RestOfSequence DEF Along
<1>6. Refused(patching.entries[k + 1].filters)
  BY <1>5 DEF PatchThrows, Throws, Refused
<1>7. k = 0
  <2>1. ~ (k + 1 > 1)
    BY <1>4, <1>5, <1>6 DEF FirstRefusedOnly
  <2>. QED  BY <2>1
<1>8. rows = patching.before
  BY <1>3, <1>7 DEF Along
<1>. QED  BY <1>4, <1>5, <1>6, <1>8

(* What the two slices leave of the sorted rows is the page that was asked *)
(* for.                                                                    *)
LEMMA SlicesArePage ==
  ASSUME NEW S \in SUBSET Ids, NEW n \in Nat, NEW order \in [1..n -> S], NEW offset \in Nat,
         NEW limit \in Nat \cup {None}
  PROVE  Limited(Offset(order, offset), limit) = Contract!Page(order, n, offset, limit)
<1>1. PICK left \in Nat : left = IF n > offset THEN n - offset ELSE 0
  <2>1. (IF n > offset THEN n - offset ELSE 0) \in Nat
    OBVIOUS
  <2>. QED  BY <2>1
<1>2. PICK rest : rest = Offset(order, offset)
  OBVIOUS
<1>3. rest = [i \in 1..left |-> order[offset + i]]
  BY <1>1, <1>2, TwoSlices DEF Offset
<1>4. Len(rest) = left
  BY <1>3
<1>5. CASE limit = None \/ limit > left
  BY <1>1, <1>2, <1>3, <1>4, <1>5 DEF Limited, Contract!Page
<1>6. CASE limit # None /\ ~ limit > left
  <2>1. limit \in 0..left
    BY <1>6
  <2>2. SubSeq(rest, 1, limit) = [i \in 1..limit |-> order[offset + i]]
    BY <1>1, <1>3, <2>1, TwoSlices
  <2>. QED  BY <1>1, <1>2, <1>4, <1>6, <2>2 DEF Limited, Contract!Page
<1>. QED  BY <1>5, <1>6

(* The rows of an answer are what the contract answers with.               *)
LEMMA RowsArePage ==
  ASSUME NEW found \in SUBSET Ids, NEW created, NEW query \in Query,
         NEW result \in Windows(found, created, query)
  PROVE  \E order \in Contract!Orders(found, created) :
           result = Contract!Page(order, Contract!Cardinality(found), query.offset, query.limit)
<1>1. PICK n \in Nat : n = Cardinality(found)
  BY RecordsAssumption, FS_Subset, FS_CardinalityType
<1>2. PICK order \in Orders(found, created) :
        result = Limited(Offset(order, query.offset), query.limit)
  BY DEF Windows
<1>3. order \in [1..n -> found]
  BY <1>1, <1>2 DEF Orders
<1>4. PICK offset \in Nat, limit \in Nat \cup {None} : query.offset = offset /\ query.limit = limit
  BY DEF Query
<1>5. result = Contract!Page(order, n, query.offset, query.limit)
  <2>1. Limited(Offset(order, offset), limit) = Contract!Page(order, n, offset, limit)
    BY <1>3, SlicesArePage
  <2>. QED  BY <1>2, <1>4, <2>1
<1>6. Contract!Cardinality(found) = n
  BY <1>1 DEF Cardinality, Contract!Cardinality
<1>7. order \in Contract!Orders(found, created)
  BY <1>1, <1>2, <1>6 DEF Orders, Contract!Orders
<1>. QED  BY <1>5, <1>6, <1>7

(* Each call answers and changes the records as the service says it does,  *)
(* as if it were one step, as long as no query asks for null, no put takes *)
(* an id to another type, and a pattern that does not compile is in the    *)
(* first entry of its patch.                                               *)
THEOREM TinyBaseImplements ==
  ASSUME Retypes = FALSE, PlainQueries, FirstRefusedOnly
  PROVE  Spec => ImplementsPersistence
<1>1. Init => Contract!Init
  BY DEF Init, Contract!Init
<1>2. ASSUME TypeOK, IndexesComplete, QueriesExact, Underway, [Next]_vars
      PROVE  [Contract!Next]_Contract!vars
  <2>1. ASSUME NEW specs \in Specs, Initialize(specs) PROVE UNCHANGED Contract!vars
    BY <2>1 DEF Initialize, tables, Contract!vars
  <2>2. ASSUME NEW read \in BadSpecs, InitializeFails(read) PROVE UNCHANGED Contract!vars
    BY <2>2 DEF InitializeFails, tables, Contract!vars
  <2>3. ASSUME Reopen PROVE UNCHANGED Contract!vars
    BY <2>3 DEF Reopen, tables, Contract!vars
  <2>4. ASSUME NEW id \in Ids, NEW type \in Types, NEW data \in PutData, Put(id, type, data)
        PROVE  Contract!Put(id, type, data)
    BY <2>4 DEF Put, Idle, Contract!Put, Contract!Stores
  <2>5. ASSUME NEW id \in Ids, NEW type \in Types, NEW data \in PutData, Update(id, type, data)
        PROVE  Contract!Update(id, type, data)
    <3>1. rows[id] \in Record
      BY <1>2, <2>5 DEF TypeOK, Update
    <3>2. [rows EXCEPT ![id].type = type, ![id].data = data]
            = [rows EXCEPT ![id] = [type |-> type, data |-> data, created |-> rows[id].created]]
      <4>1. [rows[id] EXCEPT !.type = type, !.data = data]
              = [type |-> type, data |-> data, created |-> rows[id].created]
        BY <3>1, RecordChanged
      <4>2. [rows EXCEPT ![id].type = type, ![id].data = data]
              = [rows EXCEPT ![id] = [rows[id] EXCEPT !.type = type, !.data = data]]
        BY <1>2 DEF TypeOK
      <4>. QED  BY <4>1, <4>2
    <3>3. Contract!Changes(id, type, data)
      BY <2>5, <3>2 DEF Update, Idle, Contract!Changes
    <3>. QED  BY <2>5, <3>3 DEF Update, Idle, Contract!Update
  <2>6. ASSUME NEW id \in Ids, NEW type \in Types, NEW data \in PutData, UpdateMissing(id)
        PROVE  Contract!Update(id, type, data)
    BY <2>6 DEF UpdateMissing, Idle, tables, Contract!Update
  <2>7. ASSUME NEW call \in PatchCalls, PatchBegin(call) PROVE UNCHANGED Contract!vars
    <3>1. patching' \in Call /\ patching'.before = rows /\ patching = None
      BY <1>2, <2>7 DEF PatchBegin, Idle, Call, TypeOK
    <3>2. patching' # None
      BY <3>1, NoCallAssumption
    <3>. QED  BY <2>7, <3>1, <3>2 DEF PatchBegin, tables, Contract!vars
  <2>8. ASSUME PatchEntry PROVE UNCHANGED Contract!vars
    <3>1. /\ patching # None /\ patching'.before = patching.before /\ patching' \in Call
      <4>1. PICK k \in 0..Len(patching.entries) : \E t : Along(k, t)
        BY <1>2, <2>8 DEF PatchEntry, Underway
      <4>2. PICK t : Along(k, t)
        BY <4>1
      <4>. QED  BY <1>2, <2>8, <4>2, EntryGoesOn DEF PatchEntry
    <3>2. patching' # None
      BY <3>1, NoCallAssumption
    <3>. QED  BY <2>8, <3>1, <3>2 DEF PatchEntry, Contract!vars
  <2>9. ASSUME PatchThrows PROVE Contract!Patch(patching.entries)
    BY <2>9, <1>2, ThrowsFirst DEF PatchThrows, tables, Contract!Patch
  <2>10. ASSUME PatchEnd PROVE Contract!Patch(patching.entries)
    BY <2>10, <1>2, EndsWhole DEF PatchEnd, tables, Contract!Patch
  <2>11. /\ \A id \in Ids : RemoveOne(id) => Contract!RemoveOne(id)
         /\ \A id \in Ids : Get(id) => Contract!Get(id)
    BY DEF RemoveOne, Get, Idle, tables, Contract!RemoveOne, Contract!Removes, Contract!Get
  <2>12. ASSUME NEW query \in Queries, Ask(query) PROVE Contract!Ask(query)
    <3>1. patching = None /\ Found(query) = Contract!Selected(query)
      BY <1>2, <2>12 DEF Ask, Idle, QueriesExact, Selected, Contract!Selected
    <3>2. CASE \E id \in Narrowed(query, indexed, byType, index) :
                 rows[id] # None /\ Throws(rows[id].data, query.filters)
      <4>1. Refused(query.filters)
        BY <3>2 DEF Throws, Refused
      <4>. QED  BY <2>12, <3>1, <3>2, <4>1 DEF Ask, tables, Contract!Ask
    <3>3. CASE ~ \E id \in Narrowed(query, indexed, byType, index) :
                 rows[id] # None /\ Throws(rows[id].data, query.filters)
      <4>1. PICK result \in Windows(Found(query), [id \in Found(query) |-> rows[id].created], query) :
              answer' = <<"rows", query, result>>
        BY <2>12, <3>3 DEF Ask
      <4>2. PICK found : found = Found(query) /\ found = Contract!Selected(query)
        BY <3>1
      <4>3. found \in SUBSET Ids /\ query \in Query
        BY <4>2 DEF Contract!Selected
      <4>4. PICK created : created = [id \in found |-> rows[id].created]
        OBVIOUS
      <4>5. result \in Windows(found, created, query)
        BY <4>1, <4>2, <4>4
      <4>6. PICK order \in Contract!Orders(found, created) :
              result = Contract!Page(order, Contract!Cardinality(found), query.offset, query.limit)
        BY <4>3, <4>5, RowsArePage
      <4>. QED  BY <2>12, <3>1, <4>1, <4>2, <4>4, <4>6 DEF Ask, tables, Contract!Ask
    <3>. QED  BY <3>2, <3>3
  <2>13. ASSUME Tick PROVE Contract!Tick
    BY <2>13 DEF Tick, tables, Contract!Tick
  <2>14. ASSUME UNCHANGED vars PROVE UNCHANGED Contract!vars
    BY <2>14 DEF vars, tables, Contract!vars
  <2>15. (PatchThrows \/ PatchEnd) => patching.entries \in PatchCalls
    BY <1>2, ThrowsFirst, EndsWhole
  <2>. QED
    BY <1>2, <2>1, <2>2, <2>3, <2>4, <2>5, <2>6, <2>7, <2>8, <2>9, <2>10, <2>11, <2>12, <2>13,
       <2>14, <2>15
       DEF Next, Contract!Next
<1>. QED
  BY <1>1, <1>2, TypeCorrect, IndexesStayComplete, QueriesStayExact, PatchesGoOn,
     PTL DEF Spec, ImplementsPersistence, Contract!Spec
=============================================================================
