------------------------------- MODULE Records -------------------------------
(***************************************************************************)
(* What the persistences store and how they are asked: the types of        *)
(* packages/core/src/persistence.ts, and the filters and merge patches     *)
(* that @storic/tinybase and @storic/automerge evaluate in memory.         *)
(*                                                                         *)
(* A record's data is flat: a dotted path of the code is one field here,   *)
(* and a nested object one value, so a patch never descends.  `updated_at` *)
(* is left out; `created_at` orders the rows of an answer.                 *)
(***************************************************************************)
EXTENDS Integers, Sequences, FiniteSets

CONSTANTS
  Ids, Types, Fields,
  Scalars,         \* the values of fields other than null
  Strings,         \* those of them that are strings
  Texts,           \* what String() turns a value into
  Text,            \* value -> its text; different values may share one
  Like,            \* <<string, pattern>>: the pattern matches the string
  BadPatterns,     \* patterns that are no regular expression
  Null, Absent,    \* the value null, and no value
  None             \* no record, no limit

Values == Scalars \cup {Null, Absent}

Data == [Fields -> Values]

PatchData == UNION {[S -> Scalars \cup {Null}] : S \in SUBSET Fields}

Record == [type : Types, data : Data, created : Nat]

(* Filters are asked one by one, in the order of the list; "neq" stands    *)
(* for the comparisons, which no index serves either.                      *)
Filter == [field : Fields, op : {"eq", "neq"}, value : Scalars \cup {Null}]
          \cup [field : Fields, op : {"in"}, value : SUBSET (Scalars \cup {Null})]
          \cup [field : Fields, op : {"like"}, value : BadPatterns \cup {l[2] : l \in Like}]

Query == [types : SUBSET Types, filters : Seq(Filter),
          offset : Nat, limit : Nat \cup {None}]

TypePatch == [type : Types, filters : Seq(Filter), patch : PatchData]

ASSUME RecordsAssumption ==
  /\ IsFiniteSet(Ids)
  /\ Strings \subseteq Scalars
  /\ Text \in [Scalars \cup {Null} -> Texts]
  /\ Null \notin Scalars /\ Absent \notin Scalars /\ Null # Absent
  /\ None \notin Record /\ None \notin Nat

Matches(data, filter) ==
  LET value == data[filter.field] IN
  \/ filter.op = "eq" /\ value = filter.value
  \/ filter.op = "neq" /\ value # filter.value
  \/ filter.op = "in" /\ value \in filter.value
  \/ filter.op = "like" /\ <<value, filter.value>> \in Like

MatchesAll(data, filters) == \A i \in DOMAIN filters : Matches(data, filters[i])

(* The constructor of the regular expression throws; only a string gets    *)
(* that far, and only if the filters before it matched.                    *)
Throws(data, filters) ==
  \E i \in DOMAIN filters :
    /\ filters[i].op = "like" /\ filters[i].value \in BadPatterns
    /\ data[filters[i].field] \in Strings
    /\ \A j \in 1..(i - 1) : Matches(data, filters[j])

(* JSON Merge Patch (RFC 7396) of flat data.                               *)
Merge(data, patch) ==
  [f \in Fields |-> IF f \notin DOMAIN patch THEN data[f]
                    ELSE IF patch[f] = Null THEN Absent ELSE patch[f]]

(* The rows found, newest first.  The code sorts by created_at alone, in   *)
(* seconds: records of the same second come in any order.                  *)
Orders(found, created) ==
  {order \in [1..Cardinality(found) -> found] :
     /\ \A i, j \in DOMAIN order : i < j => /\ order[i] # order[j]
                                            /\ created[order[i]] >= created[order[j]]}

(* results.slice(offset), and then results.slice(0, limit).                *)
Offset(rows, offset) == SubSeq(rows, offset + 1, Len(rows))

Limited(rows, limit) ==
  IF limit = None \/ limit > Len(rows) THEN rows ELSE SubSeq(rows, 1, limit)

Windows(found, created, query) ==
  {Limited(Offset(order, query.offset), query.limit) : order \in Orders(found, created)}
=============================================================================
