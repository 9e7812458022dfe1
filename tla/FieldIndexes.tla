----------------------------- MODULE FieldIndexes -----------------------------
(***************************************************************************)
(* The inverted indexes of @storic/tinybase and @storic/automerge: what a  *)
(* record is listed under, and how a query narrows its candidates with     *)
(* them.  Each of the two packages has a copy of this code.                *)
(*                                                                         *)
(* A map of maps of ids is the set of its tuples <<name, text, id>>: an    *)
(* empty bucket and a missing one are the same.                            *)
(***************************************************************************)
EXTENDS Records

CONSTANTS
  Names,        \* the names of indexes
  IndexName     \* type -> field -> the name computeIndexSpecs gives

(* Two fields of one type have indexes of different names; two types may   *)
(* share a name, as "A.b" and "A_b" do.                                    *)
ASSUME IndexAssumption ==
  /\ IndexName \in [Types -> [Fields -> Names]]
  /\ \A type \in Types : \A f, g \in Fields :
       IndexName[type][f] = IndexName[type][g] => f = g

(* Mutated: the value is listed as it is.                                  *)
EntriesUntexted(specs, id, type, data) ==
  {<<IndexName[type][f], data[f], id>> :
     f \in {g \in Fields : <<type, g>> \in specs /\ data[g] \notin {Null, Absent}}}

(* extractIndexedValues, for one record.                                   *)
Entries(specs, id, type, data) ==
  {<<IndexName[type][f], Text[data[f]], id>> :
     f \in {g \in Fields : <<type, g>> \in specs /\ data[g] \notin {Null, Absent}}}

(* Mutated: an index of one of the types is taken for an index of all.     *)
NarrowsForSome(indexed, filter, types) ==
  /\ filter.op \in {"eq", "in"}
  /\ \E type \in types : <<type, filter.field>> \in indexed

Narrows(indexed, filter, types) ==
  /\ filter.op \in {"eq", "in"}
  /\ \A type \in types : <<type, filter.field>> \in indexed

TextsOf(filter) == IF filter.op = "in" THEN {Text[v] : v \in filter.value}
                   ELSE {Text[filter.value]}

Narrowed(query, indexed, byType, index) ==
  {id \in Ids :
     /\ \E type \in query.types : <<type, id>> \in byType
     /\ \A i \in DOMAIN query.filters :
          LET filter == query.filters[i] IN
          Narrows(indexed, filter, query.types) =>
            \E type \in query.types, text \in TextsOf(filter) :
              /\ <<type, filter.field>> \in indexed
              /\ <<IndexName[type][filter.field], text, id>> \in index}
=============================================================================
