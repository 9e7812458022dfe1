-------------------------------- MODULE MCSql --------------------------------
(***************************************************************************)
(* Two callers on a database with a record of two types: the field `a`     *)
(* is a number, a string or missing; `b` is a field whose name is refused. *)
(***************************************************************************)
EXTENDS SqlPersistence, TLC

CONSTANTS c1, c2, i1, A, B, a, b, one, strx, stry, glob, nA, nB, n0

MCText == [v \in {one, strx, stry, Null} |-> v]

MCLike == {<<stry, glob>>}

MCIndexName == [type \in Types |-> [f \in Fields |-> IF type = A THEN nA ELSE nB]]

(* The database of an earlier release has an index of its own.             *)
MCIndexes == {{}, {nA, n0}}

MCSpecs == {<<<<A, a>>, <<B, a>>>>, <<<<A, a>>, <<B, b>>>>}

MCPutData == {[f \in Fields |-> IF f = a THEN one ELSE Absent]}

Where(field, op, value) == [field |-> field, op |-> op, value |-> value]

Find(types, filters, offset, limit) ==
  [types |-> types, filters |-> filters, offset |-> offset, limit |-> limit]

MCQueries == {Find({A}, <<Where(a, "like", glob)>>, 0, None), Find({A, B}, <<>>, 1, None)}

PatchOf(type, filters, value) == [type |-> type, filters |-> filters, patch |-> (a :> value)]

MCPatchCalls ==
  {<<PatchOf(A, <<Where(a, "in", {one})>>, strx), PatchOf(A, <<Where(a, "neq", one)>>, stry)>>,
   <<PatchOf(A, <<>>, Null), PatchOf(B, <<Where(b, "eq", one)>>, one)>>}
=============================================================================
