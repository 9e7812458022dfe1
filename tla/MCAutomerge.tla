------------------------------ MODULE MCAutomerge ------------------------------
(***************************************************************************)
(* Two records of two types; the field `a` takes the number 1 and the      *)
(* string "1", which share their text, another string, null or no value.   *)
(***************************************************************************)
EXTENDS AutomergePersistence, TLC

CONSTANTS c1, c2, i1, i2, A, B, a, one, str1, strx, t1, tx, tnull, bad, glob, nA, nB

MCText == [v \in {one, str1, strx, Null} |->
             CASE v = one -> t1 [] v = str1 -> t1 [] v = strx -> tx [] OTHER -> tnull]

MCLike == {<<strx, glob>>, <<str1, glob>>}

MCIndexName == [type \in Types |-> [f \in Fields |-> IF type = A THEN nA ELSE nB]]

MCPutData == [Fields -> {one, strx}]

Symmetry == Permutations(Ids)

Where(op, value) == [field |-> a, op |-> op, value |-> value]

Find(types, filters, offset, limit) ==
  [types |-> types, filters |-> filters, offset |-> offset, limit |-> limit]

MCQueries ==
  {Find({A}, <<Where("eq", v)>>, 0, None) : v \in {one, strx}}
  \cup {Find({A}, <<Where("like", bad)>>, 0, None),
        Find({A, B}, <<Where("in", {one})>>, 0, None), Find({A, B}, <<>>, 1, 1)}

PatchOf(type, filters, value) == [type |-> type, filters |-> filters, patch |-> (a :> value)]

MCPatchCalls ==
  {<<>>,
   <<PatchOf(A, <<>>, strx), PatchOf(B, <<Where("eq", one)>>, Null)>>,
   <<PatchOf(A, <<Where("neq", str1)>>, str1), PatchOf(A, <<Where("eq", str1)>>, one)>>,
   <<PatchOf(A, <<Where("like", bad)>>, one)>>}

MCSpec == {{<<A, a>>, <<B, a>>}}
MCBadSpecs == {{<<A, a>>}}

(* A release that has an index the one before it did not have.             *)
MCSpecs == {{}, {<<A, a>>}}
=============================================================================
