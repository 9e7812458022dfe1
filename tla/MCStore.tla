------------------------------- MODULE MCStore -------------------------------
(***************************************************************************)
(* Models of Store for TLC.  Person has two versions: V1 with a name, V2   *)
(* with a name and an email; the lens derives the email from the name and  *)
(* fails to for one name, so that a stored row may be unreadable as V2.    *)
(* Note is an entity of its own.  In the overlapping models Note's lens    *)
(* leads from V2, which it then shares with Person.                        *)
(***************************************************************************)
EXTENDS Store, TLC

CONSTANTS V1, V2, W, Person, Note, p1, n1, c1, c2, one, list

MCTypes == {V1, V2, W}
MCConfig == <<Person, Note>>
MCRoot == (Person :> V2) @@ (Note :> W)
PersonLens == [name |-> "v1v2", from |-> V1, to |-> V2]
MCLensesOf == (Person :> <<PersonLens>>) @@ (Note :> <<>>)
MCFieldsOf == (V1 :> {"name"}) @@ (V2 :> {"name", "email"}) @@ (W :> {"name"})

MCValid(tag, data) == data \in Data /\ MCFieldsOf[tag] \subseteq DOMAIN data

MCTransform(step, data) ==
  CASE step.toType = V2 /\ step.fromType = V1 /\ data["name"] = "a" ->
         ("email" :> "a") @@ data
    [] step.toType = V2 /\ step.fromType = V1 -> data
    [] OTHER -> ("name" :> data["name"])

MCIdsOf == (Person :> {p1}) @@ (Note :> {n1})

Named(v) == "name" :> v
Full(v, w) == [name |-> v, email |-> w]

MCPayloads == {Named("a"), Named("b"), Full("a", "a")}
MCPatches == {Named("a"), ("email" :> "b")}
MCFilterings == {{}, {<<"name", "b">>}}

MCWatch ==
  (one  :> [entity |-> Person, id |-> p1, as |-> V2, filters |-> {}]) @@
  (list :> [entity |-> Person, id |-> All, as |-> V1, filters |-> {<<"name", "a">>}])

(* Clients are told apart by nothing; liveness is checked without this.    *)
ClientSymmetry == Permutations(Clients)

-----------------------------------------------------------------------------
(* The overlapping model: V2 belongs to both entities.                     *)
NoteLens == [name |-> "v2w", from |-> V2, to |-> W]
OverlapLensesOf == (Person :> <<PersonLens>>) @@ (Note :> <<NoteLens>>)
OverlapIdsOf == (Person :> {p1}) @@ (Note :> {p1})
=============================================================================
