----------------------------- MODULE MCLensGraph -----------------------------
(* A model of LensGraph for TLC: up to three lenses between five schema    *)
(* versions, registered and looked up in every order, and rings of five    *)
(* that are there from the start.                                          *)
EXTENDS LensGraph

CONSTANTS V1, V2, V3, V4, W

MCTypes == {V1, V2, V3, V4, W}

(* Nothing tells one type from another.                                    *)
TypeSymmetry == Permutations(MCTypes)
-----------------------------------------------------------------------------
(* Five lenses in a ring, with two ways from V1 to W: the one that a       *)
(* depth-first search takes has three steps, the other has two.            *)
Ring(p) ==
  LET lens(a, b) == [name |-> "l1", from |-> p[a], to |-> p[b]]
  IN  <<lens(V1, V2), lens(V1, V3), lens(V3, V4), lens(V4, W), lens(V2, W)>>

RingInit ==
  \E p \in TypeSymmetry :
    /\ adjacency = GraphOf(Ring(p))
    /\ pathCache = [pair \in {} |-> NoPath]
    /\ registered = Ring(p)
    /\ answer = NoAnswer

MCSpec == (GraphInit \/ RingInit) /\ [][GraphNext]_graphVars
=============================================================================
