------------------------------ MODULE LensPath ------------------------------
(***************************************************************************)
(* The lens graph of packages/core as pure operators: the adjacency lists  *)
(* that LensGraph.register builds, the breadth-first search of getPath,    *)
(* the closure of getConnectedTypes, and the tags of an entity.            *)
(*                                                                         *)
(* A lens is a record [name, from, to]; name tells apart two lenses        *)
(* between the same schemas.  A transform function is abstracted to the    *)
(* lens it comes from and the direction it runs in.  Everything is written *)
(* with functions (no RECURSIVE operator), so that modules with proofs may *)
(* use it.                                                                 *)
(***************************************************************************)
EXTENDS Naturals, Sequences, SequencesExt

CONSTANTS
  Types,      \* the `_tag` values, one per schema version
  LensNames,  \* the identities of the declared lenses
  NoPath      \* the null that getPath returns

Directions == {"forward", "backward"}
Lenses == [name : LensNames, from : Types, to : Types]
Steps == [fromType : Types, toType : Types, lens : LensNames, dir : Directions]

ASSUME NoPathAssumption == NoPath \notin Seq(Steps)

(* The adjacency map; a type without a key is mapped to the empty list,    *)
(* which no registered type has.                                           *)
EmptyGraph == [t \in Types |-> <<>>]

(* Mutated: only the declared direction of the lens is registered.         *)
RegisterForward(adj, lens) ==
  [adj EXCEPT ![lens.from] =
     Append(@, [toType |-> lens.to, lens |-> lens.name, dir |-> "forward"])]

(* LensGraph.register: the edge and its reverse, appended in that order.   *)
Register(adj, lens) ==
  LET edge(to, dir) == [toType |-> to, lens |-> lens.name, dir |-> dir]
      withForward == [adj EXCEPT ![lens.from] = Append(@, edge(lens.to, "forward"))]
  IN  [withForward EXCEPT ![lens.to] = Append(@, edge(lens.from, "backward"))]

GraphOf(lenses) == FoldLeft(Register, EmptyGraph, lenses)

AllTypes(adj) == {t \in Types : adj[t] # <<>>}

Neighbours(adj, t) == {e.toType : e \in ToSet(adj[t])}

StepOf(t, edge) ==
  [fromType |-> t, toType |-> edge.toType, lens |-> edge.lens, dir |-> edge.dir]

(* Mutated: the neighbours are put at the front, a depth-first search.     *)
EnqueueFirst(state, node, edges) ==
  LET visit(st, edge) ==
        IF edge.toType \in st.visited THEN st
        ELSE [visited |-> st.visited \cup {edge.toType},
              queue   |-> <<[type |-> edge.toType,
                             path |-> Append(node.path, StepOf(node.type, edge))]>>
                           \o st.queue]
  IN  FoldLeft(visit, state, edges)

(* One turn of the loop of getPath: the neighbours of a node of the queue  *)
(* that were not visited yet join it, in the order of the adjacency list.  *)
Enqueue(state, node, edges) ==
  LET visit(st, edge) ==
        IF edge.toType \in st.visited THEN st
        ELSE [visited |-> st.visited \cup {edge.toType},
              queue   |-> Append(st.queue,
                            [type |-> edge.toType,
                             path |-> Append(node.path, StepOf(node.type, edge))])]
  IN  FoldLeft(visit, state, edges)

Nodes == [type : Types, path : Seq(Steps)]

(* What the loop of getPath carries on from turn to turn.                  *)
SearchStates == [visited : SUBSET Types, queue : Seq(Nodes)]

(* The search of getPath, without its cache and its identity case.         *)
Search(adj, from, to) ==
  LET bfs[state \in SearchStates] ==
        IF state.queue = <<>> THEN NoPath
        ELSE LET node  == Head(state.queue)
                 edges == adj[node.type]
                 hit   == SelectInSeq(edges, LAMBDA e : e.toType = to)
             IN  IF hit # 0
                 THEN Append(node.path, StepOf(node.type, edges[hit]))
                 ELSE bfs[Enqueue([state EXCEPT !.queue = Tail(@)], node, edges)]
  IN  bfs[[visited |-> {from}, queue |-> <<[type |-> from, path |-> <<>>]>>]]

(* getPath as its callers see it: the identity path has no steps.          *)
PathBetween(adj, from, to) == IF from = to THEN <<>> ELSE Search(adj, from, to)

(* getConnectedTypes: the types reachable from t, t included.              *)
ConnectedTypes(adj, t) ==
  LET grow[visited \in SUBSET Types] ==
        LET wider == visited \cup UNION {Neighbours(adj, v) : v \in visited}
        IN  IF wider = visited THEN visited ELSE grow[wider]
  IN  grow[{t}]

(* entitySchemas, as the set of the tags it returns.                       *)
EntityTags(root, lenses) ==
  {root} \cup UNION {{l.from, l.to} : l \in ToSet(lenses)}

(* Mutated: a lens is connected if either of its ends is.                  *)
ConnectedLoosely(root, lenses) ==
  \A l \in ToSet(lenses) :
    {l.from, l.to} \cap ConnectedTypes(GraphOf(lenses), root) # {}
      \/ \E k \in ToSet(lenses) : k # l /\ {k.from, k.to} \cap {l.from, l.to} # {}

(* validateConnectivity: defineEntity throws unless every tag of the       *)
(* entity is reachable from its root schema through its own lenses.        *)
Connected(root, lenses) ==
  EntityTags(root, lenses) \subseteq ConnectedTypes(GraphOf(lenses), root)
=============================================================================
