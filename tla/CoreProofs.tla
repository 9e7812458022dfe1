----------------------------- MODULE CoreProofs -----------------------------
(***************************************************************************)
(* Proofs about packages/core: LensGraph for any types, lenses and bounds, *)
(* and Store for any number of clients, subscribers, entities, schemas and *)
(* records, any lenses and any data.                                       *)
(***************************************************************************)
EXTENDS LensGraph, Store, Loops

-----------------------------------------------------------------------------
(* The lens graph.                                                         *)

(* The cache of lookups is a function on pairs of types in every state; the *)
(* part of the typing that CacheCurrent needs.                             *)
CacheDomain == DOMAIN pathCache \subseteq Types \X Types

CacheInv == CacheDomain /\ CacheCurrent

(* Registering a lens empties the cache, a lookup adds what a search of     *)
(* the unchanged graph returns: one step keeps the cache current.          *)
LEMMA CacheStep == CacheInv /\ [GraphNext]_graphVars => CacheInv'
<1> SUFFICES ASSUME CacheInv, [GraphNext]_graphVars PROVE CacheInv'
  OBVIOUS
<1> USE DEF CacheInv, CacheDomain, CacheCurrent
<1>1. ASSUME NEW lens \in Lenses, RegisterLens(lens) PROVE CacheInv'
  BY <1>1 DEF RegisterLens
<1>2. ASSUME NEW from \in Types, GetIdentity(from) PROVE CacheInv'
  BY <1>2 DEF GetIdentity
<1>3. ASSUME NEW from \in Types, NEW to \in Types, GetCached(from, to)
      PROVE CacheInv'
  BY <1>3 DEF GetCached
<1>4. ASSUME NEW from \in Types, NEW to \in Types, GetSearched(from, to)
      PROVE CacheInv'
  <2>1. DOMAIN pathCache' = DOMAIN pathCache \cup {<<from, to>>}
    BY <1>4 DEF GetSearched
  <2>2. ASSUME NEW pair \in DOMAIN pathCache'
        PROVE pathCache'[pair] = Search(adjacency', pair[1], pair[2])
    <3>1. CASE pair = <<from, to>>
      BY <1>4, <2>1, <3>1 DEF GetSearched
    <3>2. CASE pair # <<from, to>>
      BY <1>4, <2>1, <2>2, <3>2 DEF GetSearched
    <3> QED BY <3>1, <3>2
  <2> QED BY <2>1, <2>2
<1>5. CASE UNCHANGED graphVars
  BY <1>5 DEF graphVars
<1> QED BY <1>1, <1>2, <1>3, <1>4, <1>5 DEF GraphNext

(* LensGraph.getPath never answers from a cache that an intervening         *)
(* register has made obsolete (lens-graph.ts:54).                          *)
THEOREM CacheStaysCurrent == GraphSpec => []CacheCurrent
<1>1. GraphInit => CacheInv
  BY DEF GraphInit, CacheInv, CacheDomain, CacheCurrent
<1>2. CacheInv => CacheCurrent
  BY DEF CacheInv
<1> QED BY <1>1, <1>2, CacheStep, PTL DEF GraphSpec

(* A lookup through the cache gives the answer that a search of the graph   *)
(* of that moment gives, for every sequence of registrations and lookups.  *)
THEOREM AnswersStayCurrent == GraphSpec => AnswersCurrent
<1>1. CacheInv /\ [GraphNext]_graphVars =>
        [answer' # answer =>
           answer'.path = PathBetween(adjacency, answer'.from, answer'.to)]_graphVars
  <2> SUFFICES ASSUME CacheInv, GraphNext, answer' # answer
               PROVE answer'.path = PathBetween(adjacency, answer'.from, answer'.to)
    BY DEF graphVars
  <2>1. ASSUME NEW lens \in Lenses, RegisterLens(lens) PROVE FALSE
    BY <2>1 DEF RegisterLens
  <2>2. ASSUME NEW from \in Types, GetIdentity(from)
        PROVE answer'.path = PathBetween(adjacency, answer'.from, answer'.to)
    BY <2>2 DEF GetIdentity, Answer, PathBetween
  <2>3. ASSUME NEW from \in Types, NEW to \in Types, GetCached(from, to)
        PROVE answer'.path = PathBetween(adjacency, answer'.from, answer'.to)
    BY <2>3 DEF GetCached, Answer, PathBetween, CacheInv, CacheCurrent
  <2>4. ASSUME NEW from \in Types, NEW to \in Types, GetSearched(from, to)
        PROVE answer'.path = PathBetween(adjacency, answer'.from, answer'.to)
    BY <2>4 DEF GetSearched, Answer, PathBetween
  <2> QED BY <2>1, <2>2, <2>3, <2>4 DEF GraphNext
<1>2. GraphInit => CacheInv
  BY DEF GraphInit, CacheInv, CacheDomain, CacheCurrent
<1> QED BY <1>1, <1>2, CacheStep, PTL DEF GraphSpec, AnswersCurrent

-----------------------------------------------------------------------------
(* What getPath searches for and finds (lens-graph.ts:100-132).            *)

(* The edges that register appends, and the graphs they make up.           *)
Edges == [toType : Types, lens : LensNames, dir : Directions]

Graphs == [Types -> Seq(Edges)]

(* What getPath looks for next: the node it takes from the queue.          *)
Visit(st, node, edge) ==
  IF edge.toType \in st.visited THEN st
  ELSE [visited |-> st.visited \cup {edge.toType},
        queue   |-> Append(st.queue, [type |-> edge.toType,
                                      path |-> Append(node.path, StepOf(node.type, edge))])]

(* A visit leaves a state of the search, whose new node is a node.         *)
LEMMA VisitTyped ==
  ASSUME NEW st \in SearchStates, NEW node \in Nodes, NEW edge \in Edges
  PROVE  /\ Visit(st, node, edge) \in SearchStates
         /\ [type |-> edge.toType, path |-> Append(node.path, StepOf(node.type, edge))] \in Nodes
<1>1. /\ st.visited \in SUBSET Types /\ st.queue \in Seq(Nodes)
      /\ edge.toType \in Types /\ node.type \in Types /\ node.path \in Seq(Steps)
  BY DEF SearchStates, Edges, Nodes
<1>2. StepOf(node.type, edge) \in Steps
  BY DEF StepOf, Steps, Nodes, Edges
<1>3. PICK path : path = Append(node.path, StepOf(node.type, edge))
  OBVIOUS
<1>4. path \in Seq(Steps)
  BY <1>1, <1>2, <1>3
<1>5. PICK new : new = [type |-> edge.toType, path |-> path]
  OBVIOUS
<1>6. new \in Nodes
  BY <1>1, <1>4, <1>5 DEF Nodes
<1>7. Append(st.queue, new) \in Seq(Nodes)
  BY <1>1, <1>6
<1>8. Visit(st, node, edge) = IF edge.toType \in st.visited THEN st
                              ELSE [visited |-> st.visited \cup {edge.toType},
                                    queue   |-> Append(st.queue, new)]
  BY <1>3, <1>5 DEF Visit
<1>9. Visit(st, node, edge) \in SearchStates
  BY <1>1, <1>7, <1>8 DEF SearchStates
<1>. QED  BY <1>3, <1>5, <1>6, <1>9

(* The neighbours of a node join the queue one after the other.            *)
LEMMA EnqueueGoes ==
  ASSUME NEW st \in SearchStates, NEW node \in Nodes, NEW edges \in Seq(Edges)
  PROVE  \E h : /\ h[0] = st /\ Enqueue(st, node, edges) = h[Len(edges)]
                /\ \A i \in 1..Len(edges) : h[i] = Visit(h[i - 1], node, edges[i])
<1>. DEFINE n == Len(edges)
            Is(h) == h = [s \in SUBSET (1..n) |->
                            IF s = {} THEN st ELSE Visit(h[s \ {Max(s)}], node, edges[Max(s)])]
            step == [p \in (1..n) \X SearchStates |-> Visit(p[2], node, edges[p[1]])]
<1>1. n \in Nat /\ DOMAIN edges = 1..n /\ \A i \in 1..n : edges[i] \in Edges
  OBVIOUS
<1>2. step \in [(1..n) \X SearchStates -> SearchStates]
  <2>. HIDE DEF n
  <2>. QED  BY <1>1, VisitTyped
<1>3. \E h : Is(h)
  <2>. HIDE DEF step, n
  <2>1. PICK g \in [SUBSET (1..n) -> SearchStates] : Folds(g, n, st, step)
    BY <1>1, <1>2, FoldExists
  <2>2. ASSUME NEW s \in SUBSET (1..n), s # {}
        PROVE  step[<<Max(s), g[s \ {Max(s)}]>>] = Visit(g[s \ {Max(s)}], node, edges[Max(s)])
    <3>1. Max(s) \in 1..n
      BY <1>1, <2>2, MaxProperties
    <3>2. <<Max(s), g[s \ {Max(s)}]>> \in (1..n) \X SearchStates
      BY <3>1
    <3>. QED  BY <3>2 DEF step
  <2>3. Is(g)
    BY <2>1, <2>2 DEF Folds
  <2>. QED  BY <2>3
<1>4. Enqueue(st, node, edges) = (CHOOSE h : Is(h))[1..n]
  BY <1>1 DEF Enqueue, FoldLeft, MapThenFoldSet, Visit, Max
<1>. HIDE DEF Is
<1>5. PICK g : Is(g) /\ Enqueue(st, node, edges) = g[1..n]
  BY <1>3, <1>4
<1>6. PICK h : h = [k \in 0..n |-> g[1..k]]
  OBVIOUS
<1>7. h[0] = st
  <2>1. (1..0) \in SUBSET (1..n) /\ 1..0 = {}
    OBVIOUS
  <2>. QED  BY <1>1, <1>5, <1>6, <2>1 DEF Is
<1>8. ASSUME NEW k \in 1..n PROVE h[k] = Visit(h[k - 1], node, edges[k])
  <2>. HIDE DEF n
  <2>0. n \in Nat /\ k \in 1..n /\ k \in 0..n /\ k - 1 \in 0..n
    BY <1>1
  <2>1. k \in Nat \ {0} /\ (1..k) \in SUBSET (1..n) /\ 1..k # {}
    <3>1. k \in Nat /\ k # 0 /\ 1 \in 1..k /\ \A i \in 1..k : i \in 1..n
      BY <2>0
    <3>. QED  BY <3>1
  <2>2. g[1..k] = Visit(g[(1..k) \ {Max(1..k)}], node, edges[Max(1..k)])
    BY <1>5, <2>1 DEF Is
  <2>3. g[1..k] = Visit(g[1..(k - 1)], node, edges[k])
    BY <2>1, <2>2, MaxOfPrefix
  <2>. QED  BY <1>6, <2>0, <2>3
<1>9. Enqueue(st, node, edges) = h[n]
  BY <1>1, <1>5, <1>6
<1>. QED  BY <1>7, <1>8, <1>9

(* What the search still has to do: each type may join the queue once, and *)
(* each node of the queue be taken from it.                                *)
Left(st) == 2 * Cardinality(Types \ st.visited) + Len(st.queue)

(* A node of the queue for one of the first k neighbours of a node.        *)
Joins(st, new, node, edges, k) ==
  \E j \in 1..k : /\ edges[j].toType \notin st.visited
                  /\ new.type = edges[j].toType
                  /\ new.path = Append(node.path, StepOf(node.type, edges[j]))

(* The state after the first k neighbours of a node, from st: the queue has *)
(* grown by nodes for those of them that were not visited.                 *)
Grown(st, r, node, edges, k) ==
  /\ r \in SearchStates
  /\ r.visited = st.visited \cup {edges[i].toType : i \in 1..k}
  /\ Len(st.queue) <= Len(r.queue) /\ \A i \in 1..Len(st.queue) : r.queue[i] = st.queue[i]
  /\ \A i \in 1..Len(r.queue) : i > Len(st.queue) => Joins(st, r.queue[i], node, edges, k)
  /\ \A t \in r.visited \ st.visited : \E i \in 1..Len(r.queue) : r.queue[i].type = t
  /\ Left(r) <= Left(st)

(* What is left is a number.                                               *)
LEMMA LeftTyped ==
  ASSUME IsFiniteSet(Types), NEW st \in SearchStates
  PROVE  /\ Left(st) \in Nat /\ IsFiniteSet(Types \ st.visited)
         /\ Cardinality(Types \ st.visited) \in Nat /\ Len(st.queue) \in Nat
<1>1. IsFiniteSet(Types \ st.visited)
  BY FS_Subset
<1>2. Cardinality(Types \ st.visited) \in Nat
  BY <1>1, FS_CardinalityType
<1>3. Len(st.queue) \in Nat
  BY DEF SearchStates
<1>. QED  BY <1>1, <1>2, <1>3 DEF Left

(* One more neighbour grows the state by one node at most.                 *)
LEMMA VisitGrows ==
  ASSUME IsFiniteSet(Types), NEW st \in SearchStates, NEW node \in Nodes, NEW edges \in Seq(Edges),
         NEW k \in Nat, k + 1 <= Len(edges), NEW r, Grown(st, r, node, edges, k),
         NEW next, next = Visit(r, node, edges[k + 1])
  PROVE  Grown(st, next, node, edges, k + 1)
<1>1. PICK edge : edge = edges[k + 1]
  OBVIOUS
<1>2. /\ edge \in Edges /\ edge.toType \in Types /\ Len(edges) \in Nat
      /\ \A i \in 1..(k + 1) : edges[i] \in Edges /\ edges[i].toType \in Types
      /\ 1..k \subseteq 1..(k + 1) /\ k + 1 \in 1..(k + 1)
      /\ \A i \in 1..(k + 1) : i \in 1..k \/ i = k + 1
  <2>1. Len(edges) \in Nat /\ \A i \in 1..(k + 1) : i \in 1..Len(edges)
    OBVIOUS
  <2>2. \A i \in 1..(k + 1) : edges[i] \in Edges
    BY <2>1
  <2>3. \A i \in 1..(k + 1) : i \in 1..k \/ i = k + 1
    OBVIOUS
  <2>4. k + 1 \in 1..(k + 1) /\ 1..k \subseteq 1..(k + 1)
    OBVIOUS
  <2>. QED  BY <1>1, <2>1, <2>2, <2>3, <2>4 DEF Edges
<1>3. r \in SearchStates
  BY DEF Grown
<1>4. {edges[i].toType : i \in 1..(k + 1)} = {edges[i].toType : i \in 1..k} \cup {edge.toType}
  BY <1>1, <1>2
<1>5. next \in SearchStates
  BY <1>1, <1>2, <1>3, VisitTyped
<1>6. CASE edge.toType \in r.visited
  <2>1. next = r
    BY <1>1, <1>6 DEF Visit
  <2>2. r.visited = st.visited \cup {edges[i].toType : i \in 1..(k + 1)}
    BY <1>4, <1>6 DEF Grown
  <2>3. ASSUME NEW i \in 1..Len(r.queue), i > Len(st.queue)
        PROVE  Joins(st, r.queue[i], node, edges, k + 1)
    <3>1. Joins(st, r.queue[i], node, edges, k)
      BY <2>3 DEF Grown
    <3>. QED  BY <1>2, <3>1 DEF Joins
  <2>. QED  BY <2>1, <2>2, <2>3 DEF Grown
<1>7. CASE edge.toType \notin r.visited
  <2>1. PICK path : path = Append(node.path, StepOf(node.type, edge))
    OBVIOUS
  <2>2. PICK new : new = [type |-> edge.toType, path |-> path]
    OBVIOUS
  <2>3. new \in Nodes /\ new.type = edge.toType /\ new.path = path
    BY <1>2, <1>3, <2>1, <2>2, VisitTyped
  <2>4. next = [visited |-> r.visited \cup {edge.toType}, queue |-> Append(r.queue, new)]
    BY <1>1, <1>7, <2>1, <2>2 DEF Visit
  <2>5. next.visited = r.visited \cup {edge.toType} /\ next.queue = Append(r.queue, new)
    BY <2>4
  <2>6. /\ r.queue \in Seq(Nodes) /\ Len(r.queue) \in Nat
        /\ st.queue \in Seq(Nodes) /\ Len(st.queue) \in Nat
    BY <1>3 DEF SearchStates
  <2>7. /\ Len(next.queue) = Len(r.queue) + 1
        /\ \A i \in 1..Len(r.queue) : next.queue[i] = r.queue[i]
        /\ next.queue[Len(r.queue) + 1] = new
    BY <2>3, <2>5, <2>6
  <2>8. next.visited = st.visited \cup {edges[i].toType : i \in 1..(k + 1)}
    BY <1>4, <2>5 DEF Grown
  <2>9. /\ Len(st.queue) <= Len(next.queue)
        /\ \A i \in 1..Len(st.queue) : next.queue[i] = st.queue[i]
    BY <2>6, <2>7 DEF Grown
  <2>10. ASSUME NEW i \in 1..Len(next.queue), i > Len(st.queue)
         PROVE  Joins(st, next.queue[i], node, edges, k + 1)
    <3>1. CASE i \in 1..Len(r.queue)
      <4>1. next.queue[i] = r.queue[i]
        BY <2>7, <3>1
      <4>2. Joins(st, r.queue[i], node, edges, k)
        BY <2>10, <3>1 DEF Grown
      <4>. QED  BY <1>2, <4>1, <4>2 DEF Joins
    <3>2. CASE i = Len(r.queue) + 1
      <4>1. edge.toType \notin st.visited
        BY <1>7 DEF Grown
      <4>2. next.queue[i].type = edge.toType /\ next.queue[i].path = path
        BY <2>3, <2>7, <3>2
      <4>. QED  BY <1>1, <1>2, <2>1, <4>1, <4>2 DEF Joins
    <3>. QED  BY <2>6, <2>7, <3>1, <3>2
  <2>11. ASSUME NEW t \in next.visited \ st.visited
         PROVE  \E i \in 1..Len(next.queue) : next.queue[i].type = t
    <3>1. CASE t = edge.toType
      <4>1. Len(r.queue) + 1 \in 1..Len(next.queue)
        BY <2>6, <2>7
      <4>. QED  BY <2>3, <2>7, <3>1, <4>1
    <3>2. CASE t # edge.toType
      <4>1. PICK i \in 1..Len(r.queue) : r.queue[i].type = t
        BY <2>5, <3>2 DEF Grown
      <4>2. i \in 1..Len(next.queue)
        BY <2>6, <2>7
      <4>. QED  BY <2>7, <4>1, <4>2
    <3>. QED  BY <3>1, <3>2
  <2>12. Left(next) <= Left(r)
    <3>1. IsFiniteSet(Types \ r.visited) /\ edge.toType \in Types \ r.visited
      BY <1>2, <1>3, <1>7, LeftTyped
    <3>2. Types \ next.visited = (Types \ r.visited) \ {edge.toType}
      BY <2>5
    <3>3. Cardinality(Types \ next.visited) = Cardinality(Types \ r.visited) - 1
      <4>1. PICK rest : rest = Types \ r.visited
        OBVIOUS
      <4>2. Cardinality(rest \ {edge.toType}) = Cardinality(rest) - 1
        BY <3>1, <4>1, FS_RemoveElement
      <4>. QED  BY <3>2, <4>1, <4>2
    <3>4. Cardinality(Types \ r.visited) \in Nat
      BY <3>1, FS_CardinalityType
    <3>. QED  BY <2>6, <2>7, <3>3, <3>4 DEF Left
  <2>13. Left(next) <= Left(st)
    <3>1. Left(r) <= Left(st)
      BY DEF Grown
    <3>2. Left(next) \in Nat /\ Left(r) \in Nat /\ Left(st) \in Nat
      BY <1>3, <1>5, LeftTyped
    <3>. QED  BY <2>12, <3>1, <3>2
  <2>. QED  BY <1>5, <2>8, <2>9, <2>10, <2>11, <2>13 DEF Grown
<1>. QED  BY <1>6, <1>7

(* All neighbours of a node are visited, and those that were not are in    *)
(* the queue.                                                              *)
LEMMA EnqueueGrows ==
  ASSUME IsFiniteSet(Types), NEW st \in SearchStates, NEW node \in Nodes, NEW edges \in Seq(Edges)
  PROVE  Grown(st, Enqueue(st, node, edges), node, edges, Len(edges))
<1>1. PICK h : /\ h[0] = st /\ Enqueue(st, node, edges) = h[Len(edges)]
               /\ \A i \in 1..Len(edges) : h[i] = Visit(h[i - 1], node, edges[i])
  BY EnqueueGoes
<1>. DEFINE S == {k \in Nat : k <= Len(edges) => Grown(st, h[k], node, edges, k)}
<1>2. 0 \in S
  <2>1. Grown(st, st, node, edges, 0)
    <3>1. Len(st.queue) \in Nat /\ Left(st) \in Nat
      BY LeftTyped
    <3>2. 1..0 = {}
      OBVIOUS
    <3>. QED  BY <3>1, <3>2 DEF Grown
  <2>. QED  BY <1>1, <2>1
<1>3. ASSUME NEW k \in S PROVE k + 1 \in S
  <2>. SUFFICES ASSUME k + 1 <= Len(edges) PROVE Grown(st, h[k + 1], node, edges, k + 1)
    OBVIOUS
  <2>1. k \in Nat /\ Grown(st, h[k], node, edges, k)
    OBVIOUS
  <2>2. k + 1 \in 1..Len(edges) /\ (k + 1) - 1 = k
    BY <2>1
  <2>3. h[k + 1] = Visit(h[k], node, edges[k + 1])
    BY <1>1, <2>2
  <2>. HIDE DEF S
  <2>. QED  BY <2>1, <2>3, VisitGrows
<1>4. S = Nat
  <2>1. S \in SUBSET Nat
    OBVIOUS
  <2>. HIDE DEF S
  <2>. QED  BY <1>2, <1>3, <2>1, Induction
<1>5. Len(edges) \in S /\ Len(edges) \in Nat
  <2>. HIDE DEF S
  <2>. QED  BY <1>4
<1>. QED  BY <1>1, <1>5

-----------------------------------------------------------------------------
(* The types that are at most n lenses away.                               *)
Levels(W, adj, a) ==
  /\ W \in [Nat -> SUBSET Types] /\ W[0] = {a}
  /\ \A n \in Nat : W[n + 1] = W[n] \cup UNION {Neighbours(adj, t) : t \in W[n]}

(* A way along the edges of the graph.                                     *)
Way(adj, path, a, b) ==
  /\ path \in Seq(Steps)
  /\ \A i \in 1..Len(path) :
       /\ path[i].fromType = IF i = 1 THEN a ELSE path[i - 1].toType
       /\ \E e \in ToSet(adj[path[i].fromType]) : path[i] = StepOf(path[i].fromType, e)
  /\ (IF path = <<>> THEN a ELSE path[Len(path)].toType) = b

OneFurther(more, path, t, edge) == more = Append(path, StepOf(t, edge))

(* A way that goes on over one more edge is a way.                         *)
LEMMA WayGoesOn ==
  ASSUME NEW adj \in Graphs, NEW a \in Types, NEW t \in Types, NEW path, Way(adj, path, a, t),
         NEW edge \in ToSet(adj[t]), NEW more, OneFurther(more, path, t, edge)
  PROVE  Way(adj, more, a, edge.toType) /\ Len(more) = Len(path) + 1 /\ Len(path) \in Nat
<1>1. path \in Seq(Steps) /\ Len(path) \in Nat /\ edge \in Edges
  <2>1. adj[t] \in Seq(Edges)
    BY DEF Graphs
  <2>2. edge \in Edges
    BY <2>1 DEF ToSet
  <2>. QED  BY <2>2 DEF Way
<1>2. PICK step : step = StepOf(t, edge)
  OBVIOUS
<1>3. step \in Steps /\ step.fromType = t /\ step.toType = edge.toType
  BY <1>1, <1>2 DEF StepOf, Steps, Edges
<1>4. /\ more \in Seq(Steps) /\ Len(more) = Len(path) + 1 /\ more # <<>>
      /\ \A i \in 1..Len(path) : more[i] = path[i]
      /\ more[Len(path) + 1] = step
  BY <1>1, <1>2, <1>3 DEF OneFurther
<1>5. ASSUME NEW i \in 1..Len(more)
      PROVE  /\ more[i].fromType = IF i = 1 THEN a ELSE more[i - 1].toType
             /\ \E e \in ToSet(adj[more[i].fromType]) : more[i] = StepOf(more[i].fromType, e)
  <2>1. CASE i \in 1..Len(path)
    <3>1. more[i] = path[i] /\ (i # 1 => more[i - 1] = path[i - 1])
      <4>1. i # 1 => i - 1 \in 1..Len(path)
        BY <1>1, <2>1
      <4>. QED  BY <1>4, <2>1, <4>1
    <3>. QED  BY <2>1, <3>1 DEF Way
  <2>2. CASE i = Len(path) + 1
    <3>1. CASE path = <<>>
      <4>1. i = 1 /\ t = a
        BY <2>2, <3>1 DEF Way
      <4>. QED  BY <1>2, <1>3, <1>4, <2>2, <4>1
    <3>2. CASE path # <<>>
      <4>1. Len(path) \in 1..Len(path) /\ i # 1 /\ i - 1 = Len(path)
        BY <1>1, <2>2, <3>2
      <4>2. path[Len(path)].toType = t
        BY <3>2 DEF Way
      <4>. QED  BY <1>2, <1>3, <1>4, <2>2, <4>1, <4>2
    <3>. QED  BY <3>1, <3>2
  <2>. QED  BY <1>1, <1>4, <2>1, <2>2
<1>6. more[Len(more)].toType = edge.toType
  BY <1>3, <1>4
<1>. QED  BY <1>1, <1>4, <1>5, <1>6 DEF Way

(* The first edge of a list that leads to a type.                          *)
Hit(edges, to) == SelectInSeq(edges, LAMBDA e : e.toType = to)

(* What is found is an edge to the type, and none is missed.               *)
LEMMA HitIs ==
  ASSUME NEW edges \in Seq(Edges), NEW to
  PROVE  /\ Hit(edges, to) = 0 => \A i \in 1..Len(edges) : edges[i].toType # to
         /\ Hit(edges, to) # 0 => /\ Hit(edges, to) \in 1..Len(edges)
                                  /\ edges[Hit(edges, to)].toType = to
<1>. DEFINE I == {i \in 1..Len(edges) : edges[i].toType = to}
<1>1. Hit(edges, to) = IF I # {} THEN Min(I) ELSE 0
  BY DEF Hit, SelectInSeq
<1>2. CASE I = {}
  BY <1>1, <1>2
<1>3. CASE I # {}
  <2>1. I \in SUBSET Nat /\ Len(edges) \in Nat
    OBVIOUS
  <2>. HIDE DEF I
  <2>2. PICK n \in I : \A m \in I : n <= m
    BY <1>3, <2>1, LeastNumber
  <2>3. Min(I) \in I
    BY <2>2 DEF Min
  <2>. QED  BY <1>1, <1>3, <2>3 DEF I
<1>. QED  BY <1>2, <1>3

(* The nodes of the queue: each is reached by a way that cannot be shorter. *)
Placed(W, adj, a, visited, node) ==
  /\ node \in Nodes /\ node.type \in visited
  /\ Way(adj, node.path, a, node.type)
  /\ node.type \in W[Len(node.path)]
  /\ Len(node.path) > 0 => node.type \notin W[Len(node.path) - 1]

(* The queue is in the order of the distances, which differ by one at most, *)
(* and all that is nearer than its head has been seen.                     *)
Layered(W, st) ==
  /\ \A i, j \in 1..Len(st.queue) : i <= j => Len(st.queue[i].path) <= Len(st.queue[j].path)
  /\ \A i \in 1..Len(st.queue) : Len(st.queue[i].path) <= Len(st.queue[1].path) + 1
  /\ st.queue # <<>> => W[Len(st.queue[1].path)] \subseteq st.visited

(* What has been visited is in the queue, or its neighbours were visited.  *)
Covered(adj, st) ==
  \A t \in st.visited : \/ \E i \in 1..Len(st.queue) : st.queue[i].type = t
                        \/ Neighbours(adj, t) \subseteq st.visited

Good(W, adj, a, b, st) ==
  /\ st \in SearchStates /\ a \in st.visited /\ b \notin st.visited
  /\ \A i \in 1..Len(st.queue) : Placed(W, adj, a, st.visited, st.queue[i])
  /\ Layered(W, st) /\ Covered(adj, st)

(* The path found is shortest, and none is found only if there is none.    *)
Found(W, adj, a, b, path) ==
  IF path = NoPath THEN \A n \in Nat : b \notin W[n]
  ELSE /\ Way(adj, path, a, b) /\ Len(path) > 0
       /\ b \in W[Len(path)] /\ b \notin W[Len(path) - 1]

(* The state in which the search takes the node at the head of the queue.  *)
Taken(st) == [st EXCEPT !.queue = Tail(@)]

(* The rest of the queue is one node shorter, with less left to do.        *)
LEMMA TakenTyped ==
  ASSUME IsFiniteSet(Types), NEW st \in SearchStates, st.queue # <<>>, NEW less, less = Taken(st)
  PROVE  /\ less \in SearchStates /\ less.visited = st.visited
         /\ Len(less.queue) \in Nat /\ Len(st.queue) = Len(less.queue) + 1
         /\ \A i \in 1..Len(less.queue) : less.queue[i] = st.queue[i + 1]
         /\ Head(st.queue) = st.queue[1] /\ st.queue[1] \in Nodes /\ 1 \in 1..Len(st.queue)
         /\ Left(less) < Left(st)
<1>1. st.queue \in Seq(Nodes) /\ st.visited \in SUBSET Types
  BY DEF SearchStates
<1>2. less = [visited |-> st.visited, queue |-> Tail(st.queue)]
  BY DEF SearchStates, Taken
<1>3. /\ Tail(st.queue) \in Seq(Nodes) /\ Len(Tail(st.queue)) = Len(st.queue) - 1
      /\ \A i \in 1..Len(Tail(st.queue)) : Tail(st.queue)[i] = st.queue[i + 1]
      /\ Len(st.queue) \in Nat \ {0}
  BY <1>1
<1>4. less \in SearchStates
  BY <1>1, <1>2, <1>3 DEF SearchStates
<1>5. Left(less) < Left(st)
  <2>1. Cardinality(Types \ st.visited) \in Nat
    BY LeftTyped
  <2>. QED  BY <1>2, <1>3, <2>1 DEF Left
<1>6. Head(st.queue) = st.queue[1] /\ st.queue[1] \in Nodes /\ 1 \in 1..Len(st.queue)
  BY <1>1, <1>3
<1>. QED  BY <1>2, <1>3, <1>4, <1>5, <1>6

(* The neighbours of a type are the ends of the edges in its list.         *)
LEMMA NeighbourIs ==
  ASSUME NEW adj \in Graphs, NEW t \in Types
  PROVE  /\ adj[t] \in Seq(Edges) /\ Len(adj[t]) \in Nat
         /\ Neighbours(adj, t) = {adj[t][i].toType : i \in 1..Len(adj[t])}
         /\ \A i \in 1..Len(adj[t]) : adj[t][i] \in ToSet(adj[t]) /\ adj[t][i] \in Edges
                                      /\ adj[t][i].toType \in Types
         /\ Neighbours(adj, t) \subseteq Types
<1>1. adj[t] \in Seq(Edges)
  BY DEF Graphs
<1>2. DOMAIN adj[t] = 1..Len(adj[t]) /\ Len(adj[t]) \in Nat
  BY <1>1
<1>3. \A i \in 1..Len(adj[t]) : adj[t][i] \in Edges /\ adj[t][i].toType \in Types
  <2>1. PICK edges : edges = adj[t]
    OBVIOUS
  <2>2. \A i \in 1..Len(edges) : edges[i] \in Edges
    BY <1>1, <2>1
  <2>. QED  BY <2>1, <2>2 DEF Edges
<1>4. Neighbours(adj, t) = {adj[t][i].toType : i \in 1..Len(adj[t])}
  BY <1>2 DEF Neighbours, ToSet
<1>. QED  BY <1>1, <1>2, <1>3, <1>4 DEF ToSet

(* A level has the one before it and the neighbours of that, no others.    *)
LEMMA LevelsGrow ==
  ASSUME NEW adj \in Graphs, NEW a \in Types, NEW W, Levels(W, adj, a), NEW n \in Nat
  PROVE  /\ W[n] \subseteq W[n + 1] /\ W[n] \subseteq Types
         /\ \A t \in W[n] : Neighbours(adj, t) \subseteq W[n + 1]
         /\ \A b \in W[n + 1] : b \in W[n] \/ \E t \in W[n] : b \in Neighbours(adj, t)
  BY DEF Levels

(* One turn of the search that does not find what it looks for.            *)
LEMMA GoodStep ==
  ASSUME IsFiniteSet(Types), NEW adj \in Graphs, NEW a \in Types, NEW b \in Types,
         NEW W, Levels(W, adj, a), NEW st, Good(W, adj, a, b, st), st.queue # <<>>,
         NEW node, node = Head(st.queue), Hit(adj[node.type], b) = 0,
         NEW next, next = Enqueue(Taken(st), node, adj[node.type])
  PROVE  Good(W, adj, a, b, next) /\ Left(next) < Left(st)
<1>1. PICK less : less = Taken(st)
  OBVIOUS
<1>2. PICK edges : edges = adj[node.type]
  OBVIOUS
<1>3. PICK d : d = Len(node.path)
  OBVIOUS
<1>4. st \in SearchStates
  BY DEF Good
<1>5. /\ less \in SearchStates /\ less.visited = st.visited
      /\ Len(less.queue) \in Nat /\ Len(st.queue) = Len(less.queue) + 1
      /\ \A i \in 1..Len(less.queue) : less.queue[i] = st.queue[i + 1]
      /\ node = st.queue[1] /\ node \in Nodes /\ 1 \in 1..Len(st.queue)
      /\ Left(less) < Left(st)
  BY <1>1, <1>4, TakenTyped
<1>6. /\ node.type \in Types /\ node.path \in Seq(Steps) /\ d \in Nat
  BY <1>3, <1>5 DEF Nodes
<1>7. /\ edges \in Seq(Edges) /\ Len(edges) \in Nat
      /\ Neighbours(adj, node.type) = {edges[i].toType : i \in 1..Len(edges)}
      /\ \A i \in 1..Len(edges) : edges[i] \in ToSet(adj[node.type]) /\ edges[i] \in Edges
                                  /\ edges[i].toType \in Types
  BY <1>2, <1>6, NeighbourIs
<1>8. Grown(less, next, node, edges, Len(edges))
  BY <1>1, <1>2, <1>5, <1>7, EnqueueGrows
<1>9. Placed(W, adj, a, st.visited, node)
  BY <1>5 DEF Good
<1>10. /\ next \in SearchStates /\ Len(next.queue) \in Nat
       /\ next.visited = st.visited \cup Neighbours(adj, node.type)
       /\ Len(less.queue) <= Len(next.queue)
       /\ \A i \in 1..Len(less.queue) : next.queue[i] = st.queue[i + 1] /\ i + 1 \in 1..Len(st.queue)
       /\ Left(next) <= Left(less)
  <2>1. next \in SearchStates /\ Left(next) <= Left(less) /\ Len(less.queue) <= Len(next.queue)
        /\ next.visited = less.visited \cup {edges[i].toType : i \in 1..Len(edges)}
        /\ \A i \in 1..Len(less.queue) : next.queue[i] = less.queue[i]
    BY <1>8 DEF Grown
  <2>2. Len(next.queue) \in Nat
    BY <2>1, LeftTyped
  <2>3. \A i \in 1..Len(less.queue) : i + 1 \in 1..Len(st.queue)
    BY <1>5
  <2>. QED  BY <1>5, <1>7, <2>1, <2>2, <2>3
<1>11. Left(next) < Left(st)
  <2>1. Left(next) \in Nat /\ Left(less) \in Nat /\ Left(st) \in Nat
    BY <1>4, <1>5, <1>10, LeftTyped
  <2>. QED  BY <1>5, <1>10, <2>1
<1>12. a \in next.visited /\ b \notin next.visited
  <2>1. \A i \in 1..Len(edges) : edges[i].toType # b
    BY <1>2, <1>7, HitIs
  <2>. QED  BY <1>7, <1>10, <2>1 DEF Good
<1>13. W[d] \subseteq st.visited
  BY <1>3, <1>5 DEF Good, Layered
<1>14. ASSUME NEW i \in 1..Len(less.queue)
       PROVE  /\ Placed(W, adj, a, next.visited, next.queue[i])
              /\ d <= Len(next.queue[i].path) /\ Len(next.queue[i].path) <= d + 1
              /\ Len(next.queue[i].path) \in Nat
  <2>1. PICK old : old = next.queue[i]
    OBVIOUS
  <2>2. old = st.queue[i + 1] /\ i + 1 \in 1..Len(st.queue) /\ 1 <= i + 1
    BY <1>10, <2>1
  <2>3. Placed(W, adj, a, st.visited, old)
    BY <2>2 DEF Good
  <2>4. Placed(W, adj, a, next.visited, old)
    BY <1>10, <2>3 DEF Placed
  <2>5. Len(node.path) <= Len(old.path) /\ Len(old.path) <= Len(node.path) + 1
    BY <1>5, <2>2 DEF Good, Layered
  <2>6. Len(old.path) \in Nat
    BY <2>3 DEF Placed, Nodes
  <2>. QED  BY <1>3, <2>1, <2>4, <2>5, <2>6
<1>15. ASSUME NEW i \in 1..Len(next.queue), i > Len(less.queue)
       PROVE  /\ Placed(W, adj, a, next.visited, next.queue[i])
              /\ Len(next.queue[i].path) = d + 1
  <2>1. PICK new : new = next.queue[i]
    OBVIOUS
  <2>2. PICK j \in 1..Len(edges) :
          /\ edges[j].toType \notin st.visited /\ new.type = edges[j].toType
          /\ new.path = Append(node.path, StepOf(node.type, edges[j]))
    <3>1. Joins(less, new, node, edges, Len(edges))
      BY <1>8, <1>15, <2>1 DEF Grown
    <3>. QED  BY <1>5, <3>1 DEF Joins
  <2>3. PICK edge : edge = edges[j]
    OBVIOUS
  <2>4. edge \in ToSet(adj[node.type]) /\ edge.toType \in Neighbours(adj, node.type)
    BY <1>7, <2>3
  <2>5. Way(adj, node.path, a, node.type) /\ node.type \in W[d]
    BY <1>3, <1>9 DEF Placed
  <2>6. Way(adj, new.path, a, edge.toType) /\ Len(new.path) = Len(node.path) + 1
    <3>1. PICK more : more = Append(node.path, StepOf(node.type, edge))
      OBVIOUS
    <3>2. OneFurther(more, node.path, node.type, edge)
      BY <3>1 DEF OneFurther
    <3>3. Way(adj, more, a, edge.toType) /\ Len(more) = Len(node.path) + 1
      BY <1>6, <2>4, <2>5, <3>2, WayGoesOn
    <3>. QED  BY <2>2, <2>3, <3>1, <3>3
  <2>7. Len(new.path) = d + 1
    BY <1>3, <2>6
  <2>8. new.type \in W[d + 1] /\ new.type \notin W[d]
    <3>1. edge.toType \in W[d + 1]
      BY <1>6, <2>4, <2>5, LevelsGrow
    <3>. QED  BY <1>13, <2>2, <2>3, <3>1
  <2>9. new \in Nodes /\ new.type \in next.visited
    <3>1. next.queue \in Seq(Nodes)
      BY <1>10 DEF SearchStates
    <3>2. new \in Nodes
      BY <1>10, <2>1, <3>1
    <3>. QED  BY <1>10, <2>2, <2>3, <2>4, <3>2
  <2>10. (d + 1) - 1 = d
    BY <1>6
  <2>11. Placed(W, adj, a, next.visited, new)
    BY <2>2, <2>3, <2>6, <2>7, <2>8, <2>9, <2>10 DEF Placed
  <2>. QED  BY <2>1, <2>7, <2>11
<1>16. \A i \in 1..Len(next.queue) : Placed(W, adj, a, next.visited, next.queue[i])
  <2>1. \A i \in 1..Len(next.queue) : i \in 1..Len(less.queue) \/ i > Len(less.queue)
    BY <1>5, <1>10
  <2>. QED  BY <1>14, <1>15, <2>1
<1>17. Layered(W, next)
  <2>1. ASSUME NEW i \in 1..Len(next.queue), NEW j \in 1..Len(next.queue), i <= j
        PROVE  Len(next.queue[i].path) <= Len(next.queue[j].path)
    <3>1. CASE j \in 1..Len(less.queue)
      <4>1. i \in 1..Len(less.queue) /\ i + 1 <= j + 1
        BY <1>5, <1>10, <2>1, <3>1
      <4>2. /\ next.queue[i] = st.queue[i + 1] /\ next.queue[j] = st.queue[j + 1]
            /\ i + 1 \in 1..Len(st.queue) /\ j + 1 \in 1..Len(st.queue)
        BY <1>10, <3>1, <4>1
      <4>. QED  BY <4>1, <4>2 DEF Good, Layered
    <3>2. CASE j > Len(less.queue)
      <4>1. Len(next.queue[j].path) = d + 1
        BY <1>15, <3>2
      <4>2. i \in 1..Len(less.queue) \/ i > Len(less.queue)
        BY <1>5, <1>10
      <4>3. Len(next.queue[i].path) <= d + 1
        <5>1. CASE i \in 1..Len(less.queue)
          BY <1>14, <5>1
        <5>2. CASE i > Len(less.queue)
          BY <1>6, <1>15, <5>2
        <5>. QED  BY <4>2, <5>1, <5>2
      <4>. QED  BY <4>1, <4>3
    <3>. QED  BY <1>5, <1>10, <3>1, <3>2
  <2>2. \A i \in 1..Len(next.queue) : /\ d <= Len(next.queue[i].path)
                                      /\ Len(next.queue[i].path) <= d + 1
                                      /\ Len(next.queue[i].path) \in Nat
    <3>1. \A i \in 1..Len(next.queue) : i \in 1..Len(less.queue) \/ i > Len(less.queue)
      BY <1>5, <1>10
    <3>2. d <= d + 1 /\ d + 1 \in Nat
      BY <1>6
    <3>. QED  BY <1>14, <1>15, <3>1, <3>2
  <2>3. \A i \in 1..Len(next.queue) : Len(next.queue[i].path) <= Len(next.queue[1].path) + 1
    <3>1. ASSUME NEW i \in 1..Len(next.queue)
          PROVE  Len(next.queue[i].path) <= Len(next.queue[1].path) + 1
      <4>1. 1 \in 1..Len(next.queue)
        BY <1>10
      <4>. QED  BY <1>6, <2>2, <4>1
    <3>. QED  BY <3>1
  <2>4. ASSUME next.queue # <<>> PROVE W[Len(next.queue[1].path)] \subseteq next.visited
    <3>1. 1 \in 1..Len(next.queue)
      <4>1. next.queue \in Seq(Nodes)
        BY <1>10 DEF SearchStates
      <4>. QED  BY <2>4, <4>1
    <3>2. CASE Len(next.queue[1].path) = d
      BY <1>10, <1>13, <3>2
    <3>3. CASE Len(next.queue[1].path) = d + 1
      <4>1. ASSUME NEW t \in W[d] PROVE Neighbours(adj, t) \subseteq next.visited
        <5>1. t \in st.visited
          BY <1>13
        <5>2. CASE Neighbours(adj, t) \subseteq st.visited
          BY <1>10, <5>2
        <5>3. CASE \E i \in 1..Len(st.queue) : st.queue[i].type = t
          <6>1. PICK i \in 1..Len(st.queue) : st.queue[i].type = t
            BY <5>3
          <6>2. CASE i = 1
            BY <1>5, <1>10, <6>1, <6>2
          <6>3. CASE i # 1
            <7>1. PICK j : j = i - 1
              OBVIOUS
            <7>2. j \in 1..Len(less.queue) /\ j + 1 = i
              BY <1>5, <6>3, <7>1
            <7>3. next.queue[j] = st.queue[i] /\ j \in 1..Len(next.queue) /\ 1 <= j
              BY <1>5, <1>10, <7>2
            <7>4. Len(next.queue[1].path) <= Len(next.queue[j].path)
              BY <2>1, <3>1, <7>3
            <7>5. Len(st.queue[i].path) = d + 1
              BY <1>6, <2>2, <3>3, <7>3, <7>4
            <7>6. Placed(W, adj, a, st.visited, st.queue[i])
              BY <6>1 DEF Good
            <7>7. d + 1 > 0 /\ (d + 1) - 1 = d
              BY <1>6
            <7>8. t \notin W[d]
              BY <6>1, <7>5, <7>6, <7>7 DEF Placed
            <7>. QED  BY <7>8
          <6>. QED  BY <6>2, <6>3
        <5>. QED  BY <5>1, <5>2, <5>3 DEF Good, Covered
      <4>2. \A t \in W[d + 1] : t \in W[d] \/ \E u \in W[d] : t \in Neighbours(adj, u)
        BY <1>6, LevelsGrow
      <4>. QED  BY <1>10, <1>13, <3>3, <4>1, <4>2
    <3>4. PICK len : len = Len(next.queue[1].path)
      OBVIOUS
    <3>5. len \in Nat /\ d <= len /\ len <= d + 1
      BY <2>2, <3>1, <3>4
    <3>6. len = d \/ len = d + 1
      BY <1>6, <3>5
    <3>. QED  BY <3>2, <3>3, <3>4, <3>6
  <2>. QED  BY <2>1, <2>3, <2>4 DEF Layered
<1>18. Covered(adj, next)
  <2>1. ASSUME NEW t \in next.visited
        PROVE  \/ \E i \in 1..Len(next.queue) : next.queue[i].type = t
               \/ Neighbours(adj, t) \subseteq next.visited
    <3>1. CASE t \notin st.visited
      <4>1. t \in next.visited \ less.visited
        BY <1>5, <3>1
      <4>. QED  BY <1>8, <4>1 DEF Grown
    <3>2. CASE Neighbours(adj, t) \subseteq st.visited
      BY <1>10, <3>2
    <3>3. CASE \E i \in 1..Len(st.queue) : st.queue[i].type = t
      <4>1. PICK i \in 1..Len(st.queue) : st.queue[i].type = t
        BY <3>3
      <4>2. CASE i = 1
        BY <1>5, <1>10, <4>1, <4>2
      <4>3. CASE i # 1
        <5>1. PICK j : j = i - 1
          OBVIOUS
        <5>2. j \in 1..Len(less.queue) /\ j + 1 = i
          BY <1>5, <4>3, <5>1
        <5>3. j \in 1..Len(next.queue)
          BY <1>5, <1>10, <5>2
        <5>4. next.queue[j] = st.queue[i]
          BY <1>10, <5>2
        <5>. QED  BY <4>1, <5>3, <5>4
      <4>. QED  BY <4>2, <4>3
    <3>. QED  BY <3>1, <3>2, <3>3 DEF Good, Covered
  <2>. QED  BY <2>1 DEF Covered
<1>. QED  BY <1>10, <1>11, <1>12, <1>16, <1>17, <1>18 DEF Good

(* The search as the function that Search chooses.                         *)
Searches(f, adj, b) ==
  f = [st \in SearchStates |->
         IF st.queue = <<>> THEN NoPath
         ELSE IF Hit(adj[Head(st.queue).type], b) # 0
              THEN Append(Head(st.queue).path,
                          StepOf(Head(st.queue).type,
                                 adj[Head(st.queue).type][Hit(adj[Head(st.queue).type], b)]))
              ELSE f[Enqueue(Taken(st), Head(st.queue), adj[Head(st.queue).type])]]

(* There is such a function, as every turn leaves a state of the search.   *)
LEMMA SearchExists ==
  ASSUME IsFiniteSet(Types), NEW adj \in Graphs, NEW b \in Types
  PROVE  \E f : Searches(f, adj, b)
<1>. DEFINE hit(st) == Hit(adj[Head(st.queue).type], b)
            Done == {st \in SearchStates : st.queue = <<>> \/ hit(st) # 0}
            step == [st \in SearchStates |->
                       IF st \in Done THEN st
                       ELSE Enqueue(Taken(st), Head(st.queue), adj[Head(st.queue).type])]
            out == [st \in SearchStates |->
                      IF st.queue = <<>> THEN NoPath
                      ELSE Append(Head(st.queue).path,
                                  StepOf(Head(st.queue).type, adj[Head(st.queue).type][hit(st)]))]
<1>1. ASSUME NEW st \in SearchStates, st \notin Done
      PROVE  Enqueue(Taken(st), Head(st.queue), adj[Head(st.queue).type]) \in SearchStates
  <2>1. st.queue # <<>>
    BY <1>1
  <2>2. PICK less : less = Taken(st)
    OBVIOUS
  <2>3. PICK node : node = Head(st.queue)
    OBVIOUS
  <2>4. less \in SearchStates /\ node \in Nodes
    BY <2>1, <2>2, <2>3, TakenTyped
  <2>5. adj[node.type] \in Seq(Edges)
    BY <2>4 DEF Nodes, Graphs
  <2>6. Grown(less, Enqueue(less, node, adj[node.type]), node, adj[node.type], Len(adj[node.type]))
    BY <2>4, <2>5, EnqueueGrows
  <2>. QED  BY <2>2, <2>3, <2>6 DEF Grown
<1>2. step \in [SearchStates -> SearchStates] /\ Done \in SUBSET SearchStates
  BY <1>1
<1>3. PICK f : Loop(f, SearchStates, Done, step, out)
  <2>. HIDE DEF step, out, Done
  <2>. QED  BY <1>2, LoopExists
<1>4. ASSUME NEW st \in SearchStates
      PROVE  f[st] = IF st.queue = <<>> THEN NoPath
                     ELSE IF hit(st) # 0
                          THEN Append(Head(st.queue).path,
                                 StepOf(Head(st.queue).type, adj[Head(st.queue).type][hit(st)]))
                          ELSE f[Enqueue(Taken(st), Head(st.queue), adj[Head(st.queue).type])]
  <2>1. f[st] = IF st \in Done THEN out[st] ELSE f[step[st]]
    <3>. HIDE DEF step, out, Done
    <3>. QED  BY <1>3 DEF Loop
  <2>2. st \in Done <=> st.queue = <<>> \/ hit(st) # 0
    OBVIOUS
  <2>3. st \notin Done => step[st] = Enqueue(Taken(st), Head(st.queue), adj[Head(st.queue).type])
    OBVIOUS
  <2>4. out[st] = IF st.queue = <<>> THEN NoPath
                  ELSE Append(Head(st.queue).path,
                         StepOf(Head(st.queue).type, adj[Head(st.queue).type][hit(st)]))
    OBVIOUS
  <2>. HIDE DEF step, out, Done, hit
  <2>. QED  BY <2>1, <2>2, <2>3, <2>4
<1>5. f = [st \in SearchStates |-> f[st]]
  <2>. HIDE DEF step, out, Done
  <2>. QED  BY <1>3 DEF Loop
<1>6. Searches(f, adj, b)
  <2>. HIDE DEF step, out, Done
  <2>. QED  BY <1>4, <1>5 DEF Searches
<1>. QED  BY <1>6

(* What the search gives from a state that is in order is right.           *)
LEMMA SearchGoesRight ==
  ASSUME IsFiniteSet(Types), NEW adj \in Graphs, NEW a \in Types, NEW b \in Types,
         NEW W, Levels(W, adj, a), NEW f, Searches(f, adj, b),
         NEW st, Good(W, adj, a, b, st),
         \A next \in SearchStates :
           Good(W, adj, a, b, next) /\ Left(next) < Left(st) => Found(W, adj, a, b, f[next])
  PROVE  Found(W, adj, a, b, f[st])
<1>1. st \in SearchStates
  BY DEF Good
<1>2. CASE st.queue = <<>>
  <2>1. f[st] = NoPath
    BY <1>1, <1>2 DEF Searches
  <2>2. \A t \in st.visited : Neighbours(adj, t) \subseteq st.visited
    BY <1>2 DEF Good, Covered
  <2>. DEFINE S == {n \in Nat : W[n] \subseteq st.visited}
  <2>3. 0 \in S
    BY DEF Levels, Good
  <2>4. ASSUME NEW n \in S PROVE n + 1 \in S
    BY <2>2, LevelsGrow
  <2>5. S = Nat
    <3>1. S \in SUBSET Nat
      OBVIOUS
    <3>. HIDE DEF S
    <3>. QED  BY <2>3, <2>4, <3>1, Induction
  <2>6. \A n \in Nat : W[n] \subseteq st.visited
    BY <2>5
  <2>. QED  BY <2>1, <2>6 DEF Found, Good
<1>3. CASE st.queue # <<>>
  <2>1. PICK node : node = Head(st.queue)
    OBVIOUS
  <2>2. node = st.queue[1] /\ node \in Nodes /\ 1 \in 1..Len(st.queue)
    BY <1>1, <1>3, <2>1, TakenTyped
  <2>3. node.type \in Types /\ node.path \in Seq(Steps) /\ Len(node.path) \in Nat
    BY <2>2 DEF Nodes
  <2>4. f[st] = IF Hit(adj[node.type], b) # 0
                THEN Append(node.path, StepOf(node.type, adj[node.type][Hit(adj[node.type], b)]))
                ELSE f[Enqueue(Taken(st), node, adj[node.type])]
    BY <1>1, <1>3, <2>1 DEF Searches
  <2>5. CASE Hit(adj[node.type], b) = 0
    <3>1. PICK next : next = Enqueue(Taken(st), node, adj[node.type])
      OBVIOUS
    <3>2. Good(W, adj, a, b, next) /\ Left(next) < Left(st)
      BY <1>3, <2>1, <2>5, <3>1, GoodStep
    <3>3. next \in SearchStates
      BY <3>2 DEF Good
    <3>4. f[st] = f[next]
      BY <2>4, <2>5, <3>1
    <3>. QED  BY <3>2, <3>3, <3>4
  <2>6. CASE Hit(adj[node.type], b) # 0
    <3>1. PICK edge : edge = adj[node.type][Hit(adj[node.type], b)]
      OBVIOUS
    <3>2. /\ edge \in ToSet(adj[node.type]) /\ edge.toType = b
          /\ edge.toType \in Neighbours(adj, node.type)
      <4>1. PICK edges, hit : edges = adj[node.type] /\ hit = Hit(edges, b)
        OBVIOUS
      <4>2. /\ edges \in Seq(Edges)
            /\ Neighbours(adj, node.type) = {edges[i].toType : i \in 1..Len(edges)}
            /\ \A i \in 1..Len(edges) : edges[i] \in ToSet(adj[node.type])
        BY <2>3, <4>1, NeighbourIs
      <4>3. hit \in 1..Len(edges) /\ edges[hit].toType = b
        BY <2>6, <4>1, <4>2, HitIs
      <4>4. edge = edges[hit]
        BY <3>1, <4>1
      <4>. QED  BY <4>2, <4>3, <4>4
    <3>3. PICK more : more = Append(node.path, StepOf(node.type, edge))
      OBVIOUS
    <3>4. f[st] = more
      BY <2>4, <2>6, <3>1, <3>3
    <3>5. Placed(W, adj, a, st.visited, node)
      BY <2>2 DEF Good
    <3>6. Way(adj, node.path, a, node.type) /\ node.type \in W[Len(node.path)]
      BY <3>5 DEF Placed
    <3>7. OneFurther(more, node.path, node.type, edge)
      BY <3>3 DEF OneFurther
    <3>8. Way(adj, more, a, edge.toType) /\ Len(more) = Len(node.path) + 1
      BY <2>3, <3>2, <3>6, <3>7, WayGoesOn
    <3>9. b \in W[Len(node.path) + 1]
      BY <2>3, <3>2, <3>6, LevelsGrow
    <3>10. b \notin W[Len(node.path)]
      BY <1>3, <2>2 DEF Good, Layered
    <3>11. Len(more) > 0 /\ Len(more) - 1 = Len(node.path)
      BY <2>3, <3>8
    <3>12. more # NoPath
      BY <3>8, NoPathAssumption DEF Way
    <3>. QED  BY <3>2, <3>4, <3>8, <3>9, <3>10, <3>11, <3>12 DEF Found
  <2>. QED  BY <2>5, <2>6
<1>. QED  BY <1>2, <1>3

(* getPath's search is right for any two types of any graph.               *)
LEMMA SearchRight ==
  ASSUME IsFiniteSet(Types), NEW adj \in Graphs, NEW a \in Types, NEW b \in Types, a # b,
         NEW W, Levels(W, adj, a)
  PROVE  Found(W, adj, a, b, Search(adj, a, b))
<1>1. PICK start : start = [visited |-> {a}, queue |-> <<[type |-> a, path |-> <<>>]>>]
  OBVIOUS
<1>2. Search(adj, a, b) = (CHOOSE f : Searches(f, adj, b))[start]
  BY <1>1 DEF Search, Searches, Hit, Taken
<1>3. PICK f : Searches(f, adj, b) /\ Search(adj, a, b) = f[start]
  BY <1>2, SearchExists
<1>4. Good(W, adj, a, b, start)
  <2>1. PICK first : first = [type |-> a, path |-> <<>>]
    OBVIOUS
  <2>2. first \in Nodes /\ first.type = a /\ first.path = <<>> /\ Len(first.path) = 0
    BY <2>1 DEF Nodes
  <2>3. /\ start.queue = <<first>> /\ start.visited = {a} /\ start.queue # <<>>
        /\ Len(start.queue) = 1 /\ start.queue[1] = first
        /\ \A i \in 1..Len(start.queue) : i = 1
    BY <1>1, <2>1
  <2>4. start \in SearchStates
    BY <1>1, <2>1, <2>2 DEF SearchStates
  <2>5. Way(adj, first.path, a, a)
    BY <2>2 DEF Way
  <2>6. Placed(W, adj, a, {a}, first)
    BY <2>2, <2>5 DEF Placed, Levels
  <2>7. Layered(W, start)
    <3>1. W[0] = {a}
      BY DEF Levels
    <3>. QED  BY <2>2, <2>3, <3>1 DEF Layered
  <2>8. Covered(adj, start)
    BY <2>2, <2>3 DEF Covered
  <2>. QED  BY <2>3, <2>4, <2>6, <2>7, <2>8 DEF Good
<1>. DEFINE P == {st \in SearchStates : Good(W, adj, a, b, st) => Found(W, adj, a, b, f[st])}
            size == [st \in SearchStates |-> Left(st)]
<1>5. size \in [SearchStates -> Nat] /\ P \in SUBSET SearchStates
  BY LeftTyped
<1>6. ASSUME NEW st \in SearchStates,
             \A next \in SearchStates : size[next] < size[st] => next \in P
      PROVE  st \in P
  <2>. SUFFICES ASSUME Good(W, adj, a, b, st) PROVE Found(W, adj, a, b, f[st])
    OBVIOUS
  <2>1. \A next \in SearchStates :
          Good(W, adj, a, b, next) /\ Left(next) < Left(st) => Found(W, adj, a, b, f[next])
    BY <1>6
  <2>. HIDE DEF P, size
  <2>. QED  BY <1>3, <2>1, SearchGoesRight
<1>7. P = SearchStates
  <2>. HIDE DEF P, size
  <2>1. GoesDown(SearchStates, P, size)
    BY <1>6 DEF GoesDown
  <2>. QED  BY <1>5, <2>1, SizeInduction
<1>8. start \in SearchStates
  BY <1>4 DEF Good
<1>. QED  BY <1>3, <1>4, <1>7, <1>8

-----------------------------------------------------------------------------
(* A lens gives each of its types an edge to the other.                    *)
Gives(lens, t, e) ==
  /\ lens.name = e.lens
  /\ IF e.dir = "forward" THEN lens.from = t /\ lens.to = e.toType
                          ELSE lens.to = t /\ lens.from = e.toType

(* The graph has the edges of these lenses and no others.                  *)
Mirrors(adj, lenses) ==
  /\ adj \in Graphs /\ lenses \in SUBSET Lenses
  /\ \A t \in Types, e \in Edges : e \in ToSet(adj[t]) <=> \E lens \in lenses : Gives(lens, t, e)

(* A list with one more edge at its end.                                   *)
LEMMA OneMoreEdge ==
  ASSUME NEW edges \in Seq(Edges), NEW edge \in Edges
  PROVE  /\ Append(edges, edge) \in Seq(Edges)
         /\ ToSet(Append(edges, edge)) = ToSet(edges) \cup {edge}
<1>1. PICK more : more = Append(edges, edge)
  OBVIOUS
<1>2. /\ more \in Seq(Edges) /\ Len(more) = Len(edges) + 1 /\ Len(edges) \in Nat
      /\ \A i \in 1..Len(edges) : more[i] = edges[i]
      /\ more[Len(edges) + 1] = edge
      /\ DOMAIN more = 1..Len(more) /\ DOMAIN edges = 1..Len(edges)
  BY <1>1
<1>3. ToSet(more) = ToSet(edges) \cup {edge}
  <2>1. ASSUME NEW e \in ToSet(more) PROVE e \in ToSet(edges) \cup {edge}
    BY <1>2 DEF ToSet
  <2>2. ASSUME NEW e \in ToSet(edges) PROVE e \in ToSet(more)
    <3>1. PICK i \in 1..Len(edges) : e = edges[i]
      BY <1>2 DEF ToSet
    <3>2. i \in 1..Len(more) /\ e = more[i]
      BY <1>2, <3>1
    <3>. QED  BY <1>2, <3>2 DEF ToSet
  <2>3. edge \in ToSet(more)
    <3>1. Len(edges) + 1 \in 1..Len(more)
      BY <1>2
    <3>. QED  BY <1>2, <3>1 DEF ToSet
  <2>. QED  BY <2>1, <2>2, <2>3
<1>. QED  BY <1>1, <1>2, <1>3

(* What register makes of the list of a type.                              *)
LEMMA RegisteredEdges ==
  ASSUME NEW adj \in Graphs, NEW lens \in Lenses,
         NEW go, go = [toType |-> lens.to, lens |-> lens.name, dir |-> "forward"],
         NEW back, back = [toType |-> lens.from, lens |-> lens.name, dir |-> "backward"]
  PROVE  /\ go \in Edges /\ back \in Edges
         /\ Register(adj, lens) \in Graphs
         /\ \A t \in Types : \A e \in Edges :
              e \in ToSet(Register(adj, lens)[t]) <=>
                \/ e \in ToSet(adj[t])
                \/ t = lens.from /\ e = go
                \/ t = lens.to /\ e = back
<1>1. lens.from \in Types /\ lens.to \in Types /\ lens.name \in LensNames
  BY DEF Lenses
<1>2. go \in Edges /\ back \in Edges
  BY <1>1 DEF Edges, Directions
<1>3. PICK half : half = [adj EXCEPT ![lens.from] = Append(@, go)]
  OBVIOUS
<1>4. Register(adj, lens) = [half EXCEPT ![lens.to] = Append(@, back)]
  BY <1>3 DEF Register
<1>5. /\ half \in Graphs
      /\ half[lens.from] = Append(adj[lens.from], go)
      /\ \A t \in Types : t # lens.from => half[t] = adj[t]
  <2>1. adj[lens.from] \in Seq(Edges)
    BY <1>1 DEF Graphs
  <2>2. Append(adj[lens.from], go) \in Seq(Edges)
    BY <1>2, <2>1, OneMoreEdge
  <2>. QED  BY <1>1, <1>3, <2>2 DEF Graphs
<1>6. PICK new : new = Register(adj, lens)
  OBVIOUS
<1>7. /\ new \in Graphs
      /\ new[lens.to] = Append(half[lens.to], back)
      /\ \A t \in Types : t # lens.to => new[t] = half[t]
  <2>1. half[lens.to] \in Seq(Edges)
    BY <1>1, <1>5 DEF Graphs
  <2>2. Append(half[lens.to], back) \in Seq(Edges)
    BY <1>2, <2>1, OneMoreEdge
  <2>. QED  BY <1>1, <1>4, <1>5, <1>6, <2>2 DEF Graphs
<1>8. ASSUME NEW t \in Types, NEW e \in Edges
      PROVE  e \in ToSet(half[t]) <=> e \in ToSet(adj[t]) \/ (t = lens.from /\ e = go)
  <2>1. CASE t = lens.from
    <3>1. adj[t] \in Seq(Edges)
      BY DEF Graphs
    <3>2. ToSet(Append(adj[t], go)) = ToSet(adj[t]) \cup {go}
      BY <1>2, <3>1, OneMoreEdge
    <3>. QED  BY <1>5, <2>1, <3>2
  <2>. QED  BY <1>5, <2>1
<1>9. ASSUME NEW t \in Types, NEW e \in Edges
      PROVE  e \in ToSet(new[t]) <=> e \in ToSet(half[t]) \/ (t = lens.to /\ e = back)
  <2>1. CASE t = lens.to
    <3>1. half[t] \in Seq(Edges)
      BY <1>5 DEF Graphs
    <3>2. ToSet(Append(half[t], back)) = ToSet(half[t]) \cup {back}
      BY <1>2, <3>1, OneMoreEdge
    <3>. QED  BY <1>7, <2>1, <3>2
  <2>. QED  BY <1>7, <2>1
<1>. QED  BY <1>2, <1>6, <1>7, <1>8, <1>9

(* register keeps the graph a mirror of the lenses registered.             *)
LEMMA RegisterMirrors ==
  ASSUME NEW adj, NEW lenses, Mirrors(adj, lenses), NEW lens \in Lenses
  PROVE  Mirrors(Register(adj, lens), lenses \cup {lens})
<1>1. PICK go, back : /\ go = [toType |-> lens.to, lens |-> lens.name, dir |-> "forward"]
                      /\ back = [toType |-> lens.from, lens |-> lens.name, dir |-> "backward"]
  OBVIOUS
<1>2. adj \in Graphs
  BY DEF Mirrors
<1>3. PICK new : new = Register(adj, lens)
  OBVIOUS
<1>4. /\ go \in Edges /\ back \in Edges /\ new \in Graphs
      /\ \A t \in Types : \A e \in Edges :
           e \in ToSet(new[t]) <=> \/ e \in ToSet(adj[t])
                                   \/ t = lens.from /\ e = go
                                   \/ t = lens.to /\ e = back
  BY <1>1, <1>2, <1>3, RegisteredEdges
<1>5. ASSUME NEW t \in Types, NEW e \in Edges
      PROVE  Gives(lens, t, e) <=> (t = lens.from /\ e = go) \/ (t = lens.to /\ e = back)
  <2>1. /\ e = [toType |-> e.toType, lens |-> e.lens, dir |-> e.dir]
        /\ e.dir \in {"forward", "backward"}
    BY DEF Edges, Directions
  <2>. QED  BY <1>1, <2>1 DEF Gives
<1>. QED  BY <1>3, <1>4, <1>5 DEF Mirrors

(* The empty graph is that of no lenses.                                   *)
LEMMA EmptyMirrors == Mirrors(EmptyGraph, {})
<1>1. <<>> \in Seq(Edges) /\ ToSet(<<>>) = {}
  BY DEF ToSet
<1>2. EmptyGraph \in Graphs /\ \A t \in Types : EmptyGraph[t] = <<>>
  BY <1>1 DEF EmptyGraph, Graphs
<1>. QED  BY <1>1, <1>2 DEF Mirrors

(* So does registering the lenses of an entity one after the other.        *)
LEMMA GraphOfMirrors ==
  ASSUME NEW lenses \in Seq(Lenses)
  PROVE  Mirrors(GraphOf(lenses), ToSet(lenses))
<1>. DEFINE n == Len(lenses)
            Is(h) == h = [s \in SUBSET (1..n) |->
                            IF s = {} THEN EmptyGraph ELSE Register(h[s \ {Max(s)}], lenses[Max(s)])]
            step == [p \in (1..n) \X Graphs |-> Register(p[2], lenses[p[1]])]
<1>1. n \in Nat /\ DOMAIN lenses = 1..n /\ \A i \in 1..n : lenses[i] \in Lenses
  OBVIOUS
<1>2. step \in [(1..n) \X Graphs -> Graphs]
  <2>1. ASSUME NEW adj \in Graphs, NEW lens \in Lenses PROVE Register(adj, lens) \in Graphs
    BY RegisteredEdges
  <2>. HIDE DEF n
  <2>. QED  BY <1>1, <2>1
<1>3. EmptyGraph \in Graphs
  BY EmptyMirrors DEF Mirrors
<1>4. \E h : Is(h)
  <2>. HIDE DEF step, n
  <2>1. PICK g \in [SUBSET (1..n) -> Graphs] : Folds(g, n, EmptyGraph, step)
    BY <1>1, <1>2, <1>3, FoldExists
  <2>2. ASSUME NEW s \in SUBSET (1..n), s # {}
        PROVE  step[<<Max(s), g[s \ {Max(s)}]>>] = Register(g[s \ {Max(s)}], lenses[Max(s)])
    <3>1. Max(s) \in 1..n
      BY <1>1, <2>2, MaxProperties
    <3>2. <<Max(s), g[s \ {Max(s)}]>> \in (1..n) \X Graphs
      BY <3>1
    <3>. QED  BY <3>2 DEF step
  <2>3. Is(g)
    BY <2>1, <2>2 DEF Folds
  <2>. QED  BY <2>3
<1>5. GraphOf(lenses) = (CHOOSE h : Is(h))[1..n]
  BY <1>1 DEF GraphOf, FoldLeft, MapThenFoldSet, Max
<1>. HIDE DEF Is
<1>6. PICK g : Is(g) /\ GraphOf(lenses) = g[1..n]
  BY <1>4, <1>5
<1>. DEFINE Far(k) == Mirrors(g[1..k], {lenses[i] : i \in 1..k})
            S == {k \in Nat : k <= n => Far(k)}
<1>7. 0 \in S
  <2>1. (1..0) \in SUBSET (1..n) /\ 1..0 = {} /\ {lenses[i] : i \in 1..0} = {}
    OBVIOUS
  <2>2. g[1..0] = EmptyGraph
    BY <1>6, <2>1 DEF Is
  <2>. QED  BY <2>1, <2>2, EmptyMirrors
<1>8. ASSUME NEW k \in S PROVE k + 1 \in S
  <2>. SUFFICES ASSUME k + 1 <= n PROVE Mirrors(g[1..(k + 1)], {lenses[i] : i \in 1..(k + 1)})
    OBVIOUS
  <2>1. k \in Nat /\ k <= n /\ Mirrors(g[1..k], {lenses[i] : i \in 1..k})
    BY <1>1
  <2>. HIDE DEF S, n
  <2>2. PICK j : j = k + 1
    OBVIOUS
  <2>3. j \in Nat \ {0} /\ j - 1 = k /\ j \in 1..n /\ j \in 1..j
    BY <1>1, <2>1, <2>2
  <2>4. (1..j) \in SUBSET (1..n) /\ 1..j # {}
    <3>1. \A i \in 1..j : i \in 1..n
      BY <1>1, <2>3
    <3>. QED  BY <2>3, <3>1
  <2>5. g[1..j] = Register(g[(1..j) \ {Max(1..j)}], lenses[Max(1..j)])
    BY <1>6, <2>4 DEF Is
  <2>6. g[1..j] = Register(g[1..k], lenses[j])
    BY <2>3, <2>5, MaxOfPrefix
  <2>7. Mirrors(g[1..j], {lenses[i] : i \in 1..k} \cup {lenses[j]})
    BY <1>1, <2>1, <2>3, <2>6, RegisterMirrors
  <2>8. {lenses[i] : i \in 1..k} \cup {lenses[j]} = {lenses[i] : i \in 1..j}
    BY <2>1, <2>2
  <2>. QED  BY <2>2, <2>7, <2>8
<1>9. S = Nat
  <2>1. S \in SUBSET Nat
    OBVIOUS
  <2>. HIDE DEF S
  <2>. QED  BY <1>7, <1>8, <2>1, Induction
<1>10. Far(n)
  <2>. HIDE DEF Far
  <2>. QED  BY <1>1, <1>9
<1>. QED  BY <1>1, <1>6, <1>10 DEF ToSet

(* The types within n lenses of each type, by the reference notion.        *)
Within(lenses) == [a \in Types |-> [n \in Nat |-> Reachable(a, lenses, n)]]

(* Every lens is there both ways, and so is every edge.                    *)
LEMMA NeighboursBack ==
  ASSUME NEW adj, NEW L, Mirrors(adj, L), NEW t \in Types
  PROVE  /\ \A u \in Neighbours(adj, t) : u \in Types /\ t \in Neighbours(adj, u)
         /\ \A u : u \in Neighbours(adj, t) <=>
              \E lens \in L : (lens.from = t /\ lens.to = u) \/ (lens.to = t /\ lens.from = u)
<1>1. adj \in Graphs /\ L \in SUBSET Lenses
  BY DEF Mirrors
<1>2. ASSUME NEW v \in Types, NEW lens \in L, NEW u,
             (lens.from = v /\ lens.to = u) \/ (lens.to = v /\ lens.from = u)
      PROVE  u \in Neighbours(adj, v)
  <2>1. lens.from \in Types /\ lens.to \in Types /\ lens.name \in LensNames
    BY <1>1 DEF Lenses
  <2>2. CASE lens.from = v /\ lens.to = u
    <3>1. PICK e : e = [toType |-> u, lens |-> lens.name, dir |-> "forward"]
      OBVIOUS
    <3>2. e \in Edges /\ Gives(lens, v, e)
      BY <2>1, <2>2, <3>1 DEF Edges, Directions, Gives
    <3>3. e \in ToSet(adj[v])
      BY <3>2 DEF Mirrors
    <3>. QED  BY <3>1, <3>3 DEF Neighbours
  <2>3. CASE lens.to = v /\ lens.from = u
    <3>1. PICK e : e = [toType |-> u, lens |-> lens.name, dir |-> "backward"]
      OBVIOUS
    <3>2. e \in Edges /\ Gives(lens, v, e)
      BY <2>1, <2>3, <3>1 DEF Edges, Directions, Gives
    <3>3. e \in ToSet(adj[v])
      BY <3>2 DEF Mirrors
    <3>. QED  BY <3>1, <3>3 DEF Neighbours
  <2>. QED  BY <1>2, <2>2, <2>3
<1>3. ASSUME NEW u \in Neighbours(adj, t)
      PROVE  /\ u \in Types
             /\ \E lens \in L : (lens.from = t /\ lens.to = u) \/ (lens.to = t /\ lens.from = u)
  <2>1. PICK e \in ToSet(adj[t]) : u = e.toType
    BY DEF Neighbours
  <2>2. e \in Edges
    <3>1. adj[t] \in Seq(Edges)
      BY <1>1 DEF Graphs
    <3>. QED  BY <3>1 DEF ToSet
  <2>3. PICK lens \in L : Gives(lens, t, e)
    BY <2>2 DEF Mirrors
  <2>. QED  BY <2>1, <2>2, <2>3 DEF Gives, Edges
<1>4. ASSUME NEW u \in Neighbours(adj, t) PROVE t \in Neighbours(adj, u)
  BY <1>2, <1>3
<1>. QED  BY <1>2, <1>3, <1>4

(* The types within n lenses are those that n turns along the edges reach. *)
LEMMA WithinLevels ==
  ASSUME NEW adj, NEW lenses \in Seq(Lenses), Mirrors(adj, ToSet(lenses)), NEW a \in Types
  PROVE  Levels(Within(lenses)[a], adj, a)
<1>. DEFINE L == ToSet(lenses)
            Near(S) == UNION {{l.from, l.to} : l \in {m \in L : {m.from, m.to} \cap S # {}}}
            step == [S \in SUBSET Types |-> S \cup Near(S)]
<1>1. L \in SUBSET Lenses /\ \A l \in L : l.from \in Types /\ l.to \in Types
  BY DEF Mirrors, Lenses
<1>2. \A S \in SUBSET Types : Near(S) \subseteq Types
  BY <1>1
<1>3. step \in [SUBSET Types -> SUBSET Types] /\ {a} \in SUBSET Types
  <2>. HIDE DEF Near
  <2>. QED  BY <1>2
<1>4. \E f \in [Nat -> SUBSET Types] : Iteration(f, {a}, step)
  <2>. HIDE DEF step
  <2>. QED  BY <1>3, IterationExists
<1>. DEFINE Is(f) == f = [n \in Nat |-> IF n = 0 THEN {a} ELSE f[n - 1] \cup Near(f[n - 1])]
<1>5. \A n : Reachable(a, lenses, n) = (CHOOSE f : Is(f))[n]
  BY DEF Reachable
<1>6. PICK f \in [Nat -> SUBSET Types] : Is(f)
  <2>. HIDE DEF step
  <2>1. PICK f \in [Nat -> SUBSET Types] : Iteration(f, {a}, step)
    BY <1>4
  <2>2. \A n \in Nat : f[n] = IF n = 0 THEN {a} ELSE step[f[n - 1]]
    BY <2>1 DEF Iteration
  <2>3. \A n \in Nat : f[n] = IF n = 0 THEN {a} ELSE f[n - 1] \cup Near(f[n - 1])
    <3>1. ASSUME NEW n \in Nat, n # 0 PROVE step[f[n - 1]] = f[n - 1] \cup Near(f[n - 1])
      <4>1. f[n - 1] \in SUBSET Types
        BY <3>1
      <4>. HIDE DEF Near
      <4>. QED  BY <4>1 DEF step
    <3>. HIDE DEF Near
    <3>. QED  BY <2>2, <3>1
  <2>4. Is(f)
    <3>. HIDE DEF Near
    <3>. QED  BY <2>3
  <2>. QED  BY <2>4
<1>7. PICK W : Is(W) /\ \A n : Reachable(a, lenses, n) = W[n]
  <2>. HIDE DEF Is
  <2>. QED  BY <1>5, <1>6
<1>8. /\ W[0] = {a}
      /\ \A n \in Nat : W[n + 1] = W[n] \cup Near(W[n])
  <2>. HIDE DEF Near
  <2>1. \A n \in Nat : W[n] = IF n = 0 THEN {a} ELSE W[n - 1] \cup Near(W[n - 1])
    BY <1>7
  <2>2. \A n \in Nat : n + 1 \in Nat /\ n + 1 # 0 /\ (n + 1) - 1 = n
    OBVIOUS
  <2>. QED  BY <2>1, <2>2
<1>9. ASSUME NEW S \in SUBSET Types
      PROVE  S \cup Near(S) = S \cup UNION {Neighbours(adj, t) : t \in S}
  <2>1. ASSUME NEW x \in Near(S) PROVE x \in S \cup UNION {Neighbours(adj, t) : t \in S}
    <3>1. PICK l \in L : {l.from, l.to} \cap S # {} /\ x \in {l.from, l.to}
      OBVIOUS
    <3>2. l.from \in S \/ l.to \in S
      BY <3>1
    <3>3. l.from \in S => l.to \in Neighbours(adj, l.from)
      BY <1>1, NeighboursBack
    <3>4. l.to \in S => l.from \in Neighbours(adj, l.to)
      BY <1>1, NeighboursBack
    <3>. HIDE DEF L
    <3>. QED  BY <3>1, <3>2, <3>3, <3>4
  <2>2. ASSUME NEW t \in S, NEW x \in Neighbours(adj, t) PROVE x \in Near(S)
    <3>1. PICK l \in L : (l.from = t /\ l.to = x) \/ (l.to = t /\ l.from = x)
      BY NeighboursBack
    <3>2. l \in {m \in L : {m.from, m.to} \cap S # {}} /\ x \in {l.from, l.to}
      BY <3>1
    <3>. QED  BY <3>2
  <2>. HIDE DEF Near
  <2>. QED  BY <2>1, <2>2
<1>10. ASSUME NEW S \in SUBSET Types PROVE S \cup Near(S) \in SUBSET Types
  <2>. HIDE DEF Near
  <2>. QED  BY <1>2
<1>11. \A n \in Nat : W[n] \in SUBSET Types
  <2>. DEFINE T == {n \in Nat : W[n] \in SUBSET Types}
  <2>. HIDE DEF Near
  <2>1. 0 \in T
    BY <1>8
  <2>2. ASSUME NEW n \in T PROVE n + 1 \in T
    BY <1>8, <1>10
  <2>3. T \in SUBSET Nat
    OBVIOUS
  <2>4. T = Nat
    <3>. HIDE DEF T
    <3>. QED  BY <2>1, <2>2, <2>3, Induction
  <2>. QED  BY <2>4
<1>12. PICK V : V = Within(lenses)[a]
  OBVIOUS
<1>13. V = [n \in Nat |-> W[n]]
  BY <1>7, <1>12 DEF Within
<1>14. /\ V \in [Nat -> SUBSET Types] /\ \A n \in Nat : V[n] = W[n]
  BY <1>11, <1>13
<1>15. \A n \in Nat : V[n + 1] = V[n] \cup UNION {Neighbours(adj, t) : t \in V[n]}
  <2>. SUFFICES ASSUME NEW n \in Nat
                PROVE  V[n + 1] = V[n] \cup UNION {Neighbours(adj, t) : t \in V[n]}
    OBVIOUS
  <2>1. PICK S : S = W[n]
    OBVIOUS
  <2>. HIDE DEF Near
  <2>2. W[n + 1] = S \cup UNION {Neighbours(adj, t) : t \in S}
    BY <1>8, <1>9, <1>11, <2>1
  <2>3. V[n] = S /\ V[n + 1] = W[n + 1]
    BY <1>14, <2>1
  <2>. QED  BY <2>2, <2>3
<1>. HIDE DEF Near
<1>. QED  BY <1>8, <1>12, <1>14, <1>15 DEF Levels

(* What is within n lenses is within more.                                 *)
LEMMA LevelsNested ==
  ASSUME NEW adj \in Graphs, NEW a \in Types, NEW W, Levels(W, adj, a),
         NEW m \in Nat, NEW n \in Nat, m <= n
  PROVE  W[m] \subseteq W[n]
<1>. DEFINE S == {k \in Nat : W[m] \subseteq W[m + k]}
<1>1. 0 \in S
  BY DEF Levels
<1>2. ASSUME NEW k \in S PROVE k + 1 \in S
  <2>1. k \in Nat /\ m + k \in Nat /\ m + (k + 1) = (m + k) + 1 /\ W[m] \subseteq W[m + k]
    OBVIOUS
  <2>2. W[m + k] \subseteq W[(m + k) + 1]
    BY <2>1, LevelsGrow
  <2>. QED  BY <2>1, <2>2
<1>3. S = Nat
  <2>1. S \in SUBSET Nat
    OBVIOUS
  <2>. HIDE DEF S
  <2>. QED  BY <1>1, <1>2, <2>1, Induction
<1>4. n - m \in S /\ m + (n - m) = n
  <2>. HIDE DEF S
  <2>. QED  BY <1>3
<1>. QED  BY <1>4

(* The levels of every type.                                               *)
AllLevels(V, adj) == \A a \in Types : Levels(V[a], adj, a)

(* A first edge may be put before a way as well as a last one behind it.   *)
LEMMA OneBefore ==
  ASSUME NEW adj \in Graphs, NEW V, AllLevels(V, adj), NEW n \in Nat, NEW a \in Types,
         NEW t \in Types, t \in Neighbours(adj, a)
  PROVE  V[t][n] \subseteq V[a][n + 1]
<1>. DEFINE S == {k \in Nat : V[t][k] \subseteq V[a][k + 1]}
<1>1. Levels(V[t], adj, t) /\ Levels(V[a], adj, a)
  BY DEF AllLevels
<1>2. 0 \in S
  <2>1. V[t][0] = {t} /\ a \in V[a][0]
    BY <1>1 DEF Levels
  <2>2. t \in V[a][0 + 1]
    BY <1>1, <2>1, LevelsGrow
  <2>. QED  BY <2>1, <2>2
<1>3. ASSUME NEW k \in S PROVE k + 1 \in S
  <2>. SUFFICES ASSUME NEW b \in V[t][k + 1] PROVE b \in V[a][(k + 1) + 1]
    OBVIOUS
  <2>1. k \in Nat /\ k + 1 \in Nat /\ V[t][k] \subseteq V[a][k + 1]
    OBVIOUS
  <2>2. b \in V[t][k] \/ \E u \in V[t][k] : b \in Neighbours(adj, u)
    BY <1>1, <2>1, LevelsGrow
  <2>3. /\ V[a][k + 1] \subseteq V[a][(k + 1) + 1]
        /\ \A u \in V[a][k + 1] : Neighbours(adj, u) \subseteq V[a][(k + 1) + 1]
    BY <1>1, <2>1, LevelsGrow
  <2>. QED  BY <2>1, <2>2, <2>3
<1>4. S = Nat
  <2>1. S \in SUBSET Nat
    OBVIOUS
  <2>. HIDE DEF S
  <2>. QED  BY <1>2, <1>3, <2>1, Induction
<1>. QED  BY <1>4

(* One type is as near to another as the other to it.                      *)
LEMMA NearBothWays ==
  ASSUME NEW adj, NEW L, Mirrors(adj, L), NEW V, AllLevels(V, adj), NEW n \in Nat,
         NEW a \in Types, NEW b \in V[a][n]
  PROVE  b \in Types /\ a \in V[b][n]
<1>. DEFINE S == {k \in Nat : \A d \in V[a][k] : a \in V[d][k]}
<1>1. adj \in Graphs /\ \A t \in Types : Levels(V[t], adj, t)
  BY DEF AllLevels, Mirrors
<1>2. 0 \in S
  BY <1>1 DEF Levels
<1>3. ASSUME NEW k \in S PROVE k + 1 \in S
  <2>. SUFFICES ASSUME NEW d \in V[a][k + 1] PROVE a \in V[d][k + 1]
    OBVIOUS
  <2>1. k \in Nat /\ \A u \in V[a][k] : a \in V[u][k]
    OBVIOUS
  <2>2. d \in V[a][k] \/ \E u \in V[a][k] : d \in Neighbours(adj, u)
    BY <1>1, <2>1, LevelsGrow
  <2>3. V[a][k + 1] \subseteq Types /\ V[a][k] \subseteq Types
    BY <1>1, <2>1, LevelsGrow
  <2>4. CASE d \in V[a][k]
    BY <1>1, <2>1, <2>3, <2>4, LevelsGrow
  <2>5. CASE \E u \in V[a][k] : d \in Neighbours(adj, u)
    <3>1. PICK u \in V[a][k] : d \in Neighbours(adj, u)
      BY <2>5
    <3>2. u \in Types /\ d \in Types /\ a \in V[u][k] /\ u \in Neighbours(adj, d)
      BY <2>1, <2>3, <3>1, NeighboursBack
    <3>3. V[u][k] \subseteq V[d][k + 1]
      BY <1>1, <2>1, <3>2, OneBefore
    <3>. QED  BY <3>2, <3>3
  <2>. QED  BY <2>2, <2>4, <2>5
<1>4. S = Nat
  <2>1. S \in SUBSET Nat
    OBVIOUS
  <2>. HIDE DEF S
  <2>. QED  BY <1>2, <1>3, <2>1, Induction
<1>5. V[a][n] \subseteq Types
  BY <1>1, LevelsGrow
<1>. QED  BY <1>4, <1>5

(* The closure of getConnectedTypes ends with all that is reached.         *)
Wider(adj, S) == S \cup UNION {Neighbours(adj, v) : v \in S}

Grows(f, adj) ==
  f = [S \in SUBSET Types |-> IF Wider(adj, S) = S THEN S ELSE f[Wider(adj, S)]]

(* There is such a function, as types have types for neighbours.           *)
LEMMA ClosureExists ==
  ASSUME NEW adj \in Graphs
  PROVE  \E f : Grows(f, adj)
<1>. DEFINE Done == {S \in SUBSET Types : Wider(adj, S) = S}
            step == [S \in SUBSET Types |-> Wider(adj, S)]
            out == [S \in SUBSET Types |-> S]
<1>1. \A S \in SUBSET Types : Wider(adj, S) \in SUBSET Types
  BY NeighbourIs DEF Wider
<1>2. step \in [SUBSET Types -> SUBSET Types] /\ Done \in SUBSET (SUBSET Types)
  BY <1>1
<1>3. PICK f : Loop(f, SUBSET Types, Done, step, out)
  <2>. HIDE DEF step, out, Done
  <2>. QED  BY <1>2, LoopExists
<1>4. f = [S \in SUBSET Types |-> IF S \in Done THEN out[S] ELSE f[step[S]]]
  BY <1>3 DEF Loop
<1>5. ASSUME NEW S \in SUBSET Types
      PROVE  f[S] = IF Wider(adj, S) = S THEN S ELSE f[Wider(adj, S)]
  <2>1. S \in Done <=> Wider(adj, S) = S
    OBVIOUS
  <2>2. step[S] = Wider(adj, S) /\ out[S] = S
    OBVIOUS
  <2>. HIDE DEF step, out, Done
  <2>. QED  BY <1>4, <2>1, <2>2
<1>6. f = [S \in SUBSET Types |-> f[S]]
  <2>. HIDE DEF step, out, Done
  <2>. QED  BY <1>4
<1>. QED  BY <1>5, <1>6 DEF Grows

(* It gives the types of all levels.                                       *)
LEMMA ConnectedAre ==
  ASSUME IsFiniteSet(Types), NEW adj \in Graphs, NEW a \in Types, NEW W, Levels(W, adj, a)
  PROVE  \A b : b \in ConnectedTypes(adj, a) <=> \E n \in Nat : b \in W[n]
<1>1. ConnectedTypes(adj, a) = (CHOOSE f : Grows(f, adj))[{a}]
  BY DEF ConnectedTypes, Grows, Wider
<1>2. PICK f : Grows(f, adj) /\ ConnectedTypes(adj, a) = f[{a}]
  BY <1>1, ClosureExists
<1>. DEFINE Right(S) == \A b : b \in f[S] <=> \E n \in Nat : b \in W[n]
            P == {S \in SUBSET Types : (\E n \in Nat : S = W[n]) => Right(S)}
            size == [S \in SUBSET Types |-> Cardinality(Types \ S)]
<1>3. size \in [SUBSET Types -> Nat] /\ P \in SUBSET (SUBSET Types)
  <2>1. \A S \in SUBSET Types : Cardinality(Types \ S) \in Nat
    BY FS_Subset, FS_CardinalityType
  <2>. QED  BY <2>1
<1>4. ASSUME NEW S \in SUBSET Types,
             \A T \in SUBSET Types : size[T] < size[S] => T \in P
      PROVE  S \in P
  <2>. SUFFICES ASSUME NEW n \in Nat, S = W[n] PROVE Right(S)
    <3>. HIDE DEF Right
    <3>. QED  OBVIOUS
  <2>1. W[n + 1] = Wider(adj, S) /\ W[n + 1] \in SUBSET Types /\ n + 1 \in Nat
    BY DEF Levels, Wider
  <2>2. f[S] = IF W[n + 1] = S THEN S ELSE f[W[n + 1]]
    BY <1>2, <2>1 DEF Grows
  <2>3. CASE W[n + 1] = S
    <3>. DEFINE N == {k \in Nat : W[k] \subseteq S}
    <3>1. \A t \in S : Neighbours(adj, t) \subseteq S
      BY <2>3, LevelsGrow
    <3>2. 0 \in N
      BY LevelsNested
    <3>3. ASSUME NEW k \in N PROVE k + 1 \in N
      BY <3>1, LevelsGrow
    <3>4. N = Nat
      <4>1. N \in SUBSET Nat
        OBVIOUS
      <4>. HIDE DEF N
      <4>. QED  BY <3>2, <3>3, <4>1, Induction
    <3>. QED  BY <2>2, <2>3, <3>4
  <2>4. CASE W[n + 1] # S
    <3>1. S \subseteq W[n + 1]
      BY LevelsGrow
    <3>2. PICK t \in W[n + 1] : t \notin S
      BY <2>4, <3>1
    <3>3. Cardinality(Types \ W[n + 1]) < Cardinality(Types \ S)
      <4>1. IsFiniteSet(Types \ S)
        BY FS_Subset
      <4>2. (Types \ W[n + 1]) \in SUBSET (Types \ S) /\ Types \ W[n + 1] # Types \ S
        BY <2>1, <3>1, <3>2
      <4>3. /\ Cardinality(Types \ W[n + 1]) <= Cardinality(Types \ S)
            /\ Cardinality(Types \ W[n + 1]) # Cardinality(Types \ S)
        <5>1. PICK big, small : big = Types \ S /\ small = Types \ W[n + 1]
          OBVIOUS
        <5>2. IsFiniteSet(big) /\ small \in SUBSET big /\ small # big
          BY <4>1, <4>2, <5>1
        <5>3. Cardinality(small) <= Cardinality(big) /\ Cardinality(small) # Cardinality(big)
          BY <5>2, FS_Subset
        <5>. QED  BY <5>1, <5>3
      <4>4. Cardinality(Types \ W[n + 1]) \in Nat /\ Cardinality(Types \ S) \in Nat
        BY <1>3, <2>1
      <4>. QED  BY <4>3, <4>4
    <3>4. W[n + 1] \in P
      <4>1. size[W[n + 1]] < size[S]
        BY <2>1, <3>3
      <4>. HIDE DEF P, size
      <4>. QED  BY <1>4, <2>1, <4>1
    <3>5. Right(W[n + 1])
      <4>. HIDE DEF Right
      <4>. QED  BY <2>1, <3>4
    <3>. QED  BY <2>2, <2>4, <3>5
  <2>. HIDE DEF Right
  <2>. QED  BY <2>3, <2>4
<1>5. P = SUBSET Types
  <2>. HIDE DEF P, size
  <2>1. GoesDown(SUBSET Types, P, size)
    BY <1>4 DEF GoesDown
  <2>. QED  BY <1>3, <2>1, SizeInduction
<1>6. Right({a})
  <2>1. {a} \in SUBSET Types /\ {a} = W[0]
    BY DEF Levels
  <2>. HIDE DEF Right
  <2>. QED  BY <1>5, <2>1
<1>. QED  BY <1>2, <1>6

(* PathBetween, for any two types.                                         *)
LEMMA PathIs ==
  ASSUME IsFiniteSet(Types), NEW adj \in Graphs, NEW a \in Types, NEW b \in Types,
         NEW W, Levels(W, adj, a), NEW path, path = PathBetween(adj, a, b)
  PROVE  /\ path = NoPath <=> \A n \in Nat : b \notin W[n]
         /\ path # NoPath => /\ Way(adj, path, a, b) /\ Len(path) \in Nat /\ b \in W[Len(path)]
                             /\ Len(path) > 0 => b \notin W[Len(path) - 1]
<1>1. CASE a = b
  <2>1. path = <<>> /\ path \in Seq(Steps) /\ Len(path) = 0
    BY <1>1 DEF PathBetween
  <2>2. path # NoPath /\ b \in W[0]
    BY <1>1, <2>1, NoPathAssumption DEF Levels
  <2>3. Way(adj, path, a, b)
    <3>1. \A i \in 1..Len(path) : FALSE
      BY <2>1
    <3>. QED  BY <1>1, <2>1, <3>1 DEF Way
  <2>. QED  BY <2>1, <2>2, <2>3
<1>2. CASE a # b
  <2>1. Found(W, adj, a, b, path)
    BY <1>2, SearchRight DEF PathBetween
  <2>2. Way(adj, path, a, b) => Len(path) \in Nat
    BY DEF Way
  <2>. QED  BY <2>1, <2>2 DEF Found
<1>. QED  BY <1>1, <1>2

(* The graph mirrors the lenses registered so far.                         *)
GraphInv == registered \in Seq(Lenses) /\ Mirrors(adjacency, ToSet(registered))

(* Registering adds the edges of the lens; a lookup changes no edge.       *)
LEMMA GraphStep == GraphInv /\ [GraphNext]_graphVars => GraphInv'
<1>. SUFFICES ASSUME GraphInv, [GraphNext]_graphVars PROVE GraphInv'
  OBVIOUS
<1>1. ASSUME NEW lens \in Lenses, RegisterLens(lens) PROVE GraphInv'
  <2>1. Mirrors(Register(adjacency, lens), ToSet(registered) \cup {lens})
    BY RegisterMirrors DEF GraphInv
  <2>2. ToSet(Append(registered, lens)) = ToSet(registered) \cup {lens}
    <3>1. PICK more : more = Append(registered, lens)
      OBVIOUS
    <3>2. /\ Len(more) = Len(registered) + 1 /\ Len(registered) \in Nat
          /\ DOMAIN more = 1..(Len(registered) + 1) /\ DOMAIN registered = 1..Len(registered)
          /\ \A i \in 1..Len(registered) : more[i] = registered[i]
          /\ more[Len(registered) + 1] = lens
      BY <3>1 DEF GraphInv
    <3>3. \A i \in 1..(Len(registered) + 1) : i \in 1..Len(registered) \/ i = Len(registered) + 1
      BY <3>2
    <3>4. /\ Len(registered) + 1 \in 1..(Len(registered) + 1)
          /\ 1..Len(registered) \subseteq 1..(Len(registered) + 1)
      BY <3>2
    <3>5. ToSet(more) \subseteq ToSet(registered) \cup {lens}
      BY <3>2, <3>3 DEF ToSet
    <3>6. ToSet(registered) \subseteq ToSet(more) /\ lens \in ToSet(more)
      BY <3>2, <3>4 DEF ToSet
    <3>. QED  BY <3>1, <3>5, <3>6
  <2>3. adjacency' = Register(adjacency, lens) /\ registered' = Append(registered, lens)
    BY <1>1 DEF RegisterLens
  <2>4. registered' \in Seq(Lenses)
    BY <2>3 DEF GraphInv
  <2>. QED  BY <2>1, <2>2, <2>3, <2>4 DEF GraphInv
<1>2. ASSUME UNCHANGED <<adjacency, registered>> PROVE GraphInv'
  BY <1>2 DEF GraphInv
<1>3. ASSUME NEW from \in Types, NEW to \in Types,
             GetIdentity(from) \/ GetCached(from, to) \/ GetSearched(from, to)
      PROVE  GraphInv'
  BY <1>2, <1>3 DEF GetIdentity, GetCached, GetSearched
<1>4. CASE UNCHANGED graphVars
  BY <1>2, <1>4 DEF graphVars
<1>. QED  BY <1>1, <1>3, <1>4 DEF GraphNext

(* So the graph mirrors the lenses in every state.                         *)
LEMMA GraphMirrors == GraphSpec => []GraphInv
<1>1. GraphInit => GraphInv
  <2>1. <<>> \in Seq(Lenses) /\ ToSet(<<>>) = {}
    BY DEF ToSet
  <2>. QED  BY <2>1, EmptyMirrors DEF GraphInit, GraphInv
<1>. QED  BY <1>1, GraphStep, PTL DEF GraphSpec

(* getPath (lens-graph.ts:89) finds a shortest chain of the lenses          *)
(* registered, and answers null only if there is none: for finitely many   *)
(* types, any number of lenses, parallel and self-inverse ones included,   *)
(* and any order of registrations and lookups.                             *)
THEOREM PathsAreShortest == ASSUME IsFiniteSet(Types) PROVE GraphSpec => []ShortestPaths
<1>1. ASSUME GraphInv PROVE ShortestPaths
  <2>. SUFFICES ASSUME NEW from \in Types, NEW to \in Types,
                       NEW path, path = PathBetween(adjacency, from, to)
                PROVE  IF path = NoPath
                       THEN to \notin Reachable(from, registered, Cardinality(Types))
                       ELSE /\ Chain(path, from, to)
                            /\ Len(path) > 0 => to \notin Reachable(from, registered, Len(path) - 1)
    BY DEF ShortestPaths
  <2>1. PICK W : W = Within(registered)[from]
    OBVIOUS
  <2>2. Levels(W, adjacency, from) /\ adjacency \in Graphs
    BY <1>1, <2>1, WithinLevels DEF GraphInv, Mirrors
  <2>3. \A n \in Nat : Reachable(from, registered, n) = W[n]
    BY <2>1 DEF Within
  <2>4. /\ path = NoPath => \A n \in Nat : to \notin W[n]
        /\ path # NoPath => /\ Way(adjacency, path, from, to) /\ Len(path) \in Nat
                            /\ Len(path) > 0 => to \notin W[Len(path) - 1]
    BY <2>2, PathIs
  <2>5. CASE path = NoPath
    <3>1. Cardinality(Types) \in Nat
      BY FS_CardinalityType
    <3>. QED  BY <2>3, <2>4, <2>5, <3>1
  <2>6. CASE path # NoPath
    <3>1. Way(adjacency, path, from, to) /\ Len(path) \in Nat
      BY <2>4, <2>6
    <3>2. ASSUME NEW i \in 1..Len(path)
          PROVE  \E l \in ToSet(registered) :
                   /\ l.name = path[i].lens
                   /\ IF path[i].dir = "forward"
                      THEN path[i].fromType = l.from /\ path[i].toType = l.to
                      ELSE path[i].fromType = l.to /\ path[i].toType = l.from
      <4>1. PICK t : t = path[i].fromType
        OBVIOUS
      <4>2. t \in Types
        <5>1. path[i] \in Steps
          BY <3>1 DEF Way
        <5>. QED  BY <4>1, <5>1 DEF Steps
      <4>3. PICK e \in ToSet(adjacency[t]) : path[i] = StepOf(t, e)
        BY <3>1, <4>1 DEF Way
      <4>4. e \in Edges
        <5>1. adjacency[t] \in Seq(Edges)
          BY <2>2, <4>2 DEF Graphs
        <5>. QED  BY <5>1 DEF ToSet
      <4>5. PICK l \in ToSet(registered) : Gives(l, t, e)
        BY <1>1, <4>2, <4>4 DEF GraphInv, Mirrors
      <4>6. path[i].lens = e.lens /\ path[i].dir = e.dir /\ path[i].toType = e.toType
        BY <4>3 DEF StepOf
      <4>. QED  BY <4>1, <4>5, <4>6 DEF Gives
    <3>3. Chain(path, from, to)
      BY <3>1, <3>2 DEF Way, Chain
    <3>4. Len(path) > 0 => to \notin Reachable(from, registered, Len(path) - 1)
      <4>1. Len(path) > 0 => Len(path) - 1 \in Nat
        BY <3>1
      <4>. QED  BY <2>3, <2>4, <2>6, <4>1
    <3>. QED  BY <2>6, <3>3, <3>4
  <2>. QED  BY <2>5, <2>6
<1>. QED  BY <1>1, GraphMirrors, PTL

(* What the search says of two types it says of them the other way round.  *)
LEMMA SameLength ==
  ASSUME IsFiniteSet(Types), NEW adj, NEW L, Mirrors(adj, L), NEW V, AllLevels(V, adj),
         NEW a \in Types, NEW b \in Types,
         NEW there, there = PathBetween(adj, a, b), there # NoPath,
         NEW back, back = PathBetween(adj, b, a)
  PROVE  back # NoPath /\ Len(there) \in Nat /\ Len(back) \in Nat /\ Len(back) <= Len(there)
<1>1. adj \in Graphs /\ Levels(V[a], adj, a) /\ Levels(V[b], adj, b)
  BY DEF AllLevels, Mirrors
<1>2. Len(there) \in Nat /\ b \in V[a][Len(there)]
  BY <1>1, PathIs
<1>3. a \in V[b][Len(there)]
  BY <1>2, NearBothWays
<1>4. /\ back = NoPath <=> \A n \in Nat : a \notin V[b][n]
      /\ back # NoPath => /\ Len(back) \in Nat
                          /\ Len(back) > 0 => a \notin V[b][Len(back) - 1]
  BY <1>1, PathIs
<1>5. back # NoPath /\ Len(back) \in Nat
  BY <1>2, <1>3, <1>4
<1>6. Len(back) <= Len(there)
  <2>. SUFFICES ASSUME Len(there) < Len(back) PROVE FALSE
    BY <1>2, <1>5
  <2>1. Len(back) > 0 /\ Len(back) - 1 \in Nat /\ Len(there) <= Len(back) - 1
    BY <1>2, <1>5
  <2>2. V[b][Len(there)] \subseteq V[b][Len(back) - 1]
    BY <1>1, <1>2, <2>1, LevelsNested
  <2>. QED  BY <1>3, <1>4, <1>5, <2>1, <2>2
<1>. QED  BY <1>2, <1>5, <1>6

(* The reference notion gives the levels of every type.                    *)
LEMMA LevelsOfAll ==
  ASSUME NEW adj, NEW lenses \in Seq(Lenses), Mirrors(adj, ToSet(lenses))
  PROVE  AllLevels(Within(lenses), adj)
  BY WithinLevels DEF AllLevels

(* Records are read as other versions over equally many lenses both ways,  *)
(* and getConnectedTypes (lens-graph.ts:62) gives exactly the types that   *)
(* getPath finds a path to: for any finitely many types and any lenses.    *)
THEOREM VersionsReadBothWays ==
  ASSUME IsFiniteSet(Types) PROVE GraphSpec => []ReadableBothWays
<1>1. ASSUME GraphInv PROVE ReadableBothWays
  <2>. SUFFICES ASSUME NEW a \in Types, NEW b \in Types,
                       NEW there, there = PathBetween(adjacency, a, b),
                       NEW back, back = PathBetween(adjacency, b, a)
                PROVE  /\ (there = NoPath) = (back = NoPath)
                       /\ there # NoPath => Len(there) = Len(back)
                       /\ b \in ConnectedTypes(adjacency, a) <=> there # NoPath
    BY DEF ReadableBothWays
  <2>1. PICK V : V = Within(registered)
    OBVIOUS
  <2>2. PICK L : L = ToSet(registered)
    OBVIOUS
  <2>3. AllLevels(V, adjacency) /\ Mirrors(adjacency, L) /\ adjacency \in Graphs
        /\ Levels(V[a], adjacency, a)
    <3>1. AllLevels(V, adjacency) /\ Mirrors(adjacency, L)
      BY <1>1, <2>1, <2>2, LevelsOfAll DEF GraphInv
    <3>. QED  BY <3>1 DEF AllLevels, Mirrors
  <2>4. there # NoPath =>
          back # NoPath /\ Len(there) \in Nat /\ Len(back) \in Nat /\ Len(back) <= Len(there)
    BY <2>3, SameLength
  <2>5. back # NoPath =>
          there # NoPath /\ Len(there) \in Nat /\ Len(back) \in Nat /\ Len(there) <= Len(back)
    BY <2>3, SameLength
  <2>6. there # NoPath => Len(there) = Len(back)
    BY <2>4, <2>5
  <2>7. b \in ConnectedTypes(adjacency, a) <=> \E n \in Nat : b \in V[a][n]
    BY <2>3, ConnectedAre
  <2>8. there = NoPath <=> \A n \in Nat : b \notin V[a][n]
    BY <2>3, PathIs
  <2>. QED  BY <2>4, <2>5, <2>6, <2>7, <2>8
<1>. QED  BY <1>1, GraphMirrors, PTL

(* defineEntity (entity.ts:26) accepts an entity exactly if getPath leads   *)
(* from each of its versions to the root schema and back.  It looks at a   *)
(* graph of its own, with the same lenses.                                 *)
THEOREM AcceptedIsReadable ==
  ASSUME IsFiniteSet(Types) PROVE GraphSpec => []AcceptedEntityReadable
<1>1. ASSUME GraphInv PROVE AcceptedEntityReadable
  <2>. SUFFICES ASSUME NEW root \in Types
                PROVE  Connected(root, registered) <=>
                         \A tag \in EntityTags(root, registered) :
                           /\ PathBetween(adjacency, tag, root) # NoPath
                           /\ PathBetween(adjacency, root, tag) # NoPath
    BY DEF AcceptedEntityReadable
  <2>1. PICK V : V = Within(registered)
    OBVIOUS
  <2>2. PICK L : L = ToSet(registered)
    OBVIOUS
  <2>3. PICK own : own = GraphOf(registered)
    OBVIOUS
  <2>4. Mirrors(adjacency, L) /\ Mirrors(own, L) /\ adjacency \in Graphs /\ own \in Graphs
    BY <1>1, <2>2, <2>3, GraphOfMirrors DEF GraphInv, Mirrors
  <2>5. AllLevels(V, adjacency) /\ AllLevels(V, own)
    BY <1>1, <2>1, <2>2, <2>4, LevelsOfAll DEF GraphInv
  <2>6. EntityTags(root, registered) \subseteq Types
    BY <2>2, <2>4 DEF EntityTags, Mirrors, Lenses
  <2>7. ASSUME NEW tag \in Types
        PROVE  /\ tag \in ConnectedTypes(own, root) <=> PathBetween(adjacency, root, tag) # NoPath
               /\ PathBetween(adjacency, root, tag) # NoPath
                    => PathBetween(adjacency, tag, root) # NoPath
    <3>1. Levels(V[root], own, root) /\ Levels(V[root], adjacency, root)
      BY <2>5 DEF AllLevels
    <3>2. tag \in ConnectedTypes(own, root) <=> \E n \in Nat : tag \in V[root][n]
      BY <2>4, <3>1, ConnectedAre
    <3>3. PathBetween(adjacency, root, tag) = NoPath <=> \A n \in Nat : tag \notin V[root][n]
      BY <2>4, <3>1, PathIs
    <3>4. PathBetween(adjacency, root, tag) # NoPath => PathBetween(adjacency, tag, root) # NoPath
      BY <2>4, <2>5, SameLength
    <3>. QED  BY <3>2, <3>3, <3>4
  <2>. QED  BY <2>3, <2>6, <2>7 DEF Connected
<1>. QED  BY <1>1, GraphMirrors, PTL

-----------------------------------------------------------------------------
(* The store and its subscriptions.                                        *)

(* What a subscription would emit depends only on the records it watches:   *)
(* the one of its id, or all those of the schemas of its entity.           *)
Watched(s, id, row) ==
  IF Watch[s].id # All THEN id = Watch[s].id
  ELSE row # None /\ row.type \in TagsOf(Watch[s].entity)

(* What a subscriber should see depends on the records it watches alone    *)
(* (store.ts:735-799).                                                     *)
LEMMA ViewDepends ==
  ASSUME NEW s \in Subscribers, NEW old, NEW new,
         Watch[s].id # All => Watch[s].id \in Ids,
         \A id \in Ids : old[id] # new[id] =>
           ~Watched(s, id, old[id]) /\ ~Watched(s, id, new[id])
  PROVE  View(s, old) = View(s, new)
<1>1. CASE Watch[s].id # All
  BY <1>1 DEF View, Watched
<1>2. CASE Watch[s].id = All
  <2> DEFINE w == Watch[s]
             eligible == {tag \in TagsOf(w.entity) : Applicable(tag, w.filters)}
             rows(st) == {id \in Ids : /\ st[id] # None
                                       /\ st[id].type \in eligible
                                       /\ Matches(st[id].data, w.filters)}
  <2>1. \A id \in Ids : id \in rows(old) \/ id \in rows(new) => old[id] = new[id]
    BY <1>2 DEF Watched
  <2>2. rows(old) = rows(new)
    BY <2>1
  <2>3. \A id \in rows(old) : Load(old[id], w.as) = Load(new[id], w.as)
    BY <2>1
  <2> HIDE DEF rows
  <2>4. LoadAll(old, w.entity, w.as, w.filters)
          = IF \E id \in rows(old) : Load(old[id], w.as) = Failure THEN Failure
            ELSE [id \in rows(old) |-> Load(old[id], w.as)]
    BY DEF LoadAll, rows
  <2>5. LoadAll(new, w.entity, w.as, w.filters)
          = IF \E id \in rows(new) : Load(new[id], w.as) = Failure THEN Failure
            ELSE [id \in rows(new) |-> Load(new[id], w.as)]
    BY DEF LoadAll, rows
  <2>6. LoadAll(old, w.entity, w.as, w.filters) = LoadAll(new, w.entity, w.as, w.filters)
    BY <2>2, <2>3, <2>4, <2>5
  <2> QED BY <1>2, <2>6 DEF View
<1> QED BY <1>1, <1>2

(* Each id belongs to an entity that has this schema among its own.         *)
Owned(id, tag) == \E e \in Entities : id \in IdsOf[e] /\ tag \in TagsOf(e)

OwnedRows ==
  /\ \A id \in Ids : db[id] # None => Owned(id, db[id].type)
  /\ \A c \in Clients :
       /\ job[c].op = "update" => Owned(job[c].id, job[c].row.type)
       /\ job[c].op = "delete" => job[c].type = None \/ Owned(job[c].id, job[c].type)

(* Fresh itself is not inductive: what was read and not emitted yet is the  *)
(* same obligation one step earlier.                                       *)
FreshSub(s) ==
  /\ sub[s].phase = "idle" => sub[s].shown = View(s, db) \/ Notified(s)
  /\ sub[s].phase = "emit" => sub[s].value = View(s, db) \/ Notified(s)

FreshInv == TypeOK /\ OwnedRows /\ \A s \in Subscribers : FreshSub(s)

(* A write of one record under its own entity either leaves a subscription  *)
(* as it is or has an event that concerns it.                              *)
LEMMA OneRecordNotifies ==
  ASSUME Separate, OwnedRows, NEW s \in Subscribers, NEW id \in Ids, NEW row, NEW ev,
         db \in [Ids -> Rows \cup {None}],
         db' = [db EXCEPT ![id] = row],
         row # None => Owned(id, row.type),
         ev.kind \in {"put", "update", "delete"}, ev.id = id,
         Owned(id, ev.type) \/ (ev.kind = "delete" /\ ev.type = None)
  PROVE  View(s, db) = View(s, db') \/ Relevant(s, ev)
<1>1. CASE Watched(s, id, db[id]) \/ Watched(s, id, db'[id])
  <2>1. CASE Watch[s].id # All
    BY <1>1, <2>1 DEF Watched, Relevant
  <2>2. CASE Watch[s].id = All
    <3> DEFINE f == Watch[s].entity
    <3>1. PICK tag \in TagsOf(f) : Owned(id, tag)
      BY <1>1, <2>2 DEF Watched, OwnedRows
    <3>2. f \in Entities /\ id \in IdsOf[f]
      BY <3>1, StoreAssumption DEF Separate, Owned
    <3>3. Owned(id, ev.type) => ev.type \in TagsOf(f)
      BY <3>2 DEF Separate, Owned
    <3> QED BY <2>2, <3>3 DEF Relevant
  <2> QED BY <2>1, <2>2
<1>2. CASE ~Watched(s, id, db[id]) /\ ~Watched(s, id, db'[id])
  <2>1. \A j \in Ids : db[j] # db'[j] => j = id
    OBVIOUS
  <2>2. Watch[s].id # All => Watch[s].id \in Ids
    BY StoreAssumption
  <2>3. \A j \in Ids : db[j] # db'[j] => ~Watched(s, j, db[j]) /\ ~Watched(s, j, db'[j])
    BY <1>2, <2>1
  <2> HIDE DEF Watched
  <2> QED BY <2>2, <2>3, ViewDepends
<1> QED BY <1>1, <1>2
-----------------------------------------------------------------------------
(* What decodes as a schema is a record of fields and values.              *)
ValidIsData == \A tag \in Types : \A d : Valid(tag, d) => d \in Data

(* The tags of an entity are schemas.                                      *)
LEMMA TagsAreTypes == \A e \in Entities : TagsOf(e) \subseteq Types
<1> TAKE e \in Entities
<1>1. Root[e] \in Types /\ LensesOf[e] \in Seq(Lenses)
  BY StoreAssumption
<1>2. ToSet(LensesOf[e]) \subseteq Lenses
  BY <1>1 DEF ToSet
<1>3. \A l \in Lenses : {l.from, l.to} \subseteq Types
  BY DEF Lenses
<1> QED BY <1>1, <1>2, <1>3 DEF TagsOf, EntityTags

(* A shallow merge of data is data (store.ts:611-633).                     *)
LEMMA SpreadIsData ==
  ASSUME NEW d \in Data, NEW p \in Data, NEW S \in SUBSET Fields
  PROVE  Spread(d, p) \in Data /\ Spread(d, Restrict(p, DOMAIN p \cap S)) \in Data
<1>1. PICK D \in SUBSET Fields : d \in [D -> Values]
  BY DEF Data
<1>2. PICK P \in SUBSET Fields : p \in [P -> Values]
  BY DEF Data
<1>3. Spread(d, p) \in [P \cup D -> Values]
  BY <1>1, <1>2 DEF Spread
<1>4. Restrict(p, DOMAIN p \cap S) \in [P \cap S -> Values]
  BY <1>2 DEF Restrict
<1>5. Spread(d, Restrict(p, DOMAIN p \cap S)) \in [(P \cap S) \cup D -> Values]
  BY <1>1, <1>4 DEF Spread
<1> QED BY <1>3, <1>5 DEF Data

(* A record loads as data, or fails (convertEntity).                       *)
LEMMA LoadIsData ==
  ASSUME ValidIsData, NEW row \in Rows \cup {None}, NEW as \in Types
  PROVE  /\ Load(row, as) \in Data \cup {None, Failure}
         /\ row # None => Load(row, as) \in Data \cup {Failure}
<1>1. CASE row = None
  BY <1>1 DEF Load
<1>2. CASE row # None /\ row.type = as
  BY <1>2 DEF Load, Rows
<1>3. CASE row # None /\ row.type # as
  <2> DEFINE converted == Convert(row.type, as, row.data)
  <2>1. Load(row, as) = IF converted # Failure /\ Valid(as, converted)
                        THEN converted ELSE Failure
    BY <1>3 DEF Load
  <2>2. Valid(as, converted) => converted \in Data
    BY DEF ValidIsData
  <2> HIDE DEF converted
  <2> QED BY <2>1, <2>2
<1> QED BY <1>1, <1>2, <1>3

(* What a subscriber should see is a value its stream can emit.            *)
LEMMA ViewIsView ==
  ASSUME ValidIsData, TypeOK, NEW s \in Subscribers PROVE View(s, db) \in Views
<1> DEFINE w == Watch[s]
<1>1. w.as \in Types /\ (w.id = All \/ w.id \in Ids)
  BY StoreAssumption
<1>2. CASE w.id # All
  <2>1. Load(db[w.id], w.as) \in Data \cup {None, Failure}
    BY <1>1, <1>2, LoadIsData DEF TypeOK
  <2> QED BY <1>2, <2>1 DEF View, Views
<1>3. CASE w.id = All
  <2> DEFINE rows == {id \in Ids : /\ db[id] # None
                                   /\ db[id].type \in {tag \in TagsOf(w.entity) :
                                                          Applicable(tag, w.filters)}
                                   /\ Matches(db[id].data, w.filters)}
  <2>1. \A id \in rows : Load(db[id], w.as) \in Data \cup {Failure}
    BY <1>1, LoadIsData DEF TypeOK
  <2>2. View(s, db) = IF \E id \in rows : Load(db[id], w.as) = Failure THEN Failure
                      ELSE [id \in rows |-> Load(db[id], w.as)]
    BY <1>3 DEF View, LoadAll
  <2>3. rows \in SUBSET Ids
    OBVIOUS
  <2> HIDE DEF rows
  <2>4. CASE \E id \in rows : Load(db[id], w.as) = Failure
    BY <2>2, <2>4 DEF Views
  <2>5. CASE ~\E id \in rows : Load(db[id], w.as) = Failure
    <3>1. View(s, db) \in [rows -> Data]
      BY <2>1, <2>2, <2>5
    <3> QED BY <2>3, <3>1 DEF Views
  <2> QED BY <2>4, <2>5
<1> QED BY <1>2, <1>3

(* A subscriber's step replaces one stream.                                 *)
LEMMA StepIsStream ==
  ASSUME TypeOK, NEW s \in Subscribers, NEW record \in Streams, Step(s, record)
  PROVE  TypeOK'
BY DEF TypeOK, Step

(* A mutation's step touches one record at most and its own job.            *)
LEMMA MutationIsTyped ==
  ASSUME TypeOK, NEW c \in Clients, NEW j \in Jobs, job' = [job EXCEPT ![c] = j],
         db' \in [Ids -> Rows \cup {None}], sub' = sub,
         started' = started \/ (started < MaxMutations /\ started' = started + 1)
  PROVE  TypeOK'
BY StoreAssumption DEF TypeOK

(* A mutation that owes one event is in one of the states of a mutation.   *)
LEMMA OneEvent ==
  ASSUME NEW ev \in Events PROVE [op |-> "publish", events |-> <<ev>>] \in Jobs
BY DEF Jobs

(* A function on 1..n is a sequence.                                       *)
LEMMA SeqIsFunction ==
  ASSUME NEW S, NEW n \in Nat \ {0}, NEW f \in [1..n -> S]
  PROVE  f \in Seq(S) \ {<<>>}
OBVIOUS

(* One step of a mutation or a subscription keeps the types.               *)
LEMMA TypeStep == ASSUME ValidIsData, TypeOK, [Next]_vars PROVE TypeOK'
<1> USE TagsAreTypes, StoreAssumption
<1>1. ASSUME NEW c \in Clients, SaveEntity(c) PROVE TypeOK'
  <2>0. PICK e \in Entities :
          \E tag \in TagsOf(e), id \in IdsOf[e], data \in Payloads :
            /\ Valid(tag, data)
            /\ db' = [db EXCEPT ![id] = [type |-> tag, data |-> data]]
            /\ Owe(c, <<[kind |-> "put", id |-> id, type |-> tag]>>)
    BY <1>1 DEF SaveEntity
  <2>1. PICK tag \in TagsOf(e), id \in IdsOf[e], data \in Payloads :
          /\ Valid(tag, data)
          /\ db' = [db EXCEPT ![id] = [type |-> tag, data |-> data]]
          /\ Owe(c, <<[kind |-> "put", id |-> id, type |-> tag]>>)
    BY <2>0
  <2>2. tag \in Types /\ id \in Ids /\ data \in Data
    BY <2>1
  <2>3. db' \in [Ids -> Rows \cup {None}]
    BY <2>1, <2>2 DEF TypeOK, Rows
  <2>4. [kind |-> "put", id |-> id, type |-> tag] \in Events
    BY <2>2 DEF Events
  <2> QED BY <1>1, <2>1, <2>3, <2>4, OneEvent, MutationIsTyped
          DEF SaveEntity, Begin, Owe
<1>2. ASSUME NEW c \in Clients, UpdateRead(c) PROVE TypeOK'
  <2> DEFINE New(as, id, data, mode, newData) ==
               [op |-> "update", id |-> id, row |-> [type |-> as, data |-> newData],
                given |-> DOMAIN data, mode |-> mode]
  <2>0. PICK e \in Entities :
          \E as \in TagsOf(e), id \in IdsOf[e], data \in Payloads \cup Patches,
             mode \in {"merge", "replace"} :
            LET newData == UpdatedData(db[id], as, data, mode)
            IN  /\ Valid(as, newData)
                /\ job' = [job EXCEPT ![c] = New(as, id, data, mode, newData)]
    BY <1>2 DEF UpdateRead
  <2>1. PICK as \in TagsOf(e), id \in IdsOf[e], data \in Payloads \cup Patches,
             mode \in {"merge", "replace"}, newData \in Data :
          Valid(as, newData) /\ job' = [job EXCEPT ![c] = New(as, id, data, mode, newData)]
    BY <2>0 DEF ValidIsData
  <2>2. as \in Types /\ id \in Ids /\ data \in Data
    BY <2>1
  <2>3. DOMAIN data \in SUBSET Fields
    BY <2>2 DEF Data
  <2>4. New(as, id, data, mode, newData) \in Jobs
    BY <2>2, <2>3 DEF Jobs, Rows
  <2>5. db' \in [Ids -> Rows \cup {None}]
    BY <1>2 DEF UpdateRead, TypeOK
  <2> QED BY <1>2, <2>1, <2>4, <2>5, MutationIsTyped DEF UpdateRead, Begin
<1>3. ASSUME NEW c \in Clients, UpdateWrite(c) PROVE TypeOK'
  <2>1. job[c].id \in Ids /\ job[c].row \in Rows
    BY <1>3 DEF UpdateWrite, TypeOK, Jobs
  <2>2. db' \in [Ids -> Rows \cup {None}]
    BY <1>3, <2>1 DEF UpdateWrite, TypeOK
  <2>3. [kind |-> "update", id |-> job[c].id, type |-> job[c].row.type] \in Events
    BY <2>1 DEF Events, Rows
  <2> QED BY <1>3, <2>2, <2>3, OneEvent, MutationIsTyped DEF UpdateWrite, Owe
<1>4. ASSUME NEW c \in Clients, UpdateGone(c) PROVE TypeOK'
  BY <1>4, MutationIsTyped DEF UpdateGone, Finish, Idle, Jobs, TypeOK
<1>5. ASSUME NEW c \in Clients, PatchEntities(c) PROVE TypeOK'
  <2>1. PICK e \in Entities, patch \in Patches, filters \in Filterings :
          LET tags == PatchTags(e, patch, filters)
              hit  == {id \in Ids : /\ db[id] # None
                                    /\ db[id].type \in tags
                                    /\ Matches(db[id].data, filters)}
          IN  /\ hit # {}
              /\ db' = [id \in Ids |-> IF id \in hit THEN Patched(db[id], patch)
                                       ELSE db[id]]
              /\ \E order \in Surjection(1..Cardinality(tags), tags) :
                   Owe(c, [i \in 1..Cardinality(tags) |->
                             [kind |-> "bulk", type |-> order[i]]])
    BY <1>5 DEF PatchEntities
  <2> DEFINE tags == PatchTags(e, patch, filters)
             n == Cardinality(tags)
  <2>2. \A row \in Rows : Patched(row, patch) \in Rows
    <3> TAKE row \in Rows
    <3>1. row.data \in Data /\ patch \in Data /\ FieldsOf[row.type] \in SUBSET Fields
      BY DEF Rows
    <3>2. Spread(row.data, Restrict(patch, DOMAIN patch \cap FieldsOf[row.type])) \in Data
      BY <3>1, SpreadIsData
    <3> QED BY <3>2 DEF Patched, Rows
  <2>3. db' \in [Ids -> Rows \cup {None}]
    BY <2>1, <2>2 DEF TypeOK
  <2>4. PICK order \in Surjection(1..n, tags) :
          Owe(c, [i \in 1..n |-> [kind |-> "bulk", type |-> order[i]]])
    BY <2>1
  <2> DEFINE events == [i \in 1..n |-> [kind |-> "bulk", type |-> order[i]]]
  <2>5. tags \subseteq Types /\ tags # {}
    BY <2>1 DEF PatchTags
  <2>6. n \in Nat /\ n > 0
    <3>1. IsFiniteSet(tags)
      BY <2>5, FS_Subset
    <3> HIDE DEF tags
    <3> QED BY <2>5, <3>1, FS_CardinalityType, FS_EmptySet
  <2>7. events \in Seq(Events) \ {<<>>}
    <3>1. \A i \in 1..n : [kind |-> "bulk", type |-> order[i]] \in Events
      BY <2>4, <2>5 DEF Surjection, Events
    <3>2. n \in Nat \ {0}
      BY <2>6
    <3> HIDE DEF n
    <3>3. events \in [1..n -> Events]
      BY <3>1
    <3> HIDE DEF events
    <3> QED BY <3>2, <3>3, SeqIsFunction
  <2> QED BY <1>5, <2>3, <2>4, <2>7, MutationIsTyped DEF PatchEntities, Begin, Owe, Jobs
<1>6. ASSUME NEW c \in Clients, DeleteRead(c) PROVE TypeOK'
  <2>1. PICK id \in Ids :
          job' = [job EXCEPT ![c] = [op |-> "delete", id |-> id,
                    type |-> IF db[id] = None THEN None ELSE db[id].type]]
    BY <1>6 DEF DeleteRead
  <2>2. [op |-> "delete", id |-> id,
         type |-> IF db[id] = None THEN None ELSE db[id].type] \in Jobs
    BY DEF TypeOK, Rows, Jobs
  <2> QED BY <1>6, <2>1, <2>2, MutationIsTyped DEF DeleteRead, Begin, TypeOK
<1>7. ASSUME NEW c \in Clients, DeleteWrite(c) PROVE TypeOK'
  <2>1. job[c].id \in Ids /\ job[c].type \in Types \cup {None}
    BY <1>7 DEF DeleteWrite, TypeOK, Jobs
  <2>2. [kind |-> "delete", id |-> job[c].id, type |-> job[c].type] \in Events
    BY <2>1 DEF Events
  <2> QED BY <1>7, <2>2, OneEvent, MutationIsTyped DEF DeleteWrite, Owe, TypeOK
<1>8. ASSUME NEW c \in Clients, Publish(c) PROVE TypeOK'
  <2>1. job[c].events \in Seq(Events) /\ job[c].events # <<>>
    BY <1>8 DEF Publish, TypeOK, Jobs
  <2>2. /\ Head(job[c].events) \in Events
        /\ Tail(job[c].events) \in Seq(Events)
        /\ Len(Tail(job[c].events)) = Len(job[c].events) - 1
        /\ Len(job[c].events) \in Nat \ {0}
    BY <2>1, HeadTailProperties, EmptySeq
  <2>3. ASSUME NEW s \in Subscribers
        PROVE  [sub[s] EXCEPT !.queue = Append(@, Head(job[c].events))] \in Streams
    <3>1. sub[s] \in Streams
      BY DEF TypeOK
    <3>2. Append(sub[s].queue, Head(job[c].events)) \in Seq(Events)
      BY <2>2, <3>1, AppendProperties DEF Streams
    <3> QED BY <3>1, <3>2 DEF Streams
  <2>4. Len(job[c].events) # 1 => Tail(job[c].events) \in Seq(Events) \ {<<>>}
    <3> DEFINE rest == Tail(job[c].events)
    <3>1. Len(job[c].events) # 1 => Len(rest) # 0
      BY <2>2
    <3> HIDE DEF rest
    <3>2. Len(rest) # 0 => rest # <<>>
      OBVIOUS
    <3> QED BY <2>2, <3>1, <3>2 DEF rest
  <2>5. sub' \in [Subscribers -> Streams]
    BY <1>8, <2>3 DEF Publish, TypeOK
  <2>6. Idle \in Jobs /\ (Len(job[c].events) # 1 =>
          [op |-> "publish", events |-> Tail(job[c].events)] \in Jobs)
    BY <2>4 DEF Idle, Jobs
  <2>7. job' \in [Clients -> Jobs]
    BY <1>8, <2>6 DEF Publish, TypeOK, Owe, Finish
  <2> QED BY <1>8, <2>5, <2>7 DEF Publish, TypeOK
<1>9. ASSUME NEW c \in Clients, Abort(c) PROVE TypeOK'
  BY <1>9, MutationIsTyped DEF Abort, Finish, Idle, Jobs, TypeOK
<1>10. ASSUME NEW s \in Subscribers, Subscribe(s) \/ Unsubscribe(s) PROVE TypeOK'
  <2>1. Nothing \in Streams /\ [Nothing EXCEPT !.phase = "load"] \in Streams
    BY EmptySeq DEF Nothing, Streams, Views
  <2> QED BY <1>10, <2>1, StepIsStream DEF Subscribe, Unsubscribe
<1>11. ASSUME NEW s \in Subscribers, Reload(s) PROVE TypeOK'
  <2>1. sub[s] \in Streams /\ View(s, db) \in Views
    BY ViewIsView DEF TypeOK
  <2>2. [sub[s] EXCEPT !.phase = "emit", !.value = View(s, db)] \in Streams
    BY <2>1 DEF Streams
  <2> QED BY <1>11, <2>2, StepIsStream DEF Reload
<1>12. ASSUME NEW s \in Subscribers, Emit(s) PROVE TypeOK'
  <2>1. sub[s] \in Streams /\ None \in Views
    BY DEF TypeOK, Views
  <2>2. [sub[s] EXCEPT !.phase = "idle", !.shown = sub[s].value, !.value = None] \in Streams
    BY <2>1 DEF Streams
  <2> QED BY <1>12, <2>2, StepIsStream DEF Emit
<1>13. ASSUME NEW s \in Subscribers, EndInError(s) PROVE TypeOK'
  <2>1. sub[s] \in Streams /\ None \in Views
    BY DEF TypeOK, Views
  <2>2. [sub[s] EXCEPT !.phase = "ended", !.queue = <<>>, !.value = None] \in Streams
    BY <2>1, EmptySeq DEF Streams
  <2> QED BY <1>13, <2>2, StepIsStream DEF EndInError
<1>14. ASSUME NEW s \in Subscribers, Receive(s) PROVE TypeOK'
  <2>1. sub[s] \in Streams
    BY DEF TypeOK
  <2>2. Tail(sub[s].queue) \in Seq(Events)
    BY <1>14, <2>1, HeadTailProperties DEF Receive, Streams
  <2>3. \A p \in {"load", "idle"} :
          [sub[s] EXCEPT !.queue = Tail(@), !.phase = p] \in Streams
    BY <2>1, <2>2 DEF Streams
  <2>4. [sub[s] EXCEPT !.queue = Tail(@),
                       !.phase = IF Relevant(s, Head(sub[s].queue))
                                 THEN "load" ELSE "idle"] \in Streams
    BY <2>3
  <2> QED BY <1>14, <2>4, StepIsStream DEF Receive
<1>15. CASE UNCHANGED vars
  BY <1>15 DEF vars, TypeOK
<1> QED BY <1>1, <1>2, <1>3, <1>4, <1>5, <1>6, <1>7, <1>8, <1>9, <1>10, <1>11, <1>12,
          <1>13, <1>14, <1>15 DEF Next, Mutate, Continue, Stream

(* The variables keep their types, whatever the lenses return, as long as   *)
(* what decodes as a schema is a record (store.ts:31-34).                  *)
THEOREM TypeCorrect == ASSUME ValidIsData PROVE Spec => []TypeOK
<1>1. Init => TypeOK
  <2>1. Nothing \in Streams
    BY EmptySeq DEF Nothing, Streams, Views
  <2> QED BY <2>1, StoreAssumption DEF Init, TypeOK, Idle, Jobs
<1>2. TypeOK /\ [Next]_vars => TypeOK'
  BY TypeStep
<1> QED BY <1>1, <1>2, PTL DEF Spec

-----------------------------------------------------------------------------
(* A mutation that has just written owes its events to every subscription   *)
(* the write concerns, and takes nothing from the others.                  *)
LEMMA WriteKeepsFresh ==
  ASSUME TypeOK, NEW c \in Clients, NEW events,
         \A s \in Subscribers : FreshSub(s),
         job[c].op # "publish", Owe(c, events), sub' = sub,
         NEW s \in Subscribers,
         View(s, db) = View(s, db') \/ \E i \in DOMAIN events : Relevant(s, events[i])
  PROVE  FreshSub(s)'
<1>1. job' = [job EXCEPT ![c] = [op |-> "publish", events |-> events]]
  BY DEF Owe
<1>2. job'[c] = [op |-> "publish", events |-> events]
  BY <1>1 DEF TypeOK
<1>3. (\E i \in DOMAIN events : Relevant(s, events[i])) => Notified(s)'
  BY <1>2 DEF Notified
<1>4. \A d \in Clients : job[d].op = "publish" => job'[d] = job[d]
  BY <1>1 DEF TypeOK
<1>5. Notified(s) => Notified(s)'
  BY <1>4 DEF Notified
<1> QED BY <1>3, <1>5 DEF FreshSub

(* A step of the mutations that neither writes nor publishes.               *)
LEMMA QuietKeepsFresh ==
  ASSUME TypeOK, NEW c \in Clients, NEW j, \A s \in Subscribers : FreshSub(s),
         job[c].op # "publish", job' = [job EXCEPT ![c] = j], db' = db, sub' = sub,
         NEW s \in Subscribers
  PROVE  FreshSub(s)'
<1>1. \A d \in Clients : job[d].op = "publish" => job'[d] = job[d]
  BY DEF TypeOK
<1>2. Notified(s) => Notified(s)'
  BY <1>1 DEF Notified
<1> QED BY <1>2 DEF FreshSub

(* A published event moves from the mutation to every open subscription.    *)
LEMMA PublishKeepsFresh ==
  ASSUME TypeOK, NEW c \in Clients, Publish(c), NEW s \in Subscribers, FreshSub(s)
  PROVE  FreshSub(s)'
<1> DEFINE events == job[c].events
           queue == sub[s].queue
<1>1. events \in Seq(Events) /\ events # <<>> /\ queue \in Seq(Events)
  BY DEF Publish, TypeOK, Jobs, Streams
<1>2. CASE sub[s].phase \notin Open
  BY <1>2 DEF Publish, Open, FreshSub, TypeOK
<1>3. CASE sub[s].phase \in Open
  <2>1. sub'[s] = [sub[s] EXCEPT !.queue = Append(queue, Head(events))]
    BY <1>3 DEF Publish, TypeOK
  <2>2. sub[s] \in Streams
    BY DEF TypeOK
  <2>3. /\ sub'[s].queue = Append(queue, Head(events))
        /\ sub'[s].phase = sub[s].phase
        /\ sub'[s].value = sub[s].value
        /\ sub'[s].shown = sub[s].shown
    BY <2>1, <2>2 DEF Streams
  <2>4. ASSUME Notified(s) PROVE Notified(s)'
    <3>1. CASE \E i \in DOMAIN queue : Relevant(s, queue[i])
      <4>1. PICK i \in DOMAIN queue : Relevant(s, queue[i])
        BY <3>1
      <4>2. i \in DOMAIN sub'[s].queue /\ sub'[s].queue[i] = queue[i]
        BY <1>1, <2>3, <4>1
      <4> QED BY <4>1, <4>2 DEF Notified
    <3>2. CASE \E d \in Clients : /\ job[d].op = "publish"
                                  /\ \E i \in DOMAIN job[d].events :
                                       Relevant(s, job[d].events[i])
      <4>1. PICK d \in Clients : /\ job[d].op = "publish"
                                 /\ \E i \in DOMAIN job[d].events :
                                      Relevant(s, job[d].events[i])
        BY <3>2
      <4>2. CASE d # c
        <5>1. job'[d] = job[d]
          BY <4>2 DEF Publish, Owe, Finish, TypeOK
        <5> QED BY <4>1, <5>1 DEF Notified
      <4>3. CASE d = c
        <5>1. PICK i \in DOMAIN events : Relevant(s, events[i])
          BY <4>1, <4>3
        <5>2. CASE i = 1
          <6>1. /\ Len(queue) + 1 \in DOMAIN sub'[s].queue
                /\ sub'[s].queue[Len(queue) + 1] = events[1]
            BY <1>1, <2>3
          <6> QED BY <5>1, <5>2, <6>1 DEF Notified
        <5>3. CASE i # 1
          <6>1. Len(events) # 1 /\ i - 1 \in DOMAIN Tail(events)
                  /\ Tail(events)[i - 1] = events[i]
            BY <1>1, <5>1, <5>3
          <6>2. job'[c] = [op |-> "publish", events |-> Tail(events)]
            BY <6>1 DEF Publish, Owe, TypeOK
          <6> QED BY <5>1, <6>1, <6>2 DEF Notified
        <5> QED BY <5>2, <5>3
      <4> QED BY <4>2, <4>3
    <3> QED BY <2>4, <3>1, <3>2 DEF Notified
  <2>5. db' = db
    BY DEF Publish
  <2> QED BY <2>3, <2>4, <2>5 DEF FreshSub
<1> QED BY <1>2, <1>3

(* A patch changes records of schemas of one entity, which they keep, and   *)
(* owes a bulk event for the schema of each record it changed.             *)
LEMMA PatchEffect ==
  ASSUME TypeOK, NEW c \in Clients, PatchEntities(c)
  PROVE  \E e \in Entities : \E events :
           /\ Owe(c, events)
           /\ \A id \in Ids : db'[id] # db[id] =>
                /\ db[id] # None /\ db'[id].type = db[id].type
                /\ db[id].type \in TagsOf(e)
                /\ \E i \in DOMAIN events :
                     events[i] = [kind |-> "bulk", type |-> db[id].type]
<1>1. PICK e \in Entities, patch \in Patches, filters \in Filterings :
        LET tags == PatchTags(e, patch, filters)
            hit  == {id \in Ids : /\ db[id] # None
                                  /\ db[id].type \in tags
                                  /\ Matches(db[id].data, filters)}
        IN  /\ db' = [id \in Ids |-> IF id \in hit THEN Patched(db[id], patch)
                                     ELSE db[id]]
            /\ \E order \in Surjection(1..Cardinality(tags), tags) :
                 Owe(c, [i \in 1..Cardinality(tags) |->
                           [kind |-> "bulk", type |-> order[i]]])
  BY DEF PatchEntities
<1> DEFINE tags == PatchTags(e, patch, filters)
           n == Cardinality(tags)
<1>2. PICK order \in Surjection(1..n, tags) :
        Owe(c, [i \in 1..n |-> [kind |-> "bulk", type |-> order[i]]])
  BY <1>1
<1> DEFINE events == [i \in 1..n |-> [kind |-> "bulk", type |-> order[i]]]
<1>3. ASSUME NEW id \in Ids, db'[id] # db[id]
      PROVE  /\ db[id] # None /\ db'[id] = Patched(db[id], patch)
             /\ db[id].type \in tags
  BY <1>1, <1>3
<1>4. \A row \in Rows : Patched(row, patch).type = row.type
  BY DEF Patched, Rows
<1>5. tags \subseteq TagsOf(e)
  BY DEF PatchTags
<1>6. \A tag \in tags : \E i \in DOMAIN events :
        events[i] = [kind |-> "bulk", type |-> tag]
  BY <1>2 DEF Surjection
<1> HIDE DEF tags
<1>7. ASSUME NEW id \in Ids, db'[id] # db[id]
      PROVE  /\ db[id] # None /\ db'[id].type = db[id].type
             /\ db[id].type \in TagsOf(e)
             /\ \E i \in DOMAIN events :
                  events[i] = [kind |-> "bulk", type |-> db[id].type]
  <2>1. db[id] # None /\ db'[id] = Patched(db[id], patch) /\ db[id].type \in tags
    BY <1>3, <1>7
  <2>2. db'[id].type = db[id].type
    BY <1>4, <2>1 DEF TypeOK
  <2> QED BY <1>5, <1>6, <2>1, <2>2
<1> HIDE DEF events
<1>8. Owe(c, events)
  BY <1>2 DEF events
<1> QED BY <1>7, <1>8

(* Records, and the mutations under way, stay with their own entity.        *)
LEMMA OwnedStep == ASSUME TypeOK, OwnedRows, [Next]_vars PROVE OwnedRows'
<1> USE DEF OwnedRows
<1>1. ASSUME NEW c \in Clients, SaveEntity(c) PROVE OwnedRows'
  <2>1. PICK e \in Entities :
          \E tag \in TagsOf(e), id \in IdsOf[e], data \in Payloads :
            /\ db' = [db EXCEPT ![id] = [type |-> tag, data |-> data]]
            /\ Owe(c, <<[kind |-> "put", id |-> id, type |-> tag]>>)
    BY <1>1 DEF SaveEntity
  <2>2. PICK tag \in TagsOf(e), id \in IdsOf[e], data \in Payloads :
          /\ db' = [db EXCEPT ![id] = [type |-> tag, data |-> data]]
          /\ Owe(c, <<[kind |-> "put", id |-> id, type |-> tag]>>)
    BY <2>1
  <2>3. Owned(id, tag)
    BY <2>2 DEF Owned
  <2> QED BY <2>2, <2>3 DEF Owe, TypeOK
<1>2. ASSUME NEW c \in Clients, UpdateRead(c) PROVE OwnedRows'
  <2>1. PICK e \in Entities :
          \E as \in TagsOf(e), id \in IdsOf[e] : \E data, mode, newData :
            job' = [job EXCEPT ![c] = [op |-> "update", id |-> id,
                      row |-> [type |-> as, data |-> newData],
                      given |-> data, mode |-> mode]]
    BY <1>2 DEF UpdateRead
  <2>2. PICK as \in TagsOf(e), id \in IdsOf[e] : \E data, mode, newData :
          job' = [job EXCEPT ![c] = [op |-> "update", id |-> id,
                    row |-> [type |-> as, data |-> newData],
                    given |-> data, mode |-> mode]]
    BY <2>1
  <2>3. Owned(id, as)
    BY <2>2 DEF Owned
  <2>4. PICK data, mode, newData :
          job' = [job EXCEPT ![c] = [op |-> "update", id |-> id,
                    row |-> [type |-> as, data |-> newData],
                    given |-> data, mode |-> mode]]
    BY <2>2
  <2> QED BY <1>2, <2>3, <2>4 DEF UpdateRead, TypeOK
<1>3. ASSUME NEW c \in Clients, UpdateWrite(c) PROVE OwnedRows'
  <2>1. Owned(job[c].id, job[c].row.type)
    BY <1>3 DEF UpdateWrite
  <2> QED BY <1>3, <2>1 DEF UpdateWrite, Owe, TypeOK
<1>4. ASSUME NEW c \in Clients, UpdateGone(c) \/ Abort(c) PROVE OwnedRows'
  BY <1>4 DEF UpdateGone, Abort, Finish, Idle, TypeOK
<1>5. ASSUME NEW c \in Clients, PatchEntities(c) PROVE OwnedRows'
  <2>1. PICK events : /\ Owe(c, events)
                      /\ \A id \in Ids : db'[id] # db[id] =>
                           db[id] # None /\ db'[id].type = db[id].type
    BY <1>5, PatchEffect
  <2> QED BY <2>1 DEF Owe, TypeOK
<1>6. ASSUME NEW c \in Clients, DeleteRead(c) PROVE OwnedRows'
  <2>1. PICK id \in Ids :
          job' = [job EXCEPT ![c] = [op |-> "delete", id |-> id,
                    type |-> IF db[id] = None THEN None ELSE db[id].type]]
    BY <1>6 DEF DeleteRead
  <2> QED BY <1>6, <2>1 DEF DeleteRead, TypeOK
<1>7. ASSUME NEW c \in Clients, DeleteWrite(c) PROVE OwnedRows'
  BY <1>7 DEF DeleteWrite, Owe, TypeOK
<1>8. ASSUME NEW c \in Clients, Publish(c) PROVE OwnedRows'
  BY <1>8 DEF Publish, Owe, Finish, Idle, TypeOK
<1>9. ASSUME NEW s \in Subscribers, Subscribe(s) \/ Stream(s) \/ Unsubscribe(s)
      PROVE  OwnedRows'
  BY <1>9 DEF Subscribe, Stream, Reload, Emit, EndInError, Receive, Unsubscribe, Step
<1>10. CASE UNCHANGED vars
  BY <1>10 DEF vars
<1> QED BY <1>1, <1>2, <1>3, <1>4, <1>5, <1>6, <1>7, <1>8, <1>9, <1>10
        DEF Next, Mutate, Continue

(* The heart of the argument: no step leaves a subscription behind, when    *)
(* entities are kept apart and no mutation is cut off.                     *)
LEMMA FreshStep ==
  ASSUME Separate, MayAbort = FALSE, TypeOK, OwnedRows,
         \A s \in Subscribers : FreshSub(s), [Next]_vars, NEW s \in Subscribers
  PROVE  FreshSub(s)'
<1>1. ASSUME NEW c \in Clients, SaveEntity(c) PROVE FreshSub(s)'
  <2>1. PICK e \in Entities :
          \E tag \in TagsOf(e), id \in IdsOf[e], data \in Payloads :
            /\ db' = [db EXCEPT ![id] = [type |-> tag, data |-> data]]
            /\ Owe(c, <<[kind |-> "put", id |-> id, type |-> tag]>>)
    BY <1>1 DEF SaveEntity
  <2>2. PICK tag \in TagsOf(e), id \in IdsOf[e], data \in Payloads :
          /\ db' = [db EXCEPT ![id] = [type |-> tag, data |-> data]]
          /\ Owe(c, <<[kind |-> "put", id |-> id, type |-> tag]>>)
    BY <2>1
  <2> DEFINE ev == [kind |-> "put", id |-> id, type |-> tag]
             row == [type |-> tag, data |-> data]
  <2>3. Owned(id, tag) /\ id \in Ids
    BY <2>2, StoreAssumption DEF Owned
  <2>4. View(s, db) = View(s, db') \/ Relevant(s, ev)
    <3>1. ev.kind = "put" /\ ev.id = id /\ ev.type = tag /\ row.type = tag
      OBVIOUS
    <3>2. db' = [db EXCEPT ![id] = row] /\ db \in [Ids -> Rows \cup {None}]
      BY <2>2 DEF TypeOK
    <3> HIDE DEF ev, row
    <3> QED BY <2>3, <3>1, <3>2, OneRecordNotifies
  <2>5. View(s, db) = View(s, db') \/ \E i \in DOMAIN <<ev>> : Relevant(s, <<ev>>[i])
    BY <2>4
  <2>6. job[c].op # "publish" /\ sub' = sub
    BY <1>1 DEF SaveEntity, Begin, Idle
  <2> QED BY <2>2, <2>5, <2>6, WriteKeepsFresh
<1>2. ASSUME NEW c \in Clients, UpdateRead(c) \/ DeleteRead(c) PROVE FreshSub(s)'
  <2>1. PICK j : job' = [job EXCEPT ![c] = j]
    BY <1>2 DEF UpdateRead, DeleteRead
  <2>2. job[c].op # "publish" /\ sub' = sub /\ db' = db
    BY <1>2 DEF UpdateRead, DeleteRead, Begin, Idle
  <2> QED BY <2>1, <2>2, QuietKeepsFresh
<1>3. ASSUME NEW c \in Clients, UpdateWrite(c) PROVE FreshSub(s)'
  <2> DEFINE ev == [kind |-> "update", id |-> job[c].id, type |-> job[c].row.type]
  <2>1. /\ job[c].id \in Ids /\ Owned(job[c].id, job[c].row.type)
        /\ db' = [db EXCEPT ![job[c].id] = job[c].row]
    BY <1>3 DEF UpdateWrite, TypeOK, Jobs, OwnedRows
  <2>2. View(s, db) = View(s, db') \/ Relevant(s, ev)
    <3>1. ev.kind = "update" /\ ev.id = job[c].id /\ ev.type = job[c].row.type
      OBVIOUS
    <3>2. db \in [Ids -> Rows \cup {None}]
      BY DEF TypeOK
    <3> HIDE DEF ev
    <3> QED BY <2>1, <3>1, <3>2, OneRecordNotifies
  <2>3. View(s, db) = View(s, db') \/ \E i \in DOMAIN <<ev>> : Relevant(s, <<ev>>[i])
    BY <2>2
  <2> QED BY <1>3, <2>3, WriteKeepsFresh DEF UpdateWrite
<1>4. ASSUME NEW c \in Clients, UpdateGone(c) PROVE FreshSub(s)'
  BY <1>4, QuietKeepsFresh DEF UpdateGone, Finish
<1>5. ASSUME NEW c \in Clients, PatchEntities(c) PROVE FreshSub(s)'
  <2>1. PICK e \in Entities : \E events :
          /\ Owe(c, events)
          /\ \A id \in Ids : db'[id] # db[id] =>
               /\ db[id] # None /\ db'[id].type = db[id].type
               /\ db[id].type \in TagsOf(e)
               /\ \E i \in DOMAIN events :
                    events[i] = [kind |-> "bulk", type |-> db[id].type]
    BY <1>5, PatchEffect
  <2>0. PICK events :
          /\ Owe(c, events)
          /\ \A id \in Ids : db'[id] # db[id] =>
               /\ db[id] # None /\ db'[id].type = db[id].type
               /\ db[id].type \in TagsOf(e)
               /\ \E i \in DOMAIN events :
                    events[i] = [kind |-> "bulk", type |-> db[id].type]
    BY <2>1
  <2>2. ASSUME NEW id \in Ids, db'[id] # db[id],
               Watched(s, id, db[id]) \/ Watched(s, id, db'[id])
        PROVE  \E i \in DOMAIN events : Relevant(s, events[i])
    <3>1. db[id].type \in TagsOf(Watch[s].entity)
      <4>1. CASE Watch[s].id = All
        BY <2>0, <2>2, <4>1 DEF Watched
      <4>2. CASE Watch[s].id # All
        <5>1. Owned(id, db[id].type) /\ id \in IdsOf[Watch[s].entity]
          BY <2>0, <2>2, <4>2 DEF Watched, OwnedRows, Separate
        <5> QED BY <5>1, StoreAssumption DEF Owned, Separate
      <4> QED BY <4>1, <4>2
    <3> QED BY <2>0, <2>2, <3>1 DEF Relevant
  <2>3. Watch[s].id # All => Watch[s].id \in Ids
    BY StoreAssumption
  <2>4. View(s, db) = View(s, db') \/ \E i \in DOMAIN events : Relevant(s, events[i])
    BY <2>2, <2>3, ViewDepends
  <2>5. job[c].op # "publish" /\ sub' = sub
    BY <1>5 DEF PatchEntities, Begin, Idle
  <2> QED BY <2>0, <2>4, <2>5, WriteKeepsFresh
<1>6. ASSUME NEW c \in Clients, DeleteWrite(c) PROVE FreshSub(s)'
  <2> DEFINE ev == [kind |-> "delete", id |-> job[c].id, type |-> job[c].type]
  <2>1. /\ job[c].id \in Ids /\ (job[c].type = None \/ Owned(job[c].id, job[c].type))
        /\ db' = [db EXCEPT ![job[c].id] = None]
    BY <1>6 DEF DeleteWrite, TypeOK, Jobs, OwnedRows
  <2>2. View(s, db) = View(s, db') \/ Relevant(s, ev)
    <3>1. ev.kind = "delete" /\ ev.id = job[c].id /\ ev.type = job[c].type
      OBVIOUS
    <3>2. db \in [Ids -> Rows \cup {None}]
      BY DEF TypeOK
    <3> HIDE DEF ev
    <3> QED BY <2>1, <3>1, <3>2, OneRecordNotifies
  <2>3. View(s, db) = View(s, db') \/ \E i \in DOMAIN <<ev>> : Relevant(s, <<ev>>[i])
    BY <2>2
  <2> QED BY <1>6, <2>3, WriteKeepsFresh DEF DeleteWrite
<1>7. ASSUME NEW c \in Clients, Publish(c) PROVE FreshSub(s)'
  BY <1>7, PublishKeepsFresh
<1>8. ASSUME NEW c \in Clients, Abort(c) PROVE FreshSub(s)'
  BY <1>8 DEF Abort
<1>9. ASSUME NEW t \in Subscribers, Subscribe(t) \/ Unsubscribe(t) \/ Stream(t)
      PROVE  FreshSub(s)'
  <2>1. db' = db /\ job' = job
    BY <1>9 DEF Subscribe, Unsubscribe, Stream, Reload, Emit, EndInError, Receive, Step
  <2>2. CASE t # s
    <3>1. sub'[s] = sub[s]
      BY <1>9, <2>2 DEF Subscribe, Unsubscribe, Stream, Reload, Emit, EndInError,
                        Receive, Step, TypeOK
    <3> QED BY <2>1, <3>1 DEF FreshSub, Notified
  <2>3. CASE t = s
    <3>0. sub[s] \in Streams
      BY DEF TypeOK
    <3>1. CASE Subscribe(s) \/ Unsubscribe(s) \/ EndInError(s)
      <4>1. \/ sub'[s] = Nothing \/ sub'[s] = [Nothing EXCEPT !.phase = "load"]
            \/ sub'[s] = [sub[s] EXCEPT !.phase = "ended", !.queue = <<>>, !.value = None]
        BY <3>1 DEF Subscribe, Unsubscribe, EndInError, Step, TypeOK
      <4>2. /\ Nothing.phase = "off" /\ [Nothing EXCEPT !.phase = "load"].phase = "load"
            /\ [sub[s] EXCEPT !.phase = "ended", !.queue = <<>>, !.value = None].phase = "ended"
        BY <3>0 DEF Nothing, Streams
      <4>3. sub'[s].phase \in {"off", "load", "ended"}
        BY <4>1, <4>2
      <4> QED BY <4>3 DEF FreshSub
    <3>2. CASE Reload(s)
      <4>1. sub'[s] = [sub[s] EXCEPT !.phase = "emit", !.value = View(s, db)]
        BY <3>2 DEF Reload, Step, TypeOK
      <4>2. sub'[s].phase = "emit" /\ sub'[s].value = View(s, db)
        BY <3>0, <4>1 DEF Streams
      <4> QED BY <2>1, <4>2 DEF FreshSub
    <3>3. CASE Emit(s)
      <4>1. sub'[s] = [sub[s] EXCEPT !.phase = "idle", !.shown = sub[s].value, !.value = None]
        BY <3>3 DEF Emit, Step, TypeOK
      <4>2. /\ sub'[s].phase = "idle" /\ sub'[s].shown = sub[s].value
            /\ sub'[s].queue = sub[s].queue
        BY <3>0, <4>1 DEF Streams
      <4>3. Notified(s) => Notified(s)'
        BY <2>1, <4>2 DEF Notified
      <4> QED BY <2>1, <3>3, <4>2, <4>3 DEF FreshSub, Emit
    <3>4. CASE Receive(s)
      <4> DEFINE queue == sub[s].queue
                 phase == IF Relevant(s, Head(queue)) THEN "load" ELSE "idle"
      <4>1. sub'[s] = [sub[s] EXCEPT !.queue = Tail(queue), !.phase = phase]
        BY <3>4 DEF Receive, Step, TypeOK
      <4>2. /\ sub'[s].phase = phase /\ sub'[s].shown = sub[s].shown
            /\ sub'[s].queue = Tail(queue)
        BY <3>0, <4>1 DEF Streams
      <4>3. queue \in Seq(Events) /\ queue # <<>>
        BY <3>0, <3>4 DEF Receive, Streams
      <4>4. ASSUME ~Relevant(s, Head(queue)), Notified(s) PROVE Notified(s)'
        <5>1. CASE \E i \in DOMAIN queue : Relevant(s, queue[i])
          <6>1. PICK i \in DOMAIN queue : Relevant(s, queue[i])
            BY <5>1
          <6>2. i # 1
            BY <4>3, <4>4, <6>1
          <6>3. i - 1 \in DOMAIN Tail(queue) /\ Tail(queue)[i - 1] = queue[i]
            BY <4>3, <6>1, <6>2
          <6> QED BY <4>2, <6>1, <6>3 DEF Notified
        <5>2. CASE \E c \in Clients : /\ job[c].op = "publish"
                                      /\ \E i \in DOMAIN job[c].events :
                                           Relevant(s, job[c].events[i])
          BY <2>1, <5>2 DEF Notified
        <5> QED BY <4>4, <5>1, <5>2 DEF Notified
      <4> QED BY <2>1, <3>4, <4>2, <4>4 DEF FreshSub, Receive
    <3> QED BY <1>9, <2>3, <3>1, <3>2, <3>3, <3>4 DEF Stream
  <2> QED BY <2>2, <2>3
<1>10. CASE UNCHANGED vars
  BY <1>10 DEF vars, FreshSub, Notified
<1> QED BY <1>1, <1>2, <1>3, <1>4, <1>5, <1>6, <1>7, <1>8, <1>9, <1>10
        DEF Next, Mutate, Continue

(* Subscriptions keep their promise (store.ts:263-267, 287-291): a stream   *)
(* that waits has emitted the present state of what it watches, or an       *)
(* event is on its way to it.  Two things are asked: entities share neither *)
(* schemas nor ids, and a mutation that wrote also publishes.  MCStore with *)
(* its overlapping constants, or with MayAbort TRUE, shows that neither     *)
(* can be dropped.                                                          *)
THEOREM SubscribersStayFresh ==
  ASSUME ValidIsData, Separate, MayAbort = FALSE
  PROVE  Spec => []Fresh
<1>1. Init => FreshInv
  <2> SUFFICES ASSUME Init PROVE FreshInv
    OBVIOUS
  <2>1. Nothing \in Streams
    BY EmptySeq DEF Nothing, Streams, Views
  <2>2. TypeOK
    BY <2>1, StoreAssumption DEF Init, TypeOK, Idle, Jobs
  <2>3. OwnedRows
    BY DEF Init, OwnedRows, Idle
  <2>4. \A s \in Subscribers : FreshSub(s)
    BY DEF Init, FreshSub, Nothing
  <2> QED BY <2>2, <2>3, <2>4 DEF FreshInv
<1>2. FreshInv /\ [Next]_vars => FreshInv'
  BY TypeStep, OwnedStep, FreshStep DEF FreshInv
<1>3. FreshInv => Fresh
  BY DEF FreshInv, FreshSub, Fresh
<1> QED BY <1>1, <1>2, <1>3, PTL DEF Spec

-----------------------------------------------------------------------------
(* What store.ts:243 asks of the callers of patchEntities: the patch fits   *)
(* the schemas, so that valid data it is merged into stays valid.           *)
PatchesFit ==
  \A tag \in Types, patch \in Patches : \A data :
    Valid(tag, data) =>
      Valid(tag, Spread(data, Restrict(patch, DOMAIN patch \cap FieldsOf[tag])))

(* A row is validated before the write and written later: the row that an  *)
(* update carries across its await is part of the obligation.               *)
StoredInv ==
  /\ StoredValid
  /\ \A c \in Clients : job[c].op = "update" => Valid(job[c].row.type, job[c].row.data)

(* Patching rewrites rows that are there, each by the same patch.           *)
LEMMA PatchRows ==
  ASSUME NEW c \in Clients, PatchEntities(c)
  PROVE  \E patch \in Patches : \E events :
           /\ Owe(c, events)
           /\ \A id \in Ids : db'[id] # db[id] =>
                db[id] # None /\ db'[id] = Patched(db[id], patch)
<1>1. PICK e \in Entities, patch \in Patches, filters \in Filterings :
        LET tags == PatchTags(e, patch, filters)
            hit  == {id \in Ids : /\ db[id] # None
                                  /\ db[id].type \in tags
                                  /\ Matches(db[id].data, filters)}
        IN  /\ db' = [id \in Ids |-> IF id \in hit THEN Patched(db[id], patch)
                                     ELSE db[id]]
            /\ \E order \in Surjection(1..Cardinality(tags), tags) :
                 Owe(c, [i \in 1..Cardinality(tags) |->
                           [kind |-> "bulk", type |-> order[i]]])
  BY DEF PatchEntities
<1>2. PICK events : Owe(c, events)
  BY <1>1
<1>3. \A id \in Ids : db'[id] # db[id] =>
        db[id] # None /\ db'[id] = Patched(db[id], patch)
  BY <1>1
<1> QED BY <1>2, <1>3

(* No step writes, or prepares to write, an invalid row.                    *)
LEMMA StoredStep ==
  ASSUME PatchesFit, TypeOK, StoredInv, [Next]_vars PROVE StoredInv'
<1> USE DEF StoredInv, StoredValid
<1>1. ASSUME NEW c \in Clients, SaveEntity(c) PROVE StoredInv'
  <2>1. PICK e \in Entities :
          \E tag \in TagsOf(e), id \in IdsOf[e], data \in Payloads :
            /\ Valid(tag, data)
            /\ db' = [db EXCEPT ![id] = [type |-> tag, data |-> data]]
            /\ Owe(c, <<[kind |-> "put", id |-> id, type |-> tag]>>)
    BY <1>1 DEF SaveEntity
  <2>2. PICK tag \in TagsOf(e), id \in IdsOf[e], data \in Payloads :
          /\ Valid(tag, data)
          /\ db' = [db EXCEPT ![id] = [type |-> tag, data |-> data]]
          /\ Owe(c, <<[kind |-> "put", id |-> id, type |-> tag]>>)
    BY <2>1
  <2> DEFINE row == [type |-> tag, data |-> data]
  <2>3. Valid(row.type, row.data)
    BY <2>2
  <2>4. db' = [db EXCEPT ![id] = row]
    BY <2>2
  <2> HIDE DEF row
  <2>5. StoredValid'
    BY <2>3, <2>4 DEF TypeOK
  <2> QED BY <2>2, <2>5 DEF Owe, TypeOK
<1>2. ASSUME NEW c \in Clients, UpdateRead(c) PROVE StoredInv'
  <2>1. PICK e \in Entities :
          \E as \in TagsOf(e), id \in IdsOf[e] : \E given, mode, newData :
            /\ Valid(as, newData)
            /\ job' = [job EXCEPT ![c] = [op |-> "update", id |-> id,
                         row |-> [type |-> as, data |-> newData],
                         given |-> given, mode |-> mode]]
    BY <1>2 DEF UpdateRead
  <2>2. PICK as \in TagsOf(e), id \in IdsOf[e] : \E given, mode, newData :
          /\ Valid(as, newData)
          /\ job' = [job EXCEPT ![c] = [op |-> "update", id |-> id,
                       row |-> [type |-> as, data |-> newData],
                       given |-> given, mode |-> mode]]
    BY <2>1
  <2>3. PICK given, mode, newData :
          /\ Valid(as, newData)
          /\ job' = [job EXCEPT ![c] = [op |-> "update", id |-> id,
                       row |-> [type |-> as, data |-> newData],
                       given |-> given, mode |-> mode]]
    BY <2>2
  <2> QED BY <1>2, <2>3 DEF UpdateRead, TypeOK
<1>3. ASSUME NEW c \in Clients, UpdateWrite(c) PROVE StoredInv'
  BY <1>3 DEF UpdateWrite, Owe, TypeOK
<1>4. ASSUME NEW c \in Clients, UpdateGone(c) \/ Abort(c) PROVE StoredInv'
  BY <1>4 DEF UpdateGone, Abort, Finish, Idle, TypeOK
<1>5. ASSUME NEW c \in Clients, PatchEntities(c) PROVE StoredInv'
  <2>0. PICK patch \in Patches : \E events :
          /\ Owe(c, events)
          /\ \A id \in Ids : db'[id] # db[id] =>
               db[id] # None /\ db'[id] = Patched(db[id], patch)
    BY <1>5, PatchRows
  <2>1. PICK events :
          /\ Owe(c, events)
          /\ \A id \in Ids : db'[id] # db[id] =>
               db[id] # None /\ db'[id] = Patched(db[id], patch)
    BY <2>0
  <2>2. ASSUME NEW id \in Ids, db'[id] # db[id]
        PROVE  Valid(db'[id].type, db'[id].data)
    <3>1. db[id] # None /\ db'[id] = Patched(db[id], patch) /\ db[id] \in Rows
      BY <2>1, <2>2 DEF TypeOK
    <3>2. /\ db'[id].type = db[id].type
          /\ db'[id].data = Spread(db[id].data,
                Restrict(patch, DOMAIN patch \cap FieldsOf[db[id].type]))
      BY <3>1 DEF Patched, Rows
    <3>3. Valid(db[id].type, db[id].data) /\ db[id].type \in Types
      BY <3>1 DEF Rows
    <3> QED BY <3>2, <3>3 DEF PatchesFit
  <2>3. StoredValid'
    BY <2>2
  <2> QED BY <2>1, <2>3 DEF Owe, TypeOK
<1>6. ASSUME NEW c \in Clients, DeleteRead(c) PROVE StoredInv'
  <2>1. PICK id \in Ids :
          job' = [job EXCEPT ![c] = [op |-> "delete", id |-> id,
                    type |-> IF db[id] = None THEN None ELSE db[id].type]]
    BY <1>6 DEF DeleteRead
  <2> QED BY <1>6, <2>1 DEF DeleteRead, TypeOK
<1>7. ASSUME NEW c \in Clients, DeleteWrite(c) PROVE StoredInv'
  BY <1>7 DEF DeleteWrite, Owe, TypeOK
<1>8. ASSUME NEW c \in Clients, Publish(c) PROVE StoredInv'
  BY <1>8 DEF Publish, Owe, Finish, Idle, TypeOK
<1>9. ASSUME NEW s \in Subscribers, Subscribe(s) \/ Stream(s) \/ Unsubscribe(s)
      PROVE  StoredInv'
  BY <1>9 DEF Subscribe, Stream, Reload, Emit, EndInError, Receive, Unsubscribe, Step
<1>10. CASE UNCHANGED vars
  BY <1>10 DEF vars
<1> QED BY <1>1, <1>2, <1>3, <1>4, <1>5, <1>6, <1>7, <1>8, <1>9, <1>10
        DEF Next, Mutate, Continue

(* The types and the validity of what is stored, for any bounds and with    *)
(* mutations that are cut off.                                              *)
LEMMA InitTyped == Init => TypeOK /\ StoredInv
<1> SUFFICES ASSUME Init PROVE TypeOK /\ StoredInv
  OBVIOUS
<1>1. Nothing \in Streams
  BY EmptySeq DEF Nothing, Streams, Views
<1>2. TypeOK
  BY <1>1, StoreAssumption DEF Init, TypeOK, Idle, Jobs
<1>3. StoredInv
  BY DEF Init, StoredInv, StoredValid, Idle
<1> QED BY <1>2, <1>3

(* Every stored row decodes as its schema (store.ts:445-449, 540-545), in   *)
(* spite of the await between the validation of an update and its write,    *)
(* and of unvalidated projections and patches.                              *)
THEOREM StoredStaysValid ==
  ASSUME ValidIsData, PatchesFit PROVE Spec => []StoredValid
<1>1. Init => TypeOK /\ StoredInv
  BY InitTyped
<1>2. TypeOK /\ StoredInv /\ [Next]_vars => TypeOK' /\ StoredInv'
  BY TypeStep, StoredStep
<1>3. StoredInv => StoredValid
  BY DEF StoredInv
<1> QED BY <1>1, <1>2, <1>3, PTL DEF Spec

-----------------------------------------------------------------------------
(* What a subscriber is given is of the schema it asked for.                *)
Fits(s, value) ==
  IF Watch[s].id # All THEN Valid(Watch[s].as, value)
  ELSE \A id \in DOMAIN value : Valid(Watch[s].as, value[id])

(* What was read and waits to be emitted is valid too, unless it is the     *)
(* failure that will end the stream.                                        *)
ShownInv ==
  \A s \in Subscribers :
    /\ sub[s].phase = "emit" => sub[s].value \in {None, Failure} \/ Fits(s, sub[s].value)
    /\ sub[s].shown = None \/ Fits(s, sub[s].shown)

(* A read of a store of valid rows is valid: rows of the asked schema are   *)
(* valid as stored, the others are validated once converted.                *)
LEMMA ViewFits ==
  ASSUME StoredValid, NEW s \in Subscribers
  PROVE  View(s, db) \in {None, Failure} \/ Fits(s, View(s, db))
<1> DEFINE w == Watch[s]
<1>1. ASSUME NEW id \in Ids
      PROVE  \/ db[id] = None /\ Load(db[id], w.as) = None
             \/ db[id] # None /\ Load(db[id], w.as) = Failure
             \/ db[id] # None /\ Valid(w.as, Load(db[id], w.as))
  BY DEF Load, StoredValid
<1>2. CASE w.id # All
  BY <1>1, <1>2, StoreAssumption DEF View, Fits
<1>3. CASE w.id = All
  <2> DEFINE rows == {id \in Ids : /\ db[id] # None
                                   /\ db[id].type \in {tag \in TagsOf(w.entity) :
                                                          Applicable(tag, w.filters)}
                                   /\ Matches(db[id].data, w.filters)}
  <2>1. View(s, db) = IF \E id \in rows : Load(db[id], w.as) = Failure THEN Failure
                      ELSE [id \in rows |-> Load(db[id], w.as)]
    BY <1>3 DEF View, LoadAll
  <2>2. \A id \in rows : Load(db[id], w.as) = Failure \/ Valid(w.as, Load(db[id], w.as))
    BY <1>1
  <2> HIDE DEF rows
  <2> QED BY <1>3, <2>1, <2>2 DEF Fits
<1> QED BY <1>2, <1>3

(* Streams hand on only what they read.                                     *)
LEMMA ShownStep ==
  ASSUME TypeOK, StoredValid, ShownInv, [Next]_vars PROVE ShownInv'
<1> USE DEF ShownInv
<1> SUFFICES ASSUME NEW s \in Subscribers
             PROVE  /\ sub'[s].phase = "emit" =>
                         sub'[s].value \in {None, Failure} \/ Fits(s, sub'[s].value)
                    /\ sub'[s].shown = None \/ Fits(s, sub'[s].shown)
  BY DEF Fits
<1>0. sub[s] \in Streams
  BY DEF TypeOK
<1>1. ASSUME NEW c \in Clients, Publish(c)
      PROVE  /\ sub'[s].phase = sub[s].phase /\ sub'[s].value = sub[s].value
             /\ sub'[s].shown = sub[s].shown
  <2>1. sub'[s] = sub[s] \/ \E q : sub'[s] = [sub[s] EXCEPT !.queue = q]
    BY <1>1 DEF Publish
  <2> QED BY <1>0, <2>1 DEF Streams
<1>2. ASSUME NEW c \in Clients, Mutate(c) \/ Continue(c) \/ Abort(c), ~Publish(c)
      PROVE  sub' = sub
  BY <1>2 DEF Mutate, Continue, Abort, SaveEntity, UpdateRead, PatchEntities,
              DeleteRead, UpdateWrite, UpdateGone, DeleteWrite
<1>3. ASSUME NEW t \in Subscribers, Subscribe(t) \/ Stream(t) \/ Unsubscribe(t), t # s
      PROVE  sub'[s] = sub[s]
  BY <1>3 DEF Subscribe, Stream, Reload, Emit, EndInError, Receive, Unsubscribe,
              Step, TypeOK
<1>4. CASE Subscribe(s) \/ Unsubscribe(s)
  <2>1. sub'[s] = Nothing \/ sub'[s] = [Nothing EXCEPT !.phase = "load"]
    BY <1>4 DEF Subscribe, Unsubscribe, Step, TypeOK
  <2>2. /\ Nothing.phase = "off" /\ Nothing.shown = None
        /\ [Nothing EXCEPT !.phase = "load"].phase = "load"
        /\ [Nothing EXCEPT !.phase = "load"].shown = None
    BY DEF Nothing
  <2> QED BY <2>1, <2>2
<1>5. CASE Reload(s)
  <2>1. sub'[s] = [sub[s] EXCEPT !.phase = "emit", !.value = View(s, db)]
    BY <1>5 DEF Reload, Step, TypeOK
  <2>2. sub'[s].value = View(s, db) /\ sub'[s].shown = sub[s].shown
    BY <1>0, <2>1 DEF Streams
  <2> QED BY <2>2, ViewFits
<1>6. CASE Emit(s)
  <2>1. sub'[s] = [sub[s] EXCEPT !.phase = "idle", !.shown = sub[s].value, !.value = None]
    BY <1>6 DEF Emit, Step, TypeOK
  <2>2. sub'[s].phase = "idle" /\ sub'[s].shown = sub[s].value
    BY <1>0, <2>1 DEF Streams
  <2> QED BY <1>6, <2>2 DEF Emit
<1>7. CASE EndInError(s)
  <2>1. sub'[s] = [sub[s] EXCEPT !.phase = "ended", !.queue = <<>>, !.value = None]
    BY <1>7 DEF EndInError, Step, TypeOK
  <2>2. sub'[s].phase = "ended" /\ sub'[s].shown = sub[s].shown
    BY <1>0, <2>1 DEF Streams
  <2> QED BY <2>2
<1>8. CASE Receive(s)
  <2> DEFINE phase == IF Relevant(s, Head(sub[s].queue)) THEN "load" ELSE "idle"
  <2>1. sub'[s] = [sub[s] EXCEPT !.queue = Tail(sub[s].queue), !.phase = phase]
    BY <1>8 DEF Receive, Step, TypeOK
  <2>2. sub'[s].phase = phase /\ sub'[s].shown = sub[s].shown
    BY <1>0, <2>1 DEF Streams
  <2> QED BY <2>2
<1>9. CASE UNCHANGED vars
  BY <1>9 DEF vars
<1>10. CASE \E c \in Clients : Mutate(c) \/ Continue(c) \/ Abort(c)
  BY <1>1, <1>2, <1>10
<1>11. CASE \E t \in Subscribers : Subscribe(t) \/ Stream(t) \/ Unsubscribe(t)
  BY <1>3, <1>4, <1>5, <1>6, <1>7, <1>8, <1>11 DEF Stream
<1> QED BY <1>9, <1>10, <1>11 DEF Next

(* Nothing a subscriber is given violates the schema it asked for           *)
(* (store.ts:376-399, 735-799): rows of that very schema need no validation *)
(* because none is stored that would fail it.                               *)
THEOREM ShownStaysValid ==
  ASSUME ValidIsData, PatchesFit PROVE Spec => []ShownValid
<1>1. Init => TypeOK /\ StoredInv /\ ShownInv
  <2>1. Init => ShownInv
    BY DEF Init, Nothing, ShownInv
  <2> QED BY <2>1, InitTyped
<1>2. TypeOK /\ StoredInv /\ ShownInv /\ [Next]_vars => TypeOK' /\ StoredInv' /\ ShownInv'
  BY TypeStep, StoredStep, ShownStep DEF StoredInv
<1>3. ShownInv => ShownValid
  BY DEF ShownInv, ShownValid, Fits
<1> QED BY <1>1, <1>2, <1>3, PTL DEF Spec

-----------------------------------------------------------------------------
(* Where there was no record, only a save puts one.                         *)
LEMMA OnlySaveStep ==
  ASSUME TypeOK, [Next]_vars, NEW id \in Ids, db[id] = None, db'[id] # None
  PROVE  \E c \in Clients : /\ job[c] = Idle
                            /\ job'[c].op = "publish"
                            /\ job'[c].events[1].kind = "put"
                            /\ job'[c].events[1].id = id
<1>1. ASSUME NEW c \in Clients, SaveEntity(c)
      PROVE  /\ job[c] = Idle
             /\ job'[c].op = "publish"
             /\ job'[c].events[1].kind = "put"
             /\ job'[c].events[1].id = id
  <2>1. PICK e \in Entities :
          \E tag \in TagsOf(e), i \in IdsOf[e], data \in Payloads :
            /\ db' = [db EXCEPT ![i] = [type |-> tag, data |-> data]]
            /\ Owe(c, <<[kind |-> "put", id |-> i, type |-> tag]>>)
    BY <1>1 DEF SaveEntity
  <2>2. PICK tag \in TagsOf(e), i \in IdsOf[e], data \in Payloads :
          /\ db' = [db EXCEPT ![i] = [type |-> tag, data |-> data]]
          /\ Owe(c, <<[kind |-> "put", id |-> i, type |-> tag]>>)
    BY <2>1
  <2>3. i = id
    BY <2>2 DEF TypeOK
  <2>4. job'[c] = [op |-> "publish", events |-> <<[kind |-> "put", id |-> i, type |-> tag]>>]
    BY <2>2 DEF Owe, TypeOK
  <2> QED BY <1>1, <2>3, <2>4 DEF SaveEntity, Begin
<1>2. ASSUME NEW c \in Clients, PatchEntities(c) PROVE FALSE
  BY <1>2, PatchRows
<1>3. ASSUME NEW c \in Clients, UpdateWrite(c) PROVE FALSE
  BY <1>3 DEF UpdateWrite, TypeOK
<1>4. ASSUME NEW c \in Clients, DeleteWrite(c) PROVE FALSE
  BY <1>4 DEF DeleteWrite, TypeOK
<1>5. ASSUME NEW c \in Clients,
             UpdateRead(c) \/ DeleteRead(c) \/ UpdateGone(c) \/ Publish(c) \/ Abort(c)
      PROVE  FALSE
  BY <1>5 DEF UpdateRead, DeleteRead, UpdateGone, Publish, Abort
<1>6. ASSUME NEW s \in Subscribers, Subscribe(s) \/ Stream(s) \/ Unsubscribe(s)
      PROVE  FALSE
  BY <1>6 DEF Subscribe, Stream, Reload, Emit, EndInError, Receive, Unsubscribe, Step
<1>7. CASE UNCHANGED vars
  BY <1>7 DEF vars
<1> QED BY <1>1, <1>2, <1>3, <1>4, <1>5, <1>6, <1>7 DEF Next, Mutate, Continue

(* A deleted record does not come back through a mutation that read it      *)
(* before the deletion (store.ts:505-560, 574-660).                         *)
THEOREM SavesAloneCreate == ASSUME ValidIsData PROVE Spec => OnlySaveCreates
<1>1. Init => TypeOK
  BY InitTyped
<1>2. TypeOK /\ [Next]_vars => TypeOK'
  BY TypeStep
<1>3. TypeOK /\ [Next]_vars =>
        [\A id \in Ids : db[id] = None /\ db'[id] # None =>
           \E c \in Clients : /\ job[c] = Idle
                              /\ job'[c].op = "publish"
                              /\ job'[c].events[1].kind = "put"
                              /\ job'[c].events[1].id = id]_vars
  BY OnlySaveStep
<1> QED BY <1>1, <1>2, <1>3, PTL DEF Spec, OnlySaveCreates

=============================================================================
