------------------------------ MODULE LensGraph ------------------------------
(***************************************************************************)
(* LensGraph (packages/core/src/lens-graph.ts) as a state machine: lenses  *)
(* are registered, paths are looked up through a cache, in any order.      *)
(***************************************************************************)
EXTENDS LensPath, FiniteSets

CONSTANTS
  MaxLenses,   \* bound: lenses registered in a behaviour
  MaxCached    \* bound: paths the cache holds at a time

ASSUME BoundsAssumption == MaxLenses \in Nat /\ MaxCached \in Nat

VARIABLES
  adjacency,   \* type -> list of outgoing edges
  pathCache,   \* partial function <<from, to>> -> path or NoPath
  registered,  \* the lenses registered so far, in order (history)
  answer       \* the last lookup: [from, to, path], or NoAnswer

graphVars == <<adjacency, pathCache, registered, answer>>

NoAnswer == <<>>

GraphInit ==
  /\ adjacency = EmptyGraph
  /\ pathCache = [pair \in {} |-> NoPath]
  /\ registered = <<>>
  /\ answer = NoAnswer

(* Mutated: the paths found so far survive a new lens.                     *)
RegisterKeepingCache(lens) ==
  /\ Len(registered) < MaxLenses
  /\ adjacency' = Register(adjacency, lens)
  /\ registered' = Append(registered, lens)
  /\ UNCHANGED <<pathCache, answer>>

(* register: the edges are added and every cached path is dropped.         *)
RegisterLens(lens) ==
  /\ Len(registered) < MaxLenses
  /\ adjacency' = Register(adjacency, lens)
  /\ pathCache' = [pair \in {} |-> NoPath]
  /\ registered' = Append(registered, lens)
  /\ UNCHANGED answer

Answer(from, to, path) == answer' = [from |-> from, to |-> to, path |-> path]

(* Mutated: a cached null is taken for a miss and answered as the identity. *)
GetCachedNullAsIdentity(from, to) ==
  /\ from # to
  /\ <<from, to>> \in DOMAIN pathCache
  /\ Answer(from, to, IF pathCache[<<from, to>>] = NoPath THEN <<>>
                      ELSE pathCache[<<from, to>>])
  /\ UNCHANGED <<adjacency, pathCache, registered>>

(* getPath: the identity case never touches the cache; a cached null is an *)
(* answer like any other; a miss searches and remembers what it found.     *)
GetIdentity(from) ==
  /\ Answer(from, from, <<>>)
  /\ UNCHANGED <<adjacency, pathCache, registered>>

(* The key is the pair of types; the code's is one string, the two tags    *)
(* with an arrow between them, which is the same if no tag has an arrow.   *)
GetCached(from, to) ==
  /\ from # to
  /\ <<from, to>> \in DOMAIN pathCache
  /\ Answer(from, to, pathCache[<<from, to>>])
  /\ UNCHANGED <<adjacency, pathCache, registered>>

GetSearched(from, to) ==
  /\ from # to
  /\ <<from, to>> \notin DOMAIN pathCache
  /\ Cardinality(DOMAIN pathCache) < MaxCached
  /\ pathCache' = [pair \in DOMAIN pathCache \cup {<<from, to>>} |->
                     IF pair = <<from, to>> THEN Search(adjacency, from, to)
                     ELSE pathCache[pair]]
  /\ Answer(from, to, Search(adjacency, from, to))
  /\ UNCHANGED <<adjacency, registered>>

GraphNext ==
  \/ \E lens \in Lenses : RegisterLens(lens)
  \/ \E from, to \in Types :
       GetIdentity(from) \/ GetCached(from, to) \/ GetSearched(from, to)

GraphSpec == GraphInit /\ [][GraphNext]_graphVars

-----------------------------------------------------------------------------
(* Reference notions: walks along registered lenses, without any search.   *)

(* The types within k lenses of a.                                         *)
Reachable(a, lenses, k) ==
  LET within[n \in Nat] ==
        IF n = 0 THEN {a}
        ELSE LET nearer == within[n-1]
             IN  nearer \cup UNION {{l.from, l.to} : l \in {m \in ToSet(lenses) :
                                      {m.from, m.to} \cap nearer # {}}}
  IN  within[k]

(* A remembered path, or a remembered absence of a path, is the one that a *)
(* search of the present graph would return: register (lens-graph.ts:27)   *)
(* makes every earlier lookup, the failed ones above all, obsolete.        *)
CacheCurrent ==
  \A pair \in DOMAIN pathCache :
    pathCache[pair] = Search(adjacency, pair[1], pair[2])

(* getPath (lens-graph.ts:89) returns a chain of registered lenses, taken  *)
(* in the direction it claims, that leads from the first type to the       *)
(* second, and no chain of fewer lenses exists; it returns null only when  *)
(* no chain exists at all.  The answer is compared with the lenses         *)
(* registered, not with the adjacency lists built from them.               *)
Chain(path, from, to) ==
  /\ \A i \in 1..Len(path) :
       /\ path[i].fromType = IF i = 1 THEN from ELSE path[i-1].toType
       /\ \E l \in ToSet(registered) :
            /\ l.name = path[i].lens
            /\ IF path[i].dir = "forward"
               THEN path[i].fromType = l.from /\ path[i].toType = l.to
               ELSE path[i].fromType = l.to /\ path[i].toType = l.from
  /\ (IF path = <<>> THEN from ELSE path[Len(path)].toType) = to

ShortestPaths ==
  \A from, to \in Types :
    LET path == PathBetween(adjacency, from, to)
    IN  IF path = NoPath
        THEN to \notin Reachable(from, registered, Cardinality(Types))
        ELSE /\ Chain(path, from, to)
             /\ Len(path) > 0 => to \notin Reachable(from, registered, Len(path) - 1)

(* What a caller is told stays true until the next lens is registered: a   *)
(* lookup through the cache answers as a search would.                     *)
AnswersCurrent ==
  [][answer' # answer =>
       answer'.path = PathBetween(adjacency, answer'.from, answer'.to)]_graphVars

(* A record can be read as another version exactly when records of that    *)
(* version can be read as its own, over equally many lenses; and the       *)
(* connected types (getConnectedTypes) are exactly those with a path.      *)
ReadableBothWays ==
  \A a, b \in Types :
    LET there == PathBetween(adjacency, a, b)
        back  == PathBetween(adjacency, b, a)
    IN  /\ (there = NoPath) = (back = NoPath)
        /\ there # NoPath => Len(there) = Len(back)
        /\ b \in ConnectedTypes(adjacency, a) <=> there # NoPath

(* defineEntity (entity.ts:26) accepts an entity only if each of its       *)
(* versions can be read as the root schema and back: here the lenses       *)
(* registered so far are those of one entity.  The converse is the error   *)
(* it throws.                                                              *)
AcceptedEntityReadable ==
  \A root \in Types :
    Connected(root, registered) <=>
      \A tag \in EntityTags(root, registered) :
        /\ PathBetween(adjacency, tag, root) # NoPath
        /\ PathBetween(adjacency, root, tag) # NoPath
=============================================================================
