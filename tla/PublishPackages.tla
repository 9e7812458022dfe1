---------------------------- MODULE PublishPackages ----------------------------
(***************************************************************************)
(* scripts/publish-all.ts with publishPackage of publish-package.ts, run   *)
(* by the workflow publish.yml after each change of the main branch.  npm  *)
(* and GitHub are external: a call may fail, or be carried out and         *)
(* reported as failed.  A run may stop anywhere, and, as the workflow does *)
(* not wait for an earlier one, runs may overlap.                          *)
(*                                                                         *)
(* A version is its rank; 0 is the "0.0.0" of a package npm does not have. *)
(* The versions that workspace:* dependencies resolve to are those of the  *)
(* checkout.                                                               *)
(***************************************************************************)
EXTENDS Naturals, Sequences, FiniteSets, SequencesExt

CONSTANTS
  Packages,
  DepsOf,      \* package -> the packages of the workspace it depends on
  Runs,
  MaxVersion   \* bound: package -> its highest version

Versions == UNION {1..MaxVersion[p] : p \in Packages}

(* What npm has: a package, with the versions of its own dependencies.     *)
Artifacts == UNION {[package : {p}, version : Versions, needs : [DepsOf[p] -> Versions]] : p \in Packages}

ASSUME PublishAssumption ==
  /\ IsFiniteSet(Packages)
  /\ MaxVersion \in [Packages -> Nat \ {0}]
  /\ DepsOf \in [Packages -> SUBSET Packages]

VARIABLES
  mainVersion,  \* package -> its version on the main branch
  npm,       \* what is on npm
  latest,    \* package -> the version that npm names latest
  releases,  \* the <<package, version>> with a release on GitHub
  run,       \* run -> where it is
  lucky      \* auxiliary: the run that met no failure and no other run yet,
             \* and no package whose version npm has, but not as the latest

vars == <<mainVersion, npm, latest, releases, run, lucky>>

OnNpm(p, version) == \E a \in npm : a.package = p /\ a.version = version

Phases == {"off", "next", "preflight", "publish", "upload", "release", "done"}

Run == [phase : Phases, checkout : [Packages -> Versions], left : Seq(Packages),
        justPublished : SUBSET Packages, blocked : SUBSET Packages]

(* No script runs; the workflow can repeat the run of its checkout.        *)
Off(checkout) ==
  [phase |-> "off", checkout |-> checkout, left |-> <<>>, justPublished |-> {}, blocked |-> {}]

(* The variables keep their types.                                         *)
TypeOK ==
  /\ mainVersion \in [Packages -> Versions]
  /\ npm \subseteq Artifacts
  /\ latest \in [Packages -> Versions \cup {0}]
  /\ releases \subseteq Packages \X Versions
  /\ run \in [Runs -> Run]
  /\ lucky \subseteq Runs

Init ==
  /\ mainVersion = [p \in Packages |-> 1]
  /\ npm = {} /\ releases = {}
  /\ latest = [p \in Packages |-> 0]
  /\ run = [r \in Runs |-> Off(mainVersion)]
  /\ lucky = {}

Active(r) == run[r].phase \notin {"off", "done"}

-----------------------------------------------------------------------------
(* Mutated: the packages in the order in which they are found.             *)
SortedAsFound(packages) == packages

(* Those of the packages that are in S join the queue, as they are listed. *)
Joining(queue, packages, S) ==
  LET join(waiting, p) == IF p \in S THEN Append(waiting, p) ELSE waiting
  IN  FoldLeft(join, queue, packages)

SortStates == [queue : Seq(Packages), sorted : Seq(Packages)]

(* topologicalSort, Kahn's algorithm: shorter than the list it is given if *)
(* the dependencies have a cycle.  A package has no dependency left to     *)
(* wait for when the last of them has just been sorted.                    *)
Sorted(packages) ==
  LET kahn[state \in SortStates] ==
        IF state.queue = <<>> THEN state.sorted
        ELSE LET current == Head(state.queue)
                 done == Append(state.sorted, current)
                 freed == {p \in Packages : current \in DepsOf[p] /\ DepsOf[p] \subseteq ToSet(done)}
             IN  kahn[[queue |-> Joining(Tail(state.queue), packages, freed), sorted |-> done]]
      free == {p \in Packages : DepsOf[p] = {}}
  IN  kahn[[queue |-> Joining(<<>>, packages, free), sorted |-> <<>>]]

(* The directory is listed in no particular order.                         *)
Listings == {order \in [1..Cardinality(Packages) -> Packages] : ToSet(order) = Packages}

(* If a cycle leaves packages out, the script ends here.                   *)
PublishOrders == {Sorted(order) : order \in Listings} \cap Listings

(* Mutated: only a package that npm does not have at all is published.     *)
ShouldPublishNew(local, seen) == seen = 0

ShouldPublish(local, seen) == local # seen

(* getNpmVersion: an error of any kind is taken for a package that npm     *)
(* does not have.                                                          *)
Seen(p) == {latest[p], 0}

(* Mutated: that there is no tarball goes unnoticed.                       *)
TarballMissing(version) == 0

(* What bun pm pack makes of a package, in a directory without others.     *)
Tarball(version) == version

-----------------------------------------------------------------------------
Goto(r, phase) == run' = [run EXCEPT ![r].phase = phase]

Package(r) == Head(run[r].left)

Version(r) == run[r].checkout[Package(r)]

(* Mutated: a package counts as published whether or not it was.           *)
BlockAnyway(r) ==
  run' = [run EXCEPT ![r].phase = "next", ![r].left = Tail(@),
                     ![r].justPublished = @ \cup {Package(r)}]

Block(r) ==
  run' = [run EXCEPT ![r].phase = "next", ![r].left = Tail(@),
                     ![r].blocked = @ \cup {Package(r)}]

Publish(r) ==
  run' = [run EXCEPT ![r].phase = "next", ![r].left = Tail(@),
                     ![r].justPublished = @ \cup {Package(r)}]

outside == <<mainVersion, npm, latest, releases>>

(* A change of the main branch gives a package its next version.           *)
Bump(p) ==
  /\ mainVersion[p] < MaxVersion[p]
  /\ mainVersion' = [mainVersion EXCEPT ![p] = @ + 1]
  /\ UNCHANGED <<npm, latest, releases, run, lucky>>

(* Nothing keeps this checkout from being published: none of its versions  *)
(* is on npm without being the latest.                                     *)
Clear(checkout) == \A p \in Packages : OnNpm(p, checkout[p]) => latest[p] = checkout[p]

(* The workflow takes the main branch, or repeats an earlier run with its  *)
(* checkout.                                                               *)
Start(r) ==
  /\ ~ Active(r)
  /\ \E order \in PublishOrders, checkout \in {mainVersion, run[r].checkout} :
       /\ run' = [run EXCEPT ![r] = [phase |-> "next", checkout |-> checkout, left |-> order,
                                     justPublished |-> {}, blocked |-> {}]]
       /\ lucky' = IF Clear(checkout) /\ \A s \in Runs \ {r} : ~ Active(s) THEN {r} ELSE {}
  /\ UNCHANGED outside

SkipBlocked(r) ==
  /\ run[r].phase = "next" /\ run[r].left # <<>>
  /\ DepsOf[Package(r)] \cap run[r].blocked # {}
  /\ Block(r)
  /\ UNCHANGED <<outside, lucky>>

(* Looking a package up keeps the run's luck if npm answers.               *)
LookedUp(r, p, seen) == lucky' = IF seen = latest[p] THEN lucky ELSE lucky \ {r}

LookUp(r) ==
  /\ run[r].phase = "next" /\ run[r].left # <<>>
  /\ DepsOf[Package(r)] \cap run[r].blocked = {}
  /\ \E seen \in Seen(Package(r)) :
       /\ IF ShouldPublish(Version(r), seen) THEN Goto(r, "preflight") ELSE Publish(r)
       /\ LookedUp(r, Package(r), seen)
  /\ UNCHANGED outside

(* preflightCheck: the dependencies that this run did not see published    *)
(* are looked up.  Sorted packages leave it none to look up.               *)
Unseen(r) == DepsOf[Package(r)] \ run[r].justPublished

Preflight(r) ==
  /\ run[r].phase = "preflight"
  /\ \E seen \in [Unseen(r) -> Versions \cup {0}] :
       /\ \A d \in Unseen(r) : seen[d] \in Seen(d)
       /\ IF \A d \in Unseen(r) : seen[d] = run[r].checkout[d] THEN Goto(r, "publish") ELSE Block(r)
  /\ UNCHANGED <<outside, lucky>>

(* publishPackage looks the package up again.                              *)
LookUpAgain(r) ==
  /\ run[r].phase = "publish"
  /\ \E seen \in Seen(Package(r)) :
       /\ IF ShouldPublish(Version(r), seen) THEN Goto(r, "upload") ELSE Publish(r)
       /\ LookedUp(r, Package(r), seen)
  /\ UNCHANGED outside

(* npm takes a version that it does not have, and makes it the latest.     *)
Accept(r) ==
  LET p == Package(r)
      version == Tarball(Version(r))
  IN
  /\ run[r].phase = "upload" /\ ~ OnNpm(p, version)
  /\ npm' = npm \cup {[package |-> p, version |-> version,
                         needs |-> [d \in DepsOf[p] |-> run[r].checkout[d]]]}
  /\ latest' = [latest EXCEPT ![p] = version]
  /\ UNCHANGED <<mainVersion, releases>>

Upload(r) == Accept(r) /\ Goto(r, "release") /\ UNCHANGED lucky

(* The package is on npm, and npm publish reports an error.                *)
UploadReportedFailed(r) == Accept(r) /\ Block(r) /\ lucky' = lucky \ {r}

UploadRefused(r) ==
  /\ run[r].phase = "upload" /\ OnNpm(Package(r), Tarball(Version(r)))
  /\ Block(r)
  /\ UNCHANGED <<outside, lucky>>

Release(r) ==
  /\ run[r].phase = "release"
  /\ releases' = releases \cup {<<Package(r), Version(r)>>}
  /\ Publish(r)
  /\ UNCHANGED <<mainVersion, npm, latest, lucky>>

(* bun pm pack, npm publish, the release notes or gh fail.                 *)
Fails(r) ==
  /\ run[r].phase \in {"upload", "release"}
  /\ Block(r)
  /\ lucky' = lucky \ {r}
  /\ UNCHANGED outside

End(r) ==
  /\ run[r].phase = "next" /\ run[r].left = <<>>
  /\ Goto(r, "done")
  /\ UNCHANGED <<outside, lucky>>

Stop(r) ==
  /\ Active(r)
  /\ run' = [run EXCEPT ![r] = Off(run[r].checkout)]
  /\ lucky' = lucky \ {r}
  /\ UNCHANGED outside

Next ==
  \/ \E p \in Packages : Bump(p)
  \/ \E r \in Runs :
       \/ Start(r) \/ SkipBlocked(r) \/ LookUp(r) \/ Preflight(r) \/ LookUpAgain(r)
       \/ Upload(r) \/ UploadReportedFailed(r) \/ UploadRefused(r)
       \/ Release(r) \/ Fails(r) \/ End(r) \/ Stop(r)

Spec == Init /\ [][Next]_vars
-----------------------------------------------------------------------------
(* Whoever installs a package from npm finds its dependencies there, in    *)
(* the versions it was built with (publish-all.ts:6-9): whatever fails or  *)
(* stops half way, is repeated or overlaps.                                *)
DependenciesFirst ==
  \A a \in npm : \A d \in DepsOf[a.package] : OnNpm(d, a.needs[d])

(* A run that ends without an error (publish-all.ts:210) leaves every      *)
(* package of its checkout on npm.                                         *)
SuccessMeansPublished ==
  \A r \in Runs : run[r].phase = "done" /\ run[r].blocked = {} =>
    \A p \in Packages : OnNpm(p, run[r].checkout[p])

(* A run repairs what earlier ones left undone, wherever they failed or    *)
(* stopped: if nothing fails and no other run is there, it publishes every *)
(* package in one go, and npm then names the versions of its checkout.  It *)
(* takes that npm has none of them under another latest version.           *)
RerunCompletes ==
  \A r \in lucky :
    /\ run[r].blocked = {}
    /\ run[r].phase = "done" => latest = run[r].checkout
=============================================================================
