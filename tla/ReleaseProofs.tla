---------------------------- MODULE ReleaseProofs ----------------------------
(***************************************************************************)
(* Proofs about the scripts of a release: PublishPackages, for any         *)
(* packages with any dependencies and any number of runs that overlap,     *)
(* fail and stop; and Changelog, for any fragments, any number of          *)
(* developers who run the script, and any number of pushes and failures.   *)
(***************************************************************************)
EXTENDS PublishPackages, Changelog, Loops

-----------------------------------------------------------------------------
(* PublishPackages                                                         *)

(* What a run knows of npm stays true, as npm keeps what it has.           *)
Sound(x) ==
  /\ x.phase \in {"preflight", "publish", "upload", "release"} => x.left # <<>>
  /\ x.phase \in {"publish", "upload", "release"} =>
       \A d \in DepsOf[Head(x.left)] : OnNpm(d, x.checkout[d])
  /\ x.phase = "release" => OnNpm(Head(x.left), x.checkout[Head(x.left)])
  /\ x.phase = "done" => x.left = <<>>
  /\ x.phase # "off" => Packages \subseteq ToSet(x.left) \cup x.justPublished \cup x.blocked
  /\ \A p \in x.justPublished : OnNpm(p, x.checkout[p])

(* The latest version is one that npm has.                                 *)
LatestIsOnNpm == \A p \in Packages : latest[p] # 0 => OnNpm(p, latest[p])

(* DependenciesFirst is not inductive: it rests on what the runs know.     *)
PublishInv ==
  /\ TypeOK /\ DependenciesFirst /\ LatestIsOnNpm
  /\ \A r \in Runs : Sound(run[r])

(* What the loop goes through is a sequence of packages ...                 *)
LEMMA OrderType == PublishOrders \subseteq Seq(Packages)
<1>1. Cardinality(Packages) \in Nat
  BY PublishAssumption, FS_CardinalityType
<1>2. Listings \subseteq Seq(Packages)
  BY <1>1 DEF Listings
<1> QED BY <1>2 DEF PublishOrders

(* ... and every package is in it.                                          *)
LEMMA OrderCovers == \A order \in PublishOrders : ToSet(order) = Packages
BY DEF PublishOrders, Listings

(* Going on to the next package only leaves out the current one.            *)
LEMMA HeadAndTail ==
  ASSUME NEW s \in Seq(Packages), s # <<>>
  PROVE  /\ Head(s) \in Packages /\ Tail(s) \in Seq(Packages)
         /\ ToSet(s) \subseteq {Head(s)} \cup ToSet(Tail(s))
<1>1. Head(s) = s[1] /\ Len(s) \in Nat \ {0} /\ Head(s) \in Packages /\ Tail(s) \in Seq(Packages)
  OBVIOUS
<1>2. Len(Tail(s)) = Len(s) - 1 /\ \A i \in 1..Len(Tail(s)) : Tail(s)[i] = s[i + 1]
  OBVIOUS
<1>3. DOMAIN s = 1..Len(s) /\ DOMAIN Tail(s) = 1..Len(Tail(s))
  OBVIOUS
<1>4. ASSUME NEW i \in 1..Len(s), i # 1
      PROVE  s[i] \in ToSet(Tail(s))
  <2>1. i - 1 \in 1..Len(Tail(s)) /\ Tail(s)[i - 1] = s[i]
    BY <1>1, <1>2, <1>4
  <2> QED BY <2>1, <1>3 DEF ToSet
<1> QED BY <1>1, <1>3, <1>4 DEF ToSet

(* The version of a package that npm does not have is nobody's.             *)
LEMMA VersionsPositive == 0 \notin Versions /\ \A v \in Versions : v \in Nat
BY PublishAssumption DEF Versions

(* A lookup that answers the version of the checkout is right about it.    *)
LEMMA LookupIsRight ==
  ASSUME TypeOK, LatestIsOnNpm, NEW r \in Runs, NEW p \in Packages,
         run[r].checkout[p] \in Seen(p)
  PROVE  OnNpm(p, run[r].checkout[p])
<1>1. run[r].checkout[p] \in Versions
  BY DEF TypeOK, Run
<1> QED BY <1>1, VersionsPositive DEF Seen, LatestIsOnNpm

(* A step that only takes a run from one sound state to another.           *)
LEMMA RunStep ==
  ASSUME PublishInv, NEW r \in Runs, NEW x \in Run, Sound(x),
         run' = [run EXCEPT ![r] = x], lucky' \subseteq Runs, UNCHANGED outside
  PROVE  PublishInv'
<1>1. TypeOK'
  BY DEF PublishInv, TypeOK, outside
<1>2. DependenciesFirst' /\ LatestIsOnNpm'
  BY DEF PublishInv, DependenciesFirst, LatestIsOnNpm, OnNpm, outside
<1>3. ASSUME NEW s \in Runs PROVE Sound(run[s])'
  <2>1. run'[s] = IF s = r THEN x ELSE run[s]
    BY DEF PublishInv, TypeOK
  <2>2. Sound(run'[s])
    BY <2>1 DEF PublishInv
  <2> QED BY <2>2 DEF Sound, OnNpm, outside
<1> QED BY <1>1, <1>2, <1>3 DEF PublishInv

(* The run goes on, its current package published or blocked.              *)
Ended(r, published) ==
  [run[r] EXCEPT !.phase = "next", !.left = Tail(@),
                 !.justPublished = IF published THEN @ \cup {Package(r)} ELSE @,
                 !.blocked = IF published THEN @ ELSE @ \cup {Package(r)}]

(* It may do so as published only if npm has the version of the checkout.  *)
LEMMA EndedIsSound ==
  ASSUME TypeOK, NEW r \in Runs, Sound(run[r]), run[r].left # <<>>, run[r].phase # "off",
         NEW published \in BOOLEAN, published => OnNpm(Package(r), Version(r))
  PROVE  Ended(r, published) \in Run /\ Sound(Ended(r, published))
<1> DEFINE x == run[r]
           y == Ended(r, published)
<1>1. x \in Run /\ x.left \in Seq(Packages)
  BY DEF TypeOK, Run
<1>2. /\ Head(x.left) \in Packages /\ Tail(x.left) \in Seq(Packages)
      /\ ToSet(x.left) \subseteq {Head(x.left)} \cup ToSet(Tail(x.left))
  BY <1>1, HeadAndTail
<1>3. /\ y.phase = "next" /\ y.left = Tail(x.left) /\ y.checkout = x.checkout
      /\ y.justPublished = IF published THEN x.justPublished \cup {Head(x.left)} ELSE x.justPublished
      /\ y.blocked = IF published THEN x.blocked ELSE x.blocked \cup {Head(x.left)}
  BY <1>1 DEF Ended, Package, Run
<1>4. y \in Run
  BY <1>1, <1>2 DEF Ended, Package, Run, Phases
<1>5. Packages \subseteq ToSet(y.left) \cup y.justPublished \cup y.blocked
  BY <1>2, <1>3 DEF Sound
<1>6. \A p \in y.justPublished : OnNpm(p, y.checkout[p])
  BY <1>3 DEF Sound, Package, Version
<1> QED BY <1>3, <1>4, <1>5, <1>6 DEF Sound

(* The actions of the loop, in the terms of these lemmas.                  *)
LEMMA StepForms ==
  ASSUME TypeOK, NEW r \in Runs
  PROVE  /\ Block(r) => run' = [run EXCEPT ![r] = Ended(r, FALSE)]
         /\ Publish(r) => run' = [run EXCEPT ![r] = Ended(r, TRUE)]
         /\ \A phase : Goto(r, phase) => run' = [run EXCEPT ![r] = [run[r] EXCEPT !.phase = phase]]
<1>1. run[r] \in Run
  BY DEF TypeOK
<1> QED BY <1>1 DEF Block, Publish, Goto, Ended, Package, Run, TypeOK

(* What npm accepts keeps its contents in order: the run has seen all the  *)
(* dependencies there.                                                     *)
LEMMA AcceptIsSound ==
  ASSUME PublishInv, NEW r \in Runs, Accept(r)
  PROVE  /\ npm \subseteq npm' /\ npm' \subseteq Artifacts
         /\ latest' \in [Packages -> Versions \cup {0}]
         /\ \E b \in npm' : b.package = Package(r) /\ b.version = Version(r)
         /\ DependenciesFirst' /\ LatestIsOnNpm'
<1> DEFINE p == Package(r)
           c == run[r].checkout
           a == [package |-> p, version |-> c[p], needs |-> [d \in DepsOf[p] |-> c[d]]]
<1>1. /\ run[r].phase = "upload" /\ npm' = npm \cup {a}
      /\ latest' = [latest EXCEPT ![p] = c[p]] /\ UNCHANGED <<mainVersion, releases>>
  BY DEF Accept, Tarball, Version
<1>2. run[r] \in Run /\ Sound(run[r])
  BY DEF PublishInv, TypeOK
<1>3. p \in Packages /\ c \in [Packages -> Versions]
  BY <1>1, <1>2, HeadAndTail DEF Run, Sound, Package
<1>4. DepsOf[p] \subseteq Packages
  BY <1>3, PublishAssumption
<1>5. a \in [package : {p}, version : Versions, needs : [DepsOf[p] -> Versions]]
  BY <1>3, <1>4
<1>6. npm' \subseteq Artifacts
  BY <1>1, <1>3, <1>5 DEF Artifacts, PublishInv, TypeOK
<1>7. a.package = p /\ a.version = c[p] /\ \A d \in DepsOf[p] : a.needs[d] = c[d]
  OBVIOUS
<1> HIDE DEF a
<1>8. \A d \in DepsOf[p] : OnNpm(d, c[d])
  BY <1>1, <1>2 DEF Sound, Package
<1>9. DependenciesFirst'
  BY <1>1, <1>7, <1>8 DEF DependenciesFirst, OnNpm, PublishInv
<1>10. \E b \in npm' : b.package = p /\ b.version = c[p]
  BY <1>1, <1>7
<1>11. latest \in [Packages -> Versions \cup {0}]
  BY DEF PublishInv, TypeOK
<1>12. LatestIsOnNpm'
  BY <1>1, <1>3, <1>10, <1>11 DEF LatestIsOnNpm, OnNpm, PublishInv
<1> QED BY <1>1, <1>3, <1>6, <1>9, <1>10, <1>11, <1>12 DEF Version

(* The same for a step in which npm may grow.                              *)
LEMMA AcceptStep ==
  ASSUME PublishInv, NEW r \in Runs, Accept(r), NEW x \in Run, run' = [run EXCEPT ![r] = x],
         Sound(run[r])', lucky' \subseteq Runs
  PROVE  PublishInv'
<1>1. /\ npm \subseteq npm' /\ npm' \subseteq Artifacts
      /\ latest' \in [Packages -> Versions \cup {0}]
      /\ DependenciesFirst' /\ LatestIsOnNpm'
  BY AcceptIsSound
<1>2. UNCHANGED <<mainVersion, releases>>
  BY DEF Accept
<1>3. TypeOK'
  BY <1>1, <1>2 DEF PublishInv, TypeOK
<1>4. ASSUME NEW s \in Runs PROVE Sound(run[s])'
  <2>1. s # r => run'[s] = run[s]
    BY DEF PublishInv, TypeOK
  <2>2. CASE s = r
    BY <2>2
  <2>3. CASE s # r
    BY <1>1, <2>1, <2>3 DEF PublishInv, Sound, OnNpm
  <2> QED BY <2>2, <2>3
<1> QED BY <1>1, <1>3, <1>4 DEF PublishInv

(* Before anything runs, npm has nothing.                                   *)
LEMMA PublishInit == Init => PublishInv
<1> SUFFICES ASSUME Init PROVE PublishInv
  OBVIOUS
<1>1. 1 \in Versions \/ Packages = {}
  BY PublishAssumption DEF Versions
<1>2. \A r \in Runs : run[r] = Off(mainVersion)
  BY DEF Init
<1>3. Off(mainVersion) \in Run
  BY <1>1 DEF Init, Off, Run, Phases
<1>4. TypeOK
  BY <1>1, <1>3 DEF Init, TypeOK
<1>5. Sound(Off(mainVersion))
  BY DEF Off, Sound
<1>6. DependenciesFirst /\ LatestIsOnNpm
  BY DEF Init, DependenciesFirst, LatestIsOnNpm
<1> QED BY <1>2, <1>4, <1>5, <1>6 DEF PublishInv

(* Every step of a run, and of the main branch, keeps the invariant.        *)
LEMMA PublishStep == PublishInv /\ [Next]_vars => PublishInv'
<1> SUFFICES ASSUME PublishInv, [Next]_vars PROVE PublishInv'
  OBVIOUS
<1>0. TypeOK
  BY DEF PublishInv
<1>1. CASE UNCHANGED vars
  BY <1>1 DEF vars, PublishInv, TypeOK, DependenciesFirst, LatestIsOnNpm, Sound, OnNpm
<1>2. ASSUME NEW p \in Packages, Bump(p) PROVE PublishInv'
  <2>1. UNCHANGED <<npm, latest, releases, run, lucky>>
    BY <1>2 DEF Bump
  <2>2. mainVersion[p] \in Versions
    BY <1>0 DEF TypeOK
  <2>3. mainVersion[p] + 1 \in 1..MaxVersion[p]
    <3>1. mainVersion[p] \in Nat
      BY <2>2, VersionsPositive
    <3>2. MaxVersion[p] \in Nat
      BY PublishAssumption
    <3> QED BY <3>1, <3>2, <1>2 DEF Bump
  <2>4. mainVersion[p] + 1 \in Versions
    BY <2>3 DEF Versions
  <2>5. mainVersion' \in [Packages -> Versions]
    BY <1>0, <1>2, <2>4 DEF Bump, TypeOK
  <2> QED BY <2>1, <2>5 DEF PublishInv, TypeOK, DependenciesFirst, LatestIsOnNpm, Sound, OnNpm
<1>3. ASSUME NEW r \in Runs,
             \/ Start(r) \/ SkipBlocked(r) \/ LookUp(r) \/ Preflight(r) \/ LookUpAgain(r)
             \/ Upload(r) \/ UploadReportedFailed(r) \/ UploadRefused(r)
             \/ Release(r) \/ Fails(r) \/ End(r) \/ Stop(r)
      PROVE  PublishInv'
  <2> DEFINE x == run[r]
             Moved(phase) == [x EXCEPT !.phase = phase]
             p == Package(r)
  <2>1. x \in Run /\ Sound(x)
    BY DEF PublishInv, TypeOK
  <2>2. lucky' \subseteq Runs
    BY <1>3, <1>0 DEF Start, SkipBlocked, LookUp, LookedUp, Preflight, LookUpAgain, Upload,
       UploadReportedFailed, UploadRefused, Release, Fails, End, Stop, TypeOK
  <2>3. \A phase \in Phases :
          /\ Moved(phase) \in Run /\ Moved(phase).phase = phase
          /\ Moved(phase).left = x.left /\ Moved(phase).checkout = x.checkout
          /\ Moved(phase).justPublished = x.justPublished /\ Moved(phase).blocked = x.blocked
    BY <2>1 DEF Run
  <2>4. x.left # <<>> => p \in Packages
    BY <2>1, HeadAndTail DEF Package, Run
  <2>5. CASE Start(r)
    <3>1. PICK order \in PublishOrders, checkout \in {mainVersion, x.checkout} :
            run' = [run EXCEPT ![r] = [phase |-> "next", checkout |-> checkout, left |-> order,
                                       justPublished |-> {}, blocked |-> {}]]
      BY <2>5 DEF Start
    <3> DEFINE y == [phase |-> "next", checkout |-> checkout, left |-> order,
                     justPublished |-> {}, blocked |-> {}]
    <3>2. order \in Seq(Packages) /\ checkout \in [Packages -> Versions]
      BY <2>1, <1>0, OrderType DEF TypeOK, Run
    <3>3. y \in Run
      BY <3>2 DEF Run, Phases
    <3>4. Sound(y)
      BY OrderCovers DEF Sound
    <3> QED BY <3>1, <3>3, <3>4, <2>2, <2>5, RunStep DEF Start
  <2>6. CASE SkipBlocked(r)
    BY <2>6, <2>1, <2>2, <1>0, StepForms, EndedIsSound, RunStep DEF SkipBlocked
  <2>7. CASE LookUp(r)
    <3>1. PICK seen \in Seen(p) :
            IF ShouldPublish(Version(r), seen) THEN Goto(r, "preflight") ELSE Publish(r)
      BY <2>7 DEF LookUp
    <3>2. x.phase = "next" /\ x.left # <<>> /\ UNCHANGED outside
      BY <2>7 DEF LookUp
    <3>3. CASE Version(r) # seen
      <4>1. "preflight" \in Phases /\ Goto(r, "preflight")
        BY <3>1, <3>3 DEF Phases, ShouldPublish
      <4>2. Sound(Moved("preflight"))
        BY <2>1, <2>3, <3>2, <4>1 DEF Sound
      <4> QED BY <2>2, <2>3, <3>2, <4>1, <4>2, <1>0, StepForms, RunStep
    <3>4. CASE Version(r) = seen
      <4>1. Publish(r)
        BY <3>1, <3>4 DEF ShouldPublish
      <4>2. OnNpm(p, Version(r))
        BY <2>4, <3>1, <3>2, <3>4, <1>0, LookupIsRight DEF Version, PublishInv
      <4> QED BY <2>1, <2>2, <3>2, <4>1, <4>2, <1>0, StepForms, EndedIsSound, RunStep
    <3> QED BY <3>3, <3>4
  <2>8. CASE Preflight(r)
    <3>1. PICK seen \in [Unseen(r) -> Versions \cup {0}] :
            /\ \A d \in Unseen(r) : seen[d] \in Seen(d)
            /\ IF \A d \in Unseen(r) : seen[d] = x.checkout[d]
               THEN Goto(r, "publish") ELSE Block(r)
      BY <2>8 DEF Preflight
    <3>2. x.phase = "preflight" /\ x.left # <<>> /\ UNCHANGED outside
      BY <2>8, <2>1 DEF Preflight, Sound
    <3>3. CASE \A d \in Unseen(r) : seen[d] = x.checkout[d]
      <4>1. \A d \in DepsOf[p] : d \in Packages
        BY <2>4, <3>2, PublishAssumption
      <4>2. \A d \in DepsOf[p] : OnNpm(d, x.checkout[d])
        <5>1. ASSUME NEW d \in DepsOf[p], d \in x.justPublished PROVE OnNpm(d, x.checkout[d])
          BY <2>1, <5>1 DEF Sound
        <5>2. ASSUME NEW d \in DepsOf[p], d \notin x.justPublished PROVE OnNpm(d, x.checkout[d])
          <6>1. d \in Unseen(r) /\ x.checkout[d] \in Seen(d)
            BY <3>1, <3>3, <5>2 DEF Unseen
          <6> QED BY <4>1, <6>1, <1>0, LookupIsRight DEF PublishInv
        <5> QED BY <5>1, <5>2
      <4>3. "publish" \in Phases /\ Goto(r, "publish")
        BY <3>1, <3>3 DEF Phases
      <4>4. Sound(Moved("publish"))
        BY <2>1, <2>3, <3>2, <4>2, <4>3 DEF Sound, Package
      <4> QED BY <2>2, <2>3, <3>2, <4>3, <4>4, <1>0, StepForms, RunStep
    <3>4. CASE ~ \A d \in Unseen(r) : seen[d] = x.checkout[d]
      <4>1. Block(r)
        BY <3>1, <3>4
      <4> QED BY <2>1, <2>2, <3>2, <4>1, <1>0, StepForms, EndedIsSound, RunStep
    <3> QED BY <3>3, <3>4
  <2>9. CASE LookUpAgain(r)
    <3>1. PICK seen \in Seen(p) :
            IF ShouldPublish(Version(r), seen) THEN Goto(r, "upload") ELSE Publish(r)
      BY <2>9 DEF LookUpAgain
    <3>2. x.phase = "publish" /\ x.left # <<>> /\ UNCHANGED outside
      BY <2>9, <2>1 DEF LookUpAgain, Sound
    <3>3. CASE Version(r) # seen
      <4>1. "upload" \in Phases /\ Goto(r, "upload")
        BY <3>1, <3>3 DEF Phases, ShouldPublish
      <4>2. Sound(Moved("upload"))
        BY <2>1, <2>3, <3>2, <4>1 DEF Sound
      <4> QED BY <2>2, <2>3, <3>2, <4>1, <4>2, <1>0, StepForms, RunStep
    <3>4. CASE Version(r) = seen
      <4>1. Publish(r)
        BY <3>1, <3>4 DEF ShouldPublish
      <4>2. OnNpm(p, Version(r))
        BY <2>4, <3>1, <3>2, <3>4, <1>0, LookupIsRight DEF Version, PublishInv
      <4> QED BY <2>1, <2>2, <3>2, <4>1, <4>2, <1>0, StepForms, EndedIsSound, RunStep
    <3> QED BY <3>3, <3>4
  <2>10. CASE Upload(r)
    <3>1. Accept(r) /\ Goto(r, "release") /\ x.phase = "upload" /\ x.left # <<>>
      BY <2>10, <2>1 DEF Upload, Accept, Sound
    <3>2. /\ npm \subseteq npm'
          /\ \E b \in npm' : b.package = p /\ b.version = Version(r)
      BY <3>1, AcceptIsSound
    <3>3. "release" \in Phases
      BY DEF Phases
    <3>4. run' = [run EXCEPT ![r] = Moved("release")]
      BY <3>1, <1>0, StepForms
    <3>5. run'[r] = Moved("release")
      BY <3>4, <1>0 DEF TypeOK
    <3>6. Sound(run[r])'
      BY <2>1, <2>3, <3>1, <3>2, <3>3, <3>5 DEF Sound, OnNpm, Package, Version
    <3> QED BY <2>2, <2>3, <3>1, <3>3, <3>4, <3>6, AcceptStep
  <2>11. CASE UploadReportedFailed(r)
    <3>1. Accept(r) /\ Block(r) /\ x.phase = "upload" /\ x.left # <<>>
      BY <2>11, <2>1 DEF UploadReportedFailed, Accept, Sound
    <3>2. npm \subseteq npm'
      BY <3>1, AcceptIsSound
    <3>3. Ended(r, FALSE) \in Run /\ Sound(Ended(r, FALSE))
      BY <2>1, <3>1, <1>0, EndedIsSound
    <3>4. run' = [run EXCEPT ![r] = Ended(r, FALSE)] /\ run'[r] = Ended(r, FALSE)
      BY <3>1, <1>0, StepForms DEF TypeOK
    <3> DEFINE y == Ended(r, FALSE)
    <3> HIDE DEF y
    <3>5. run'[r] = y /\ Sound(y)
      BY <3>3, <3>4 DEF y
    <3>6. Sound(run[r])'
      BY <3>2, <3>5 DEF Sound, OnNpm
    <3> QED BY <2>2, <3>1, <3>3, <3>4, <3>6, AcceptStep
  <2>12. CASE UploadRefused(r) \/ Fails(r)
    <3>1. x.phase \in {"upload", "release"} /\ x.left # <<>> /\ Block(r) /\ UNCHANGED outside
      BY <2>12, <2>1 DEF UploadRefused, Fails, Sound
    <3> QED BY <2>1, <2>2, <3>1, <1>0, StepForms, EndedIsSound, RunStep
  <2>13. CASE Release(r)
    <3>1. /\ x.phase = "release" /\ x.left # <<>> /\ Publish(r) /\ OnNpm(p, Version(r))
          /\ releases' = releases \cup {<<p, Version(r)>>} /\ UNCHANGED <<mainVersion, npm, latest>>
      BY <2>13, <2>1 DEF Release, Sound, Package, Version
    <3>2. Ended(r, TRUE) \in Run /\ Sound(Ended(r, TRUE))
      BY <2>1, <3>1, <1>0, EndedIsSound
    <3>3. run' = [run EXCEPT ![r] = Ended(r, TRUE)]
      BY <3>1, <1>0, StepForms
    <3>4. Version(r) \in Versions
      BY <2>1, <2>4, <3>1 DEF Version, Run
    <3>5. run' \in [Runs -> Run]
      BY <1>0, <3>2, <3>3 DEF TypeOK
    <3>6. releases' \subseteq Packages \X Versions
      BY <1>0, <2>4, <3>1, <3>4 DEF TypeOK
    <3>7. TypeOK'
      BY <1>0, <2>2, <3>1, <3>5, <3>6 DEF TypeOK
    <3>8. DependenciesFirst' /\ LatestIsOnNpm'
      BY <3>1 DEF PublishInv, DependenciesFirst, LatestIsOnNpm, OnNpm
    <3>9. ASSUME NEW s \in Runs PROVE Sound(run[s])'
      <4>1. run'[s] = IF s = r THEN Ended(r, TRUE) ELSE run[s]
        BY <3>3, <1>0 DEF TypeOK
      <4>2. Sound(run'[s])
        BY <3>2, <4>1 DEF PublishInv
      <4> QED BY <3>1, <4>2 DEF Sound, OnNpm
    <3> QED BY <3>8, <3>9, <3>7 DEF PublishInv
  <2>14. CASE End(r)
    <3>1. "done" \in Phases /\ Goto(r, "done") /\ x.left = <<>> /\ x.phase = "next" /\ UNCHANGED outside
      BY <2>14 DEF End, Phases
    <3>2. Sound(Moved("done"))
      BY <2>1, <2>3, <3>1 DEF Sound
    <3> QED BY <2>2, <2>3, <3>1, <3>2, <1>0, StepForms, RunStep
  <2>15. CASE Stop(r)
    <3>1. Off(x.checkout) \in Run
      BY <2>1 DEF Off, Run, Phases
    <3>2. Sound(Off(x.checkout))
      BY DEF Off, Sound
    <3> QED BY <2>2, <2>15, <3>1, <3>2, RunStep DEF Stop
  <2> QED BY <1>3, <2>5, <2>6, <2>7, <2>8, <2>9, <2>10, <2>11, <2>12, <2>13, <2>14, <2>15
<1> QED BY <1>1, <1>2, <1>3 DEF Next

(* The variables of the scripts keep their types.                          *)
THEOREM PublishTyped == Spec => []TypeOK
<1>1. PublishInv => TypeOK
  BY DEF PublishInv
<1> QED BY <1>1, PublishInit, PublishStep, PTL DEF Spec

(* Every package on npm has its dependencies there, in the versions it was *)
(* built with (publish-all.ts:6-9).                                        *)
THEOREM PublishInOrder == Spec => []DependenciesFirst
<1>1. PublishInv => DependenciesFirst
  BY DEF PublishInv
<1> QED BY <1>1, PublishInit, PublishStep, PTL DEF Spec

(* A run without an error has every package of its checkout on npm         *)
(* (publish-all.ts:200-213).                                               *)
THEOREM PublishComplete == Spec => []SuccessMeansPublished
<1>1. PublishInv => SuccessMeansPublished
  <2> SUFFICES ASSUME PublishInv, NEW r \in Runs, NEW p \in Packages,
                      run[r].phase = "done", run[r].blocked = {}
               PROVE  OnNpm(p, run[r].checkout[p])
    BY DEF SuccessMeansPublished
  <2>1. Sound(run[r]) /\ run[r].left = <<>>
    BY DEF PublishInv, Sound
  <2>2. ToSet(run[r].left) = {}
    BY <2>1 DEF ToSet
  <2> QED BY <2>1, <2>2 DEF Sound
<1> QED BY <1>1, PublishInit, PublishStep, PTL DEF Spec

-----------------------------------------------------------------------------
(* A list of packages without a package that is in it twice.               *)
Once(s) == \A i, j \in 1..Len(s) : s[i] = s[j] => i = j

(* The queue r that queue has become with all those of the first k         *)
(* packages that are in S.                                                 *)
Queued(queue, r, packages, S, k) ==
  /\ r \in Seq(Packages) /\ Len(queue) <= Len(r)
  /\ \A i \in 1..Len(queue) : r[i] = queue[i]
  /\ \A i \in 1..Len(r) : i > Len(queue) => \E j \in 1..k : r[i] = packages[j] /\ r[i] \in S
  /\ \A j \in 1..k : packages[j] \in S => \E i \in 1..Len(r) : r[i] = packages[j]

(* A package that is in S joins the queue r.                               *)
Join(r, p, S) == IF p \in S THEN Append(r, p) ELSE r

(* One more package may join the queue; if none was in it twice, none is.  *)
LEMMA OneJoins ==
  ASSUME NEW queue \in Seq(Packages), NEW packages \in Seq(Packages), NEW S,
         NEW k \in Nat, k + 1 <= Len(packages), NEW r, Queued(queue, r, packages, S, k),
         NEW next, next = Join(r, packages[k + 1], S)
  PROVE  /\ Queued(queue, next, packages, S, k + 1)
         /\ Once(packages) /\ Once(r) /\ (\A i \in 1..Len(queue) : queue[i] \notin S) => Once(next)
<1>1. PICK p : p = packages[k + 1]
  OBVIOUS
<1>2. /\ p \in Packages /\ Len(packages) \in Nat /\ Len(queue) \in Nat
      /\ 1..k \subseteq 1..(k + 1) /\ k + 1 \in 1..(k + 1)
      /\ k + 1 \in 1..Len(packages) /\ \A j \in 1..k : j \in 1..Len(packages) /\ j # k + 1
  BY <1>1
<1>3. r \in Seq(Packages) /\ Len(r) \in Nat /\ Len(queue) <= Len(r)
  BY DEF Queued
<1>4. CASE p \notin S
  <2>1. next = r
    BY <1>1, <1>4 DEF Join
  <2>2. \A j \in 1..(k + 1) : j \in 1..k \/ j = k + 1
    OBVIOUS
  <2>3. ASSUME NEW j \in 1..(k + 1), packages[j] \in S
        PROVE  \E i \in 1..Len(r) : r[i] = packages[j]
    BY <1>1, <1>4, <2>2, <2>3 DEF Queued
  <2>. QED  BY <1>2, <2>1, <2>3 DEF Queued
<1>5. CASE p \in S
  <2>1. next = Append(r, p)
    BY <1>1, <1>5 DEF Join
  <2>2. /\ next \in Seq(Packages) /\ Len(next) = Len(r) + 1 /\ next[Len(r) + 1] = p
        /\ \A i \in 1..Len(r) : next[i] = r[i]
        /\ \A i \in 1..Len(next) : i \in 1..Len(r) \/ i = Len(r) + 1
    BY <1>2, <1>3, <2>1
  <2>3. Len(queue) <= Len(next) /\ \A i \in 1..Len(queue) : next[i] = queue[i]
    BY <1>2, <1>3, <2>2 DEF Queued
  <2>4. ASSUME NEW i \in 1..Len(next), i > Len(queue)
        PROVE  \E j \in 1..(k + 1) : next[i] = packages[j] /\ next[i] \in S
    <3>1. CASE i \in 1..Len(r)
      <4>1. \E j \in 1..k : r[i] = packages[j] /\ r[i] \in S
        BY <2>4, <3>1 DEF Queued
      <4>. QED  BY <1>2, <2>2, <3>1, <4>1
    <3>2. CASE i = Len(r) + 1
      BY <1>1, <1>2, <1>5, <2>2, <3>2
    <3>. QED  BY <2>2, <3>1, <3>2
  <2>5. ASSUME NEW j \in 1..(k + 1), packages[j] \in S
        PROVE  \E i \in 1..Len(next) : next[i] = packages[j]
    <3>1. CASE j \in 1..k
      <4>1. PICK i \in 1..Len(r) : r[i] = packages[j]
        BY <2>5, <3>1 DEF Queued
      <4>2. i \in 1..Len(next)
        BY <1>3, <2>2
      <4>. QED  BY <2>2, <4>1, <4>2
    <3>2. CASE j = k + 1
      <4>1. Len(r) + 1 \in 1..Len(next)
        BY <1>3, <2>2
      <4>. QED  BY <1>1, <2>2, <3>2, <4>1
    <3>3. j \in 1..k \/ j = k + 1
      OBVIOUS
    <3>. QED  BY <3>1, <3>2, <3>3
  <2>6. Queued(queue, next, packages, S, k + 1)
    BY <2>2, <2>3, <2>4, <2>5 DEF Queued
  <2>7. ASSUME Once(packages), Once(r), \A i \in 1..Len(queue) : queue[i] \notin S
        PROVE  Once(next)
    <3>1. ASSUME NEW i \in 1..Len(r) PROVE r[i] # p
      <4>1. CASE i \in 1..Len(queue)
        BY <1>5, <2>7, <4>1 DEF Queued
      <4>2. CASE i > Len(queue)
        <5>1. PICK j \in 1..k : r[i] = packages[j]
          BY <4>2 DEF Queued
        <5>. QED  BY <1>1, <1>2, <2>7, <5>1 DEF Once
      <4>. QED  BY <1>2, <1>3, <4>1, <4>2
    <3>2. ASSUME NEW i \in 1..Len(next), NEW j \in 1..Len(next), next[i] = next[j]
          PROVE  i = j
      <4>1. CASE i \in 1..Len(r) /\ j \in 1..Len(r)
        BY <2>2, <2>7, <3>2, <4>1 DEF Once
      <4>2. CASE ~ (i \in 1..Len(r) /\ j \in 1..Len(r))
        BY <2>2, <3>1, <3>2, <4>2
      <4>. QED  BY <4>1, <4>2
    <3>. QED  BY <3>2 DEF Once
  <2>. QED  BY <2>6, <2>7
<1>. QED  BY <1>4, <1>5

(* So may the whole list, one package after the other.                     *)
LEMMA JoiningIs ==
  ASSUME NEW queue \in Seq(Packages), NEW packages \in Seq(Packages), NEW S
  PROVE  /\ Queued(queue, Joining(queue, packages, S), packages, S, Len(packages))
         /\ Once(packages) /\ Once(queue) /\ (\A i \in 1..Len(queue) : queue[i] \notin S)
              => Once(Joining(queue, packages, S))
<1>. DEFINE n == Len(packages)
            Is(h) == h = [s \in SUBSET (1..n) |->
                            IF s = {} THEN queue ELSE Join(h[s \ {Max(s)}], packages[Max(s)], S)]
            step == [p \in (1..n) \X Seq(Packages) |-> Join(p[2], packages[p[1]], S)]
<1>1. n \in Nat /\ DOMAIN packages = 1..n /\ \A i \in 1..n : packages[i] \in Packages
  OBVIOUS
<1>2. step \in [(1..n) \X Seq(Packages) -> Seq(Packages)]
  <2>1. ASSUME NEW s \in Seq(Packages), NEW p \in Packages PROVE Join(s, p, S) \in Seq(Packages)
    BY DEF Join
  <2>. HIDE DEF n
  <2>. QED  BY <1>1, <2>1
<1>3. \E h : Is(h)
  <2>. HIDE DEF step, n
  <2>1. PICK g \in [SUBSET (1..n) -> Seq(Packages)] : Folds(g, n, queue, step)
    BY <1>1, <1>2, FoldExists
  <2>2. ASSUME NEW s \in SUBSET (1..n), s # {}
        PROVE  step[<<Max(s), g[s \ {Max(s)}]>>] = Join(g[s \ {Max(s)}], packages[Max(s)], S)
    <3>1. Max(s) \in 1..n
      BY <1>1, <2>2, MaxProperties
    <3>2. <<Max(s), g[s \ {Max(s)}]>> \in (1..n) \X Seq(Packages)
      BY <3>1
    <3>. QED  BY <3>2 DEF step
  <2>3. Is(g)
    BY <2>1, <2>2 DEF Folds
  <2>. QED  BY <2>3
<1>4. Joining(queue, packages, S) = (CHOOSE h : Is(h))[1..n]
  BY <1>1 DEF Joining, FoldLeft, MapThenFoldSet, Join, Max
<1>. HIDE DEF Is
<1>5. PICK g : Is(g) /\ Joining(queue, packages, S) = g[1..n]
  BY <1>3, <1>4
<1>. DEFINE Far(k) == /\ Queued(queue, g[1..k], packages, S, k)
                      /\ Once(packages) /\ Once(queue) /\ (\A i \in 1..Len(queue) : queue[i] \notin S)
                           => Once(g[1..k])
            T == {k \in Nat : k <= n => Far(k)}
<1>6. 0 \in T
  <2>1. (1..0) \in SUBSET (1..n) /\ 1..0 = {}
    OBVIOUS
  <2>2. g[1..0] = queue
    BY <1>5, <2>1 DEF Is
  <2>3. Queued(queue, queue, packages, S, 0)
    BY DEF Queued
  <2>. QED  BY <2>2, <2>3
<1>7. ASSUME NEW k \in T PROVE k + 1 \in T
  <2>. HIDE DEF Far
  <2>. SUFFICES ASSUME k + 1 <= n PROVE Far(k + 1)
    OBVIOUS
  <2>1. k \in Nat /\ Far(k)
    BY <1>1
  <2>. HIDE DEF T, n
  <2>2. PICK j : j = k + 1
    OBVIOUS
  <2>3. j \in Nat \ {0} /\ j - 1 = k /\ j \in 1..n /\ j \in 1..j
    BY <1>1, <2>1, <2>2
  <2>4. (1..j) \in SUBSET (1..n) /\ 1..j # {}
    <3>1. \A i \in 1..j : i \in 1..n
      BY <1>1, <2>3
    <3>. QED  BY <2>3, <3>1
  <2>5. g[1..j] = Join(g[(1..j) \ {Max(1..j)}], packages[Max(1..j)], S)
    BY <1>5, <2>4 DEF Is
  <2>6. g[1..j] = Join(g[1..k], packages[k + 1], S)
    BY <2>2, <2>3, <2>5, MaxOfPrefix
  <2>7. k + 1 <= Len(packages)
    BY DEF n
  <2>8. PICK r, next : r = g[1..k] /\ next = g[1..j]
    OBVIOUS
  <2>9. Queued(queue, r, packages, S, k) /\ next = Join(r, packages[k + 1], S)
    BY <2>1, <2>6, <2>8 DEF Far
  <2>10. /\ Queued(queue, next, packages, S, k + 1)
         /\ Once(packages) /\ Once(r) /\ (\A i \in 1..Len(queue) : queue[i] \notin S) => Once(next)
    BY <2>1, <2>7, <2>9, OneJoins
  <2>. QED  BY <2>1, <2>2, <2>8, <2>10 DEF Far
<1>8. T = Nat
  <2>1. T \in SUBSET Nat
    OBVIOUS
  <2>. HIDE DEF T
  <2>. QED  BY <1>6, <1>7, <2>1, Induction
<1>9. Far(n)
  <2>. HIDE DEF Far
  <2>. QED  BY <1>1, <1>8
<1>. QED  BY <1>5, <1>9

-----------------------------------------------------------------------------
(* The packages that wait for no other once the next in the queue is       *)
(* sorted, and the state then.                                             *)
Freed(st) ==
  {p \in Packages : Head(st.queue) \in DepsOf[p]
                    /\ DepsOf[p] \subseteq ToSet(Append(st.sorted, Head(st.queue)))}

Further(st, packages) ==
  [queue |-> Joining(Tail(st.queue), packages, Freed(st)),
   sorted |-> Append(st.sorted, Head(st.queue))]

(* The sort as the function that Sorted chooses.                           *)
Sorts(f, packages) ==
  f = [st \in SortStates |-> IF st.queue = <<>> THEN st.sorted ELSE f[Further(st, packages)]]

(* A list with the dependencies of a package ahead of it.                  *)
Ahead(s) == \A i \in 1..Len(s) : \A d \in DepsOf[s[i]] : \E j \in 1..(i - 1) : s[j] = d

(* The queue has all packages whose dependencies are sorted and which are  *)
(* not, each once.                                                         *)
SortInv(st) ==
  /\ st \in SortStates
  /\ Ahead(st.sorted) /\ Once(st.sorted) /\ Once(st.queue)
  /\ \A p \in Packages : DepsOf[p] \subseteq ToSet(st.sorted)
                           => p \in ToSet(st.sorted) \cup ToSet(st.queue)
  /\ \A i \in 1..Len(st.queue) : /\ DepsOf[st.queue[i]] \subseteq ToSet(st.sorted)
                                 /\ st.queue[i] \notin ToSet(st.sorted)

(* What the sort gives: only packages that wait for others are left out.   *)
Result(s) ==
  /\ s \in Seq(Packages) /\ Ahead(s) /\ Once(s)
  /\ \A p \in Packages : DepsOf[p] \subseteq ToSet(s) => p \in ToSet(s)

(* The entries of a list of packages.                                      *)
LEMMA EntriesOf ==
  ASSUME NEW s \in Seq(Packages)
  PROVE  /\ ToSet(s) \subseteq Packages /\ \A i \in 1..Len(s) : s[i] \in ToSet(s)
         /\ \A p \in ToSet(s) : \E i \in 1..Len(s) : s[i] = p
BY DEF ToSet

(* s with one more entry at its end.                                       *)
Longer(more, s, p) ==
  /\ more \in Seq(Packages) /\ Len(more) = Len(s) + 1 /\ Len(s) \in Nat
  /\ ToSet(more) = ToSet(s) \cup {p}
  /\ \A i \in 1..Len(s) : more[i] = s[i]
  /\ more[Len(s) + 1] = p

(* That is what Append makes.                                              *)
LEMMA OneMore ==
  ASSUME NEW s \in Seq(Packages), NEW p \in Packages
  PROVE  Longer(Append(s, p), s, p)
<1>0. PICK more : more = Append(s, p)
  OBVIOUS
<1>1. /\ more \in Seq(Packages) /\ Len(more) = Len(s) + 1 /\ Len(s) \in Nat
      /\ \A i \in 1..Len(s) : more[i] = s[i]
      /\ more[Len(s) + 1] = p
  BY <1>0
<1>2. \A i \in 1..Len(more) : i \in 1..Len(s) \/ i = Len(s) + 1
  BY <1>1
<1>3. \A i \in 1..Len(s) : i \in 1..Len(more)
  BY <1>1
<1>4. Len(s) + 1 \in 1..Len(more)
  BY <1>1
<1>5. ASSUME NEW q \in ToSet(more) PROVE q \in ToSet(s) \cup {p}
  <2>1. PICK i \in 1..Len(more) : more[i] = q
    BY <1>1, EntriesOf
  <2>2. CASE i \in 1..Len(s)
    <3>1. s[i] = q
      BY <1>1, <2>1, <2>2
    <3>. QED  BY <2>2, <3>1, EntriesOf
  <2>3. CASE i = Len(s) + 1
    BY <1>1, <2>1, <2>3
  <2>. QED  BY <1>2, <2>2, <2>3
<1>6. ASSUME NEW q \in ToSet(s) \cup {p} PROVE q \in ToSet(more)
  <2>1. CASE q = p
    BY <1>1, <1>4, <2>1, EntriesOf
  <2>2. CASE q \in ToSet(s)
    <3>1. PICK i \in 1..Len(s) : s[i] = q
      BY <2>2, EntriesOf
    <3>2. more[i] = q /\ i \in 1..Len(more)
      BY <1>1, <1>3, <3>1
    <3>. QED  BY <1>1, <3>2, EntriesOf
  <2>. QED  BY <2>1, <2>2
<1>7. Longer(more, s, p)
  BY <1>1, <1>5, <1>6 DEF Longer
<1>. QED  BY <1>0, <1>7

(* Sorting one more package keeps the state of the sort in order, and      *)
(* fewer packages are left.                                                *)
LEMMA SortStep ==
  ASSUME PublishAssumption, NEW packages \in Seq(Packages), Once(packages),
         ToSet(packages) = Packages,
         NEW st, SortInv(st), st.queue # <<>>, NEW next, next = Further(st, packages)
  PROVE  /\ SortInv(next)
         /\ Cardinality(Packages \ ToSet(next.sorted)) < Cardinality(Packages \ ToSet(st.sorted))
<1>1. PICK rest, current, sorted, done, freed, queue :
        /\ rest = Tail(st.queue) /\ current = Head(st.queue) /\ sorted = st.sorted
        /\ done = Append(sorted, current) /\ freed = Freed(st)
        /\ queue = Joining(rest, packages, freed)
  OBVIOUS
<1>2. next.queue = queue /\ next.sorted = done
  BY <1>1 DEF Further
<1>3. /\ st.queue \in Seq(Packages) /\ sorted \in Seq(Packages)
  BY <1>1 DEF SortInv, SortStates
<1>4. /\ rest \in Seq(Packages) /\ Len(rest) = Len(st.queue) - 1 /\ Len(rest) \in Nat
      /\ \A i \in 1..Len(rest) : rest[i] = st.queue[i + 1] /\ i + 1 \in 1..Len(st.queue)
      /\ current = st.queue[1] /\ 1 \in 1..Len(st.queue) /\ current \in Packages
  BY <1>1, <1>3
<1>5. /\ done \in Seq(Packages) /\ Len(done) = Len(sorted) + 1 /\ Len(sorted) \in Nat
      /\ ToSet(done) = ToSet(sorted) \cup {current}
      /\ \A i \in 1..Len(sorted) : done[i] = sorted[i]
      /\ done[Len(sorted) + 1] = current
  <2>1. done = Append(sorted, current) /\ sorted \in Seq(Packages) /\ current \in Packages
    BY <1>1, <1>3, <1>4
  <2>2. Longer(done, sorted, current)
    BY <2>1, OneMore
  <2>. QED  BY <2>2 DEF Longer
<1>6. /\ DepsOf[current] \subseteq ToSet(sorted) /\ current \notin ToSet(sorted)
      /\ \A i \in 1..Len(rest) : /\ DepsOf[rest[i]] \subseteq ToSet(sorted)
                                 /\ rest[i] \notin ToSet(sorted)
  BY <1>1, <1>4 DEF SortInv
<1>7. \A p \in freed : p \in Packages /\ current \in DepsOf[p] /\ DepsOf[p] \subseteq ToSet(done)
  BY <1>1 DEF Freed
<1>8. Once(rest) /\ \A i \in 1..Len(rest) : rest[i] # current
  <2>1. ASSUME NEW i \in 1..Len(rest) PROVE rest[i] # current
    <3>1. i + 1 \in 1..Len(st.queue) /\ i + 1 # 1
      BY <1>4
    <3>. QED  BY <1>4, <3>1 DEF SortInv, Once
  <2>2. ASSUME NEW i \in 1..Len(rest), NEW j \in 1..Len(rest), rest[i] = rest[j] PROVE i = j
    <3>1. i + 1 = j + 1
      BY <1>4, <2>2 DEF SortInv, Once
    <3>. QED  BY <3>1
  <2>. QED  BY <2>1, <2>2 DEF Once
<1>9. \A i \in 1..Len(rest) : rest[i] \notin freed
  BY <1>6, <1>7
<1>10. /\ Queued(rest, queue, packages, freed, Len(packages)) /\ Once(queue)
  BY <1>1, <1>4, <1>8, <1>9, JoiningIs
<1>11. \A p \in ToSet(sorted) : DepsOf[p] \subseteq ToSet(sorted)
  <2>1. ASSUME NEW p \in ToSet(sorted), NEW d \in DepsOf[p] PROVE d \in ToSet(sorted)
    <3>1. PICK i \in 1..Len(sorted) : sorted[i] = p
      BY <1>3, EntriesOf
    <3>2. PICK j \in 1..(i - 1) : sorted[j] = d
      BY <1>1, <2>1, <3>1 DEF SortInv, Ahead
    <3>3. j \in 1..Len(sorted)
      BY <1>5
    <3>. QED  BY <1>3, <3>2, <3>3, EntriesOf
  <2>. QED  BY <2>1
<1>12. ASSUME NEW i \in 1..Len(queue)
       PROVE  DepsOf[queue[i]] \subseteq ToSet(done) /\ queue[i] \notin ToSet(done)
  <2>1. CASE i \in 1..Len(rest)
    <3>1. queue[i] = rest[i]
      BY <1>10, <2>1 DEF Queued
    <3>. QED  BY <1>5, <1>6, <1>8, <2>1, <3>1
  <2>2. CASE i > Len(rest)
    <3>1. queue[i] \in freed
      BY <1>10, <2>2 DEF Queued
    <3>2. queue[i] \notin ToSet(sorted)
      BY <1>6, <1>7, <1>11, <3>1
    <3>3. queue[i] # current
      BY <1>6, <1>7, <3>1
    <3>. QED  BY <1>5, <1>7, <3>1, <3>2, <3>3
  <2>. QED  BY <1>4, <2>1, <2>2
<1>13. Ahead(done)
  <2>1. ASSUME NEW i \in 1..Len(done), NEW d \in DepsOf[done[i]]
        PROVE  \E j \in 1..(i - 1) : done[j] = d
    <3>1. CASE i \in 1..Len(sorted)
      <4>1. PICK j \in 1..(i - 1) : sorted[j] = d
        BY <1>1, <1>5, <2>1, <3>1 DEF SortInv, Ahead
      <4>2. j \in 1..Len(sorted)
        BY <1>5, <3>1
      <4>. QED  BY <1>5, <4>1, <4>2
    <3>2. CASE i = Len(sorted) + 1
      <4>1. d \in ToSet(sorted)
        BY <1>5, <1>6, <2>1, <3>2
      <4>2. PICK j \in 1..Len(sorted) : sorted[j] = d
        BY <1>3, <4>1, EntriesOf
      <4>3. j \in 1..(i - 1)
        BY <1>5, <3>2
      <4>. QED  BY <1>5, <4>2, <4>3
    <3>. QED  BY <1>5, <3>1, <3>2
  <2>. QED  BY <2>1 DEF Ahead
<1>14. next \in SortStates
  <2>1. queue \in Seq(Packages)
    BY <1>10 DEF Queued
  <2>2. next = [queue |-> queue, sorted |-> done]
    BY <1>1 DEF Further
  <2>. QED  BY <1>5, <2>1, <2>2 DEF SortStates
<1>15. Once(done)
  <2>1. ASSUME NEW i \in 1..Len(done), NEW j \in 1..Len(done), done[i] = done[j] PROVE i = j
    <3>1. \A k \in 1..Len(sorted) : sorted[k] # current
      BY <1>3, <1>6, EntriesOf
    <3>2. CASE i \in 1..Len(sorted) /\ j \in 1..Len(sorted)
      <4>1. Once(sorted)
        BY <1>1 DEF SortInv
      <4>2. sorted[i] = sorted[j]
        BY <1>5, <2>1, <3>2
      <4>. QED  BY <3>2, <4>1, <4>2 DEF Once
    <3>3. CASE i = Len(sorted) + 1 /\ j \in 1..Len(sorted)
      BY <1>5, <2>1, <3>1, <3>3
    <3>4. CASE i \in 1..Len(sorted) /\ j = Len(sorted) + 1
      BY <1>5, <2>1, <3>1, <3>4
    <3>. QED  BY <1>5, <3>2, <3>3, <3>4
  <2>. QED  BY <2>1 DEF Once
<1>16. ASSUME NEW p \in Packages, DepsOf[p] \subseteq ToSet(done)
       PROVE  p \in ToSet(done) \cup ToSet(queue)
  <2>0. queue \in Seq(Packages) /\ Len(rest) <= Len(queue)
    BY <1>10 DEF Queued
  <2>1. CASE current \in DepsOf[p]
    <3>1. p \in freed
      BY <1>1, <1>16, <2>1 DEF Freed
    <3>2. PICK j \in 1..Len(packages) : packages[j] = p
      BY EntriesOf
    <3>3. PICK i \in 1..Len(queue) : queue[i] = p
      BY <1>10, <3>1, <3>2 DEF Queued
    <3>. QED  BY <2>0, <3>3, EntriesOf
  <2>2. CASE current \notin DepsOf[p]
    <3>1. DepsOf[p] \subseteq ToSet(sorted)
      BY <1>5, <1>16, <2>2
    <3>2. p \in ToSet(sorted) \cup ToSet(st.queue)
      BY <1>1, <3>1 DEF SortInv
    <3>3. CASE p \in ToSet(st.queue)
      <4>1. PICK i \in 1..Len(st.queue) : st.queue[i] = p
        BY <1>3, <3>3, EntriesOf
      <4>2. CASE i = 1
        BY <1>4, <1>5, <4>1, <4>2
      <4>3. CASE i # 1
        <5>1. PICK j \in 1..Len(rest) : i = j + 1
          <6>1. i - 1 \in 1..Len(rest) /\ i = (i - 1) + 1
            BY <1>3, <1>4, <4>3
          <6>. QED  BY <6>1
        <5>2. queue[j] = p /\ j \in 1..Len(queue)
          BY <1>4, <1>10, <2>0, <4>1, <5>1 DEF Queued
        <5>. QED  BY <2>0, <5>2, EntriesOf
      <4>. QED  BY <4>2, <4>3
    <3>. QED  BY <1>5, <3>2, <3>3
  <2>. QED  BY <2>1, <2>2
<1>17. SortInv(next)
  BY <1>2, <1>10, <1>12, <1>13, <1>14, <1>15, <1>16 DEF SortInv
<1>18. Cardinality(Packages \ ToSet(done)) < Cardinality(Packages \ ToSet(sorted))
  <2>1. PICK before, after : before = Packages \ ToSet(sorted) /\ after = Packages \ ToSet(done)
    OBVIOUS
  <2>2. IsFiniteSet(before)
    BY <2>1, FS_Difference DEF PublishAssumption
  <2>3. after = before \ {current} /\ current \in before
    BY <1>4, <1>5, <1>6, <2>1
  <2>4. Cardinality(before \ {current}) = Cardinality(before) - 1 /\ Cardinality(before) \in Nat
    BY <2>2, <2>3, FS_RemoveElement, FS_CardinalityType
  <2>5. Cardinality(after) < Cardinality(before)
    BY <2>3, <2>4
  <2>. QED  BY <2>1, <2>5
<1>. QED  BY <1>1, <1>2, <1>17, <1>18

(* There is such a function, as every turn leaves a state of the sort.     *)
LEMMA SortExists ==
  ASSUME NEW packages \in Seq(Packages)
  PROVE  \E f : Sorts(f, packages)
<1>. DEFINE Done == {st \in SortStates : st.queue = <<>>}
            step == [st \in SortStates |-> IF st \in Done THEN st ELSE Further(st, packages)]
            out == [st \in SortStates |-> st.sorted]
<1>1. ASSUME NEW st \in SortStates, st.queue # <<>>
      PROVE  Further(st, packages) \in SortStates
  <2>1. PICK rest, current, freed, queue :
          /\ rest = Tail(st.queue) /\ current = Head(st.queue) /\ freed = Freed(st)
          /\ queue = Joining(rest, packages, freed)
    OBVIOUS
  <2>2. st.queue \in Seq(Packages) /\ st.sorted \in Seq(Packages)
    BY DEF SortStates
  <2>3. rest \in Seq(Packages) /\ current \in Packages
    BY <1>1, <2>1, <2>2
  <2>4. Queued(rest, queue, packages, freed, Len(packages))
    BY <2>1, <2>3, JoiningIs
  <2>5. queue \in Seq(Packages) /\ Append(st.sorted, current) \in Seq(Packages)
    BY <2>2, <2>3, <2>4 DEF Queued
  <2>6. Further(st, packages) = [queue |-> queue, sorted |-> Append(st.sorted, current)]
    BY <2>1 DEF Further
  <2>. QED  BY <2>5, <2>6 DEF SortStates
<1>2. step \in [SortStates -> SortStates] /\ Done \in SUBSET SortStates
  BY <1>1
<1>3. PICK f : Loop(f, SortStates, Done, step, out)
  <2>. HIDE DEF step, out, Done
  <2>. QED  BY <1>2, LoopExists
<1>4. ASSUME NEW st \in SortStates
      PROVE  f[st] = IF st.queue = <<>> THEN st.sorted ELSE f[Further(st, packages)]
  <2>1. f[st] = IF st \in Done THEN out[st] ELSE f[step[st]]
    <3>. HIDE DEF step, out, Done
    <3>. QED  BY <1>3 DEF Loop
  <2>2. /\ st \in Done <=> st.queue = <<>>
        /\ st \notin Done => step[st] = Further(st, packages)
        /\ out[st] = st.sorted
    OBVIOUS
  <2>. HIDE DEF step, out, Done
  <2>. QED  BY <2>1, <2>2
<1>5. f = [st \in SortStates |-> f[st]]
  <2>. HIDE DEF step, out, Done
  <2>. QED  BY <1>3 DEF Loop
<1>6. Sorts(f, packages)
  <2>. HIDE DEF step, out, Done
  <2>. QED  BY <1>4, <1>5 DEF Sorts
<1>. QED  BY <1>6

(* From a state that is in order the sort gives a list that is.            *)
LEMMA SortGoesOn ==
  ASSUME PublishAssumption, NEW packages \in Seq(Packages), Once(packages),
         ToSet(packages) = Packages,
         NEW f, Sorts(f, packages), NEW st, SortInv(st),
         \A next \in SortStates :
           SortInv(next)
           /\ Cardinality(Packages \ ToSet(next.sorted)) < Cardinality(Packages \ ToSet(st.sorted))
             => Result(f[next])
  PROVE  Result(f[st])
<1>1. st \in SortStates
  BY DEF SortInv
<1>2. f[st] = IF st.queue = <<>> THEN st.sorted ELSE f[Further(st, packages)]
  BY <1>1 DEF Sorts
<1>3. CASE st.queue = <<>>
  <2>1. st.sorted \in Seq(Packages) /\ ToSet(st.queue) = {}
    BY <1>1, <1>3, EntriesOf DEF SortStates
  <2>. QED  BY <1>2, <1>3, <2>1 DEF SortInv, Result
<1>4. CASE st.queue # <<>>
  <2>1. PICK next : next = Further(st, packages)
    OBVIOUS
  <2>2. /\ SortInv(next)
        /\ Cardinality(Packages \ ToSet(next.sorted)) < Cardinality(Packages \ ToSet(st.sorted))
    BY <1>4, <2>1, SortStep
  <2>3. next \in SortStates
    BY <2>2 DEF SortInv
  <2>. QED  BY <1>2, <1>4, <2>1, <2>2, <2>3
<1>. QED  BY <1>3, <1>4

(* A listing has every package once.                                       *)
LEMMA ListedOnce ==
  ASSUME PublishAssumption, NEW packages \in Listings
  PROVE  packages \in Seq(Packages) /\ Once(packages) /\ ToSet(packages) = Packages
<1>. DEFINE n == Cardinality(Packages)
<1>1. n \in Nat /\ packages \in [1..n -> Packages] /\ ToSet(packages) = Packages
  BY FS_CardinalityType DEF Listings, PublishAssumption
<1>2. packages \in Seq(Packages) /\ Len(packages) = n
  BY <1>1
<1>3. IsFiniteSet(1..n) /\ Cardinality(1..n) = n
  BY <1>1, FS_Interval
<1>4. packages \in Surjection(1..n, Packages)
  BY <1>1, <1>2, EntriesOf DEF Surjection
<1>5. packages \in Injection(1..n, Packages)
  BY <1>3, <1>4, FS_Surjection
<1>. QED  BY <1>1, <1>2, <1>5 DEF Once, Injection, IsInjective

(* What topologicalSort gives for a listing.                               *)
LEMMA SortedIs ==
  ASSUME PublishAssumption, NEW packages \in Seq(Packages), Once(packages),
         ToSet(packages) = Packages
  PROVE  Result(Sorted(packages))
<1>1. PICK free, queue, start :
        /\ free = {p \in Packages : DepsOf[p] = {}} /\ queue = Joining(<<>>, packages, free)
        /\ start = [queue |-> queue, sorted |-> <<>>]
  OBVIOUS
<1>2. Sorted(packages) = (CHOOSE f : Sorts(f, packages))[start]
  BY <1>1 DEF Sorted, Sorts, Further, Freed
<1>3. PICK f : Sorts(f, packages) /\ Sorted(packages) = f[start]
  BY <1>2, SortExists
<1>4. PICK none : none = <<>>
  OBVIOUS
<1>5. none \in Seq(Packages) /\ Len(none) = 0 /\ 1..Len(none) = {}
  BY <1>4
<1>6. Queued(none, queue, packages, free, Len(packages)) /\ Once(queue)
  <2>1. queue = Joining(none, packages, free)
    BY <1>1, <1>4
  <2>2. Once(none) /\ \A i \in 1..Len(none) : none[i] \notin free
    BY <1>5 DEF Once
  <2>. QED  BY <1>5, <2>1, <2>2, JoiningIs
<1>7. queue \in Seq(Packages) /\ \A i \in 1..Len(queue) : queue[i] \in free
  BY <1>5, <1>6 DEF Queued
<1>8. SortInv(start)
  <2>1. start \in SortStates /\ start.queue = queue /\ start.sorted = none
    BY <1>1, <1>4, <1>5, <1>7 DEF SortStates
  <2>2. ToSet(none) = {} /\ Ahead(none)
    BY <1>5, EntriesOf DEF Ahead
  <2>3. Once(none)
    BY <1>5 DEF Once
  <2>4. ASSUME NEW p \in Packages, DepsOf[p] \subseteq ToSet(none) PROVE p \in ToSet(queue)
    <3>1. p \in free
      BY <1>1, <2>2, <2>4
    <3>2. PICK j \in 1..Len(packages) : packages[j] = p
      BY EntriesOf
    <3>3. PICK i \in 1..Len(queue) : queue[i] = p
      BY <1>6, <3>1, <3>2 DEF Queued
    <3>. QED  BY <1>7, <3>3, EntriesOf
  <2>5. \A i \in 1..Len(queue) : DepsOf[queue[i]] = {}
    BY <1>1, <1>7
  <2>. QED  BY <1>6, <2>1, <2>2, <2>3, <2>4, <2>5 DEF SortInv
<1>. DEFINE P == {st \in SortStates : SortInv(st) => Result(f[st])}
            size == [st \in SortStates |-> Cardinality(Packages \ ToSet(st.sorted))]
<1>9. size \in [SortStates -> Nat] /\ P \in SUBSET SortStates
  <2>1. \A S : Cardinality(Packages \ S) \in Nat
    BY FS_Difference, FS_CardinalityType DEF PublishAssumption
  <2>. QED  BY <2>1
<1>10. ASSUME NEW st \in SortStates, \A next \in SortStates : size[next] < size[st] => next \in P
      PROVE  st \in P
  <2>. SUFFICES ASSUME SortInv(st) PROVE Result(f[st])
    OBVIOUS
  <2>1. \A next \in SortStates :
          SortInv(next)
          /\ Cardinality(Packages \ ToSet(next.sorted)) < Cardinality(Packages \ ToSet(st.sorted))
            => Result(f[next])
    BY <1>10
  <2>. HIDE DEF P, size
  <2>. QED  BY <1>3, <2>1, SortGoesOn
<1>11. P = SortStates
  <2>. HIDE DEF P, size
  <2>1. GoesDown(SortStates, P, size)
    BY <1>10 DEF GoesDown
  <2>. QED  BY <1>9, <2>1, SizeInduction
<1>12. start \in SortStates
  BY <1>8 DEF SortInv
<1>. QED  BY <1>3, <1>8, <1>11, <1>12

(* So the orders in which runs publish put dependencies first.             *)
LEMMA OrdersAreAhead == ASSUME PublishAssumption PROVE \A order \in PublishOrders : Ahead(order)
BY ListedOnce, SortedIs DEF PublishOrders, Result

(* topologicalSort fails on cycles only (publish-all.ts:98-101): if each    *)
(* package can be ranked above all it depends on, no package is left out,  *)
(* in whatever order the directory is listed.                              *)
THEOREM OnlyCyclesFail ==
  ASSUME NEW rank \in [Packages -> Nat], \A p \in Packages : \A d \in DepsOf[p] : rank[d] < rank[p]
  PROVE  \A packages \in Listings : Sorted(packages) \in PublishOrders
<1>. SUFFICES ASSUME NEW packages \in Listings
              PROVE  Sorted(packages) \in Listings
  BY DEF PublishOrders
<1>1. PICK s : s = Sorted(packages)
  OBVIOUS
<1>2. Result(s)
  BY <1>1, PublishAssumption, ListedOnce, SortedIs
<1>3. s \in Seq(Packages) /\ Len(s) \in Nat /\ ToSet(s) \in SUBSET Packages
  BY <1>2, EntriesOf DEF Result
<1>4. GoesDown(Packages, ToSet(s), rank)
  <2>1. \A p \in Packages : DepsOf[p] \in SUBSET Packages
    BY PublishAssumption DEF PublishAssumption
  <2>. QED  BY <1>2, <2>1 DEF GoesDown, Result
<1>5. ToSet(s) = Packages
  BY <1>3, <1>4, SizeInduction
<1>6. Len(s) = Cardinality(Packages)
  <2>1. IsFiniteSet(1..Len(s)) /\ Cardinality(1..Len(s)) = Len(s)
    <3>1. PICK n \in Nat : n = Len(s)
      BY <1>3
    <3>2. IsFiniteSet(1..n) /\ Cardinality(1..n) = n
      BY FS_Interval
    <3>. QED  BY <3>1, <3>2
  <2>2. s \in [1..Len(s) -> Packages] /\ \A p \in Packages : \E i \in 1..Len(s) : s[i] = p
    BY <1>3, <1>5, EntriesOf
  <2>3. s \in Surjection(1..Len(s), Packages)
    BY <2>2 DEF Surjection
  <2>4. s \in Injection(1..Len(s), Packages)
    BY <1>2, <2>2 DEF Result, Once, Injection, IsInjective
  <2>. QED  BY <2>1, <2>3, <2>4, FS_Surjection
<1>. QED  BY <1>1, <1>3, <1>5, <1>6 DEF Listings

-----------------------------------------------------------------------------
(* The packages that are left have their dependencies ahead of them, or     *)
(* published by this run.                                                   *)
Ordered(x) ==
  \A i \in DOMAIN x.left : \A d \in DepsOf[x.left[i]] :
    d \in x.justPublished \/ \E j \in 1..(i - 1) : x.left[j] = d

(* What holds of a run that nothing disturbed.                              *)
Lucky(x) ==
  /\ x.phase # "off" /\ x.blocked = {}
  /\ Clear(x.checkout)
  /\ \A p \in x.justPublished : latest[p] = x.checkout[p]
  /\ Ordered(x)
  /\ x.phase = "upload" => latest[Head(x.left)] # x.checkout[Head(x.left)]
  /\ x.phase = "release" => latest[Head(x.left)] = x.checkout[Head(x.left)]

Alone(r) == \A s \in Runs \ {r} : ~ Active(s)

RerunInv == \A r \in lucky : Alone(r) /\ Lucky(run[r])

(* Going on to the next package keeps the order.                            *)
LEMMA OrderedEnd ==
  ASSUME NEW x, NEW y, x.left \in Seq(Packages), x.left # <<>>, Ordered(x),
         y.left = Tail(x.left), y.justPublished = x.justPublished \cup {Head(x.left)}
  PROVE  Ordered(y)
<1> DEFINE s == x.left
           t == Tail(x.left)
<1>1. /\ s \in Seq(Packages) /\ Len(s) \in Nat \ {0} /\ Len(t) = Len(s) - 1 /\ Head(s) = s[1]
      /\ DOMAIN s = 1..Len(s) /\ DOMAIN t = 1..Len(t)
      /\ \A i \in 1..Len(t) : t[i] = s[i + 1]
  OBVIOUS
<1> SUFFICES ASSUME NEW i \in DOMAIN t, NEW d \in DepsOf[t[i]]
             PROVE  d \in y.justPublished \/ \E j \in 1..(i - 1) : t[j] = d
  BY DEF Ordered
<1>2. i \in 1..Len(t) /\ i + 1 \in DOMAIN s /\ t[i] = s[i + 1]
  BY <1>1
<1>3. d \in x.justPublished \/ \E j \in 1..((i + 1) - 1) : s[j] = d
  BY <1>2 DEF Ordered
<1>4. ASSUME NEW j \in 1..((i + 1) - 1), s[j] = d
      PROVE  d = Head(s) \/ \E k \in 1..(i - 1) : t[k] = d
  <2>1. CASE j = 1
    BY <1>1, <1>4, <2>1
  <2>2. CASE j # 1
    <3>1. j - 1 \in 1..(i - 1) /\ j - 1 \in 1..Len(t) /\ (j - 1) + 1 = j
      BY <1>1, <1>2, <1>4, <2>2
    <3>2. t[j - 1] = s[j]
      BY <1>1, <3>1
    <3> QED BY <1>4, <3>1, <3>2
  <2> QED BY <2>1, <2>2
<1> QED BY <1>3, <1>4

(* A package that is current has all its dependencies behind it.            *)
LEMMA NoneUnseen ==
  ASSUME NEW x, x.left \in Seq(Packages), x.left # <<>>, Ordered(x)
  PROVE  DepsOf[Head(x.left)] \subseteq x.justPublished
<1>1. 1 \in DOMAIN x.left /\ Head(x.left) = x.left[1] /\ 1..(1 - 1) = {}
  OBVIOUS
<1> QED BY <1>1 DEF Ordered

(* A step of the only run that goes on, in which npm stays as it is.        *)
LEMMA RerunStays ==
  ASSUME TypeOK, RerunInv, NEW r \in Runs, NEW x, run' = [run EXCEPT ![r] = x],
         Active(r), lucky' \subseteq lucky, UNCHANGED <<npm, latest>>,
         r \in lucky' => Lucky(x)
  PROVE  RerunInv'
<1> SUFFICES ASSUME NEW s \in lucky' PROVE Alone(s)' /\ Lucky(run[s])'
  BY DEF RerunInv
<1>1. s \in lucky /\ s \in Runs /\ Alone(s)
  BY DEF RerunInv, TypeOK
<1>2. s = r
  BY <1>1 DEF Alone
<1>3. \A q \in Runs \ {r} : run'[q] = run[q]
  BY DEF TypeOK
<1>4. Alone(s)'
  BY <1>1, <1>2, <1>3 DEF Alone, Active
<1>5. run'[s] = x
  BY <1>2 DEF TypeOK
<1> QED BY <1>2, <1>4, <1>5 DEF Lucky, Clear, OnNpm, Ordered

(* One step of anything keeps an undisturbed run undisturbed.               *)
LEMMA RerunStep ==
  ASSUME PublishInv, RerunInv, [Next]_vars PROVE RerunInv'
<1>0. TypeOK
  BY DEF PublishInv
<1>1. CASE UNCHANGED vars
  BY <1>1 DEF vars, RerunInv, Alone, Active, Lucky, Clear, OnNpm, Ordered
<1>2. ASSUME NEW p \in Packages, Bump(p) PROVE RerunInv'
  BY <1>2 DEF Bump, RerunInv, Alone, Active, Lucky, Clear, OnNpm, Ordered
<1>3. ASSUME NEW r \in Runs, Start(r) PROVE RerunInv'
  <2>1. PICK order \in PublishOrders, checkout \in {mainVersion, run[r].checkout} :
          /\ run' = [run EXCEPT ![r] = [phase |-> "next", checkout |-> checkout, left |-> order,
                                        justPublished |-> {}, blocked |-> {}]]
          /\ lucky' = IF Clear(checkout) /\ \A s \in Runs \ {r} : ~ Active(s) THEN {r} ELSE {}
    BY <1>3 DEF Start
  <2> DEFINE y == [phase |-> "next", checkout |-> checkout, left |-> order,
                   justPublished |-> {}, blocked |-> {}]
  <2> SUFFICES ASSUME NEW s \in lucky' PROVE Alone(s)' /\ Lucky(run[s])'
    BY DEF RerunInv
  <2>2. s = r /\ Clear(checkout) /\ Alone(r) /\ UNCHANGED <<npm, latest>>
    BY <1>3, <2>1 DEF Alone, Start, outside
  <2>3. /\ y.phase = "next" /\ y.checkout = checkout /\ y.left = order
        /\ y.justPublished = {} /\ y.blocked = {}
    OBVIOUS
  <2>4. run'[s] = y /\ \A q \in Runs \ {r} : run'[q] = run[q]
    BY <1>0, <2>1, <2>2 DEF TypeOK
  <2> HIDE DEF y
  <2>5. Ordered(y)
    <3>1. order \in Seq(Packages) /\ Ahead(order)
      BY <2>1, OrderType, OrdersAreAhead, PublishAssumption
    <3>2. DOMAIN order = 1..Len(order)
      BY <3>1
    <3>3. \A i \in DOMAIN order : \A d \in DepsOf[order[i]] : \E j \in 1..(i - 1) : order[j] = d
      BY <3>1, <3>2 DEF Ahead
    <3> QED BY <2>3, <3>3 DEF Ordered
  <2>6. Lucky(y)
    BY <2>2, <2>3, <2>5 DEF Lucky
  <2>7. Alone(s)'
    BY <2>2, <2>4 DEF Alone, Active
  <2> QED BY <2>2, <2>4, <2>6, <2>7 DEF Lucky, Clear, OnNpm, Ordered
<1>4. ASSUME NEW r \in Runs,
             \/ SkipBlocked(r) \/ LookUp(r) \/ Preflight(r) \/ LookUpAgain(r)
             \/ Upload(r) \/ UploadReportedFailed(r) \/ UploadRefused(r)
             \/ Release(r) \/ Fails(r) \/ End(r) \/ Stop(r)
      PROVE  RerunInv'
  <2> DEFINE x == run[r]
             Moved(phase) == [x EXCEPT !.phase = phase]
             p == Package(r)
             next == Ended(r, TRUE)
  <2>1. x \in Run /\ Sound(x)
    BY <1>0 DEF PublishInv, TypeOK
  <2>2. Active(r) /\ lucky' \subseteq lucky
    BY <1>4 DEF SkipBlocked, LookUp, LookedUp, Preflight, LookUpAgain, Upload, Accept,
       UploadReportedFailed, UploadRefused, Release, Fails, End, Stop, Active
  <2>3. \A phase \in Phases :
          /\ Moved(phase).phase = phase /\ Moved(phase).left = x.left
          /\ Moved(phase).checkout = x.checkout /\ Moved(phase).justPublished = x.justPublished
          /\ Moved(phase).blocked = x.blocked
    BY <2>1 DEF Run
  <2>4. /\ next.phase = "next" /\ next.left = Tail(x.left) /\ next.checkout = x.checkout
        /\ next.justPublished = x.justPublished \cup {p} /\ next.blocked = x.blocked
    BY <2>1 DEF Ended, Run
  <2>5. p = Head(x.left) /\ Version(r) = x.checkout[p] /\ x.left \in Seq(Packages)
    BY <2>1 DEF Package, Version, Run
  <2>6. r \in lucky => Alone(r) /\ Lucky(x)
    BY DEF RerunInv
  <2> HIDE DEF x, Moved, p, next
  <2>7. ASSUME x.left # <<>>, Lucky(x), latest[p] = x.checkout[p]
        PROVE  Lucky(next)
    <3>1. Ordered(next)
      BY <2>4, <2>5, <2>7, OrderedEnd DEF Lucky
    <3> QED BY <2>4, <2>7, <3>1 DEF Lucky
  <2>8. ASSUME NEW phase \in Phases \ {"off"}, Lucky(x),
               phase = "upload" => latest[p] # x.checkout[p],
               phase = "release" => latest[p] = x.checkout[p]
        PROVE  Lucky(Moved(phase))
    <3>1. Ordered(Moved(phase))
      BY <2>3, <2>8 DEF Lucky, Ordered
    <3> QED BY <2>3, <2>5, <2>8, <3>1 DEF Lucky
  <2>9. ASSUME NEW phase \in Phases, Goto(r, phase)
        PROVE  run' = [run EXCEPT ![r] = Moved(phase)]
    BY <1>0, <2>9, StepForms DEF Moved, x
  <2>10. Publish(r) => run' = [run EXCEPT ![r] = next]
    BY <1>0, StepForms DEF next
  <2>11. Block(r) => run' = [run EXCEPT ![r] = Ended(r, FALSE)]
    BY <1>0, StepForms
  <2>12. {"preflight", "publish", "upload", "release", "done"} \subseteq Phases \ {"off"}
    BY DEF Phases
  <2>13. CASE r \notin lucky' /\ UNCHANGED <<npm, latest>>
    <3>1. PICK y : run' = [run EXCEPT ![r] = y]
      BY <1>4, <2>9, <2>10, <2>11, <2>12, <2>13
         DEF SkipBlocked, LookUp, Preflight, LookUpAgain, Upload,
             UploadReportedFailed, UploadRefused, Release, Fails, End, Stop
    <3> QED BY <1>0, <2>2, <2>13, <3>1, RerunStays
  <2>14. CASE r \in lucky' /\ (SkipBlocked(r) \/ UploadRefused(r))
    <3>1. Lucky(x)
      BY <2>2, <2>6, <2>14
    <3>2. UploadRefused(r)
      BY <2>14, <3>1 DEF SkipBlocked, Lucky, x
    <3>3. x.phase = "upload" /\ x.left # <<>> /\ OnNpm(p, x.checkout[p])
      BY <2>1, <2>5, <3>2 DEF UploadRefused, Tarball, Sound, x, p
    <3>4. p \in Packages
      BY <2>5, <3>3, HeadAndTail
    <3>5. latest[p] = x.checkout[p]
      BY <3>1, <3>3, <3>4 DEF Lucky, Clear
    <3> QED BY <2>5, <3>1, <3>3, <3>5 DEF Lucky
  <2>15. CASE r \in lucky' /\ (LookUp(r) \/ LookUpAgain(r))
    <3>1. PICK seen \in Seen(p), phase \in {"preflight", "upload"} :
            /\ IF ShouldPublish(Version(r), seen) THEN Goto(r, phase) ELSE Publish(r)
            /\ LookedUp(r, p, seen)
      BY <2>15 DEF LookUp, LookUpAgain, p
    <3>2. x.left # <<>> /\ UNCHANGED <<npm, latest>> /\ Lucky(x)
      BY <2>1, <2>2, <2>6, <2>15 DEF LookUp, LookUpAgain, Sound, outside, x
    <3>3. seen = latest[p]
      BY <2>15, <3>1 DEF LookedUp
    <3>4. CASE latest[p] = x.checkout[p]
      <4>1. Publish(r)
        BY <2>5, <3>1, <3>3, <3>4 DEF ShouldPublish
      <4> QED BY <1>0, <2>2, <2>7, <2>10, <3>2, <3>4, <4>1, RerunStays
    <3>5. CASE latest[p] # x.checkout[p]
      <4>1. Goto(r, phase)
        BY <2>5, <3>1, <3>3, <3>5 DEF ShouldPublish
      <4>2. run' = [run EXCEPT ![r] = Moved(phase)] /\ Lucky(Moved(phase))
        BY <2>8, <2>9, <2>12, <3>2, <3>5, <4>1
      <4> QED BY <1>0, <2>2, <3>2, <4>2, RerunStays
    <3> QED BY <3>4, <3>5
  <2>16. CASE r \in lucky' /\ Preflight(r)
    <3>1. x.left # <<>> /\ UNCHANGED <<npm, latest>> /\ Lucky(x)
      BY <2>1, <2>2, <2>6, <2>16 DEF Preflight, Sound, outside, x
    <3>2. Unseen(r) = {}
      BY <2>5, <3>1, NoneUnseen DEF Unseen, Lucky, x, p
    <3>3. Goto(r, "publish")
      BY <2>16, <3>2 DEF Preflight
    <3>4. run' = [run EXCEPT ![r] = Moved("publish")] /\ Lucky(Moved("publish"))
      BY <2>8, <2>9, <2>12, <3>1, <3>3
    <3> QED BY <1>0, <2>2, <3>1, <3>4, RerunStays
  <2>17. CASE Upload(r) \/ UploadReportedFailed(r)
    <3>1. Accept(r) /\ x.phase = "upload" /\ x.left # <<>>
      BY <2>1, <2>17 DEF Upload, UploadReportedFailed, Accept, Sound, x
    <3>2. p \in Packages
      BY <2>5, <3>1, HeadAndTail
    <3>3. /\ latest' = [latest EXCEPT ![p] = x.checkout[p]]
          /\ \A q \in Packages : \A v : OnNpm(q, v)' => OnNpm(q, v) \/ (q = p /\ v = x.checkout[p])
      BY <2>5, <3>1 DEF Accept, Tarball, OnNpm, p
    <3>4. PICK y : run' = [run EXCEPT ![r] = y]
      BY <2>9, <2>11, <2>12, <2>17 DEF Upload, UploadReportedFailed
    <3> SUFFICES ASSUME NEW s \in lucky' PROVE Alone(s)' /\ Lucky(run[s])'
      BY DEF RerunInv
    <3>5. s \in lucky /\ s \in Runs /\ Alone(s)
      BY <2>2, <1>0 DEF RerunInv, TypeOK
    <3>6. s = r
      BY <2>2, <3>5 DEF Alone
    <3>7. Upload(r) /\ Lucky(x)
      BY <2>6, <2>17, <3>5, <3>6 DEF UploadReportedFailed
    <3>8. run' = [run EXCEPT ![r] = Moved("release")]
      BY <2>9, <2>12, <3>7 DEF Upload
    <3>9. run'[s] = Moved("release") /\ \A q \in Runs \ {r} : run'[q] = run[q]
      BY <1>0, <3>6, <3>8 DEF TypeOK
    <3>10. Alone(s)'
      BY <3>5, <3>6, <3>9 DEF Alone, Active
    <3>11. latest' \in [Packages -> Versions \cup {0}] /\ latest'[p] = x.checkout[p]
           /\ \A q \in Packages : q # p => latest'[q] = latest[q]
      BY <1>0, <3>1, <3>2, <3>3, AcceptIsSound DEF TypeOK
    <3>12. PICK c : c = x.checkout
      OBVIOUS
    <3>13. PICK y1 : y1 = Moved("release")
      OBVIOUS
    <3>14. /\ y1.phase = "release" /\ y1.left = x.left /\ y1.checkout = c
           /\ y1.justPublished = x.justPublished /\ y1.blocked = x.blocked
      BY <2>3, <2>12, <3>12, <3>13
    <3>15. \A q \in Packages : OnNpm(q, c[q])' => latest'[q] = c[q]
      BY <3>3, <3>7, <3>11, <3>12 DEF Lucky, Clear
    <3>16. Clear(c)'
      BY <3>15 DEF Clear
    <3>17. \A q \in y1.justPublished : latest'[q] = c[q]
      BY <3>2, <3>3, <3>7, <3>11, <3>12, <3>14, <1>0, <2>1 DEF Lucky, TypeOK, Run
    <3>18. Ordered(y1)
      BY <3>7, <3>14 DEF Lucky, Ordered
    <3>19. latest'[Head(y1.left)] = y1.checkout[Head(y1.left)]
      BY <2>5, <3>11, <3>12, <3>14
    <3>20. y1.phase # "off" /\ y1.blocked = {}
      BY <3>7, <3>14 DEF Lucky
    <3>21. Lucky(y1)'
      BY <3>14, <3>16, <3>17, <3>18, <3>19, <3>20 DEF Lucky, Ordered
    <3>22. run'[s] = y1
      BY <3>9, <3>13
    <3> QED BY <3>10, <3>21, <3>22 DEF Lucky, Ordered
  <2>18. CASE r \in lucky' /\ Release(r)
    <3>1. x.phase = "release" /\ x.left # <<>> /\ UNCHANGED <<npm, latest>> /\ Lucky(x) /\ Publish(r)
      BY <2>1, <2>2, <2>6, <2>18 DEF Release, Sound, x
    <3>2. latest[p] = x.checkout[p]
      BY <2>5, <3>1 DEF Lucky
    <3> QED BY <1>0, <2>2, <2>7, <2>10, <3>1, <3>2, RerunStays
  <2>19. CASE r \in lucky' /\ End(r)
    <3>1. UNCHANGED <<npm, latest>> /\ Lucky(x) /\ Goto(r, "done")
      BY <2>2, <2>6, <2>19 DEF End, outside
    <3>2. run' = [run EXCEPT ![r] = Moved("done")] /\ Lucky(Moved("done"))
      BY <2>8, <2>9, <2>12, <3>1
    <3> QED BY <1>0, <2>2, <3>1, <3>2, RerunStays
  <2>20. CASE Fails(r) \/ Stop(r)
    BY <2>13, <2>20 DEF Fails, Stop, outside
  <2>21. ~ (Upload(r) \/ UploadReportedFailed(r)) => UNCHANGED <<npm, latest>>
    BY <1>4 DEF SkipBlocked, LookUp, Preflight, LookUpAgain, UploadRefused,
               Release, Fails, End, Stop, outside
  <2> QED BY <1>4, <2>13, <2>14, <2>15, <2>16, <2>17, <2>18, <2>19, <2>20, <2>21
<1> QED BY <1>1, <1>2, <1>3, <1>4 DEF Next

(* A run repairs what earlier ones left undone (publish-all.ts:118-213): if *)
(* nothing fails and it is alone, no package is blocked, and npm then names *)
(* the versions of its checkout.  It is here that sorting is needed.        *)
THEOREM RerunRepairs == Spec => []RerunCompletes
<1>1. Init => PublishInv /\ RerunInv
  BY PublishInit DEF Init, RerunInv
<1>2. PublishInv /\ RerunInv /\ [Next]_vars => PublishInv' /\ RerunInv'
  BY PublishStep, RerunStep
<1>3. PublishInv /\ RerunInv => RerunCompletes
  <2> SUFFICES ASSUME PublishInv, RerunInv, NEW r \in lucky
               PROVE  run[r].blocked = {} /\ (run[r].phase = "done" => latest = run[r].checkout)
    BY DEF RerunCompletes
  <2>1. r \in Runs /\ TypeOK /\ Sound(run[r]) /\ Lucky(run[r])
    BY DEF PublishInv, TypeOK, RerunInv
  <2>2. run[r].blocked = {}
    BY <2>1 DEF Lucky
  <2>3. ASSUME run[r].phase = "done" PROVE latest = run[r].checkout
    <3>1. run[r].left = <<>> /\ ToSet(run[r].left) = {}
      BY <2>1, <2>3 DEF Sound, ToSet
    <3>2. Packages \subseteq run[r].justPublished
      BY <2>1, <2>2, <2>3, <3>1 DEF Sound
    <3>3. \A p \in Packages : latest[p] = run[r].checkout[p]
      BY <2>1, <3>2 DEF Lucky
    <3>4. DOMAIN latest = Packages /\ DOMAIN run[r].checkout = Packages
      BY <2>1 DEF TypeOK, Run
    <3>5. latest \in [Packages -> Versions \cup {0}] /\ run[r].checkout \in [Packages -> Versions \cup {0}]
      BY <2>1 DEF TypeOK, Run
    <3> QED BY <3>3, <3>5
  <2> QED BY <2>2, <2>3
<1> QED BY <1>1, <1>2, <1>3, PTL DEF Spec

-----------------------------------------------------------------------------
(* Changelog                                                               *)

(* What a step of one worker leaves of the others.                         *)
Others(w) == \A v \in Workers \ {w} : work'[v] = work[v]

(* A worker that is at a step has a run of the script.                     *)
LEMMA WorkerJob ==
  ASSUME ChangelogTypeOK, NEW w \in Workers, work[w] # Idle
  PROVE  /\ work[w] \in Jobs /\ work[w].base \in 1..Len(main) /\ work[w].tree \in Commits
         /\ work[w].step # "idle"
         /\ work[w].tree.files \subseteq Fragments /\ work[w].tree.entered \in [Fragments -> Nat]
<1>1. work[w] \in Jobs /\ work[w].base \in DOMAIN main /\ main \in Seq(Commits)
  BY DEF ChangelogTypeOK
<1>2. DOMAIN main = 1..Len(main)
  BY <1>1
<1>3. work[w].tree \in Commits /\ work[w].step # "idle"
  BY <1>1 DEF Jobs
<1>4. work[w].tree.files \subseteq Fragments /\ work[w].tree.entered \in [Fragments -> Nat]
  BY <1>3 DEF Commits
<1> QED BY <1>1, <1>2, <1>3, <1>4

(* A worker at a step of the script is not idle.                           *)
LEMMA AtStep ==
  ASSUME ChangelogTypeOK, NEW w \in Workers, NEW step, At(w, step), step # "idle"
  PROVE  work[w] # Idle
BY DEF At, Idle

(* The commit at the tip, and what an appended commit leaves.              *)
LEMMA TipType == ChangelogTypeOK => /\ Tip \in Commits /\ Len(main) \in Nat \ {0}
                           /\ Len(main) \in DOMAIN main /\ DOMAIN main = 1..Len(main)
                           /\ \A n \in DOMAIN main : main[n] \in Commits
BY DEF ChangelogTypeOK, Tip

(* A push leaves the earlier commits.                                      *)
LEMMA Appended ==
  ASSUME ChangelogTypeOK, NEW commit \in Commits, main' = Append(main, commit)
  PROVE  /\ main' \in Seq(Commits) /\ main' # <<>>
         /\ Len(main') = Len(main) + 1 /\ Tip' = commit
         /\ DOMAIN main' = DOMAIN main \cup {Len(main) + 1}
         /\ \A n \in DOMAIN main : main'[n] = main[n]
<1>1. main \in Seq(Commits) /\ Len(main) \in Nat
  BY DEF ChangelogTypeOK
<1>2. /\ main' \in Seq(Commits) /\ Len(main') = Len(main) + 1
      /\ main'[Len(main) + 1] = commit
      /\ \A n \in 1..Len(main) : main'[n] = main[n]
  BY <1>1
<1>3. DOMAIN main = 1..Len(main) /\ DOMAIN main' = 1..(Len(main) + 1)
  BY <1>1, <1>2
<1>4. main' # <<>>
  BY <1>1, <1>2
<1> QED BY <1>1, <1>2, <1>3, <1>4 DEF Tip

-----------------------------------------------------------------------------
(* The steps of a run, by what becomes of it.                              *)
LEMMA CheckedOut ==
  ASSUME ChangelogTypeOK, NEW w \in Workers, NEW n \in DOMAIN main, Checkout(w, n)
  PROVE  /\ Others(w) /\ work'[w] \in Jobs /\ work'[w] # Idle
         /\ work'[w].base = n /\ work'[w].step = "read"
         /\ work'[w].tree = main[n] /\ work'[w].taken = {}
<1> DEFINE job == [base |-> n, step |-> "read", tree |-> main[n], taken |-> {}]
<1>1. job \in Jobs /\ job # Idle
  <2>1. job.step = "read" /\ Idle.step = "idle"
    BY DEF Idle
  <2>2. n \in Nat /\ main[n] \in Commits
    BY TipType
  <2> QED BY <2>1, <2>2 DEF Jobs
<1>2. work' = [work EXCEPT ![w] = job]
  BY DEF Checkout
<1>3. work'[w] = job /\ \A v \in Workers \ {w} : work'[v] = work[v]
  BY <1>2 DEF ChangelogTypeOK
<1> QED BY <1>1, <1>3 DEF Others

(* A run that ends leaves the others.                                      *)
LEMMA RunEnded ==
  ASSUME ChangelogTypeOK, NEW w \in Workers, NEW how, Ends(w, how)
  PROVE  Others(w) /\ work'[w] = Idle
BY DEF ChangelogTypeOK, Ends, Others

(* Having read the fragments, a run knows those that are well formed ...   *)
LEMMA HasRead ==
  ASSUME ChangelogTypeOK, NEW w \in Workers, Read(w), work[w].tree.files \ Malformed # {}
  PROVE  /\ Others(w) /\ work'[w] \in Jobs /\ work'[w] # Idle
         /\ work'[w].base = work[w].base /\ work'[w].step = "write"
         /\ work'[w].tree = work[w].tree
         /\ work'[w].taken = work[w].tree.files \ Malformed
<1> DEFINE job == [work[w] EXCEPT !.step = "write", !.taken = work[w].tree.files \ Malformed]
<1>1. work[w] \in Jobs /\ work[w].tree.files \subseteq Fragments
  BY AtStep, WorkerJob DEF Read
<1>2. job \in Jobs
  BY <1>1 DEF Jobs
<1>3. work'[w] = job /\ Others(w)
  BY DEF Read, ChangelogTypeOK, Others
<1>4. job.step = "write" /\ Idle.step = "idle"
  BY <1>1 DEF Jobs, Idle
<1> QED BY <1>1, <1>2, <1>3, <1>4 DEF Jobs

(* ... enters them, each once more than before ...                         *)
LEMMA HasWritten ==
  ASSUME ChangelogTypeOK, NEW w \in Workers, Write(w)
  PROVE  /\ Others(w) /\ work'[w] \in Jobs /\ work'[w] # Idle
         /\ work'[w].base = work[w].base /\ work'[w].step = "delete"
         /\ work'[w].tree.files = work[w].tree.files
         /\ \A f \in Fragments : work'[w].tree.entered[f] =
              IF f \in work[w].taken THEN work[w].tree.entered[f] + 1 ELSE work[w].tree.entered[f]
         /\ work'[w].taken = work[w].taken
<1> DEFINE entered == [f \in Fragments |-> IF f \in work[w].taken THEN work[w].tree.entered[f] + 1
                                           ELSE work[w].tree.entered[f]]
           tree == [work[w].tree EXCEPT !.entered = entered]
           job == [work[w] EXCEPT !.step = "delete", !.tree = tree]
<1>1. work[w] \in Jobs /\ work[w].tree \in Commits /\ work[w].tree.entered \in [Fragments -> Nat]
  BY AtStep, WorkerJob DEF Write
<1>2. entered \in [Fragments -> Nat]
  BY <1>1
<1>3. work'[w] = job /\ Others(w)
  BY DEF Write, ChangelogTypeOK, Others
<1>4. \A f \in Fragments : entered[f] = IF f \in work[w].taken THEN work[w].tree.entered[f] + 1
                                        ELSE work[w].tree.entered[f]
  OBVIOUS
<1> HIDE DEF entered
<1>5. tree \in Commits /\ tree.files = work[w].tree.files /\ tree.entered = entered
  BY <1>1, <1>2 DEF Commits
<1> HIDE DEF tree
<1>6. /\ job \in Jobs /\ job.step = "delete" /\ Idle.step = "idle" /\ job.base = work[w].base
      /\ job.tree = tree /\ job.taken = work[w].taken
  BY <1>1, <1>5 DEF Jobs, Idle
<1> QED BY <1>3, <1>4, <1>5, <1>6

(* ... and deletes them.                                                   *)
LEMMA HasDeleted ==
  ASSUME ChangelogTypeOK, NEW w \in Workers, Delete(w)
  PROVE  /\ Others(w) /\ work'[w] \in Jobs /\ work'[w] # Idle
         /\ work'[w].base = work[w].base /\ work'[w].step = "push"
         /\ work'[w].tree.files = work[w].tree.files \ work[w].taken
         /\ work'[w].tree.entered = work[w].tree.entered
<1> DEFINE tree == [work[w].tree EXCEPT !.files = @ \ work[w].taken]
           job == [work[w] EXCEPT !.step = "push", !.tree = tree]
<1>1. work[w] \in Jobs /\ work[w].tree \in Commits
  BY AtStep, WorkerJob DEF Delete
<1>2. work'[w] = job /\ Others(w)
  BY DEF Delete, ChangelogTypeOK, Others
<1>3. /\ tree \in Commits /\ tree.files = work[w].tree.files \ work[w].taken
      /\ tree.entered = work[w].tree.entered
  BY <1>1 DEF Commits
<1> HIDE DEF tree
<1>4. /\ job \in Jobs /\ job.step = "push" /\ Idle.step = "idle" /\ job.base = work[w].base
      /\ job.tree = tree
  BY <1>1, <1>3 DEF Jobs, Idle
<1> QED BY <1>2, <1>3, <1>4

(* A run that was cut off begins again without some of what it had taken.  *)
LEMMA WasCutOff ==
  ASSUME ChangelogTypeOK, NEW w \in Workers, CutOff(w)
  PROVE  /\ Others(w) /\ work'[w] \in Jobs /\ work'[w] # Idle
         /\ work'[w].base = work[w].base /\ work'[w].step = "read"
         /\ work'[w].tree.files \subseteq work[w].tree.files
         /\ work[w].tree.files \ work'[w].tree.files \subseteq
              IF At(w, "delete") THEN work[w].taken ELSE {}
         /\ work'[w].tree.entered = work[w].tree.entered
<1>1. work[w] \in Jobs /\ work[w].tree \in Commits
  BY AtStep, WorkerJob DEF CutOff, At
<1>2. PICK gone : /\ gone \in IF At(w, "delete") THEN SUBSET work[w].taken \ {work[w].taken} ELSE {{}}
                  /\ work' = [work EXCEPT ![w].step = "read", ![w].taken = {},
                                          ![w].tree.files = @ \ gone]
  BY DEF CutOff
<1> DEFINE tree == [work[w].tree EXCEPT !.files = @ \ gone]
           job == [work[w] EXCEPT !.step = "read", !.taken = {}, !.tree = tree]
<1>3. work'[w] = job /\ Others(w)
  BY <1>2 DEF ChangelogTypeOK, Others
<1>4. /\ tree \in Commits /\ tree.files = work[w].tree.files \ gone
      /\ tree.entered = work[w].tree.entered
  BY <1>1 DEF Commits
<1> HIDE DEF tree
<1>5. /\ job \in Jobs /\ job.step = "read" /\ Idle.step = "idle" /\ job.base = work[w].base
      /\ job.tree = tree
  BY <1>1, <1>4 DEF Jobs, Idle
<1>6. gone \subseteq IF At(w, "delete") THEN work[w].taken ELSE {}
  BY <1>2
<1> QED BY <1>3, <1>4, <1>5, <1>6

-----------------------------------------------------------------------------
(* A worker's run that keeps its base keeps the types of work.             *)
LEMMA WorkType ==
  ASSUME ChangelogTypeOK, NEW w \in Workers, Others(w), work' = [work EXCEPT ![w] = work'[w]],
         DOMAIN main \subseteq DOMAIN main',
         work'[w] = Idle \/ (work'[w] \in Jobs /\ work'[w].base \in DOMAIN main')
  PROVE  /\ work' \in [Workers -> {Idle} \cup Jobs]
         /\ \A v \in Workers : work'[v] # Idle => work'[v].base \in DOMAIN main'
BY DEF ChangelogTypeOK, Others

(* Every step keeps the types.                                             *)
LEMMA TypeStep == ChangelogTypeOK /\ [ChangelogNext]_changelogVars => ChangelogTypeOK'
<1> SUFFICES ASSUME ChangelogTypeOK, [ChangelogNext]_changelogVars PROVE ChangelogTypeOK'
  OBVIOUS
<1>0. /\ Tip \in Commits /\ Len(main) \in Nat /\ DOMAIN main = 1..Len(main)
      /\ Len(main) \in DOMAIN main
  BY TipType
<1>1. CASE PushCode
  <2>1. main' \in Seq(Commits) /\ main' # <<>> /\ DOMAIN main \subseteq DOMAIN main'
    BY <1>0, <1>1, Appended DEF PushCode
  <2>2. pushes' \in 0..MaxPushes
    BY <1>1, ChangelogAssumption DEF PushCode, ChangelogTypeOK
  <2> QED BY <1>1, <2>1, <2>2 DEF ChangelogTypeOK, PushCode
<1>2. CASE PushFragment
  <2>1. PICK f \in Fragments \ added :
          /\ main' = Append(main, [Tip EXCEPT !.files = @ \cup {f}])
          /\ added' = added \cup {f}
    BY <1>2 DEF PushFragment
  <2>2. [Tip EXCEPT !.files = @ \cup {f}] \in Commits
    BY <1>0 DEF Commits
  <2>3. /\ main' \in Seq(Commits) /\ main' # <<>> /\ DOMAIN main \subseteq DOMAIN main'
        /\ Len(main) + 1 \in DOMAIN main'
    BY <2>1, <2>2, Appended
  <2>4. pushes' \in 0..MaxPushes
    BY <1>2, ChangelogAssumption DEF PushFragment, ChangelogTypeOK
  <2> QED BY <1>2, <2>1, <2>3, <2>4 DEF ChangelogTypeOK, PushFragment
<1>3. CASE StartRun
  <2>1. waiting \in DOMAIN main /\ CI \in Workers /\ Checkout(CI, waiting)
    BY <1>3 DEF StartRun, ChangelogTypeOK, Workers
  <2>2. /\ Others(CI) /\ work'[CI] \in Jobs /\ work'[CI].base = waiting
        /\ work' = [work EXCEPT ![CI] = work'[CI]] /\ UNCHANGED main
    BY <1>3, <2>1, CheckedOut DEF StartRun, ChangelogTypeOK, Checkout
  <2>3. /\ work' \in [Workers -> {Idle} \cup Jobs]
        /\ \A v \in Workers : work'[v] # Idle => work'[v].base \in DOMAIN main'
    BY <2>1, <2>2, WorkType
  <2> QED BY <1>3, <2>3 DEF ChangelogTypeOK, StartRun
<1>4. ASSUME NEW w \in Hands, StartByHand(w) PROVE ChangelogTypeOK'
  <2>1. w \in Workers /\ Checkout(w, Len(main))
    BY <1>4 DEF Workers, StartByHand
  <2>2. /\ Others(w) /\ work'[w] \in Jobs /\ work'[w].base = Len(main)
        /\ work' = [work EXCEPT ![w] = work'[w]] /\ UNCHANGED main
    BY <1>0, <1>4, <2>1, CheckedOut DEF StartByHand, ChangelogTypeOK, Checkout
  <2>3. /\ work' \in [Workers -> {Idle} \cup Jobs]
        /\ \A v \in Workers : work'[v] # Idle => work'[v].base \in DOMAIN main'
    BY <1>0, <2>1, <2>2, WorkType
  <2> QED BY <1>4, <2>3 DEF ChangelogTypeOK, StartByHand
<1>5. ASSUME NEW w \in Workers, Read(w) PROVE ChangelogTypeOK'
  <2>1. CASE work[w].tree.files \ Malformed = {}
    <3>1. Ends(w, "success")
      BY <1>5, <2>1 DEF Read
    <3>2. Others(w) /\ work'[w] = Idle
      BY <3>1, RunEnded
    <3> QED BY <1>5, <3>1, <3>2, WorkType DEF ChangelogTypeOK, Read, Ends
  <2>2. CASE work[w].tree.files \ Malformed # {}
    <3>1. Others(w) /\ work'[w] \in Jobs /\ work'[w].base = work[w].base
      BY <1>5, <2>2, HasRead
    <3>2. work[w].base \in DOMAIN main
      BY <1>5, AtStep DEF ChangelogTypeOK, Read
    <3> QED BY <1>5, <2>2, <3>1, <3>2, WorkType DEF ChangelogTypeOK, Read
  <2> QED BY <2>1, <2>2
<1>6. ASSUME NEW w \in Workers, Write(w) PROVE ChangelogTypeOK'
  <2>1. Others(w) /\ work'[w] \in Jobs /\ work'[w].base = work[w].base
    BY <1>6, HasWritten
  <2>2. work[w].base \in DOMAIN main
    BY <1>6, AtStep DEF ChangelogTypeOK, Write
  <2> QED BY <1>6, <2>1, <2>2, WorkType DEF ChangelogTypeOK, Write
<1>7. ASSUME NEW w \in Workers, Delete(w) PROVE ChangelogTypeOK'
  <2>1. Others(w) /\ work'[w] \in Jobs /\ work'[w].base = work[w].base
    BY <1>7, HasDeleted
  <2>2. work[w].base \in DOMAIN main
    BY <1>7, AtStep DEF ChangelogTypeOK, Delete
  <2> QED BY <1>7, <2>1, <2>2, WorkType DEF ChangelogTypeOK, Delete
<1>8. ASSUME NEW w \in Workers, Push(w) PROVE ChangelogTypeOK'
  <2>1. Others(w) /\ work'[w] = Idle /\ work' = [work EXCEPT ![w] = Idle]
    BY <1>8, RunEnded DEF Push, Ends
  <2>2. work[w].tree \in Commits
    BY <1>8, AtStep, WorkerJob DEF Push
  <2>3. /\ main' \in Seq(Commits) /\ main' # <<>> /\ DOMAIN main \subseteq DOMAIN main'
        /\ waiting' \in DOMAIN main' \cup {None}
    BY <1>8, <2>2, Appended DEF Push, ChangelogTypeOK
  <2>4. result' \in {"none", "success", "failure"}
    BY <1>8 DEF ChangelogTypeOK, Push, Ends
  <2>5. /\ work' \in [Workers -> {Idle} \cup Jobs]
        /\ \A v \in Workers : work'[v] # Idle => work'[v].base \in DOMAIN main'
    BY <2>1, <2>3 DEF ChangelogTypeOK
  <2> QED BY <1>8, <2>3, <2>4, <2>5 DEF ChangelogTypeOK, Push
<1>9. CASE RunFails
  <2>1. failures' \in 0..MaxFailures
    BY <1>9, ChangelogAssumption DEF ChangelogTypeOK, RunFails, Failure
  <2>2. Ends(CI, "failure") /\ UNCHANGED main
    BY <1>9 DEF RunFails
  <2>3. /\ work' \in [Workers -> {Idle} \cup Jobs]
        /\ \A v \in Workers : work'[v] # Idle => work'[v].base \in DOMAIN main'
    BY <2>2 DEF Ends, ChangelogTypeOK
  <2> QED BY <1>9, <2>1, <2>2, <2>3 DEF ChangelogTypeOK, RunFails, Ends
<1>10. ASSUME NEW w \in Hands, CutOff(w) PROVE ChangelogTypeOK'
  <2>1. w \in Workers
    BY DEF Workers
  <2>2. Others(w) /\ work'[w] \in Jobs /\ work'[w].base = work[w].base
    BY <1>10, <2>1, WasCutOff
  <2>3. work[w].base \in DOMAIN main /\ work[w].taken \subseteq Fragments
    BY <1>10, <2>1, AtStep, WorkerJob DEF ChangelogTypeOK, CutOff, At, Jobs
  <2>4. failures' \in 0..MaxFailures
    BY <1>10, ChangelogAssumption DEF ChangelogTypeOK, CutOff, Failure
  <2>5. work' = [work EXCEPT ![w] = work'[w]]
    BY <1>10, <2>1 DEF ChangelogTypeOK, CutOff
  <2> QED BY <1>10, <2>1, <2>2, <2>3, <2>4, <2>5, WorkType DEF ChangelogTypeOK, CutOff
<1>11. CASE UNCHANGED changelogVars
  BY <1>11 DEF ChangelogTypeOK, changelogVars
<1>12. ASSUME NEW w \in Workers, Steps(w) PROVE ChangelogTypeOK'
  BY <1>12, <1>5, <1>6, <1>7, <1>8 DEF Steps
<1> QED BY <1>1, <1>2, <1>3, <1>4, <1>9, <1>10, <1>11, <1>12 DEF ChangelogNext, Workflow, Workers

(* They hold at first.                                                     *)
LEMMA InitType == ChangelogInit => ChangelogTypeOK
<1> SUFFICES ASSUME ChangelogInit PROVE ChangelogTypeOK
  OBVIOUS
<1>1. [files |-> {}, entered |-> [f \in Fragments |-> 0]] \in Commits
  BY DEF Commits
<1>2. main \in Seq(Commits) /\ main # <<>>
  BY <1>1 DEF ChangelogInit
<1> QED BY <1>2, ChangelogAssumption DEF ChangelogInit, ChangelogTypeOK

(* The branch, the runs and what is requested keep their types.            *)
THEOREM ChangelogTyped == ChangelogSpec => []ChangelogTypeOK
BY InitType, TypeStep, PTL DEF ChangelogSpec

-----------------------------------------------------------------------------
(* What EnteredOnce says of the tip, of any tree; and that a tree knows of *)
(* no fragment that was not pushed.                                        *)
Kept(tree, f) ==
  /\ f \in tree.files \/ tree.entered[f] > 0
  /\ f \notin torn => tree.entered[f] = IF f \in tree.files THEN 0 ELSE 1

Knows(tree) ==
  /\ tree.files \subseteq added
  /\ \A f \in Fragments \ added : tree.entered[f] = 0

(* Between the writing of the changelog and the deletion of the files.     *)
Doubled(tree, f) ==
  /\ tree.entered[f] > 0
  /\ f \notin torn => tree.entered[f] = 1

(* The run of a worker whose push would be accepted.                       *)
RunSound(w) ==
  work[w] # Idle /\ work[w].base = Len(main) =>
    /\ Knows(work[w].tree)
    /\ work[w].step \in {"write", "delete"} => work[w].taken \subseteq work[w].tree.files
    /\ \A f \in added :
         IF work[w].step = "delete" /\ f \in work[w].taken
         THEN Doubled(work[w].tree, f) ELSE Kept(work[w].tree, f)

EnteredInv ==
  /\ Knows(Tip) /\ \A f \in added : Kept(Tip, f)
  /\ \A w \in Workers : RunSound(w)

(* What other workers do to their trees, and what is torn elsewhere,       *)
(* leaves a run sound.                                                     *)
LEMMA SoundStays ==
  ASSUME ChangelogTypeOK, NEW v \in Workers, RunSound(v), work'[v] = work[v],
         UNCHANGED <<main, added>>, torn \subseteq torn'
  PROVE  RunSound(v)'
BY DEF RunSound, Knows, Doubled, Kept

(* Where main and what was added stay, so does what holds of the tip.      *)
LEMMA TipStays ==
  ASSUME EnteredInv, UNCHANGED <<main, added>>, torn \subseteq torn'
  PROVE  Knows(Tip)' /\ \A f \in added' : Kept(Tip, f)'
BY DEF EnteredInv, Knows, Kept, Tip

(* When main has moved, no run that was under way can push.                *)
LEMMA SoundWhenMoved ==
  ASSUME ChangelogTypeOK, NEW v \in Workers, work'[v] = work[v] \/ work'[v] = Idle,
         Len(main') = Len(main) + 1
  PROVE  RunSound(v)'
<1>1. CASE work'[v] = Idle
  BY <1>1 DEF RunSound
<1>2. CASE work'[v] = work[v] /\ work[v] # Idle
  <2>1. work[v].base \in 1..Len(main) /\ Len(main) \in Nat
    BY <1>2, WorkerJob, TipType
  <2> QED BY <1>2, <2>1 DEF RunSound
<1> QED BY <1>1, <1>2

(* No step loses a fragment or enters it twice.                            *)
LEMMA EnteredStep == ChangelogTypeOK /\ EnteredInv /\ [ChangelogNext]_changelogVars => EnteredInv'
<1> SUFFICES ASSUME ChangelogTypeOK, EnteredInv, [ChangelogNext]_changelogVars PROVE EnteredInv'
  OBVIOUS
<1>0. /\ Tip \in Commits /\ Len(main) \in Nat /\ Len(main) \in DOMAIN main
      /\ \A v \in Workers : RunSound(v)
  BY TipType DEF EnteredInv
<1>1. CASE PushCode
  <2>1. Tip' = Tip /\ Len(main') = Len(main) + 1
    BY <1>0, <1>1, Appended DEF PushCode
  <2>2. Knows(Tip)' /\ \A f \in added' : Kept(Tip, f)'
    BY <1>1, <2>1 DEF PushCode, EnteredInv, Knows, Kept
  <2>3. \A v \in Workers : RunSound(v)'
    BY <1>1, <2>1, SoundWhenMoved DEF PushCode
  <2> QED BY <2>2, <2>3 DEF EnteredInv
<1>2. CASE PushFragment
  <2>1. PICK g \in Fragments \ added :
          /\ main' = Append(main, [Tip EXCEPT !.files = @ \cup {g}])
          /\ added' = added \cup {g}
    BY <1>2 DEF PushFragment
  <2> DEFINE commit == [Tip EXCEPT !.files = @ \cup {g}]
  <2>2. commit \in Commits /\ commit.files = Tip.files \cup {g} /\ commit.entered = Tip.entered
    BY <1>0 DEF Commits
  <2>3. Tip' = commit /\ Len(main') = Len(main) + 1
    BY <2>1, <2>2, Appended
  <2> HIDE DEF commit
  <2>4. Knows(Tip)'
    BY <2>1, <2>2, <2>3 DEF EnteredInv, Knows
  <2>5. ASSUME NEW f \in added' PROVE Kept(Tip, f)'
    <3>1. CASE f = g
      <4>1. Tip.entered[g] = 0
        BY <2>1 DEF EnteredInv, Knows
      <4> QED BY <2>2, <2>3, <3>1, <4>1 DEF Kept
    <3>2. CASE f # g
      BY <1>2, <2>1, <2>2, <2>3, <2>5, <3>2 DEF Kept, EnteredInv, PushFragment
    <3> QED BY <3>1, <3>2
  <2>6. \A v \in Workers : RunSound(v)'
    BY <1>2, <2>3, SoundWhenMoved DEF PushFragment
  <2> QED BY <2>4, <2>5, <2>6 DEF EnteredInv
<1>3. ASSUME NEW w \in Workers, NEW n \in DOMAIN main, Checkout(w, n),
             UNCHANGED <<main, added, torn>>
      PROVE  EnteredInv'
  <2>1. /\ Others(w) /\ work'[w].base = n /\ work'[w].step = "read"
        /\ work'[w].tree = main[n]
    BY <1>3, CheckedOut
  <2>2. RunSound(w)'
    <3>1. CASE n = Len(main)
      BY <1>3, <2>1, <3>1 DEF RunSound, EnteredInv, Knows, Kept, Tip
    <3>2. CASE n # Len(main)
      BY <1>3, <2>1, <3>2 DEF RunSound
    <3> QED BY <3>1, <3>2
  <2> QED BY <1>0, <1>3, <2>1, <2>2, SoundStays, TipStays DEF EnteredInv, Others
<1>4. ASSUME NEW w \in Workers, Read(w) PROVE EnteredInv'
  <2>1. RunSound(w)' /\ Others(w)
    <3>1. CASE work[w].tree.files \ Malformed = {}
      BY <1>4, <3>1, RunEnded DEF Read, RunSound
    <3>2. CASE work[w].tree.files \ Malformed # {}
      <4>1. /\ Others(w) /\ work'[w].base = work[w].base /\ work'[w].step = "write"
            /\ work'[w].tree = work[w].tree
            /\ work'[w].taken \subseteq work[w].tree.files
        BY <1>4, <3>2, HasRead
      <4>2. work[w] # Idle /\ work[w].step = "read"
        BY <1>4, AtStep DEF Read, At
      <4> QED BY <1>0, <1>4, <4>1, <4>2 DEF RunSound, Read, Knows, Kept
    <3> QED BY <3>1, <3>2
  <2> QED BY <1>0, <1>4, <2>1, SoundStays, TipStays DEF EnteredInv, Others, Read
<1>5. ASSUME NEW w \in Workers, Write(w) PROVE EnteredInv'
  <2>1. /\ Others(w) /\ work'[w].base = work[w].base /\ work'[w].step = "delete"
        /\ work'[w].tree.files = work[w].tree.files
        /\ \A f \in Fragments : work'[w].tree.entered[f] =
             IF f \in work[w].taken THEN work[w].tree.entered[f] + 1
             ELSE work[w].tree.entered[f]
        /\ work'[w].taken = work[w].taken
    BY <1>5, HasWritten
  <2>2. /\ work[w] # Idle /\ work[w].step = "write"
        /\ \A f \in Fragments : work[w].tree.entered[f] \in Nat
    BY <1>5, AtStep, WorkerJob DEF Write, At
  <2>3. RunSound(w)'
    <3> SUFFICES ASSUME work[w].base = Len(main)
                 PROVE  /\ Knows(work[w].tree)'
                        /\ work'[w].taken \subseteq work'[w].tree.files
                        /\ \A f \in added : IF f \in work[w].taken
                                            THEN Doubled(work[w].tree, f)'
                                            ELSE Kept(work[w].tree, f)'
      BY <1>5, <2>1 DEF RunSound, Write
    <3>1. /\ Knows(work[w].tree) /\ work[w].taken \subseteq work[w].tree.files
          /\ \A f \in added : Kept(work[w].tree, f)
      BY <1>0, <2>2 DEF RunSound
    <3>2. Knows(work[w].tree)'
      <4>1. \A f \in Fragments \ added : f \notin work[w].taken
        BY <3>1 DEF Knows
      <4> QED BY <1>5, <2>1, <3>1, <4>1 DEF Knows, Write
    <3>3. ASSUME NEW f \in added, f \in work[w].taken PROVE Doubled(work[w].tree, f)'
      <4>1. /\ f \in Fragments
            /\ work'[w].tree.entered[f] = work[w].tree.entered[f] + 1
            /\ work[w].tree.entered[f] \in Nat /\ f \in work[w].tree.files /\ torn' = torn
        BY <1>5, <2>1, <2>2, <3>1, <3>3 DEF ChangelogTypeOK, Write
      <4>2. f \notin torn => work[w].tree.entered[f] = 0
        BY <3>1, <4>1 DEF Kept
      <4>3. /\ work'[w].tree.entered[f] > 0
            /\ f \notin torn => work'[w].tree.entered[f] = 1
        BY <4>1, <4>2
      <4> QED BY <4>1, <4>3 DEF Doubled
    <3>4. ASSUME NEW f \in added, f \notin work[w].taken PROVE Kept(work[w].tree, f)'
      BY <1>5, <2>1, <3>1, <3>4 DEF ChangelogTypeOK, Write, Kept
    <3> QED BY <2>1, <3>1, <3>2, <3>3, <3>4
  <2> QED BY <1>0, <1>5, <2>1, <2>3, SoundStays, TipStays DEF EnteredInv, Others, Write
<1>6. ASSUME NEW w \in Workers, Delete(w) PROVE EnteredInv'
  <2>1. /\ Others(w) /\ work'[w].base = work[w].base /\ work'[w].step = "push"
        /\ work'[w].tree.files = work[w].tree.files \ work[w].taken
        /\ work'[w].tree.entered = work[w].tree.entered
    BY <1>6, HasDeleted
  <2>2. /\ work[w] # Idle /\ work[w].step = "delete"
        /\ work[w].tree.entered \in [Fragments -> Nat]
    BY <1>6, AtStep, WorkerJob DEF Delete, At
  <2>3. RunSound(w)'
    <3> SUFFICES ASSUME work[w].base = Len(main)
                 PROVE  /\ Knows(work[w].tree)'
                        /\ \A f \in added : Kept(work[w].tree, f)'
      BY <1>6, <2>1 DEF RunSound, Delete
    <3>1. Knows(work[w].tree)'
      BY <1>0, <1>6, <2>1, <2>2 DEF RunSound, Knows, Delete
    <3>2. ASSUME NEW f \in added PROVE Kept(work[w].tree, f)'
      BY <1>0, <1>6, <2>1, <2>2, <3>2 DEF RunSound, Doubled, Kept, Delete
    <3> QED BY <3>1, <3>2
  <2> QED BY <1>0, <1>6, <2>1, <2>3, SoundStays, TipStays DEF EnteredInv, Others, Delete
<1>7. ASSUME NEW w \in Workers, Push(w) PROVE EnteredInv'
  <2>1. Others(w) /\ work'[w] = Idle
    BY <1>7, RunEnded DEF Push
  <2>2. CASE work[w].base = Len(main)
    <3>1. work[w] # Idle /\ work[w].step = "push" /\ work[w].tree \in Commits
      BY <1>7, AtStep, WorkerJob DEF Push, At
    <3>2. Tip' = work[w].tree /\ Len(main') = Len(main) + 1
      BY <1>7, <2>2, <3>1, Appended DEF Push
    <3>3. Knows(work[w].tree) /\ \A f \in added : Kept(work[w].tree, f)
      BY <1>0, <2>2, <3>1 DEF RunSound
    <3>4. Knows(Tip)' /\ \A f \in added' : Kept(Tip, f)'
      BY <1>7, <3>2, <3>3 DEF Push, Knows, Kept
    <3>5. \A v \in Workers : RunSound(v)'
      BY <2>1, <3>2, SoundWhenMoved DEF Others
    <3> QED BY <3>4, <3>5 DEF EnteredInv
  <2>3. CASE work[w].base # Len(main)
    <3>1. UNCHANGED <<main, added, torn>>
      BY <1>7, <2>3 DEF Push
    <3>2. RunSound(w)'
      BY <2>1 DEF RunSound
    <3> QED BY <1>0, <2>1, <3>1, <3>2, SoundStays, TipStays DEF EnteredInv, Others
  <2> QED BY <2>2, <2>3
<1>8. CASE RunFails
  <2>1. CI \in Workers /\ Ends(CI, "failure") /\ UNCHANGED <<main, added, torn>>
    BY <1>8 DEF RunFails, Workers
  <2>2. Others(CI) /\ work'[CI] = Idle
    BY <2>1, RunEnded
  <2>3. RunSound(CI)'
    BY <2>2 DEF RunSound
  <2> QED BY <1>0, <2>1, <2>2, <2>3, SoundStays, TipStays DEF EnteredInv, Others
<1>9. ASSUME NEW w \in Hands, CutOff(w) PROVE EnteredInv'
  <2>0. w \in Workers
    BY DEF Workers
  <2>1. /\ Others(w) /\ work'[w].base = work[w].base /\ work'[w].step = "read"
        /\ work'[w].tree.files \subseteq work[w].tree.files
        /\ work[w].tree.files \ work'[w].tree.files \subseteq
             IF work[w].step = "delete" THEN work[w].taken ELSE {}
        /\ work'[w].tree.entered = work[w].tree.entered
    BY <1>9, <2>0, WasCutOff DEF At
  <2>2. /\ work[w] # Idle /\ work[w].step \in {"write", "delete"}
        /\ work[w].tree.entered \in [Fragments -> Nat]
    BY <1>9, <2>0, AtStep, WorkerJob DEF CutOff, At
  <2>3. /\ UNCHANGED <<main, added>> /\ torn \subseteq torn'
        /\ work[w].step = "delete" => work[w].taken \subseteq torn'
    BY <1>9 DEF CutOff, At
  <2>4. RunSound(w)'
    <3> SUFFICES ASSUME work[w].base = Len(main)
                 PROVE  /\ Knows(work[w].tree)'
                        /\ \A f \in added : Kept(work[w].tree, f)'
      BY <2>1, <2>3 DEF RunSound
    <3>1. Knows(work[w].tree)'
      BY <1>0, <2>0, <2>1, <2>2, <2>3 DEF RunSound, Knows
    <3>2. ASSUME NEW f \in added PROVE Kept(work[w].tree, f)'
      <4>1. CASE work[w].step = "delete" /\ f \in work[w].taken
        BY <1>0, <2>0, <2>1, <2>2, <2>3, <3>2, <4>1 DEF RunSound, Doubled, Kept
      <4>2. CASE ~ (work[w].step = "delete" /\ f \in work[w].taken)
        BY <1>0, <2>0, <2>1, <2>2, <2>3, <3>2, <4>2 DEF RunSound, Kept
      <4> QED BY <4>1, <4>2
    <3> QED BY <3>1, <3>2
  <2> QED BY <1>0, <2>1, <2>3, <2>4, SoundStays, TipStays DEF EnteredInv, Others
<1>10. CASE UNCHANGED changelogVars
  BY <1>0, <1>10, SoundStays, TipStays DEF EnteredInv, changelogVars
<1>11. CASE StartRun
  <2>1. /\ CI \in Workers /\ waiting \in DOMAIN main /\ Checkout(CI, waiting)
        /\ UNCHANGED <<main, added, torn>>
    BY <1>11 DEF StartRun, ChangelogTypeOK, Workers
  <2> QED BY <2>1, <1>3
<1>12. ASSUME NEW w \in Hands, StartByHand(w) PROVE EnteredInv'
  BY <1>0, <1>3, <1>12 DEF StartByHand, Workers
<1>13. ASSUME NEW w \in Workers, Steps(w) PROVE EnteredInv'
  BY <1>13, <1>4, <1>5, <1>6, <1>7 DEF Steps
<1> QED BY <1>1, <1>2, <1>8, <1>9, <1>10, <1>11, <1>12, <1>13 DEF ChangelogNext, Workflow, Workers

(* On the main branch no fragment is lost and none is entered twice, but   *)
(* for those that a run by hand had entered when it was cut off            *)
(* (assemble-changelog.ts:217-240).                                        *)
THEOREM FragmentsEnteredOnce == ChangelogSpec => []EnteredOnce
<1>1. ChangelogInit => EnteredInv
  <2> SUFFICES ASSUME ChangelogInit PROVE EnteredInv
    OBVIOUS
  <2>1. Tip = [files |-> {}, entered |-> [f \in Fragments |-> 0]]
    BY DEF ChangelogInit, Tip
  <2>2. \A w \in Workers : RunSound(w)
    BY DEF ChangelogInit, RunSound
  <2> QED BY <2>1, <2>2 DEF ChangelogInit, EnteredInv, Knows
<1>2. EnteredInv => EnteredOnce
  BY DEF EnteredInv, EnteredOnce, Kept
<1> QED BY <1>1, <1>2, InitType, TypeStep, EnteredStep, PTL DEF ChangelogSpec
-----------------------------------------------------------------------------
(* What the run of the workflow will find or has found in the directory,   *)
(* of all that is in it: nothing is added to the tip without a request.    *)
Foreseen ==
  /\ waiting # None => Tip.files \subseteq main[waiting].files
  /\ work[CI] # Idle =>
       LET job == work[CI]
       IN  /\ job.tree.files \subseteq main[job.base].files
           /\ waiting = None => Tip.files \subseteq main[job.base].files
           /\ job.step = "read" => job.tree.files = main[job.base].files
           /\ job.step \in {"write", "delete"} => job.taken = job.tree.files \ Malformed
           /\ job.step = "push" => job.tree.files \subseteq Malformed

SuccessInv == Foreseen /\ SuccessMeansEntered

(* A commit by somebody else that adds no file, or requests a run.         *)
LEMMA ForeseenAppended ==
  ASSUME ChangelogTypeOK, SuccessInv, NEW commit \in Commits, main' = Append(main, commit),
         work'[CI] = work[CI], result' = result,
         \/ waiting' = waiting /\ commit.files \subseteq Tip.files
         \/ waiting' = Len(main) + 1
  PROVE  SuccessInv'
<1>1. /\ Tip' = commit /\ Len(main') = Len(main) + 1 /\ main'[Len(main')] = commit
      /\ \A n \in DOMAIN main : main'[n] = main[n]
      /\ Len(main) \in Nat /\ waiting \in DOMAIN main \cup {None}
  BY Appended DEF ChangelogTypeOK, Tip
<1>2. Len(main) + 1 # None
  BY <1>1, ChangelogAssumption
<1>3. work[CI] # Idle => work[CI].base \in DOMAIN main
  BY DEF ChangelogTypeOK, Workers
<1>4. Foreseen'
  <2>1. CASE waiting' = waiting /\ commit.files \subseteq Tip.files
    BY <1>1, <1>3, <2>1 DEF SuccessInv, Foreseen
  <2>2. CASE waiting' = Len(main) + 1
    BY <1>1, <1>2, <1>3, <2>2 DEF SuccessInv, Foreseen
  <2> QED BY <2>1, <2>2
<1>5. SuccessMeansEntered'
  BY <1>1, <1>2 DEF SuccessInv, SuccessMeansEntered
<1> QED BY <1>4, <1>5 DEF SuccessInv

(* No step leaves the workflow at rest on a success with a fragment        *)
(* outside.                                                                *)
LEMMA SuccessStep == ChangelogTypeOK /\ SuccessInv /\ [ChangelogNext]_changelogVars => SuccessInv'
<1> SUFFICES ASSUME ChangelogTypeOK, SuccessInv, [ChangelogNext]_changelogVars PROVE SuccessInv'
  OBVIOUS
<1>0. /\ CI \in Workers /\ CI \notin Hands /\ Tip \in Commits
      /\ waiting \in DOMAIN main \cup {None} /\ Len(main) \in DOMAIN main
  BY TipType, ChangelogAssumption DEF Workers, ChangelogTypeOK
<1>1. CASE PushCode
  BY <1>0, <1>1, ForeseenAppended DEF PushCode
<1>2. CASE PushFragment
  <2>1. PICK g \in Fragments \ added : main' = Append(main, [Tip EXCEPT !.files = @ \cup {g}])
    BY <1>2 DEF PushFragment
  <2>2. [Tip EXCEPT !.files = @ \cup {g}] \in Commits
    BY <1>0 DEF Commits
  <2> QED BY <1>2, <2>1, <2>2, ForeseenAppended DEF PushFragment
<1>3. CASE StartRun
  <2>1. /\ work'[CI].base = waiting /\ work'[CI].step = "read" /\ work'[CI] # Idle
        /\ work'[CI].tree = main[waiting]
    BY <1>0, <1>3, CheckedOut DEF StartRun
  <2>2. waiting' = None /\ waiting # None /\ main' = main /\ Tip' = Tip
    BY <1>3 DEF StartRun, Tip
  <2> QED BY <2>1, <2>2 DEF SuccessInv, Foreseen, SuccessMeansEntered
<1>4. CASE Read(CI)
  <2>1. main' = main /\ waiting' = waiting /\ Tip' = Tip
    BY <1>4 DEF Read, Tip
  <2>2. work[CI] # Idle /\ work[CI].step = "read"
    BY <1>0, <1>4, AtStep DEF Read, At
  <2>3. CASE work[CI].tree.files \ Malformed = {}
    <3>1. work'[CI] = Idle
      BY <1>0, <1>4, <2>3, RunEnded DEF Read
    <3> QED BY <2>1, <2>2, <2>3, <3>1 DEF SuccessInv, Foreseen, SuccessMeansEntered
  <2>4. CASE work[CI].tree.files \ Malformed # {}
    <3>1. /\ work'[CI].base = work[CI].base /\ work'[CI].step = "write"
          /\ work'[CI].tree = work[CI].tree /\ work'[CI] # Idle
          /\ work'[CI].taken = work[CI].tree.files \ Malformed
      BY <1>0, <1>4, <2>4, HasRead
    <3> QED BY <2>1, <2>2, <3>1 DEF SuccessInv, Foreseen, SuccessMeansEntered
  <2> QED BY <2>3, <2>4
<1>5. CASE Write(CI)
  <2>1. main' = main /\ waiting' = waiting /\ Tip' = Tip
    BY <1>5 DEF Write, Tip
  <2>2. work[CI] # Idle /\ work[CI].step = "write"
    BY <1>0, <1>5, AtStep DEF Write, At
  <2>3. /\ work'[CI].base = work[CI].base /\ work'[CI].step = "delete" /\ work'[CI] # Idle
        /\ work'[CI].tree.files = work[CI].tree.files /\ work'[CI].taken = work[CI].taken
    BY <1>0, <1>5, HasWritten
  <2> QED BY <2>1, <2>2, <2>3 DEF SuccessInv, Foreseen, SuccessMeansEntered
<1>6. CASE Delete(CI)
  <2>1. main' = main /\ waiting' = waiting /\ Tip' = Tip
    BY <1>6 DEF Delete, Tip
  <2>2. work[CI] # Idle /\ work[CI].step = "delete"
    BY <1>0, <1>6, AtStep DEF Delete, At
  <2>3. /\ work'[CI].base = work[CI].base /\ work'[CI].step = "push" /\ work'[CI] # Idle
        /\ work'[CI].tree.files = work[CI].tree.files \ work[CI].taken
    BY <1>0, <1>6, HasDeleted
  <2> QED BY <2>1, <2>2, <2>3 DEF SuccessInv, Foreseen, SuccessMeansEntered
<1>7. CASE Push(CI)
  <2>1. work'[CI] = Idle
    BY <1>0, <1>7, RunEnded DEF Push
  <2>2. work[CI] # Idle /\ work[CI].step = "push"
    BY <1>0, <1>7, AtStep DEF Push, At
  <2>3. CASE work[CI].base = Len(main)
    <3>1. /\ waiting' = waiting /\ main' = Append(main, work[CI].tree)
          /\ work[CI].tree \in Commits
      BY <1>0, <1>7, <2>2, <2>3, WorkerJob DEF Push
    <3>2. Tip' = work[CI].tree /\ \A n \in DOMAIN main : main'[n] = main[n]
      BY <3>1, Appended
    <3>3. /\ work[CI].tree.files \subseteq Malformed
          /\ work[CI].tree.files \subseteq Tip.files
      BY <2>2, <2>3 DEF SuccessInv, Foreseen, Tip
    <3>4. waiting # None => Tip.files \subseteq main[waiting].files
      BY DEF SuccessInv, Foreseen
    <3>5. Foreseen'
      BY <1>0, <2>1, <3>1, <3>2, <3>3, <3>4 DEF Foreseen
    <3> QED BY <3>2, <3>3, <3>5 DEF SuccessInv, SuccessMeansEntered
  <2>4. CASE work[CI].base # Len(main)
    <3>1. main' = main /\ waiting' = waiting /\ Tip' = Tip /\ result' = "failure"
      BY <1>7, <2>4 DEF Push, Ends, Tip
    <3> QED BY <2>1, <3>1 DEF SuccessInv, Foreseen, SuccessMeansEntered
  <2> QED BY <2>3, <2>4
<1>8. CASE RunFails
  <2>1. /\ Ends(CI, "failure") /\ main' = main /\ waiting' = waiting /\ Tip' = Tip
        /\ result' = "failure"
    BY <1>8 DEF RunFails, Ends, Tip
  <2>2. work'[CI] = Idle
    BY <1>0, <2>1, RunEnded
  <2> QED BY <2>1, <2>2 DEF SuccessInv, Foreseen, SuccessMeansEntered
<1>9. ASSUME NEW w \in Hands, StartByHand(w) \/ Steps(w) \/ CutOff(w) PROVE SuccessInv'
  <2>0. w \in Workers /\ w # CI
    BY <1>0 DEF Workers
  <2>1. CASE Push(w) /\ work[w].base = Len(main)
    <3>1. /\ main' = Append(main, work[w].tree) /\ waiting' = Len(main) + 1
          /\ result' = result
      BY <2>0, <2>1 DEF Push, Ends
    <3>2. work[w].tree \in Commits
      BY <2>0, <2>1, AtStep, WorkerJob DEF Push
    <3>3. work'[CI] = work[CI]
      BY <1>0, <2>0, <2>1, RunEnded DEF Push, Others
    <3> QED BY <3>1, <3>2, <3>3, ForeseenAppended
  <2>2. CASE ~ (Push(w) /\ work[w].base = Len(main))
    <3>1. /\ main' = main /\ waiting' = waiting /\ Tip' = Tip /\ result' = result
      BY <1>9, <2>0, <2>2
         DEF StartByHand, Steps, Read, Write, Delete, Push, CutOff, Ends, Tip
    <3>2. Others(w)
      BY <1>0, <1>9, <2>0, CheckedOut, HasRead, HasWritten, HasDeleted, WasCutOff, RunEnded
         DEF StartByHand, Steps, Read, Push
    <3>3. work'[CI] = work[CI]
      BY <1>0, <2>0, <3>2 DEF Others
    <3> QED BY <3>1, <3>3 DEF SuccessInv, Foreseen, SuccessMeansEntered
  <2> QED BY <2>1, <2>2
<1>10. CASE UNCHANGED changelogVars
  BY <1>10 DEF changelogVars, SuccessInv, Foreseen, SuccessMeansEntered, Tip
<1> QED BY <1>1, <1>2, <1>3, <1>4, <1>5, <1>6, <1>7, <1>8, <1>9, <1>10
        DEF ChangelogNext, Workflow, Steps

(* When the workflow rests on a success, all fragments that can be read    *)
(* are in the changelog: no push is forgotten that came during a run       *)
(* (assemble-changelog.yml and assemble-changelog.ts:217-240).             *)
THEOREM SuccessIsComplete == ChangelogSpec => []SuccessMeansEntered
<1>1. ChangelogInit => SuccessInv
  <2> SUFFICES ASSUME ChangelogInit PROVE SuccessInv
    OBVIOUS
  <2>1. Tip.files = {} /\ waiting = None /\ work[CI] = Idle
    BY DEF ChangelogInit, Tip, Workers
  <2> QED BY <2>1 DEF SuccessInv, Foreseen, SuccessMeansEntered
<1>2. SuccessInv => SuccessMeansEntered
  BY DEF SuccessInv
<1> QED BY <1>1, <1>2, InitType, TypeStep, SuccessStep, PTL DEF ChangelogSpec
=============================================================================
