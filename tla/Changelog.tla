------------------------------- MODULE Changelog -------------------------------
(***************************************************************************)
(* scripts/assemble-changelog.ts, run by its workflow and by hand.         *)
(*                                                                         *)
(* Developers push commits to the main branch, some of which add fragments *)
(* under .changelog.  Those start a run of the workflow on their commit:   *)
(* it enters the fragments in CHANGELOG.md, deletes them, and pushes the   *)
(* result as a commit of its own, which starts no further run.  One run is *)
(* active at a time, and one waits: of several that wait only the last is  *)
(* kept.  A run may fail at any step, and everything it did is then gone   *)
(* with its machine.  A developer may run the script in a clone and push   *)
(* what it made; if it is cut off there, the files stay as they are, and   *)
(* the developer runs it again.                                            *)
(*                                                                         *)
(* A commit is the fragments in the directory and how often each fragment  *)
(* has been entered; headings, categories and order are left out.          *)
(***************************************************************************)
EXTENDS Integers, Sequences

CONSTANTS
  Fragments,
  Malformed,     \* the fragments without frontmatter
  MaxPushes,     \* bound: pushes by developers
  MaxFailures,   \* bound: runs that fail for reasons of their machine
  Hands,         \* the developers who run the script
  CI,            \* the machine of the workflow
  None

ASSUME ChangelogAssumption ==
  /\ Malformed \subseteq Fragments
  /\ MaxPushes \in Nat /\ MaxFailures \in Nat
  /\ None \notin Nat /\ CI \notin Hands

Workers == Hands \cup {CI}

VARIABLES
  main,      \* the commits of the main branch: [files, entered]
  added,     \* auxiliary: the fragments that developers have pushed
  torn,      \* auxiliary: what runs by hand had entered when they were cut off
  work,      \* worker -> the run of the script: [base, step, tree, taken]
  waiting,   \* the commit whose run waits, or None
  result,    \* how the last run of the workflow ended
  pushes, failures

changelogVars == <<main, added, torn, work, waiting, result, pushes, failures>>

Idle == [step |-> "idle"]

Tip == main[Len(main)]

ChangelogInit ==
  /\ main = <<[files |-> {}, entered |-> [f \in Fragments |-> 0]]>>
  /\ added = {} /\ torn = {}
  /\ work = [w \in Workers |-> Idle] /\ waiting = None
  /\ result = "none"
  /\ pushes = 0 /\ failures = 0

-----------------------------------------------------------------------------
(* Developers push on top of what is there.                                *)
PushCode ==
  /\ pushes < MaxPushes /\ pushes' = pushes + 1
  /\ main' = Append(main, Tip)
  /\ UNCHANGED <<added, torn, work, waiting, result, failures>>

(* A push with fragments requests a run, which takes the place of the one  *)
(* that waits.                                                             *)
PushFragment ==
  /\ pushes < MaxPushes /\ pushes' = pushes + 1
  /\ \E f \in Fragments \ added :
       /\ main' = Append(main, [Tip EXCEPT !.files = @ \cup {f}])
       /\ added' = added \cup {f}
  /\ waiting' = Len(main) + 1
  /\ UNCHANGED <<torn, work, result, failures>>

Checkout(w, n) ==
  work' = [work EXCEPT ![w] = [base |-> n, step |-> "read", tree |-> main[n], taken |-> {}]]

(* Mutated: what waits while a run is active is dropped.                   *)
StartDropping ==
  /\ waiting # None
  /\ IF work[CI] = Idle THEN Checkout(CI, waiting) ELSE UNCHANGED work
  /\ waiting' = None
  /\ UNCHANGED <<main, added, torn, result, pushes, failures>>

(* The workflow checks the commit out that was pushed.                     *)
StartRun ==
  /\ work[CI] = Idle /\ waiting # None
  /\ Checkout(CI, waiting)
  /\ waiting' = None
  /\ UNCHANGED <<main, added, torn, result, pushes, failures>>

StartByHand(w) ==
  /\ work[w] = Idle
  /\ Checkout(w, Len(main))
  /\ UNCHANGED <<main, added, torn, waiting, result, pushes, failures>>

-----------------------------------------------------------------------------
At(w, step) == work[w].step = step

Ends(w, how) ==
  /\ work' = [work EXCEPT ![w] = Idle]
  /\ result' = IF w = CI THEN how ELSE result

(* readFragments: a file without frontmatter is warned about and skipped.  *)
Read(w) ==
  /\ At(w, "read")
  /\ LET taken == work[w].tree.files \ Malformed
     IN  IF taken = {} THEN Ends(w, "success")
         ELSE /\ work' = [work EXCEPT ![w].step = "write", ![w].taken = taken]
              /\ UNCHANGED result
  /\ UNCHANGED <<main, added, torn, waiting, pushes, failures>>

(* generateNewEntries and updateChangelog.                                 *)
Write(w) ==
  /\ At(w, "write")
  /\ work' = [work EXCEPT ![w].step = "delete",
       ![w].tree.entered = [f \in Fragments |->
                              IF f \in work[w].taken THEN @[f] + 1 ELSE @[f]]]
  /\ UNCHANGED <<main, added, torn, waiting, result, pushes, failures>>

(* Mutated: the directory is emptied.                                      *)
DeleteAll(w) ==
  /\ At(w, "delete")
  /\ work' = [work EXCEPT ![w].step = "push", ![w].tree.files = {}]
  /\ UNCHANGED <<main, added, torn, waiting, result, pushes, failures>>

(* deleteFragments: the files that were read.                              *)
Delete(w) ==
  /\ At(w, "delete")
  /\ work' = [work EXCEPT ![w].step = "push", ![w].tree.files = @ \ work[w].taken]
  /\ UNCHANGED <<main, added, torn, waiting, result, pushes, failures>>

(* Mutated: a push that is refused does not fail the run.                  *)
PushQuietly(w) ==
  /\ At(w, "push")
  /\ main' = IF work[w].base = Len(main) THEN Append(main, work[w].tree) ELSE main
  /\ Ends(w, "success")
  /\ UNCHANGED <<added, torn, waiting, pushes, failures>>

(* Commit and push, which is refused when main has moved since.  A push by *)
(* hand touches .changelog and requests a run.                             *)
Push(w) ==
  /\ At(w, "push")
  /\ IF work[w].base = Len(main)
     THEN /\ main' = Append(main, work[w].tree)
          /\ Ends(w, "success")
          /\ waiting' = IF w = CI THEN waiting ELSE Len(main) + 1
     ELSE Ends(w, "failure") /\ UNCHANGED <<main, waiting>>
  /\ UNCHANGED <<added, torn, pushes, failures>>

Failure == failures < MaxFailures /\ failures' = failures + 1

(* The machine, the installation, a read or a write fails.                 *)
RunFails ==
  /\ Failure
  /\ work[CI] # Idle
  /\ Ends(CI, "failure")
  /\ UNCHANGED <<main, added, torn, waiting, pushes>>

(* A run by hand is cut off, perhaps with some of its files deleted, and   *)
(* begun again on what it left.                                            *)
CutOff(w) ==
  /\ Failure
  /\ work[w].step \in {"write", "delete"}
  /\ \E gone \in IF At(w, "delete") THEN SUBSET work[w].taken \ {work[w].taken} ELSE {{}} :
       work' = [work EXCEPT ![w].step = "read", ![w].taken = {}, ![w].tree.files = @ \ gone]
  /\ torn' = IF At(w, "delete") THEN torn \cup work[w].taken ELSE torn
  /\ UNCHANGED <<main, added, waiting, result, pushes>>

-----------------------------------------------------------------------------
Steps(w) == Read(w) \/ Write(w) \/ Delete(w) \/ Push(w)

Workflow == StartRun \/ Steps(CI)

ChangelogNext ==
  \/ PushCode \/ PushFragment
  \/ Workflow \/ RunFails
  \/ \E w \in Hands : StartByHand(w) \/ Steps(w) \/ CutOff(w)

ChangelogSpec == ChangelogInit /\ [][ChangelogNext]_changelogVars

(* Runs that are requested are started, and go on.                         *)
ChangelogFairSpec == ChangelogSpec /\ WF_changelogVars(Workflow)

-----------------------------------------------------------------------------
Commits == [files : SUBSET Fragments, entered : [Fragments -> Nat]]

Jobs == [base : Nat, step : {"read", "write", "delete", "push"},
         tree : Commits, taken : SUBSET (Fragments \ Malformed)]

(* The variables stay of the kinds the code declares.                      *)
ChangelogTypeOK ==
  /\ main \in Seq(Commits) /\ main # <<>>
  /\ added \subseteq Fragments /\ torn \subseteq Fragments
  /\ work \in [Workers -> {Idle} \cup Jobs]
  /\ \A w \in Workers : work[w] # Idle => work[w].base \in DOMAIN main
  /\ waiting \in DOMAIN main \cup {None}
  /\ result \in {"none", "success", "failure"}
  /\ pushes \in 0..MaxPushes /\ failures \in 0..MaxFailures

(* assemble-changelog.ts:224-240: on the main branch every fragment that   *)
(* was pushed waits in the directory or has been entered, and not twice.   *)
(* No run loses one or enters one again, whatever is pushed meanwhile,     *)
(* whoever else runs the script and wherever a run before it failed.  Only *)
(* what a run by hand had entered when it was cut off may be entered again *)
(* by the next.                                                            *)
EnteredOnce ==
  \A f \in added :
    /\ f \in Tip.files \/ Tip.entered[f] > 0
    /\ f \notin torn => Tip.entered[f] = IF f \in Tip.files THEN 0 ELSE 1

(* When no run is active or waiting and the last one reported success, all *)
(* fragments that can be read are in the changelog: no push is forgotten   *)
(* that came during a run, unless the workflow shows a failure.            *)
SuccessMeansEntered ==
  work[CI] = Idle /\ waiting = None /\ result # "failure" => Tip.files \subseteq Malformed

(* A fragment that was pushed comes to be entered, or a run fails.         *)
ComesToBeEntered ==
  \A f \in Fragments \ Malformed :
    f \in added ~> (f \notin Tip.files \/ result = "failure")
=============================================================================
