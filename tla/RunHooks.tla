-------------------------------- MODULE RunHooks --------------------------------
(***************************************************************************)
(* The hooks of packages/react that run effects: useEffectQuery, which     *)
(* runs one per value of its dependencies, and the mutation hooks, which   *)
(* run one per call (useEffectCallback is the same code with other names). *)
(*                                                                         *)
(* One component uses both.  React may render it with other dependencies,  *)
(* hide it, which cleans its effects up, and show it again, which runs     *)
(* them anew; StrictMode does the latter two to every new component.  Runs *)
(* go on meanwhile and end in any order.  What a run returns is left out:  *)
(* it is the number of the run.                                            *)
(***************************************************************************)
EXTENDS Integers, Sequences

CONSTANTS
  DepValues,  \* the values of the dependencies
  MaxRuns,    \* bound: runs of the query
  MaxCalls,   \* bound: calls of the mutation
  MaxShifts   \* bound: renders with other dependencies, and hidings

ASSUME RunHooksAssumption ==
  DepValues # {} /\ MaxRuns \in Nat /\ MaxCalls \in Nat /\ MaxShifts \in Nat

VARIABLES
  phase,    \* whether the effects are to run, have run, or are cleaned up
  deps,     \* the dependencies of the last render
  ran,      \* those with which the effect ran last
  mounted,  \* the ref of the mutation hook
  runs,     \* the runs of the query, with the flag of each one's closure
  state,    \* the state of the query
  calls,    \* the runs of the mutation: "running" or "ended"
  status,   \* the state of the mutation and the call that set it; 0: none
  last,     \* auxiliary: the call that ended last; 0: none
  missed,   \* auxiliary: it ended while the component was off the screen
  shifts

query == <<deps, ran, runs, state>>
mutation == <<calls, status, last, missed>>
hookVars == <<phase, mounted, query, mutation, shifts>>

HooksInit ==
  /\ phase = "committed" /\ mounted = TRUE
  /\ deps \in DepValues /\ ran = deps
  /\ runs = <<>>
  /\ state = [data |-> 0, error |-> 0, isLoading |-> TRUE]
  /\ calls = <<>> /\ status = [status |-> "idle", of |-> 0]
  /\ last = 0 /\ missed = FALSE
  /\ shifts = 0

-----------------------------------------------------------------------------
Shift == shifts < MaxShifts /\ shifts' = shifts + 1

Rerender ==
  /\ Shift
  /\ phase # "hidden"
  /\ \E d \in DepValues \ {deps} : deps' = d
  /\ UNCHANGED <<phase, mounted, ran, runs, state, mutation>>

Cancel(list) ==
  IF list = <<>> THEN list ELSE [list EXCEPT ![Len(list)].cancelled = TRUE]

Run == [cancelled |-> FALSE, state |-> "running"]

(* React runs the effects that a commit, or new dependencies, ask for.     *)
EffectsDue == phase = "committed" \/ (phase = "connected" /\ ran # deps)

Loading == [state EXCEPT !.isLoading = TRUE]

(* Mutated: the flag belongs to the hook and not to one run of the effect. *)
EffectsOneFlag ==
  /\ EffectsDue /\ Len(runs) < MaxRuns
  /\ phase' = "connected" /\ mounted' = TRUE
  /\ ran' = deps
  /\ runs' = Append(Cancel(runs), [Run EXCEPT !.cancelled = runs # <<>>])
  /\ state' = Loading
  /\ UNCHANGED <<deps, mutation, shifts>>

(* Mutated: the ref keeps the value of the cleanup.                        *)
EffectsStayUnmounted ==
  /\ EffectsDue /\ Len(runs) < MaxRuns
  /\ phase' = "connected"
  /\ ran' = deps
  /\ runs' = Append(Cancel(runs), Run)
  /\ state' = Loading
  /\ UNCHANGED <<deps, mounted, mutation, shifts>>

(* The cleanup of the run before cancels it, which it may already be; the  *)
(* body starts another.                                                    *)
Effects ==
  /\ EffectsDue /\ Len(runs) < MaxRuns
  /\ phase' = "connected" /\ mounted' = TRUE
  /\ ran' = deps
  /\ runs' = Append(Cancel(runs), Run)
  /\ state' = Loading
  /\ UNCHANGED <<deps, mutation, shifts>>

HideHooks ==
  /\ Shift
  /\ phase = "connected"
  /\ phase' = "hidden" /\ mounted' = FALSE
  /\ runs' = Cancel(runs)
  /\ UNCHANGED <<deps, ran, state, mutation>>

Show ==
  /\ phase = "hidden"
  /\ phase' = "committed"
  /\ UNCHANGED <<mounted, query, mutation, shifts>>

-----------------------------------------------------------------------------
Succeeded(n) == [data |-> n, error |-> 0, isLoading |-> FALSE]

Failed(n) == [data |-> state.data, error |-> n, isLoading |-> FALSE]

(* Mutated: the observer does not ask whether it was cancelled.            *)
RunEndsAnyway(n) ==
  /\ runs[n].state = "running"
  /\ runs' = [runs EXCEPT ![n].state = "ended"]
  /\ state' \in {Succeeded(n), Failed(n)}
  /\ UNCHANGED <<phase, mounted, deps, ran, mutation, shifts>>

(* The exit of a run, by itself or by interruption, reaches its observer.  *)
RunEnds(n) ==
  /\ runs[n].state = "running"
  /\ runs' = [runs EXCEPT ![n].state = "ended"]
  /\ state' \in IF runs[n].cancelled THEN {state} ELSE {Succeeded(n), Failed(n)}
  /\ UNCHANGED <<phase, mounted, deps, ran, mutation, shifts>>

-----------------------------------------------------------------------------
SafeSet(next) == status' = IF mounted THEN next ELSE status

(* The promise-returning function that the hook gives out.  It may be      *)
(* called from anywhere, also while the component is hidden.               *)
Call ==
  /\ Len(calls) < MaxCalls
  /\ calls' = Append(calls, "running")
  /\ SafeSet([status |-> "pending", of |-> Len(calls) + 1])
  /\ missed' = (missed /\ phase # "connected")
  /\ UNCHANGED <<phase, mounted, query, last, shifts>>

CallEnds(k) ==
  /\ calls[k] = "running"
  /\ calls' = [calls EXCEPT ![k] = "ended"]
  /\ \E end \in {"success", "error"} : SafeSet([status |-> end, of |-> k])
  /\ last' = k /\ missed' = (phase # "connected")
  /\ UNCHANGED <<phase, mounted, query, shifts>>

-----------------------------------------------------------------------------
HooksNext ==
  \/ Rerender \/ Effects \/ HideHooks \/ Show
  \/ \E n \in DOMAIN runs : RunEnds(n)
  \/ Call
  \/ \E k \in DOMAIN calls : CallEnds(k)

HooksSpec == HooksInit /\ [][HooksNext]_hookVars

(* Effects are run, and runs end.                                          *)
HooksFairSpec ==
  /\ HooksSpec
  /\ WF_hookVars(Effects)
  /\ \A n \in 1..MaxRuns : WF_hookVars(n \in DOMAIN runs /\ RunEnds(n))
  /\ \A k \in 1..MaxCalls : WF_hookVars(k \in DOMAIN calls /\ CallEnds(k))

-----------------------------------------------------------------------------
Runs == [cancelled : BOOLEAN, state : {"running", "ended"}]

(* The variables stay of the kinds the code declares, and of all runs of   *)
(* the query only the newest is not cancelled, and only on the screen.     *)
HooksTypeOK ==
  /\ phase \in {"committed", "connected", "hidden"}
  /\ deps \in DepValues /\ ran \in DepValues
  /\ mounted \in BOOLEAN /\ missed \in BOOLEAN
  /\ runs \in Seq(Runs) /\ Len(runs) <= MaxRuns
  /\ \A n \in DOMAIN runs : runs[n].cancelled <=> (n < Len(runs) \/ phase # "connected")
  /\ state \in [data : 0..Len(runs), error : 0..Len(runs), isLoading : BOOLEAN]
  /\ calls \in Seq({"running", "ended"}) /\ Len(calls) <= MaxCalls
  /\ status \in [status : {"idle", "pending", "success", "error"}, of : 0..Len(calls)]
  /\ last \in 0..Len(calls)
  /\ shifts \in 0..MaxShifts

(* The query has answered: the newest run has ended in data or an error.   *)
Answered ==
  /\ ~ state.isLoading
  /\ IF state.error = 0 THEN state.data = Len(runs) ELSE state.error = Len(runs)

(* use-effect-query.ts:8-9: the effect is re-run whenever deps change, and *)
(* what is then surfaced as settled is its outcome: never the answer, or   *)
(* the interruption, of a run for other dependencies that ends later.      *)
AnswerOfNewestRun ==
  phase = "connected" /\ ran = deps /\ ~ state.isLoading => Answered

(* A component that stays on the screen comes to have its answer, however  *)
(* often it was rendered with other dependencies or hidden before.         *)
ComesToAnswer == []<>(phase = "hidden" \/ (phase = "connected" /\ ran = deps /\ Answered))

(* use-mutations.ts:32-52: when every call has ended, the state of the     *)
(* mutation is the outcome of the call that ended last, unless that ended  *)
(* while the component was off the screen.                                 *)
StatusOfLastCall ==
  (\A k \in DOMAIN calls : calls[k] = "ended") /\ ~ missed =>
    /\ status.of = last
    /\ status.status \in IF last = 0 THEN {"idle"} ELSE {"success", "error"}
=============================================================================
