---------------------------- MODULE ReactProofs -----------------------------
(***************************************************************************)
(* Proofs about packages/react: RunHooks for any dependencies and UseEntity*)
(* for any components, ids and runtimes, and any bounds of both.           *)
(***************************************************************************)
EXTENDS RunHooks, UseEntity, SequenceTheorems, TLAPS

-----------------------------------------------------------------------------
(* The hooks that run effects.                                             *)

(* An answer that is there while the effects are connected is of the       *)
(* newest run, also when a render with other dependencies came since.      *)
QueryInv == phase = "connected" /\ ~ state.isLoading => Answered

(* The ref says that the effects are connected when they are.              *)
MutationInv == StatusOfLastCall /\ (phase = "connected" => mounted)

(* The cleanup of a run leaves nothing but its flag.                       *)
LEMMA CancelType ==
  ASSUME NEW list \in Seq(Runs)
  PROVE  /\ Cancel(list) \in Seq(Runs) /\ Len(Cancel(list)) = Len(list)
         /\ \A n \in 1..Len(list) :
              /\ Cancel(list)[n].cancelled <=> (n = Len(list) \/ list[n].cancelled)
              /\ Cancel(list)[n].state = list[n].state
<1>1. CASE list = <<>>
  BY <1>1 DEF Cancel
<1>2. CASE list # <<>>
  <2>1. Len(list) \in 1..Len(list) /\ list[Len(list)] \in Runs
    BY <1>2
  <2>2. DOMAIN list = 1..Len(list)
    OBVIOUS
  <2>3. Cancel(list) = [list EXCEPT ![Len(list)] = [@ EXCEPT !.cancelled = TRUE]]
    BY <1>2 DEF Cancel
  <2>4. [list[Len(list)] EXCEPT !.cancelled = TRUE] \in Runs
    BY <2>1 DEF Runs
  <2>5. Cancel(list) \in Seq(Runs) /\ Len(Cancel(list)) = Len(list)
    BY <2>1, <2>3, <2>4
  <2>6. ASSUME NEW n \in 1..Len(list)
        PROVE  /\ Cancel(list)[n].cancelled <=> (n = Len(list) \/ list[n].cancelled)
               /\ Cancel(list)[n].state = list[n].state
    <3>1. list[n] \in Runs
      OBVIOUS
    <3>2. CASE n = Len(list)
      <4>1. Cancel(list)[n] = [list[n] EXCEPT !.cancelled = TRUE]
        BY <2>1, <2>2, <2>3, <3>2
      <4> QED BY <4>1, <3>1, <3>2 DEF Runs
    <3>3. CASE n # Len(list)
      <4>1. Cancel(list)[n] = list[n]
        BY <2>1, <2>2, <2>3, <3>3
      <4> QED BY <4>1, <3>3
    <3> QED BY <3>2, <3>3
  <2> QED BY <2>5, <2>6
<1> QED BY <1>1, <1>2

-----------------------------------------------------------------------------
(* The actions one by one: those of the query ...                          *)
LEMMA EffectsType == HooksTypeOK /\ Effects => HooksTypeOK'
<1> SUFFICES ASSUME HooksTypeOK, Effects PROVE HooksTypeOK'
  OBVIOUS
<1> DEFINE list == Cancel(runs)
<1>0. runs \in Seq(Runs) /\ Run \in Runs
  BY DEF HooksTypeOK, Run, Runs
<1>1. /\ list \in Seq(Runs) /\ Len(list) = Len(runs)
      /\ \A n \in 1..Len(runs) : list[n].cancelled <=> (n = Len(runs) \/ runs[n].cancelled)
  BY <1>0, CancelType
<1>2. \A n \in 1..Len(runs) : list[n].cancelled
  BY <1>0, <1>1 DEF HooksTypeOK
<1> HIDE DEF list
<1>3. runs' = Append(list, Run)
  BY DEF Effects, list
<1>4. /\ runs' \in Seq(Runs) /\ Len(runs') = Len(runs) + 1
      /\ runs'[Len(runs) + 1] = Run
      /\ \A n \in 1..Len(runs) : runs'[n] = list[n]
  BY <1>0, <1>1, <1>3
<1>5. Len(runs') <= MaxRuns
  BY <1>0, <1>4, RunHooksAssumption DEF Effects
<1>6. \A n \in DOMAIN runs' : runs'[n].cancelled <=> (n < Len(runs') \/ phase' # "connected")
  <2> SUFFICES ASSUME NEW n \in 1..(Len(runs) + 1)
               PROVE  runs'[n].cancelled <=> (n < Len(runs'))
    BY <1>0, <1>4 DEF Effects
  <2>1. CASE n = Len(runs) + 1
    BY <1>0, <1>4, <2>1 DEF Run
  <2>2. CASE n # Len(runs) + 1
    BY <1>0, <1>2, <1>4, <2>2
  <2> QED BY <2>1, <2>2
<1>7. state' \in [data : 0..Len(runs'), error : 0..Len(runs'), isLoading : BOOLEAN]
  <2>1. state \in [data : 0..Len(runs), error : 0..Len(runs), isLoading : BOOLEAN]
    BY DEF HooksTypeOK
  <2>2. state' = [state EXCEPT !.isLoading = TRUE]
    BY DEF Effects, Loading
  <2>3. state' \in [data : 0..Len(runs), error : 0..Len(runs), isLoading : BOOLEAN]
    BY <2>1, <2>2
  <2>4. 0..Len(runs) \subseteq 0..Len(runs')
    BY <1>0, <1>4
  <2> QED BY <2>3, <2>4
<1> QED BY <1>4, <1>5, <1>6, <1>7 DEF HooksTypeOK, Effects, mutation

(* Hiding keeps the types ...                                              *)
LEMMA HideType == HooksTypeOK /\ HideHooks => HooksTypeOK'
<1> SUFFICES ASSUME HooksTypeOK, HideHooks PROVE HooksTypeOK'
  OBVIOUS
<1>0. runs \in Seq(Runs)
  BY DEF HooksTypeOK
<1>1. /\ runs' \in Seq(Runs) /\ Len(runs') = Len(runs)
      /\ \A n \in 1..Len(runs) : runs'[n].cancelled <=> (n = Len(runs) \/ runs[n].cancelled)
  BY <1>0, CancelType DEF HideHooks
<1>2. \A n \in DOMAIN runs' : runs'[n].cancelled
  BY <1>0, <1>1 DEF HooksTypeOK
<1>3. \A n \in DOMAIN runs' : runs'[n].cancelled <=> (n < Len(runs') \/ phase' # "connected")
  BY <1>2 DEF HideHooks
<1>4. shifts' \in 0..MaxShifts
  BY RunHooksAssumption DEF HooksTypeOK, HideHooks, Shift
<1> QED BY <1>1, <1>3, <1>4 DEF HooksTypeOK, HideHooks, mutation

(* ... and so does the exit of a run ...                                   *)
LEMMA RunEndsType == ASSUME HooksTypeOK, NEW n \in DOMAIN runs, RunEnds(n) PROVE HooksTypeOK'
<1>0. runs \in Seq(Runs) /\ n \in 1..Len(runs) /\ runs[n] \in Runs
  BY DEF HooksTypeOK
<1>1. runs' = [runs EXCEPT ![n] = [runs[n] EXCEPT !.state = "ended"]]
  BY DEF RunEnds
<1>2. [runs[n] EXCEPT !.state = "ended"] \in Runs
  BY <1>0 DEF Runs
<1>3. runs' \in Seq(Runs) /\ Len(runs') = Len(runs) /\ DOMAIN runs' = DOMAIN runs
  BY <1>0, <1>1, <1>2
<1>4. \A k \in DOMAIN runs : runs'[k].cancelled = runs[k].cancelled
  BY <1>0, <1>1 DEF Runs
<1>5. Succeeded(n) \in [data : 0..Len(runs), error : 0..Len(runs), isLoading : BOOLEAN]
  BY <1>0 DEF Succeeded
<1>6. Failed(n) \in [data : 0..Len(runs), error : 0..Len(runs), isLoading : BOOLEAN]
  BY <1>0 DEF Failed, HooksTypeOK
<1>7. state' \in [data : 0..Len(runs'), error : 0..Len(runs'), isLoading : BOOLEAN]
  BY <1>3, <1>5, <1>6 DEF RunEnds, HooksTypeOK
<1> QED BY <1>3, <1>4, <1>7 DEF HooksTypeOK, RunEnds, mutation

(* ... and those of the mutation.                                          *)
LEMMA CallType == HooksTypeOK /\ Call => HooksTypeOK'
<1> SUFFICES ASSUME HooksTypeOK, Call PROVE HooksTypeOK'
  OBVIOUS
<1>1. calls' \in Seq({"running", "ended"}) /\ Len(calls') = Len(calls) + 1 /\ Len(calls) \in Nat
  BY DEF HooksTypeOK, Call
<1>2. Len(calls') <= MaxCalls
  BY <1>1, RunHooksAssumption DEF Call
<1>3. status' \in [status : {"idle", "pending", "success", "error"}, of : 0..Len(calls')]
  BY <1>1 DEF HooksTypeOK, Call, SafeSet
<1>4. last' \in 0..Len(calls') /\ missed' \in BOOLEAN
  BY <1>1 DEF HooksTypeOK, Call
<1> QED BY <1>1, <1>2, <1>3, <1>4 DEF HooksTypeOK, Call, query

(* ... and of a call ...                                                   *)
LEMMA CallEndsType == ASSUME HooksTypeOK, NEW k \in DOMAIN calls, CallEnds(k) PROVE HooksTypeOK'
<1>0. k \in 1..Len(calls)
  BY DEF HooksTypeOK
<1>1. calls' \in Seq({"running", "ended"}) /\ Len(calls') = Len(calls)
  BY <1>0 DEF HooksTypeOK, CallEnds
<1>2. status' \in [status : {"idle", "pending", "success", "error"}, of : 0..Len(calls')]
  BY <1>0, <1>1 DEF HooksTypeOK, CallEnds, SafeSet
<1>3. last' \in 0..Len(calls') /\ missed' \in BOOLEAN
  BY <1>0, <1>1 DEF CallEnds
<1> QED BY <1>1, <1>2, <1>3 DEF HooksTypeOK, CallEnds, query

(* ... and every other step.                                               *)
LEMMA HooksTypeStep == HooksTypeOK /\ [HooksNext]_hookVars => HooksTypeOK'
<1> SUFFICES ASSUME HooksTypeOK, [HooksNext]_hookVars PROVE HooksTypeOK'
  OBVIOUS
<1>1. CASE Rerender
  BY <1>1, RunHooksAssumption DEF HooksTypeOK, Rerender, Shift, mutation
<1>2. CASE Show
  BY <1>2 DEF HooksTypeOK, Show, query, mutation
<1>3. CASE UNCHANGED hookVars
  BY <1>3 DEF HooksTypeOK, hookVars, query, mutation
<1> QED BY <1>1, <1>2, <1>3, EffectsType, HideType, RunEndsType, CallType, CallEndsType DEF HooksNext

(* They hold at first.                                                     *)
LEMMA HooksInitType == HooksInit => HooksTypeOK
<1> SUFFICES ASSUME HooksInit PROVE HooksTypeOK
  OBVIOUS
<1>1. Len(runs) = 0 /\ Len(calls) = 0 /\ DOMAIN runs = {}
  BY DEF HooksInit
<1>2. runs \in Seq(Runs) /\ calls \in Seq({"running", "ended"})
  BY DEF HooksInit
<1>3. state \in [data : 0..Len(runs), error : 0..Len(runs), isLoading : BOOLEAN]
  BY <1>1 DEF HooksInit
<1>4. status \in [status : {"idle", "pending", "success", "error"}, of : 0..Len(calls)]
  BY <1>1 DEF HooksInit
<1>5. Len(runs) <= MaxRuns /\ Len(calls) <= MaxCalls /\ last \in 0..Len(calls) /\ shifts \in 0..MaxShifts
  BY <1>1, RunHooksAssumption DEF HooksInit
<1>6. \A n \in DOMAIN runs : runs[n].cancelled <=> (n < Len(runs) \/ phase # "connected")
  BY <1>1
<1> QED BY <1>2, <1>3, <1>4, <1>5, <1>6 DEF HooksInit, HooksTypeOK

(* The variables keep their types, and of all runs of the query only the   *)
(* newest can still report (use-effect-query.ts:23-43).                    *)
THEOREM RunHooksTyped == HooksSpec => []HooksTypeOK
BY HooksInitType, HooksTypeStep, PTL DEF HooksSpec

-----------------------------------------------------------------------------
(* Whichever run ends, what is surfaced is of the newest.                  *)
LEMMA QueryStep == HooksTypeOK /\ QueryInv /\ [HooksNext]_hookVars => QueryInv'
<1> SUFFICES ASSUME HooksTypeOK, QueryInv, [HooksNext]_hookVars PROVE QueryInv'
  OBVIOUS
<1>1. CASE Effects
  BY <1>1 DEF QueryInv, HooksTypeOK, Effects, Loading
<1>2. ASSUME NEW n \in DOMAIN runs, RunEnds(n) PROVE QueryInv'
  <2>0. runs \in Seq(Runs) /\ n \in 1..Len(runs) /\ phase' = phase /\ Len(runs') = Len(runs)
    BY <1>2 DEF HooksTypeOK, RunEnds
  <2>1. CASE runs[n].cancelled
    BY <1>2, <2>0, <2>1 DEF QueryInv, Answered, RunEnds
  <2>2. CASE ~ runs[n].cancelled
    <3>1. n = Len(runs)
      BY <2>0, <2>2 DEF HooksTypeOK
    <3>2. state' = Succeeded(n) \/ state' = Failed(n)
      BY <1>2, <2>2 DEF RunEnds
    <3> QED BY <2>0, <3>1, <3>2 DEF QueryInv, Answered, Succeeded, Failed
  <2> QED BY <2>1, <2>2
<1>3. CASE Rerender \/ HideHooks \/ Show
  BY <1>3 DEF QueryInv, Answered, Rerender, HideHooks, Show, query
<1>4. CASE Call \/ (\E k \in DOMAIN calls : CallEnds(k)) \/ UNCHANGED hookVars
  BY <1>4 DEF QueryInv, Answered, Call, CallEnds, hookVars, query
<1> QED BY <1>1, <1>2, <1>3, <1>4 DEF HooksNext

(* What useEffectQuery surfaces as settled is the outcome of the run for   *)
(* the present dependencies, in whatever order runs end and observers are  *)
(* told (use-effect-query.ts:26-44).                                       *)
THEOREM AnswersOfNewestRuns == HooksSpec => []AnswerOfNewestRun
<1>1. HooksInit => QueryInv
  BY DEF HooksInit, QueryInv
<1>2. QueryInv => AnswerOfNewestRun
  BY DEF QueryInv, AnswerOfNewestRun
<1> QED BY <1>1, <1>2, HooksInitType, HooksTypeStep, QueryStep, PTL DEF HooksSpec

-----------------------------------------------------------------------------
(* Whichever call begins or ends, the status is of the last.               *)
LEMMA MutationStep == HooksTypeOK /\ MutationInv /\ [HooksNext]_hookVars => MutationInv'
<1> SUFFICES ASSUME HooksTypeOK, MutationInv, [HooksNext]_hookVars PROVE MutationInv'
  OBVIOUS
<1>1. CASE Call
  <2>1. calls \in Seq({"running", "ended"}) /\ calls' = Append(calls, "running")
    BY <1>1 DEF HooksTypeOK, Call
  <2>2. Len(calls) + 1 \in DOMAIN calls' /\ calls'[Len(calls) + 1] = "running"
    BY <2>1
  <2> QED BY <1>1, <2>2 DEF MutationInv, StatusOfLastCall, Call
<1>2. ASSUME NEW k \in DOMAIN calls, CallEnds(k) PROVE MutationInv'
  <2>1. k # 0
    BY DEF HooksTypeOK
  <2>2. ~ missed' => phase = "connected" /\ mounted
    BY <1>2 DEF CallEnds, MutationInv
  <2>3. ~ missed' => /\ status'.of = last' /\ last' # 0
                     /\ status'.status \in {"success", "error"}
    BY <1>2, <2>1, <2>2 DEF CallEnds, SafeSet
  <2> QED BY <1>2, <2>3 DEF MutationInv, StatusOfLastCall, CallEnds
<1>3. CASE Rerender \/ Effects \/ HideHooks \/ Show
  BY <1>3 DEF MutationInv, StatusOfLastCall, Rerender, Effects, HideHooks, Show, mutation
<1>4. CASE (\E n \in DOMAIN runs : RunEnds(n)) \/ UNCHANGED hookVars
  BY <1>4 DEF MutationInv, StatusOfLastCall, RunEnds, hookVars, mutation
<1> QED BY <1>1, <1>2, <1>3, <1>4 DEF HooksNext

(* When all calls of a mutation hook have ended, its state is the outcome  *)
(* of the one that ended last, unless that ended off the screen            *)
(* (use-mutations.ts:24-52).                                               *)
THEOREM StatusIsOfLastCall == HooksSpec => []StatusOfLastCall
<1>1. HooksInit => MutationInv
  BY DEF HooksInit, MutationInv, StatusOfLastCall
<1>2. MutationInv => StatusOfLastCall
  BY DEF MutationInv
<1> QED BY <1>1, <1>2, HooksInitType, HooksTypeStep, MutationStep, PTL DEF HooksSpec

-----------------------------------------------------------------------------
(* useEntity.                                                              *)

Attempts == [runtime : Runtimes, cancelled : BOOLEAN, state : {"open", "resolved", "failed"}]

(* The kinds of views.                                                     *)
Bare(v) == v.deps = None /\ v.data = None /\ v.stream = NoStream

Fresh(v) == v.deps \in Rendered /\ v.data = None /\ v.stream = NoStream

Live(v) == v.deps \in Rendered /\ v.data \in Readings \cup {None} /\ v.stream \in Streams

(* What a component holds goes with its phase.                             *)
LEMMA ViewType ==
  ASSUME NEW v \in Views
  PROVE  /\ v.phase \in {"off", "thrown", "committed", "subscribed"}
         /\ v.phase \in {"off", "thrown"} => Bare(v)
         /\ v.phase = "committed" => Fresh(v)
         /\ v.phase = "subscribed" => Live(v)
BY DEF Views, Bare, Fresh, Live

(* No stream and one that starts are what streams can be.                  *)
LEMMA StreamType ==
  /\ NoStream.phase = "off" /\ NoStream.value = None /\ NoStream.dirty = FALSE
  /\ Starting \in Streams /\ Starting.phase = "load" /\ Starting.value = None
BY DEF NoStream, Starting, Streams

(* So are a component that is not mounted and one that threw.              *)
LEMMA BareType ==
  /\ Unmounted \in Views /\ Unmounted.phase = "off"
  /\ Thrown \in Views /\ Thrown.phase = "thrown"
BY DEF Unmounted, Thrown, Views

(* A render reads from a place, and its stream from one.                   *)
LEMMA PlaceType ==
  ASSUME NEW used \in Rendered
  PROVE  KeyOf(used) \in Places /\ SourceOf(used) \in Places
BY DEF Rendered, KeyOf, SourceOf, Places

(* The present state of a record is one that can be read.                  *)
LEMMA PresentType ==
  ASSUME TypeOK, NEW p \in Places
  PROVE  /\ Present(p) \in Readings /\ Present(p) # None
         /\ Present(p).place = p /\ Present(p).writes = db[p].writes
<1>1. Present(p) \in Readings /\ Present(p).place = p /\ Present(p).writes = db[p].writes
  BY DEF TypeOK, Present, Readings
<1> QED BY <1>1, UseEntityAssumption

(* The runtime is that of the newest attempt to build the layer.           *)
LEMMA RuntimeType ==
  TypeOK => /\ Runtime \in Runtimes /\ Len(attempts) \in Nat \ {0}
            /\ Len(attempts) \in DOMAIN attempts /\ DOMAIN attempts = 1..Len(attempts)
            /\ attempts \in Seq(Attempts)
            /\ \A n \in DOMAIN attempts : attempts[n] \in Attempts
<1> SUFFICES ASSUME TypeOK
             PROVE  /\ Runtime \in Runtimes /\ Len(attempts) \in Nat \ {0}
                    /\ Len(attempts) \in DOMAIN attempts /\ DOMAIN attempts = 1..Len(attempts)
                    /\ attempts \in Seq(Attempts)
                    /\ \A n \in DOMAIN attempts : attempts[n] \in Attempts
  OBVIOUS
<1>1. attempts \in Seq(Attempts) /\ attempts # <<>>
  BY DEF TypeOK, Attempts
<1>2. Len(attempts) \in Nat \ {0} /\ DOMAIN attempts = 1..Len(attempts)
  BY <1>1, LenProperties, EmptySeq
<1>3. \A n \in DOMAIN attempts : attempts[n] \in Attempts
  BY <1>1, <1>2, ElementOfSeq
<1> QED BY <1>1, <1>2, <1>3 DEF Runtime, Attempts

(* A component is rendered with its id, the runtime and the store.         *)
LEMMA DepsType ==
  ASSUME TypeOK, NEW c \in Components, want[c] # None, store # None
  PROVE  Deps(c) \in Rendered
BY RuntimeType DEF TypeOK, Deps, Rendered
-----------------------------------------------------------------------------
(* The steps that change what a component holds, by what becomes of it.    *)
Others(c) == \A d \in Components \ {c} : view'[d] = view[d]

(* A step of one component changes what it holds and leaves the others.    *)
LEMMA ViewChanged ==
  ASSUME TypeOK, NEW c \in Components, NEW v \in Views, view' = [view EXCEPT ![c] = v]
  PROVE  view' \in [Components -> Views] /\ view'[c] = v /\ Others(c)
BY DEF TypeOK, Others

(* What a component holds, by its phase.                                   *)
LEMMA Held ==
  ASSUME TypeOK, NEW c \in Components
  PROVE  /\ view[c] \in Views
         /\ view[c].phase \in {"off", "thrown", "committed", "subscribed"}
         /\ view[c].phase \in {"off", "thrown"} => Bare(view[c])
         /\ view[c].phase = "committed" => Fresh(view[c])
         /\ view[c].phase = "subscribed" => Live(view[c])
         /\ view[c].stream.phase # "off" => view[c].phase = "subscribed"
<1>1. view[c] \in Views
  BY DEF TypeOK
<1> QED BY <1>1, ViewType, StreamType DEF Bare, Fresh

(* An event makes a stream dirty and no more.                              *)
LEMMA Dirtied ==
  ASSUME NEW v \in Views, v.phase = "subscribed"
  PROVE  LET w == [v EXCEPT !.stream.dirty = TRUE]
         IN  /\ w \in Views /\ w.phase = v.phase /\ w.deps = v.deps /\ w.data = v.data
             /\ w.stream.phase = v.stream.phase /\ w.stream.value = v.stream.value
<1>1. Live(v) /\ v \in [phase : {"subscribed"}, deps : Rendered, data : Readings \cup {None},
                        stream : Streams]
  BY ViewType, StreamType DEF Views
<1> DEFINE stream == [v.stream EXCEPT !.dirty = TRUE]
<1>2. stream \in Streams /\ stream.phase = v.stream.phase /\ stream.value = v.stream.value
  BY <1>1 DEF Live, Streams
<1> HIDE DEF stream
<1> DEFINE w == [v EXCEPT !.stream = stream]
<1>3. /\ w \in Views /\ w.phase = v.phase /\ w.deps = v.deps /\ w.data = v.data
      /\ w.stream = stream
  BY <1>1, <1>2 DEF Views
<1>4. w = [v EXCEPT !.stream.dirty = TRUE]
  BY DEF stream
<1> HIDE DEF w
<1> QED BY <1>2, <1>3, <1>4

(* A hidden component keeps its render and loses the stream and its state. *)
LEMMA Hidden ==
  ASSUME TypeOK, NEW c \in Components, Hide(c)
  PROVE  /\ view' \in [Components -> Views] /\ Others(c)
         /\ view'[c].phase = "committed" /\ view'[c].deps = view[c].deps
         /\ view'[c].data = None /\ view'[c].stream = NoStream
<1> DEFINE v == [view[c] EXCEPT !.phase = "committed", !.data = None, !.stream = NoStream]
<1>1. view[c].phase = "subscribed" /\ view[c] \in Views /\ Live(view[c])
  BY Held DEF Hide
<1>2. /\ v \in Views /\ v.phase = "committed" /\ v.deps = view[c].deps /\ v.data = None
      /\ v.stream = NoStream
  BY <1>1 DEF Views, Live
<1>3. view' = [view EXCEPT ![c] = v]
  BY DEF Hide
<1> HIDE DEF v
<1> QED BY <1>2, <1>3, ViewChanged

(* A render takes the present dependencies and starts without state.       *)
LEMMA HasRendered ==
  ASSUME TypeOK, NEW c \in Components, Render(c)
  PROVE  /\ view' \in [Components -> Views] /\ Others(c)
         /\ view'[c].phase = "committed" /\ view'[c].deps = Deps(c)
         /\ view'[c].data = None /\ view'[c].stream = NoStream
         /\ Deps(c) \in Rendered
<1> DEFINE v == [Unmounted EXCEPT !.phase = "committed", !.deps = Deps(c)]
<1>1. Deps(c) \in Rendered
  BY DepsType DEF Render, MustRender
<1>2. ~ (Mounted(c) /\ MemoizedBy(view[c].deps) = MemoizedBy(Deps(c)))
  <2> SUFFICES ASSUME Mounted(c), MemoizedBy(view[c].deps) = MemoizedBy(Deps(c)) PROVE FALSE
    OBVIOUS
  <2>1. view[c].deps \in Rendered
    BY Held DEF Mounted, Fresh, Live
  <2>2. view[c].deps = Deps(c)
    BY <1>1, <2>1 DEF MemoizedBy, Rendered
  <2> QED BY <2>2 DEF Render, MustRender, Mounted
<1>3. view' = [view EXCEPT ![c] = v]
  BY <1>2 DEF Render
<1>4. /\ v \in Views /\ v.phase = "committed" /\ v.deps = Deps(c) /\ v.data = None
      /\ v.stream = NoStream
  BY <1>1 DEF Unmounted, Views
<1> HIDE DEF v
<1> QED BY <1>1, <1>3, <1>4, ViewChanged

(* An effect starts a stream.                                              *)
LEMMA HasSubscribed ==
  ASSUME TypeOK, NEW c \in Components, Subscribe(c)
  PROVE  /\ view' \in [Components -> Views] /\ Others(c)
         /\ view'[c].phase = "subscribed" /\ view'[c].deps = view[c].deps
         /\ view'[c].data = None /\ view'[c].stream = Starting
<1> DEFINE v == [view[c] EXCEPT !.phase = "subscribed", !.stream = Starting]
<1>1. view[c].phase = "committed" /\ view[c] \in Views /\ Fresh(view[c])
  BY Held DEF Subscribe
<1>2. /\ v \in Views /\ v.phase = "subscribed" /\ v.deps = view[c].deps /\ v.data = None
      /\ v.stream = Starting
  BY <1>1, StreamType DEF Views, Fresh
<1>3. view' = [view EXCEPT ![c] = v]
  BY DEF Subscribe
<1> HIDE DEF v
<1> QED BY <1>2, <1>3, ViewChanged

(* The fiber goes on.                                                      *)
LEMMA Streamed ==
  ASSUME TypeOK, NEW c \in Components, view[c].phase = "subscribed",
         NEW stream \in Streams, Stream(c, stream)
  PROVE  /\ view' \in [Components -> Views] /\ Others(c)
         /\ view'[c].phase = "subscribed" /\ view'[c].deps = view[c].deps
         /\ view'[c].data = view[c].data /\ view'[c].stream = stream
<1> DEFINE v == [view[c] EXCEPT !.stream = stream]
<1>1. view[c] \in Views /\ Live(view[c])
  BY Held
<1>2. /\ v \in Views /\ v.phase = "subscribed" /\ v.deps = view[c].deps
      /\ v.data = view[c].data /\ v.stream = stream
  BY <1>1 DEF Views, Live
<1>3. view' = [view EXCEPT ![c] = v]
  BY DEF Stream
<1> HIDE DEF v
<1> QED BY <1>2, <1>3, ViewChanged

(* A stream reads the present state of its record ...                      *)
LEMMA HasRead ==
  ASSUME TypeOK, NEW c \in Components, StreamReads(c)
  PROVE  /\ view' \in [Components -> Views] /\ Others(c)
         /\ view[c].phase = "subscribed" /\ view'[c].phase = "subscribed"
         /\ view'[c].deps = view[c].deps /\ view'[c].data = view[c].data
         /\ view'[c].stream.phase = "emit"
         /\ view'[c].stream.value = Present(SourceOf(view[c].deps))
<1>1. view[c].phase = "subscribed" /\ view[c].stream \in Streams /\ view[c].deps \in Rendered
  BY Held DEF StreamReads, Live
<1>2. Present(SourceOf(view[c].deps)) \in Readings
  BY <1>1, PlaceType, PresentType
<1>3. PICK stream : stream = [view[c].stream EXCEPT !.phase = "emit",
                                !.value = Present(SourceOf(view[c].deps))]
  OBVIOUS
<1>4. /\ stream \in Streams /\ stream.phase = "emit"
      /\ stream.value = Present(SourceOf(view[c].deps))
  BY <1>1, <1>2, <1>3 DEF Streams
<1>5. Stream(c, stream)
  BY <1>3 DEF StreamReads
<1> QED BY <1>1, <1>4, <1>5, Streamed

(* ... starts over when it hears of an event ...                           *)
LEMMA HasHeard ==
  ASSUME TypeOK, NEW c \in Components, StreamHears(c)
  PROVE  /\ view' \in [Components -> Views] /\ Others(c)
         /\ view[c].phase = "subscribed" /\ view'[c].phase = "subscribed"
         /\ view'[c].deps = view[c].deps /\ view'[c].data = view[c].data
         /\ view'[c].stream = Starting
<1>1. view[c].phase = "subscribed" /\ Stream(c, Starting) /\ Starting \in Streams
  BY Held, StreamType DEF StreamHears
<1> QED BY <1>1, Streamed

(* ... and what it read becomes the state of the component.                *)
LEMMA HasEmitted ==
  ASSUME TypeOK, NEW c \in Components, StreamEmits(c)
  PROVE  /\ view' \in [Components -> Views] /\ Others(c)
         /\ view[c].phase = "subscribed" /\ view'[c].phase = "subscribed"
         /\ view'[c].deps = view[c].deps /\ view'[c].data = view[c].stream.value
         /\ view'[c].stream.phase = "idle" /\ view'[c].stream.value = None
<1>1. view[c].phase = "subscribed" /\ view[c] \in Views /\ Live(view[c])
  BY Held DEF StreamEmits
<1>2. view[c].stream \in Streams /\ view[c].stream.value \in Readings \cup {None}
  BY <1>1 DEF Live, Streams
<1> DEFINE stream == [view[c].stream EXCEPT !.phase = "idle", !.value = None]
           v == [view[c] EXCEPT !.data = view[c].stream.value, !.stream = stream]
<1>3. stream \in Streams /\ stream.phase = "idle" /\ stream.value = None
  BY <1>2 DEF Streams
<1>4. view' = [view EXCEPT ![c] = v]
  BY DEF StreamEmits
<1> HIDE DEF stream
<1>5. /\ v \in Views /\ v.phase = "subscribed" /\ v.deps = view[c].deps
      /\ v.data = view[c].stream.value /\ v.stream = stream
  BY <1>1, <1>2, <1>3 DEF Views, Live
<1> HIDE DEF v
<1> QED BY <1>1, <1>3, <1>4, <1>5, ViewChanged

(* What the bus tells a stream.                                            *)
LEMMA Published ==
  ASSUME TypeOK, NEW p \in Places, Publish(p)
  PROVE  /\ view' \in [Components -> Views]
         /\ \A c \in Components :
              /\ view'[c].phase = view[c].phase /\ view'[c].deps = view[c].deps
              /\ view'[c].data = view[c].data
              /\ view'[c].stream.phase = view[c].stream.phase
              /\ view'[c].stream.value = view[c].stream.value
<1>1. view' = [c \in Components |->
                 IF Hears(c, p) THEN [view[c] EXCEPT !.stream.dirty = TRUE] ELSE view[c]]
  BY DEF Publish
<1>2. ASSUME NEW c \in Components
      PROVE  /\ view'[c] \in Views
             /\ view'[c].phase = view[c].phase /\ view'[c].deps = view[c].deps
             /\ view'[c].data = view[c].data
             /\ view'[c].stream.phase = view[c].stream.phase
             /\ view'[c].stream.value = view[c].stream.value
  <2>1. CASE Hears(c, p)
    <3>1. view[c] \in Views /\ view[c].phase = "subscribed"
      BY <2>1, Held DEF Hears
    <3>2. view'[c] = [view[c] EXCEPT !.stream.dirty = TRUE]
      BY <1>1, <2>1
    <3>3. PICK v \in Views : v = view[c]
      BY <3>1
    <3> QED BY <3>1, <3>2, <3>3, Dirtied
  <2>2. CASE ~ Hears(c, p)
    BY <1>1, <2>2, Held
  <2> QED BY <2>1, <2>2
<1>3. view' \in [Components -> Views]
  <2>1. DOMAIN view' = Components /\ view' = [c \in Components |-> view'[c]]
    BY <1>1
  <2> QED BY <1>2, <2>1
<1> QED BY <1>2, <1>3

-----------------------------------------------------------------------------
(* Every step keeps the types.                                             *)
LEMMA TypeStep == TypeOK /\ [Next]_vars => TypeOK'
<1> SUFFICES ASSUME TypeOK, [Next]_vars PROVE TypeOK'
  OBVIOUS
<1>1. ASSUME NEW p \in Places, Write(p) PROVE TypeOK'
  <2>1. PICK gone \in BOOLEAN : db' = [db EXCEPT ![p] = [writes |-> @.writes + 1, gone |-> gone]]
    BY <1>1 DEF Write, TypeOK
  <2>2. db' \in [Places -> [writes : Nat, gone : BOOLEAN]]
    BY <2>1 DEF TypeOK
  <2> QED BY <1>1, <2>2 DEF Write, TypeOK
<1>2. ASSUME NEW p \in Places, Publish(p) PROVE TypeOK'
  <2>1. view' \in [Components -> Views]
    BY <1>2, Published
  <2> QED BY <1>2, <2>1 DEF Publish, TypeOK
<1>3. ASSUME Move PROVE moves' \in 0..MaxMoves
  BY <1>3, UseEntityAssumption DEF Move, TypeOK
<1>4. ASSUME NEW n \in DOMAIN attempts, NEW a \in Attempts
      PROVE  /\ [attempts EXCEPT ![n] = a] \in Seq(Attempts)
             /\ Len([attempts EXCEPT ![n] = a]) = Len(attempts)
  BY RuntimeType, ExceptSeq
<1>5. CASE SwitchRuntime
  <2>1. PICK r \in Runtimes \ {Runtime} :
          attempts' = Append([attempts EXCEPT ![Len(attempts)].cancelled = TRUE], Attempt(r))
    BY <1>5 DEF SwitchRuntime
  <2> DEFINE latest == [attempts[Len(attempts)] EXCEPT !.cancelled = TRUE]
             before == [attempts EXCEPT ![Len(attempts)] = latest]
  <2>2. latest \in Attempts /\ Attempt(r) \in Attempts
    BY RuntimeType DEF Attempts, Attempt
  <2>3. attempts' = Append(before, Attempt(r))
    BY <2>1
  <2> HIDE DEF latest
  <2>4. before \in Seq(Attempts)
    BY <1>4, <2>2, RuntimeType
  <2> HIDE DEF before
  <2>5. attempts' \in Seq(Attempts) /\ attempts' # <<>>
    BY <2>2, <2>3, <2>4, AppendProperties
  <2> QED BY <1>3, <1>5, <2>5 DEF SwitchRuntime, TypeOK, Attempts
<1>6. ASSUME NEW n \in DOMAIN attempts, Resolve(n) \/ ResolveFails(n) PROVE TypeOK'
  <2>1. PICK outcome \in {"resolved", "failed"} :
          attempts' = [attempts EXCEPT ![n] = [attempts[n] EXCEPT !.state = outcome]]
    BY <1>6 DEF Resolve, ResolveFails
  <2> DEFINE a == [attempts[n] EXCEPT !.state = outcome]
  <2>2. a \in Attempts
    BY RuntimeType DEF Attempts
  <2>3. attempts' = [attempts EXCEPT ![n] = a]
    BY <2>1
  <2> HIDE DEF a
  <2>4. attempts' \in Seq(Attempts) /\ Len(attempts') = Len(attempts)
    BY <1>4, <2>2, <2>3
  <2>5. attempts' # <<>>
    BY <2>4, RuntimeType, EmptySeq
  <2>6. store' \in Runtimes \cup {None}
    <3>1. attempts[n].runtime \in Runtimes
      BY RuntimeType DEF Attempts
    <3> QED BY <1>6, <3>1 DEF Resolve, ResolveFails, TypeOK
  <2> QED BY <1>6, <2>4, <2>5, <2>6 DEF Resolve, ResolveFails, TypeOK, Attempts
<1>7. ASSUME NEW c \in Components, NEW id \in Ids \cup {None}, GiveId(c, id) PROVE TypeOK'
  BY <1>3, <1>7, BareType DEF GiveId, TypeOK
<1>8. ASSUME NEW c \in Components, Reset(c) \/ Hide(c) PROVE TypeOK'
  <2>1. view' \in [Components -> Views]
    BY <1>8, BareType, Hidden DEF Reset, TypeOK
  <2> QED BY <1>3, <1>8, <2>1 DEF Reset, Hide, TypeOK
<1>9. ASSUME NEW p \in Places, LoadEnds(p) \/ LoadFails(p) PROVE TypeOK'
  <2>1. cache' \in [Places -> Promises]
    <3>1. Present(p) \in Readings
      BY <1>9, PresentType
    <3>2. /\ [state |-> "loaded", value |-> Present(p)] \in Promises
          /\ [state |-> "failed"] \in Promises
      BY <3>1 DEF Promises
    <3> QED BY <1>9, <3>2 DEF LoadEnds, LoadFails, TypeOK
  <2> QED BY <1>9, <2>1 DEF LoadEnds, LoadFails, TypeOK
<1>10. ASSUME NEW c \in Components, Hook(c) PROVE TypeOK'
  <2>1. CASE Suspend(c)
    <3>1. KeyOf(Deps(c)) \in Places /\ [state |-> "pending"] \in Promises
      BY <2>1, DepsType, PlaceType DEF Suspend, MustRender, Promises
    <3> QED BY <2>1, <3>1 DEF Suspend, TypeOK
  <2>2. CASE Render(c) \/ RenderThrows(c) \/ Subscribe(c)
    <3>1. view' \in [Components -> Views]
      BY <2>2, HasRendered, HasSubscribed, BareType DEF RenderThrows, TypeOK
    <3> QED BY <2>2, <3>1 DEF Render, RenderThrows, Subscribe, TypeOK
  <2> QED BY <1>10, <2>1, <2>2 DEF Hook
<1>11. ASSUME NEW c \in Components, Fiber(c) PROVE TypeOK'
  <2>1. view' \in [Components -> Views]
    BY <1>11, HasRead, HasHeard, HasEmitted, BareType DEF Fiber, StreamFails, TypeOK
  <2> QED BY <1>11, <2>1
          DEF Fiber, StreamReads, StreamHears, StreamEmits, StreamFails, Stream, TypeOK
<1>12. CASE UNCHANGED vars
  BY <1>12 DEF vars, TypeOK
<1> QED BY <1>1, <1>2, <1>5, <1>6, <1>7, <1>8, <1>9, <1>10, <1>11, <1>12
        DEF Next, Application, Provider

(* They hold at first.                                                     *)
LEMMA InitType == Init => TypeOK
<1> SUFFICES ASSUME Init PROVE TypeOK
  OBVIOUS
<1>1. attempts \in Seq(Attempts) /\ attempts # <<>>
  <2>1. PICK r \in Runtimes : attempts = <<Attempt(r)>>
    BY UseEntityAssumption DEF Init
  <2>2. Attempt(r) \in Attempts
    BY DEF Attempt, Attempts
  <2> QED BY <2>1, <2>2
<1>2. cache \in [Places -> Promises] /\ db \in [Places -> [writes : Nat, gone : BOOLEAN]]
  BY DEF Init, Promises
<1>3. view \in [Components -> Views] /\ want \in [Components -> Ids \cup {None}]
  BY BareType DEF Init
<1> QED BY <1>1, <1>2, <1>3, UseEntityAssumption DEF Init, TypeOK, Attempts

(* The provider, the cache of promises and what components hold keep their *)
(* types (use-entity.ts:35-71, sync-external-store.ts:29-90).              *)
THEOREM UseEntityTyped == Spec => []TypeOK
BY InitType, TypeStep, PTL DEF Spec
-----------------------------------------------------------------------------
(* A first load is of its own place, and not of a later state than now.    *)
Loaded(p) ==
  cache[p].state = "loaded" =>
    /\ cache[p].value \in Readings /\ cache[p].value.place = p
    /\ cache[p].value.writes <= db[p].writes

(* What the stream has read, and what it has shown before.                 *)
Reads(p, stream, data) ==
  /\ stream.phase = "emit" => stream.value # None
  /\ stream.value # None =>
       /\ stream.value.place = p /\ stream.value.writes <= db[p].writes
       /\ data # None => data.writes <= stream.value.writes
  /\ data # None => data.place = p /\ data.writes <= db[p].writes

(* A mounted component has had its first load, and its stream reads what   *)
(* the component was rendered with, after that load if both are of one     *)
(* place.                                                                  *)
Viewed(c) ==
  Mounted(c) =>
    LET used == view[c].deps
    IN  /\ cache[KeyOf(used)].state = "loaded"
        /\ Reads(SourceOf(used), view[c].stream, view[c].data)
        /\ KeyOf(used) = SourceOf(used) /\ view[c].stream.value # None =>
             cache[KeyOf(used)].value.writes <= view[c].stream.value.writes

ShowsInv == (\A p \in Places : Loaded(p)) /\ \A c \in Components : Viewed(c)

(* Records are only written to, and what was loaded stays.                 *)
Grows ==
  \A p \in Places :
    /\ db'[p].writes >= db[p].writes
    /\ cache[p].state = "loaded" => cache'[p] = cache[p]

(* No step takes a write back.                                             *)
LEMMA StepGrows == TypeOK /\ [Next]_vars => Grows
<1> SUFFICES ASSUME TypeOK, [Next]_vars, NEW p \in Places
             PROVE  /\ db'[p].writes >= db[p].writes
                    /\ cache[p].state = "loaded" => cache'[p] = cache[p]
  BY DEF Grows
<1>1. db'[p].writes >= db[p].writes
  <2>1. db[p].writes \in Nat
    BY DEF TypeOK
  <2>2. CASE UNCHANGED db
    BY <2>1, <2>2
  <2>3. ASSUME NEW q \in Places, Write(q) PROVE db'[p].writes >= db[p].writes
    BY <2>1, <2>3 DEF Write, TypeOK
  <2> QED BY <2>2, <2>3
          DEF Next, Application, SwitchRuntime, GiveId, Reset, Hide, Provider, Resolve,
              ResolveFails, Publish, LoadEnds, LoadFails, Hook, Suspend, Render, RenderThrows,
              Subscribe, Fiber, StreamReads, StreamHears, StreamEmits, StreamFails, Stream, vars
<1>2. cache[p].state = "loaded" => cache'[p] = cache[p]
  <2>1. CASE UNCHANGED cache
    BY <2>1
  <2>2. ASSUME NEW q \in Places, LoadEnds(q) \/ LoadFails(q)
        PROVE  cache[p].state = "loaded" => cache'[p] = cache[p]
    BY <2>2 DEF LoadEnds, LoadFails, TypeOK
  <2>3. ASSUME NEW c \in Components, Suspend(c)
        PROVE  cache[p].state = "loaded" => cache'[p] = cache[p]
    BY <2>3 DEF Suspend, TypeOK
  <2> QED BY <2>1, <2>2, <2>3
          DEF Next, Application, SwitchRuntime, GiveId, Reset, Hide, Provider, Resolve,
              ResolveFails, Write, Publish, Hook, Render, RenderThrows,
              Subscribe, Fiber, StreamReads, StreamHears, StreamEmits, StreamFails, Stream, vars
<1> QED BY <1>1, <1>2

(* A first load stays of its place and of the past.                        *)
LEMMA LoadedStep ==
  ASSUME TypeOK, ShowsInv, [Next]_vars, NEW p \in Places
  PROVE  Loaded(p)'
<1>0. Grows /\ Loaded(p) /\ db[p].writes \in Nat
  BY StepGrows DEF ShowsInv, TypeOK
<1>1. db'[p].writes \in Nat
  BY TypeStep DEF TypeOK
<1>2. CASE cache'[p] = cache[p]
  BY <1>0, <1>1, <1>2 DEF Loaded, Grows, Readings
<1>3. CASE LoadEnds(p)
  BY <1>0, <1>3, PresentType DEF LoadEnds, Loaded, TypeOK
<1>4. CASE LoadFails(p)
  BY <1>4 DEF LoadFails, Loaded, TypeOK
<1>5. ASSUME NEW c \in Components, Suspend(c), cache'[p] # cache[p] PROVE Loaded(p)'
  BY <1>5 DEF Suspend, Loaded, TypeOK
<1>6. ASSUME NEW q \in Places, q # p, LoadEnds(q) \/ LoadFails(q) PROVE cache'[p] = cache[p]
  BY <1>6 DEF LoadEnds, LoadFails, TypeOK
<1>7. CASE UNCHANGED cache
  BY <1>2, <1>7
<1> QED BY <1>2, <1>3, <1>4, <1>5, <1>6, <1>7
        DEF Next, Application, SwitchRuntime, GiveId, Reset, Hide, Provider, Resolve,
            ResolveFails, Write, Publish, Hook, Render, RenderThrows,
            Subscribe, Fiber, StreamReads, StreamHears, StreamEmits, StreamFails, Stream, vars

(* A component whose view keeps what matters here.                         *)
LEMMA ViewedStays ==
  ASSUME TypeOK, TypeOK', ShowsInv, Grows, NEW c \in Components,
         view'[c].phase = view[c].phase, view'[c].deps = view[c].deps,
         view'[c].data = view[c].data,
         view'[c].stream.phase = view[c].stream.phase,
         view'[c].stream.value = view[c].stream.value
  PROVE  Viewed(c)'
<1> SUFFICES ASSUME Mounted(c)
             PROVE  LET used == view[c].deps
                    IN  /\ cache'[KeyOf(used)].state = "loaded"
                        /\ Reads(SourceOf(used), view[c].stream, view[c].data)'
                        /\ KeyOf(used) = SourceOf(used) /\ view[c].stream.value # None =>
                             cache'[KeyOf(used)].value.writes <= view[c].stream.value.writes
  BY DEF Viewed, Mounted, KeyOf, SourceOf
<1>1. PICK used \in Rendered : used = view[c].deps
  BY Held DEF Mounted, Fresh, Live
<1>2. KeyOf(used) \in Places /\ SourceOf(used) \in Places
  BY PlaceType
<1>3. /\ cache[KeyOf(used)].state = "loaded"
      /\ Reads(SourceOf(used), view[c].stream, view[c].data)
      /\ KeyOf(used) = SourceOf(used) /\ view[c].stream.value # None =>
           cache[KeyOf(used)].value.writes <= view[c].stream.value.writes
  BY <1>1 DEF ShowsInv, Viewed
<1>4. /\ cache'[KeyOf(used)] = cache[KeyOf(used)]
      /\ db'[SourceOf(used)].writes >= db[SourceOf(used)].writes
      /\ db'[SourceOf(used)].writes \in Nat /\ db[SourceOf(used)].writes \in Nat
  BY <1>2, <1>3 DEF Grows, TypeOK
<1>5. /\ view[c].data # None => view[c].data.writes \in Nat
      /\ view[c].stream.value # None => view[c].stream.value.writes \in Nat
  BY Held DEF Mounted, Fresh, Live, NoStream, Streams, Readings
<1>6. SourceOf(view[c].deps)' = SourceOf(used)
  BY <1>1 DEF SourceOf
<1>7. Reads(SourceOf(view[c].deps), view[c].stream, view[c].data)'
  BY <1>3, <1>4, <1>5, <1>6 DEF Reads
<1> QED BY <1>1, <1>3, <1>4, <1>7

(* A component that is not mounted, or is without a value of its stream.   *)
LEMMA ViewedAfresh ==
  ASSUME TypeOK, TypeOK', ShowsInv, Grows, NEW c \in Components, NEW used \in Rendered,
         view'[c].deps = used, view'[c].data = None,
         view'[c].stream.value = None, view'[c].stream.phase # "emit",
         cache[KeyOf(used)].state = "loaded"
  PROVE  Viewed(c)'
BY PlaceType DEF Viewed, Reads, Grows, KeyOf, SourceOf
(* What a component that is mounted holds.                                 *)
LEMMA WasViewed ==
  ASSUME TypeOK, ShowsInv, NEW c \in Components, Mounted(c)
  PROVE  LET used == view[c].deps
         IN  /\ used \in Rendered /\ KeyOf(used) \in Places /\ SourceOf(used) \in Places
             /\ cache[KeyOf(used)].state = "loaded" /\ Loaded(KeyOf(used))
             /\ Reads(SourceOf(used), view[c].stream, view[c].data)
             /\ KeyOf(used) = SourceOf(used) /\ view[c].stream.value # None =>
                  cache[KeyOf(used)].value.writes <= view[c].stream.value.writes
<1>1. view[c].deps \in Rendered
  BY Held DEF Mounted, Fresh, Live
<1> QED BY <1>1, PlaceType DEF ShowsInv, Viewed

(* What a component holds stays of its place, and no older than its        *)
(* promise and than what it showed.                                        *)
LEMMA ViewedStep ==
  ASSUME TypeOK, TypeOK', ShowsInv, [Next]_vars, NEW c \in Components
  PROVE  Viewed(c)'
<1>0. Grows
  BY StepGrows
<1>1. CASE view'[c] = view[c]
  BY <1>0, <1>1, ViewedStays
<1>2. CASE ~ Mounted(c)'
  BY <1>2 DEF Viewed
<1>3. ASSUME NEW p \in Places, Publish(p) PROVE Viewed(c)'
  BY <1>0, <1>3, Published, ViewedStays
<1>4. CASE Hide(c)
  <2>1. Mounted(c)
    BY <1>4 DEF Hide, Mounted
  <2>2. PICK used \in Rendered : used = view[c].deps /\ cache[KeyOf(used)].state = "loaded"
    BY <2>1, WasViewed
  <2>3. view'[c].stream.value = None /\ view'[c].stream.phase # "emit"
    BY <1>4, Hidden, StreamType
  <2> QED BY <1>0, <1>4, <2>2, <2>3, Hidden, ViewedAfresh
<1>5. CASE Render(c)
  <2>1. PICK used \in Rendered : used = Deps(c) /\ cache[KeyOf(used)].state = "loaded"
    BY <1>5, HasRendered DEF Render
  <2>2. view'[c].stream.value = None /\ view'[c].stream.phase # "emit"
    BY <1>5, HasRendered, StreamType
  <2> QED BY <1>0, <1>5, <2>1, <2>2, HasRendered, ViewedAfresh
<1>6. CASE Subscribe(c)
  <2>1. Mounted(c)
    BY <1>6 DEF Subscribe, Mounted
  <2>2. PICK used \in Rendered : used = view[c].deps /\ cache[KeyOf(used)].state = "loaded"
    BY <2>1, WasViewed
  <2>3. view'[c].stream.value = None /\ view'[c].stream.phase # "emit"
    BY <1>6, HasSubscribed, StreamType
  <2> QED BY <1>0, <1>6, <2>2, <2>3, HasSubscribed, ViewedAfresh
<1>7. CASE StreamReads(c)
  <2>0. Mounted(c) /\ UNCHANGED <<db, cache>>
    BY <1>7, HasRead DEF StreamReads, Stream, Mounted
  <2>1. PICK used \in Rendered : used = view[c].deps
    BY <2>0, WasViewed
  <2>2. /\ KeyOf(used) \in Places /\ SourceOf(used) \in Places
        /\ cache[KeyOf(used)].state = "loaded" /\ Loaded(KeyOf(used))
        /\ Reads(SourceOf(used), view[c].stream, view[c].data)
    BY <2>0, <2>1, WasViewed
  <2>3. /\ view'[c].deps = used /\ view'[c].data = view[c].data
        /\ view'[c].stream.value = Present(SourceOf(used))
    BY <1>7, <2>1, HasRead
  <2>4. /\ Present(SourceOf(used)) # None /\ Present(SourceOf(used)).place = SourceOf(used)
        /\ Present(SourceOf(used)).writes = db[SourceOf(used)].writes
        /\ db[SourceOf(used)].writes \in Nat
    BY <2>2, PresentType DEF TypeOK
  <2>5. Reads(SourceOf(view[c].deps), view[c].stream, view[c].data)'
    BY <2>0, <2>2, <2>3, <2>4 DEF Reads, SourceOf
  <2> QED BY <2>0, <2>2, <2>3, <2>4, <2>5 DEF Viewed, Loaded, KeyOf, SourceOf
<1>8. CASE StreamHears(c)
  <2>0. Mounted(c) /\ UNCHANGED <<db, cache>>
    BY <1>8, HasHeard DEF StreamHears, Stream, Mounted
  <2>1. PICK used \in Rendered : used = view[c].deps
    BY <2>0, WasViewed
  <2>2. /\ cache[KeyOf(used)].state = "loaded"
        /\ Reads(SourceOf(used), view[c].stream, view[c].data)
    BY <2>0, <2>1, WasViewed
  <2>3. /\ view'[c].deps = used /\ view'[c].data = view[c].data
        /\ view'[c].stream.value = None /\ view'[c].stream.phase # "emit"
    BY <1>8, <2>1, HasHeard, StreamType
  <2> QED BY <2>0, <2>2, <2>3 DEF Viewed, Reads, KeyOf, SourceOf
<1>9. CASE StreamEmits(c)
  <2>0. Mounted(c) /\ UNCHANGED <<db, cache>>
    BY <1>9, HasEmitted DEF StreamEmits, Mounted
  <2>1. PICK used \in Rendered : used = view[c].deps
    BY <2>0, WasViewed
  <2>2. /\ cache[KeyOf(used)].state = "loaded"
        /\ Reads(SourceOf(used), view[c].stream, view[c].data)
    BY <2>0, <2>1, WasViewed
  <2>3. /\ view'[c].deps = used /\ view'[c].data = view[c].stream.value
        /\ view'[c].stream.value = None /\ view'[c].stream.phase # "emit"
    BY <1>9, <2>1, HasEmitted
  <2> QED BY <2>0, <2>2, <2>3 DEF Viewed, Reads, KeyOf, SourceOf
<1>10. ASSUME NEW d \in Components,
              Reset(d) \/ Hide(d) \/ Hook(d) \/ Fiber(d)
              \/ \E id \in Ids \cup {None} : GiveId(d, id)
       PROVE  Viewed(c)'
  <2>1. CASE d # c
    <3>1. view'[c] = view[c]
      BY <1>10, <2>1, Hidden, HasRendered, HasSubscribed, HasRead, HasHeard, HasEmitted
         DEF Others, Reset, GiveId, Hook, Suspend, RenderThrows, Fiber, StreamFails, TypeOK
    <3> QED BY <3>1, <1>1
  <2>2. CASE d = c
    <3>1. CASE Reset(c) \/ RenderThrows(c) \/ StreamFails(c)
      <4>1. view'[c] \in {Unmounted, Thrown}
        BY <3>1 DEF Reset, RenderThrows, StreamFails, TypeOK
      <4> QED BY <1>2, <4>1, BareType DEF Mounted
    <3>2. ASSUME NEW id \in Ids \cup {None}, GiveId(c, id) PROVE Viewed(c)'
      <4>1. view'[c] = Unmounted \/ view'[c] = view[c]
        BY <3>2 DEF GiveId, TypeOK
      <4> QED BY <1>1, <1>2, <4>1, BareType DEF Mounted
    <3>3. CASE Suspend(c)
      BY <1>1, <3>3 DEF Suspend
    <3> QED BY <1>10, <2>2, <3>1, <3>2, <3>3, <1>4, <1>5, <1>6, <1>7, <1>8, <1>9
            DEF Hook, Fiber
  <2> QED BY <2>1, <2>2
<1>11. CASE UNCHANGED view
  BY <1>1, <1>11
<1> QED BY <1>3, <1>10, <1>11
        DEF Next, Application, SwitchRuntime, Provider, Resolve, ResolveFails, Write, LoadEnds,
            LoadFails, vars

(* So every step keeps the invariant.                                      *)
LEMMA ShowsStep == TypeOK /\ ShowsInv /\ [Next]_vars => ShowsInv'
BY TypeStep, LoadedStep, ViewedStep DEF ShowsInv

(* It holds at first.                                                      *)
LEMMA ShowsInit == Init => ShowsInv
<1> SUFFICES ASSUME Init PROVE ShowsInv
  OBVIOUS
<1>1. \A p \in Places : Loaded(p)
  BY DEF Init, Loaded
<1>2. \A c \in Components : Viewed(c)
  BY BareType DEF Init, Viewed, Mounted
<1> QED BY <1>1, <1>2 DEF ShowsInv

(* A component whose render is up to date shows a record with its id, of   *)
(* the present runtime or of that of the present store                     *)
(* (use-entity.ts:35-71).                                                  *)
THEOREM ComponentsShowTheirOwn == Spec => []ShowsItsOwn
<1>1. TypeOK /\ ShowsInv => ShowsItsOwn
  <2> SUFFICES ASSUME TypeOK, ShowsInv, NEW c \in Components, Mounted(c),
                      view[c].deps = Deps(c)
               PROVE  /\ Shown(c).place[2] = want[c]
                      /\ Shown(c).place[1] \in {Runtime, store}
    BY DEF ShowsItsOwn
  <2>1. PICK used \in Rendered :
          /\ used = view[c].deps
          /\ cache[KeyOf(used)].state = "loaded" /\ Loaded(KeyOf(used))
          /\ Reads(SourceOf(used), view[c].stream, view[c].data)
    BY WasViewed
  <2>2. Shown(c).place \in {KeyOf(used), SourceOf(used)}
    BY <2>1 DEF Shown, Loaded, Reads
  <2>3. used.runtime = Runtime /\ used.store = store /\ used.id = want[c]
    BY <2>1 DEF Deps
  <2> QED BY <2>2, <2>3 DEF KeyOf, SourceOf
<1> QED BY <1>1, InitType, TypeStep, ShowsInit, ShowsStep, PTL DEF Spec

(* For as long as a component stays subscribed to one record it never      *)
(* shows an older outcome of it than it did (cache.ts:10-15).                *)
THEOREM ComponentsNeverGoBack == Spec => NeverBack
<1>1. ASSUME TypeOK, TypeOK', ShowsInv, ShowsInv', [Next]_vars, NEW c \in Components,
             view[c].phase = "subscribed", view'[c].phase = "subscribed",
             view[c].deps = view'[c].deps,
             view[c].deps.runtime = view[c].deps.store
      PROVE  Shown(c)'.writes >= Shown(c).writes
  <2>1. PICK used \in Rendered :
          /\ used = view[c].deps /\ KeyOf(used) = SourceOf(used)
          /\ KeyOf(used) \in Places
          /\ cache[KeyOf(used)].state = "loaded" /\ Loaded(KeyOf(used))
          /\ Reads(SourceOf(used), view[c].stream, view[c].data)
          /\ view[c].stream.value # None =>
               cache[KeyOf(used)].value.writes <= view[c].stream.value.writes
    <3>1. Mounted(c) /\ KeyOf(view[c].deps) = SourceOf(view[c].deps)
      BY <1>1 DEF Mounted, KeyOf, SourceOf
    <3> QED BY <1>1, <3>1, WasViewed
  <2>2. /\ cache'[KeyOf(used)] = cache[KeyOf(used)]
        /\ cache[KeyOf(used)].value.writes \in Nat
    BY <1>1, <2>1, StepGrows DEF Grows, Loaded, Readings
  <2>3. /\ view[c].data # None => view[c].data.writes \in Nat
        /\ view[c].stream.value # None => view[c].stream.value.writes \in Nat
    BY <1>1, Held DEF Live, Streams, Readings
  <2>4. CASE view'[c].data = view[c].data
    BY <1>1, <2>1, <2>2, <2>3, <2>4 DEF Shown, KeyOf
  <2>5. CASE StreamEmits(c)
    <3>1. view[c].stream.phase = "emit" /\ view'[c].data = view[c].stream.value
      BY <1>1, <2>5, HasEmitted DEF StreamEmits
    <3>2. /\ view[c].stream.value # None
          /\ view[c].data # None => view[c].data.writes <= view[c].stream.value.writes
      BY <2>1, <3>1 DEF Reads
    <3> QED BY <2>1, <2>2, <2>3, <3>1, <3>2 DEF Shown, KeyOf
  <2>6. view'[c].data = view[c].data \/ StreamEmits(c)
    <3>1. ASSUME NEW d \in Components,
                 Reset(d) \/ Hide(d) \/ Hook(d) \/ Fiber(d)
                 \/ \E id \in Ids \cup {None} : GiveId(d, id)
          PROVE  view'[c].data = view[c].data \/ StreamEmits(c)
      <4>1. CASE d # c
        BY <1>1, <3>1, <4>1, Hidden, HasRendered, HasSubscribed, HasRead, HasHeard, HasEmitted
           DEF Others, Reset, GiveId, Hook, Suspend, RenderThrows, Fiber, StreamFails, TypeOK
      <4>2. CASE d = c
        <5>1. ~ Reset(c) /\ ~ Subscribe(c) /\ ~ Hide(c) /\ ~ Render(c)
          BY <1>1, Hidden, HasRendered DEF Reset, Subscribe
        <5>2. ~ RenderThrows(c) /\ ~ StreamFails(c)
          BY <1>1, BareType DEF RenderThrows, StreamFails, TypeOK
        <5>3. ASSUME NEW id \in Ids \cup {None}, GiveId(c, id)
              PROVE  view'[c].data = view[c].data
          BY <1>1, <5>3, BareType DEF GiveId, TypeOK
        <5>4. Suspend(c) \/ StreamReads(c) \/ StreamHears(c) =>
                view'[c].data = view[c].data
          BY <1>1, HasRead, HasHeard DEF Suspend
        <5> QED BY <3>1, <4>2, <5>1, <5>2, <5>3, <5>4 DEF Hook, Fiber
      <4> QED BY <4>1, <4>2
    <3>2. ASSUME NEW p \in Places, Publish(p) PROVE view'[c].data = view[c].data
      BY <1>1, <3>2, Published
    <3>3. CASE UNCHANGED view
      BY <3>3
    <3> QED BY <1>1, <3>1, <3>2, <3>3
            DEF Next, Application, SwitchRuntime, Provider, Resolve, ResolveFails, Write,
                LoadEnds, LoadFails, vars
  <2> QED BY <2>4, <2>5, <2>6
<1>2. TypeOK /\ TypeOK' /\ ShowsInv /\ ShowsInv' /\ [Next]_vars =>
        [\A c \in Components :
           (/\ view[c].phase = "subscribed" /\ view'[c].phase = "subscribed"
            /\ view[c].deps = view'[c].deps
            /\ view[c].deps.runtime = view[c].deps.store)
             => Shown(c)'.writes >= Shown(c).writes]_vars
  BY <1>1
<1> QED BY <1>2, InitType, TypeStep, ShowsInit, ShowsStep, PTL DEF Spec, NeverBack
=============================================================================
