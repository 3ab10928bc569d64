-------------------------- MODULE ChatSessionProofs --------------------------
(***************************************************************************)
(* ChatSession implements RunLifecycle, has its invariants, shows answers  *)
(* of tool calls only when earned, and goes on to a further turn only with *)
(* every client call of the last one answered, for every number of         *)
(* prompts, turns, events, messages and tools, and whatever ids backends   *)
(* give.                                                                   *)
(*                                                                         *)
(* The proof looks at a run's step through StepShape: whatever happens to  *)
(* transcripts, tool calls and approvals, a step of a run either leaves it *)
(* under way or settles it, and touches no other run; and an aborted run   *)
(* is settled by it or leaves its stream.                                  *)
(***************************************************************************)
EXTENDS ChatSession, SequenceTheorems, WellFoundedInduction, TLAPS

PCs == {"idle", "streaming", "erring", "leaving", "handler", "settled"}

\* What the refinement needs to know of a state: types of the control variables,
\* and that a prompt not yet sent has no run.
Control ==
    /\ pc \in [RunIds -> PCs]
    /\ aborted \in [RunIds -> BOOLEAN]
    /\ controller \in 0 .. MaxSends
    /\ sent \in 0 .. MaxSends
    /\ \A n \in RunIds : n > sent => pc[n] = "idle"
    /\ run = [r \in RunIds |-> run[r]]

\* The two things a step of run r can look like from the outside.
GoesOn(r) ==
    /\ Live(r) /\ pc' \in [RunIds -> PCs] /\ Live(r)'
    /\ \A s \in RunIds : s # r => pc'[s] = pc[s]
    /\ isLoading' = isLoading

Settles(r) ==
    /\ Live(r)
    /\ pc' = [pc EXCEPT ![r] = "settled"]
    /\ isLoading' = FALSE

Shape(r) ==
    /\ GoesOn(r) \/ Settles(r)
    /\ UNCHANGED <<controller, sent, aborted, resetAt>>
    /\ activeLayout' = activeLayout \/ (activeLayout' = r /\ ~aborted[r])
    /\ run' = [run EXCEPT ![r] = run'[r]]
    /\ aborted[r] => /\ Settles(r) \/ pc'[r] = "leaving"
                     /\ UNCHANGED <<executed, approvals>>

----------------------------------------------------------------------------
LEMMA PublishShape ==
    ASSUME Control, NEW r \in RunIds, NEW local, pc[r] = "streaming", ~aborted[r],
           Publish(r, local), activeLayout' = activeLayout \/ activeLayout' = r
    PROVE  Shape(r)
<1>1. run' = [run EXCEPT ![r] = run'[r]]
  BY DEF Publish, Control
<1>2. GoesOn(r) /\ UNCHANGED <<controller, sent, aborted, resetAt>>
  BY DEF Publish, GoesOn, Live, Control
<1> QED
  BY <1>1, <1>2 DEF Shape

LEMMA SettleSettles ==
    ASSUME Control, NEW r \in RunIds, NEW how, Live(r), Settle(r, how)
    PROVE  Settles(r) /\ run' = [run EXCEPT ![r] = run'[r]]
BY DEF Settle, Settles, Control

LEMMA EndTurnShape ==
    ASSUME Control, NEW r \in RunIds, NEW out, Live(r), EndTurn(r, out)
    PROVE  /\ GoesOn(r) \/ Settles(r)
           /\ aborted[r] => Settles(r)
           /\ run' = [run EXCEPT ![r] = run'[r]]
<1>1. CASE \E how : Settle(r, how)
  BY <1>1, SettleSettles
<1>2. CASE /\ pc' = [pc EXCEPT ![r] = "streaming"] /\ UNCHANGED isLoading /\ ~aborted[r]
           /\ \E l : run' = [run EXCEPT ![r] = l]
  BY <1>2 DEF GoesOn, Live, Control, PCs
<1> QED
  BY <1>1, <1>2 DEF EndTurn

\* No call is answered, queued or started on behalf of an aborted run: the calls
\* passed on the way to the end, or to the abort check that throws, are not its
\* client's.
LEMMA DispatchShape ==
    ASSUME Control, NEW r \in RunIds, NEW from, NEW out, Live(r),
           Dispatch(r, from, out)
    PROVE  Shape(r)
<1>1. \/ \E answers : EndTurn(r, answers)
      \/ Settle(r, "aborted")
      \/ /\ pc' = [pc EXCEPT ![r] = "handler"] /\ isLoading' = isLoading /\ ~aborted[r]
         /\ \E l : run' = [run EXCEPT ![r] = l]
  BY DEF Dispatch
<1>2. UNCHANGED <<activeLayout, controller, sent, aborted, resetAt>>
  BY DEF Dispatch
<1>3. ASSUME pc' = [pc EXCEPT ![r] = "handler"], isLoading' = isLoading
      PROVE  GoesOn(r)
  BY <1>3 DEF GoesOn, Live, Control, PCs
<1>4. /\ GoesOn(r) \/ Settles(r)
      /\ aborted[r] => Settles(r)
      /\ run' = [run EXCEPT ![r] = run'[r]]
  BY <1>1, <1>3, EndTurnShape, SettleSettles DEF Control
<1>5. ASSUME aborted[r] PROVE UNCHANGED <<executed, approvals>>
  <2>1. ASSUME NEW c, IsGuarded(c) PROVE StopsAt(r, c)
    BY <1>5, <2>1, ToolsAssumption DEF StopsAt, IsGuarded, IsClient, ToolsAssumption
  <2>2. PICK stop :
           /\ \A i \in from .. stop - 1 : ~StopsAt(r, run[r].completed[i])
           /\ approvals' = approvals \cup
                {CallOf(r, run[r].completed[i]) :
                    i \in {j \in from .. stop - 1 : IsGuarded(run[r].completed[j])}}
    BY DEF Dispatch
  <2>3. {j \in from .. stop - 1 : IsGuarded(run[r].completed[j])} = {}
    BY <2>1, <2>2
  <2>4. executed' = executed
    BY <1>5 DEF Dispatch
  <2> QED
    BY <2>2, <2>3, <2>4
<1> QED
  BY <1>2, <1>4, <1>5 DEF Shape

\* One step per action of a run.
LEMMA StepShape == ASSUME Control, NEW r \in RunIds, RunStep(r) PROVE Shape(r)
<1>1. ASSUME NEW kind, Event(kind, r)
      PROVE  pc[r] = "streaming" /\ ~aborted[r]
  BY <1>1 DEF Event
<1>2. ASSUME NEW m \in MsgIds, TextDelta(r, m) PROVE Shape(r)
  BY <1>1, <1>2, PublishShape DEF TextDelta
<1>3. ASSUME NEW w \in MsgIds, WidgetRender(r, w) PROVE Shape(r)
  BY <1>1, <1>3, PublishShape DEF WidgetRender
<1>4. ASSUME NEW id \in CallIds, NEW tool \in Tools, ToolCallStart(r, id, tool) PROVE Shape(r)
  BY <1>1, <1>4, PublishShape DEF ToolCallStart
<1>5. ASSUME NEW id \in CallIds, NEW ok \in BOOLEAN, ToolCallEnd(r, id, ok) PROVE Shape(r)
  BY <1>1, <1>5, PublishShape DEF ToolCallEnd
<1>6. ASSUME NEW id \in CallIds, ToolCallResult(r, id) PROVE Shape(r)
  BY <1>1, <1>6, PublishShape DEF ToolCallResult
<1>7. CASE LayoutRender(r)
  BY <1>1, <1>7, PublishShape DEF LayoutRender
<1>8. CASE OtherEvent(r)
  BY <1>1, <1>8, PublishShape DEF OtherEvent
<1>9. CASE RunErrorEvent(r)
  <2>1. Live(r) /\ ~aborted[r]
    BY <1>1, <1>9 DEF RunErrorEvent, Live
  <2>2. pc' = [pc EXCEPT ![r] = "erring"] /\ run' = run /\ UNCHANGED isLoading
    BY <1>9 DEF RunErrorEvent
  <2>3. GoesOn(r) /\ run' = [run EXCEPT ![r] = run'[r]]
    BY <2>1, <2>2 DEF GoesOn, Live, Control, PCs
  <2> QED
    BY <1>9, <2>1, <2>3 DEF RunErrorEvent, Shape
<1>10. CASE EventAfterAbort(r)
  <2>1. Live(r)
    BY <1>10 DEF EventAfterAbort, Live
  <2>2. pc' = [pc EXCEPT ![r] = "leaving"] /\ run' = run /\ UNCHANGED <<chatVars, aborted, resetAt>>
    BY <1>10 DEF EventAfterAbort
  <2>3. GoesOn(r) /\ pc'[r] = "leaving" /\ run' = [run EXCEPT ![r] = run'[r]]
    BY <2>1, <2>2 DEF GoesOn, Live, Control, PCs, chatVars
  <2> QED
    BY <1>10, <2>2, <2>3 DEF EventAfterAbort, Shape, chatVars
<1>11. CASE ErrorShown(r) \/ AbortThrown(r) \/ BackendThrows(r)
  BY <1>11, SettleSettles DEF ErrorShown, AbortThrown, BackendThrows, Live, Shape
<1>12. CASE StreamEnd(r)
  BY <1>12, DispatchShape DEF StreamEnd, Live
<1>13. ASSUME NEW status, HandlerReturns(r, status) PROVE Shape(r)
  BY <1>13, DispatchShape DEF HandlerReturns, Live
<1> QED
  BY <1>2, <1>3, <1>4, <1>5, <1>6, <1>7, <1>8, <1>9, <1>10, <1>11, <1>12, <1>13
     DEF RunStep, StreamStep

----------------------------------------------------------------------------
LEMMA ControlInit == Init => Control
<1> SUFFICES ASSUME Init PROVE Control
  OBVIOUS
<1>1. pc \in [RunIds -> PCs] /\ \A n \in RunIds : n > sent => pc[n] = "idle"
  BY DEF Init, PCs
<1>2. aborted \in [RunIds -> BOOLEAN]
  BY DEF Init
<1>3. controller \in 0 .. MaxSends /\ sent \in 0 .. MaxSends
  BY BoundsAssumption DEF Init, BoundsAssumption
<1>4. run = [r \in RunIds |-> run[r]]
  BY DEF Init
<1> QED
  BY <1>1, <1>2, <1>3, <1>4 DEF Control

LEMMA ControlStep == Control /\ [Next]_vars => Control'
<1> SUFFICES ASSUME Control, [Next]_vars PROVE Control'
  OBVIOUS
<1> USE BoundsAssumption DEF BoundsAssumption
<1>1. CASE SendMessage
  <2>1. aborted' \in [RunIds -> BOOLEAN]
    BY <1>1 DEF SendMessage, AbortCurrent
  <2>2. sent' \in 0 .. MaxSends /\ controller' \in 0 .. MaxSends
    BY <1>1 DEF SendMessage, Control
  <2>3. pc' \in [RunIds -> PCs] /\ \A n \in RunIds : n > sent' => pc'[n] = "idle"
    BY <1>1 DEF SendMessage, Control, PCs, RunIds
  <2>4. run' = [r \in RunIds |-> run'[r]]
    BY <1>1 DEF SendMessage, Control
  <2> QED
    BY <2>1, <2>2, <2>3, <2>4 DEF Control
<1>2. CASE SendUnbacked
  BY <1>2 DEF SendUnbacked, Control, RunIds
<1>3. CASE Stop \/ Reset
  <2>1. aborted' \in [RunIds -> BOOLEAN]
    BY <1>3 DEF Stop, Reset, AbortCurrent
  <2> QED
    BY <1>3, <2>1 DEF Stop, Reset, Control
<1>4. CASE ClearLayout
  BY <1>4 DEF ClearLayout, Control
<1>5. ASSUME NEW r \in RunIds, RunStep(r) PROVE Control'
  <2>1. Shape(r)
    BY <1>5, StepShape
  <2> QED
    BY <2>1 DEF Shape, GoesOn, Settles, Live, Control, PCs
<1>6. CASE UNCHANGED vars
  BY <1>6 DEF vars, chatVars, Control
<1> QED
  BY <1>1, <1>2, <1>3, <1>4, <1>5, <1>6 DEF Next, UserStep

----------------------------------------------------------------------------
(* The refinement.                                                         *)

\* The phase a run shows to the life cycle.
Phase == [r \in RunIds |-> IF Live(r) THEN "live" ELSE pc[r]]

LEMMA InitRefines == Init => Lifecycle!Init
BY DEF Init, Lifecycle!Init, Lifecycle!Runs, RunIds, Live

LEMMA StepRefines == Control /\ [Next]_vars => [Lifecycle!Next]_(Lifecycle!vars)
<1> SUFFICES ASSUME Control, [Next]_vars PROVE [Lifecycle!Next]_(Lifecycle!vars)
  OBVIOUS
<1>1. CASE SendMessage
  <2>1. Lifecycle!AbortDriver
    BY <1>1 DEF SendMessage, AbortCurrent, Lifecycle!AbortDriver, Lifecycle!Runs, RunIds
  <2>2. PICK n \in RunIds : n = sent + 1
    BY <1>1, BoundsAssumption DEF SendMessage, Control, RunIds, BoundsAssumption
  <2>3. \A m \in RunIds : m >= n => pc[m] = "idle"
    BY <2>2 DEF Control, RunIds
  <2>4. Phase' = [Phase EXCEPT ![n] = "live"]
    BY <1>1, <2>2 DEF SendMessage, Control, Phase, Live, PCs
  <2>5. Lifecycle!Start(n)
    BY <1>1, <2>1, <2>2, <2>3, <2>4
       DEF SendMessage, Lifecycle!Start, Lifecycle!Runs, RunIds, Phase, Live
  <2> QED
    BY <2>5 DEF Lifecycle!Next, Lifecycle!Runs, RunIds
<1>2. CASE SendUnbacked \/ ClearLayout
  BY <1>2 DEF SendUnbacked, ClearLayout, Lifecycle!vars, Live
<1>3. CASE Stop
  BY <1>3 DEF Stop, AbortCurrent, Lifecycle!Next, Lifecycle!Stop, Lifecycle!AbortDriver,
              Lifecycle!Runs, RunIds, Live
<1>4. CASE Reset
  BY <1>4 DEF Reset, AbortCurrent, Lifecycle!Next, Lifecycle!Forget, Lifecycle!AbortDriver,
              Lifecycle!Runs, RunIds, Live
<1>5. ASSUME NEW r \in RunIds, RunStep(r) PROVE [Lifecycle!Next]_(Lifecycle!vars)
  <2>1. Shape(r)
    BY <1>5, StepShape
  <2>2. CASE GoesOn(r)
    <3>1. Phase' = Phase
      BY <2>2 DEF GoesOn, Phase, Live, Control
    <3>2. aborted' = aborted /\ controller' = controller /\ isLoading' = isLoading
      BY <2>1, <2>2 DEF Shape, GoesOn
    <3> QED
      BY <3>1, <3>2 DEF Lifecycle!vars, Phase
  <2>3. CASE Settles(r)
    <3>1. Phase[r] = "live" /\ Phase' = [Phase EXCEPT ![r] = "settled"]
      BY <2>3 DEF Settles, Phase, Live, Control
    <3>2. Lifecycle!Settle(r)
      BY <2>1, <2>3, <3>1 DEF Shape, Settles, Lifecycle!Settle, Phase
    <3> QED
      BY <3>2 DEF Lifecycle!Next, Lifecycle!Runs, RunIds
  <2> QED
    BY <2>1, <2>2, <2>3 DEF Shape
<1>6. CASE UNCHANGED vars
  BY <1>6 DEF vars, chatVars, Lifecycle!vars, Live
<1> QED
  BY <1>1, <1>2, <1>3, <1>4, <1>5, <1>6 DEF Next, UserStep

\* The chat session implements the abstract life cycle of runs.
THEOREM Implements == Spec => ImplementsLifecycle
BY InitRefines, StepRefines, ControlInit, ControlStep, PTL
   DEF Spec, ImplementsLifecycle, Lifecycle!Spec

----------------------------------------------------------------------------
(* The session's current run.  The invariants of RunLifecycle are not      *)
(* inductive on types alone: a run that starts is un-aborted because only  *)
(* started runs are ever aborted, and the run that took the spinner away   *)
(* is older than the driver because none newer has started.                *)

Driving == controller # 0 /\ Live(controller) /\ ~aborted[controller]

DriverInv ==
    /\ controller # 0 => pc[controller] # "idle"
    /\ \A r \in RunIds : aborted[r] => pc[r] # "idle"
    /\ controller # 0 => \A r \in RunIds : pc[r] # "idle" => r <= controller
    /\ \A r \in RunIds : Live(r) /\ ~aborted[r] => r = controller
    /\ isLoading \in BOOLEAN /\ (isLoading => Driving)
    /\ Driving /\ ~isLoading =>
           \E r \in RunIds : r < controller /\ aborted[r] /\ pc[r] = "settled"

LEMMA DriverInvStep == Control /\ DriverInv /\ [Next]_vars => DriverInv'
<1> SUFFICES ASSUME Control, DriverInv, [Next]_vars PROVE DriverInv'
  OBVIOUS
<1> USE BoundsAssumption DEF BoundsAssumption
<1>0. controller # 0 => controller \in RunIds
  BY DEF Control, RunIds
<1>1. CASE SendMessage
  <2>1. PICK n \in RunIds : n = sent + 1
    BY <1>1 DEF SendMessage, Control, RunIds
  <2>2. /\ pc[n] = "idle" /\ n # 0 /\ \A r \in RunIds : pc[r] # "idle" => r < n
        /\ controller # n
    BY <2>1 DEF Control, DriverInv, RunIds
  <2>3. /\ controller' = n /\ isLoading' = TRUE
        /\ pc' = [pc EXCEPT ![n] = "streaming"]
        /\ aborted' = [r \in RunIds |-> aborted[r] \/ r = controller]
    BY <1>1, <2>1 DEF SendMessage, AbortCurrent
  <2>4. ~aborted'[n] /\ Live(n)'
    BY <2>2, <2>3 DEF DriverInv, Live, Control
  <2>5. \A r \in RunIds : aborted'[r] => pc'[r] # "idle"
    BY <2>3 DEF DriverInv, Control, RunIds
  <2>6. \A r \in RunIds : Live(r)' /\ ~aborted'[r] => r = n
    BY <2>3 DEF DriverInv, Control, Live
  <2>7. \A r \in RunIds : pc'[r] # "idle" => r <= n
    BY <2>1, <2>2, <2>3 DEF Control, RunIds
  <2> QED
    BY <2>2, <2>3, <2>4, <2>5, <2>6, <2>7 DEF DriverInv, Driving, Live
<1>2. CASE SendUnbacked \/ ClearLayout \/ UNCHANGED vars
  BY <1>2 DEF SendUnbacked, ClearLayout, vars, chatVars, DriverInv, Driving, Live
<1>3. CASE Stop \/ Reset
  <2>1. /\ pc' = pc /\ isLoading' = FALSE /\ (controller' = controller \/ controller' = 0)
        /\ aborted' = [r \in RunIds |-> aborted[r] \/ r = controller]
    BY <1>3 DEF Stop, Reset, AbortCurrent
  <2>2. ~Driving' /\ \A r \in RunIds : Live(r)' => aborted'[r]
    BY <1>0, <2>1 DEF DriverInv, Driving, Live
  <2>3. \A r \in RunIds : aborted'[r] => pc'[r] # "idle"
    BY <2>1 DEF DriverInv, Control, RunIds
  <2> QED
    BY <2>1, <2>2, <2>3 DEF DriverInv
<1>4. ASSUME NEW r \in RunIds, RunStep(r) PROVE DriverInv'
  <2>1. Shape(r)
    BY <1>4, StepShape
  <2>2. controller' = controller /\ aborted' = aborted
    BY <2>1 DEF Shape
  <2>3. CASE GoesOn(r)
    <3>1. \A s \in RunIds : /\ Live(s)' <=> Live(s)
                            /\ pc'[s] = "idle" <=> pc[s] = "idle"
                            /\ pc'[s] = "settled" <=> pc[s] = "settled"
      BY <2>3 DEF GoesOn, Live
    <3>2. isLoading' = isLoading /\ (Driving' <=> Driving)
      BY <1>0, <2>2, <2>3, <3>1 DEF GoesOn, Driving, Live
    <3> QED
      BY <1>0, <2>2, <3>1, <3>2 DEF DriverInv
  <2>4. CASE Settles(r)
    <3>1. /\ Live(r) /\ isLoading' = FALSE
          /\ pc'[r] = "settled" /\ \A s \in RunIds : s # r => pc'[s] = pc[s]
      BY <2>4 DEF Settles, Control
    <3>2. \A s \in RunIds : Live(s)' => Live(s) /\ s # r
      BY <3>1 DEF Live
    \* If the driver is still under way, r is another run: an aborted one, and older.
    <3>3. Driving' => r < controller /\ aborted[r]
      BY <1>0, <2>2, <3>1, <3>2 DEF DriverInv, Driving, Live, RunIds
    <3>4. /\ controller # 0 => pc'[controller] # "idle"
          /\ \A s \in RunIds : pc'[s] = "idle" <=> pc[s] = "idle"
      BY <1>0, <3>1 DEF DriverInv, Live
    <3> QED
      BY <2>2, <3>1, <3>2, <3>3, <3>4 DEF DriverInv
  <2> QED
    BY <2>1, <2>3, <2>4 DEF Shape
<1> QED
  BY <1>1, <1>2, <1>3, <1>4 DEF Next, UserStep

\* At most one run that was not aborted is under way, the spinner shows only for
\* it, and is taken away from it only by a superseded run that settles late.
THEOREM DriverSafe ==
    Spec => [](OneDriver /\ SpinnerMeansDriver /\ SpinnerStolenOnlyByStaleRun)
<1>1. Init => DriverInv
  BY DEF Init, DriverInv, Driving, Live
<1>2. Control /\ DriverInv => OneDriver /\ SpinnerMeansDriver /\ SpinnerStolenOnlyByStaleRun
  <2> SUFFICES ASSUME Control, DriverInv
               PROVE  OneDriver /\ SpinnerMeansDriver /\ SpinnerStolenOnlyByStaleRun
    OBVIOUS
  <2>1. controller # 0 => controller \in RunIds
    BY DEF Control, RunIds
  <2>2. Lifecycle!Driving <=> Driving
    BY <2>1 DEF Lifecycle!Driving, Driving, Live, Control, PCs
  <2>3. \A r \in RunIds : /\ Phase[r] = "live" <=> Live(r)
                          /\ Phase[r] = "settled" <=> pc[r] = "settled"
    BY DEF Phase, Live, Control, PCs
  <2> QED
    BY <2>2, <2>3
       DEF OneDriver, SpinnerMeansDriver, SpinnerStolenOnlyByStaleRun, DriverInv, Phase,
           Lifecycle!OneDriver, Lifecycle!SpinnerMeansDriver,
           Lifecycle!SpinnerStolenOnlyByStaleRun, Lifecycle!Runs, RunIds
<1> QED
  BY ControlInit, ControlStep, DriverInvStep, <1>1, <1>2, PTL DEF Spec

----------------------------------------------------------------------------
(* Aborted runs, and layouts after a reset.                                *)

\* What an aborted run may still do in a step of the session.
OnlySettles(r) ==
    \/ pc'[r] = pc[r] /\ run'[r] = run[r]
    \/ /\ pc'[r] \in {"leaving", "settled"}
       /\ UNCHANGED <<executed, approvals, activeLayout>>

\* An aborted run leaves its stream and settles, and neither runs a handler, nor
\* queues an approval, nor renders a layout.
THEOREM AbortedRunsOnlySettle == Spec => AbortedRunOnlySettles
<1>1. ASSUME Control, [Next]_vars, NEW r \in RunIds, Live(r), aborted[r]
      PROVE  OnlySettles(r)
  <2>1. CASE SendMessage
    <3>1. pc[sent + 1] = "idle" /\ sent + 1 # r
      BY <1>1, <2>1, BoundsAssumption
         DEF SendMessage, Control, Live, RunIds, BoundsAssumption
    <3> QED
      BY <1>1, <2>1, <3>1 DEF SendMessage, Control, OnlySettles
  <2>2. CASE SendUnbacked \/ Stop \/ Reset \/ ClearLayout \/ UNCHANGED vars
    BY <2>2 DEF SendUnbacked, Stop, Reset, ClearLayout, vars, chatVars, OnlySettles
  <2>3. ASSUME NEW s \in RunIds, RunStep(s) PROVE OnlySettles(r)
    <3>1. Shape(s)
      BY <1>1, <2>3, StepShape
    <3>2. CASE s = r
      BY <1>1, <3>1, <3>2 DEF Shape, Settles, OnlySettles, Control
    <3>3. CASE s # r
      BY <1>1, <3>1, <3>3 DEF Shape, GoesOn, Settles, OnlySettles, Control
    <3> QED
      BY <3>2, <3>3
  <2> QED
    BY <1>1, <2>1, <2>2, <2>3 DEF Next, UserStep
<1>2. Control /\ [Next]_vars =>
        [\A r \in RunIds : Live(r) /\ aborted[r] => OnlySettles(r)]_vars
  BY <1>1
<1>3. [\A r \in RunIds : Live(r) /\ aborted[r] => OnlySettles(r)]_vars =>
        [\A r \in RunIds : Live(r) /\ aborted[r] =>
            \/ pc'[r] = pc[r] /\ run'[r] = run[r]
            \/ /\ pc'[r] \in {"leaving", "settled"}
               /\ UNCHANGED <<executed, approvals, activeLayout>>]_vars
  BY DEF OnlySettles
<1> QED
  BY ControlInit, ControlStep, <1>2, <1>3, PTL DEF Spec, AbortedRunOnlySettles

\* Runs still able to render a layout have started after the last reset.
LayoutInv ==
    /\ resetAt \in 0 .. sent
    /\ activeLayout \in Nat
    /\ NoLayoutFromBeforeReset
    /\ \A r \in RunIds : Live(r) /\ ~aborted[r] => r > resetAt

LEMMA LayoutInvStep ==
    ASSUME Control, OneDriver, LayoutInv, [Next]_vars
    PROVE  LayoutInv'
<1> USE BoundsAssumption DEF BoundsAssumption
<1>1. CASE SendMessage
  <2>1. PICK n \in RunIds : n = sent + 1
    BY <1>1 DEF SendMessage, Control, RunIds
  <2>2. \A r \in RunIds : Live(r)' /\ ~aborted'[r] => r = n \/ (Live(r) /\ ~aborted[r])
    BY <1>1, <2>1 DEF SendMessage, AbortCurrent, Control, Live
  <2> QED
    BY <1>1, <2>1, <2>2 DEF SendMessage, LayoutInv, NoLayoutFromBeforeReset, Control
<1>2. CASE SendUnbacked
  BY <1>2 DEF SendUnbacked, LayoutInv, NoLayoutFromBeforeReset, Control, Live
<1>3. CASE Stop
  <2>1. \A r \in RunIds : aborted[r] => aborted'[r]
    BY <1>3 DEF Stop, AbortCurrent
  <2> QED
    BY <1>3, <2>1 DEF Stop, LayoutInv, NoLayoutFromBeforeReset, Live
<1>4. CASE Reset
  <2>1. \A r \in RunIds : Live(r) => aborted'[r]
    BY <1>4 DEF Reset, AbortCurrent, OneDriver, Lifecycle!OneDriver, Lifecycle!Runs, RunIds
  <2> QED
    BY <1>4, <2>1 DEF Reset, LayoutInv, NoLayoutFromBeforeReset, Control, Live
<1>5. CASE ClearLayout
  BY <1>5 DEF ClearLayout, LayoutInv, NoLayoutFromBeforeReset, Live
<1>6. ASSUME NEW r \in RunIds, RunStep(r) PROVE LayoutInv'
  <2>1. Shape(r)
    BY <1>6, StepShape
  <2>2. \A s \in RunIds : Live(s)' /\ ~aborted'[s] => Live(s) /\ ~aborted[s]
    BY <2>1 DEF Shape, GoesOn, Settles, Live, Control
  <2>3. NoLayoutFromBeforeReset' /\ activeLayout' \in Nat
    BY <2>1 DEF Shape, GoesOn, Settles, LayoutInv, NoLayoutFromBeforeReset, RunIds
  <2> QED
    BY <2>1, <2>2, <2>3 DEF Shape, LayoutInv
<1>7. CASE UNCHANGED vars
  BY <1>7 DEF vars, chatVars, LayoutInv, NoLayoutFromBeforeReset, Live
<1> QED
  BY <1>1, <1>2, <1>3, <1>4, <1>5, <1>6, <1>7 DEF Next, UserStep

\* After a reset the session never shows a layout of a run from before it.
THEOREM ResetForgetsLayouts == Spec => []NoLayoutFromBeforeReset
<1>1. Init => LayoutInv
  BY DEF Init, LayoutInv, NoLayoutFromBeforeReset, Live
<1>2. Control /\ OneDriver /\ LayoutInv /\ [Next]_vars => LayoutInv'
  BY LayoutInvStep
<1>3. LayoutInv => NoLayoutFromBeforeReset
  BY DEF LayoutInv
<1>4. Spec => []OneDriver
  BY DriverSafe, PTL
<1> QED
  BY ControlInit, ControlStep, <1>1, <1>2, <1>3, <1>4, PTL DEF Spec

----------------------------------------------------------------------------
(* What transcripts show.                                                  *)

LEMMA Indexes ==
    ASSUME NEW S, NEW seq \in Seq(S), NEW i \in DOMAIN seq
    PROVE  i \in 1 .. Len(seq) /\ seq[i] \in S
<1>1. i \in 1 .. Len(seq)
  OBVIOUS
<1> QED
  BY <1>1, ElementOfSeq

LEMMA AttachTyped ==
    ASSUME NEW S, NEW msgs \in Messages(S), NEW id \in MessageIds, NEW calls \in SUBSET S
    PROVE  Attach(msgs, id, calls) \in Messages(S)
<1> DEFINE M == [id : MessageIds, calls : SUBSET S]
<1>1. msgs \in Seq(M)
  BY DEF Messages
<1>2. CASE Has(msgs, id)
  <2> DEFINE i == IndexOf(msgs, id)
             m == [msgs[i] EXCEPT !.calls = Kept(@, calls) \cup calls]
  <2>1. i \in DOMAIN msgs
    BY <1>2 DEF Has, IndexOf
  <2>2. i \in 1 .. Len(msgs) /\ msgs[i] \in M
    BY <1>1, <2>1, Indexes
  <2>3. m \in M
    BY <2>2 DEF Kept
  <2>4. Attach(msgs, id, calls) = [msgs EXCEPT ![i] = m]
    BY <1>2 DEF Attach
  <2> HIDE DEF i, m, M
  <2>5. [msgs EXCEPT ![i] = m] \in Seq(M)
    BY <1>1, <2>2, <2>3, ExceptSeq
  <2> QED
    BY <2>4, <2>5 DEF Messages, M
<1>3. CASE ~Has(msgs, id)
  <2>1. Message(id, calls) \in M
    BY DEF Message
  <2>2. Attach(msgs, id, calls) = Append(msgs, Message(id, calls))
    BY <1>3 DEF Attach
  <2> QED
    BY <1>1, <2>1, <2>2, AppendProperties DEF Messages
<1> QED
  BY <1>2, <1>3

LEMMA AppendTyped ==
    ASSUME NEW S, NEW msgs \in Messages(S), NEW id \in MessageIds
    PROVE  Append(msgs, Message(id, {})) \in Messages(S)
<1>1. Message(id, {}) \in [id : MessageIds, calls : SUBSET S]
  BY DEF Message
<1> QED
  BY <1>1, AppendProperties DEF Messages

\* Calls whose answer, if the browser gave them one, was earned.
Earned ==
    {c \in Call : /\ c.status = "result" => Recorded(c, executed)
                  /\ c.status = "queued" => Recorded(c, approvals)}

\* Calls of handlers: none of a tool that requires a sign-off.
Handled == {m \in MadeCall : m.tool \notin GuardedTools}

\* Everything shown is earned; a run under way has begun a turn; the call whose
\* handler is awaited was started; handlers get no guarded calls.
Account ==
    /\ transcript \in Messages(Earned)
    /\ run \in [RunIds -> Locals(Earned)]
    /\ \A r \in RunIds : Live(r) => run[r].turn \in 1 .. MaxLocalTurns
    /\ \A r \in RunIds : pc[r] = "handler" =>
           /\ run[r].next \in DOMAIN run[r].completed
           /\ CallOf(r, run[r].completed[run[r].next]) \in executed
    /\ approvals \subseteq MadeCall
    /\ executed \subseteq Handled

LEMMA MessagesMonotonic ==
    ASSUME NEW S, NEW T, S \subseteq T, NEW msgs \in Messages(S) PROVE msgs \in Messages(T)
<1>1. [id : MessageIds, calls : SUBSET S] \subseteq [id : MessageIds, calls : SUBSET T]
  OBVIOUS
<1> QED
  BY <1>1, SeqMonotonic DEF Messages

LEMMA LocalsMonotonic ==
    ASSUME NEW S, NEW T, S \subseteq T PROVE Locals(S) \subseteq Locals(T)
<1> SUFFICES ASSUME NEW l \in Locals(S) PROVE l \in Locals(T)
  OBVIOUS
<1>1. l.msgs \in Messages(T)
  <2>1. l.msgs \in Messages(S)
    BY DEF Locals
  <2> QED
    BY <2>1, MessagesMonotonic
<1> QED
  BY <1>1 DEF Locals

\* Executed calls and approvals are never taken back, so neither is what was earned.
LEMMA EarnedMonotonic ==
    ASSUME executed \subseteq executed', approvals \subseteq approvals'
    PROVE  Earned \subseteq Earned'
BY DEF Earned, Recorded

\* The call whose handler run r awaits, when its locals are l.
Awaited(r, l) ==
    [run |-> r, turn |-> l.turn, id |-> l.completed[l.next].id,
     tool |-> l.completed[l.next].tool]

\* What a step of run r owes, whatever it does: p and l are where it leaves the
\* run and the run's locals.
LEMMA RunAccount ==
    ASSUME Control, Account, NEW r \in RunIds, NEW p, NEW l,
           pc' = [pc EXCEPT ![r] = p], run' = [run EXCEPT ![r] = l],
           transcript' \in Messages(Earned'), l \in Locals(Earned'),
           p \in {"streaming", "erring", "leaving", "handler"} => l.turn \in 1 .. MaxLocalTurns,
           p = "handler" => /\ l.next \in DOMAIN l.completed
                            /\ Awaited(r, l) \in executed',
           executed \subseteq executed', approvals \subseteq approvals',
           approvals' \subseteq MadeCall, executed' \subseteq Handled
    PROVE  Account'
<1>1. Locals(Earned) \subseteq Locals(Earned')
  BY EarnedMonotonic, LocalsMonotonic
<1>2. run' \in [RunIds -> Locals(Earned')]
  BY <1>1 DEF Account
<1>3. pc'[r] = p /\ run'[r] = l /\ \A s \in RunIds : s # r => pc'[s] = pc[s] /\ run'[s] = run[s]
  BY DEF Control, Account
<1>4. \A s \in RunIds : Live(s)' => run'[s].turn \in 1 .. MaxLocalTurns
  BY <1>3 DEF Account, Live
<1>5. ASSUME NEW s \in RunIds, pc'[s] = "handler"
      PROVE  /\ run'[s].next \in DOMAIN run'[s].completed
             /\ CallOf(s, run[s].completed[run[s].next])' \in executed'
  BY <1>3, <1>5 DEF Account, CallOf, Awaited
<1> QED
  BY <1>2, <1>4, <1>5 DEF Account, Handled

\* Completed calls.
Done == [id : CallIds, tool : Tools, ok : BOOLEAN]

LEMMA NoRunTyped == ASSUME NEW S PROVE NoRun \in Locals(S)
<1>1. <<>> \in Messages(S) /\ <<>> \in Seq(Done)
  BY EmptySeq DEF Messages
<1> QED
  BY <1>1, BoundsAssumption DEF NoRun, Locals, Done, BoundsAssumption

LEMMA PublishAccount ==
    ASSUME Control, Account, NEW r \in RunIds, NEW l \in Locals(Earned),
           pc[r] = "streaming", l.turn = run[r].turn, l.events < MaxEvents, Publish(r, l)
    PROVE  Account'
<1> DEFINE m == [l EXCEPT !.events = @ + 1]
<1>1. Earned' = Earned
  BY DEF Publish, Earned, Recorded
<1>2. l.msgs \in Messages(Earned) /\ l.events \in 0 .. MaxEvents
  BY DEF Locals
<1>3. m \in Locals(Earned) /\ m.turn = run[r].turn
  <2>1. l.events + 1 \in 0 .. MaxEvents
    BY <1>2, BoundsAssumption DEF BoundsAssumption
  <2>2. m = [l EXCEPT !.events = l.events + 1]
    OBVIOUS
  <2> HIDE DEF m
  <2> QED
    BY <2>1, <2>2 DEF Locals
<1>4. /\ transcript' = l.msgs /\ run' = [run EXCEPT ![r] = m]
      /\ pc' = pc /\ UNCHANGED <<executed, approvals>>
  BY DEF Publish
<1>5. pc' = [pc EXCEPT ![r] = "streaming"]
  BY <1>4 DEF Control
<1>6. run[r].turn \in 1 .. MaxLocalTurns
  BY DEF Account, Live
<1>7. approvals \subseteq MadeCall /\ executed \subseteq Handled
  BY DEF Account
<1> HIDE DEF m
<1> QED
  BY <1>1, <1>2, <1>3, <1>4, <1>5, <1>6, <1>7, RunAccount

LEMMA SettleAccount ==
    ASSUME Control, Account, NEW r \in RunIds, NEW how, Settle(r, how),
           transcript' \in Messages(Earned'), UNCHANGED executed, approvals \subseteq approvals',
           approvals' \subseteq MadeCall
    PROVE  Account'
<1>1. NoRun \in Locals(Earned')
  BY NoRunTyped
<1>2. executed' \subseteq Handled
  BY DEF Account
<1> QED
  BY <1>1, <1>2, RunAccount DEF Settle

\* Where a result, a widget or a call goes that may join the open message.
LEMMA ActiveTyped ==
    ASSUME Account, NEW r \in RunIds, NEW id \in MessageIds
    PROVE  ActiveOr(r, id) \in MessageIds
BY DEF Account, Locals, ActiveOr

\* Of an event, seen from the run: its locals before it.
LEMMA EventLocals ==
    ASSUME Control, Account, NEW r \in RunIds, NEW kind, Event(kind, r)
    PROVE  /\ pc[r] = "streaming" /\ run[r].turn \in 1 .. MaxLocalTurns
           /\ run[r] \in Locals(Earned) /\ run[r].msgs \in Messages(Earned)
           /\ run[r].events < MaxEvents
BY DEF Event, Account, Live, Locals

LEMMA EventAccount ==
    ASSUME Control, Account, NEW r \in RunIds,
           \/ \E m \in MsgIds : TextDelta(r, m) \/ WidgetRender(r, m)
           \/ \E id \in CallIds, tool \in Tools : ToolCallStart(r, id, tool)
           \/ \E id \in CallIds, ok \in BOOLEAN : ToolCallEnd(r, id, ok)
           \/ \E id \in CallIds : ToolCallResult(r, id)
           \/ LayoutRender(r)
           \/ OtherEvent(r)
    PROVE  Account'
<1> DEFINE t == run[r].turn
           Fits(l) == l \in Locals(Earned) /\ l.turn = run[r].turn /\ l.events = run[r].events
<1>1. ASSUME NEW m \in MsgIds, TextDelta(r, m) PROVE Account'
  <2> DEFINE l == [run[r] EXCEPT !.msgs = Attach(@, m, {}), !.active = m]
  <2>1. pc[r] = "streaming" /\ run[r] \in Locals(Earned) /\ run[r].msgs \in Messages(Earned)
        /\ run[r].events < MaxEvents /\ t \in 1 .. MaxLocalTurns
    BY <1>1, EventLocals DEF TextDelta
  <2>2. m \in MessageIds
    BY DEF MessageIds
  <2>3. Attach(run[r].msgs, m, {}) \in Messages(Earned)
    BY <2>1, <2>2, AttachTyped
  <2>4. Fits(l)
    BY <2>1, <2>2, <2>3 DEF Locals
  <2>5. Publish(r, l)
    BY <1>1 DEF TextDelta
  <2> HIDE DEF l
  <2> QED
    BY <2>1, <2>4, <2>5, PublishAccount
<1>2. ASSUME NEW m \in MsgIds, WidgetRender(r, m) PROVE Account'
  <2> DEFINE id == ActiveOr(r, m)
             l == [run[r] EXCEPT !.msgs = Attach(@, id, {})]
  <2>1. pc[r] = "streaming" /\ run[r] \in Locals(Earned) /\ run[r].msgs \in Messages(Earned)
        /\ run[r].events < MaxEvents /\ t \in 1 .. MaxLocalTurns
    BY <1>2, EventLocals DEF WidgetRender
  <2>2. id \in MessageIds
    <3>1. m \in MessageIds
      BY DEF MessageIds
    <3> QED
      BY <3>1, ActiveTyped
  <2>3. Attach(run[r].msgs, id, {}) \in Messages(Earned)
    BY <2>1, <2>2, AttachTyped
  <2>4. Fits(l)
    BY <2>1, <2>3 DEF Locals
  <2>5. Publish(r, l)
    BY <1>2 DEF WidgetRender
  <2> HIDE DEF l
  <2> QED
    BY <2>1, <2>4, <2>5, PublishAccount
<1>3. ASSUME NEW c \in CallIds, NEW tool \in Tools, ToolCallStart(r, c, tool) PROVE Account'
  <2> DEFINE call == [id |-> c, tool |-> tool]
             calls == {Shown(call, "open")}
             id == ActiveOr(r, c)
             pending == Kept(run[r].pending, {call}) \cup {call}
             l == [run[r] EXCEPT !.msgs = Attach(@, id, calls), !.pending = pending]
  <2>1. pc[r] = "streaming" /\ run[r] \in Locals(Earned) /\ run[r].msgs \in Messages(Earned)
        /\ run[r].events < MaxEvents /\ t \in 1 .. MaxLocalTurns
    BY <1>3, EventLocals DEF ToolCallStart
  <2>3. id \in MessageIds
    <3>1. c \in MessageIds
      BY DEF MessageIds
    <3> QED
      BY <3>1, ActiveTyped
  <2>4. calls \in SUBSET Earned
    BY DEF Earned, Call, Shown
  <2>5. Attach(run[r].msgs, id, calls) \in Messages(Earned)
    <3> HIDE DEF calls, id
    <3> QED
      BY <2>1, <2>3, <2>4, AttachTyped
  <2>6. pending \subseteq [id : CallIds, tool : Tools]
    BY <2>1 DEF Locals, Kept
  <2>7. Publish(r, l)
    BY <1>3 DEF ToolCallStart
  <2> HIDE DEF pending, calls, id
  <2>8. Fits(l)
    BY <2>1, <2>5, <2>6 DEF Locals
  <2> HIDE DEF l
  <2> QED
    BY <2>1, <2>7, <2>8, PublishAccount
<1>4. ASSUME NEW c \in CallIds, NEW ok \in BOOLEAN, ToolCallEnd(r, c, ok) PROVE Account'
  <2>1. pc[r] = "streaming" /\ run[r] \in Locals(Earned) /\ run[r].msgs \in Messages(Earned)
        /\ run[r].events < MaxEvents /\ t \in 1 .. MaxLocalTurns
    BY <1>4, EventLocals DEF ToolCallEnd
  <2>2. PICK call \in run[r].pending :
            Publish(r, [run[r] EXCEPT
                !.completed = Append(@, [id |-> c, tool |-> call.tool, ok |-> ok])])
    BY <1>4 DEF ToolCallEnd
  <2> DEFINE done == [id |-> c, tool |-> call.tool, ok |-> ok]
             l == [run[r] EXCEPT !.completed = Append(@, done)]
  <2>3. Append(run[r].completed, done) \in Seq(Done)
    <3>1. call.tool \in Tools /\ run[r].completed \in Seq(Done)
      BY <2>1 DEF Locals, Done
    <3>2. done \in Done
      BY <3>1 DEF Done
    <3> HIDE DEF done
    <3> QED
      BY <3>1, <3>2, AppendProperties
  <2>4. Fits(l)
    BY <2>1, <2>3 DEF Locals, Done
  <2> HIDE DEF l
  <2> QED
    BY <2>1, <2>2, <2>4, PublishAccount DEF l
<1>5. ASSUME NEW c \in CallIds, ToolCallResult(r, c) PROVE Account'
  <2>1. pc[r] = "streaming" /\ run[r] \in Locals(Earned) /\ run[r].msgs \in Messages(Earned)
        /\ run[r].events < MaxEvents /\ t \in 1 .. MaxLocalTurns
    BY <1>5, EventLocals DEF ToolCallResult
  <2>2. PICK i \in Holding(run[r].msgs, c) : \E call \in run[r].msgs[i].calls :
            Publish(r, [run[r] EXCEPT
                !.msgs = Attach(@, run[r].msgs[i].id, {Shown(call, "told")})])
    BY <1>5 DEF ToolCallResult
  <2>7. PICK call \in run[r].msgs[i].calls :
            Publish(r, [run[r] EXCEPT
                !.msgs = Attach(@, run[r].msgs[i].id, {Shown(call, "told")})])
    BY <2>2
  <2> DEFINE calls == {Shown(call, "told")}
             id == run[r].msgs[i].id
             l == [run[r] EXCEPT !.msgs = Attach(@, id, calls)]
  <2>3. id \in MessageIds /\ calls \in SUBSET Earned
    <3>1. run[r].msgs \in Seq([id : MessageIds, calls : SUBSET Earned]) /\ i \in DOMAIN run[r].msgs
      BY <2>1, <2>2 DEF Messages, Holding
    <3>2. run[r].msgs[i] \in [id : MessageIds, calls : SUBSET Earned]
      BY <3>1, Indexes
    <3>3. call \in Call
      BY <3>2 DEF Earned
    <3> QED
      BY <3>2, <3>3 DEF Earned, Call, Shown
  <2>4. Publish(r, l)
    BY <2>7
  <2> HIDE DEF calls, id
  <2>5. Attach(run[r].msgs, id, calls) \in Messages(Earned)
    BY <2>1, <2>3, AttachTyped
  <2>6. Fits(l)
    BY <2>1, <2>5 DEF Locals
  <2> HIDE DEF l
  <2> QED
    BY <2>1, <2>4, <2>6, PublishAccount
<1>6. CASE LayoutRender(r) \/ OtherEvent(r)
  <2>1. pc[r] = "streaming" /\ run[r] \in Locals(Earned) /\ run[r].events < MaxEvents
    BY <1>6, EventLocals DEF LayoutRender, OtherEvent
  <2>2. Publish(r, run[r])
    BY <1>6 DEF LayoutRender, OtherEvent
  <2> QED
    BY <2>1, <2>2, PublishAccount
<1> QED
  BY <1>1, <1>2, <1>3, <1>4, <1>5, <1>6

----------------------------------------------------------------------------
(* The end of a turn.                                                      *)

LEMMA EndTurnAccount ==
    ASSUME Control, Account, NEW r \in RunIds, NEW out \in SUBSET Earned', EndTurn(r, out),
           Live(r), UNCHANGED executed, approvals \subseteq approvals',
           approvals' \subseteq MadeCall
    PROVE  Account'
<1> DEFINE t == run[r].turn
           id == ActiveOr(r, AnswerId(r, t))
           msgs == Attach(run[r].msgs, id, out)
<1>1. t \in 1 .. MaxLocalTurns /\ run[r].msgs \in Messages(Earned) /\ transcript \in Messages(Earned)
  BY DEF Account, Locals
<1>2. Earned \subseteq Earned'
  BY EarnedMonotonic
<1>3. run[r].msgs \in Messages(Earned') /\ transcript \in Messages(Earned')
  BY <1>1, <1>2, MessagesMonotonic
<1>4. id \in MessageIds
  <2>1. AnswerId(r, t) \in MessageIds
    BY <1>1 DEF MessageIds
  <2> QED
    BY <2>1, ActiveTyped
<1>5. msgs \in Messages(Earned')
  <2> HIDE DEF id
  <2> QED
    BY <1>3, <1>4, AttachTyped
<1>6. \/ (\E how : Settle(r, how)) /\ (transcript' = transcript \/ transcript' = msgs)
      \/ /\ t < MaxLocalTurns /\ transcript' = msgs
         /\ pc' = [pc EXCEPT ![r] = "streaming"]
         /\ run' = [run EXCEPT ![r] = Turn(msgs, t + 1)]
  BY DEF EndTurn, TurnsLeft
<1> HIDE DEF msgs
<1>7. CASE (\E how : Settle(r, how)) /\ (transcript' = transcript \/ transcript' = msgs)
  BY <1>3, <1>5, <1>7, SettleAccount
<1>8. CASE /\ t < MaxLocalTurns /\ transcript' = msgs
           /\ pc' = [pc EXCEPT ![r] = "streaming"]
           /\ run' = [run EXCEPT ![r] = Turn(msgs, t + 1)]
  <2> DEFINE l == Turn(msgs, t + 1)
  <2>1. t + 1 \in 1 .. MaxLocalTurns
    BY <1>1, <1>8, BoundsAssumption DEF BoundsAssumption
  <2>2. l \in Locals(Earned') /\ l.turn = t + 1
    <3>1. NoRun \in Locals(Earned') /\ t + 1 \in 0 .. MaxLocalTurns
      BY <2>1, NoRunTyped
    <3> QED
      BY <1>5, <3>1 DEF Turn, Locals
  <2>3. executed' \subseteq Handled
    BY DEF Account
  <2> HIDE DEF l
  <2> QED
    BY <1>5, <1>8, <2>1, <2>2, <2>3, RunAccount DEF l
<1> QED
  BY <1>6, <1>7, <1>8

\* The answers to completed calls are earned, or errors.
LEMMA AnswersTyped ==
    ASSUME NEW r \in RunIds, NEW E, NEW out \in SUBSET E, NEW S,
           \A i \in S : Immediate(run[r].completed[i]) \in E
    PROVE  AnswersWith(r, out, S) \subseteq E
BY DEF AnswersWith, Kept

\* The completed calls are gone through: those guarded are queued before any
\* handler is started, and a handler is started for none of them.
LEMMA DispatchAccount ==
    ASSUME Control, Account, NEW r \in RunIds, NEW from \in Nat \ {0},
           NEW out \in SUBSET Earned, Live(r), Dispatch(r, from, out)
    PROVE  Account'
<1> DEFINE t == run[r].turn
           calls == run[r].completed
           passed(stop) == {i \in from .. stop - 1 : IsClient(calls[i])}
           answers(stop) == AnswersWith(r, out, passed(stop))
<1>1. t \in 1 .. MaxLocalTurns /\ run[r] \in Locals(Earned) /\ calls \in Seq(Done)
  BY DEF Account, Locals, Done
<1>2. PICK stop \in from .. Len(calls) + 1 :
        /\ \A i \in from .. stop - 1 : ~StopsAt(r, calls[i])
        /\ approvals' = approvals \cup
                {CallOf(r, calls[i]) : i \in {j \in from .. stop - 1 : IsGuarded(calls[j])}}
        /\ \/ EndTurn(r, answers(stop)) /\ UNCHANGED executed
           \/ Settle(r, "aborted") /\ UNCHANGED <<transcript, executed>>
           \/ /\ stop <= Len(calls)
              /\ ~aborted[r] /\ StopsAt(r, calls[stop])
              /\ pc' = [pc EXCEPT ![r] = "handler"]
              /\ run' = [run EXCEPT ![r].next = stop, ![r].out = answers(stop)]
              /\ executed' = executed \cup {CallOf(r, calls[stop])}
              /\ UNCHANGED transcript
  BY DEF Dispatch
<1>3. ASSUME NEW i \in 1 .. Len(calls)
      PROVE  /\ i \in DOMAIN calls /\ calls[i] \in Done
             /\ CallOf(r, calls[i]) \in MadeCall
             /\ CallOf(r, calls[i]).id = calls[i].id /\ CallOf(r, calls[i]).tool = calls[i].tool
  <2>1. i \in DOMAIN calls /\ calls[i] \in Done
    <3> HIDE DEF calls
    <3> QED
      BY <1>1, ElementOfSeq
  <2> QED
    BY <1>1, <2>1 DEF Done, CallOf, MadeCall
<1>4. from .. stop - 1 \subseteq 1 .. Len(calls) /\ stop \in Nat \ {0}
  <2>1. Len(calls) \in Nat
    BY <1>1
  <2> QED
    BY <2>1
<1>5. approvals \subseteq approvals' /\ approvals' \subseteq MadeCall
  BY <1>2, <1>3, <1>4 DEF Account
<1>6. executed \subseteq executed'
  BY <1>2
<1>7. answers(stop) \subseteq Earned'
  <2>1. out \subseteq Earned'
    BY <1>5, <1>6, EarnedMonotonic
  <2>2. ASSUME NEW i \in passed(stop) PROVE Immediate(calls[i]) \in Earned'
    <3>1. i \in from .. stop - 1 /\ i \in 1 .. Len(calls)
      BY <1>4
    <3>2. calls[i] \in Done /\ CallOf(r, calls[i]).id = calls[i].id
          /\ CallOf(r, calls[i]).tool = calls[i].tool
      BY <1>3, <3>1
    <3>3. IsGuarded(calls[i]) => CallOf(r, calls[i]) \in approvals'
      BY <1>2, <3>1
    <3>4. IsGuarded(calls[i]) => Recorded(calls[i], approvals')
      <4> HIDE DEF calls
      <4> QED
        BY <3>2, <3>3 DEF Recorded
    <3> HIDE DEF calls
    <3>5. Immediate(calls[i]) \in Call
      BY <3>2 DEF Immediate, Shown, Done, Call
    <3>6. /\ Immediate(calls[i]).status # "result"
          /\ Immediate(calls[i]).status = "queued" => IsGuarded(calls[i])
          /\ Immediate(calls[i]).id = calls[i].id /\ Immediate(calls[i]).tool = calls[i].tool
      BY DEF Immediate, Shown
    <3>7. Immediate(calls[i]).status = "queued" => Recorded(Immediate(calls[i]), approvals')
      BY <3>4, <3>6 DEF Recorded
    <3> QED
      BY <3>5, <3>6, <3>7 DEF Earned
  <2> QED
    BY <2>1, <2>2, AnswersTyped
<1> HIDE DEF answers, passed
<1>8. CASE EndTurn(r, answers(stop)) /\ UNCHANGED executed
  BY <1>5, <1>7, <1>8, EndTurnAccount
<1>9. transcript \in Messages(Earned')
  BY <1>5, <1>6, EarnedMonotonic, MessagesMonotonic DEF Account
<1>10. CASE Settle(r, "aborted") /\ UNCHANGED <<transcript, executed>>
  BY <1>5, <1>9, <1>10, SettleAccount
<1>11. CASE /\ stop <= Len(calls)
            /\ ~aborted[r] /\ StopsAt(r, calls[stop])
            /\ pc' = [pc EXCEPT ![r] = "handler"]
            /\ run' = [run EXCEPT ![r].next = stop, ![r].out = answers(stop)]
            /\ executed' = executed \cup {CallOf(r, calls[stop])}
            /\ UNCHANGED transcript
  <2> DEFINE l == [run[r] EXCEPT !.next = stop, !.out = answers(stop)]
  <2>1. stop \in 1 .. Len(calls) /\ IsAwaited(calls[stop])
    BY <1>4, <1>11 DEF StopsAt
  <2>2. calls[stop].tool \notin GuardedTools
    BY <2>1 DEF IsAwaited, IsGuarded
  <2>3. /\ stop \in DOMAIN calls
        /\ CallOf(r, calls[stop]) \in MadeCall
        /\ CallOf(r, calls[stop]).tool = calls[stop].tool
    BY <1>3, <2>1
  <2>4. executed' \subseteq Handled
    BY <1>11, <2>2, <2>3 DEF Account, Handled
  <2>5. run[r] \in Locals(Earned')
    BY <1>1, <1>5, <1>6, EarnedMonotonic, LocalsMonotonic
  <2>6. /\ l \in Locals(Earned') /\ l.turn = t /\ l.completed = calls /\ l.next = stop
    BY <1>4, <1>7, <2>5 DEF Locals
  <2>7. run' = [run EXCEPT ![r] = l]
    BY <1>11 DEF Account
  <2>9. Awaited(r, l) \in executed' /\ l.next \in DOMAIN l.completed
    <3>1. Awaited(r, l) = CallOf(r, calls[stop])
      BY <2>6 DEF CallOf, Awaited
    <3> QED
      BY <1>11, <2>3, <2>6, <3>1
  <2>10. transcript' \in Messages(Earned')
    BY <1>9, <1>11
  <2> HIDE DEF l
  <2> QED
    BY <1>1, <1>5, <1>6, <1>11, <2>4, <2>6, <2>7, <2>9, <2>10, RunAccount
<1> QED
  BY <1>2, <1>8, <1>10, <1>11

LEMMA AccountInit == Init => Account
<1> SUFFICES ASSUME Init PROVE Account
  OBVIOUS
<1>1. transcript \in Messages(Earned)
  BY EmptySeq DEF Init, Messages
<1>2. run \in [RunIds -> Locals(Earned)]
  BY NoRunTyped DEF Init
<1> QED
  BY <1>1, <1>2 DEF Init, Account, Live

\* The user's calls keep the account: a prompt starts a run with the transcript.
LEMMA UserAccount ==
    ASSUME Control, Account, UserStep \/ UNCHANGED vars PROVE Account'
<1>1. CASE SendMessage
  <2> DEFINE n == sent + 1
             l == Turn(transcript', 1)
  <2>1. n \in RunIds
    BY <1>1, BoundsAssumption DEF SendMessage, Control, RunIds, BoundsAssumption
  <2>2. Earned' = Earned
    BY <1>1 DEF SendMessage, Earned, Recorded
  <2>3. transcript' \in Messages(Earned')
    <3>1. UserId(n) \in MessageIds /\ transcript \in Messages(Earned)
      BY <2>1 DEF MessageIds, Account
    <3>2. transcript' = Append(transcript, Message(UserId(n), {}))
      BY <1>1 DEF SendMessage
    <3> HIDE DEF n
    <3> QED
      BY <2>2, <3>1, <3>2, AppendTyped
  <2>4. 1 \in 1 .. MaxLocalTurns /\ 1 \in 0 .. MaxLocalTurns
    BY BoundsAssumption DEF BoundsAssumption
  <2>5. l \in Locals(Earned') /\ l.turn = 1
    BY <2>3, <2>4, NoRunTyped DEF Turn, Locals
  <2>6. /\ pc' = [pc EXCEPT ![n] = "streaming"] /\ run' = [run EXCEPT ![n] = l]
        /\ UNCHANGED <<executed, approvals>>
    BY <1>1 DEF SendMessage
  <2>7. approvals \subseteq MadeCall /\ executed \subseteq Handled
    BY DEF Account
  <2> HIDE DEF n, l
  <2> QED
    BY <2>1, <2>3, <2>4, <2>5, <2>6, <2>7, RunAccount
<1>2. CASE SendUnbacked
  <2> DEFINE n == sent + 1
  <2>0. n \in RunIds
    BY <1>2, BoundsAssumption DEF SendUnbacked, Control, RunIds, BoundsAssumption
  <2>1. UserId(n) \in MessageIds
    BY <2>0 DEF MessageIds
  <2>2. transcript' \in Messages(Earned)
    BY <1>2, <2>1, AppendTyped DEF SendUnbacked, Account
  <2> QED
    BY <1>2, <2>2 DEF SendUnbacked, Account, Earned, Recorded, Handled, CallOf, Live
<1>3. CASE Reset
  <2>1. transcript' \in Messages(Earned)
    BY <1>3, EmptySeq DEF Reset, Messages
  <2> QED
    BY <1>3, <2>1 DEF Reset, Account, Earned, Recorded, Handled, CallOf, Live
<1>4. CASE Stop \/ ClearLayout \/ UNCHANGED vars
  BY <1>4 DEF Stop, ClearLayout, vars, chatVars, Account, Earned, Recorded, Handled, CallOf, Live
<1> QED
  BY <1>1, <1>2, <1>3, <1>4 DEF UserStep

\* A handler's answer joins the earned ones.
LEMMA ReturnEarned ==
    ASSUME Control, Account, NEW r \in RunIds, pc[r] = "handler",
           NEW status \in {"result", "error"}
    PROVE  LET answer == Shown(run[r].completed[run[r].next], status)
           IN  Kept(run[r].out, {answer}) \cup {answer} \in SUBSET Earned
<1> DEFINE n == run[r].next
           calls == run[r].completed
           answer == Shown(calls[n], status)
<1>1. n \in Nat /\ run[r].out \subseteq Earned /\ CallOf(r, calls[n]) \in executed
  BY DEF Account, Locals
<1>2. calls[n] \in Done
  <2>1. calls \in Seq(Done) /\ n \in DOMAIN calls
    BY DEF Account, Locals, Done
  <2> HIDE DEF calls, n
  <2> QED
    BY <2>1, Indexes
<1>3. Recorded(answer, executed)
  BY <1>1 DEF Recorded, CallOf, Shown
<1>4. answer \in Earned
  <2>1. answer \in Call /\ answer.status # "queued"
    BY <1>2 DEF Call, Done, Shown
  <2> HIDE DEF answer
  <2> QED
    BY <1>3, <2>1 DEF Earned
<1> QED
  BY <1>1, <1>4 DEF Kept

LEMMA RunStepAccount ==
    ASSUME Control, Account, NEW r \in RunIds, RunStep(r) PROVE Account'
<1>0. approvals \subseteq MadeCall /\ transcript \in Messages(Earned)
  BY DEF Account
<1>1. ASSUME NEW p \in {"erring", "leaving"}, pc' = [pc EXCEPT ![r] = p], Live(r),
             UNCHANGED <<run, executed, approvals>>,
             transcript' = transcript \/ transcript' = run[r].msgs
      PROVE  Account'
  <2>1. Earned' = Earned
    BY <1>1 DEF Earned, Recorded
  <2>2. run[r].msgs \in Messages(Earned) /\ run[r] \in Locals(Earned)
        /\ run[r].turn \in 1 .. MaxLocalTurns
    BY <1>1 DEF Account, Locals
  <2>3. run' = [run EXCEPT ![r] = run[r]]
    BY <1>1 DEF Account
  <2>4. executed \subseteq Handled
    BY DEF Account
  <2> QED
    BY <1>0, <1>1, <2>1, <2>2, <2>3, <2>4, RunAccount
<1>2. CASE RunErrorEvent(r)
  BY <1>1, <1>2, EventLocals DEF RunErrorEvent, Live
<1>5. CASE EventAfterAbort(r)
  BY <1>1, <1>5 DEF EventAfterAbort, chatVars, Live
<1>6. CASE ErrorShown(r)
  <2>1. run[r].msgs \in Messages(Earned) /\ run[r].turn \in 1 .. MaxLocalTurns
    BY <1>6 DEF ErrorShown, Account, Live, Locals
  <2>2. ErrorId(r, run[r].turn) \in MessageIds
    BY <2>1 DEF MessageIds
  <2>3. transcript' \in Messages(Earned)
    BY <1>6, <2>1, <2>2, AppendTyped DEF ErrorShown
  <2>4. Earned' = Earned /\ UNCHANGED <<executed, approvals>> /\ Settle(r, "finished")
    BY <1>6 DEF ErrorShown, Earned, Recorded
  <2> QED
    BY <1>0, <2>3, <2>4, SettleAccount
<1>7. CASE AbortThrown(r) \/ BackendThrows(r)
  <2>1. /\ Earned' = Earned /\ UNCHANGED <<transcript, executed, approvals>>
        /\ \E how : Settle(r, how)
    BY <1>7 DEF AbortThrown, BackendThrows, Earned, Recorded
  <2> QED
    BY <1>0, <2>1, SettleAccount
<1>3. CASE StreamEnd(r)
  BY <1>3, DispatchAccount DEF StreamEnd, Live
<1>4. ASSUME NEW status \in {"result", "error"}, HandlerReturns(r, status) PROVE Account'
  <2> DEFINE n == run[r].next
             calls == run[r].completed
             answer == Shown(calls[n], status)
             out == Kept(run[r].out, {answer}) \cup {answer}
  <2>1. pc[r] = "handler" /\ Live(r) /\ Dispatch(r, n + 1, out)
    BY <1>4 DEF HandlerReturns, Live
  <2>2. n \in Nat /\ out \in SUBSET Earned
    BY <1>4, <2>1, ReturnEarned DEF Account, Locals
  <2> HIDE DEF out, n
  <2> QED
    BY <2>1, <2>2, DispatchAccount
<1> QED
  BY <1>2, <1>3, <1>4, <1>5, <1>6, <1>7, EventAccount DEF RunStep, StreamStep

LEMMA AccountSpec == Spec => []Account
<1>1. Control /\ Account /\ [Next]_vars => Account'
  BY UserAccount, RunStepAccount DEF Next
<1> QED
  BY ControlInit, ControlStep, AccountInit, <1>1, PTL DEF Spec

LEMMA EarnedMessages ==
    ASSUME NEW msgs \in Messages(Earned), NEW i \in DOMAIN msgs, NEW c \in msgs[i].calls
    PROVE  c \in Earned
<1>1. msgs \in Seq([id : MessageIds, calls : SUBSET Earned])
  BY DEF Messages
<1>2. msgs[i] \in [id : MessageIds, calls : SUBSET Earned]
  BY <1>1, Indexes
<1> QED
  BY <1>2

\* An answer of the browser was earned, and a call that needs a sign-off never
\* reaches its handler, for every set of tools, order of events and interleaving of
\* runs, and whatever ids backends give to calls and results they send for them.
THEOREM AnswersEarned == Spec => []AnswersAreEarned
<1>1. Account => AnswersAreEarned
  <2> SUFFICES ASSUME Account PROVE AnswersAreEarned
    OBVIOUS
  <2>1. transcript \in Messages(Earned) /\ \A r \in RunIds : run[r].msgs \in Messages(Earned)
    BY DEF Account, Locals
  <2>2. \A m \in executed : m.tool \notin GuardedTools
    BY DEF Account, Handled
  <2>3. \A msgs \in Messages(Earned) : \A i \in DOMAIN msgs : \A c \in msgs[i].calls : c \in Earned
    BY EarnedMessages
  <2> QED
    BY <2>1, <2>2, <2>3 DEF AnswersAreEarned, Earned
<1> QED
  BY <1>1, AccountSpec, PTL

\* Types of the variables no other invariant mentions.
SignalsOK ==
    /\ isLoading \in BOOLEAN
    /\ lastError \in {"none", "noBackend", "failed"}
    /\ activeLayout \in 0 .. MaxSends
    /\ resetAt \in 0 .. MaxSends

LEMMA SignalsStep == Control /\ SignalsOK /\ [Next]_vars => SignalsOK'
<1> SUFFICES ASSUME Control, SignalsOK, [Next]_vars PROVE SignalsOK'
  OBVIOUS
<1> USE BoundsAssumption DEF BoundsAssumption
<1>1. CASE UserStep
  <2>1. isLoading' = isLoading \/ isLoading' = TRUE \/ isLoading' = FALSE
    BY <1>1 DEF UserStep, SendMessage, SendUnbacked, Stop, Reset, ClearLayout
  <2>2. isLoading' \in BOOLEAN
    BY <2>1 DEF SignalsOK
  <2>3. lastError' \in {"none", "noBackend", "failed"}
    BY <1>1 DEF UserStep, SendMessage, SendUnbacked, Stop, Reset, ClearLayout, SignalsOK
  <2>4. activeLayout' \in 0 .. MaxSends /\ resetAt' \in 0 .. MaxSends
    BY <1>1 DEF UserStep, SendMessage, SendUnbacked, Stop, Reset, ClearLayout, SignalsOK, Control
  <2> QED
    BY <2>2, <2>3, <2>4 DEF SignalsOK
<1>2. ASSUME NEW r \in RunIds, RunStep(r) PROVE SignalsOK'
  <2>1. Shape(r)
    BY <1>2, StepShape
  <2>2. isLoading' \in BOOLEAN
    <3>1. isLoading' = isLoading \/ isLoading' = FALSE
      BY <2>1 DEF Shape, GoesOn, Settles
    <3> QED
      BY <3>1 DEF SignalsOK
  <2>4. activeLayout' \in 0 .. MaxSends /\ resetAt' \in 0 .. MaxSends
    BY <2>1 DEF Shape, SignalsOK, RunIds
  <2>3. lastError' \in {"none", "noBackend", "failed"}
    BY <1>2 DEF SignalsOK, RunStep, StreamStep, TextDelta, WidgetRender, ToolCallStart, ToolCallEnd,
       ToolCallResult, LayoutRender, OtherEvent, RunErrorEvent, ErrorShown, EventAfterAbort,
       AbortThrown, BackendThrows, chatVars, StreamEnd, HandlerReturns, Dispatch, EndTurn, Publish, Settle
  <2> QED
    BY <2>2, <2>3, <2>4 DEF SignalsOK
<1>3. CASE UNCHANGED vars
  BY <1>3 DEF vars, chatVars, SignalsOK
<1> QED
  BY <1>1, <1>2, <1>3 DEF Next

\* Every variable keeps its type; no run takes more turns than maxLocalTurns.
THEOREM TypesOK == Spec => []TypeOK
<1>1. Init => SignalsOK
  <2>1. 0 \in 0 .. MaxSends
    BY BoundsAssumption DEF BoundsAssumption
  <2> QED
    BY <2>1 DEF Init, SignalsOK
<1>2. Control /\ Account /\ SignalsOK => TypeOK
  <2> SUFFICES ASSUME Control, Account, SignalsOK PROVE TypeOK
    OBVIOUS
  <2>1. Earned \subseteq Call
    BY DEF Earned
  <2>2. transcript \in Messages(Call) /\ run \in [RunIds -> Locals(Call)]
    BY <2>1, MessagesMonotonic, LocalsMonotonic DEF Account
  <2> QED
    BY <2>2 DEF TypeOK, Control, Account, Handled, SignalsOK, PCs
<1> QED
  BY ControlInit, ControlStep, AccountSpec, SignalsStep, <1>1, <1>2, PTL DEF Spec

----------------------------------------------------------------------------
(* What the next turn is given.                                            *)

LEMMA Least == ASSUME NEW S \in SUBSET Nat, S # {} PROVE \E i \in S : \A j \in S : i <= j
<1> DEFINE R == {ss \in Nat \X Nat : ss[1] < ss[2]}
<1>1. IsWellFoundedOn(R, Nat)
  BY NatLessThanWellFounded DEF OpToRel
<1>2. PICK i \in S : \A j \in S : <<j, i>> \notin R
  <2> HIDE DEF R
  <2> QED
    BY <1>1, WFMin
<1>3. ASSUME NEW j \in S PROVE i <= j
  <2>1. ~(j < i) /\ i \in Nat /\ j \in Nat
    BY <1>2
  <2> QED
    BY <2>1
<1> QED
  BY <1>3

LEMMA Greatest ==
    ASSUME NEW n \in Nat, NEW S \in SUBSET (0 .. n), S # {}
    PROVE  \E i \in S : \A j \in S : j <= i
<1> DEFINE T == {n - i : i \in S}
<1>1. T \in SUBSET Nat /\ T # {}
  <2>1. \A i \in S : n - i \in Nat
    OBVIOUS
  <2>2. PICK i \in S : TRUE
    OBVIOUS
  <2> QED
    BY <2>1, <2>2
<1>2. PICK k \in T : \A j \in T : k <= j
  <2> HIDE DEF T
  <2> QED
    BY <1>1, Least
<1>3. PICK i \in S : k = n - i
  BY <1>2
<1>4. ASSUME NEW j \in S PROVE j <= i
  <2>1. n - j \in T
    OBVIOUS
  <2>2. n - i <= n - j
    <3> HIDE DEF T
    <3> QED
      BY <1>2, <1>3, <2>1
  <2>3. i \in Nat /\ j \in Nat
    OBVIOUS
  <2> QED
    BY <2>2, <2>3
<1> QED
  BY <1>4

\* An answer of run r's turn, when executed and approvals are ex and ap.
Given(r, c, ex, ap) ==
    \/ c.status = "error"
    \/ c.status = "result" /\ CallOf(r, c) \in ex
    \/ c.status = "queued" /\ CallOf(r, c) \in ap

\* out answers the first n completed calls of run r, each id once.
Answers(r, out, n, ex, ap) ==
    /\ \A c, d \in out : c.id = d.id => c = d
    /\ \A c \in out : Given(r, c, ex, ap)
    /\ \A i \in 1 .. n : i \in DOMAIN run[r].completed /\ IsClient(run[r].completed[i]) =>
           \E c \in out : c.id = run[r].completed[i].id

TurnInv ==
    \A r \in RunIds : pc[r] = "handler" =>
        Answers(r, run[r].out, run[r].next - 1, executed, approvals)

\* A run goes through the calls from index from to before stop.
LEMMA AnswersGrow ==
    ASSUME NEW r \in RunIds, NEW out, NEW from \in Nat \ {0}, NEW stop \in Nat, from <= stop,
           NEW ex, NEW ap, NEW ex2, NEW ap2, ex \subseteq ex2, ap \subseteq ap2,
           Answers(r, out, from - 1, ex, ap),
           \A i \in from .. stop - 1 :
               IsGuarded(run[r].completed[i]) => CallOf(r, run[r].completed[i]) \in ap2
    PROVE  Answers(r, AnswersWith(r, out, {i \in from .. stop - 1 : IsClient(run[r].completed[i])}),
                   stop - 1, ex2, ap2)
<1> DEFINE calls == run[r].completed
           S == {i \in from .. stop - 1 : IsClient(calls[i])}
           last == {i \in S : \A j \in S : j > i => calls[j].id # calls[i].id}
           later == {Immediate(calls[i]) : i \in last}
           all == AnswersWith(r, out, S)
<1>0. all = Kept(out, later) \cup later
  BY DEF AnswersWith
<1>1. \A i : Immediate(calls[i]).id = calls[i].id
  BY DEF Immediate, Shown
<1>2. ASSUME NEW i \in S PROVE \E c \in later : c.id = calls[i].id
  <2> DEFINE same == {j \in S : calls[j].id = calls[i].id}
  <2>1. same \in SUBSET (0 .. stop) /\ same # {}
    <3> HIDE DEF calls
    <3> QED
      OBVIOUS
  <2>2. PICK j \in same : \A k \in same : k <= j
    <3> HIDE DEF same
    <3> QED
      BY <2>1, Greatest
  <2>3. j \in last
    <3>1. j \in S /\ calls[j].id = calls[i].id
      OBVIOUS
    <3>2. ASSUME NEW k \in S, k > j PROVE calls[k].id # calls[j].id
      <4> HIDE DEF calls
      <4> QED
        BY <2>2, <3>1, <3>2
    <3> QED
      BY <3>1, <3>2
  <2> HIDE DEF S, calls
  <2> QED
    BY <1>1, <2>2, <2>3
<1>3. \A c, d \in later : c.id = d.id => c = d
  <2> SUFFICES ASSUME NEW i \in last, NEW j \in last, calls[i].id = calls[j].id PROVE i = j
    BY <1>1
  <2> HIDE DEF calls
  <2>1. ~(i < j) /\ ~(j < i) /\ i \in Int /\ j \in Int
    OBVIOUS
  <2> QED
    BY <2>1
<1>4. ASSUME NEW c \in later PROVE Given(r, c, ex2, ap2)
  <2>1. PICK i \in last : c = Immediate(calls[i])
    OBVIOUS
  <2>2. CASE IsGuarded(calls[i])
    <3>1. CallOf(r, calls[i]) \in ap2
      BY <2>2
    <3>2. c.status = "queued" /\ CallOf(r, c) = CallOf(r, calls[i])
      BY <2>1, <2>2 DEF Immediate, Shown, CallOf
    <3> QED
      BY <3>1, <3>2 DEF Given
  <2>3. CASE ~IsGuarded(calls[i])
    BY <2>1, <2>3 DEF Immediate, Shown, Given
  <2> QED
    BY <2>2, <2>3
<1> HIDE DEF all, later
<1>5. \A c, d \in all : c.id = d.id => c = d
  BY <1>0, <1>3 DEF Answers, Kept
<1>6. \A c \in all : Given(r, c, ex2, ap2)
  BY <1>0, <1>4 DEF Answers, Kept, Given
<1>7. ASSUME NEW i \in 1 .. stop - 1, i \in DOMAIN calls, IsClient(calls[i])
      PROVE  \E c \in all : c.id = calls[i].id
  <2>1. CASE i < from
    <3>1. PICK c \in out : c.id = calls[i].id
      BY <1>7, <2>1 DEF Answers
    <3>2. CASE c \in Kept(out, later)
      BY <1>0, <3>1, <3>2
    <3>3. CASE c \notin Kept(out, later)
      BY <1>0, <3>1, <3>3 DEF Kept
    <3> QED
      BY <3>2, <3>3
  <2>2. CASE i >= from
    <3>1. i \in S
      BY <1>7, <2>2
    <3> HIDE DEF calls, S
    <3> QED
      BY <1>0, <1>2, <3>1
  <2> QED
    BY <2>1, <2>2
<1> HIDE DEF calls, S
<1>8. Answers(r, all, stop - 1, ex2, ap2)
  BY <1>5, <1>6, <1>7 DEF Answers, calls
<1> QED
  BY <1>8 DEF all, S, calls

\* The message that takes the answers of a turn has each of them, and no other
\* version of the call.
LEMMA TurnMessageHolds ==
    ASSUME NEW S, NEW msgs \in Messages(S), NEW id \in MessageIds, NEW calls \in SUBSET S
    PROVE  LET m == Attach(msgs, id, calls)[IndexOf(Attach(msgs, id, calls), id)]
           IN  m.calls = calls \/ \E old : m.calls = Kept(old, calls) \cup calls
<1> DEFINE M == [id : MessageIds, calls : SUBSET S]
           att == Attach(msgs, id, calls)
<1>1. msgs \in Seq(M)
  BY DEF Messages
<1>2. CASE Has(msgs, id)
  <2> DEFINE k == IndexOf(msgs, id)
             m == [msgs[k] EXCEPT !.calls = Kept(@, calls) \cup calls]
  <2>1. k \in DOMAIN msgs /\ msgs[k].id = id
    BY <1>2 DEF Has, IndexOf
  <2>2. att = [msgs EXCEPT ![k] = m]
    BY <1>2 DEF Attach
  <2>3. msgs[k] \in M
    BY <1>1, <2>1, Indexes
  <2>4. m.id = id /\ m.calls = Kept(msgs[k].calls, calls) \cup calls
    BY <2>1, <2>3
  <2> HIDE DEF m, k
  <2>5. DOMAIN att = DOMAIN msgs /\ att[k] = m
    BY <1>1, <2>1, <2>2
  <2>6. \A i \in DOMAIN msgs : att[i].id = id <=> msgs[i].id = id
    BY <1>1, <2>1, <2>2, <2>4, <2>5
  <2> HIDE DEF att
  <2>7. IndexOf(att, id) = k
    BY <2>5, <2>6 DEF IndexOf, k
  <2> QED
    BY <2>4, <2>5, <2>7 DEF att
<1>3. CASE ~Has(msgs, id)
  <2>1. att = Append(msgs, Message(id, calls)) /\ Message(id, calls) \in M
    BY <1>3 DEF Attach, Message
  <2>2. Len(msgs) \in Nat /\ DOMAIN msgs = 1 .. Len(msgs)
    BY <1>1
  <2> HIDE DEF att, M
  <2>3. /\ DOMAIN att = 1 .. Len(msgs) + 1
        /\ \A i \in 1 .. Len(msgs) : att[i] = msgs[i]
        /\ att[Len(msgs) + 1] = Message(id, calls)
    <3>1. Len(att) = Len(msgs) + 1 /\ att \in Seq(M)
      BY <1>1, <2>1, AppendProperties
    <3> QED
      BY <1>1, <2>1, <2>2, <3>1, AppendProperties
  <2>4. \A i \in DOMAIN att : att[i].id = id <=> i = Len(msgs) + 1
    <3>1. ASSUME NEW i \in DOMAIN att, att[i].id = id PROVE i = Len(msgs) + 1
      BY <1>3, <2>2, <2>3, <3>1 DEF Has
    <3>2. att[Len(msgs) + 1].id = id
      BY <2>3 DEF Message
    <3> QED
      BY <3>1, <3>2
  <2>5. IndexOf(att, id) = Len(msgs) + 1
    BY <2>2, <2>3, <2>4 DEF IndexOf
  <2> QED
    BY <2>3, <2>5 DEF Message, att
<1> QED
  BY <1>2, <1>3

\* What NextTurnIsAnswered says of a step of run r.
Answered(r, i, msgs, ex, ap) ==
    LET of == {c \in TurnMessage(r, msgs).calls : c.id = run[r].completed[i].id}
    IN  \E c \in of : of = {c} /\ Given(r, c, ex, ap)

LEMMA EndTurnAnswers ==
    ASSUME Control, Account, NEW r \in RunIds, Live(r), NEW out \in SUBSET Earned',
           executed \subseteq executed', approvals \subseteq approvals',
           NEW n, \A i \in DOMAIN run[r].completed : i \in 1 .. n,
           Answers(r, out, n, executed', approvals'), EndTurn(r, out), run'[r].turn = run[r].turn + 1,
           NEW i \in DOMAIN run[r].completed, IsClient(run[r].completed[i])
    PROVE  Answered(r, i, run'[r].msgs, executed', approvals')
<1> DEFINE id == ActiveOr(r, AnswerId(r, run[r].turn))
           msgs == Attach(run[r].msgs, id, out)
<1>1. run[r].turn \in 1 .. MaxLocalTurns /\ run[r].msgs \in Messages(Earned)
  BY DEF Account, Locals
<1>2. id \in MessageIds
  <2>1. AnswerId(r, run[r].turn) \in MessageIds
    BY <1>1 DEF MessageIds
  <2> QED
    BY <2>1, ActiveTyped
<1>3. run[r].msgs \in Messages(Earned')
  BY <1>1, EarnedMonotonic, MessagesMonotonic
<1>4. run'[r].msgs = msgs
  <2>1. CASE \E how : Settle(r, how)
    <3>1. run'[r].turn = 0
      BY <2>1 DEF Settle, Account, NoRun
    <3> QED
      BY <1>1, <3>1
  <2>2. CASE run' = [run EXCEPT ![r] = Turn(msgs, run[r].turn + 1)]
    BY <2>2 DEF Account, Turn, NoRun
  <2> QED
    BY <2>1, <2>2 DEF EndTurn
<1> HIDE DEF id
<1>5. \/ TurnMessage(r, msgs).calls = out
      \/ \E old : TurnMessage(r, msgs).calls = Kept(old, out) \cup out
  <2>1. LET m == msgs[IndexOf(msgs, id)]
        IN  m.calls = out \/ \E old : m.calls = Kept(old, out) \cup out
    BY <1>2, <1>3, TurnMessageHolds
  <2> QED
    BY <2>1 DEF TurnMessage, id
<1>6. PICK c \in out : c.id = run[r].completed[i].id
  BY DEF Answers
<1>7. {d \in TurnMessage(r, msgs).calls : d.id = run[r].completed[i].id} = {c}
  <2> HIDE DEF msgs
  <2> QED
    BY <1>5, <1>6 DEF Kept, Answers
<1> QED
  BY <1>4, <1>6, <1>7 DEF Answered, Answers

\* A step along the completed calls answers those it passes.
LEMMA DispatchAnswers ==
    ASSUME Control, Account, NEW r \in RunIds, Live(r), NEW from \in Nat \ {0},
           NEW out \in SUBSET Earned, Answers(r, out, from - 1, executed, approvals),
           Dispatch(r, from, out)
    PROVE  /\ pc'[r] = "handler" =>
                  Answers(r, run[r].out, run[r].next - 1, executed, approvals)'
           /\ run'[r].turn = run[r].turn + 1 =>
                  \A i \in DOMAIN run[r].completed : IsClient(run[r].completed[i]) =>
                      Answered(r, i, run'[r].msgs, executed', approvals')
<1> DEFINE calls == run[r].completed
           S(stop) == {i \in from .. stop - 1 : IsClient(calls[i])}
<1>1. PICK stop \in from .. Len(calls) + 1 :
        /\ approvals' = approvals \cup
                {CallOf(r, calls[i]) : i \in {j \in from .. stop - 1 : IsGuarded(calls[j])}}
        /\ \/ /\ stop > Len(calls)
              /\ EndTurn(r, AnswersWith(r, out, S(stop))) /\ UNCHANGED executed
           \/ Settle(r, "aborted") /\ UNCHANGED <<transcript, executed>>
           \/ /\ stop <= Len(calls)
              /\ pc' = [pc EXCEPT ![r] = "handler"]
              /\ run' = [run EXCEPT ![r].next = stop, ![r].out = AnswersWith(r, out, S(stop))]
              /\ executed' = executed \cup {CallOf(r, calls[stop])}
  BY DEF Dispatch
<1>2. calls \in Seq(Done) /\ Len(calls) \in Nat /\ DOMAIN calls = 1 .. Len(calls)
  <2>1. calls \in Seq(Done)
    BY DEF Account, Locals, Done
  <2> HIDE DEF calls
  <2> QED
    BY <2>1
<1>3. stop \in Nat /\ from <= stop
  BY <1>2
<1>4. executed \subseteq executed' /\ approvals \subseteq approvals'
  BY <1>1
<1>5. \A i \in from .. stop - 1 : IsGuarded(calls[i]) => CallOf(r, calls[i]) \in approvals'
  BY <1>1
<1>6. Answers(r, AnswersWith(r, out, S(stop)), stop - 1, executed', approvals')
  BY <1>3, <1>4, <1>5, AnswersGrow
<1> DEFINE all == AnswersWith(r, out, S(stop))
<1> HIDE DEF all
<1>7. CASE stop > Len(calls) /\ EndTurn(r, all) /\ UNCHANGED executed
  <2>1. pc'[r] # "handler"
    BY <1>7 DEF EndTurn, Settle, Control
  <2>2. all \in SUBSET Earned'
    <3>1. ASSUME NEW i \in S(stop) PROVE Immediate(calls[i]) \in Earned'
      <4>1. i \in from .. stop - 1 /\ i \in 1 .. Len(calls)
        BY <1>2, <1>3
      <4>2. calls[i] \in Done
        <5> HIDE DEF calls
        <5> QED
          BY <1>2, <4>1, ElementOfSeq
      <4>3. Immediate(calls[i]) \in Call
        <5> HIDE DEF calls
        <5> QED
          BY <4>2 DEF Immediate, Shown, Done, Call
      <4>4. Immediate(calls[i]).status = "queued" => CallOf(r, calls[i]) \in approvals'
        BY <1>5, <4>1 DEF Immediate, Shown
      <4>5. /\ Immediate(calls[i]).status # "result"
            /\ Immediate(calls[i]).id = CallOf(r, calls[i]).id
            /\ Immediate(calls[i]).tool = CallOf(r, calls[i]).tool
        BY DEF Immediate, Shown, CallOf
      <4> QED
        BY <4>3, <4>4, <4>5 DEF Earned, Recorded
    <3>2. out \subseteq Earned'
      BY <1>4, EarnedMonotonic
    <3> QED
      BY <3>1, <3>2, AnswersTyped DEF all
  <2>3. \A i \in DOMAIN calls : i \in 1 .. stop - 1
    BY <1>2, <1>3, <1>7
  <2>4. Answers(r, all, stop - 1, executed', approvals')
    BY <1>6 DEF all
  <2> QED
    BY <1>4, <1>7, <2>1, <2>2, <2>3, <2>4, EndTurnAnswers
<1>8. CASE Settle(r, "aborted")
  <2>1. pc'[r] = "settled" /\ run'[r].turn = 0
    BY <1>8 DEF Settle, Control, Account, NoRun
  <2>2. run[r].turn \in Nat
    BY DEF Account, Locals
  <2> QED
    BY <2>1, <2>2
<1>9. CASE run' = [run EXCEPT ![r].next = stop, ![r].out = all]
  <2>1. /\ run'[r].next = stop /\ run'[r].out = all /\ run'[r].turn = run[r].turn
        /\ run'[r].completed = calls
    BY <1>9 DEF Account, Locals
  <2>2. Answers(r, run[r].out, run[r].next - 1, executed, approvals)'
    <3>1. Answers(r, all, stop - 1, executed', approvals')
      BY <1>6 DEF all
    <3>2. \A c : CallOf(r, c)' = [run |-> r, turn |-> run[r].turn, id |-> c.id, tool |-> c.tool]
      BY <2>1 DEF CallOf
    <3> HIDE DEF calls
    <3> QED
      BY <2>1, <3>1, <3>2 DEF Answers, Given, CallOf, IsClient, calls
  <2>3. run[r].turn \in Nat
    BY DEF Account, Locals
  <2> QED
    BY <2>1, <2>2, <2>3
<1> QED
  BY <1>1, <1>7, <1>8, <1>9 DEF all

\* Handlers' calls and approvals are only added to; and only a stream's end or a
\* handler's return goes on to a turn or to a handler.
LEMMA OtherSteps ==
    ASSUME Control, Account, NEW r \in RunIds, RunStep(r)
    PROVE  \/ StreamEnd(r)
           \/ \E status \in {"result", "error"} : HandlerReturns(r, status)
           \/ /\ pc'[r] # "handler" /\ UNCHANGED <<executed, approvals>>
              /\ run'[r].turn # run[r].turn + 1
<1>1. run[r].turn \in Nat /\ 0 # run[r].turn + 1
  BY DEF Account, Locals
<1>2. ASSUME NEW l, Publish(r, l), l.turn = run[r].turn, pc[r] = "streaming"
      PROVE  /\ pc'[r] # "handler" /\ UNCHANGED <<executed, approvals>>
             /\ run'[r].turn # run[r].turn + 1
  <2>1. run'[r].turn = run[r].turn
    BY <1>2 DEF Publish, Account
  <2> QED
    BY <1>1, <1>2, <2>1 DEF Publish
<1>3. ASSUME NEW how, Settle(r, how)
      PROVE  pc'[r] # "handler" /\ run'[r].turn # run[r].turn + 1
  BY <1>1, <1>3 DEF Settle, Account, Control, NoRun
<1>4. ASSUME NEW p \in {"erring", "leaving"}, pc' = [pc EXCEPT ![r] = p], UNCHANGED run
      PROVE  pc'[r] # "handler" /\ run'[r].turn # run[r].turn + 1
  BY <1>1, <1>4 DEF Control
<1>5. \A l : \/ \E f : l = [run[r] EXCEPT !.msgs = f]
             \/ \E f, g : l = [run[r] EXCEPT !.msgs = f, !.active = g]
             \/ \E f, g : l = [run[r] EXCEPT !.msgs = f, !.pending = g]
             \/ \E f : l = [run[r] EXCEPT !.completed = f]
          => l.turn = run[r].turn
  BY DEF Account, Locals
<1>7. ASSUME NEW kind, Event(kind, r) PROVE pc[r] = "streaming"
  BY <1>7 DEF Event
<1>8. ASSUME NEW m \in MsgIds, TextDelta(r, m) \/ WidgetRender(r, m)
      PROVE  pc'[r] # "handler" /\ UNCHANGED <<executed, approvals>>
             /\ run'[r].turn # run[r].turn + 1
  <2> DEFINE text == [run[r] EXCEPT !.msgs = Attach(@, m, {}), !.active = m]
             widget == [run[r] EXCEPT !.msgs = Attach(@, ActiveOr(r, m), {})]
  <2>1. pc[r] = "streaming" /\ (Publish(r, text) \/ Publish(r, widget))
    BY <1>7, <1>8 DEF TextDelta, WidgetRender
  <2>2. text.turn = run[r].turn /\ widget.turn = run[r].turn
    BY <1>5
  <2> HIDE DEF text, widget
  <2> QED
    BY <1>2, <2>1, <2>2
<1>9. ASSUME NEW id \in CallIds, NEW tool \in Tools, ToolCallStart(r, id, tool)
      PROVE  pc'[r] # "handler" /\ UNCHANGED <<executed, approvals>>
             /\ run'[r].turn # run[r].turn + 1
  <2> DEFINE call == [id |-> id, tool |-> tool]
             l == [run[r] EXCEPT !.msgs = Attach(@, ActiveOr(r, id), {Shown(call, "open")}),
                                 !.pending = Kept(@, {call}) \cup {call}]
  <2>1. pc[r] = "streaming" /\ Publish(r, l)
    BY <1>7, <1>9 DEF ToolCallStart
  <2>2. l.turn = run[r].turn
    BY <1>5
  <2> HIDE DEF l
  <2> QED
    BY <1>2, <2>1, <2>2
<1>10. ASSUME NEW id \in CallIds, NEW ok \in BOOLEAN, ToolCallEnd(r, id, ok)
       PROVE  pc'[r] # "handler" /\ UNCHANGED <<executed, approvals>>
              /\ run'[r].turn # run[r].turn + 1
  <2> DEFINE done(c) == Append(run[r].completed, [id |-> id, tool |-> c.tool, ok |-> ok])
             l(c) == [run[r] EXCEPT !.completed = done(c)]
  <2>1. pc[r] = "streaming" /\ \E c \in run[r].pending : Publish(r, l(c))
    BY <1>7, <1>10 DEF ToolCallEnd
  <2>2. \A c : l(c).turn = run[r].turn
    BY <1>5
  <2> HIDE DEF l
  <2> QED
    BY <1>2, <2>1, <2>2
<1>11. ASSUME NEW id \in CallIds, ToolCallResult(r, id)
       PROVE  pc'[r] # "handler" /\ UNCHANGED <<executed, approvals>>
              /\ run'[r].turn # run[r].turn + 1
  <2> DEFINE msgs == run[r].msgs
             l(i, c) == [run[r] EXCEPT !.msgs = Attach(@, msgs[i].id, {Shown(c, "told")})]
  <2>1. pc[r] = "streaming" /\ \E i \in Holding(msgs, id) : \E c \in msgs[i].calls : Publish(r, l(i, c))
    BY <1>7, <1>11 DEF ToolCallResult
  <2>2. \A i, c : l(i, c).turn = run[r].turn
    BY <1>5
  <2> HIDE DEF l
  <2> QED
    BY <1>2, <2>1, <2>2
<1>12. CASE LayoutRender(r) \/ OtherEvent(r)
  BY <1>2, <1>7, <1>12 DEF LayoutRender, OtherEvent
<1>13. CASE RunErrorEvent(r)
  BY <1>4, <1>13 DEF RunErrorEvent
<1>14. CASE EventAfterAbort(r)
  BY <1>4, <1>14 DEF EventAfterAbort
<1>15. CASE ErrorShown(r) \/ AbortThrown(r) \/ BackendThrows(r)
  BY <1>3, <1>15 DEF ErrorShown, AbortThrown, BackendThrows
<1> QED
  BY <1>2, <1>8, <1>9, <1>10, <1>11, <1>12, <1>13, <1>14, <1>15 DEF RunStep, StreamStep

\* What a run's step makes of its answers.
LEMMA RunAnswers ==
    ASSUME Control, Account, TurnInv, NEW r \in RunIds, RunStep(r)
    PROVE  /\ executed \subseteq executed' /\ approvals \subseteq approvals'
           /\ pc'[r] = "handler" =>
                  Answers(r, run[r].out, run[r].next - 1, executed, approvals)'
           /\ run'[r].turn = run[r].turn + 1 =>
                  \A i \in DOMAIN run[r].completed : IsClient(run[r].completed[i]) =>
                      Answered(r, i, run'[r].msgs, executed', approvals')
<1>1. CASE StreamEnd(r)
  <2>1. Live(r) /\ Dispatch(r, 1, {})
    BY <1>1 DEF StreamEnd, Live
  <2>2. Answers(r, {}, 1 - 1, executed, approvals)
    BY DEF Answers
  <2>3. {} \in SUBSET Earned /\ 1 \in Nat \ {0}
    OBVIOUS
  <2>4. executed \subseteq executed' /\ approvals \subseteq approvals'
    BY <2>1 DEF Dispatch
  <2> QED
    BY <2>1, <2>2, <2>3, <2>4, DispatchAnswers
<1>2. ASSUME NEW status \in {"result", "error"}, HandlerReturns(r, status)
      PROVE  /\ executed \subseteq executed' /\ approvals \subseteq approvals'
             /\ pc'[r] = "handler" =>
                    Answers(r, run[r].out, run[r].next - 1, executed, approvals)'
             /\ run'[r].turn = run[r].turn + 1 =>
                    \A i \in DOMAIN run[r].completed : IsClient(run[r].completed[i]) =>
                        Answered(r, i, run'[r].msgs, executed', approvals')
  <2> DEFINE n == run[r].next
             calls == run[r].completed
             answer == Shown(calls[n], status)
             out == Kept(run[r].out, {answer}) \cup {answer}
  <2>1. pc[r] = "handler" /\ Live(r) /\ Dispatch(r, n + 1, out)
    BY <1>2 DEF HandlerReturns, Live
  <2>2. n \in Nat /\ CallOf(r, calls[n]) \in executed /\ out \in SUBSET Earned
    BY <1>2, ReturnEarned, <2>1 DEF Account, Locals
  <2>3. Answers(r, run[r].out, n - 1, executed, approvals)
    BY <2>1 DEF TurnInv
  <2>4. Given(r, answer, executed, approvals) /\ answer.id = calls[n].id
    BY <1>2, <2>2 DEF Given, Shown, CallOf
  <2>5. Answers(r, out, n + 1 - 1, executed, approvals)
    <3> HIDE DEF answer
    <3>1. \A c, d \in out : c.id = d.id => c = d
      BY <2>3 DEF Answers, Kept
    <3>2. \A c \in out : Given(r, c, executed, approvals)
      BY <2>3, <2>4 DEF Answers, Kept
    <3>3. ASSUME NEW i \in 1 .. n, i \in DOMAIN calls, IsClient(calls[i])
          PROVE  \E c \in out : c.id = calls[i].id
      <4>1. CASE i = n
        BY <2>4, <4>1
      <4>2. CASE i # n
        <5>1. PICK c \in run[r].out : c.id = calls[i].id
          BY <2>2, <2>3, <3>3, <4>2 DEF Answers
        <5> QED
          BY <5>1 DEF Kept
      <4> QED
        BY <4>1, <4>2
    <3>4. n + 1 - 1 = n
      BY <2>2
    <3> HIDE DEF out
    <3> QED
      BY <3>1, <3>2, <3>3, <3>4 DEF Answers
  <2>6. executed \subseteq executed' /\ approvals \subseteq approvals'
    BY <2>1 DEF Dispatch
  <2> HIDE DEF out, n
  <2>7. n + 1 \in Nat \ {0}
    BY <2>2
  <2> QED
    BY <2>1, <2>2, <2>5, <2>6, <2>7, DispatchAnswers
<1>3. CASE /\ pc'[r] # "handler" /\ UNCHANGED <<executed, approvals>>
           /\ run'[r].turn # run[r].turn + 1
  BY <1>3
<1> QED
  BY <1>1, <1>2, <1>3, OtherSteps

\* Of a step of the session: runs that await a handler keep what they answered, and
\* a run that goes on has answered all.
LEMMA TurnStep ==
    ASSUME Control, Account, TurnInv, [Next]_vars
    PROVE  /\ TurnInv'
           /\ \A r \in RunIds : run[r].turn # 0 /\ run'[r].turn = run[r].turn + 1 =>
                  \A i \in DOMAIN run[r].completed : IsClient(run[r].completed[i]) =>
                      Answered(r, i, run'[r].msgs, executed', approvals')
<1>0. \A r \in RunIds : run[r].turn \in Nat /\ run[r].turn # run[r].turn + 1
  BY DEF Account, Locals
<1>1. ASSUME NEW s \in RunIds, pc'[s] = pc[s], run'[s] = run[s],
             executed \subseteq executed', approvals \subseteq approvals'
      PROVE  /\ pc'[s] = "handler" =>
                    Answers(s, run[s].out, run[s].next - 1, executed, approvals)'
             /\ run'[s].turn # run[s].turn + 1
  <2>1. \A c : CallOf(s, c)' = [run |-> s, turn |-> run[s].turn, id |-> c.id, tool |-> c.tool]
    BY <1>1 DEF CallOf
  <2> QED
    BY <1>0, <1>1, <2>1 DEF TurnInv, Answers, Given, CallOf, IsClient
<1>2. CASE SendMessage
  <2>1. PICK n \in RunIds : n = sent + 1
    BY <1>2, BoundsAssumption DEF SendMessage, Control, RunIds, BoundsAssumption
  <2>2. /\ pc' = [pc EXCEPT ![n] = "streaming"] /\ run' = [run EXCEPT ![n] = Turn(transcript', 1)]
        /\ UNCHANGED <<executed, approvals>>
    BY <1>2, <2>1 DEF SendMessage
  <2>3. pc'[n] # "handler" /\ (run[n].turn # 0 => run'[n].turn # run[n].turn + 1)
    <3>1. pc'[n] = "streaming" /\ run'[n].turn = 1
      BY <2>2 DEF Control, Account, Turn, NoRun
    <3> QED
      BY <1>0, <3>1
  <2>4. \A s \in RunIds : s # n => pc'[s] = pc[s] /\ run'[s] = run[s]
    BY <2>2 DEF Control, Account
  <2> QED
    BY <1>1, <2>2, <2>3, <2>4 DEF TurnInv
<1>3. CASE SendUnbacked \/ Stop \/ Reset \/ ClearLayout \/ UNCHANGED vars
  <2>1. UNCHANGED <<pc, run, executed, approvals>>
    BY <1>3 DEF SendUnbacked, Stop, Reset, ClearLayout, vars, chatVars
  <2> QED
    BY <1>1, <2>1 DEF TurnInv
<1>4. ASSUME NEW r \in RunIds, RunStep(r)
      PROVE  /\ TurnInv'
             /\ \A s \in RunIds : run[s].turn # 0 /\ run'[s].turn = run[s].turn + 1 =>
                    \A i \in DOMAIN run[s].completed : IsClient(run[s].completed[i]) =>
                        Answered(s, i, run'[s].msgs, executed', approvals')
  <2>1. Shape(r)
    BY <1>4, StepShape
  <2>2. \A s \in RunIds : s # r => pc'[s] = pc[s] /\ run'[s] = run[s]
    BY <2>1 DEF Shape, GoesOn, Settles, Control
  <2>3. /\ executed \subseteq executed' /\ approvals \subseteq approvals'
        /\ pc'[r] = "handler" =>
               Answers(r, run[r].out, run[r].next - 1, executed, approvals)'
        /\ run'[r].turn = run[r].turn + 1 =>
               \A i \in DOMAIN run[r].completed : IsClient(run[r].completed[i]) =>
                   Answered(r, i, run'[r].msgs, executed', approvals')
    BY <1>4, RunAnswers
  <2> QED
    BY <1>1, <2>2, <2>3 DEF TurnInv
<1> QED
  BY <1>2, <1>3, <1>4 DEF Next, UserStep

\* When a run goes on to its next turn, the message of the last one holds for each
\* client call the backend completed one entry, and it is an error or an answer
\* that this turn's handler or approval record earned: for every set of tools and
\* interleaving of runs, and whatever ids the backend repeats or answers itself.
THEOREM TurnsAnswered == Spec => NextTurnIsAnswered
<1>1. Init => TurnInv
  BY DEF Init, TurnInv
<1>2. Control /\ Account /\ TurnInv /\ [Next]_vars => TurnInv'
  BY TurnStep
<1>3. Control /\ Account /\ TurnInv /\ [Next]_vars =>
        [\A r \in RunIds : run[r].turn # 0 /\ run'[r].turn = run[r].turn + 1 =>
            \A i \in DOMAIN run[r].completed : IsClient(run[r].completed[i]) =>
                LET of == {c \in TurnMessage(r, run'[r].msgs).calls :
                                c.id = run[r].completed[i].id}
                IN  \E c \in of :
                        /\ of = {c}
                        /\ \/ c.status = "error"
                           \/ c.status = "result" /\ CallOf(r, c) \in executed'
                           \/ c.status = "queued" /\ CallOf(r, c) \in approvals']_vars
  BY TurnStep DEF Answered, Given
<1> QED
  BY ControlInit, ControlStep, AccountSpec, <1>1, <1>2, <1>3, PTL DEF Spec, NextTurnIsAnswered
=============================================================================
