----------------------------- MODULE ChatSession -----------------------------
(***************************************************************************)
(* The chat session of the Angular library: the controller returned by     *)
(* injectAgenticChat (chat/inject-agentic-chat.ts) and the run loop it     *)
(* starts for every prompt, runUntilSettled (chat/run-orchestrator.ts).    *)
(*                                                                         *)
(* JavaScript is single threaded: one action is the code between two       *)
(* awaits.  A run suspends at the next event of the backend's stream       *)
(* ("streaming"), at a client tool's handler ("handler"), and where it     *)
(* leaves the loop over events early and awaits the stream's return()      *)
(* ("erring" after a run-error event, "leaving" after an abort); the       *)
(* user's calls (send, stop, reset) and other runs interleave exactly      *)
(* there.  The hop from the end of a run to its then/catch/finally         *)
(* callbacks is a chain of microtasks, in which no user call can come, and *)
(* is one step with the end of the run.                                    *)
(*                                                                         *)
(* The ids of text messages and tool calls are the backend's.  Nothing     *)
(* checks them: an id may come again in a later turn or run, be started or *)
(* ended twice, and name a message and a call at once.                     *)
(*                                                                         *)
(* Text, arguments, results and widget props are abstracted away; what is  *)
(* kept of a message is its identity and the states of its tool calls,     *)
(* without their order.                                                    *)
(***************************************************************************)
EXTENDS Integers, Sequences, FiniteSets

CONSTANTS
    MaxSends,       \* bound: prompts submitted in a behaviour; run n is the n-th
    MaxLocalTurns,  \* maxLocalTurns of AgenticChatOptions
    MaxEvents,      \* bound: events of one backend stream
    MsgIds,         \* ids backends give to text messages and widgets
    CallIds,        \* ids backends give to tool calls
    ClientTools,    \* tools with a handler in the browser
    GuardedTools,   \* those whose approval policy requires a sign-off
    ServerTools,    \* tools only the backend can run
    EventKinds      \* the kinds of event the backends of this instance emit

ASSUME BoundsAssumption ==
    /\ MaxSends \in Nat
    /\ MaxLocalTurns \in Nat \ {0}
    /\ MaxEvents \in Nat

ASSUME ToolsAssumption ==
    /\ GuardedTools \subseteq ClientTools
    /\ ClientTools \cap ServerTools = {}

VARIABLES
    transcript,    \* `messages`: the signal the chat shell renders
    isLoading,     \* the spinner
    lastError,     \* "none", "noBackend" or "failed"
    activeLayout,  \* the run whose layout is shown, 0 when null
    controller,    \* the run whose AbortController is the current one, 0 when undefined
    sent,          \* prompts submitted so far
    pc,            \* where each run is suspended
    aborted,       \* each run's AbortSignal
    run,           \* each run's local state
    approvals,     \* calls put in the ApprovalRegistry, with run and turn
    executed,      \* history: calls whose handler was invoked, with run and turn
    resetAt        \* history: value of `sent` at the last reset

chatVars == <<transcript, isLoading, lastError, activeLayout, controller, sent>>
vars == <<chatVars, pc, aborted, run, approvals, executed, resetAt>>

RunIds == 1 .. MaxSends
Tools  == ClientTools \cup ServerTools
Live(r) == pc[r] \in {"streaming", "erring", "leaving", "handler"}

----------------------------------------------------------------------------
(* Messages (chat/message-utils.ts).  A message has an id of the backend's *)
(* or one the browser draws: for a prompt, for the answers of a turn that  *)
(* has no message yet, and for an error.                                   *)

UserId(n)      == <<"user", n, 0>>
AnswerId(r, t) == <<"answer", r, t>>
ErrorId(r, t)  == <<"error", r, t>>

Message(id, calls) == [id |-> id, calls |-> calls]

\* A tool call as a message shows it: open, or answered by its handler (a result
\* or an error), by a card of the approval queue, or by the backend ("told").
Shown(c, status) == [id |-> c.id, tool |-> c.tool, status |-> status]

\* Messages of the list that hold a call with this id.
Holding(msgs, call) ==
    {i \in DOMAIN msgs : \E c \in msgs[i].calls : c.id = call}

\* The list has a message with this id, and where: as messages are made only for
\* ids the list does not have or that are fresh, there is one at most.
Has(msgs, id) == \E i \in DOMAIN msgs : msgs[i].id = id
IndexOf(msgs, id) == CHOOSE i \in DOMAIN msgs : msgs[i].id = id

\* attachToolCall for each of calls: the message with this id takes a call over
\* from an earlier version of it, and is created when missing.
AttachKeepingStale(msgs, id, calls) ==  \* faulty: the earlier version stays
    IF Has(msgs, id)
    THEN [msgs EXCEPT ![IndexOf(msgs, id)].calls = @ \cup calls]
    ELSE Append(msgs, Message(id, calls))

\* The calls of old that calls gives no new version of.
Kept(old, calls) == {c \in old : \A d \in calls : d.id # c.id}

Attach(msgs, id, calls) ==
    IF Has(msgs, id)
    THEN [msgs EXCEPT ![IndexOf(msgs, id)].calls = Kept(@, calls) \cup calls]
    ELSE Append(msgs, Message(id, calls))

----------------------------------------------------------------------------
(* Initial state of the session, and of a run's locals.                    *)

NoRun == [msgs |-> <<>>, turn |-> 0, events |-> 0, active |-> <<>>, pending |-> {},
          completed |-> <<>>, next |-> 0, out |-> {}]

\* The locals at the start of a turn: the loop body redeclares them.
TurnUncounted(msgs, t) ==  \* faulty: turnsRemaining is not decremented
    [NoRun EXCEPT !.msgs = msgs, !.turn = 1]

Turn(msgs, t) == [NoRun EXCEPT !.msgs = msgs, !.turn = t]

Init ==
    /\ transcript = <<>>
    /\ isLoading = FALSE
    /\ lastError = "none"
    /\ activeLayout = 0
    /\ controller = 0
    /\ sent = 0
    /\ pc = [r \in RunIds |-> "idle"]
    /\ aborted = [r \in RunIds |-> FALSE]
    /\ run = [r \in RunIds |-> NoRun]
    /\ approvals = {}
    /\ executed = {}
    /\ resetAt = 0

----------------------------------------------------------------------------
(* The user's calls.                                                       *)

AbortNobody == UNCHANGED aborted  \* faulty: the previous run is not aborted

\* abortController?.abort()
AbortCurrent ==
    aborted' = [r \in RunIds |-> aborted[r] \/ r = controller]

\* sendMessage with a resolvable backend: the previous run is aborted and a
\* new one starts from the transcript as it is now.
SendMessage ==
    LET n == sent + 1 IN
    /\ sent < MaxSends
    /\ sent' = n
    /\ transcript' = Append(transcript, Message(UserId(n), {}))
    /\ AbortCurrent
    /\ controller' = n
    /\ isLoading' = TRUE
    /\ lastError' = "none"
    /\ pc' = [pc EXCEPT ![n] = "streaming"]
    /\ run' = [run EXCEPT ![n] = Turn(transcript', 1)]
    /\ UNCHANGED <<activeLayout, approvals, executed, resetAt>>

\* sendMessage with no backend registered: the prompt is shown and the error
\* set, but a run that is going on is left alone.
SendUnbacked ==
    /\ sent < MaxSends
    /\ sent' = sent + 1
    /\ transcript' = Append(transcript, Message(UserId(sent + 1), {}))
    /\ lastError' = "noBackend"
    /\ UNCHANGED <<isLoading, activeLayout, controller, pc, aborted, run,
                   approvals, executed, resetAt>>

StopKeepsSpinner ==  \* faulty: stop leaves the spinner on
    /\ AbortCurrent
    /\ UNCHANGED <<transcript, isLoading, lastError, activeLayout, controller, sent,
                   pc, run, approvals, executed, resetAt>>

Stop ==
    /\ AbortCurrent
    /\ isLoading' = FALSE
    /\ UNCHANGED <<transcript, lastError, activeLayout, controller, sent, pc, run,
                   approvals, executed, resetAt>>

Reset ==
    /\ AbortCurrent
    /\ controller' = 0
    /\ transcript' = <<>>
    /\ isLoading' = FALSE
    /\ lastError' = "none"
    /\ activeLayout' = 0
    /\ resetAt' = sent
    /\ UNCHANGED <<sent, pc, run, approvals, executed>>

ClearLayout ==
    /\ activeLayout # 0
    /\ activeLayout' = 0
    /\ UNCHANGED <<transcript, isLoading, lastError, controller, sent, pc, aborted,
                   run, approvals, executed, resetAt>>

----------------------------------------------------------------------------
(* End of a run: runUntilSettled returns or throws, and the callbacks that *)
(* sendMessage hung on its promise run.                                    *)

\* The then and catch callbacks report the outcome, the finally callback clears
\* the spinner.
Settle(r, how) ==
    /\ pc' = [pc EXCEPT ![r] = "settled"]
    /\ run' = [run EXCEPT ![r] = NoRun]
    /\ lastError' = IF how = "failed" THEN "failed" ELSE lastError
    /\ isLoading' = FALSE

----------------------------------------------------------------------------
(* The backend's stream: one action per kind of event.  Every event that   *)
(* passes the abort check and the schema publishes the run's own list.     *)

EventUnchecked(kind, r) ==  \* faulty: no abort check at the head of the loop
    /\ kind \in EventKinds
    /\ pc[r] = "streaming"
    /\ run[r].events < MaxEvents

Event(kind, r) ==
    /\ kind \in EventKinds
    /\ pc[r] = "streaming"
    /\ ~aborted[r]
    /\ run[r].events < MaxEvents

Publish(r, local) ==
    /\ run' = [run EXCEPT ![r] = [local EXCEPT !.events = @ + 1]]
    /\ transcript' = local.msgs
    /\ UNCHANGED <<isLoading, lastError, controller, sent, pc, aborted, approvals,
                   executed, resetAt>>

TextDelta(r, m) ==
    /\ Event("text-delta", r)
    /\ Publish(r, [run[r] EXCEPT !.msgs = Attach(@, m, {}), !.active = m])
    /\ UNCHANGED activeLayout

\* activeMessageId ?? fallback
ActiveOr(r, id) == IF run[r].active = <<>> THEN id ELSE run[r].active

WidgetRender(r, w) ==
    /\ Event("widget-render", r)
    /\ Publish(r, [run[r] EXCEPT !.msgs = Attach(@, ActiveOr(r, w), {})])
    /\ UNCHANGED activeLayout

\* tool-call-start: another call of the same id is forgotten.
ToolCallStart(r, id, tool) ==
    LET call == [id |-> id, tool |-> tool] IN
    /\ Event("tool-call", r)
    /\ Publish(r, [run[r] EXCEPT
            !.msgs = Attach(@, ActiveOr(r, id), {Shown(call, "open")}),
            !.pending = Kept(@, {call}) \cup {call}])
    /\ UNCHANGED activeLayout

\* tool-call-end of a call that was started; each further end completes it again.
\* ok says whether the arguments pass the tool's schema and, where a sign-off is
\* required, its message can be built.
ToolCallEnd(r, id, ok) ==
    /\ Event("tool-call", r)
    /\ \E call \in run[r].pending :
        /\ call.id = id
        /\ Publish(r, [run[r] EXCEPT
                !.completed = Append(@, [id |-> id, tool |-> call.tool, ok |-> ok])])
    /\ UNCHANGED activeLayout

\* tool-call-result: the first message of the list that shows a call of this id
\* is updated, whoever's call it is and whatever answer it has.
ToolCallResult(r, id) ==
    LET msgs == run[r].msgs
        held == Holding(msgs, id)
    IN
    /\ Event("tool-call", r)
    /\ \E first \in held : \E call \in msgs[first].calls :
        /\ \A j \in held : first <= j
        /\ call.id = id
        /\ Publish(r, [run[r] EXCEPT
                !.msgs = Attach(@, msgs[first].id, {Shown(call, "told")})])
    /\ UNCHANGED activeLayout

LayoutRender(r) ==
    /\ Event("layout-render", r)
    /\ activeLayout' = r
    /\ Publish(r, run[r])

\* run-started, text-end, tool-call-args, run-finished, ui-action and the
\* operation events change no local, but publish like any other; so do the end of
\* a call that is not pending and the result of one that no message shows.
OtherEvent(r) ==
    /\ Event("other", r)
    /\ Publish(r, run[r])
    /\ UNCHANGED activeLayout

\* The event is published, and the loop over events left.
RunErrorEvent(r) ==
    /\ Event("run-error", r)
    /\ transcript' = run[r].msgs
    /\ pc' = [pc EXCEPT ![r] = "erring"]
    /\ UNCHANGED <<isLoading, lastError, activeLayout, controller, sent, aborted, run,
                   approvals, executed, resetAt>>

\* The stream has returned: the error is shown, without another look at the signal.
ErrorShown(r) ==
    /\ pc[r] = "erring"
    /\ transcript' = Append(run[r].msgs, Message(ErrorId(r, run[r].turn), {}))
    /\ Settle(r, "finished")
    /\ UNCHANGED <<activeLayout, controller, sent, aborted, approvals, executed, resetAt>>

\* The abort check at the head of the loop over events throws out of the loop.
EventAfterAbort(r) ==
    /\ pc[r] = "streaming"
    /\ aborted[r]
    /\ pc' = [pc EXCEPT ![r] = "leaving"]
    /\ UNCHANGED <<chatVars, aborted, run, approvals, executed, resetAt>>

\* The stream has returned; the error thrown stays the abort whatever return() did.
AbortThrown(r) ==
    /\ pc[r] = "leaving"
    /\ Settle(r, "aborted")
    /\ UNCHANGED <<transcript, activeLayout, controller, sent, aborted, approvals,
                   executed, resetAt>>

\* The stream fails, at the next event or in return(); only the transport of an
\* aborted run raises AbortError.
BackendThrows(r) ==
    /\ pc[r] \in {"streaming", "erring"}
    /\ \/ Settle(r, "failed")
       \/ aborted[r] /\ Settle(r, "aborted")
    /\ UNCHANGED <<transcript, activeLayout, controller, sent, aborted, approvals,
                   executed, resetAt>>

----------------------------------------------------------------------------
(* executeClientTools and the end of a turn.                               *)

IsGuarded(c) == c.ok /\ c.tool \in GuardedTools
IsClient(c)  == c.tool \in ClientTools

IsAwaitedUnguarded(c) == IsClient(c) /\ c.ok  \* faulty: the intercept comes too late

\* A call whose handler is invoked and awaited.
IsAwaited(c) == IsClient(c) /\ c.ok /\ ~IsGuarded(c)

\* A call as the approval registry and the tool's context know it.
CallOf(r, c) == [run |-> r, turn |-> run[r].turn, id |-> c.id, tool |-> c.tool]

\* The answer of a call that needs no handler: queued for approval, or an error.
Immediate(c) == Shown(c, IF IsGuarded(c) THEN "queued" ELSE "error")

\* while (turnsRemaining-- > 0): whether another turn follows turn t.
TurnsLeft(t) == t < MaxLocalTurns

\* The results go back to the message of the turn, if it had one, and the
\* loop goes on with the next turn unless the turns are used up or the run
\* was aborted.
EndTurn(r, out) ==
    LET t == run[r].turn
        msgs == Attach(run[r].msgs, ActiveOr(r, AnswerId(r, t)), out)
    IN
    \/ /\ out = {}
       /\ Settle(r, "finished")
       /\ UNCHANGED transcript
    \/ /\ out # {}
       /\ transcript' = msgs
       /\ \/ /\ ~TurnsLeft(t)
             /\ Settle(r, "finished")
          \/ /\ TurnsLeft(t)
             /\ aborted[r]
             /\ Settle(r, "aborted")
          \/ /\ TurnsLeft(t)
             /\ ~aborted[r]
             /\ pc' = [pc EXCEPT ![r] = "streaming"]
             /\ run' = [run EXCEPT ![r] = Turn(msgs, t + 1)]
             /\ UNCHANGED <<isLoading, lastError>>

\* Where the loop over the completed calls stops: nothing can abort the run
\* between two calls that need no handler, so the abort check before each
\* client call either throws at the first one or never does.
StopsAt(r, c) == IF aborted[r] THEN IsClient(c) ELSE IsAwaited(c)

\* The answers in out, then those of the completed calls at the indices of S: of
\* two answers to one id the later counts, as they are attached in order.
AnswersWith(r, out, S) ==
    LET calls == run[r].completed
        last == {i \in S : \A j \in S : j > i => calls[j].id # calls[i].id}
        later == {Immediate(calls[i]) : i \in last}
    IN  Kept(out, later) \cup later

\* Go through the completed calls from index `from` on, `out` answered so far,
\* up to the first handler to await.
Dispatch(r, from, out) ==
    LET calls == run[r].completed
        passed(stop) == {i \in from .. stop - 1 : IsClient(calls[i])}
    IN
    /\ \E stop \in from .. Len(calls) + 1 :
        /\ \A i \in from .. stop - 1 : ~StopsAt(r, calls[i])
        /\ approvals' = approvals \cup
                {CallOf(r, calls[i]) : i \in {j \in from .. stop - 1 : IsGuarded(calls[j])}}
        /\ \/ /\ stop > Len(calls)
              /\ EndTurn(r, AnswersWith(r, out, passed(stop)))
              /\ UNCHANGED executed
           \/ /\ stop <= Len(calls)
              /\ aborted[r] /\ StopsAt(r, calls[stop])
              /\ Settle(r, "aborted")
              /\ UNCHANGED <<transcript, executed>>
           \/ /\ stop <= Len(calls)
              /\ ~aborted[r] /\ StopsAt(r, calls[stop])
              /\ pc' = [pc EXCEPT ![r] = "handler"]
              /\ run' = [run EXCEPT ![r].next = stop,
                                    ![r].out = AnswersWith(r, out, passed(stop))]
              /\ executed' = executed \cup {CallOf(r, calls[stop])}
              /\ UNCHANGED <<transcript, isLoading, lastError>>
    /\ UNCHANGED <<activeLayout, controller, sent, aborted, resetAt>>

StreamEnd(r) ==
    /\ pc[r] = "streaming"
    /\ Dispatch(r, 1, {})

\* The awaited handler fulfils or rejects, and the loop over the calls goes on.
HandlerReturns(r, status) ==
    LET n == run[r].next
        answer == Shown(run[r].completed[n], status)
    IN
    /\ pc[r] = "handler"
    /\ Dispatch(r, n + 1, Kept(run[r].out, {answer}) \cup {answer})

----------------------------------------------------------------------------
StreamStep(r) ==
    \/ \E m \in MsgIds : TextDelta(r, m) \/ WidgetRender(r, m)
    \/ \E id \in CallIds, tool \in Tools : ToolCallStart(r, id, tool)
    \/ \E id \in CallIds, ok \in BOOLEAN : ToolCallEnd(r, id, ok)
    \/ \E id \in CallIds : ToolCallResult(r, id)
    \/ LayoutRender(r)
    \/ OtherEvent(r)
    \/ RunErrorEvent(r)
    \/ ErrorShown(r)
    \/ EventAfterAbort(r)
    \/ AbortThrown(r)
    \/ BackendThrows(r)
    \/ StreamEnd(r)

RunStep(r) == StreamStep(r) \/ \E status \in {"result", "error"} : HandlerReturns(r, status)

UserStep == SendMessage \/ SendUnbacked \/ Stop \/ Reset \/ ClearLayout

Next == UserStep \/ \E r \in RunIds : RunStep(r)

\* A backend's stream, its return() and a tool's handler eventually come to an end.
Fairness == \A r \in RunIds : WF_vars(RunStep(r))

Spec == Init /\ [][Next]_vars /\ Fairness

----------------------------------------------------------------------------
(* Properties.                                                             *)

MessageIds ==
    {UserId(n) : n \in RunIds} \cup CallIds \cup MsgIds
    \cup {AnswerId(r, t) : r \in RunIds, t \in 1 .. MaxLocalTurns}
    \cup {ErrorId(r, t) : r \in RunIds, t \in 1 .. MaxLocalTurns}

Call == [id : CallIds, tool : Tools,
         status : {"open", "result", "error", "queued", "told"}]

\* Calls as the approval registry and the tools' contexts know them.
MadeCall == [run : RunIds, turn : 1 .. MaxLocalTurns, id : CallIds, tool : Tools]

\* Lists of messages whose tool calls are all of S.
Messages(S) == Seq([id : MessageIds, calls : SUBSET S])

\* A run's locals, the calls it shows and has answered all of S.
Locals(S) ==
    [msgs : Messages(S), turn : 0 .. MaxLocalTurns, events : 0 .. MaxEvents,
     active : {<<>>} \cup MessageIds, pending : SUBSET [id : CallIds, tool : Tools],
     completed : Seq([id : CallIds, tool : Tools, ok : BOOLEAN]),
     next : Nat, out : SUBSET S]

\* Every variable holds a value of its type; in particular no run takes more
\* turns than maxLocalTurns allows (run-orchestrator.ts:146).
TypeOK ==
    /\ transcript \in Messages(Call)
    /\ isLoading \in BOOLEAN
    /\ lastError \in {"none", "noBackend", "failed"}
    /\ activeLayout \in 0 .. MaxSends
    /\ controller \in 0 .. MaxSends
    /\ sent \in 0 .. MaxSends
    /\ pc \in [RunIds -> {"idle", "streaming", "erring", "leaving", "handler", "settled"}]
    /\ aborted \in [RunIds -> BOOLEAN]
    /\ run \in [RunIds -> Locals(Call)]
    /\ approvals \subseteq MadeCall
    /\ executed \subseteq MadeCall
    /\ resetAt \in 0 .. MaxSends

\* Seen from the outside, runs have the life cycle of RunLifecycle.
Lifecycle == INSTANCE RunLifecycle WITH
    MaxRuns <- MaxSends,
    phase <- [r \in RunIds |-> IF Live(r) THEN "live" ELSE pc[r]],
    driver <- controller,
    spinner <- isLoading

\* Refinement: whatever happens inside runs, each step of the session is a start,
\* a stop, a reset or a settling run of the abstract life cycle, or invisible there.
ImplementsLifecycle == Lifecycle!Spec

\* Whatever the interleaving of sends, stops, resets and settling runs, at most
\* one run that was not aborted is under way: the one whose controller the
\* session holds (inject-agentic-chat.ts:141).
OneDriver == Lifecycle!OneDriver

\* The spinner shows only while the current run is under way and not stopped
\* (inject-agentic-chat.ts:143, 228, 236, 247).
SpinnerMeansDriver == Lifecycle!SpinnerMeansDriver

\* It goes out under a running prompt only because a superseded run settled late.
SpinnerStolenOnlyByStaleRun == Lifecycle!SpinnerStolenOnlyByStaleRun

\* Once reset, the session never again shows a layout of a run from before the
\* reset, late events of such a run included.
NoLayoutFromBeforeReset == activeLayout # 0 => activeLayout > resetAt

\* Some run made this call, and it is recorded in S.
Recorded(c, S) == \E m \in S : m.id = c.id /\ m.tool = c.tool

\* Whatever ids a backend repeats and whatever it answers itself, an answer the
\* browser gave was earned: a result by invoking the handler of that call, a queued
\* card by a record in the approval registry; and a call that needs a sign-off
\* never reaches its handler.
AnswersAreEarned ==
    LET earned(msgs) ==
            \A i \in DOMAIN msgs : \A c \in msgs[i].calls :
                /\ c.status = "result" => Recorded(c, executed)
                /\ c.status = "queued" => Recorded(c, approvals)
    IN  /\ earned(transcript)
        /\ \A r \in RunIds : earned(run[r].msgs)
        /\ \A m \in executed : m.tool \notin GuardedTools

\* The message of run r's turn, in the list msgs.
TurnMessage(r, msgs) == msgs[IndexOf(msgs, ActiveOr(r, AnswerId(r, run[r].turn)))]

\* A run goes on to its next turn, in which the backend sees its list of messages,
\* only when every client call the backend completed is answered by the browser:
\* in the message of the turn, once, by an error or by what this very turn's
\* handler or approval record earned; however often the backend repeated the id,
\* and whatever older or other answers to it the messages held.
NextTurnIsAnswered ==
    [][\A r \in RunIds : run[r].turn # 0 /\ run'[r].turn = run[r].turn + 1 =>
        \A i \in DOMAIN run[r].completed : IsClient(run[r].completed[i]) =>
            LET of == {c \in TurnMessage(r, run'[r].msgs).calls :
                            c.id = run[r].completed[i].id}
            IN  \E c \in of :
                    /\ of = {c}
                    /\ \/ c.status = "error"
                       \/ c.status = "result" /\ CallOf(r, c) \in executed'
                       \/ c.status = "queued" /\ CallOf(r, c) \in approvals']_vars

\* Once its signal has fired a run only settles, leaving the stream first if it was
\* reading it.  It publishes no further event, invokes no handler, queues no approval
\* and renders no layout; at most it still shows an error it had met, or the results
\* of the handler it was waiting for.
AbortedRunOnlySettles ==
    [][\A r \in RunIds : Live(r) /\ aborted[r] =>
            \/ pc'[r] = pc[r] /\ run'[r] = run[r]
            \/ /\ pc'[r] \in {"leaving", "settled"}
               /\ UNCHANGED <<executed, approvals, activeLayout>>]_vars

\* Every prompt's run comes to an end, whatever stops, resets and further
\* prompts come in between, if streams and handlers do.
EveryRunSettles == \A r \in RunIds : Live(r) ~> pc[r] = "settled"

----------------------------------------------------------------------------
(* What documentation, comments and tests say, and the code does not do.   *)

\* reset(): "Abort any in-flight run and clear state."  No prompt from before the
\* reset is shown after it.
ResetClearsTranscript ==
    \A i \in DOMAIN transcript : \A n \in RunIds :
        transcript[i].id = UserId(n) => n > resetAt
=============================================================================
