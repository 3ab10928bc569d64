--------------------------- MODULE PlaybookRunner ---------------------------
(***************************************************************************)
(* One run of a playbook: PlaybookRunner.start and the handle it returns   *)
(* (components/playbook-runner.ts).  The loop over the steps suspends at   *)
(* two awaits, the user's decision on a guarded step and the handler of a  *)
(* step's tool; cancel, approve and skip come in between.  A decision only *)
(* resolves a promise: the loop goes on in a later microtask, and further  *)
(* calls of the same event handler come before it.                         *)
(***************************************************************************)
EXTENDS Integers, FiniteSets

CONSTANT N  \* steps of the playbook

ASSUME NAssumption == N \in Nat

Steps == 1 .. N

VARIABLES
    guarded,          \* PlaybookStep.requiresApproval of each step
    continueOnError,  \* PlaybookStep.continueOnError of each step
    status,           \* PlaybookRun.steps: the status of each step
    overall,          \* PlaybookRun.overall
    at,               \* where the loop is: "start", "waiting", "decided", "invoking", "done"
    current,          \* its index i
    decision,         \* what the promise it awaits was resolved with
    cancelRequested,
    invoked,          \* history: steps whose tool was invoked
    approved          \* history: steps whose wait approve() resolved

def == <<guarded, continueOnError>>
vars == <<def, status, overall, at, current, decision, cancelRequested, invoked, approved>>

Over == {"success", "failed", "skipped"}
Statuses == Over \cup {"pending", "awaiting-approval", "running", "cancelled"}

Init ==
    /\ guarded \in [Steps -> BOOLEAN]
    /\ continueOnError \in [Steps -> BOOLEAN]
    /\ status = [i \in Steps |-> IF guarded[i] THEN "awaiting-approval" ELSE "pending"]
    /\ overall = "running"
    /\ at = "start"
    /\ current = 0
    /\ decision = "none"
    /\ cancelRequested = FALSE
    /\ invoked = {}
    /\ approved = {}

----------------------------------------------------------------------------
(* The loop.                                                               *)

WithStatus(st, i, s) == [st EXCEPT ![i] = s]

WithTrailingCancelled(st, start) ==
    [i \in Steps |-> IF i < start \/ st[i] \in Over THEN st[i] ELSE "cancelled"]

OverallFrom(st) ==
    CASE cancelRequested /\ \E i \in Steps : st[i] = "cancelled" -> "cancelled"
      [] \E i \in Steps : st[i] = "failed" -> "failed"
      [] \A i \in Steps : st[i] \in {"success", "skipped"} -> "success"
      [] OTHER -> "running"

\* The loop is left: `done` resolves.
Finish(st) ==
    /\ status' = st
    /\ overall' = OverallFrom(st)
    /\ at' = "done"
    /\ UNCHANGED <<current, invoked>>

Invoke(st, i) ==
    /\ status' = WithStatus(st, i, "running")
    /\ at' = "invoking"
    /\ current' = i
    /\ invoked' = invoked \cup {i}
    /\ UNCHANGED overall

\* The body of the loop from its head at index i to its first await.
EnterPreapproved(st, i) ==  \* faulty: one approval is good for all later steps
    \/ i > N /\ Finish(st)
    \/ i <= N /\ cancelRequested /\ Finish(WithTrailingCancelled(st, i))
    \/ /\ i <= N /\ ~cancelRequested
       /\ \/ /\ guarded[i] /\ approved = {}
             /\ status' = WithStatus(st, i, "awaiting-approval")
             /\ at' = "waiting"
             /\ current' = i
             /\ UNCHANGED <<overall, invoked>>
          \/ (~guarded[i] \/ approved # {}) /\ Invoke(st, i)

Enter(st, i) ==
    \/ i > N /\ Finish(st)
    \/ i <= N /\ cancelRequested /\ Finish(WithTrailingCancelled(st, i))
    \/ /\ i <= N /\ ~cancelRequested
       /\ \/ /\ guarded[i]
             /\ status' = WithStatus(st, i, "awaiting-approval")
             /\ at' = "waiting"
             /\ current' = i
             /\ UNCHANGED <<overall, invoked>>
          \/ ~guarded[i] /\ Invoke(st, i)

\* start(): the loop runs to its first await before the handle is returned.
Start ==
    /\ at = "start"
    /\ Enter(status, 1)
    /\ UNCHANGED <<def, decision, cancelRequested, approved>>

\* The loop goes on with the user's decision on the current step.
DecidedUnchecked ==  \* faulty: cancelRequested is not checked after the wait
    /\ at = "decided"
    /\ decision' = "none"
    /\ \/ decision = "skip" /\ Enter(WithStatus(status, current, "skipped"), current + 1)
       \/ decision = "approve" /\ Invoke(status, current)
    /\ UNCHANGED <<def, cancelRequested, approved>>

Decided ==
    /\ at = "decided"
    /\ decision' = "none"
    /\ \/ cancelRequested /\ Finish(WithTrailingCancelled(status, current))
       \/ /\ ~cancelRequested /\ decision = "skip"
          /\ Enter(WithStatus(status, current, "skipped"), current + 1)
       \/ ~cancelRequested /\ decision = "approve" /\ Invoke(status, current)
    /\ UNCHANGED <<def, cancelRequested, approved>>

\* invokeStep's outcome; a tool the persona cannot see fails without a handler.
Succeeds ==
    /\ at = "invoking"
    /\ Enter(WithStatus(status, current, "success"), current + 1)
    /\ UNCHANGED <<def, decision, cancelRequested, approved>>

FailsOn ==  \* faulty: continueOnError is ignored
    /\ at = "invoking"
    /\ Enter(WithStatus(status, current, "failed"), current + 1)
    /\ UNCHANGED <<def, decision, cancelRequested, approved>>

Fails ==
    /\ at = "invoking"
    /\ LET st == WithStatus(status, current, "failed")
       IN  \/ continueOnError[current] /\ Enter(st, current + 1)
           \/ ~continueOnError[current] /\ Finish(WithTrailingCancelled(st, current + 1))
    /\ UNCHANGED <<def, decision, cancelRequested, approved>>

----------------------------------------------------------------------------
(* The handle.                                                             *)

\* approveResolver is there only while the loop awaits it: else nothing happens.
Resolve(d) ==
    /\ at = "waiting"
    /\ at' = "decided"
    /\ decision' = d

Approve ==
    /\ Resolve("approve")
    /\ approved' = approved \cup {current}
    /\ UNCHANGED <<def, status, overall, current, cancelRequested, invoked>>

Skip ==
    /\ Resolve("skip")
    /\ UNCHANGED <<def, status, overall, current, cancelRequested, invoked, approved>>

CancelKeepsWaiting ==  \* faulty: the pending decision is not resolved
    /\ at # "start"
    /\ ~cancelRequested
    /\ cancelRequested' = TRUE
    /\ UNCHANGED <<def, status, overall, at, current, decision, invoked, approved>>

Cancel ==
    /\ at # "start"
    /\ ~cancelRequested
    /\ cancelRequested' = TRUE
    /\ \/ Resolve("skip")
       \/ at # "waiting" /\ UNCHANGED <<at, decision>>
    /\ UNCHANGED <<def, status, overall, current, invoked, approved>>

Loop == Start \/ Decided \/ Succeeds \/ Fails
User == Approve \/ Skip \/ Cancel
Next == Loop \/ User

\* The loop is a chain of promises; handlers are assumed to return or throw.
Spec == Init /\ [][Next]_vars /\ WF_vars(Loop)

----------------------------------------------------------------------------
(* What is claimed.                                                        *)

TypeOK ==
    /\ guarded \in [Steps -> BOOLEAN]
    /\ continueOnError \in [Steps -> BOOLEAN]
    /\ status \in [Steps -> Statuses]
    /\ overall \in {"running", "success", "failed", "cancelled"}
    /\ at \in {"start", "waiting", "decided", "invoking", "done"}
    /\ current \in 0 .. N
    /\ decision \in {"none", "approve", "skip"}
    /\ cancelRequested \in BOOLEAN
    /\ invoked \subseteq Steps
    /\ approved \subseteq Steps

\* Steps run in order and one at a time: all before the current one are over,
\* and nothing after it was invoked.
InOrder ==
    at \in {"waiting", "decided", "invoking"} =>
        /\ \A i \in 1 .. current - 1 : status[i] \in Over
        /\ \A i \in current + 1 .. N : i \notin invoked /\ status[i] # "running"

\* A step that requires approval runs its tool only after an approve() that was
\* given while this very step was waiting; a skipped step never runs its tool.
GuardedStepsWereApproved ==
    \A i \in invoked : (guarded[i] => i \in approved) /\ status[i] # "skipped"

\* cancel(): no tool is invoked after it, whatever the loop was doing.
NothingStartsAfterCancel == [][cancelRequested => invoked' = invoked]_vars

\* A failed step stops the playbook unless it says continueOnError.
FailureStops ==
    \A i \in Steps : status[i] = "failed" /\ ~continueOnError[i] =>
        \A j \in invoked : j <= i

\* `done` resolves with a terminal run: every step is over or cancelled, some
\* step is cancelled only if the run was cancelled or failed, and the overall
\* status is "success" only if nothing failed or was cut short.
DoneIsTerminal ==
    at = "done" =>
        /\ overall # "running"
        /\ \A i \in Steps : status[i] \in Over \cup {"cancelled"}
        /\ overall = "success" => invoked = {i \in Steps : status[i] = "success"}
        /\ (\E i \in Steps : status[i] = "cancelled") => overall \in {"cancelled", "failed"}

\* All three at once.
StepsKeepTheirOrder == InOrder /\ FailureStops /\ DoneIsTerminal

\* A cancelled run ends, also when it was waiting for a decision.
CancelEnds == cancelRequested ~> at = "done"
=============================================================================
