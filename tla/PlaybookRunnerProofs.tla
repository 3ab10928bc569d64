------------------------ MODULE PlaybookRunnerProofs ------------------------
(***************************************************************************)
(* Proofs about PlaybookRunner for playbooks of any length.  The invariant *)
(* splits the steps at the loop's index: those before it are over and the  *)
(* history of invocations agrees with their statuses, those from it on are *)
(* untouched.                                                              *)
(***************************************************************************)
EXTENDS PlaybookRunner, TLAPS

\* Steps before i are over, and exactly those that ended by their tool ran it.
Past(st, i) ==
    \A j \in Steps : j < i =>
        /\ st[j] \in Over
        /\ st[j] = "failed" => continueOnError[j]
        /\ j \in invoked <=> st[j] # "skipped"
        /\ j \in invoked /\ guarded[j] => j \in approved

\* Steps from i on were not touched.
Future(st, i) ==
    \A j \in Steps : j >= i => st[j] \in {"pending", "awaiting-approval"} /\ j \notin invoked

\* The state of a run whose loop has ended with statuses st.
Final(st) ==
    /\ \A j \in Steps :
         /\ st[j] \in Over \cup {"cancelled"}
         /\ j \in invoked <=> st[j] \in {"success", "failed"}
         /\ j \in invoked /\ guarded[j] => j \in approved
         /\ st[j] = "failed" /\ ~continueOnError[j] => \A k \in invoked : k <= j
    /\ (\E j \in Steps : st[j] = "cancelled") =>
           cancelRequested \/ \E j \in Steps : st[j] = "failed"

LoopInv ==
    /\ at = "start" => Future(status, 1)
    /\ at \in {"waiting", "decided"} =>
         /\ current \in Steps /\ guarded[current]
         /\ Past(status, current) /\ Future(status, current)
         /\ decision = "approve" => current \in approved
    /\ at # "decided" => decision = "none"
    /\ at = "invoking" =>
         /\ current \in invoked /\ (guarded[current] => current \in approved)
         /\ status[current] = "running"
         /\ Past(status, current) /\ Future(status, current + 1)
    /\ at = "done" => Final(status) /\ overall = OverallFrom(status)

Inv == TypeOK /\ LoopInv

----------------------------------------------------------------------------
LEMMA PlaybookInit == Init => Inv
<1> SUFFICES ASSUME Init PROVE Inv
  OBVIOUS
<1>1. TypeOK
  <2>1. status \in [Steps -> Statuses]
    BY DEF Init, Statuses, Over
  <2>2. current \in 0 .. N
    BY NAssumption DEF Init, NAssumption
  <2> QED BY <2>1, <2>2 DEF Init, TypeOK
<1>2. LoopInv
  BY DEF Init, LoopInv, Future
<1> QED BY <1>1, <1>2 DEF Inv

\* What leaving the loop establishes.
LEMMA FinishEnds ==
    ASSUME TypeOK, NEW st \in [Steps -> Statuses], Final(st), Finish(st),
           UNCHANGED <<def, cancelRequested, approved>>, decision' = "none"
    PROVE  Inv'
<1>1. OverallFrom(st) \in {"running", "success", "failed", "cancelled"}
  BY DEF OverallFrom
<1>2. TypeOK'
  BY <1>1 DEF Finish, TypeOK, def
<1>3. OverallFrom(st) = OverallFrom(st)'
  BY DEF OverallFrom
<1>4. Final(status)'
  BY DEF Finish, Final, def
<1>5. LoopInv'
  BY <1>3, <1>4 DEF Finish, LoopInv, OverallFrom
<1> QED BY <1>2, <1>5 DEF Inv

\* Cutting the run short at step i leaves a final state.
LEMMA TrailingIsFinal ==
    ASSUME TypeOK, NEW st \in [Steps -> Statuses], NEW i \in Nat,
           \A j \in Steps : j < i =>
               /\ st[j] \in Over
               /\ st[j] = "failed" /\ ~continueOnError[j] => j = i - 1
               /\ j \in invoked <=> st[j] # "skipped"
               /\ j \in invoked /\ guarded[j] => j \in approved,
           Future(st, i),
           cancelRequested \/ \E j \in Steps : j < i /\ st[j] = "failed"
    PROVE  /\ Final(WithTrailingCancelled(st, i))
           /\ WithTrailingCancelled(st, i) \in [Steps -> Statuses]
<1> DEFINE ended == WithTrailingCancelled(st, i)
<1>1. ended \in [Steps -> Statuses]
  BY DEF WithTrailingCancelled, Statuses
<1>2. \A j \in Steps : j < i => ended[j] = st[j]
  BY DEF WithTrailingCancelled
<1>3. \A j \in Steps : j >= i => ended[j] = "cancelled" /\ j \notin invoked
  BY DEF WithTrailingCancelled, Future, Over, Steps
<1>4. invoked \subseteq Steps /\ \A k \in invoked : k < i
  BY DEF TypeOK, Future, Steps
<1> HIDE DEF ended
<1>5. ASSUME NEW j \in Steps
      PROVE  /\ ended[j] \in Over \cup {"cancelled"}
             /\ j \in invoked <=> ended[j] \in {"success", "failed"}
             /\ j \in invoked /\ guarded[j] => j \in approved
             /\ ended[j] = "failed" /\ ~continueOnError[j] => \A k \in invoked : k <= j
  <2>1. CASE j < i
    <3>1. ended[j] \in Over /\ (j \in invoked <=> ended[j] \in {"success", "failed"})
      BY <1>2, <2>1 DEF Over
    <3>2. ended[j] = "failed" /\ ~continueOnError[j] => \A k \in invoked : k <= j
      BY <1>2, <1>4, <2>1 DEF Steps
    <3> QED BY <2>1, <3>1, <3>2
  <2>2. CASE j >= i
    BY <1>3, <2>2
  <2> QED BY <2>1, <2>2 DEF Steps
<1>6. cancelRequested \/ \E j \in Steps : ended[j] = "failed"
  BY <1>2
<1>7. Final(ended)
  BY <1>5, <1>6 DEF Final
<1> QED BY <1>1, <1>7 DEF ended

\* The loop's head: whatever it does from a state split at i keeps the invariant.
LEMMA EnterKeeps ==
    ASSUME NAssumption, TypeOK, NEW st \in [Steps -> Statuses], NEW i \in 1 .. N + 1,
           Past(st, i), Future(st, i), Enter(st, i),
           UNCHANGED <<def, cancelRequested, approved>>,
           decision' = "none"
    PROVE  Inv'
<1>1. CASE i > N /\ Finish(st)
  <2>1. Final(st)
    <3>1. \A j \in Steps : j < i
      BY <1>1, NAssumption DEF Steps, NAssumption
    <3> QED BY <3>1 DEF Past, Final, Over
  <2> QED BY <1>1, <2>1, FinishEnds
<1>2. CASE i <= N /\ cancelRequested /\ Finish(WithTrailingCancelled(st, i))
  <2>1. /\ Final(WithTrailingCancelled(st, i))
        /\ WithTrailingCancelled(st, i) \in [Steps -> Statuses]
    BY <1>2, TrailingIsFinal DEF Past
  <2> QED BY <1>2, <2>1, FinishEnds
<1>3. CASE /\ i <= N /\ guarded[i]
           /\ status' = WithStatus(st, i, "awaiting-approval")
           /\ at' = "waiting" /\ current' = i
           /\ UNCHANGED <<overall, invoked>>
  <2>1. i \in Steps
    BY <1>3 DEF Steps
  <2>2. status' \in [Steps -> Statuses]
    BY <1>3 DEF WithStatus, Statuses
  <2>3. TypeOK'
    BY <1>3, <2>1, <2>2 DEF TypeOK, def, Steps
  <2>4. Past(status, current)' /\ Future(status, current)'
    BY <1>3, <2>1 DEF Past, Future, WithStatus, def, Steps
  <2>5. LoopInv'
    BY <1>3, <2>1, <2>4 DEF LoopInv, def
  <2> QED BY <2>3, <2>5 DEF Inv
<1>4. CASE i <= N /\ ~guarded[i] /\ Invoke(st, i)
  <2>1. i \in Steps
    BY <1>4 DEF Steps
  <2>2. status' \in [Steps -> Statuses]
    BY <1>4 DEF Invoke, WithStatus, Statuses
  <2>3. TypeOK'
    BY <1>4, <2>1, <2>2 DEF TypeOK, def, Invoke, Steps
  <2>4. Past(status, current)' /\ Future(status, current + 1)'
    BY <1>4, <2>1 DEF Past, Future, Invoke, WithStatus, def, Steps
  <2>5. status'[i] = "running"
    BY <1>4, <2>1 DEF Invoke, WithStatus
  <2>6. LoopInv'
    BY <1>4, <2>1, <2>4, <2>5 DEF LoopInv, Invoke, def
  <2> QED BY <2>3, <2>6 DEF Inv
<1> QED BY <1>1, <1>2, <1>3, <1>4 DEF Enter

\* The current step is over with status s, and the loop goes on with the next one.
LEMMA StepOver ==
    ASSUME NAssumption, Inv, at \in {"decided", "invoking"}, NEW s \in Over,
           s = "skipped" <=> at = "decided", s = "failed" => continueOnError[current],
           Enter(WithStatus(status, current, s), current + 1),
           UNCHANGED <<def, cancelRequested, approved>>, decision' = "none"
    PROVE  Inv'
<1> DEFINE st == WithStatus(status, current, s)
<1>1. current \in Steps /\ Past(status, current) /\ Future(status, current + 1)
  <2>1. CASE at = "decided"
    <3>1. current \in Steps /\ Past(status, current) /\ Future(status, current)
      BY <2>1 DEF Inv, LoopInv
    <3> QED BY <3>1 DEF Future, Steps
  <2>2. CASE at = "invoking"
    BY <2>2 DEF Inv, LoopInv, TypeOK
  <2> QED BY <2>1, <2>2
<1>2. current \in 1 .. N /\ current + 1 \in 1 .. N + 1
  BY <1>1, NAssumption DEF Steps, NAssumption
<1>3. st \in [Steps -> Statuses]
  BY <1>1 DEF WithStatus, Inv, TypeOK, Statuses
<1>4. \A j \in Steps : st[j] = IF j = current THEN s ELSE status[j]
  BY <1>1 DEF WithStatus, Inv, TypeOK
<1>5. /\ current \in invoked <=> s # "skipped"
      /\ current \in invoked /\ guarded[current] => current \in approved
  BY <1>2 DEF Inv, LoopInv, Future, Steps
<1> HIDE DEF st
<1>6. Past(st, current + 1)
  BY <1>1, <1>2, <1>4, <1>5 DEF Past, Steps
<1>7. Future(st, current + 1)
  BY <1>1, <1>2, <1>4 DEF Future, Steps
<1> QED BY <1>2, <1>3, <1>6, <1>7, EnterKeeps DEF st, Inv

LEMMA PlaybookStep == ASSUME NAssumption, Inv, [Next]_vars PROVE Inv'
<1>1. CASE Start
  <2>1. status \in [Steps -> Statuses] /\ 1 \in 1 .. N + 1
    BY NAssumption DEF Inv, TypeOK, NAssumption
  <2>2. Past(status, 1) /\ Future(status, 1) /\ decision = "none"
    BY <1>1 DEF Start, Inv, LoopInv, Past, Steps
  <2> QED BY <1>1, <2>1, <2>2, EnterKeeps DEF Start, Inv
<1>2. CASE Decided
  <2>1. CASE cancelRequested /\ Finish(WithTrailingCancelled(status, current))
    <3>1. /\ current \in Nat /\ status \in [Steps -> Statuses]
          /\ Past(status, current) /\ Future(status, current)
      BY <1>2 DEF Decided, Inv, LoopInv, TypeOK
    <3>2. /\ Final(WithTrailingCancelled(status, current))
          /\ WithTrailingCancelled(status, current) \in [Steps -> Statuses]
      BY <2>1, <3>1, TrailingIsFinal DEF Past, Inv
    <3> QED BY <1>2, <2>1, <3>2, FinishEnds DEF Decided, Inv
  <2>2. CASE Enter(WithStatus(status, current, "skipped"), current + 1)
    BY <1>2, <2>2, StepOver DEF Decided, Over
  <2>3. CASE decision = "approve" /\ Invoke(status, current)
    <3>1. /\ current \in Steps /\ Past(status, current) /\ Future(status, current)
          /\ current \in approved
      BY <1>2, <2>3 DEF Decided, Inv, LoopInv
    <3>2. status' \in [Steps -> Statuses] /\ status'[current] = "running"
      BY <2>3, <3>1 DEF Invoke, WithStatus, Statuses, Inv, TypeOK
    <3>3. TypeOK'
      BY <1>2, <2>3, <3>1, <3>2 DEF Decided, Invoke, Inv, TypeOK, def
    <3>4. Past(status, current)' /\ Future(status, current + 1)'
      BY <1>2, <2>3, <3>1 DEF Decided, Invoke, Past, Future, WithStatus, def, Steps, Inv, TypeOK
    <3>5. LoopInv'
      BY <1>2, <2>3, <3>1, <3>2, <3>4 DEF Decided, Invoke, LoopInv, def
    <3> QED BY <3>3, <3>5 DEF Inv
  <2> QED BY <1>2, <2>1, <2>2, <2>3 DEF Decided
<1>3. CASE Succeeds
  BY <1>3, StepOver DEF Succeeds, Over, Inv, LoopInv
<1>4. CASE Fails
  <2> DEFINE st == WithStatus(status, current, "failed")
  <2>1. CASE continueOnError[current] /\ Enter(st, current + 1)
    BY <1>4, <2>1, StepOver DEF Fails, Over, Inv, LoopInv
  <2>2. CASE ~continueOnError[current] /\ Finish(WithTrailingCancelled(st, current + 1))
    <3>1. /\ current \in invoked /\ Past(status, current) /\ Future(status, current + 1)
          /\ guarded[current] => current \in approved
          /\ current \in Steps /\ current \in Nat
      BY <1>4 DEF Fails, Inv, LoopInv, TypeOK
    <3>2. \A j \in Steps : st[j] = IF j = current THEN "failed" ELSE status[j]
      BY <3>1 DEF WithStatus, Inv, TypeOK
    <3>3. st \in [Steps -> Statuses]
      BY <3>1 DEF WithStatus, Inv, TypeOK, Statuses, Over
    <3> HIDE DEF st
    <3>4. Future(st, current + 1)
      BY <3>1, <3>2 DEF Future, Steps
    <3>5. ASSUME NEW j \in Steps, j < current + 1
          PROVE  /\ st[j] \in Over
                 /\ st[j] = "failed" /\ ~continueOnError[j] => j = (current + 1) - 1
                 /\ j \in invoked <=> st[j] # "skipped"
                 /\ j \in invoked /\ guarded[j] => j \in approved
      <4>1. CASE j = current
        BY <3>1, <3>2, <4>1 DEF Over
      <4>2. CASE j # current
        BY <3>1, <3>2, <3>5, <4>2 DEF Past, Steps
      <4> QED BY <4>1, <4>2
    <3>6. /\ Final(WithTrailingCancelled(st, current + 1))
          /\ WithTrailingCancelled(st, current + 1) \in [Steps -> Statuses]
      BY <3>1, <3>2, <3>3, <3>4, <3>5, TrailingIsFinal DEF Inv
    <3>7. decision = "none"
      BY <1>4 DEF Fails, Inv, LoopInv
    <3> QED BY <1>4, <2>2, <3>6, <3>7, FinishEnds DEF Fails, Inv
  <2> QED BY <1>4, <2>1, <2>2 DEF Fails
<1>5. CASE Approve
  BY <1>5 DEF Approve, Resolve, Inv, TypeOK, LoopInv, Past, Future, def
<1>6. CASE Skip
  BY <1>6 DEF Skip, Resolve, Inv, TypeOK, LoopInv, Past, Future, def
<1>7. CASE Cancel
  <2>1. TypeOK'
    BY <1>7 DEF Cancel, Resolve, Inv, TypeOK, def
  <2>2. LoopInv'
    BY <1>7 DEF Cancel, Resolve, Inv, LoopInv, Past, Future, Final, OverallFrom, def
  <2> QED BY <2>1, <2>2 DEF Inv
<1>8. CASE UNCHANGED vars
  BY <1>8 DEF vars, def, Inv, TypeOK, LoopInv, Past, Future, Final, OverallFrom
<1> QED BY <1>1, <1>2, <1>3, <1>4, <1>5, <1>6, <1>7, <1>8 DEF Next, Loop, User

----------------------------------------------------------------------------
\* The invariant at each place of the loop gives the claims.
LEMMA Claims ==
    ASSUME NAssumption, Inv
    PROVE  InOrder /\ GuardedStepsWereApproved /\ FailureStops /\ DoneIsTerminal
<1>1. invoked \subseteq Steps /\ current \in Int
  BY NAssumption DEF Inv, TypeOK, NAssumption
<1>2. CASE at = "start"
  <2>1. invoked = {} /\ \A i \in Steps : status[i] # "failed"
    BY <1>1, <1>2 DEF Inv, LoopInv, Future, Steps
  <2> QED BY <1>2, <2>1 DEF InOrder, GuardedStepsWereApproved, FailureStops, DoneIsTerminal
<1>3. CASE at \in {"waiting", "decided"}
  <2>1. /\ current \in Steps /\ Past(status, current) /\ Future(status, current)
    BY <1>3 DEF Inv, LoopInv
  <2>2. InOrder
    BY <1>1, <2>1 DEF InOrder, Past, Future, Steps
  <2>3. GuardedStepsWereApproved
    BY <1>1, <2>1 DEF GuardedStepsWereApproved, Past, Future, Steps
  <2>4. FailureStops
    BY <1>1, <2>1 DEF FailureStops, Past, Future, Steps
  <2> QED BY <1>3, <2>2, <2>3, <2>4 DEF DoneIsTerminal
<1>4. CASE at = "invoking"
  <2>1. /\ current \in Steps /\ Past(status, current) /\ Future(status, current + 1)
        /\ status[current] = "running" /\ guarded[current] => current \in approved
    BY <1>1, <1>4 DEF Inv, LoopInv
  <2>2. InOrder
    BY <1>1, <2>1 DEF InOrder, Past, Future, Steps
  <2>3. ASSUME NEW i \in invoked
        PROVE  (guarded[i] => i \in approved) /\ status[i] # "skipped"
    <3>1. CASE i = current
      BY <2>1, <3>1, <1>4 DEF Inv, LoopInv
    <3>2. CASE i # current
      BY <1>1, <2>1, <3>2 DEF Past, Future, Steps
    <3> QED BY <3>1, <3>2
  <2>4. FailureStops
    BY <1>1, <2>1 DEF FailureStops, Past, Future, Steps
  <2> QED BY <1>4, <2>2, <2>3, <2>4 DEF DoneIsTerminal, GuardedStepsWereApproved
<1>5. CASE at = "done"
  <2>1. Final(status) /\ overall = OverallFrom(status)
    BY <1>5 DEF Inv, LoopInv
  <2>2. GuardedStepsWereApproved /\ FailureStops
    BY <1>1, <2>1 DEF Final, GuardedStepsWereApproved, FailureStops
  <2>3. (\E i \in Steps : status[i] = "cancelled") => overall \in {"cancelled", "failed"}
    BY <2>1 DEF Final, OverallFrom
  <2>4. overall # "running"
    BY <2>1, <2>3 DEF Final, OverallFrom, Over
  <2>5. overall = "success" => invoked = {i \in Steps : status[i] = "success"}
    BY <1>1, <2>1 DEF Final, OverallFrom
  <2>6. \A i \in Steps : status[i] \in Over \cup {"cancelled"}
    BY <2>1 DEF Final
  <2> QED BY <1>5, <2>2, <2>3, <2>4, <2>5, <2>6 DEF InOrder, DoneIsTerminal
<1> QED BY <1>2, <1>3, <1>4, <1>5 DEF Inv, TypeOK

\* For playbooks of any length: steps run in order, a guarded step runs only on
\* its own approval, a failure stops the run, and `done` resolves terminal.
THEOREM PlaybookSafe ==
    Spec => [](TypeOK /\ StepsKeepTheirOrder /\ GuardedStepsWereApproved)
<1>1. Init => Inv
  BY PlaybookInit
<1>2. Inv /\ [Next]_vars => Inv'
  BY PlaybookStep, NAssumption
<1>3. Inv => TypeOK /\ StepsKeepTheirOrder /\ GuardedStepsWereApproved
  BY Claims, NAssumption DEF Inv, StepsKeepTheirOrder
<1> QED BY <1>1, <1>2, <1>3, PTL DEF Spec

\* Every variable of the runner keeps its type, for playbooks of any length.
THEOREM PlaybookTypes == Spec => []TypeOK
BY PlaybookSafe, PTL

\* Steps run in order, a failure stops the run and `done` resolves terminal,
\* for playbooks of any length.
THEOREM PlaybookOrder == Spec => []StepsKeepTheirOrder
BY PlaybookSafe, PTL

\* No tool is invoked once cancel() was called, wherever the loop was.
THEOREM CancelStopsInvocations == Spec => NothingStartsAfterCancel
<1>1. [Next]_vars => [cancelRequested => invoked' = invoked]_vars
  <2> SUFFICES ASSUME Next, cancelRequested PROVE invoked' = invoked
    BY DEF vars
  <2>1. CASE Start
    BY <2>1 DEF Start, Enter, Finish
  <2>2. CASE Decided
    BY <2>2 DEF Decided, Enter, Finish
  <2>3. CASE Succeeds
    BY <2>3 DEF Succeeds, Enter, Finish
  <2>4. CASE Fails
    BY <2>4 DEF Fails, Enter, Finish
  <2>5. CASE User
    BY <2>5 DEF User, Approve, Skip, Cancel
  <2> QED BY <2>1, <2>2, <2>3, <2>4, <2>5 DEF Next, Loop
<1> QED BY <1>1, PTL DEF Spec, NothingStartsAfterCancel
=============================================================================
