---------------------------- MODULE RunLifecycle ----------------------------
(***************************************************************************)
(* What a chat session promises about its runs, whatever the runs do in    *)
(* between: each prompt starts one run; starting a run, stopping and       *)
(* forgetting (reset) abort the run the session is driving; a run settles  *)
(* once; the spinner is on from a start to the next stop, reset or settled *)
(* run, even when the run that settles is an older, superseded one.        *)
(* ChatSession implements this specification.                              *)
(***************************************************************************)
EXTENDS Integers

CONSTANT MaxRuns  \* a natural number; runs are numbered in the order they start

VARIABLES
    phase,    \* "idle", "live" or "settled", for each run
    aborted,  \* whether each run's signal has fired
    driver,   \* the run the session drives, 0 for none
    spinner

vars == <<phase, aborted, driver, spinner>>

Runs == 1 .. MaxRuns

Init ==
    /\ phase = [r \in Runs |-> "idle"]
    /\ aborted = [r \in Runs |-> FALSE]
    /\ driver = 0
    /\ spinner = FALSE

AbortDriver == aborted' = [r \in Runs |-> aborted[r] \/ r = driver]

\* A new run takes over.
Start(n) ==
    /\ \A m \in Runs : m >= n => phase[m] = "idle"
    /\ phase' = [phase EXCEPT ![n] = "live"]
    /\ AbortDriver
    /\ driver' = n
    /\ spinner' = TRUE

Stop ==
    /\ AbortDriver
    /\ spinner' = FALSE
    /\ UNCHANGED <<phase, driver>>

Forget ==
    /\ AbortDriver
    /\ driver' = 0
    /\ spinner' = FALSE
    /\ UNCHANGED phase

Settle(r) ==
    /\ phase[r] = "live"
    /\ phase' = [phase EXCEPT ![r] = "settled"]
    /\ spinner' = FALSE
    /\ UNCHANGED <<aborted, driver>>

Next ==
    \/ \E n \in Runs : Start(n) \/ Settle(n)
    \/ Stop
    \/ Forget

Spec == Init /\ [][Next]_vars

----------------------------------------------------------------------------
TypeOK ==
    /\ phase \in [Runs -> {"idle", "live", "settled"}]
    /\ aborted \in [Runs -> BOOLEAN]
    /\ driver \in 0 .. MaxRuns
    /\ spinner \in BOOLEAN

Driving == driver # 0 /\ phase[driver] = "live" /\ ~aborted[driver]

\* Of the runs under way only the session's current one has not been aborted
\* (inject-agentic-chat.ts:141).
OneDriver == \A r \in Runs : phase[r] = "live" /\ ~aborted[r] => r = driver

\* The spinner is never left on: while it shows, the current run is under way
\* and nobody stopped it.
SpinnerMeansDriver == spinner => Driving

\* The converse is false, but in one way only: the spinner goes out under the
\* current prompt when an aborted, older run settles late, because its finally
\* callback clears a flag that is no longer its own (inject-agentic-chat.ts:228).
SpinnerStolenOnlyByStaleRun ==
    Driving /\ ~spinner
        => \E r \in Runs : r < driver /\ aborted[r] /\ phase[r] = "settled"
=============================================================================
