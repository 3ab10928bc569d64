-------------------------- MODULE GovernedCatalog --------------------------
(***************************************************************************)
(* What the endpoints of a tenant's experiences promise together: a        *)
(* request that succeeds takes effect at one moment, alone, on the catalog *)
(* as it is at that moment, and is the next in the log; a request that     *)
(* fails has no effect.  No statement, lock or pending write is visible.   *)
(* ExperienceCatalog implements this specification.                        *)
(***************************************************************************)
EXTENDS Integers, Sequences

CONSTANTS
    Txns,         \* requests
    Experiences,
    Seeded,       \* the experience that exists from the start, if any
    Seed,         \* the request that created it
    NewStates,    \* approval states experiences are created in
    Transitions   \* approval moves: <<state, action, state>>

VARIABLES
    record,    \* the row of each experience, none or one
    history,   \* its versions, in order
    embedded,  \* what of it is published, nothing or one
    log        \* the requests that succeeded, in order

vars == <<record, history, embedded, log>>

Copy(r) == [content |-> r.content, state |-> r.state]
New(t, s) == [content |-> t, state |-> s, deleted |-> FALSE]

Init ==
    /\ \E s \in NewStates :
         /\ record = [e \in Experiences |-> IF e \in Seeded THEN {New(Seed, s)} ELSE {}]
         /\ history = [e \in Experiences |->
                           IF e \in Seeded THEN <<Copy(New(Seed, s))>> ELSE <<>>]
    /\ embedded = [e \in Experiences |-> {}]
    /\ log = IF Seeded = {} THEN <<>> ELSE <<Seed>>

\* The experience becomes r, and its history ends with a copy of it.
Becomes(e, r) ==
    /\ record' = [record EXCEPT ![e] = {r}]
    /\ history' = [history EXCEPT ![e] = Append(@, Copy(r))]
    /\ UNCHANGED embedded

Create(t, e) ==
    /\ record[e] = {}
    /\ \E s \in NewStates : Becomes(e, New(t, s))

Standing(e) == {r \in record[e] : ~r.deleted}

Patch(t, e) == \E r \in Standing(e) : Becomes(e, [r EXCEPT !.content = t])

Rollback(e) ==
    \E r \in Standing(e), i \in DOMAIN history[e] :
        Becomes(e, [r EXCEPT !.content = history[e][i].content])

Transition(e) ==
    \E r \in Standing(e), move \in Transitions :
        /\ move[1] = r.state
        /\ Becomes(e, [r EXCEPT !.state = move[3]])

Delete(e) ==
    \E r \in Standing(e) :
        /\ record' = [record EXCEPT ![e] = {[r EXCEPT !.deleted = TRUE]}]
        /\ UNCHANGED <<history, embedded>>

\* An empty patch appends a version as it was once, perhaps not the last one.
Repeat(e) ==
    \E i \in DOMAIN history[e] :
        /\ history' = [history EXCEPT ![e] = Append(@, history[e][i])]
        /\ UNCHANGED <<record, embedded>>

\* What is published was approved once; it need not be what the row is now.
Publish(t, e) ==
    \E i \in DOMAIN history[e] :
        /\ history[e][i].state = "approved"
        /\ embedded' = [embedded EXCEPT ![e] = {[content |-> history[e][i].content, key |-> t]}]
        /\ UNCHANGED <<record, history>>

Unpublish(e) ==
    /\ embedded[e] # {}
    /\ embedded' = [embedded EXCEPT ![e] = {}]
    /\ UNCHANGED <<record, history>>

Rotate(t, e) ==
    \E p \in embedded[e] :
        /\ embedded' = [embedded EXCEPT ![e] = {[p EXCEPT !.key = t]}]
        /\ UNCHANGED <<record, history>>

\* A request succeeds once.
Succeeds(t) ==
    /\ \A i \in DOMAIN log : log[i] # t
    /\ log' = Append(log, t)

Next ==
    \E t \in Txns, e \in Experiences :
        /\ Succeeds(t)
        /\ \/ Create(t, e) \/ Patch(t, e) \/ Rollback(e) \/ Transition(e)
           \/ Delete(e) \/ Repeat(e)
           \/ Publish(t, e) \/ Unpublish(e) \/ Rotate(t, e)

Spec == Init /\ [][Next]_vars
=============================================================================
