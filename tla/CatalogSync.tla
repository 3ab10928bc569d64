---------------------------- MODULE CatalogSync ----------------------------
(***************************************************************************)
(* How a change of the catalog's list of disabled capabilities reaches a   *)
(* running app: the event a replica publishes after the commit             *)
(* (events/catalog-bus.ts, pg-notify-listener.ts), the SSE stream          *)
(* (routes/stream.ts, catalog-sse-service.ts) and the fetches of the       *)
(* capability authorizer (provide-catalog-capability-authorizer.ts), which *)
(* events and a timer start.  Events, notifications and streams may be     *)
(* lost, answers may overtake each other; only the timer is relied on.     *)
(*                                                                         *)
(* The list itself is abstracted to the number of writes it has seen.      *)
(***************************************************************************)
EXTENDS Integers, FiniteSets

CONSTANTS
    Replicas,      \* replicas of the catalog server
    PgClients,     \* bound: a replica's LISTEN clients, one that ended is used again
    MaxWrites,     \* bound: writes to the list
    MaxLosses,     \* bound: faults of replicas, connections and fetches
    MaxFetches,    \* bound: fetches under way at once
    BaseInterval   \* refreshIntervalMs, 0 for no polling

ASSUME SyncAssumption ==
    /\ MaxWrites \in Nat /\ MaxLosses \in Nat /\ BaseInterval \in Nat
    /\ MaxFetches \in Nat \ {0}
    /\ IsFiniteSet(PgClients) /\ PgClients # {}

Writes == 1 .. MaxWrites
Slots == 1 .. MaxFetches

VARIABLES
    catalog,        \* writes committed to the list
    handlers,       \* writes committed whose handler has not published yet
    outgoing,       \* pg_notify queries under way
    notes,          \* notifications on their way to a replica's LISTEN client
    listening,      \* PgNotifyListener: the clients that notifications reach
    thisClient,     \*   this.client, if it has one
    closing,        \*   those broken or ended whose 'end' is still to come
    reconnects,     \*   the connect() calls that are scheduled or under way
    heard,          \* history: how often a replica's bus emitted a write
    due,            \* history: 1 where it was written, elsewhere the clients notified
    stream,         \* the EventSource: "none", "connecting", "open", "closed"
    servedBy,       \* the replica that serves it, when it is open
    subscribed,     \* its handler has subscribed to the bus
    frames,         \* mutation frames on their way to the client
    sse,            \* CatalogSseService.state
    fetches,        \* the refresh() calls under way and the list they read
    known,          \* CatalogCapabilityAuthorizerService.disabled
    everSucceeded,
    fetchFailedAtBoot,
    losses

listeners == <<listening, thisClient, closing, reconnects>>
server == <<catalog, handlers, outgoing, notes, listeners, heard, due>>
wire == <<stream, servedBy, subscribed, frames>>
client == <<sse, fetches, known, everSucceeded, fetchFailedAtBoot>>
vars == <<server, wire, client, losses>>

Free == [step |-> "free", list |-> 0]
Sent == [step |-> "sent", list |-> 0]
Fetch == [step : {"free", "sent", "answered"}, list : 0 .. MaxWrites]

\* A client that is none of S; which one it is does not matter.
NewClient(S) == CHOOSE c \in PgClients : c \notin S

\* The app boots: the initializer starts the first fetch and connect(), which
\* awaits a token; without an EventSource the service falls back at once.
Init ==
    /\ catalog = 0
    /\ handlers = {} /\ outgoing = {} /\ notes = {}
    /\ listening = [r \in Replicas |-> {NewClient({})}]
    /\ thisClient = listening
    /\ closing = [r \in Replicas |-> {}]
    /\ reconnects = [r \in Replicas |-> 0]
    /\ heard = [r \in Replicas |-> [w \in Writes |-> 0]]
    /\ due = [r \in Replicas |-> [w \in Writes |-> 0]]
    /\ stream = "none" /\ servedBy = {} /\ subscribed = FALSE /\ frames = {}
    /\ sse \in {"connecting", "fallback"}
    /\ fetches = [s \in Slots |-> IF s = 1 THEN Sent ELSE Free]
    /\ known = 0
    /\ everSucceeded = FALSE /\ fetchFailedAtBoot = FALSE
    /\ losses = 0

\* The list after w writes: each disables or enables the one capability.
IsEmpty(w) == w % 2 = 0

Lose == losses < MaxLosses /\ losses' = losses + 1

----------------------------------------------------------------------------
(* The replicas.                                                           *)

\* A request commits on one replica; its handler has yet to publish.
Write(r) ==
    /\ catalog < MaxWrites
    /\ catalog' = catalog + 1
    /\ handlers' = handlers \cup {[write |-> catalog + 1, from |-> r]}
    /\ due' = [due EXCEPT ![r][catalog + 1] = 1]
    /\ UNCHANGED <<outgoing, notes, listeners, heard, wire, client, losses>>

\* CatalogEventBus.emit: every SSE handler of the replica writes a frame.
Emit(r, w) ==
    /\ heard' = [heard EXCEPT ![r][w] = @ + 1]
    /\ frames' = IF subscribed /\ r \in servedBy
                 THEN frames \cup {w} ELSE frames

\* publishLocalAndRemote: the local bus first, then the query.
PublishLocal(h) ==  \* faulty: the default publisher, which knows one replica
    /\ handlers' = handlers \ {h}
    /\ Emit(h.from, h.write)
    /\ UNCHANGED <<catalog, outgoing, notes, listeners, due,
                   stream, servedBy, subscribed, client, losses>>

Publish(h) ==
    /\ handlers' = handlers \ {h}
    /\ outgoing' = outgoing \cup {h}
    /\ Emit(h.from, h.write)
    /\ UNCHANGED <<catalog, notes, listeners, due, stream, servedBy, subscribed, client, losses>>

\* pg_notify commits: PostgreSQL notifies every client that listens now, each of
\* them if a replica has several.
Notify(h) ==
    /\ outgoing' = outgoing \ {h}
    /\ notes' = notes \cup UNION {{[write |-> h.write, from |-> h.from, to |-> r, by |-> c] :
                                       c \in listening[r]} : r \in Replicas}
    /\ due' = [r \in Replicas |-> IF r = h.from THEN due[r]
                 ELSE [due[r] EXCEPT ![h.write] = Cardinality(listening[r])]]
    /\ UNCHANGED <<catalog, handlers, listeners, heard, wire, client, losses>>

\* publishRemote's catch: the cross-replica delivery is dropped.
NotifyFails(h) ==
    /\ Lose
    /\ outgoing' = outgoing \ {h}
    /\ UNCHANGED <<catalog, handlers, notes, listeners, heard, due, wire, client>>

\* handleNotification; a replica ignores the echo of its own events.
ReceiveAll(n) ==  \* faulty: no echo filter
    /\ notes' = notes \ {n}
    /\ Emit(n.to, n.write)
    /\ UNCHANGED <<catalog, handlers, outgoing, listeners, due,
                   stream, servedBy, subscribed, client, losses>>

Receive(n) ==
    /\ notes' = notes \ {n}
    /\ \/ n.from = n.to /\ UNCHANGED <<heard, frames>>
       \/ n.from # n.to /\ Emit(n.to, n.write)
    /\ UNCHANGED <<catalog, handlers, outgoing, listeners, due,
                   stream, servedBy, subscribed, client, losses>>

\* scheduleReconnect() of r, whose clients in S are about to end: nothing when a
\* timer is set already; else it ends this.client and sets one.
Reschedule(r, S) ==
    \/ /\ reconnects[r] > 0
       /\ closing' = [closing EXCEPT ![r] = S]
       /\ UNCHANGED <<thisClient, reconnects>>
    \/ /\ closing' = [closing EXCEPT ![r] = S \cup (thisClient[r] \cap listening'[r])]
       /\ thisClient' = [thisClient EXCEPT ![r] = {}]
       /\ reconnects' = [reconnects EXCEPT ![r] = @ + 1]

Unheard(r, c) ==
    /\ listening' = [listening EXCEPT ![r] = @ \ {c}]
    /\ notes' = {n \in notes : n.to # r \/ n.by # c}

\* A LISTEN connection breaks: 'error', and 'end' later.
ListenerLost(r, c) ==
    /\ Lose
    /\ c \in listening[r]
    /\ Unheard(r, c)
    /\ Reschedule(r, closing[r] \cup {c})
    /\ UNCHANGED <<catalog, handlers, outgoing, heard, due, wire, client>>

\* The 'end' of a client, however late: it does not ask whose end it is.
ListenerEnded(r, c) ==
    /\ c \in closing[r]
    /\ Unheard(r, c)
    /\ Reschedule(r, closing[r] \ {c})
    /\ UNCHANGED <<catalog, handlers, outgoing, heard, due, wire, client, losses>>

\* connect() gets a client to LISTEN, whether or not there is another...
ListenerBack(r) ==
    LET c == NewClient(listening[r] \cup closing[r]) IN
    /\ reconnects[r] > 0
    /\ PgClients \ (listening[r] \cup closing[r]) # {}
    /\ reconnects' = [reconnects EXCEPT ![r] = @ - 1]
    /\ thisClient' = [thisClient EXCEPT ![r] = {c}]
    /\ listening' = [listening EXCEPT ![r] = @ \cup {c}]
    /\ UNCHANGED <<catalog, handlers, outgoing, notes, closing, heard, due, wire, client, losses>>

\* ... or is refused, and leaves it to the timer that is set, or sets one.
ListenerRefused(r) ==
    /\ reconnects[r] > 0
    /\ \/ /\ reconnects[r] > 1
          /\ reconnects' = [reconnects EXCEPT ![r] = @ - 1]
          /\ UNCHANGED <<thisClient, closing>>
       \/ /\ thisClient[r] \cap listening[r] # {}
          /\ closing' = [closing EXCEPT ![r] = @ \cup (thisClient[r] \cap listening[r])]
          /\ thisClient' = [thisClient EXCEPT ![r] = {}]
          /\ UNCHANGED reconnects
    /\ UNCHANGED <<catalog, handlers, outgoing, notes, listening, heard, due, wire, client, losses>>

\* The stream of the client breaks: the browser connects again by itself, and
\* CatalogSseService stays in the state it is in.
Disconnected ==
    /\ stream' = "connecting"
    /\ servedBy' = {}
    /\ subscribed' = FALSE
    /\ frames' = {}

\* A replica dies: what it had not published is never published, and the process
\* that takes its place starts its listener.
Crash(r) ==
    /\ Lose
    /\ handlers' = {h \in handlers : h.from # r}
    /\ outgoing' = {h \in outgoing : h.from # r}
    /\ notes' = {n \in notes : n.to # r}
    /\ listening' = [listening EXCEPT ![r] = {}]
    /\ thisClient' = [thisClient EXCEPT ![r] = {}]
    /\ closing' = [closing EXCEPT ![r] = {}]
    /\ reconnects' = [reconnects EXCEPT ![r] = 1]
    /\ \/ r \in servedBy /\ Disconnected
       \/ r \notin servedBy /\ UNCHANGED wire
    /\ UNCHANGED <<catalog, heard, due, client>>

----------------------------------------------------------------------------
(* The stream.                                                             *)

\* connect() after its token; if getToken rejects, it stays "connecting".
OpenStream ==
    /\ sse = "connecting" /\ stream = "none"
    /\ stream' = "connecting"
    /\ UNCHANGED <<server, servedBy, subscribed, frames, client, losses>>

\* A replica answers and writes the open frame...
StreamOpens(r) ==
    /\ stream = "connecting"
    /\ stream' = "open" /\ servedBy' = {r}
    /\ sse' = "live"
    /\ UNCHANGED <<server, subscribed, frames, fetches, known, everSucceeded, fetchFailedAtBoot, losses>>

\* ...and subscribes to its bus when that write is done.
Subscribe ==
    /\ stream = "open" /\ ~subscribed
    /\ subscribed' = TRUE
    /\ UNCHANGED <<server, stream, servedBy, frames, client, losses>>

StreamDrops ==
    /\ Lose
    /\ stream = "open"
    /\ Disconnected
    /\ UNCHANGED <<server, client>>

\* An error response: the browser gives up, and nothing connects again.
StreamRefused ==
    /\ Lose
    /\ stream = "connecting"
    /\ stream' = "closed"
    /\ sse' = "fallback"
    /\ UNCHANGED <<server, servedBy, subscribed, frames, fetches, known, everSucceeded, fetchFailedAtBoot>>

----------------------------------------------------------------------------
(* The authorizer.                                                         *)

\* refresh() begins; the first free slot keeps its place.
Start(s) ==
    /\ fetches[s] = Free
    /\ \A t \in 1 .. s - 1 : fetches[t] # Free
    /\ fetches' = [fetches EXCEPT ![s] = Sent]

\* A mutation frame of a capability arrives: svc.refresh().
Frame(w, s) ==
    /\ frames' = frames \ {w}
    /\ Start(s)
    /\ UNCHANGED <<server, stream, servedBy, subscribed, sse, known, everSucceeded, fetchFailedAtBoot, losses>>

\* The period of the timer; the effect on sse.state() sets it again.
IntervalLiveOff(state) ==  \* faulty: events are trusted, so no polling when live
    IF state = "live" THEN 0 ELSE BaseInterval

Interval(state) == IF state = "live" THEN BaseInterval * 10 ELSE BaseInterval

\* startPolling starts no timer for an interval of 0.
Poll(s) ==
    /\ Interval(sse) > 0
    /\ Start(s)
    /\ UNCHANGED <<server, wire, sse, known, everSucceeded, fetchFailedAtBoot, losses>>

\* The catalog answers GET /capabilities?lifecycle=disabled from its tables.
Answer(s) ==
    /\ fetches[s].step = "sent"
    /\ fetches' = [fetches EXCEPT ![s] = [step |-> "answered", list |-> catalog]]
    /\ UNCHANGED <<server, wire, sse, known, everSucceeded, fetchFailedAtBoot, losses>>

\* The answer arrives, in whatever order: refresh() sets what it holds.
Arrive(s) ==
    /\ fetches[s].step = "answered"
    /\ fetches' = [fetches EXCEPT ![s] = Free]
    /\ known' = fetches[s].list
    /\ everSucceeded' = TRUE
    /\ fetchFailedAtBoot' = FALSE
    /\ UNCHANGED <<server, wire, sse, losses>>

\* refresh() fails, at any of its awaits.
FailEmpty(s) ==  \* faulty: an empty list is taken for no answer yet
    /\ Lose
    /\ fetches[s].step # "free"
    /\ fetches' = [fetches EXCEPT ![s] = Free]
    /\ fetchFailedAtBoot' = (fetchFailedAtBoot \/ IsEmpty(known))
    /\ UNCHANGED <<server, wire, sse, known, everSucceeded>>

Fail(s) ==
    /\ Lose
    /\ fetches[s].step # "free"
    /\ fetches' = [fetches EXCEPT ![s] = Free]
    /\ fetchFailedAtBoot' = (fetchFailedAtBoot \/ (IsEmpty(known) /\ ~everSucceeded))
    /\ UNCHANGED <<server, wire, sse, known, everSucceeded>>

Server ==
    \/ \E h \in handlers : Publish(h)
    \/ \E h \in outgoing : Notify(h) \/ NotifyFails(h)
    \/ \E n \in notes : Receive(n)
    \/ \E r \in Replicas : Write(r) \/ ListenerBack(r) \/ ListenerRefused(r) \/ Crash(r)
    \/ \E r \in Replicas, c \in PgClients : ListenerLost(r, c) \/ ListenerEnded(r, c)

Stream == OpenStream \/ Subscribe \/ StreamDrops \/ StreamRefused \/ \E r \in Replicas : StreamOpens(r)

Authorizer ==
    \E s \in Slots :
        (\E w \in frames : Frame(w, s)) \/ Poll(s) \/ Answer(s) \/ Arrive(s) \/ Fail(s)

Next == Server \/ Stream \/ Authorizer

\* The timer ticks for ever: every flip of sse restarts it, but sse flips at
\* most three times.  A fetch that was sent is answered or fails.
Fairness ==
    /\ WF_vars(\E s \in Slots : Poll(s))
    /\ \A s \in Slots : WF_vars(Answer(s)) /\ WF_vars(Arrive(s))

Spec == Init /\ [][Next]_vars /\ Fairness

----------------------------------------------------------------------------
(* What is claimed.                                                        *)

Event == [write : Writes, from : Replicas]

\* Every variable has its type.
TypeOK ==
    /\ catalog \in 0 .. MaxWrites
    /\ handlers \subseteq Event
    /\ outgoing \subseteq Event
    /\ notes \subseteq [write : Writes, from : Replicas, to : Replicas, by : PgClients]
    /\ listening \in [Replicas -> SUBSET PgClients]
    /\ thisClient \in [Replicas -> SUBSET PgClients]
    /\ closing \in [Replicas -> SUBSET PgClients]
    /\ reconnects \in [Replicas -> Nat]
    /\ heard \in [Replicas -> [Writes -> Nat]]
    /\ due \in [Replicas -> [Writes -> Nat]]
    /\ stream \in {"none", "connecting", "open", "closed"}
    /\ servedBy \subseteq Replicas
    /\ subscribed \in BOOLEAN
    /\ frames \subseteq Writes
    /\ sse \in {"connecting", "live", "fallback"}
    /\ fetches \in [Slots -> Fetch]
    /\ known \in 0 .. MaxWrites
    /\ everSucceeded \in BOOLEAN
    /\ fetchFailedAtBoot \in BOOLEAN
    /\ losses \in 0 .. MaxLosses

\* The bus of the replica that a write came in on emits it once, although all its
\* LISTEN clients get the echo; the bus of another emits it no more often than it
\* had clients listening when it was notified: once, unless a late 'end' has left
\* it with two, and whatever else breaks and reconnects.
EmittedOnce == \A r \in Replicas, w \in Writes : heard[r][w] <= due[r][w]

\* pg_notify closes the multi-replica gap: when nothing was lost and nothing is
\* under way, the bus of every replica has emitted every write.
QuietMeansHeard ==
    losses = 0 /\ handlers = {} /\ outgoing = {} /\ notes = {} =>
        \A r \in Replicas, w \in 1 .. catalog : heard[r][w] = 1

\* onInitialFetchFailure 'deny' hides every entry "until a successful fetch
\* lands": after one did, no later failure hides everything again, also when
\* the list was empty and fetches overlap.
NeverClosesAgain == everSucceeded => ~fetchFailedAtBoot

\* The app ends up with the catalog's list, although events, notifications and
\* streams are lost and answers overtake each other: the timer goes on.
CatchesUp == <>[](known = catalog /\ everSucceeded)
=============================================================================
