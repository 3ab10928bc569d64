# agentic-ui: TLA+ models, model checking and proofs

This directory specifies the concurrent and stateful core of agentic-ui in TLA+, checks the
specifications with TLC on small instances, and proves the properties that matter most with
TLAPS for every value of the constants. Paths below are relative to the repository's root;
`lib/` stands for `projects/agentic-ui/src/lib/`, `server/` for
`platform/agentic-catalog-server/src/`, `ingest/` for `platform/component-ingest-service/src/`,
`catalog-lib/` for `projects/agentic-ui/catalog/src/lib/`, `java/` for
`platform/agentic-catalog-service/src/main/java/com/acme/catalog/`.

Contents: [1 The system](#1-the-system) · [2 Modules](#2-modules) · [3 Runs](#3-runs) ·
[4 Fairness](#4-fairness) · [5 Proofs](#5-proofs) · [6 Findings](#6-findings) ·
[7 What is not modelled](#7-what-is-not-modelled) · [8 Plan](#8-plan)

## 1 The system

agentic-ui is an Angular library for applications that an agent drives through a chat, and a
platform around it: a catalog server that governs what such applications contain, a service
that ingests component remotes, adapters to other chat surfaces, and consoles. There are two
catalogs: a TypeScript server with PostgreSQL and a Java service that the Studio, the catalog
runtime and the ingest service talk to.

```
   user ── sendMessage/stop/reset ──> chat session ── AG-UI event stream ──  backend / agent server
                                          │ tool handlers, approvals
                                          v
   remote bundles ── apply/dispose ──> client registries <── playbook runner
                                          ^ allow-list
                                          │
   catalog server replica 1 ── SSE ──> capability authorizer ── GET, timer ──> any replica
        │  pg_notify / LISTEN
   catalog server replica 2 ── PostgreSQL: experiences, versions, publications, audit chain

   Studio ── PATCH, If-Match ──> Java catalog service ── events ──> catalog runtime of an app
                                          ^ rows of components        (forms, rules, pages)
   library upload ── jobs ──────> ingest service ── bundles, registry ──> remote bundles
```

### Inventory

| Component (source) | State | Operations | Hard behaviour | Correct when |
|---|---|---|---|---|
| **Chat session, run orchestrator** (`lib/chat/inject-agentic-chat.ts`, `run-orchestrator.ts`, `message-utils.ts`) | signals `messages`, `isLoading`, `lastError`, `activeLayout`; the current `AbortController`; per run a private copy of the messages, the open and completed calls, the turn | `sendMessage`, `stop`, `reset`, `clearLayout`; the event loop, `executeClientTools`, the settlement callbacks | runs overlap: an aborted run goes on until its next check, its callbacks write the shared signals | one un-aborted run; spinner tells the truth; aborted runs have no further effect; answers are earned; no turn follows before every client call has its one answer; every run settles |
| **Catalog server: experiences** (`server/routes/experiences.ts`, `server/repository/*`) | tables `experiences`, `experience_versions`, `experience_publications`, `catalog_audit`; advisory locks | create, patch, submit/approve/reject/deprecate/revoke, rollback, delete, publish, unpublish, rotate key | READ COMMITTED transactions of several statements overlap; connections break | audit chain verifies; versions dense and copies of the row; legal transitions; tombstones final; one active publication, of approved content; no deadlock |
| **Catalog events** (`server/events/*`, `server/routes/stream.ts`, `lib/platform/catalog-sse-service.ts`) | bus handlers, the LISTEN client, open streams | publish, notify, echo filter, stream, reconnects | nothing is stored or replayed; replicas, connections and streams fail | no event is emitted more often than clients were notified; none missed without a fault |
| **Capability authorizer** (`lib/platform/provide-catalog-capability-authorizer.ts`) | the set of disabled entries, `everSucceeded`, `fetchFailedAtBoot`, the timer | `refresh()` on boot, on events, on ticks | overlapping fetches answer in any order | converges to the catalog; fails closed only before the first answer |
| **Client registries, capability modules** (`lib/registries/registry-base.ts`, `lib/mfe/*`) | one list per registry, a conflict policy each; disposers held by hosts | `register`, `registerAll`, `removeBySource`, `apply()` and its disposer, load, prefetch | remotes arrive, fail and leave in any order; names clash | unique names; one `onDispose` each; nothing outlives its load; nobody else's entries are removed |
| **Playbook runner** (`lib/components/playbook-runner.ts`) | status per step, the pending decision, `cancelRequested` | `start`; `approve`, `skip`, `cancel` | decisions and a cancel between a resolved promise and the microtask that reads it | order, own approval, stop on failure, nothing starts after a cancel, a cancelled run ends |
| **LISTEN connection** (`server/events/pg-notify-listener.ts`) | client, `stopped`, reconnect timer, delay | start, connect with two awaits, error, end, timer, stop | handlers of an old client stay attached; a late `end` acts on its successor | one client listens; never given up |
| **Component ingest service** (`ingest/*`) | job map, remote registry and its file, work and artifact directories, catalog rows | ingest, re-ingest, enable/disable, delete, restart | jobs of one remote share a directory; delete during a build; death between two file operations | what is listed is served in its version; deleted remotes stay deleted; jobs end |
| **Catalog content hydration** (`catalog-lib/*`) | one registry per kind, the compiled rules, one `EventSource`, lookups in flight | boot in two rounds, hydrate, live sync | hydrates overtake each other; gap before subscribing; kind unknown | ends up with the catalog's content; forms have their rules |
| **Java catalog service** (`java/*`) | capabilities, experiences, their versions, publications | create, update, transition, rollback, delete, publish, unpublish, rotate key | threads with overlapping READ COMMITTED transactions; ETags; constraints | no lost update; dense versions that end with the row; only reviewed bodies published; one active publication |
| **Usage metering** (`lib/platform/provide-catalog-usage-metering.ts`) | queue, in-flight count, timer | record, flush, teardown | a rejected token after the batch left the queue | a recorded event is sent once; a failed flush blocks nothing |
| **Approval, operation registries** (`lib/registries/`) | records with a status | enqueue, decide, cancel | decisions after the run is gone | one decision per record |
| **Trigger runner**, **agent server**, **backends** | cron cache; thread stores; parsers | ticks; one handler per request; one event per frame | wall clock; concurrent requests of a thread | — |
| **Layout, workflow, decisions, planner** | documents | resolve, migrate, next step | pure | agree with their reference definitions |
| **MCP/Teams/M365/Copilot/OPA adapters, identity, telemetry, components, applications, schematics** | little or none | translation, views, generators | — | — |

`PROJECT.json` lists every component with its status, and under `hazards` the forty places
where this code is hard to test, each with the properties that cover it.

## 2 Modules

| Module | Models | Checked by | Proved in |
|---|---|---|---|
| `RunLifecycle` | abstract: runs start, are aborted, settle once | through `ChatSession` | `ChatSessionProofs` |
| `ChatSession` | chat session and run orchestrator | `MCChatSession` | `ChatSessionProofs` |
| `ExperienceCatalog` | the writing endpoints of experiences, as transactions | `MCExperienceCatalog` | `ExperienceCatalogProofs` |
| `GovernedCatalog` | abstract: a request that succeeds is one operation on rows, histories, embeds and the log | through `ExperienceCatalog` | `ExperienceCatalogProofs` |
| `PlaybookRunner` | one run of a playbook | itself | `PlaybookRunnerProofs` |
| `CatalogSync` | events, stream and authorizer together | itself | `CatalogSyncProofs` |
| `CapabilityRemotes` | registries and the remotes that fill them | `MCCapabilityRemotes` | `CapabilityRemotesProofs` |
| `NotifyListener` | the LISTEN connection of a replica | itself | `CatalogSyncProofs` |
| `IngestService` | the component ingest service | `MCIngestService` | `IngestServiceProofs` |
| `CatalogHydration` | boot and live sync of an app's content | itself | `CatalogHydrationProofs` |
| `CatalogService` | the Java catalog: capabilities, experiences, publications | `MCCatalogService` | `CatalogServiceProofs` |

Definitions whose comment begins with *faulty* or *Wrong* are plausible mistakes in the definition that
follows them. No specification uses them; each property is violated once one of them takes the
place of its correct counterpart, which is recorded under `mutants` in `PROJECT.json`.

### ChatSession and RunLifecycle

JavaScript is single threaded, so an action is the code between two awaits. A run suspends in
four places: at the next event of the backend's stream (`pc[r] = "streaming"`), at a tool handler
(`"handler"`), and where `for await` is left early and awaits the `return()` of the stream: after
a run-error event (`"erring"`) and after an abort (`"leaving"`). Everything else interleaves
exactly there.

| TLA+ | Code |
|---|---|
| `SendMessage`, `SendUnbacked`, `Stop`, `Reset`, `ClearLayout` | the controller's methods, with and without a backend |
| `TextDelta`, `WidgetRender`, `ToolCallStart`, `ToolCallEnd`, `ToolCallResult`, `LayoutRender`, `OtherEvent`, `RunErrorEvent` | the cases of the event loop; `Event` is the abort check and the schema, `Publish` the write of the run's list into the signal that ends each iteration |
| `ErrorShown` | what follows a run error once the stream has returned: the error message, with no other look at the signal |
| `EventAfterAbort`, `AbortThrown` | the abort check that throws, and the end of the run once the stream has returned |
| `BackendThrows` | a stream that fails, at an event or in its `return()` |
| `StreamEnd`, `HandlerReturns` | both continue with `Dispatch`: the loop of `executeClientTools` up to the next handler to await, or `EndTurn`: results attached, transcript written, next turn or end |
| `Settle` | the end of the run with its `then`/`catch`/`finally` callbacks |
| `Attach`, `Kept`, `Holding` | `attachToolCall`, in which the newest version of a call's id replaces older ones, and the search for a message with a call |

The hop from the end of a run to its callbacks is a chain of microtasks in which no user call
can come, and is one step with the end. Text, arguments, results and props are abstracted; of a
message remain its id and its calls, as a set: id, tool, and whether the call is `open`, answered
by its handler (`result`, `error`), by a card of the approval queue (`queued`), or by the backend
(`told`).

The ids of messages and calls are the backend's (`MsgIds`, `CallIds`) and the code checks none of
them: a call may be started or ended twice, an id may come again in a later turn or run, be a
message's and a call's at once, and a `tool-call-result` applies to whatever call of that id is
shown, a client's or a guarded one too. Nor is this far-fetched: where the
model's frames give no id, `hashbrown-frame-mapper.ts:77` numbers calls from 0 in every turn of a
run. `approvals` and `executed` know a call with its
run and turn; `executed` and `resetAt` are history. `RunLifecycle` is what the session promises
about runs; `ImplementsLifecycle` maps `controller` to `driver`, `isLoading` to `spinner`, and the
four live values of `pc` to `live`.

### ExperienceCatalog and GovernedCatalog

A request is one transaction of `withTenantScope`, an action one of its SQL statements. The
model of READ COMMITTED is explicit:

- a statement sees what is committed when it starts; `rows`, `versions`, `audit`,
  `publications` hold committed data, `newRow`, `newVersion`, … what each transaction wrote;
- an UPDATE waits for the transaction that has written its row (`RowFree`, `PubFree`) and then
  evaluates its WHERE on the committed row again (`Update`; `Scan` and `Recheck` separately,
  because the publication update finds its rows by a predicate and an insert meanwhile is not
  seen);
- an INSERT waits for an unfinished one with the same unique key, and fails on a committed one;
- `pg_advisory_xact_lock` is `locks`, released with the transaction by `Release`;
- `Lose` breaks the connection before any statement.

`Find*` is the first SELECT with the 404 and 409 exits; `Insert`, `Snapshot`, `Update`,
`UpdateMisses`, `Reread` the statements on `experiences`; `Latest`, `Scan`, `Recheck*`,
`PubInsert` the publication; `LockAudit`, `ReadHead`, `InsertAudit` are `appendAudit`;
`LockVersions`, `ReadVersionMax`, `InsertVersion` are `appendExperienceVersion`. A row's
content and an audit hash are named for the request that wrote them, so that equality of names
is equality of content. One tenant: tenants share no row, chain or lock.

`GovernedCatalog` is what the endpoints promise together, without statements, locks or pending
writes: a request that succeeds is one operation (`Create` … `Rotate`) on the catalog as it is at
that moment, and the next entry of the log; one that fails is nothing. `Record`, `History`,
`Embedded` and `Log` of ExperienceCatalog read this state off the committed tables, and
`ImplementsGoverned` is the refinement. Two operations are weaker than one would like, because
the code is: `Repeat`, the empty patch, appends some earlier version again and not necessarily
the last one, to a tombstone's history too (`IsRepeat` marks such versions), and `Publish` embeds a content that was approved once and need not be the row's
content any more.

### PlaybookRunner

`Enter` is the loop's body from its head to its first await. `Start`, `Decided`, `Succeeds`,
`Fails` resume the loop after each await; `Approve`, `Skip`, `Cancel` are the handle. A decision
only resolves a promise (`at = "decided"`), so that a cancel can still come before `Decided`.

### CatalogSync

`Write` is a committed change; `Publish`, `Notify`, `NotifyFails`, `Receive` the local emit, the
query and the notification with its echo filter; `Crash` the death of a replica, and
`ListenerLost`, `ListenerEnded`, `ListenerBack`, `ListenerRefused` its LISTEN connection: the
clients that notifications reach (`listening`), `this.client`, the clients whose `'end'` is to
come (`closing`), and the `connect()` calls to come. `Reschedule` is `scheduleReconnect()`. As in
the code a late `'end'` acts on the successor, so a replica may have two clients, each of which
is notified; `due` (history) counts the clients that were notified of a write. `OpenStream`, `StreamOpens`, `Subscribe`, `StreamDrops`, `StreamRefused`
the stream — the open frame and the subscription are two steps because the handler awaits the
write of the frame; `Frame` and `Poll` start `refresh()`, `Answer` is the catalog's read,
`Arrive` and `Fail` the rest of it. The list is abstracted to how many writes it has seen; odd
lists have a disabled entry, even ones are empty. Reads of the list by the user interface are
not steps. The bus, the server's stream and the browser's `EventSource` (external: it
reconnects by itself until an error response) are one module because the property is end to end.

### CapabilityRemotes

Everything but the loader's await is synchronous: an action is a whole `apply()` (`Apply`,
`ApplyThrows`), disposer (`Dispose`), prefetch or registration of the host. `Accepted`,
`Stored`, `Disposers`, `Clashes` are `register` and `registerAll` under the four conflict
policies, and `Stripped` what a disposer removes: by name first, then by source. Two registries
are kept, tools and capabilities; the others behave like tools (those
`loadRemoteCapabilities` hands over, see section 6). Nothing keeps a disposer from being called
again, a load's or the host's, and it then removes by name whatever it finds; `repeated` records
that it found something. `registered`, `disposed`, `overlapped` and `displaced` are history, too,
and `hostSpent` tells the host's first calls from later ones.

### NotifyListener

`connect()` awaits `client.connect()` and then the `LISTEN`: a client is `connecting`,
`subscribing`, `listening`, or `closing` between `client.end()` and its `'end'`. `Connected`,
`ConnectFails`, `Listens`, `ListenFails` resume after the awaits, `Lost` and `Ended` are the
handlers, `TimerFires` and `Stop` the rest. A client whose LISTEN is refused while a timer is set
is left as it is, connected and deaf (`mute`). `CatalogSync` keeps of this connection which
clients notifications reach, and the ends and `connect()` calls to come. A client object that has ended is used again, which keeps the model finite; `overlapped`
records that a timer fired while an ended client was not closed yet. `current` is `this.client`.
Where `CatalogSync` has a definition of the same name, the one here has the prefix `Listener`
(`ListenerSpec` …), so that one module can prove about both.

### IngestService

One Node process: what lies between two awaits is one action, and the process may die before,
after and, where it writes files, in the middle of one (`Crash`, `CrashServing`,
`CrashDeleting`). A job is the step it awaits (`unzipping`, `fetching` … `posting`). The work
directory is one per remote, as in the code, with what each step finds in it: unpacked upload,
tarballs, unpacked package, workspace, modules, output. Removing the old bundle, copying the new
one and writing the registry file may throw (`ServeFails`, `PersistFails`, `DeleteFails`): a job
then ends as failed, with the directory and the file as they are by then. `Begin` wipes it whoever uses it. The catalog's rows are those of the Java
catalog: a name that was deleted stays taken (`Burned`). `shared`, `torn`, `gone` and `spoiled`
are history, and name the ways the code leaves open.

### CatalogHydration

A GET of a kind is asked, read by the service (`Read`), and answered (`Hydrated`), each at any
time, so answers overtake one another. `HydrateThrows` is a registration that throws after the
registry was cleared, which leaves it `Partial`. `BootRest` and `BootLive` are the two `Promise.all` of the
initializer and the subscription after them. `Frame` is `onmessage`, with the three sorts of
events it tells apart; `LookedUp` the lookup of an unknown kind. Sources differ only in how they
turn rows into definitions, but for forms, which are compiled with the validation rules of that
moment (`rules`), and for the application, which listens to experiences, too. The rows of a kind
are their version; the catalog always has an application (an empty list is taken for an error
and leaves the old one). `spoiled` names the ways the code leaves open: a failed GET or
registration, an older answer that came last, an edit nobody heard of.

### CatalogService

A request of a thread is `Load` (or `Create`, `Publication`), `Number` or `Find`, and `Commit` or
`Settle`, because JPA writes when the transaction commits. `NotMoved` is Hibernate's `@Version`,
which only capabilities have, `NewNumber` the unique constraint on versions. `IfMatch` is a
client that sends the ETag of a row it has seen. Experiences and capabilities are both items and
differ where the services differ: `AfterEdit`, `RolledBack`, `Patches`. `reviewed` and `raced`
are history.

## 3 Runs

`pass` runs explore their whole state space. Deadlock is not checked because every model stops
when its bounded supply of prompts, requests, steps, writes or loads is used up; that nobody
waits for ever is a liveness property where it is in question.

| Run | Distinct states | Shows |
|---|---|---|
| `chat_races` | 256,312 | two prompts of two turns, with stops, resets, unbacked prompts and layouts at every await: the refinement `ImplementsLifecycle`, `SpinnerStolenOnlyByStaleRun`, `NoLayoutFromBeforeReset`, `AbortedRunOnlySettles`, `EveryRunSettles` |
| `chat_tools` | 2,761,275 | one prompt of two turns of up to four events: client, guarded and server tools around text and widgets, their ids repeated, ended twice and answered by the backend: `AnswersAreEarned`, `NextTurnIsAnswered` |
| `catalog_history` | 1,194,906 | four requests on two experiences, any of nine endpoints each, empty patches among them: `AuditChainIntact`, `NoAppendFails`, `VersionsFollowRows`, `TombstonesFrozen`, `StatesMoveLegally` |
| `catalog_publish` | 173,723 | three requests on one seeded experience: `OneActivePublication`, `PublishedWasApproved`, `EveryRequestEnds`, the refinement `ImplementsGoverned` |
| `playbook` | 36,992 | all 256 playbooks of four steps: `StepsKeepTheirOrder`, `GuardedStepsWereApproved`, `NothingStartsAfterCancel`, `CancelEnds` |
| `catalog_sync` | 185,145 | two replicas of up to two LISTEN clients, one write, two fetches at once, one fault: `EmittedOnce`, `QuietMeansHeard`, `NeverClosesAgain`, `CatchesUp` |
| `capability_remotes` | 1,152,139 | two loads each of two remotes, a host tool, prefetches, disposers called again and again, each of 16 pairs of policies: `OnDisposeOnce`, `NothingOutlivesItsLoad`, `ToolsLeaveWithTheirOwner`, `NamesakesCoexist` |
| `listener` | 11,717 | four clients, two losses and two late ends: `OneListener`, `ComesBack` |
| `ingest` | 252,121 | two ingests, re-ingests and deletions of a seeded remote, one death, failing call or failing file operation: `ListedIsServed`, `DeletedIsGone`, `JobsEnd` |
| `hydration` | 88,688 | boot and live sync of four kinds, two edits, one fault: `QuietIsCurrent`, `FormsHaveRules`, `EditsShow` |
| `java_catalog` | 388,755 | four requests of two threads on a capability and an experience: `LogTellsTheRow`, `OnlyTheLastIsActive`, `NoLostUpdate`, `PublishedAsReviewed` |
| `chat_reset_doc` | — | what a comment says and the code does not do (section 6) |

### Bounds and why they are enough

- **ChatSession.** `MaxSends` = 2: any two runs, one current and one stale, meet;
  more generations are covered by the proof of the refinement. `MaxLocalTurns` = 2
  makes the loop go round and stop at its limit. `MaxEvents` = 2 is a call's start and end; 4
  in `chat_tools` lets two calls open and end, one start, end twice and be answered by the
  backend, or text or a widget come between. Two ids of calls are two calls, or one and its
  repetition, within a turn and in the next; they are interchangeable (`Ids`, a symmetry, for
  safety only). Runs meet in `chat_races`, with one id that all of them use. One text message id
  suffices: a run follows only the last one. `EventKinds` leaves
  out events the properties of a run cannot tell apart; between them the runs use all kinds.
- **ExperienceCatalog.** Two transactions suffice for every race of two statements; the third
  and fourth give chains (A overtakes B overtakes C) and lengths at which a gap or a repeated
  position could appear. Two experiences share the audit chain but not the version chain. The
  publishing run starts from an existing experience, since publishing needs an approved one. Both
  runs have the empty patch, which takes the version lock but no row's.
  Requests are interchangeable, so `catalog_history` uses
  symmetry over them; `catalog_publish` does not, because symmetry is not sound for liveness.
- **PlaybookRunner.** Four steps: a step with steps before it, after it, and two of either kind.
- **CatalogSync.** Two replicas are the origin and another one. Two clients of a replica are what a
  late `'end'` leaves. One write: what happens to the event of a write depends on no other, and
  the safety properties are proved for any number; an answer from before it may overtake one from
  after it. One fault, anywhere: the properties that survive it are proved for any number or, for
  `CatchesUp`, need only that faults end. `BaseInterval` = 1: with 0 there is no timer and nothing to rely on.
- **CapabilityRemotes.** Two remotes, because a disposer removes either its own entry or
  somebody else's; two loads of each, because the old one and the new one overlap. All
  loads and the host share one tool name; one load has another tool before it, which is
  registered by the time the shared name throws. Disposers are called any number of times. One
  load is pinned to another version of the host, and its tools are skipped. The two loads of the
  other remote offer the same and are interchangeable (`Swap`, a symmetry).
- **NotifyListener.** Four clients: one open, and up to three that are still closing after two
  losses and two timers that were faster than the close. `Delays` are all the backoff can reach.
- **IngestService.** Two jobs of one remote are what shares a directory; two versions with
  different components, one offered by both, tell whose bundle and rows are there; one comes from
  npm with a choice of its components, the other as `.zip` and `.tgz`, looked at first; two deletions
  let one meet the rows of the other. One trouble, anywhere: a death, a call or a file operation that fails. The remote is a seed, so that a
  restart has something to bring back. Remotes share nothing but the registry file.
- **CatalogHydration.** One kind of each sort the code treats apart: the rules of the first
  round, forms, experiences, the application. Two edits let the answer of the first overtake the
  second's. One fault, anywhere.
- **CatalogService.** Two threads make every race of two requests, four requests a create, an
  approval and two that meet on its result. One capability and one experience: items share
  nothing. Two bodies tell an edit from its base. Symmetry over threads, for safety only.

## 4 Fairness

| Specification | Assumed | Why the code justifies it |
|---|---|---|
| `ChatSession` | WF of `RunStep(r)` for each run | streams, their `return()` and handlers come to an end. A handler that never returns leaves its run, and only it, under way; the session is no longer blocked by it once another prompt is sent |
| `ExperienceCatalog` | WF of `Statement(t)` for each request | a handler awaits its statements one after the other, and PostgreSQL executes each when what it waits for is released. Starting a request, and losing a connection, are not fair |
| `PlaybookRunner` | WF of `Loop` | the loop is a chain of promises, and tool handlers return or throw. The user need not decide |
| `CatalogSync` | WF of starting a poll, and of `Answer` and `Arrive` of each fetch | `setInterval` goes on for ever; each change of the stream's state restarts it, but the state flips at most three times (connecting, live, fallback). A fetch is answered or fails. Events, notifications and streams are not fair: none of them need arrive |
| `NotifyListener` | WF of the timer, of an answer to `LISTEN` and of the end of a closed client; SF of `Connected` | PostgreSQL accepts again and again, though it may refuse in between (hence SF); it answers, and closes what is ended. Losses and `stop()` are not fair |
| `IngestService` | WF of each job and each deletion | `exec` has a timeout, so processes exit, and calls of the catalog are answered or fail. Requests, deaths and failures are not fair |
| `CatalogHydration` | WF of reads, answers, lookups, the boot, the reconnect and `Frame` | requests are answered or fail, the browser reconnects by itself, and what was received is handled |
| `RunLifecycle`, `GovernedCatalog`, `CapabilityRemotes`, `CatalogService` | none | only safety is claimed |

## 5 Proofs

TLAPS checks every theorem below for all values of the constants that satisfy the named
assumptions: `BoundsAssumption` and `ToolsAssumption` (ChatSession), `TxnsAssumption` and
`SeedAssumption` (ExperienceCatalog), `NAssumption` (PlaybookRunner), `SyncAssumption`
(CatalogSync), `RemotesAssumption` (CapabilityRemotes), `ListenerAssumption` (NotifyListener),
`IngestAssumption` (IngestService), `HydrationAssumption` (CatalogHydration),
`CatalogServiceAssumption` (CatalogService). They say that bounds are naturals, tools are
divided up, reserved names are not used, modules list no name twice, and rules are fetched in
the first round of the boot, forms in the second.

| Theorem | Establishes | Argument |
|---|---|---|
| `Implements` | `ImplementsLifecycle`: `ChatSession` implements `RunLifecycle` | `Shape(r)`: every step of a run either goes on, leaving phase and spinner alone, or settles; `Dispatch` is the one that needs the case analysis |
| `DriverSafe` | `OneDriver`, `SpinnerMeansDriver`, `SpinnerStolenOnlyByStaleRun` | `DriverInv`: the current run and the aborted ones have started, and no run newer than the current one has; so a run that settles under the driver, and takes its spinner, is an older, aborted one |
| `AbortedRunsOnlySettle` | `AbortedRunOnlySettles` | the abort checks at the head of each loop, with `Control`: a run that streams has no handler to return, and one that leaves the stream does not come back to it |
| `ResetForgetsLayouts` | `NoLayoutFromBeforeReset` | `LayoutInv`: every live run from before the reset is aborted, so its layout events do not pass `Event` |
| `AnswersEarned` | `AnswersAreEarned` | `Account`: the calls shown in the transcript, in each run's copy and in its results so far all are `Earned`: what the backend tells is marked as such, and what a handler or a record answers is in `executed` or `approvals`, which only grow; `Handled`: no handler of a guarded tool is ever invoked |
| `TurnsAnswered` | `NextTurnIsAnswered` | `TurnInv`: the answers so far (`Answers`) cover every client call completed before `next`, one per id, each an error or earned by this run in this turn (`Given`), however often a backend repeats the id; `Attach` lets only the newest version of an id stay in the message of the turn, whatever it held, the backend's own answers included |
| `TypesOK` | `TypeOK`, the turn limit included | `Account` gives the types of messages and locals |
| `AuditChainHolds` | `AuditChainIntact` | `AuditInv`: whoever is past `auditLock` holds the lock (`AuditLocked`), so at most one; the head it read is still the head (`HeadIsCurrent`), since only a holder commits entries; hence its entry extends the chain (`Chained`, positions are exactly 1..n). The chain alone is not inductive: two holders of one head would both extend it |
| `VersionsAreDense`, `AppendsNeverClash` | versions are 1..n (the first conjunct of `VersionsFollowRows`); `NoAppendFails` | `VersionsInv`, the argument of `AuditInv` for the lock of each experience: the number read is still the highest (`LatestIsCurrent`), and what is to be committed follows it (`PendingFollows`) |
| `CatalogTypes` | `TypeOK` | `RowsInv`: every request is at a statement of its endpoint's program (`OnProgram`), and the row, version or publication that a statement dereferences is there (`ReadsRow`, `WritesRow`) |
| `OnePublicationIsActive` | `OneActivePublication` | `PubsInv`: of two requests with uncommitted rows neither touches the other's (`PendingPubs`), and who is to commit an active row also commits the end of the one it replaces, alone for that experience (`ActiveIsReserved`) |
| `PublishedIsApproved` | `PublishedWasApproved` | `ApprovedInv`: a row is committed with a version of its content and state (`RowsVersioned`), so what a publisher read as approved has an approved version, which stays whatever becomes of the row |
| `MovesAreLegal` | `StatesMoveLegally` | `MovesInv`: a pending row follows the committed one by a legal move, and nobody else has a pending row of the experience (`RowLocked`) |
| `HistoryFollowsRows`, `TombstonesStay` | `VersionsFollowRows`, `TombstonesFrozen` | `FollowInv`: a pending row replaces one that is not deleted and is committed with its copy (`PendingCopies`), and the highest version that is not an empty patch's is the row's copy (`LastIsCopy`). An empty patch locks no row: it appends a version of the row as it re-read it, which another request may have changed or deleted since (section 6); but what it re-read was committed with a version, so it only repeats one (`SourceOf`) |
| `RequestsAreAtomic` | `ImplementsGoverned`, empty patches included | `GovernedInv` is all of the above and, per request, `Own`: the row it is to commit is new or comes by a legal transition, edit or rollback from the *committed* row (`RowOf`), the version restored or repeated exists (`SourceOf`), version, audit entry and publication are what its endpoint makes of them (`VersionOf`, `EntryOf`, `EmbedOf`). A step of another request changes tables only by its COMMIT, and cannot change what a pending write starts from while the row, the publication or the advisory lock is held. Each endpoint's COMMIT is then one lemma (`CommitCreate` … `CommitPublish`) that names the operation; every other statement stutters |
| `PlaybookSafe`, `PlaybookOrder`, `PlaybookTypes` | `StepsKeepTheirOrder` (which is `InOrder`, `FailureStops` and `DoneIsTerminal`), `GuardedStepsWereApproved`, `TypeOK` | `LoopInv` splits the steps at `current` into `Past` (over, invoked only if approved), the current one, and `Future` (untouched); `Final` when done |
| `CancelStopsInvocations` | `NothingStartsAfterCancel` | every way to `Invoke` checks `cancelRequested`, or starts with it unset |
| `NoDoubleEmit` | `EmittedOnce` | `EventInv`: a write is in one stage of its way only — handler, query or notifications (`OneStage`) — and while it is before the notifications the other buses have not heard it (`NotYet`, `HomeOnly`); from then on what a bus has emitted and the notifications still on their way to it are no more than the clients that were notified (`WithinDue`), one notification per client. Counting the emits alone is not inductive |
| `NothingMissed` | `QuietMeansHeard` | `Coming`: without losses, a write some bus has not heard is still with its handler, its query or a notification to that bus |
| `SyncTypes` | `TypeOK` | `EventInv` types the server's side, each step the client's |
| `StaysOpen` | `NeverClosesAgain` | inductive as it stands |
| `RemotesSafe`, `DisposedOnce`, `LoadedHaveRecords`, `NamesAreUnique`, `RemotesTypes` | `UniqueNames`, `OnDisposeOnce`, `NothingOutlivesItsLoad`, `LoadedIsRecorded` (in no run), `TypeOK` | `IInv` adds `Stamped` (an entry's owner and source agree), `Fresh` (a load that has not arrived has no entry), `Apart`, `Held`, `RecordNames` |
| `ToolsLeave` | `ToolsLeaveWithTheirOwner` | `Held`: while loads of a remote do not overlap, nothing is displaced and no disposer called again finds something (`Quiet`), every name that a disposer not called yet holds is free or taken by an entry of its own source |
| `Coexist` | `NamesakesCoexist` | under `namespace` an arrival displaces only entries of its own remote, whose load is then still in place, which is an overlap; a disposer removes only what is its source's, by `Held` |
| `ListensOnce`, `ListenerTypes` | `OneListener`, `TypeOK` | `OneOpen` adds that while a client is open no timer is set and none is closing: otherwise the successor of a closing client could be ended by its `end` |
| `ListedAreServed` | `ListedIsServed` | `Alone`: while a work directory was never shared, at most one job of the remote is at its build, and the directory holds what that job's steps so far have put there (`Directories`), so the bundle it serves is of the version it registers; a step that stops between the removal of the old bundle and the record, by an exception or a death, is `torn` |
| `DeletedStaysGone` | `DeletedIsGone` | `Deserted`: a remote that was deleted while nobody worked on it has no job under way and no registry entry but a seed's; its rows, if any are left and the catalog answered, are ones a deletion under way is still to list or has all in its list (`Covers`), since nobody makes new ones |
| `IngestTypes` | `TypeOK` | `Asked` adds that jobs ask for versions there are |
| `QuietShowsAll` | `QuietIsCurrent` | `Followed`: an edit the app does not show yet is on its way (`OnItsWay`), in a frame, a lookup, a GET that has still to be read or an answer that has seen it, unless the kind is spoiled, by a registration that threw among others; what is shown or under way is never ahead of the catalog (`NotAhead`) |
| `RulesComeFirst` | `FormsHaveRules` | `RulesFirst`: no form is asked for in the first round, and rules that are missing without a failure are still awaited in it; `SilentBoot`: no stream, frame or lookup asks for a form before both rounds are over |
| `HydrationTypes` | `TypeOK` | the same invariant, `HInv` |
| `CatalogServiceTypes` | `TypeOK` | each request's record has the fields of its sort (`TxTypes`), and what it makes of a row is a row (`ResultsAreRows`) |
| `LosesNoUpdate` | `NoLostUpdate` | `Held`: a row that was read and has still the version of the row is the row, because every commit raises it; so what `NotMoved` lets through replaces what it was made of |
| `PublishesAsReviewed` | `PublishedAsReviewed` | `Made` and `ApprovedAsReviewed`: what is approved has the body of its approval, in the table and in every request that has read it and may still commit |
| `LogTells` | `LogTellsTheRow` | `Numbered`: a number taken is one above a number of the log; if it is free it is one above the highest, so the log has no gap and the row committed with it is the last. That is why experiences, without `@Version`, keep the property while they lose updates |
| `LastActive` | `OnlyTheLastIsActive` | `HoldsTheActive`: alone, a request holds the active publication or knows that there is none |

Proofs are stated in `*Proofs` modules that extend the modules TLC runs, over the very
specifications the runs check.

Every safety invariant and action property of the passing runs is stated by one of these
theorems, and so are both refinements. The modules' `TypeOK` are in no run, because the theorems show them for
all instances.

**Only model-checked** is liveness (`EveryRunSettles`, `EveryRequestEnds`, `CancelEnds`,
`CatchesUp`, `ComesBack`, `JobsEnd`, `EditsShow`), since TLAPS 1.4.5
does not reason about `ENABLED` and hence not about fairness. It has no induction over data
either (the theorems for it take an operator as a parameter) and no RECURSIVE operators; the
modules use none.

## 6 Findings

Refuted by TLC, in a run of its own, against what a comment of the repository says:

- **A reset transcript comes back** (`chat_reset_doc`). `runUntilSettled` does not look at the
  signal between the return of the last tool handler and the write of the transcript
  (`run-orchestrator.ts:261`); a handler that returns after `reset()` restores the old one.

Some properties hold only up to a named exception, and the exception is what the code does.
Without it TLC refutes them:

- **Two active publications** (`CatalogService!raced`). `PublishService` reads the active
  publication, revokes it and inserts another with neither a constraint nor a version: two
  publishes at once leave two active ones, and a key rotation that overlaps an unpublish writes
  `active` back. `V1__core_schema.sql:3` says "One active publication per experience" is enforced
  in the service layer.
- **An older list stays** (`CatalogHydration!spoiled`). Answers of two hydrates are not numbered
  (`content-sources.ts:54`), and an edit between the GET and the subscription
  (`provide-catalog-runtime.ts:100`), or while the browser reconnects, is not made up for; and a
  registration that throws after `removeBySource` (`content-sources.ts:55-59`, `:171-175`) leaves
  the registry partly filled.
- **Another version's bundle** (`IngestService!shared`, `torn`). Two jobs of a remote build in one
  directory (`pipeline.ts:57`). A death between `rmSync` and the registry, or a removal, copy or
  registry write that throws there (`:129-130`, caught at `:146-148`), leaves the older record
  listed without its bundle, with a part of it, or with another version's.
- **A deleted remote comes back** (`IngestService!gone`). A job that is under way while its remote
  is deleted registers it again (`pipeline.ts:136`).
- **Two LISTEN clients** (`NotifyListener!overlapped`). `connect()` does not ask whether there is a
  client, and a late `end` acts on the successor (`pg-notify-listener.ts:135`): both may listen,
  and every event is emitted twice; they may take turns in ending each other; and a `connect()`
  in flight at `stop()` still listens. `CatalogSync` has both clients: its `EmittedOnce` bounds the
  emissions of a remote write by the clients that were notified, not by one.
- **A disposer takes another remote's tool** (`CapabilityRemotes!displaced`). Under the default
  policy `replace`, disposers remove by name whatever has the name now (`capability-module.ts:152`,
  `registry-base.ts:314`); `capability-module.ts:78-79` says it strips "this remote's entries".
  Loads of one remote that overlap (`overlapped`) and a disposer that is called again
  (`repeated`; neither `capability-module.ts:151-164` nor `registry-base.ts:314` guards against it)
  do the same under every policy.

Other differences between text and code met while modelling:

| Where | Text, if any | Code |
|---|---|---|
| `pg-notify-listener.ts:41` | linear backoff | doubles (`:176`) |
| `catalog-sse-service.ts:118` | — | a second `connect()` opens a second `EventSource` |
| `routes/experiences.ts:145` | — | a patch of an approved experience leaves it approved |
| `experience-repo.ts:142` | — | an empty patch (`routes/experiences.ts:145-158` accepts it) locks no row and appends a version of the row as it re-read it, which may be stale or deleted by then: the last version need not be the row's, and a tombstone's history may grow by a repetition |
| `run-orchestrator.ts:204` | — | each `tool-call-end` of an open call completes it again: its handler runs twice, or two approval records are queued |
| `run-orchestrator.ts:307` | — | a `tool-call-result` answers whatever call of that id is shown, one that waits for its handler or an approval included, and one of an earlier turn |
| `hashbrown-frame-mapper.ts:77` | — | made-up ids of calls repeat in every turn of a run, so an answer may be attached to, or taken from, a call of an earlier turn |
| `ingest/server.ts:62-67` | — | a DELETE whose registry write throws has removed the remote from memory only: the next one answers 404, and a restart brings the record back, perhaps without its bundle |
| `run-orchestrator.ts:263` | — | later turns are sent without the state the first one got from `stateProvider` (`:134`) |
| `inject-agentic-chat.ts:207` | outcome of this run (`:200`) | reads the current controller's signal, perhaps another run's; only telemetry shows it |
| `playbook-runner.ts:34` | `approve()` approves the step that is awaiting approval | guarded steps are pre-marked as awaiting (`:86`), and an early `approve()` is dropped |
| `registry-base.ts:290`, `:63` | `onDispose` is awaited | not for an entry that is replaced (`:294`) |
| `registry-provider-hook.ts:22` | throws on other registries | may be installed on any |
| `load-remote-capabilities.ts:20` | `prefetchManifest` fills the CapabilityRegistry | `:52-55` only keeps the manifest |
| `load-remote-capabilities.ts:61` | — | hands over tools, components and capabilities only; a remote's triggers, dashboards and playbooks are dropped |
| `provide-catalog-capability-authorizer.ts:171` | — | reads the first 500 disabled entries only |
| `rest-mfe-registry.ts:138` | — | ticks of the poll may overlap |
| `experience-repo.ts:179` | 409 "instead of silently dropping an approval event" (`:155-165`) | compares the state only and writes back the whole chain: when the state has come back (deprecated again, or revoked and resubmitted), the events in between are overwritten |
| `routes/experiences.ts:343` | "pin its current version, freeze a self-contained render manifest" (`:320-321`) | number and content are read by two statements; a patch in between makes them differ |
| `content-sources.ts:135` | "covers form AND validation-rule edits" (`:134`) | listens to `form` only: an edited rule does not recompile the forms. `EditsShow` states what the code does: forms get the rules of the time when a form is edited |
| `catalog-client.ts:39` | events have no kind | the Java service sends it |
| `application-source.ts:137` | — | deleting the last application leaves it in the app |
| `ingest/registry.ts:26` | a record holds "enough to re-ingest" it | an upload over a remote that came from npm keeps the npm source, and a re-ingest drops `include` |
| `ingest/registry.ts:53` | — | a torn registry file falls back to the seeds silently |
| `ingest/catalog.ts:27` | — | a 409 leaves the old row with its old body; two remotes with a component of one name share its row |
| `java/service/CapabilityService.java:50`, `V1__core_schema.sql:20`, `:40` | — | the check ignores deleted rows, the constraint does not: a deleted name can never be used again and answers 500 |
| `java/web/ApiExceptionHandler.java:19` | — | only optimistic locking becomes 412; unique constraints answer 500 |
| `java/service/ExperienceService.java:69` | — | no `@Version`: overlapping updates of different fields and approval events are lost when the second reads the version number after the first has committed; a deletion may be undone |
| `java/service/ExperienceService.java:73`, `:105` | — | an edit or a rollback of an approved experience leaves it approved |
| `java/service/ExperienceService.java:123` | — | does not revoke the publication, and `unpublish` then answers 404 |
| `java/service/CapabilityService.java:92` | "before it can be published again" (`:90-91`) | an edit of a published capability keeps it published; an edit during review stays in review |

## 7 What is not modelled

- **Left for a next step:** usage metering (a best-effort queue with one consumer; a rejected
  `getToken` loses a batch, `provide-catalog-usage-metering.ts:152`), decisions on approval and
  operation records, the agent server's thread stores.
- **Same pattern as something modelled:** the other resources of the catalog (capabilities,
  tenants, agents, policies …) use the same transaction and the same audit chain with fewer
  statements.
- **Single actor or pure:** experience planner, composition, workflow and decision evaluation,
  layout resolver and migration. They keep no state that two actors change.
- **The wall clock:** the trigger runner matches cron expressions on a 30 s tick.
- **Translation and I/O:** backends' parsers (ChatSession takes the events they produce as
  arbitrary), MCP bridges, Teams/M365/Copilot/OPA adapters, identity, telemetry.
- **Views, generators, applications, tests, deployment.**

Inside the modelled components: telemetry, the order of calls in a message, the arguments and
results of tools, the capability bodies of a manifest, GET endpoints, scope policies and the
provider hook of registries, `disconnect()` of the stream, introspection and scaffolding of the
ingest service (an ingest's version says what it offers), policy bundles and planning of the Java
service, menu and routes of the catalog runtime.

## 8 Plan

Done, in this order: chat session, catalog transactions, playbook runner, catalog sync, remotes;
then LISTEN connection, ingest service, content hydration, Java catalog service; then the proofs
of all their safety properties, and the refinement of `GovernedCatalog`. What would add most next:

1. **A refinement** of `CatalogSync`'s listeners by `NotifyListener`.
2. **An abstract specification of the Java service**, which the TypeScript one shows the way to.
3. **Usage metering and approval records**, and the agent server's thread stores.
