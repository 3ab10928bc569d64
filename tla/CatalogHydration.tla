-------------------------- MODULE CatalogHydration --------------------------
(***************************************************************************)
(* How an app's registries follow the catalog (projects/agentic-ui/catalog: *)
(* provide-catalog-runtime.ts, content-sources.ts, catalog-client.ts).  At  *)
(* boot every source GETs the rows of its kind, in two rounds; then all of  *)
(* them subscribe to one EventSource, and an event makes the source of its  *)
(* kind GET its rows again.  Nothing numbers the answers, nothing replays   *)
(* what the stream missed, and nothing polls.                               *)
(*                                                                          *)
(* The rows of a kind are abstracted to their version, the number of edits. *)
(* The service (platform/agentic-catalog-service) is what it does to the    *)
(* app: it commits an edit, answers a GET, and sends an event.  The client  *)
(* takes events with the kind, which this service sends, and without it,    *)
(* and so does the model.                                                   *)
(***************************************************************************)
EXTENDS Integers, Sequences

CONSTANTS
    Kinds,        \* "validation", "form", "experience", "application" and others
    FirstRound,   \* the kinds hydrated first
    None,
    Partial,      \* a registry that was cleared, but not filled with all the rows
    MaxEdits,     \* bound: edits
    MaxFaults     \* bound: GETs and registrations that fail, events and connections lost

\* The rules come in the first round, the forms in the second.
ASSUME HydrationAssumption ==
    /\ FirstRound \subseteq Kinds
    /\ "validation" \in FirstRound /\ "form" \in Kinds \ FirstRound
    /\ MaxEdits \in Nat /\ MaxFaults \in Nat
    /\ None \notin Nat /\ Partial \notin Nat \cup {None}

VARIABLES
    catalog,   \* per kind: the version of its rows
    asked,     \* per kind: GETs the service has not read the rows for
    answers,   \* per kind and version: answers on their way
    content,   \* per kind: the version in the app's registry, None or Partial
    rules,     \* the content of the rules that the forms were compiled with
    boot,      \* "first", "rest" or "live": the round that is awaited
    stream,    \* "closed", "connecting" or "open"
    frames,    \* events on their way to the app
    lookups,   \* per kind: events that wait for the lookup of their kind
    edits, faults,
    spoiled    \* history, per kind: a GET or a registration failed, an older answer
               \* came last, or the GET before an edit and the stream missed it

app == <<content, rules, boot>>
vars == <<catalog, asked, answers, app, stream, frames, lookups, edits, faults, spoiled>>

Versions == 0 .. MaxEdits
Round(b) == IF b = "first" THEN FirstRound ELSE Kinds \ FirstRound

Init ==
    /\ catalog = [k \in Kinds |-> 0]
    /\ asked = [k \in Kinds |-> IF k \in FirstRound THEN 1 ELSE 0]
    /\ answers = [k \in Kinds |-> [v \in Versions |-> 0]]
    /\ content = [k \in Kinds |-> None] /\ rules = None
    /\ boot = "first"
    /\ stream = "closed" /\ frames = <<>>
    /\ lookups = [k \in Kinds |-> 0]
    /\ edits = 0 /\ faults = 0
    /\ spoiled = [k \in Kinds |-> FALSE]

Fault == faults < MaxFaults /\ faults' = faults + 1

----------------------------------------------------------------------------
(* The service *)

\* A GET of kind k that is still to be read, now or later in the boot.
ToBeRead(k) == asked[k] > 0 \/ (boot = "first" /\ k \notin FirstRound)

\* A row of kind k is created, updated or deleted, and the subscribers are told:
\* of an experience by its type, of a capability with its kind or without ("bare"
\* or, if the row is gone, "delete").  A service that dies after the commit tells
\* nobody.
Edit(k) ==
    /\ edits < MaxEdits /\ edits' = edits + 1
    /\ catalog' = [catalog EXCEPT ![k] = @ + 1]
    /\ \/ /\ stream = "open"
          /\ \E event \in {"told", "bare", "delete"} :
                /\ k = "experience" => event = "told"
                /\ frames' = Append(frames, [kind |-> k, event |-> event])
          /\ UNCHANGED <<spoiled, faults>>
       \/ /\ \/ stream # "open" /\ UNCHANGED faults
             \/ stream = "open" /\ Fault
          /\ spoiled' = [spoiled EXCEPT ![k] = @ \/ ~ToBeRead(k)]
          /\ UNCHANGED frames
    /\ UNCHANGED <<asked, answers, app, stream, lookups>>

\* The service reads the rows a GET asks for.
Read(k) ==
    /\ asked[k] > 0
    /\ asked' = [asked EXCEPT ![k] = @ - 1]
    /\ answers' = [answers EXCEPT ![k][catalog[k]] = @ + 1]
    /\ UNCHANGED <<catalog, app, stream, frames, lookups, edits, faults, spoiled>>

----------------------------------------------------------------------------
(* The app *)

\* The GETs of kind k that the app awaits.
Awaited(k) == asked[k] > 0 \/ \E v \in Versions : answers[k][v] > 0

\* hydrate() goes on with an answer, whichever comes: the registry is cleared and
\* filled with no await in between; forms are compiled with the rules of now.
Fill(k, v, filled) ==
    /\ answers[k][v] > 0
    /\ answers' = [answers EXCEPT ![k][v] = @ - 1]
    /\ content' = [content EXCEPT ![k] = filled]
    /\ rules' = IF k = "form" THEN content["validation"] ELSE rules
    /\ UNCHANGED <<catalog, asked, boot, stream, frames, lookups, edits>>

Hydrated(k, v) ==
    /\ Fill(k, v, v)
    /\ spoiled' = [spoiled EXCEPT ![k] = @ \/ (content[k] \in Versions /\ v < content[k])]
    /\ UNCHANGED faults

\* A row cannot be registered: it is left out, or the rows after it are, too.
HydrateThrows(k, v) ==
    /\ Fault
    /\ Fill(k, v, Partial)
    /\ spoiled' = [spoiled EXCEPT ![k] = TRUE]

\* A GET fails, before or after it was read: the content stays as it was.
HydrateFails(k) ==
    /\ Fault
    /\ \/ asked[k] > 0 /\ asked' = [asked EXCEPT ![k] = @ - 1] /\ UNCHANGED answers
       \/ \E v \in Versions : /\ answers[k][v] > 0
                              /\ answers' = [answers EXCEPT ![k][v] = @ - 1]
                              /\ UNCHANGED asked
    /\ spoiled' = [spoiled EXCEPT ![k] = TRUE]
    /\ UNCHANGED <<catalog, app, stream, frames, lookups, edits>>

\* Wrong: the second round does not wait for the first.
BootRestAtOnce ==
    /\ boot = "first"
    /\ boot' = "rest"
    /\ asked' = [k \in Kinds |-> IF k \in FirstRound THEN asked[k] ELSE 1]
    /\ UNCHANGED <<catalog, answers, content, rules, stream, frames, lookups,
                   edits, faults, spoiled>>

\* The first round has settled, whatever came of it: the second starts.
BootRest ==
    /\ boot = "first" /\ \A k \in FirstRound : ~Awaited(k)
    /\ boot' = "rest"
    /\ asked' = [k \in Kinds |-> IF k \in FirstRound THEN 0 ELSE 1]
    /\ UNCHANGED <<catalog, answers, content, rules, stream, frames, lookups,
                   edits, faults, spoiled>>

\* The second round has settled: the sources subscribe, the stream is requested.
BootLive ==
    /\ boot = "rest" /\ \A k \in Kinds : ~Awaited(k)
    /\ boot' = "live"
    /\ stream' = "connecting"
    /\ UNCHANGED <<catalog, asked, answers, content, rules, frames, lookups,
                   edits, faults, spoiled>>

\* The service subscribes the app.
Connected ==
    /\ stream = "connecting"
    /\ stream' = "open"
    /\ UNCHANGED <<catalog, asked, answers, app, frames, lookups, edits, faults, spoiled>>

\* The connection is lost, with the events on their way; the browser reconnects.
Dropped ==
    /\ stream = "open" /\ Fault
    /\ stream' = "connecting" /\ frames' = <<>>
    /\ spoiled' = [k \in Kinds |-> spoiled[k] \/
          \E i \in DOMAIN frames : frames[i].kind = k]
    /\ UNCHANGED <<catalog, asked, answers, app, lookups, edits>>

\* The sources an event of kind k is for; of an unknown kind, all but that of
\* the experiences.  The application's source listens to experiences, too.
Source(k) == {k} \cup (IF k = "experience" THEN {"application"} \cap Kinds ELSE {})
Capabilities == Kinds \ {"experience"}

\* Wrong: no hydrate is started while one is awaited.
FanOutOnce(sources, n) ==
    asked' = [k \in Kinds |-> IF k \in sources /\ ~Awaited(k) THEN 1 ELSE asked[k]]

\* fanOut: each of the sources starts a hydrate, n times.
FanOut(sources, n) ==
    asked' = [k \in Kinds |-> IF k \in sources THEN asked[k] + n ELSE asked[k]]

\* onmessage: an event without a kind waits for its lookup, unless it is a delete.
Frame ==
    /\ frames # <<>> /\ frames' = Tail(frames)
    /\ LET f == Head(frames) IN
       \/ f.event = "told" /\ FanOut(Source(f.kind), 1) /\ UNCHANGED lookups
       \/ f.event = "delete" /\ FanOut(Capabilities, 1) /\ UNCHANGED lookups
       \/ /\ f.event = "bare"
          /\ lookups' = [lookups EXCEPT ![f.kind] = @ + 1]
          /\ UNCHANGED asked
    /\ UNCHANGED <<catalog, answers, app, stream, edits, faults, spoiled>>

\* Wrong: an event whose kind cannot be looked up is dropped.
LookedUpOrDropped(k) ==
    /\ \E n \in 1 .. lookups[k] :
          /\ lookups' = [lookups EXCEPT ![k] = @ - n]
          /\ FanOut(Source(k), n) \/ UNCHANGED asked
    /\ UNCHANGED <<catalog, answers, app, stream, frames, edits, faults, spoiled>>

\* The lookup of a row is answered or fails, for the n events that share it; when it
\* fails, nothing is known of the kind.
LookedUp(k) ==
    /\ \E n \in 1 .. lookups[k] :
          /\ lookups' = [lookups EXCEPT ![k] = @ - n]
          /\ FanOut(Source(k), n) \/ FanOut(Capabilities, n)
    /\ UNCHANGED <<catalog, answers, app, stream, frames, edits, faults, spoiled>>

----------------------------------------------------------------------------
Answered(k) == \E v \in Versions : Hydrated(k, v)
Boot == BootRest \/ BootLive

Next ==
    \/ \E k \in Kinds : \/ Edit(k) \/ Read(k) \/ Answered(k) \/ HydrateFails(k) \/ LookedUp(k)
                        \/ \E v \in Versions : HydrateThrows(k, v)
    \/ Boot \/ Connected \/ Dropped \/ Frame

\* Requests and lookups are answered, events arrive, the browser reconnects.
Spec ==
    /\ Init /\ [][Next]_vars
    /\ \A k \in Kinds : WF_vars(Read(k)) /\ WF_vars(Answered(k)) /\ WF_vars(LookedUp(k))
    /\ WF_vars(Boot) /\ WF_vars(Connected) /\ WF_vars(Frame)

----------------------------------------------------------------------------
TypeOK ==
    /\ catalog \in [Kinds -> Versions]
    /\ asked \in [Kinds -> Nat] /\ lookups \in [Kinds -> Nat]
    /\ answers \in [Kinds -> [Versions -> Nat]]
    /\ content \in [Kinds -> Versions \cup {None, Partial}]
    /\ rules \in Versions \cup {None, Partial}
    /\ boot \in {"first", "rest", "live"}
    /\ stream \in {"closed", "connecting", "open"}
    /\ frames \in Seq([kind : Kinds, event : {"told", "bare", "delete"}])
    /\ edits \in 0 .. MaxEdits /\ faults \in 0 .. MaxFaults
    /\ spoiled \in [Kinds -> BOOLEAN]

\* Nothing of kind k is under way.
Quiet(k) ==
    /\ boot = "live" /\ frames = <<>> /\ ~Awaited(k)
    /\ \A l \in Kinds : lookups[l] = 0

\* When nothing is under way the app shows the rows the catalog has, whatever
\* arrived in whatever order, but for the ways the code leaves open: a GET or a
\* registration failed, an older answer came last, or an edit fell between the GET
\* and the stream or into a gap of it.
QuietIsCurrent == \A k \in Kinds : Quiet(k) => spoiled[k] \/ content[k] = catalog[k]

\* No form is compiled without all the validation rules, unless these could not be
\* loaded; a failed GET leaves the rules there are.
FormsHaveRules ==
    content["form"] # None /\ rules \notin Versions => spoiled["validation"]

Shows(k, v) == content[k] \in v .. MaxEdits

\* But for the same ways, every edit comes to the registry of its kind in the end, if
\* only until an older answer does, and when an edit of a form comes, the forms are
\* compiled with the rules that the app had by then.  An edit of a rule alone reaches
\* the registry of the rules and no form: the forms keep the rules they were compiled
\* with until a form is edited.
EditsShow ==
    /\ \A k \in Kinds : \A v \in Versions : catalog[k] = v ~> spoiled[k] \/ Shows(k, v)
    /\ \A v, w \in Versions :
          Shows("validation", v) /\ catalog["form"] = w /\ ~Shows("form", w)
             ~> \/ spoiled["validation"] \/ spoiled["form"]
                \/ Shows("form", w) /\ rules \in v .. MaxEdits
=============================================================================
