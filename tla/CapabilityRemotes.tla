-------------------------- MODULE CapabilityRemotes --------------------------
(***************************************************************************)
(* Remotes that contribute to the host's registries:                       *)
(* loadRemoteCapabilities and prefetchCapabilities (mfe/), apply() and the *)
(* disposer of defineCapabilityModule (mfe/capability-module.ts), over the *)
(* registries of registries/registry-base.ts.                              *)
(*                                                                         *)
(* Everything but the loader's await is synchronous, so an action is a     *)
(* whole apply() or disposer.  A load reads nothing of the registries      *)
(* before its bundle has arrived: every load of Loads is under way from    *)
(* the start, and they arrive in any order.                                *)
(*                                                                         *)
(* Two registries are kept, `tools` and `capabilities`; those of           *)
(* components, triggers, dashboards and playbooks are treated like         *)
(* `tools`.  The order of a registry, its scope policy (which filters      *)
(* reads) and its provider hook are left out.                              *)
(***************************************************************************)
EXTENDS Integers, Sequences, FiniteSets

CONSTANTS
    Remotes,    \* names of remotes
    Loads,      \* bound: calls of loadRemoteCapabilities in a behaviour
    RemoteOf,   \* the remote each of them loads
    Offers,     \* the names of the tools its module contributes, in order
    Pinned,     \* loads whose tools require another version of the host
    HostTools,  \* names of tools the host registers itself
    Policies    \* conflict policies the host may set on a registry

Owners == Loads \cup {"host", "prefetch"}
Sources == Remotes \cup {"host"}
Listed(l) == {Offers[l][i] : i \in DOMAIN Offers[l]}
ToolNames == HostTools \cup UNION {Listed(l) : l \in Loads}

\* A module lists no name twice.
ASSUME RemotesAssumption ==
    /\ Remotes \cap {"host", ""} = {}
    /\ "host" \notin Loads /\ "prefetch" \notin Loads
    /\ RemoteOf \in [Loads -> Remotes]
    /\ \A l \in Loads : Offers[l] \in Seq(Listed(l))
    /\ \A l \in Loads : \A i, j \in DOMAIN Offers[l] : Offers[l][i] = Offers[l][j] => i = j
    /\ Policies \subseteq {"replace", "throw", "first-wins", "namespace"}

VARIABLES
    tools,         \* entries of the ToolRegistry
    capabilities,  \* entries of the CapabilityRegistry
    toolPolicy,    \* ToolRegistry.conflictPolicy
    capPolicy,     \* CapabilityRegistry.conflictPolicy
    status,        \* each load: "loading", "applied", "failed" or "disposed"
    undo,          \* names the disposers of each load remove from tools
    capUndo,       \* names they remove from capabilities
    hostUndo,      \* tools the host registered and holds the disposer of
    hostSpent,     \* those of them whose disposer it has called
    registered,    \* history: tool entries that were ever registered
    disposed,      \* history: tool entries whose onDispose was called
    overlapped,    \* history: a load arrived while another one of its remote was live
    displaced,     \* history: a tool replaced one of another source
    repeated       \* history: a disposer called again took something away

loads == <<status, undo, capUndo, hostUndo, hostSpent>>
history == <<registered, disposed, overlapped, displaced, repeated>>
vars == <<tools, capabilities, toolPolicy, capPolicy, loads, history>>

\* A registry name: as defined, or prefixed with the remote it comes from.
Plain(n) == [ns |-> "", base |-> n]
Qualified(remote, n) == [ns |-> remote, base |-> n]

Entry(name, source, owner) == [name |-> name, source |-> source, owner |-> owner]
NamesIn(reg) == {e.name : e \in reg}

----------------------------------------------------------------------------
(* RegistryBase.register and registerAll, for definitions with different   *)
(* names: what the conflict policy makes of defs, given the registry.      *)

FallThrough(reg, policy, defs) ==  \* faulty: first-wins falls through to replace
    IF policy = "namespace"
    THEN {IF d.name \in NamesIn(reg) /\ d.source # "host"
          THEN [d EXCEPT !.name = Qualified(d.source, d.name.base)] ELSE d : d \in defs}
    ELSE defs

Accepted(reg, policy, defs) ==
    CASE policy = "first-wins" -> {d \in defs : d.name \notin NamesIn(reg)}
      [] policy = "namespace" ->
             {IF d.name \in NamesIn(reg) /\ d.source # "host"
              THEN [d EXCEPT !.name = Qualified(d.source, d.name.base)] ELSE d : d \in defs}
      [] OTHER -> defs

\* applyReplace for each accepted definition: it takes the place of the entry
\* of that name.
Displaced(reg, new) == {e \in reg : e.name \in NamesIn(new)}
Stored(reg, new) == (reg \ Displaced(reg, new)) \cup new

\* Under 'throw' the first name taken throws; what came before it stays.
Clashes(reg, policy, d) == policy = "throw" /\ d.name \in NamesIn(reg)

\* The disposers registerAll returns; that of a dropped definition does nothing.
DisposersOfAll(reg, policy, defs) ==  \* faulty: first-wins returns a working disposer
    NamesIn(defs) \cup NamesIn(Accepted(reg, policy, defs))

Disposers(reg, policy, defs) == NamesIn(Accepted(reg, policy, defs))

RegisterSilently(defs) ==  \* faulty: onDispose of the entry displaced is not called
    LET new == Accepted(tools, toolPolicy, defs)
        old == Displaced(tools, new)
    IN  /\ tools' = Stored(tools, new)
        /\ registered' = registered \cup new
        /\ displaced' = (displaced \/ \E e \in old, d \in new :
                                         e.name = d.name /\ e.source # d.source)
        /\ UNCHANGED disposed

\* The ToolRegistry after registering defs there, and the history of its entries.
RegisterTools(defs) ==
    LET new == Accepted(tools, toolPolicy, defs)
        old == Displaced(tools, new)
    IN  /\ tools' = Stored(tools, new)
        /\ registered' = registered \cup new
        /\ disposed' = disposed \cup old
        /\ displaced' = (displaced \/ \E e \in old, d \in new :
                                         e.name = d.name /\ e.source # d.source)

Init ==
    /\ tools = {} /\ capabilities = {}
    /\ toolPolicy \in Policies /\ capPolicy \in Policies
    /\ status = [l \in Loads |-> "loading"]
    /\ undo = [l \in Loads |-> {}]
    /\ capUndo = [l \in Loads |-> {}]
    /\ hostUndo = {} /\ hostSpent = {}
    /\ registered = {} /\ disposed = {}
    /\ overlapped = FALSE /\ displaced = FALSE /\ repeated = FALSE

----------------------------------------------------------------------------
(* apply(): the definitions of a load, stamped with its remote.            *)

Def(l, n) == Entry(Plain(n), RemoteOf[l], l)
Record(l) == Entry(Plain(RemoteOf[l]), RemoteOf[l], l)

\* register() skips an entry that requires another host version.
ToolDefs(l) == IF l \in Pinned THEN {} ELSE {Def(l, n) : n \in Listed(l)}

\* Those registered before the first one that clashes.
Before(l) ==
    {d \in ToolDefs(l) : \E i \in DOMAIN Offers[l] :
        /\ d = Def(l, Offers[l][i])
        /\ \A j \in 1 .. i : ~Clashes(tools, toolPolicy, Def(l, Offers[l][j]))}

Live(r) == \E l \in Loads : status[l] = "applied" /\ RemoteOf[l] = r

\* The bundle arrives and apply() registers all of it.
Apply(l) ==
    /\ status[l] = "loading"
    /\ \A d \in ToolDefs(l) : ~Clashes(tools, toolPolicy, d)
    /\ ~Clashes(capabilities, capPolicy, Record(l))
    /\ RegisterTools(ToolDefs(l))
    /\ capabilities' = Stored(capabilities, Accepted(capabilities, capPolicy, {Record(l)}))
    /\ status' = [status EXCEPT ![l] = "applied"]
    /\ undo' = [undo EXCEPT ![l] = Disposers(tools, toolPolicy, ToolDefs(l))]
    /\ capUndo' = [capUndo EXCEPT ![l] = Disposers(capabilities, capPolicy, {Record(l)})]
    /\ overlapped' = (overlapped \/ Live(RemoteOf[l]))
    /\ UNCHANGED <<toolPolicy, capPolicy, hostUndo, hostSpent, repeated>>

\* apply() throws halfway, at a tool or at the capability record: the disposers
\* made so far are lost with the exception.
ApplyThrows(l) ==
    /\ status[l] = "loading"
    /\ \/ \E d \in ToolDefs(l) : Clashes(tools, toolPolicy, d)
       \/ Clashes(capabilities, capPolicy, Record(l))
    /\ RegisterTools(Before(l))
    /\ status' = [status EXCEPT ![l] = "failed"]
    /\ overlapped' = (overlapped \/ Live(RemoteOf[l]))
    /\ UNCHANGED <<capabilities, toolPolicy, capPolicy, undo, capUndo, hostUndo, hostSpent,
                   repeated>>

\* The loader rejects.
LoadFails(l) ==
    /\ status[l] = "loading"
    /\ status' = [status EXCEPT ![l] = "failed"]
    /\ UNCHANGED <<tools, capabilities, toolPolicy, capPolicy, undo, capUndo, hostUndo, hostSpent,
                   history>>

\* The disposer: every name it registered, whoever has it now, and then every
\* entry of the remote, whichever load registered it.
StrippedByDefinition(l, reg, names) ==  \* faulty: by the names the module lists
    {e \in reg : e.name \in {Plain(n) : n \in Listed(l)}}

Stripped(l, reg, names) == {e \in reg : e.name \in names \/ e.source = RemoteOf[l]}

\* Nothing keeps a disposer from being called again, with whatever it then finds.
Dispose(l) ==
    /\ status[l] \in {"applied", "disposed"}
    /\ LET gone == Stripped(l, tools, undo[l])
           records == Stripped(l, capabilities, capUndo[l])
       IN  /\ tools' = tools \ gone
           /\ disposed' = disposed \cup gone
           /\ capabilities' = capabilities \ records
           /\ repeated' = (repeated \/ (status[l] = "disposed" /\ gone \cup records # {}))
    /\ status' = [status EXCEPT ![l] = "disposed"]
    /\ UNCHANGED <<toolPolicy, capPolicy, undo, capUndo, hostUndo, hostSpent, registered,
                   overlapped, displaced>>

----------------------------------------------------------------------------
(* prefetchCapabilities: a record only, and its disposer is dropped.       *)

Prefetch(r) ==
    LET def == Entry(Plain(r), r, "prefetch")
    IN  /\ ~Clashes(capabilities, capPolicy, def)
        /\ capabilities' = Stored(capabilities, Accepted(capabilities, capPolicy, {def}))
        /\ UNCHANGED <<tools, toolPolicy, capPolicy, loads, history>>

----------------------------------------------------------------------------
(* The host's own tools.                                                   *)

HostDef(n) == Entry(Plain(n), "host", "host")

HostRegister(n) ==
    /\ HostDef(n) \notin registered
    /\ ~Clashes(tools, toolPolicy, HostDef(n))
    /\ RegisterTools({HostDef(n)})
    /\ hostUndo' = hostUndo \cup {m \in {n} : Plain(m) \in Disposers(tools, toolPolicy, {HostDef(n)})}
    /\ UNCHANGED <<capabilities, toolPolicy, capPolicy, status, undo, capUndo, hostSpent,
                   overlapped, repeated>>

HostDispose(n) ==
    /\ n \in hostUndo
    /\ LET gone == {e \in tools : e.name = Plain(n)}
       IN  /\ tools' = tools \ gone
           /\ disposed' = disposed \cup gone
           /\ repeated' = (repeated \/ (n \in hostSpent /\ gone # {}))
    /\ hostSpent' = hostSpent \cup {n}
    /\ UNCHANGED <<capabilities, toolPolicy, capPolicy, status, undo, capUndo, hostUndo, registered,
                   overlapped, displaced>>

Host == \E n \in HostTools : HostRegister(n) \/ HostDispose(n)
Federation == \E l \in Loads : Apply(l) \/ ApplyThrows(l) \/ LoadFails(l) \/ Dispose(l)

Next == Host \/ Federation \/ \E r \in Remotes : Prefetch(r)

Spec == Init /\ [][Next]_vars

----------------------------------------------------------------------------
(* What is claimed.                                                        *)

Names == [ns : Remotes \cup {""}, base : ToolNames \cup Remotes]
Entries == [name : Names, source : Sources, owner : Owners]

\* Every variable has its type.
TypeOK ==
    /\ tools \subseteq Entries
    /\ capabilities \subseteq Entries
    /\ toolPolicy \in Policies
    /\ capPolicy \in Policies
    /\ status \in [Loads -> {"loading", "applied", "failed", "disposed"}]
    /\ undo \in [Loads -> SUBSET Names]
    /\ capUndo \in [Loads -> SUBSET Names]
    /\ hostUndo \subseteq HostTools
    /\ hostSpent \subseteq hostUndo
    /\ registered \subseteq Entries
    /\ disposed \subseteq Entries
    /\ overlapped \in BOOLEAN
    /\ displaced \in BOOLEAN
    /\ repeated \in BOOLEAN

\* A name means one entry, under every conflict policy and in whatever order
\* remotes come and go (registry-base.ts:296).
UniqueNames ==
    /\ \A d, e \in tools : d.name = e.name => d = e
    /\ \A d, e \in capabilities : d.name = e.name => d = e

\* The onDispose hook of an entry is called when the entry leaves the registry,
\* once, whether it is replaced, removed by its disposer or swept by source.
OnDisposeOnce ==
    /\ registered = tools \cup disposed
    /\ tools \cap disposed = {}

\* No entry outlives the load that made it, except those of an apply() that
\* threw under the policy 'throw', whose disposers nobody got.
NothingOutlivesItsLoad ==
    \A e \in tools \cup capabilities : e.owner \in Loads =>
        \/ status[e.owner] = "applied"
        \/ status[e.owner] = "failed" /\ "throw" \in {toolPolicy, capPolicy}

\* Who may take a tool away: its owner by disposing it, or a later entry of the
\* same source by replacing it.
RemovedByOwner(e) ==
    \/ e.source = "host" /\ \E n \in hostSpent' \ hostSpent : e.name = Plain(n)
    \/ \E l \in Loads : status[l] = "applied" /\ status'[l] = "disposed" /\ RemoteOf[l] = e.source
    \/ \E f \in tools' : f.name = e.name /\ f.source = e.source

\* Disposers remove by name, and the name may have changed hands.  It has not,
\* so that remotes and the host never take each other's tools away, as long as
\* no two loads of a remote overlap, no disposer called again finds something
\* to remove, and no tool has displaced one of another source; 'first-wins'
\* and 'throw' see to the last.
ToolsLeaveWithTheirOwner ==
    [][~overlapped' /\ ~repeated' /\ (toolPolicy \in {"first-wins", "throw"} \/ ~displaced')
         => \A e \in tools \ tools' : RemovedByOwner(e)]_vars

\* 'namespace': "Both entries coexist".  Every tool of every remote loaded is in
\* the registry, under the one name or the other, on the same conditions.
NamesakesCoexist ==
    toolPolicy = "namespace" /\ ~overlapped /\ ~displaced /\ ~repeated =>
        \A l \in Loads : status[l] = "applied" =>
            \A d \in ToolDefs(l) : \E e \in tools : e.owner = l /\ e.name.base = d.name.base

\* The CapabilityRegistry has a record of every remote that is loaded, whatever
\* prefetches and other remotes did, if its own loads do not overlap and no
\* disposer called again finds something to remove.
LoadedIsRecorded ==
    ~overlapped /\ ~repeated => \A l \in Loads : status[l] = "applied" =>
        \E c \in capabilities : c.source = RemoteOf[l]
=============================================================================
