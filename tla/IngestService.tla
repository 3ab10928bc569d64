--------------------------- MODULE IngestService ---------------------------
(***************************************************************************)
(* The component ingest service (platform/component-ingest-service/src):   *)
(* jobs that unpack a library, build a remote around it, serve the bundle  *)
(* and register it (pipeline.ts), the registry the Hub reads               *)
(* (registry.ts), the catalog rows of the remote's components (catalog.ts, *)
(* kept by the Java catalog) and the administration of remotes (server.ts).*)
(*                                                                         *)
(* One Node process: what lies between two awaits is one action.  Awaited  *)
(* are the processes a job spawns, which write into a work directory per   *)
(* REMOTE, and each call to the catalog.  The process may die anywhere.    *)
(* A library is abstracted to its version and the components it offers; of *)
(* several versions, sanitizeRemote makes the same remote.                 *)
(***************************************************************************)
EXTENDS Integers, FiniteSets

CONSTANTS
    Remotes,
    Seeds,         \* remotes listed by SEED_REMOTES, hosted elsewhere
    Versions,
    Incompatible,  \* versions built for another major of Angular
    Components,
    Offers,        \* the components of each version
    Requests,      \* what ingests are asked for; to include {} stands for all
    Jobs,          \* bound: ingests
    Deletions,     \* bound: DELETE requests
    None,
    Burned,        \* a catalog row that was deleted: its name stays taken
    MaxTroubles    \* bound: deaths of the process, calls and file operations that fail

ASSUME IngestAssumption ==
    /\ Seeds \subseteq Remotes
    /\ Offers \in [Versions -> SUBSET Components]
    /\ Requests \subseteq
          [remote : Remotes, version : Versions, from : {"npm", "tgz", "zip"},
           discover : BOOLEAN, include : SUBSET Components]
    /\ "seed" \notin Versions
    /\ None \notin Versions \cup {"seed"} /\ {None, Burned} \cap Jobs = {} /\ Burned # None
    /\ MaxTroubles \in Nat

VARIABLES
    phase,      \* per job, with the await it is in; "new" before its request
    input,      \* what was asked: remote, version, from, discover, include
    tgz,        \* the tarball the job installs, by version
    meta,       \* the version the job read from package.json
    selected,   \* the components the job builds
    posts,      \* those it has still to register
    work,       \* per remote: what its work directory holds
    served,     \* per remote: the version of the whole bundle under /remotes, or None
    registry,   \* RegistryStore.remotes: per remote its record, or None
    file,       \* what its file holds; no record at all when it does not parse
    rows,       \* per component: the job that made its catalog row, Burned, or None
    deletion,   \* DELETE requests: step, remote and rows still to delete
    shared,     \* history: two jobs used the remote's work directory at once
    torn,       \* history: a job of the remote failed or died while it served it
    gone,       \* history: deleted, with no job under way, and not asked for since
    spoiled,    \* history: a deletion of the remote's rows was cut short
    troubles    \* deaths, calls and file operations that failed

jobVars == <<phase, input, tgz, meta, selected, posts>>
history == <<shared, torn, gone, spoiled>>
disk == <<work, served, registry, file>>
vars == <<jobVars, disk, rows, deletion, history, troubles>>

\* What a re-ingest asks for is made of a record.
FromRecord == [remote : Remotes, version : Versions, from : {"npm"},
               discover : {FALSE}, include : {{}}]
Input == Requests \cup FromRecord
\* A record's version, the version it can be built from again, the admin's flag.
Entry == [version : Versions \cup {"seed"}, source : Versions \cup {None},
          disabled : BOOLEAN]
Seed == [version |-> "seed", source |-> None, disabled |-> FALSE]
Empty == [unzipped |-> None, tgzs |-> {}, pkg |-> None, ws |-> None, modules |-> None,
          dist |-> None]

InDirectory == {"unzipping", "fetching", "extracting", "extracted", "installing",
                "building", "built"}
Active == InDirectory \cup {"posting"}
Ended == {"registered", "discovered", "failed", "lost"}
UnderWay(r) == {j \in Jobs : phase[j] \in Active /\ input[j].remote = r}

\* RegistryStore's constructor: the seeds, and what the file says.
Reloaded(reg) == [r \in Remotes |-> IF reg[r] = None /\ r \in Seeds THEN Seed ELSE reg[r]]
\* A file that was being written does not parse: the seeds are all that is left.
NoRecords == [r \in Remotes |-> None]

Init ==
    /\ phase = [j \in Jobs |-> "new"]
    /\ input = [j \in Jobs |-> None]
    /\ tgz = [j \in Jobs |-> None] /\ meta = [j \in Jobs |-> None]
    /\ selected = [j \in Jobs |-> {}] /\ posts = [j \in Jobs |-> {}]
    /\ work = [r \in Remotes |-> Empty]
    /\ served = [r \in Remotes |-> None]
    /\ file = [r \in Remotes |-> None]
    /\ registry = Reloaded(file)
    /\ rows = [c \in Components |-> None]
    /\ deletion = [d \in Deletions |-> [step |-> "new", remote |-> None, rows |-> {}]]
    /\ shared = [r \in Remotes |-> FALSE] /\ torn = [r \in Remotes |-> FALSE]
    /\ gone = [r \in Remotes |-> FALSE] /\ spoiled = [r \in Remotes |-> FALSE]
    /\ troubles = 0

----------------------------------------------------------------------------
(* Jobs *)

\* A request makes a job, and runIngest wipes the work directory of the remote,
\* whoever is using it, before its first await.
Begin(j, in) ==
    /\ phase[j] = "new"
    /\ phase' = [phase EXCEPT ![j] = CASE in.from = "npm" -> "fetching"
                                       [] in.from = "tgz" -> "extracting"
                                       [] in.from = "zip" -> "unzipping"]
    /\ input' = [input EXCEPT ![j] = in]
    /\ tgz' = [tgz EXCEPT ![j] = IF in.from = "tgz" THEN in.version ELSE None]
    /\ work' = [work EXCEPT ![in.remote] = Empty]
    /\ shared' = [shared EXCEPT ![in.remote] =
          @ \/ \E k \in UnderWay(in.remote) : phase[k] \in InDirectory]
    /\ gone' = [gone EXCEPT ![in.remote] = FALSE]
    /\ UNCHANGED <<meta, selected, posts, served, registry, file, rows, deletion,
                   torn, spoiled, troubles>>

Ingest(j) == \E in \in Requests : Begin(j, in)

\* POST /admin/remotes/:name/reingest builds the stored source, with everything
\* the library offers.
Reingest(j, r) ==
    /\ registry[r] # None /\ registry[r].source # None
    /\ Begin(j, [remote |-> r, version |-> registry[r].source, from |-> "npm",
                 discover |-> FALSE, include |-> {}])

\* unzip is done, in the work directory.
Unzipped(j) ==
    /\ phase[j] = "unzipping"
    /\ phase' = [phase EXCEPT ![j] = "fetching"]
    /\ work' = [work EXCEPT ![input[j].remote].unzipped = input[j].version]
    /\ UNCHANGED <<input, tgz, meta, selected, posts, served, registry, file, rows,
                   deletion, history, troubles>>

\* npm pack or the download is done: the job takes the first tarball it finds.  Of
\* a .zip it packs what is unzipped there by now.
Fetched(j) ==
    LET r == input[j].remote
        packed == IF input[j].from = "zip" THEN work[r].unzipped ELSE input[j].version
        found == work[r].tgzs \cup {packed}
    IN  /\ phase[j] = "fetching" /\ packed # None
        /\ phase' = [phase EXCEPT ![j] = "extracting"]
        /\ work' = [work EXCEPT ![r].tgzs = found]
        /\ \E v \in found : tgz' = [tgz EXCEPT ![j] = v]
        /\ UNCHANGED <<input, meta, selected, posts, served, registry, file, rows,
                       deletion, history, troubles>>

\* An uploaded .tgz is outside the work directory.
HasTarball(j) == input[j].from = "tgz" \/ tgz[j] \in work[input[j].remote].tgzs

\* tar is done.
Extracted(j) ==
    /\ phase[j] = "extracting" /\ HasTarball(j)
    /\ phase' = [phase EXCEPT ![j] = "extracted"]
    /\ work' = [work EXCEPT ![input[j].remote].pkg = tgz[j]]
    /\ UNCHANGED <<input, tgz, meta, selected, posts, served, registry, file, rows,
                   deletion, history, troubles>>

\* It has a package.json, the host's major of Angular, and components.
Usable(v) == v \in Versions /\ v \notin Incompatible /\ Offers[v] # {}

\* What the job makes of the unpacked version v: the components it builds.
Chosen(j, v) ==
    IF input[j].include = {} THEN Offers[v] ELSE Offers[v] \cap input[j].include

\* The job goes on after unpack: package.json, the check of the Angular major,
\* introspection, and the workspace, unless one of them ends it.
Introspect(j) ==
    LET r == input[j].remote
        v == work[r].pkg
    IN  /\ phase[j] = "extracted"
        /\ \/ /\ ~Usable(v)
              /\ phase' = [phase EXCEPT ![j] = "failed"]
              /\ UNCHANGED <<meta, selected, work>>
           \/ /\ Usable(v)
              /\ meta' = [meta EXCEPT ![j] = v]
              /\ \/ /\ input[j].discover
                    /\ phase' = [phase EXCEPT ![j] = "discovered"]
                    /\ UNCHANGED <<selected, work>>
                 \/ /\ ~input[j].discover /\ Chosen(j, v) = {}
                    /\ phase' = [phase EXCEPT ![j] = "failed"]
                    /\ UNCHANGED <<selected, work>>
                 \/ /\ ~input[j].discover /\ Chosen(j, v) # {}
                    /\ phase' = [phase EXCEPT ![j] = "installing"]
                    /\ selected' = [selected EXCEPT ![j] = Chosen(j, v)]
                    /\ work' = [work EXCEPT ![r].ws = j]
        /\ UNCHANGED <<input, tgz, posts, served, registry, file, rows, deletion,
                       history, troubles>>

\* npm install is done: it has read the workspace that is there now and the
\* tarball its package.json names...
Installed(j) ==
    LET r == input[j].remote
        k == work[r].ws
    IN  /\ phase[j] = "installing"
        /\ k # None /\ HasTarball(k)
        /\ phase' = [phase EXCEPT ![j] = "building"]
        /\ work' = [work EXCEPT ![r].modules = tgz[k]]
        /\ UNCHANGED <<input, tgz, meta, selected, posts, served, registry, file,
                       rows, deletion, history, troubles>>

\* ...and ng build: it has read the workspace and what is installed in it now.
Built(j) ==
    LET r == input[j].remote IN
    /\ phase[j] = "building"
    /\ work[r].ws # None /\ work[r].modules # None
    /\ phase' = [phase EXCEPT ![j] = "built"]
    /\ work' = [work EXCEPT ![r].dist = work[r].modules]
    /\ UNCHANGED <<input, tgz, meta, selected, posts, served, registry, file,
                   rows, deletion, history, troubles>>

\* Wrong: only the failures of the download are caught.
ProcessFailsUncaught(j) ==
    /\ phase[j] = "fetching"
    /\ phase' = [phase EXCEPT ![j] = "failed"]
    /\ UNCHANGED <<input, tgz, meta, selected, posts, disk, rows, deletion, history, troubles>>

\* A process exits with an error, a download fails, something throws, or the
\* directory was gone.
ProcessFails(j) ==
    /\ phase[j] \in InDirectory \ {"built"}
    /\ phase' = [phase EXCEPT ![j] = "failed"]
    /\ UNCHANGED <<input, tgz, meta, selected, posts, disk, rows, deletion, history, troubles>>

\* RegistryStore.upsert keeps the flag, and the source when there is no new one.
Upserted(j) ==
    LET r == input[j].remote
        prev == registry[r]
    IN  [registry EXCEPT ![r] =
            [version |-> meta[j],
             source |-> IF input[j].from = "npm" THEN input[j].version
                        ELSE IF prev = None THEN None ELSE prev.source,
             disabled |-> prev # None /\ prev.disabled]]

Trouble == troubles < MaxTroubles /\ troubles' = troubles + 1

\* RegistryStore.persist, after the records in memory have changed to reg.
Persist(reg) == registry' = reg /\ file' = reg
\* It throws: the file is still the old one, or does not parse.
PersistFails(reg) == Trouble /\ registry' = reg /\ file' \in {file, NoRecords}

\* Wrong: the registry is written before the build's output is looked for.
ServeRegistersFirst(j) ==
    LET r == input[j].remote IN
    /\ phase[j] = "built"
    /\ Persist(Upserted(j))
    /\ \/ /\ work[r].dist = None
          /\ phase' = [phase EXCEPT ![j] = "failed"]
          /\ UNCHANGED <<posts, served, torn>>
       \/ /\ work[r].dist # None
          /\ phase' = [phase EXCEPT ![j] = "posting"]
          /\ served' = [served EXCEPT ![r] = work[r].dist]
          /\ posts' = [posts EXCEPT ![j] = selected[j]]
          /\ torn' = [torn EXCEPT ![r] = FALSE]
    /\ UNCHANGED <<input, tgz, meta, selected, work, rows, deletion, shared,
                   gone, spoiled, troubles>>

\* The job goes on after the build: artifacts, registry, and the first POST.
Serve(j) ==
    LET r == input[j].remote IN
    /\ phase[j] = "built"
    /\ \/ /\ work[r].dist = None
          /\ phase' = [phase EXCEPT ![j] = "failed"]
          /\ UNCHANGED <<posts, served, registry, file, torn>>
       \/ /\ work[r].dist # None
          /\ phase' = [phase EXCEPT ![j] = "posting"]
          /\ served' = [served EXCEPT ![r] = work[r].dist]
          /\ Persist(Upserted(j))
          /\ posts' = [posts EXCEPT ![j] = selected[j]]
          /\ torn' = [torn EXCEPT ![r] = FALSE]
    /\ UNCHANGED <<input, tgz, meta, selected, work, rows, deletion, shared,
                   gone, spoiled, troubles>>

\* rmSync or cpSync throws, with the old record still listed, or persist does.
ServeFails(j) ==
    LET r == input[j].remote IN
    /\ phase[j] = "built" /\ work[r].dist # None
    /\ phase' = [phase EXCEPT ![j] = "failed"]
    /\ \/ /\ Trouble
          /\ served' \in {served, [served EXCEPT ![r] = None]}
          /\ UNCHANGED <<registry, file>>
       \/ /\ served' = [served EXCEPT ![r] = work[r].dist]
          /\ PersistFails(Upserted(j))
    /\ torn' = [torn EXCEPT ![r] = TRUE]
    /\ UNCHANGED <<input, tgz, meta, selected, posts, work, rows, deletion, shared,
                   gone, spoiled>>

\* registerComponents, one POST: created, there already (409), or failed, as it
\* does, too, when the name is taken by a row that was deleted.
Post(j, c) ==
    /\ phase[j] = "posting" /\ c \in posts[j]
    /\ posts' = [posts EXCEPT ![j] = @ \ {c}]
    /\ phase' = [phase EXCEPT ![j] = IF posts[j] = {c} THEN "registered" ELSE "posting"]
    /\ \/ rows[c] = None /\ rows' = [rows EXCEPT ![c] = j] /\ UNCHANGED troubles
       \/ rows[c] # None /\ UNCHANGED <<rows, troubles>>
       \/ rows[c] # Burned /\ Trouble /\ UNCHANGED rows
    /\ UNCHANGED <<input, tgz, meta, selected, disk, deletion, history>>

Job(j) ==
    \/ Unzipped(j) \/ Fetched(j) \/ Extracted(j) \/ Introspect(j)
    \/ Installed(j) \/ Built(j) \/ ProcessFails(j)
    \/ Serve(j) \/ ServeFails(j)
    \/ \E c \in Components : Post(j, c)

----------------------------------------------------------------------------
(* Administration *)

\* PATCH /admin/remotes/:name
SetDisabled(r, disabled) ==
    LET reg == [registry EXCEPT ![r].disabled = disabled] IN
    /\ registry[r] # None
    /\ (Persist(reg) /\ UNCHANGED troubles) \/ PersistFails(reg)
    /\ UNCHANGED <<jobVars, work, served, rows, deletion, history>>

\* Wrong: the rows of a disabled remote are taken to be gone already.
DeleteUnlessDisabled(d, r) ==
    /\ deletion[d].step = "new"
    /\ registry[r] # None
    /\ Persist([registry EXCEPT ![r] = None])
    /\ served' = [served EXCEPT ![r] = None]
    /\ deletion' = [deletion EXCEPT ![d] =
          [step |-> IF registry[r].disabled THEN "done" ELSE "listing",
           remote |-> r, rows |-> {}]]
    /\ gone' = [gone EXCEPT ![r] = UnderWay(r) = {}]
    /\ UNCHANGED <<jobVars, work, rows, shared, torn, spoiled, troubles>>

\* DELETE /admin/remotes/:name, up to the GET of the rows.
Delete(d, r) ==
    /\ deletion[d].step = "new"
    /\ registry[r] # None
    /\ Persist([registry EXCEPT ![r] = None])
    /\ served' = [served EXCEPT ![r] = None]
    /\ deletion' = [deletion EXCEPT ![d] = [step |-> "listing", remote |-> r, rows |-> {}]]
    /\ gone' = [gone EXCEPT ![r] = UnderWay(r) = {}]
    /\ UNCHANGED <<jobVars, work, rows, shared, torn, spoiled, troubles>>

\* persist or rmSync throws: the request fails, the rows are not looked for, and the
\* next one finds no record.
DeleteFails(d, r) ==
    LET reg == [registry EXCEPT ![r] = None] IN
    /\ deletion[d].step = "new"
    /\ registry[r] # None
    /\ deletion' = [deletion EXCEPT ![d] = [step |-> "done", remote |-> r, rows |-> {}]]
    /\ \/ PersistFails(reg) /\ UNCHANGED served
       \/ Trouble /\ Persist(reg) /\ served' \in {served, [served EXCEPT ![r] = None]}
    /\ UNCHANGED <<jobVars, work, rows, history>>

Undone(r) == {d \in Deletions : deletion[d].remote = r /\ deletion[d].step # "done"}
RowsOf(r) == {c \in Components : rows[c] \in Jobs /\ input[rows[c]].remote = r}

\* unregisterComponents: a GET or DELETE that throws ends it.
CutShort(d) ==
    /\ deletion[d].step \in {"listing", "deleting"}
    /\ Trouble
    /\ deletion' = [deletion EXCEPT ![d].step = "done"]
    /\ spoiled' = [spoiled EXCEPT ![deletion[d].remote] = TRUE]
    /\ UNCHANGED <<jobVars, disk, rows, shared, torn, gone>>

\* Its GET: every row of the remote, by id.
ListRows(d) ==
    LET found == {<<c, rows[c]>> : c \in RowsOf(deletion[d].remote)} IN
    /\ deletion[d].step = "listing"
    /\ deletion' = [deletion EXCEPT
          ![d].step = IF found = {} THEN "done" ELSE "deleting", ![d].rows = found]
    /\ UNCHANGED <<jobVars, disk, rows, history, troubles>>

\* Its DELETE of one row, which may be gone by now.
DeleteRow(d, row) ==
    /\ deletion[d].step = "deleting" /\ row \in deletion[d].rows
    /\ deletion' = [deletion EXCEPT
          ![d].step = IF deletion[d].rows = {row} THEN "done" ELSE "deleting",
          ![d].rows = @ \ {row}]
    /\ \/ /\ rows[row[1]] = row[2]
          /\ rows' = [rows EXCEPT ![row[1]] = Burned]
          /\ UNCHANGED <<spoiled, troubles>>
       \/ rows[row[1]] # row[2] /\ UNCHANGED <<rows, spoiled, troubles>>
       \/ /\ Trouble
          /\ spoiled' = [spoiled EXCEPT ![deletion[d].remote] = TRUE]
          /\ UNCHANGED rows
    /\ UNCHANGED <<jobVars, disk, shared, torn, gone>>

Deleting(d) == ListRows(d) \/ \E row \in deletion[d].rows : DeleteRow(d, row)

----------------------------------------------------------------------------
(* Deaths of the process *)

\* The job map and the requests are in memory; directories and rows stay.
Die ==
    /\ Trouble
    /\ phase' = [j \in Jobs |-> IF phase[j] \in Active THEN "lost" ELSE phase[j]]
    /\ deletion' = [d \in Deletions |->
          IF deletion[d].step \in {"listing", "deleting"}
          THEN [deletion[d] EXCEPT !.step = "done"] ELSE deletion[d]]
    /\ spoiled' = [r \in Remotes |-> spoiled[r] \/
          \E d \in Deletions : deletion[d].step \in {"listing", "deleting"}
                               /\ deletion[d].remote = r]
    /\ UNCHANGED <<input, tgz, meta, selected, posts, work, rows, shared>>

\* The next process reads the file that it finds.
Restart(f) == file' = f /\ registry' = Reloaded(f)

\* It dies between two actions, or while it writes the registry.
Crash ==
    /\ Die
    /\ Restart(file) \/ Restart(NoRecords)
    /\ UNCHANGED <<served, torn, gone>>

\* It dies within Serve: after rmSync, after cpSync, or after both and the upsert.
CrashServing(j) ==
    LET r == input[j].remote IN
    /\ phase[j] = "built" /\ work[r].dist # None
    /\ Die
    /\ \/ served' = [served EXCEPT ![r] = None] /\ Restart(file)
       \/ /\ served' = [served EXCEPT ![r] = work[r].dist]
          /\ Restart(file) \/ Restart(Upserted(j)) \/ Restart(NoRecords)
    /\ torn' = [torn EXCEPT ![r] = TRUE]
    /\ UNCHANGED gone

\* It dies within Delete, before the artifacts are removed.
CrashDeleting(r) ==
    /\ registry[r] # None
    /\ Die
    /\ Restart([registry EXCEPT ![r] = None])
    /\ UNCHANGED <<served, torn, gone>>

----------------------------------------------------------------------------
Next ==
    \/ \E j \in Jobs : Ingest(j) \/ Job(j) \/ CrashServing(j)
                       \/ \E r \in Remotes : Reingest(j, r)
    \/ \E r \in Remotes : CrashDeleting(r) \/ \E b \in BOOLEAN : SetDisabled(r, b)
    \/ \E d \in Deletions : Deleting(d) \/ CutShort(d)
                            \/ \E r \in Remotes : Delete(d, r) \/ DeleteFails(d, r)
    \/ Crash

\* Processes exit, by their timeouts if need be, and calls are answered.
Spec ==
    /\ Init /\ [][Next]_vars
    /\ \A j \in Jobs : WF_vars(Job(j))
    /\ \A d \in Deletions : WF_vars(Deleting(d))

----------------------------------------------------------------------------
Phases == {"new"} \cup Active \cup Ended
Directory == [unzipped : Versions \cup {None}, tgzs : SUBSET Versions,
              pkg : Versions \cup {None}, ws : Jobs \cup {None},
              modules : Versions \cup {None}, dist : Versions \cup {None}]
DeleteRequest == [step : {"new", "listing", "deleting", "done"},
                  remote : Remotes \cup {None}, rows : SUBSET (Components \X Jobs)]

TypeOK ==
    /\ phase \in [Jobs -> Phases]
    /\ input \in [Jobs -> Input \cup {None}]
    /\ tgz \in [Jobs -> Versions \cup {None}]
    /\ meta \in [Jobs -> Versions \cup {None}]
    /\ selected \in [Jobs -> SUBSET Components]
    /\ posts \in [Jobs -> SUBSET Components]
    /\ work \in [Remotes -> Directory]
    /\ served \in [Remotes -> Versions \cup {None}]
    /\ registry \in [Remotes -> Entry \cup {None}]
    /\ file \in [Remotes -> Entry \cup {None}]
    /\ rows \in [Components -> Jobs \cup {None, Burned}]
    /\ deletion \in [Deletions -> DeleteRequest]
    /\ shared \in [Remotes -> BOOLEAN] /\ torn \in [Remotes -> BOOLEAN]
    /\ gone \in [Remotes -> BOOLEAN] /\ spoiled \in [Remotes -> BOOLEAN]
    /\ troubles \in 0 .. MaxTroubles

\* What the Hub is told to load is there and is what the registry says, also what it
\* will say after a restart: a remote that was ingested has its whole bundle, and
\* the bundle is of the registered version unless two jobs of the remote have shared
\* the work directory.  Not so after a job failed, or the process died, between the
\* removal of the old bundle and the new record: then the old record may stay listed
\* without a bundle or with another version's, until an ingest of the remote gets
\* through; deletions, restarts and failures of other jobs never do that.
ListedIsServed ==
    \A r \in Remotes : \A record \in {registry[r], file[r]} :
        record # None /\ record.version # "seed" /\ ~torn[r] =>
            /\ served[r] # None
            /\ ~shared[r] => served[r] = record.version

\* A remote deleted while no job of it is under way stays deleted, over restarts
\* too, until somebody ingests it again; only a seed comes back.  And once the
\* catalog has answered the deletion, none of its components is listed.
DeletedIsGone ==
    \A r \in Remotes : gone[r] =>
        /\ registry[r] = None \/ (r \in Seeds /\ registry[r].version = "seed")
        /\ spoiled[r] \/ Undone(r) # {} \/ RowsOf(r) = {}

\* Every job comes to an end the client can poll, or is lost in a restart, and
\* every deletion is answered.
JobsEnd ==
    /\ \A j \in Jobs : phase[j] \in Active ~> phase[j] \in Ended
    /\ \A d \in Deletions : deletion[d].step = "listing" ~> deletion[d].step = "done"
=============================================================================
