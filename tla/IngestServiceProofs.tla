------------------------ MODULE IngestServiceProofs ------------------------
(***************************************************************************)
(* Proofs about IngestService for every set of remotes, versions and       *)
(* components, every number of jobs and deletions, and every number of     *)
(* deaths of the process.                                                  *)
(*                                                                         *)
(* ListedIsServed says that the bundle served is of the version the        *)
(* registry lists, while the work directory was never shared: it follows   *)
(* a job through its directory, where it finds at each step what it left   *)
(* there (Directories) because it is alone (Alone).  DeletedIsGone needs   *)
(* to know that a deletion under way covers the rows that are left         *)
(* (Deserted): nobody is there to make another one.                        *)
(***************************************************************************)
EXTENDS IngestService, TLAPS

\* A job that has begun has its input, and so has the job that made a row.
Asked ==
    /\ \A j \in Jobs : phase[j] # "new" => input[j] \in Input
    /\ \A c \in Components : rows[c] \in Jobs => phase[rows[c]] # "new"

\* A remote's work directory is one job's, until a second one begins.
Alone ==
    \A j, k \in Jobs :
        /\ phase[j] \in InDirectory /\ phase[k] \in InDirectory
        /\ input[j].remote = input[k].remote /\ ~shared[input[j].remote]
        => j = k

\* What job j finds in the directory at p, if it is alone there.
Finds(j, p, w) ==
    /\ p = "extracted" => w.pkg = tgz[j]
    /\ p = "installing" => w.ws = j /\ meta[j] = tgz[j]
    /\ p = "building" => w.modules = meta[j]
    /\ p = "built" => w.dist = meta[j]

Directories ==
    \A j \in Jobs : phase[j] \in InDirectory =>
        /\ phase[j] \in {"installing", "building", "built"} => meta[j] \in Versions
        /\ ~shared[input[j].remote] => Finds(j, phase[j], work[input[j].remote])

\* While a deletion is under way it will still list the remote's rows, or has them all
\* in its list, since nobody makes new ones.
Covers(d, r) ==
    /\ deletion[d].remote = r
    /\ \/ deletion[d].step = "listing"
       \/ /\ deletion[d].step = "deleting"
          /\ \A c \in RowsOf(r) : <<c, rows[c]>> \in deletion[d].rows

\* Of a remote that was deleted with nobody at work on it.
Left(r) ==
    /\ UnderWay(r) = {}
    /\ \A record \in {registry[r], file[r]} :
          record = None \/ (r \in Seeds /\ record.version = "seed")
    /\ spoiled[r] \/ RowsOf(r) = {} \/ \E d \in Deletions : Covers(d, r)

Deserted == \A r \in Remotes : gone[r] => Left(r)

IInv == TypeOK /\ Asked /\ Alone /\ Directories /\ ListedIsServed /\ Deserted

\* A request of either kind begins a job.
Begins(j) == \E in \in Input : Begin(j, in)

\* A step, with both kinds of requests taken together.
Step ==
    \/ \E j \in Jobs : Begins(j) \/ Job(j) \/ CrashServing(j)
    \/ \E r \in Remotes : CrashDeleting(r) \/ \E b \in BOOLEAN : SetDisabled(r, b)
    \/ \E d \in Deletions : Deleting(d) \/ CutShort(d)
                            \/ \E r \in Remotes : Delete(d, r) \/ DeleteFails(d, r)
    \/ Crash
    \/ UNCHANGED vars

LEMMA NextSteps == TypeOK /\ [Next]_vars => Step
<1> SUFFICES ASSUME TypeOK, [Next]_vars PROVE Step
  OBVIOUS
<1>1. ASSUME NEW j \in Jobs, Ingest(j) PROVE Begins(j)
  BY <1>1 DEF Ingest, Begins, Input
<1>2. ASSUME NEW j \in Jobs, NEW r \in Remotes, Reingest(j, r) PROVE Begins(j)
  <2>1. registry[r] \in Entry /\ registry[r].source \in Versions
    BY <1>2 DEF Reingest, TypeOK, Entry
  <2>2. [remote |-> r, version |-> registry[r].source, from |-> "npm",
         discover |-> FALSE, include |-> {}] \in Input
    BY <2>1 DEF Input, FromRecord
  <2> QED
    BY <1>2, <2>2 DEF Reingest, Begins
<1> QED
  BY <1>1, <1>2 DEF Next, Step

\* What an input is made of.
LEMMA InputFields ==
    ASSUME NEW in \in Input
    PROVE  /\ in.remote \in Remotes /\ in.version \in Versions
           /\ in.from \in {"npm", "tgz", "zip"} /\ in.discover \in BOOLEAN
           /\ in.include \in SUBSET Components
BY IngestAssumption DEF IngestAssumption, Input, FromRecord

\* Where a job begins.
LEMMA FirstPhase ==
    ASSUME NEW j \in Jobs, NEW in \in Input, Begin(j, in)
    PROVE  \E p \in {"unzipping", "fetching", "extracting"} : phase' = [phase EXCEPT ![j] = p]
<1>1. in.from \in {"npm", "tgz", "zip"}
  BY InputFields
<1>2. phase' = [phase EXCEPT ![j] = CASE in.from = "npm" -> "fetching"
                                      [] in.from = "tgz" -> "extracting"
                                      [] in.from = "zip" -> "unzipping"]
  BY DEF Begin
<1>3. CASE in.from = "npm"
  BY <1>2, <1>3
<1>4. CASE in.from = "tgz"
  BY <1>2, <1>4
<1>5. CASE in.from = "zip"
  BY <1>2, <1>5
<1> QED
  BY <1>1, <1>3, <1>4, <1>5

LEMMA BeginPhases ==
    ASSUME TypeOK, NEW j \in Jobs, NEW in \in Input, Begin(j, in)
    PROVE  /\ \A k \in Jobs : k # j => phase'[k] = phase[k]
           /\ phase'[j] \in {"unzipping", "fetching", "extracting"}
BY FirstPhase DEF TypeOK

LEMMA TypesInit == Init => TypeOK
<1> SUFFICES ASSUME Init PROVE TypeOK
  OBVIOUS
<1> USE IngestAssumption DEF IngestAssumption
<1>1. Empty \in Directory /\ Seed \in Entry
  BY DEF Empty, Seed, Directory, Entry
<1>2. phase \in [Jobs -> Phases] /\ input \in [Jobs -> Input \cup {None}]
  BY DEF Init, Phases
<1>3. /\ tgz \in [Jobs -> Versions \cup {None}] /\ meta \in [Jobs -> Versions \cup {None}]
      /\ selected \in [Jobs -> SUBSET Components] /\ posts \in [Jobs -> SUBSET Components]
  BY DEF Init
<1>4. /\ work \in [Remotes -> Directory] /\ served \in [Remotes -> Versions \cup {None}]
      /\ file \in [Remotes -> Entry \cup {None}] /\ registry \in [Remotes -> Entry \cup {None}]
      /\ rows \in [Components -> Jobs \cup {None, Burned}]
  BY <1>1 DEF Init, Reloaded
<1>5. deletion \in [Deletions -> DeleteRequest]
  BY DEF Init, DeleteRequest
<1>6. /\ shared \in [Remotes -> BOOLEAN] /\ torn \in [Remotes -> BOOLEAN]
      /\ gone \in [Remotes -> BOOLEAN] /\ spoiled \in [Remotes -> BOOLEAN]
      /\ troubles \in 0 .. MaxTroubles
  BY DEF Init
<1> QED
  BY <1>2, <1>3, <1>4, <1>5, <1>6 DEF TypeOK

\* The input of a job at work, and what a record made of it is.
LEMMA JobInput ==
    ASSUME TypeOK, Asked, NEW j \in Jobs, phase[j] \in Active
    PROVE  /\ input[j] \in Input /\ input[j].remote \in Remotes
           /\ input[j].version \in Versions
<1>1. phase[j] # "new"
  BY DEF Active, InDirectory
<1> QED
  BY <1>1, InputFields DEF Asked

LEMMA UpsertedTyped ==
    ASSUME TypeOK, Asked, NEW j \in Jobs, phase[j] \in Active, meta[j] \in Versions
    PROVE  Upserted(j) \in [Remotes -> Entry \cup {None}]
<1> DEFINE r == input[j].remote
           prev == registry[r]
           entry == [version |-> meta[j],
                     source |-> IF input[j].from = "npm" THEN input[j].version
                                ELSE IF prev = None THEN None ELSE prev.source,
                     disabled |-> prev # None /\ prev.disabled]
<1>1. r \in Remotes /\ input[j].version \in Versions
  BY JobInput
<1>2. prev \in Entry \cup {None}
  BY <1>1 DEF TypeOK
<1>3. entry \in Entry
  BY <1>1, <1>2 DEF Entry
<1>4. Upserted(j) = [registry EXCEPT ![r] = entry]
  BY DEF Upserted
<1> HIDE DEF entry
<1> QED
  BY <1>1, <1>3, <1>4 DEF TypeOK

LEMMA RestartTyped ==
    ASSUME NEW f \in [Remotes -> Entry \cup {None}], Restart(f)
    PROVE  /\ registry' \in [Remotes -> Entry \cup {None}]
           /\ file' \in [Remotes -> Entry \cup {None}]
<1>1. Seed \in Entry
  BY DEF Seed, Entry
<1> QED
  BY <1>1 DEF Restart, Reloaded

LEMMA PersistTyped ==
    ASSUME TypeOK, NEW reg \in [Remotes -> Entry \cup {None}]
    PROVE  /\ Persist(reg) \/ PersistFails(reg) =>
                /\ registry' \in [Remotes -> Entry \cup {None}]
                /\ file' \in [Remotes -> Entry \cup {None}]
           /\ PersistFails(reg) => troubles' \in 0 .. MaxTroubles
<1>1. NoRecords \in [Remotes -> Entry \cup {None}]
  BY DEF NoRecords
<1>2. Trouble => troubles' \in 0 .. MaxTroubles
  BY IngestAssumption DEF IngestAssumption, Trouble, TypeOK
<1> QED
  BY <1>1, <1>2 DEF Persist, PersistFails, TypeOK

LEMMA DieTyped ==
    ASSUME TypeOK, Die
    PROVE  /\ phase' \in [Jobs -> Phases] /\ deletion' \in [Deletions -> DeleteRequest]
           /\ spoiled' \in [Remotes -> BOOLEAN] /\ troubles' \in 0 .. MaxTroubles
<1>1. phase' \in [Jobs -> Phases]
  BY DEF Die, TypeOK, Phases, Ended
<1>2. deletion' \in [Deletions -> DeleteRequest]
  <2>1. deletion \in [Deletions -> DeleteRequest]
    BY DEF TypeOK
  <2>2. \A e \in DeleteRequest : [e EXCEPT !.step = "done"] \in DeleteRequest
    BY DEF DeleteRequest
  <2> QED
    BY <2>1, <2>2 DEF Die
<1>3. spoiled' \in [Remotes -> BOOLEAN]
  BY DEF Die, TypeOK
<1>4. troubles' \in 0 .. MaxTroubles
  BY IngestAssumption DEF IngestAssumption, Die, Trouble, TypeOK
<1> QED
  BY <1>1, <1>2, <1>3, <1>4

LEMMA TypesStep == ASSUME TypeOK, Asked, Directories, Step PROVE TypeOK'
<1> USE IngestAssumption DEF IngestAssumption
<1>0. /\ phase \in [Jobs -> Phases] /\ work \in [Remotes -> Directory] /\ deletion \in [Deletions -> DeleteRequest]
  BY DEF TypeOK
<1>1. ASSUME NEW j \in Jobs, NEW in \in Input, Begin(j, in) PROVE TypeOK'
  <2>1. in.remote \in Remotes /\ in.version \in Versions
    BY InputFields
  <2>2. phase' \in [Jobs -> Phases]
    BY <1>0, <1>1, FirstPhase DEF Phases, Active, InDirectory
  <2>3. input' \in [Jobs -> Input \cup {None}] /\ tgz' \in [Jobs -> Versions \cup {None}]
    BY <1>1, <2>1 DEF Begin, TypeOK
  <2>4. work' \in [Remotes -> Directory]
    <3>1. Empty \in Directory
      BY DEF Empty, Directory
    <3> QED
      BY <1>0, <1>1, <3>1 DEF Begin
  <2>5. shared' \in [Remotes -> BOOLEAN] /\ gone' \in [Remotes -> BOOLEAN]
    BY <1>1 DEF Begin, TypeOK
  <2> QED
    BY <1>1, <2>2, <2>3, <2>4, <2>5 DEF Begin, TypeOK
<1>21. ASSUME NEW j \in Jobs, Unzipped(j) PROVE TypeOK'
  <2>1. phase[j] \in Active
    BY <1>21 DEF Unzipped, Active, InDirectory
  <2>2. input[j].remote \in Remotes /\ input[j].version \in Versions
    BY <2>1, JobInput
  <2>3. work' \in [Remotes -> Directory]
    BY <1>0, <1>21, <2>2 DEF Unzipped, Directory
  <2>4. phase' \in [Jobs -> Phases]
    BY <1>0, <1>21 DEF Unzipped, Phases, Active, InDirectory
  <2> QED
    BY <1>21, <2>3, <2>4 DEF Unzipped, history, TypeOK
<1>2. ASSUME NEW j \in Jobs, Fetched(j) PROVE TypeOK'
  <2>1. phase[j] \in Active
    BY <1>2 DEF Fetched, Active, InDirectory
  <2> DEFINE r == input[j].remote
             packed == IF input[j].from = "zip" THEN work[r].unzipped ELSE input[j].version
             found == work[r].tgzs \cup {packed}
             w == [work[r] EXCEPT !.tgzs = found]
  <2>2. r \in Remotes /\ input[j].version \in Versions
    BY <2>1, JobInput
  <2>3. found \subseteq Versions /\ w \in Directory
    <3>1. work[r] \in Directory
      BY <1>0, <2>2
    <3>2. packed \in Versions
      BY <1>2, <2>2, <3>1 DEF Fetched, Directory
    <3> HIDE DEF packed
    <3> QED
      BY <3>1, <3>2 DEF Directory
  <2>4. work' = [work EXCEPT ![r] = w]
    BY <1>2 DEF Fetched
  <2>5. tgz' \in [Jobs -> Versions \cup {None}]
    BY <1>2, <2>3 DEF Fetched, TypeOK
  <2> HIDE DEF w, found, r
  <2>6. work' \in [Remotes -> Directory]
    BY <1>0, <2>2, <2>3, <2>4
  <2>7. phase' \in [Jobs -> Phases]
    BY <1>0, <1>2 DEF Fetched, Phases, Active, InDirectory
  <2> QED
    BY <1>2, <2>5, <2>6, <2>7 DEF Fetched, history, TypeOK
<1>3. ASSUME NEW j \in Jobs, Extracted(j) PROVE TypeOK'
  <2>1. tgz[j] \in Versions \cup {None}
    BY DEF TypeOK
  <2>2. work' \in [Remotes -> Directory]
    <3> DEFINE w == [work[input[j].remote] EXCEPT !.pkg = tgz[j]]
    <3>1. input[j].remote \in Remotes
      BY <1>3, JobInput DEF Extracted, Active, InDirectory
    <3>2. w \in Directory
      BY <1>0, <2>1, <3>1 DEF Directory
    <3>3. work' = [work EXCEPT ![input[j].remote] = w]
      BY <1>3 DEF Extracted
    <3> HIDE DEF w
    <3> QED
      BY <1>0, <3>2, <3>3
  <2>3. phase' \in [Jobs -> Phases]
    BY <1>0, <1>3 DEF Extracted, Phases, Active, InDirectory
  <2> QED
    BY <1>3, <2>2, <2>3 DEF Extracted, history, TypeOK
<1>4. ASSUME NEW j \in Jobs, Introspect(j) PROVE TypeOK'
  <2> DEFINE r == input[j].remote
             v == work[r].pkg
  <2>1. phase' \in [Jobs -> Phases]
    BY <1>0, <1>4 DEF Introspect, Phases, Active, Ended, InDirectory
  <2>2. meta' \in [Jobs -> Versions \cup {None}]
    BY <1>4 DEF Introspect, Usable, TypeOK
  <2>3. Usable(v) => Chosen(j, v) \subseteq Components
    BY DEF Usable, Chosen
  <2>4. selected' \in [Jobs -> SUBSET Components]
    BY <1>4, <2>3 DEF Introspect, TypeOK
  <2>5. work' \in [Remotes -> Directory]
    BY <1>0, <1>4 DEF Introspect, Directory
  <2> QED
    BY <1>4, <2>1, <2>2, <2>4, <2>5 DEF Introspect, history, TypeOK
<1>22. ASSUME NEW j \in Jobs, Installed(j) PROVE TypeOK'
  <2>1. phase' \in [Jobs -> Phases]
    BY <1>0, <1>22 DEF Installed, Phases, Active, InDirectory
  <2>2. work' \in [Remotes -> Directory]
    <3>1. phase[j] \in Active
      BY <1>22 DEF Installed, Active, InDirectory
    <3>2. input[j].remote \in Remotes /\ work[input[j].remote] \in Directory
      BY <1>0, <3>1, JobInput
    <3>3. work[input[j].remote].ws \in Jobs
      BY <1>22, <3>2 DEF Installed, Directory
    <3>4. tgz[work[input[j].remote].ws] \in Versions \cup {None}
      BY <3>3 DEF TypeOK
    <3> DEFINE w == [work[input[j].remote] EXCEPT !.modules = tgz[work[input[j].remote].ws]]
    <3>5. w \in Directory
      BY <3>2, <3>4 DEF Directory
    <3>6. work' = [work EXCEPT ![input[j].remote] = w]
      BY <1>22 DEF Installed
    <3> HIDE DEF w
    <3> QED
      BY <1>0, <3>5, <3>6
  <2> QED
    BY <1>22, <2>1, <2>2 DEF Installed, history, TypeOK
<1>5. ASSUME NEW j \in Jobs, Built(j) PROVE TypeOK'
  <2>1. phase' \in [Jobs -> Phases]
    BY <1>0, <1>5 DEF Built, Phases, Active, InDirectory
  <2>2. work' \in [Remotes -> Directory]
    <3>1. phase[j] \in Active
      BY <1>5 DEF Built, Active, InDirectory
    <3>2. input[j].remote \in Remotes /\ work[input[j].remote] \in Directory
      BY <1>0, <3>1, JobInput
    <3>3. work[input[j].remote].modules \in Versions \cup {None}
      BY <3>2 DEF Directory
    <3> DEFINE w == [work[input[j].remote] EXCEPT !.dist = work[input[j].remote].modules]
    <3>4. w \in Directory
      BY <3>2, <3>3 DEF Directory
    <3>5. work' = [work EXCEPT ![input[j].remote] = w]
      BY <1>5 DEF Built
    <3> HIDE DEF w
    <3> QED
      BY <1>0, <3>4, <3>5
  <2> QED
    BY <1>5, <2>1, <2>2 DEF Built, history, TypeOK
<1>6. ASSUME NEW j \in Jobs, ProcessFails(j) PROVE TypeOK'
  <2>1. phase' \in [Jobs -> Phases]
    BY <1>0, <1>6 DEF ProcessFails, Phases, Ended
  <2> QED
    BY <1>6, <2>1 DEF ProcessFails, disk, history, TypeOK
<1>7. ASSUME NEW j \in Jobs, Serve(j) PROVE TypeOK'
  <2>1. phase[j] \in Active /\ phase[j] \in InDirectory /\ phase[j] = "built"
    BY <1>7 DEF Serve, Active, InDirectory
  <2>2. meta[j] \in Versions
    BY <2>1 DEF Directories
  <2>3. registry' \in [Remotes -> Entry \cup {None}] /\ file' \in [Remotes -> Entry \cup {None}]
    BY <1>7, <2>1, <2>2, UpsertedTyped DEF Serve, Persist, TypeOK
  <2>4. phase' \in [Jobs -> Phases]
    BY <1>0, <1>7 DEF Serve, Phases, Active, Ended
  <2>5. served' \in [Remotes -> Versions \cup {None}]
    <3>1. input[j].remote \in Remotes
      BY <2>1, JobInput
    <3>2. work[input[j].remote].dist \in Versions \cup {None}
      BY <1>0, <3>1 DEF Directory
    <3> QED
      BY <1>7, <3>2 DEF Serve, TypeOK
  <2>6. posts' \in [Jobs -> SUBSET Components]
    BY <1>7 DEF Serve, TypeOK
  <2>7. torn' \in [Remotes -> BOOLEAN]
    BY <1>7 DEF Serve, TypeOK
  <2> QED
    BY <1>7, <2>3, <2>4, <2>5, <2>6, <2>7 DEF Serve, TypeOK
<1>23. ASSUME NEW j \in Jobs, ServeFails(j) PROVE TypeOK'
  <2>1. phase[j] \in Active /\ phase[j] \in InDirectory /\ phase[j] = "built"
    BY <1>23 DEF ServeFails, Active, InDirectory
  <2>2. meta[j] \in Versions
    BY <2>1 DEF Directories
  <2>3. registry' \in [Remotes -> Entry \cup {None}] /\ file' \in [Remotes -> Entry \cup {None}]
    BY <1>23, <2>1, <2>2, UpsertedTyped DEF ServeFails, PersistFails, NoRecords, TypeOK
  <2>4. phase' \in [Jobs -> Phases]
    BY <1>0, <1>23 DEF ServeFails, Phases, Active, Ended
  <2>5. served' \in [Remotes -> Versions \cup {None}]
    <3>1. input[j].remote \in Remotes
      BY <2>1, JobInput
    <3>2. work[input[j].remote].dist \in Versions \cup {None}
      BY <1>0, <3>1 DEF Directory
    <3> QED
      BY <1>23, <3>2 DEF ServeFails, TypeOK
  <2>6. troubles' \in 0 .. MaxTroubles
    BY <1>23 DEF ServeFails, PersistFails, Trouble, TypeOK
  <2>7. torn' \in [Remotes -> BOOLEAN]
    BY <1>23 DEF ServeFails, TypeOK
  <2> QED
    BY <1>23, <2>3, <2>4, <2>5, <2>6, <2>7 DEF ServeFails, TypeOK
<1>8. ASSUME NEW j \in Jobs, NEW c \in Components, Post(j, c) PROVE TypeOK'
  <2>1. phase' \in [Jobs -> Phases]
    BY <1>0, <1>8 DEF Post, Phases, Active, Ended
  <2>2. posts' \in [Jobs -> SUBSET Components]
    BY <1>8 DEF Post, TypeOK
  <2>3. rows' \in [Components -> Jobs \cup {None, Burned}] /\ troubles' \in 0 .. MaxTroubles
    BY <1>8 DEF Post, Trouble, TypeOK
  <2> QED
    BY <1>8, <2>1, <2>2, <2>3 DEF Post, disk, history, TypeOK
<1>9. ASSUME NEW r \in Remotes, NEW b \in BOOLEAN, SetDisabled(r, b) PROVE TypeOK'
  <2>1. [registry[r] EXCEPT !.disabled = b] \in Entry
    BY <1>9 DEF SetDisabled, TypeOK, Entry
  <2>2. [registry EXCEPT ![r].disabled = b] \in [Remotes -> Entry \cup {None}]
    BY <1>9, <2>1 DEF SetDisabled, TypeOK
  <2>3. /\ registry' \in [Remotes -> Entry \cup {None}] /\ file' \in [Remotes -> Entry \cup {None}]
        /\ troubles' \in 0 .. MaxTroubles
    BY <1>9, <2>2, PersistTyped DEF SetDisabled, TypeOK
  <2> QED
    BY <1>9, <2>3 DEF SetDisabled, history, jobVars, TypeOK
<1>10. ASSUME NEW d \in Deletions, NEW r \in Remotes, Delete(d, r) PROVE TypeOK'
  <2>1. /\ registry' \in [Remotes -> Entry \cup {None}] /\ file' \in [Remotes -> Entry \cup {None}]
        /\ served' \in [Remotes -> Versions \cup {None}] /\ gone' \in [Remotes -> BOOLEAN]
    BY <1>10 DEF Delete, Persist, TypeOK
  <2>2. deletion' \in [Deletions -> DeleteRequest]
    BY <1>0, <1>10 DEF Delete, DeleteRequest
  <2> QED
    BY <1>10, <2>1, <2>2 DEF Delete, jobVars, TypeOK
<1>24. ASSUME NEW d \in Deletions, NEW r \in Remotes, DeleteFails(d, r) PROVE TypeOK'
  <2>1. [registry EXCEPT ![r] = None] \in [Remotes -> Entry \cup {None}]
    BY DEF TypeOK
  <2> DEFINE reg == [registry EXCEPT ![r] = None]
  <2>5. PersistFails(reg) \/ (Trouble /\ Persist(reg))
    BY <1>24 DEF DeleteFails
  <2>6. Trouble => troubles' \in 0 .. MaxTroubles
    BY DEF Trouble, TypeOK
  <2> HIDE DEF reg
  <2>2. /\ registry' \in [Remotes -> Entry \cup {None}] /\ file' \in [Remotes -> Entry \cup {None}]
        /\ troubles' \in 0 .. MaxTroubles
    BY <2>1, <2>5, <2>6, PersistTyped DEF reg
  <2>3. served' \in [Remotes -> Versions \cup {None}]
    BY <1>24 DEF DeleteFails, TypeOK
  <2>4. deletion' \in [Deletions -> DeleteRequest]
    BY <1>0, <1>24 DEF DeleteFails, DeleteRequest
  <2> QED
    BY <1>24, <2>2, <2>3, <2>4 DEF DeleteFails, history, jobVars, TypeOK
<1>11. ASSUME NEW d \in Deletions, CutShort(d) PROVE TypeOK'
  <2>1. deletion' \in [Deletions -> DeleteRequest]
    BY <1>0, <1>11 DEF CutShort, DeleteRequest
  <2>2. spoiled' \in [Remotes -> BOOLEAN]
    BY <1>11 DEF CutShort, TypeOK
  <2>3. troubles' \in 0 .. MaxTroubles
    BY <1>11 DEF CutShort, Trouble, TypeOK
  <2> QED
    BY <1>11, <2>1, <2>2, <2>3 DEF CutShort, disk, jobVars, TypeOK
<1>12. ASSUME NEW d \in Deletions, ListRows(d) PROVE TypeOK'
  <2> DEFINE found == {<<c, rows[c]>> : c \in RowsOf(deletion[d].remote)}
             e == [deletion[d] EXCEPT !.step = IF found = {} THEN "done" ELSE "deleting",
                                      !.rows = found]
  <2>1. found \subseteq Components \X Jobs
    BY DEF RowsOf
  <2>2. deletion' = [deletion EXCEPT ![d] = e]
    BY <1>0, <1>12 DEF ListRows
  <2> HIDE DEF found
  <2>3. e \in DeleteRequest
    BY <1>0, <2>1 DEF DeleteRequest
  <2> HIDE DEF e
  <2>4. deletion' \in [Deletions -> DeleteRequest]
    BY <1>0, <2>2, <2>3
  <2> QED
    BY <1>12, <2>4 DEF ListRows, disk, history, jobVars, TypeOK
<1>13. ASSUME NEW d \in Deletions, NEW row \in deletion[d].rows, DeleteRow(d, row) PROVE TypeOK'
  <2> DEFINE e == [deletion[d] EXCEPT
                      !.step = IF deletion[d].rows = {row} THEN "done" ELSE "deleting",
                      !.rows = @ \ {row}]
  <2>1. deletion' = [deletion EXCEPT ![d] = e]
    BY <1>0, <1>13 DEF DeleteRow
  <2>2. e \in DeleteRequest
    <3>1. deletion[d] \in DeleteRequest
      BY <1>0
    <3>2. deletion[d].rows \ {row} \subseteq Components \X Jobs
      BY <3>1 DEF DeleteRequest
    <3> QED
      BY <3>1, <3>2 DEF DeleteRequest
  <2> HIDE DEF e
  <2>3. deletion' \in [Deletions -> DeleteRequest]
    BY <1>0, <2>1, <2>2
  <2>4. rows' \in [Components -> Jobs \cup {None, Burned}]
    BY <1>13 DEF DeleteRow, TypeOK
  <2>5. spoiled' \in [Remotes -> BOOLEAN]
    BY <1>13 DEF DeleteRow, TypeOK
  <2>6. troubles' \in 0 .. MaxTroubles
    BY <1>13 DEF DeleteRow, Trouble, TypeOK
  <2> QED
    BY <1>13, <2>3, <2>4, <2>5, <2>6 DEF DeleteRow, disk, jobVars, TypeOK
<1>14. CASE Crash
  <2>1. registry' \in [Remotes -> Entry \cup {None}] /\ file' \in [Remotes -> Entry \cup {None}]
    BY <1>14, RestartTyped DEF Crash, NoRecords, TypeOK
  <2> QED
    BY <1>14, <2>1, DieTyped DEF Crash, TypeOK, Die
<1>15. ASSUME NEW j \in Jobs, CrashServing(j) PROVE TypeOK'
  <2>1. phase[j] \in Active /\ phase[j] \in InDirectory /\ phase[j] = "built" /\ Die
    BY <1>15 DEF CrashServing, Active, InDirectory
  <2>2. meta[j] \in Versions /\ input[j].remote \in Remotes
    BY <2>1, JobInput DEF Directories
  <2>3. registry' \in [Remotes -> Entry \cup {None}] /\ file' \in [Remotes -> Entry \cup {None}]
    <3>1. NoRecords \in [Remotes -> Entry \cup {None}]
      BY DEF NoRecords
    <3>2. Restart(file) \/ Restart(Upserted(j)) \/ Restart(NoRecords)
      BY <1>15 DEF CrashServing
    <3>3. file \in [Remotes -> Entry \cup {None}] /\ Upserted(j) \in [Remotes -> Entry \cup {None}]
      BY <2>1, <2>2, UpsertedTyped DEF TypeOK
    <3> QED
      BY <3>1, <3>2, <3>3, RestartTyped
  <2>4. served' \in [Remotes -> Versions \cup {None}]
    <3>1. work[input[j].remote].dist \in Versions \cup {None}
      BY <1>0, <2>2 DEF Directory
    <3> QED
      BY <1>15, <3>1 DEF CrashServing, TypeOK
  <2>5. torn' \in [Remotes -> BOOLEAN]
    BY <1>15 DEF CrashServing, TypeOK
  <2> QED
    BY <1>15, <2>1, <2>3, <2>4, <2>5, DieTyped DEF CrashServing, Die, TypeOK
<1>16. ASSUME NEW r \in Remotes, CrashDeleting(r) PROVE TypeOK'
  <2>1. registry' \in [Remotes -> Entry \cup {None}] /\ file' \in [Remotes -> Entry \cup {None}]
    <3>1. [registry EXCEPT ![r] = None] \in [Remotes -> Entry \cup {None}]
      BY DEF TypeOK
    <3> QED
      BY <1>16, <3>1, RestartTyped DEF CrashDeleting
  <2> QED
    BY <1>16, <2>1, DieTyped DEF CrashDeleting, Die, TypeOK
<1>17. CASE UNCHANGED vars
  BY <1>17 DEF vars, disk, jobVars, history, TypeOK
<1> QED
  BY <1>1, <1>2, <1>3, <1>4, <1>5, <1>6, <1>7, <1>8, <1>9, <1>10, <1>11, <1>12, <1>13, <1>14,
     <1>15, <1>16, <1>17, <1>21, <1>22, <1>23, <1>24 DEF Step, Begins, Job, Deleting

----------------------------------------------------------------------------
(* Jobs and their directories.                                             *)

LEMMA AskedStep == ASSUME TypeOK, Asked, Step PROVE Asked'
<1>1. ASSUME NEW j \in Jobs, NEW in \in Input, Begin(j, in) PROVE Asked'
  <2>1. /\ \A k \in Jobs : k # j => phase'[k] = phase[k] /\ input'[k] = input[k]
        /\ phase'[j] # "new" /\ input'[j] = in /\ rows' = rows
    <3>1. input' = [input EXCEPT ![j] = in] /\ rows' = rows
      BY <1>1 DEF Begin
    <3> QED
      BY <1>1, <3>1, BeginPhases DEF TypeOK
  <2> QED
    BY <2>1 DEF Asked
<1>2. ASSUME NEW j \in Jobs, Job(j) PROVE Asked'
  <2>1. \A k \in Jobs : phase[k] # "new" <=> phase'[k] # "new"
    <3>1. phase[j] # "new" /\ \E p \in Phases \ {"new"} : phase' = [phase EXCEPT ![j] = p]
      <4>1. CASE \/ Unzipped(j) \/ Fetched(j) \/ Extracted(j) \/ Installed(j) \/ Built(j)
                 \/ ProcessFails(j)
        BY <4>1 DEF Unzipped, Fetched, Extracted, Installed, Built, ProcessFails,
                    Phases, Active, InDirectory, Ended
      <4>2. CASE Introspect(j)
        BY <4>2 DEF Introspect, Phases, Active, InDirectory, Ended
      <4>3. CASE Serve(j) \/ ServeFails(j)
        BY <4>3 DEF Serve, ServeFails, Phases, Active, Ended
      <4>4. CASE \E c \in Components : Post(j, c)
        BY <4>4 DEF Post, Phases, Active, Ended
      <4> QED
        BY <1>2, <4>1, <4>2, <4>3, <4>4 DEF Job
    <3> QED
      BY <3>1 DEF TypeOK
  <2>2. input' = input
    BY <1>2 DEF Job, Unzipped, Fetched, Extracted, Introspect, Installed,
            Built, ProcessFails, Serve, ServeFails, Post, disk
  <2>3. rows' = rows \/ (phase[j] # "new" /\ \E c \in Components : rows' = [rows EXCEPT ![c] = j])
    BY <1>2 DEF Job, Unzipped, Fetched, Extracted, Introspect, Installed,
            Built, ProcessFails, Serve, ServeFails, Post, disk
  <2> QED
    BY <2>1, <2>2, <2>3 DEF Asked, TypeOK
<1>3. ASSUME NEW r \in Remotes,
             \/ \E b \in BOOLEAN : SetDisabled(r, b)
             \/ \E d \in Deletions : Delete(d, r) \/ DeleteFails(d, r)
      PROVE  Asked'
  BY <1>3 DEF SetDisabled, Delete, DeleteFails, jobVars, Asked
<1>4. ASSUME NEW d \in Deletions, CutShort(d) \/ ListRows(d) PROVE Asked'
  BY <1>4 DEF CutShort, ListRows, disk, jobVars, Asked
<1>5. ASSUME NEW d \in Deletions, NEW row \in deletion[d].rows, DeleteRow(d, row) PROVE Asked'
  <2>1. phase' = phase /\ input' = input
        /\ (rows' = rows \/ rows' = [rows EXCEPT ![row[1]] = Burned])
    BY <1>5 DEF DeleteRow, disk, jobVars
  <2>2. Burned \notin Jobs
    BY IngestAssumption DEF IngestAssumption
  <2> QED
    BY <2>1, <2>2 DEF Asked, TypeOK
<1>6. CASE Die
  BY <1>6 DEF Die, Active, InDirectory, Asked, TypeOK
<1>7. CASE UNCHANGED vars
  BY <1>7 DEF vars, disk, jobVars, Asked
<1> QED
  BY <1>1, <1>2, <1>3, <1>4, <1>5, <1>6, <1>7
     DEF Step, Begins, Deleting, Crash, CrashServing, CrashDeleting

\* A step of job j, which is at p then: nobody else is in the directory while it is
\* not shared.
LEMMA OwnStep ==
    ASSUME TypeOK, Asked, Alone, Directories,
           NEW j \in Jobs, phase[j] \in Active, NEW p \in Phases, NEW w, NEW m, NEW t,
           phase' = [phase EXCEPT ![j] = p], p \in InDirectory => phase[j] \in InDirectory,
           work' = [work EXCEPT ![input[j].remote] = w], meta' = [meta EXCEPT ![j] = m],
           tgz' = [tgz EXCEPT ![j] = t],
           UNCHANGED <<input, shared>>,
           phase[j] \notin InDirectory => w = work[input[j].remote],
           p \in {"installing", "building", "built"} => m \in Versions,
           ~shared[input[j].remote] =>
              /\ p = "extracted" => w.pkg = t
              /\ p = "installing" => w.ws = j /\ m = t
              /\ p = "building" => w.modules = m
              /\ p = "built" => w.dist = m
    PROVE  Alone' /\ Directories'
<1>t. /\ phase \in [Jobs -> Phases] /\ work \in [Remotes -> Directory]
      /\ input \in [Jobs -> Input \cup {None}] /\ shared \in [Remotes -> BOOLEAN]
      /\ tgz \in [Jobs -> Versions \cup {None}] /\ meta \in [Jobs -> Versions \cup {None}]
  BY DEF TypeOK
<1>a. \A k \in Jobs : phase[k] \in InDirectory =>
          phase[k] \in Active /\ input[k].remote \in Remotes
  BY JobInput DEF Active
<1> DEFINE r == input[j].remote
<1>1. r \in Remotes
  BY JobInput
<1>2. /\ \A k \in Jobs : k # j => phase'[k] = phase[k] /\ meta'[k] = meta[k] /\ tgz'[k] = tgz[k]
      /\ phase'[j] = p /\ meta'[j] = m /\ tgz'[j] = t
      /\ \A s \in Remotes : s # r => work'[s] = work[s]
      /\ work'[r] = w /\ input' = input /\ shared' = shared
  BY <1>t, <1>1
<1>3. \A k \in Jobs : phase'[k] \in InDirectory => phase[k] \in InDirectory
  BY <1>2
<1>4. Alone'
  BY <1>2, <1>3 DEF Alone
<1>5. ASSUME NEW k \in Jobs, phase'[k] \in InDirectory
      PROVE  /\ phase'[k] \in {"installing", "building", "built"} => meta'[k] \in Versions
             /\ ~shared'[input'[k].remote] => Finds(k, phase[k], work[input[k].remote])'
  <2>1. CASE k = j
    BY <1>2, <2>1 DEF Finds
  <2>2. CASE k # j
    <3>1. phase[k] \in InDirectory /\ input[k].remote \in Remotes
      BY <1>a, <1>3, <1>5
    <3>2. ASSUME ~shared[input[k].remote] PROVE work'[input[k].remote] = work[input[k].remote]
      BY <1>2, <2>2, <3>1, <3>2 DEF Alone
    <3> QED
      BY <1>2, <2>2, <3>1, <3>2 DEF Directories, Finds
  <2> QED
    BY <2>1, <2>2
<1> QED
  BY <1>4, <1>5 DEF Directories

LEMMA DirectoriesStep ==
    ASSUME TypeOK, Asked, Alone, Directories, Step PROVE Alone' /\ Directories'
<1>0. /\ phase \in [Jobs -> Phases] /\ work \in [Remotes -> Directory]
      /\ input \in [Jobs -> Input \cup {None}] /\ shared \in [Remotes -> BOOLEAN]
      /\ tgz \in [Jobs -> Versions \cup {None}] /\ meta \in [Jobs -> Versions \cup {None}]
  BY DEF TypeOK
<1>a. \A k \in Jobs : phase[k] \in InDirectory =>
          phase[k] \in Active /\ input[k].remote \in Remotes
  BY JobInput DEF Active
\* A request wipes the directory; whoever was in it no longer is alone.
<1>1. ASSUME NEW j \in Jobs, NEW in \in Input, Begin(j, in) PROVE Alone' /\ Directories'
  <2> DEFINE r == in.remote
  <2>1. r \in Remotes
    BY InputFields
  <2>2. /\ \A k \in Jobs : k # j => phase'[k] = phase[k] /\ input'[k] = input[k] /\ tgz'[k] = tgz[k]
        /\ phase[j] = "new" /\ phase'[j] \in {"unzipping", "fetching", "extracting"} /\ input'[j] = in
        /\ meta' = meta
        /\ \A s \in Remotes : s # r => work'[s] = work[s] /\ shared'[s] = shared[s]
        /\ shared'[r] = (shared[r] \/ \E k \in UnderWay(r) : phase[k] \in InDirectory)
    <3>1. phase[j] = "new" /\ UNCHANGED meta
      BY <1>1 DEF Begin
    <3>2. /\ input'[j] = in /\ \A k \in Jobs : k # j => input'[k] = input[k] /\ tgz'[k] = tgz[k]
      BY <1>0, <1>1 DEF Begin
    <3>3. /\ \A s \in Remotes : s # r => work'[s] = work[s] /\ shared'[s] = shared[s]
          /\ shared'[r] = (shared[r] \/ \E k \in UnderWay(r) : phase[k] \in InDirectory)
      BY <1>0, <1>1, <2>1 DEF Begin
    <3> QED
      BY <1>1, <3>1, <3>2, <3>3, BeginPhases
  <2>3. ASSUME NEW k \in Jobs, k # j, phase'[k] \in InDirectory, ~shared'[input'[k].remote]
        PROVE  input'[k].remote # r /\ ~shared[input[k].remote] /\ input'[k].remote \in Remotes
    <3>1. phase[k] \in InDirectory /\ input'[k] = input[k] /\ input[k].remote \in Remotes
      BY <1>a, <2>2, <2>3
    <3>2. input[k].remote = r => k \in UnderWay(r)
      BY <3>1, <1>a DEF UnderWay
    <3> QED
      BY <2>2, <2>3, <3>1, <3>2
  <2>4. Alone'
    BY <2>2, <2>3 DEF Alone
  <2>5. ASSUME NEW k \in Jobs, phase'[k] \in InDirectory
        PROVE  /\ phase'[k] \in {"installing", "building", "built"} => meta'[k] \in Versions
               /\ ~shared'[input'[k].remote] => Finds(k, phase[k], work[input[k].remote])'
    <3>1. CASE k = j
      BY <2>2, <3>1 DEF Finds
    <3>2. CASE k # j
      BY <2>2, <2>3, <2>5, <3>2 DEF Directories, Finds
    <3> QED
      BY <3>1, <3>2
  <2> QED
    BY <2>4, <2>5 DEF Directories
<1>21. ASSUME NEW j \in Jobs, Unzipped(j) PROVE Alone' /\ Directories'
  <2>1. phase[j] = "unzipping" /\ phase[j] \in InDirectory /\ phase[j] \in Active
    BY <1>21 DEF Unzipped, InDirectory, Active
  <2>2. /\ phase' = [phase EXCEPT ![j] = "fetching"] /\ "fetching" \in Phases
        /\ \E w : work' = [work EXCEPT ![input[j].remote] = w]
        /\ tgz' = [tgz EXCEPT ![j] = tgz[j]]
        /\ meta' = [meta EXCEPT ![j] = meta[j]] /\ UNCHANGED <<input, shared>>
    BY <1>0, <1>21 DEF Unzipped, history, Phases, Active, InDirectory
  <2> QED
    BY <2>1, <2>2, OwnStep
<1>2. ASSUME NEW j \in Jobs, Fetched(j) PROVE Alone' /\ Directories'
  <2>1. phase[j] = "fetching" /\ phase[j] \in InDirectory /\ phase[j] \in Active
    BY <1>2 DEF Fetched, InDirectory, Active
  <2>2. /\ phase' = [phase EXCEPT ![j] = "extracting"] /\ "extracting" \in Phases
        /\ \E w : work' = [work EXCEPT ![input[j].remote] = w]
        /\ \E t : tgz' = [tgz EXCEPT ![j] = t]
        /\ meta' = [meta EXCEPT ![j] = meta[j]] /\ UNCHANGED <<input, shared>>
    BY <1>0, <1>2 DEF Fetched, history, Phases, Active, InDirectory
  <2> QED
    BY <2>1, <2>2, OwnStep
<1>3. ASSUME NEW j \in Jobs, Extracted(j) PROVE Alone' /\ Directories'
  <2> DEFINE w == [work[input[j].remote] EXCEPT !.pkg = tgz[j]]
  <2>1. phase[j] = "extracting" /\ phase[j] \in InDirectory /\ phase[j] \in Active
    BY <1>3 DEF Extracted, InDirectory, Active
  <2>2. /\ phase' = [phase EXCEPT ![j] = "extracted"] /\ "extracted" \in Phases
        /\ work' = [work EXCEPT ![input[j].remote] = w]
        /\ tgz' = [tgz EXCEPT ![j] = tgz[j]] /\ meta' = [meta EXCEPT ![j] = meta[j]]
        /\ UNCHANGED <<input, shared>>
    BY <1>0, <1>3 DEF Extracted, history, Phases, Active, InDirectory
  <2>3. w.pkg = tgz[j]
    <3>1. work[input[j].remote] \in Directory
      BY <1>0, <1>a, <2>1
    <3> QED
      BY <3>1 DEF Directory
  <2> HIDE DEF w
  <2> QED
    BY <2>1, <2>2, <2>3, OwnStep
<1>4. ASSUME NEW j \in Jobs, Introspect(j) PROVE Alone' /\ Directories'
  <2> DEFINE r == input[j].remote
             v == work[r].pkg
             w == [work[r] EXCEPT !.ws = j]
  <2>1. /\ phase[j] = "extracted" /\ phase[j] \in InDirectory /\ phase[j] \in Active
        /\ r \in Remotes /\ work[r] \in Directory
    BY <1>0, <1>a, <1>4 DEF Introspect, InDirectory, Active
  <2>2. /\ tgz' = [tgz EXCEPT ![j] = tgz[j]] /\ UNCHANGED <<input, shared>>
        /\ work = [work EXCEPT ![r] = work[r]] /\ meta = [meta EXCEPT ![j] = meta[j]]
    BY <1>0, <1>4 DEF Introspect, history
  <2>3. \/ /\ \E p \in {"failed", "discovered"} : phase' = [phase EXCEPT ![j] = p]
           /\ \E m : meta' = [meta EXCEPT ![j] = m]
           /\ work' = work
        \/ /\ phase' = [phase EXCEPT ![j] = "installing"]
           /\ meta' = [meta EXCEPT ![j] = v] /\ v \in Versions
           /\ work' = [work EXCEPT ![r] = w]
    BY <1>4, <2>2 DEF Introspect, Usable
  <2>4. {"failed", "discovered", "installing"} \subseteq Phases
        /\ "failed" \notin InDirectory /\ "discovered" \notin InDirectory
    BY DEF Phases, Active, Ended, InDirectory
  <2>5. w.ws = j
    BY <2>1 DEF Directory
  <2>6. ~shared[r] => v = tgz[j]
    BY <2>1 DEF Directories, Finds
  <2> HIDE DEF w, v
  <2>7. CASE /\ phase' = [phase EXCEPT ![j] = "installing"]
             /\ meta' = [meta EXCEPT ![j] = v] /\ v \in Versions
             /\ work' = [work EXCEPT ![r] = w]
    BY <2>1, <2>2, <2>4, <2>5, <2>6, <2>7, OwnStep
  <2>8. CASE /\ \E p \in {"failed", "discovered"} : phase' = [phase EXCEPT ![j] = p]
             /\ \E m : meta' = [meta EXCEPT ![j] = m]
             /\ work' = work
    <3>1. PICK p \in {"failed", "discovered"} : phase' = [phase EXCEPT ![j] = p]
      BY <2>8
    <3>2. PICK m : meta' = [meta EXCEPT ![j] = m]
      BY <2>8
    <3>3. p \in Phases /\ p \notin InDirectory
          /\ p # "extracted" /\ p # "installing" /\ p # "building" /\ p # "built"
      BY <2>4
    <3>4. work' = [work EXCEPT ![r] = work[r]]
      BY <2>2, <2>8
    <3> QED
      BY <2>1, <2>2, <3>1, <3>2, <3>3, <3>4, OwnStep
  <2> QED
    BY <2>3, <2>7, <2>8
\* npm install takes the workspace in the directory and the tarball that it names.
<1>22. ASSUME NEW j \in Jobs, Installed(j) PROVE Alone' /\ Directories'
  <2> DEFINE r == input[j].remote
             w == [work[r] EXCEPT !.modules = tgz[work[r].ws]]
  <2>1. /\ phase[j] = "installing" /\ phase[j] \in InDirectory /\ phase[j] \in Active
        /\ r \in Remotes /\ work[r] \in Directory
    BY <1>0, <1>a, <1>22 DEF Installed, InDirectory, Active
  <2>2. /\ phase' = [phase EXCEPT ![j] = "building"] /\ "building" \in Phases
        /\ work' = [work EXCEPT ![r] = w]
        /\ tgz' = [tgz EXCEPT ![j] = tgz[j]] /\ meta' = [meta EXCEPT ![j] = meta[j]]
        /\ UNCHANGED <<input, shared>>
    BY <1>0, <1>22 DEF Installed, history, Phases, Active, InDirectory
  <2>3. meta[j] \in Versions
    BY <2>1 DEF Directories
  <2>4. ~shared[r] => w.modules = meta[j]
    <3>1. w.modules = tgz[work[r].ws]
      BY <2>1 DEF Directory
    <3> QED
      BY <2>1, <3>1 DEF Directories, Finds
  <2> HIDE DEF w
  <2> QED
    BY <2>1, <2>2, <2>3, <2>4, OwnStep
\* The build takes what is installed there.
<1>5. ASSUME NEW j \in Jobs, Built(j) PROVE Alone' /\ Directories'
  <2> DEFINE r == input[j].remote
             w == [work[r] EXCEPT !.dist = work[r].modules]
  <2>1. /\ phase[j] = "building" /\ phase[j] \in InDirectory /\ phase[j] \in Active
        /\ r \in Remotes /\ work[r] \in Directory
    BY <1>0, <1>a, <1>5 DEF Built, InDirectory, Active
  <2>2. /\ phase' = [phase EXCEPT ![j] = "built"] /\ "built" \in Phases
        /\ work' = [work EXCEPT ![r] = w]
        /\ tgz' = [tgz EXCEPT ![j] = tgz[j]] /\ meta' = [meta EXCEPT ![j] = meta[j]]
        /\ UNCHANGED <<input, shared>>
    BY <1>0, <1>5 DEF Built, history, Phases, Active, InDirectory
  <2>3. meta[j] \in Versions
    BY <2>1 DEF Directories
  <2>4. ~shared[r] => w.dist = meta[j]
    <3>1. w.dist = work[r].modules
      BY <2>1 DEF Directory
    <3> QED
      BY <2>1, <3>1 DEF Directories, Finds
  <2> HIDE DEF w
  <2> QED
    BY <2>1, <2>2, <2>3, <2>4, OwnStep
<1>6. ASSUME NEW j \in Jobs,
             \/ ProcessFails(j) \/ Serve(j) \/ ServeFails(j)
             \/ \E c \in Components : Post(j, c)
      PROVE  Alone' /\ Directories'
  <2>1. /\ phase[j] \in Active
        /\ \E p \in {"failed", "posting", "registered"} : phase' = [phase EXCEPT ![j] = p]
        /\ UNCHANGED <<work, meta, tgz, input, shared>>
    BY <1>6 DEF ProcessFails, Serve, ServeFails, Post, disk, history, Active, InDirectory
  <2>2. \A p \in {"failed", "posting", "registered"} : p \in Phases /\ p \notin InDirectory
    BY DEF Phases, Active, Ended, InDirectory
  <2>3. /\ work' = [work EXCEPT ![input[j].remote] = work[input[j].remote]]
        /\ meta' = [meta EXCEPT ![j] = meta[j]] /\ tgz' = [tgz EXCEPT ![j] = tgz[j]]
    BY <1>0, <2>1
  <2> QED
    <3>1. PICK p \in {"failed", "posting", "registered"} : phase' = [phase EXCEPT ![j] = p]
      BY <2>1
    <3>2. p \in Phases /\ p \notin InDirectory
          /\ p # "extracted" /\ p # "installing" /\ p # "building" /\ p # "built"
      BY <2>2
    <3>3. phase[j] \in Active /\ UNCHANGED <<input, shared>>
      BY <2>1
    <3> QED
      BY <2>3, <3>1, <3>2, <3>3, OwnStep
<1>7. ASSUME UNCHANGED <<phase, input, tgz, meta, work, shared>> PROVE Alone' /\ Directories'
  BY <1>7 DEF Alone, Directories, Finds
<1>8. CASE Die
  <2>1. /\ \A j \in Jobs : phase'[j] \notin InDirectory
    BY <1>0, <1>8 DEF Die, Active, InDirectory
  <2> QED
    BY <2>1 DEF Alone, Directories
<1>9. ASSUME NEW r \in Remotes,
             \/ \E b \in BOOLEAN : SetDisabled(r, b)
             \/ \E d \in Deletions : Delete(d, r) \/ DeleteFails(d, r)
      PROVE  Alone' /\ Directories'
  BY <1>7, <1>9 DEF SetDisabled, Delete, DeleteFails, jobVars, history
<1>10. ASSUME NEW d \in Deletions, CutShort(d) \/ Deleting(d) PROVE Alone' /\ Directories'
  BY <1>7, <1>10 DEF CutShort, Deleting, ListRows, DeleteRow, disk, jobVars, history
<1>11. CASE UNCHANGED vars
  BY <1>7, <1>11 DEF vars, disk, jobVars, history
<1> QED
  BY <1>1, <1>2, <1>3, <1>4, <1>5, <1>6, <1>8, <1>9, <1>10, <1>11, <1>21, <1>22
     DEF Step, Begins, Job, Crash, CrashServing, CrashDeleting

----------------------------------------------------------------------------
(* What the Hub is told.                                                   *)

\* After a step remote r has, in memory and in the file, only what it had in one of
\* them, or nothing, or its seed.
RecordsKept(r) ==
    \A e \in {registry'[r], file'[r]} :
        e \in {registry[r], file[r], None} \/ (e = Seed /\ r \in Seeds)

\* The records reg of memory are written to the file, or writing fails.
LEMMA AfterPersist ==
    ASSUME NEW reg, NEW r \in Remotes, Persist(reg) \/ PersistFails(reg)
    PROVE  registry'[r] = reg[r] /\ file'[r] \in {reg[r], file[r], None}
BY DEF Persist, PersistFails, NoRecords

LEMMA AfterRestart ==
    ASSUME NEW f, NEW r \in Remotes, Restart(f)
    PROVE  file'[r] = f[r] /\ (registry'[r] = f[r] \/ (r \in Seeds /\ registry'[r] = Seed))
BY DEF Restart, Reloaded

LEMMA SeedVersion == Seed.version = "seed"
BY DEF Seed

\* The record an ingest leaves, and the records it leaves alone.
LEMMA UpsertedRecords ==
    ASSUME TypeOK, Asked, NEW j \in Jobs, phase[j] \in Active
    PROVE  /\ Upserted(j)[input[j].remote].version = meta[j]
           /\ \A r \in Remotes : r # input[j].remote => Upserted(j)[r] = registry[r]
<1>1. input[j].remote \in Remotes
  BY JobInput
<1> QED
  BY <1>1 DEF Upserted, TypeOK

\* What ListedIsServed says of a record of one remote.
ServedAs(r, record) ==
    record # None /\ record.version # "seed" /\ ~torn[r] =>
        /\ served[r] # None
        /\ ~shared[r] => served[r] = record.version

ServedAsListed(r) == ServedAs(r, registry[r]) /\ ServedAs(r, file[r])

LEMMA ListedStep ==
    ASSUME TypeOK, Asked, Directories, ListedIsServed, Step PROVE ListedIsServed'
<1> SUFFICES ASSUME NEW r \in Remotes PROVE ServedAsListed(r)'
  BY DEF ListedIsServed, ServedAsListed, ServedAs
<1>0. ServedAsListed(r)
  BY DEF ListedIsServed, ServedAsListed, ServedAs
<1>a. /\ registry \in [Remotes -> Entry \cup {None}] /\ file \in [Remotes -> Entry \cup {None}]
      /\ served \in [Remotes -> Versions \cup {None}]
      /\ torn \in [Remotes -> BOOLEAN] /\ shared \in [Remotes -> BOOLEAN]
  BY DEF TypeOK
<1>1. ASSUME RecordsKept(r),
             served'[r] = served[r], torn'[r] = torn[r], shared[r] => shared'[r]
      PROVE  ServedAsListed(r)'
  BY <1>0, <1>1, SeedVersion DEF ServedAsListed, ServedAs, RecordsKept
<1>2. ASSUME NEW j \in Jobs, NEW in \in Input, Begin(j, in) PROVE ServedAsListed(r)'
  <2>1. shared[r] => shared'[r]
    BY <1>a, <1>2 DEF Begin
  <2> QED
    BY <1>1, <1>2, <2>1 DEF Begin, RecordsKept
<1>3. ASSUME NEW j \in Jobs, Serve(j) PROVE ServedAsListed(r)'
  <2> DEFINE s == input[j].remote
  <2>1. phase[j] = "built" /\ phase[j] \in InDirectory /\ phase[j] \in Active /\ s \in Remotes
    BY <1>3, JobInput DEF Serve, InDirectory, Active
  <2>2. CASE UNCHANGED <<served, registry, file, torn>>
    BY <1>1, <1>3, <2>2 DEF Serve, RecordsKept
  <2>3. CASE /\ work[s].dist # None
             /\ served' = [served EXCEPT ![s] = work[s].dist]
             /\ Persist(Upserted(j))
             /\ torn' = [torn EXCEPT ![s] = FALSE]
    <3>1. shared' = shared
      BY <1>3 DEF Serve
    <3>2. CASE r = s
      <4>1. /\ served'[r] = work[s].dist
            /\ registry'[r].version = meta[j] /\ file'[r].version = meta[j]
        BY <1>a, <2>1, <2>3, <3>2, UpsertedRecords DEF Persist
      <4>2. ~shared[s] => work[s].dist = meta[j]
        BY <2>1 DEF Directories, Finds
      <4> QED
        BY <2>3, <3>1, <3>2, <4>1, <4>2 DEF ServedAsListed, ServedAs
    <3>3. CASE r # s
      <4>1. RecordsKept(r)
        BY <2>1, <2>3, <3>3, UpsertedRecords DEF Persist, RecordsKept
      <4> QED
        BY <1>1, <1>a, <2>3, <3>1, <3>3, <4>1
    <3> QED
      BY <3>2, <3>3
  <2> QED
    BY <1>3, <2>2, <2>3 DEF Serve
\* What ServeFails and CrashServing do to the remote itself is on record in torn.
<1>12. ASSUME NEW j \in Jobs, ServeFails(j) PROVE ServedAsListed(r)'
  <2> DEFINE s == input[j].remote
  <2>1. phase[j] \in Active /\ s \in Remotes /\ shared' = shared
    BY <1>12, JobInput DEF ServeFails, InDirectory, Active
  <2>2. CASE r = s
    BY <1>12, <1>a, <2>2 DEF ServeFails, ServedAsListed, ServedAs
  <2>3. CASE r # s
    <3>1. served'[r] = served[r] /\ torn'[r] = torn[r]
      BY <1>12, <1>a, <2>3 DEF ServeFails
    <3>2. Upserted(j)[r] = registry[r]
      BY <2>1, <2>3, UpsertedRecords
    <3>3. UNCHANGED <<registry, file>> \/ PersistFails(Upserted(j))
      BY <1>12 DEF ServeFails
    <3>4. RecordsKept(r)
      BY <3>2, <3>3, AfterPersist DEF RecordsKept
    <3> QED
      BY <1>1, <2>1, <3>1, <3>4
  <2> QED
    BY <2>2, <2>3
<1>4. ASSUME NEW s \in Remotes, NEW b \in BOOLEAN, SetDisabled(s, b) PROVE ServedAsListed(r)'
  <2> DEFINE reg == [registry EXCEPT ![s] = [registry[s] EXCEPT !.disabled = b]]
  <2>1. UNCHANGED <<served, torn, shared>> /\ registry[s] \in Entry /\ registry[s] # None
    BY <1>4, <1>a DEF SetDisabled, history
  <2>2. Persist(reg) \/ PersistFails(reg)
    BY <1>4, <1>a DEF SetDisabled
  <2>3. reg[r] = registry[r] \/ (registry[r] # None /\ reg[r].version = registry[r].version)
    BY <1>a, <2>1 DEF Entry
  <2> HIDE DEF reg
  <2>4. registry'[r] = reg[r] /\ file'[r] \in {reg[r], file[r], None}
    BY <2>2, AfterPersist
  <2>5. ServedAs(r, reg[r])
    BY <1>0, <2>3 DEF ServedAsListed, ServedAs
  <2> QED
    BY <1>0, <2>1, <2>4, <2>5 DEF ServedAsListed, ServedAs
<1>5. ASSUME NEW d \in Deletions, NEW s \in Remotes, Delete(d, s) PROVE ServedAsListed(r)'
  <2>1. CASE r = s
    BY <1>5, <1>a, <2>1 DEF Delete, Persist, ServedAsListed, ServedAs
  <2>2. CASE r # s
    BY <1>1, <1>5, <1>a, <2>2 DEF Delete, Persist, RecordsKept
  <2> QED
    BY <2>1, <2>2
<1>13. ASSUME NEW d \in Deletions, NEW s \in Remotes, DeleteFails(d, s) PROVE ServedAsListed(r)'
  <2> DEFINE reg == [registry EXCEPT ![s] = None]
  <2>1. UNCHANGED <<torn, shared>>
    BY <1>13 DEF DeleteFails, history
  <2>2. reg[r] \in {registry[r], None}
    BY <1>a
  <2>3. CASE PersistFails(reg) /\ UNCHANGED served
    <3>1. RecordsKept(r)
      BY <2>2, <2>3, AfterPersist DEF RecordsKept
    <3> QED
      BY <1>1, <2>1, <2>3, <3>1
  <2>4. CASE Persist(reg) /\ served' \in {served, [served EXCEPT ![s] = None]}
    <3>1. RecordsKept(r) /\ registry'[r] = reg[r] /\ file'[r] = reg[r]
      BY <2>2, <2>4 DEF RecordsKept, Persist
    <3>2. CASE r = s
      BY <1>a, <3>1, <3>2 DEF ServedAsListed, ServedAs
    <3>3. CASE r # s
      BY <1>1, <1>a, <2>1, <2>4, <3>1, <3>3
    <3> QED
      BY <3>2, <3>3
  <2> QED
    BY <1>13, <2>3, <2>4 DEF DeleteFails
<1>6. CASE Crash
  <2>1. RecordsKept(r)
    BY <1>6, AfterRestart DEF Crash, NoRecords, RecordsKept
  <2> QED
    BY <1>1, <1>6, <2>1 DEF Crash, Die
<1>7. ASSUME NEW j \in Jobs, CrashServing(j) PROVE ServedAsListed(r)'
  <2> DEFINE s == input[j].remote
  <2>1. phase[j] \in Active /\ s \in Remotes
    BY <1>7, JobInput DEF CrashServing, InDirectory, Active
  <2>2. CASE r = s
    BY <1>7, <1>a, <2>2 DEF CrashServing, ServedAsListed, ServedAs
  <2>3. CASE r # s
    <3>1. RecordsKept(r)
      <4>1. Restart(file) \/ Restart(Upserted(j)) \/ Restart(NoRecords)
        BY <1>7 DEF CrashServing
      <4>2. Upserted(j)[r] = registry[r]
        BY <2>1, <2>3, UpsertedRecords
      <4> QED
        BY <4>1, <4>2, AfterRestart DEF NoRecords, RecordsKept
    <3>2. served'[r] = served[r] /\ torn'[r] = torn[r] /\ shared' = shared
      BY <1>7, <1>a, <2>3 DEF CrashServing, Die
    <3> QED
      BY <1>1, <3>1, <3>2
  <2> QED
    BY <2>2, <2>3
<1>8. ASSUME NEW s \in Remotes, CrashDeleting(s) PROVE ServedAsListed(r)'
  <2>1. RecordsKept(r)
    <3>1. [registry EXCEPT ![s] = None][r] \in {registry[r], None}
      BY <1>a
    <3> QED
      BY <1>8, <3>1, AfterRestart DEF CrashDeleting, RecordsKept
  <2> QED
    BY <1>1, <1>8, <2>1 DEF CrashDeleting, Die
<1>9. ASSUME NEW j \in Jobs,
             \/ Unzipped(j) \/ Fetched(j) \/ Extracted(j) \/ Introspect(j)
             \/ Installed(j) \/ Built(j) \/ ProcessFails(j)
             \/ \E c \in Components : Post(j, c)
      PROVE  ServedAsListed(r)'
  <2>1. UNCHANGED <<registry, file, served, torn, shared>>
    BY <1>9 DEF Unzipped, Fetched, Extracted, Introspect, Installed,
            Built, ProcessFails, Post, disk, history
  <2> QED
    BY <1>1, <2>1 DEF RecordsKept
<1>10. ASSUME NEW d \in Deletions, CutShort(d) \/ Deleting(d) PROVE ServedAsListed(r)'
  <2>1. UNCHANGED <<registry, file, served, torn, shared>>
    BY <1>10 DEF CutShort, Deleting, ListRows, DeleteRow, disk, history
  <2> QED
    BY <1>1, <2>1 DEF RecordsKept
<1>11. CASE UNCHANGED vars
  BY <1>1, <1>11 DEF vars, disk, history, RecordsKept
<1> QED
  BY <1>2, <1>3, <1>4, <1>5, <1>6, <1>7, <1>8, <1>9, <1>10, <1>11, <1>12, <1>13
     DEF Step, Begins, Job

----------------------------------------------------------------------------
(* What is deleted.                                                        *)

\* A remote stays deserted in a step that gives it neither a job, nor a record, nor
\* a row, and does not cut its deletion short unnoticed.
LEMMA StaysLeft ==
    ASSUME NEW r \in Remotes, Left(r),
           UnderWay(r)' = {}, RecordsKept(r),
           spoiled[r] => spoiled'[r],
           \A c \in RowsOf(r)' : c \in RowsOf(r) /\ rows'[c] = rows[c],
           \A d \in Deletions : Covers(d, r) => deletion'[d] = deletion[d] \/ spoiled'[r]
    PROVE  Left(r)'
<1>1. (\A record \in {registry[r], file[r]} :
          record = None \/ (r \in Seeds /\ record.version = "seed"))'
  BY SeedVersion DEF Left, RecordsKept
<1>2. (spoiled[r] \/ RowsOf(r) = {} \/ \E d \in Deletions : Covers(d, r))'
  <2>1. CASE spoiled'[r] \/ RowsOf(r)' = {}
    BY <2>1
  <2>2. CASE ~spoiled'[r] /\ RowsOf(r)' # {}
    <3>1. PICK d \in Deletions : Covers(d, r)
      BY <2>2 DEF Left
    <3>2. deletion'[d] = deletion[d]
      BY <2>2, <3>1
    <3>3. Covers(d, r)'
      BY <3>1, <3>2 DEF Covers
    <3> QED
      BY <3>3
  <2> QED
    BY <2>1, <2>2
<1> QED
  BY <1>1, <1>2 DEF Left

LEMMA DesertedStep == ASSUME TypeOK, Asked, Deserted, Step PROVE Deserted'
<1> SUFFICES ASSUME NEW r \in Remotes, gone'[r] PROVE Left(r)'
  BY DEF Deserted
<1>0. /\ phase \in [Jobs -> Phases] /\ input \in [Jobs -> Input \cup {None}]
      /\ registry \in [Remotes -> Entry \cup {None}] /\ deletion \in [Deletions -> DeleteRequest]
      /\ rows \in [Components -> Jobs \cup {None, Burned}]
      /\ gone \in [Remotes -> BOOLEAN] /\ spoiled \in [Remotes -> BOOLEAN]
  BY DEF TypeOK
<1>a. gone[r] => Left(r) /\ UnderWay(r) = {}
  BY DEF Deserted, Left
<1>b. ASSUME phase' = phase, input' = input PROVE UnderWay(r)' = UnderWay(r)
  BY <1>b DEF UnderWay
<1>c. ASSUME rows' = rows, input' = input PROVE RowsOf(r)' = RowsOf(r)
  BY <1>c DEF RowsOf
<1>1. ASSUME NEW j \in Jobs, NEW in \in Input, Begin(j, in) PROVE Left(r)'
  <2>1. in.remote # r /\ gone[r]
    BY <1>0, <1>1 DEF Begin
  <2>2. /\ \A k \in Jobs : k # j => phase'[k] = phase[k] /\ input'[k] = input[k]
        /\ phase[j] = "new" /\ input'[j] = in
        /\ UNCHANGED <<rows, registry, file, deletion, spoiled>>
    BY <1>0, <1>1 DEF Begin
  <2>3. UnderWay(r)' = {}
    BY <1>a, <2>1, <2>2 DEF UnderWay
  <2>4. \A c \in RowsOf(r)' : c \in RowsOf(r) /\ rows'[c] = rows[c]
    BY <2>2 DEF RowsOf, Asked
  <2> QED
    BY <1>a, <2>1, <2>2, <2>3, <2>4, StaysLeft DEF RecordsKept
<1>2. ASSUME NEW j \in Jobs, Job(j) PROVE Left(r)'
  <2>1. phase[j] \in Active
    BY <1>2 DEF Job, Unzipped, Fetched, Extracted, Introspect, Installed,
            Built, ProcessFails, Serve, ServeFails, Post, disk, Active,
                InDirectory
  <2>2. UNCHANGED <<input, deletion, gone, spoiled>> /\ gone[r]
    BY <1>2 DEF Job, Unzipped, Fetched, Extracted, Introspect, Installed,
            Built, ProcessFails, Serve, ServeFails, Post, disk, history
  <2>3. input[j].remote # r
    BY <1>a, <2>1, <2>2 DEF UnderWay
  <2>4. \A k \in Jobs : phase'[k] \in Active => phase[k] \in Active
    BY <1>0, <1>2, <2>1
       DEF Job, Unzipped, Fetched, Extracted, Introspect, Installed,
            Built, ProcessFails, Serve, ServeFails, Post, disk
  <2>5. UnderWay(r)' = {}
    BY <1>a, <2>2, <2>4 DEF UnderWay
  <2>6. \/ UNCHANGED <<registry, file>>
        \/ Persist(Upserted(j)) \/ PersistFails(Upserted(j))
    BY <1>2 DEF Job, Unzipped, Fetched, Extracted, Introspect, Installed,
            Built, ProcessFails, Serve, ServeFails, Post, disk
  <2>7. RecordsKept(r)
    <3>1. Upserted(j)[r] = registry[r]
      BY <2>1, <2>3, UpsertedRecords
    <3> QED
      BY <2>6, <3>1, AfterPersist DEF RecordsKept
  <2>8. rows' = rows \/ \E c \in Components : rows' = [rows EXCEPT ![c] = j]
    BY <1>2 DEF Job, Unzipped, Fetched, Extracted, Introspect, Installed,
            Built, ProcessFails, Serve, ServeFails, Post, disk
  <2>9. \A c \in RowsOf(r)' : c \in RowsOf(r) /\ rows'[c] = rows[c]
    BY <1>0, <2>2, <2>3, <2>8 DEF RowsOf
  <2> QED
    BY <1>a, <2>2, <2>5, <2>7, <2>9, StaysLeft
<1>3. ASSUME NEW s \in Remotes, NEW b \in BOOLEAN, SetDisabled(s, b) PROVE Left(r)'
  <2> DEFINE reg == [registry EXCEPT ![s] = [registry[s] EXCEPT !.disabled = b]]
  <2>1. UNCHANGED <<phase, input, rows, deletion, gone, spoiled>> /\ gone[r]
    BY <1>3 DEF SetDisabled, history, jobVars
  <2>2. /\ registry[s] \in Entry /\ registry[s] # None
        /\ Persist(reg) \/ PersistFails(reg)
    BY <1>0, <1>3 DEF SetDisabled
  <2>3. reg[r] = registry[r] \/ (registry[r] # None /\ reg[r].version = registry[r].version)
    BY <1>0, <2>2 DEF Entry
  <2> HIDE DEF reg
  <2>4. registry'[r] = reg[r] /\ file'[r] \in {reg[r], file[r], None}
    BY <2>2, AfterPersist
  <2>5. (\A record \in {registry[r], file[r]} :
            record = None \/ (r \in Seeds /\ record.version = "seed"))'
    BY <1>a, <2>1, <2>3, <2>4 DEF Left
  <2>6. \A d \in Deletions : Covers(d, r)' <=> Covers(d, r)
    BY <1>c, <2>1 DEF Covers
  <2> QED
    BY <1>a, <1>b, <1>c, <2>1, <2>5, <2>6 DEF Left
<1>4. ASSUME NEW d \in Deletions, NEW s \in Remotes, Delete(d, s) PROVE Left(r)'
  <2>1. UNCHANGED <<phase, input, rows, spoiled>> /\ deletion[d].step = "new"
    BY <1>4 DEF Delete, jobVars
  <2>2. CASE s = r
    <3>1. registry'[r] = None /\ file'[r] = None /\ UnderWay(r) = {}
      BY <1>0, <1>4, <2>2 DEF Delete, Persist
    <3>2. deletion'[d].step = "listing" /\ deletion'[d].remote = r
      BY <1>0, <1>4, <2>2 DEF Delete
    <3>3. Covers(d, r)'
      BY <3>2 DEF Covers
    <3> QED
      BY <1>b, <2>1, <3>1, <3>3 DEF Left
  <2>3. CASE s # r
    <3>1. gone[r] /\ RecordsKept(r)
      BY <1>0, <1>4, <2>3 DEF Delete, Persist, RecordsKept
    <3>2. \A e \in Deletions : Covers(e, r) => deletion'[e] = deletion[e]
      BY <1>0, <1>4, <2>1 DEF Delete, Covers
    <3> QED
      BY <1>a, <1>b, <1>c, <2>1, <3>1, <3>2, StaysLeft
  <2> QED
    BY <2>2, <2>3
<1>13. ASSUME NEW d \in Deletions, NEW s \in Remotes, DeleteFails(d, s) PROVE Left(r)'
  <2> DEFINE reg == [registry EXCEPT ![s] = None]
  <2>1. UNCHANGED <<phase, input, rows, gone, spoiled>> /\ deletion[d].step = "new" /\ gone[r]
    BY <1>13 DEF DeleteFails, history, jobVars
  <2>2. reg[r] \in {registry[r], None} /\ (Persist(reg) \/ PersistFails(reg))
    BY <1>0, <1>13 DEF DeleteFails
  <2>3. RecordsKept(r)
    BY <2>2, AfterPersist DEF RecordsKept
  <2>4. \A e \in Deletions : Covers(e, r) => deletion'[e] = deletion[e]
    BY <1>0, <1>13, <2>1 DEF DeleteFails, Covers
  <2> QED
    BY <1>a, <1>b, <1>c, <2>1, <2>3, <2>4, StaysLeft
<1>5. ASSUME NEW d \in Deletions, CutShort(d) PROVE Left(r)'
  <2>1. UNCHANGED <<phase, input, rows, registry, file, gone>> /\ gone[r]
    BY <1>5 DEF CutShort, disk, jobVars
  <2>2. /\ spoiled[r] => spoiled'[r]
        /\ \A e \in Deletions : Covers(e, r) => deletion'[e] = deletion[e] \/ spoiled'[r]
    BY <1>0, <1>5 DEF CutShort, Covers
  <2> QED
    BY <1>a, <1>b, <1>c, <2>1, <2>2, StaysLeft DEF RecordsKept
<1>6. ASSUME NEW d \in Deletions, ListRows(d) PROVE Left(r)'
  <2>1. UNCHANGED <<phase, input, rows, registry, file, gone, spoiled>> /\ gone[r]
    BY <1>6 DEF ListRows, disk, jobVars, history
  <2>2. CASE ~Covers(d, r)
    <3>1. \A e \in Deletions : Covers(e, r) => deletion'[e] = deletion[e]
      BY <1>0, <1>6, <2>2 DEF ListRows
    <3> QED
      BY <1>a, <1>b, <1>c, <2>1, <3>1, StaysLeft DEF RecordsKept
  <2>3. CASE Covers(d, r)
    <3> DEFINE found == {<<c, rows[c]>> : c \in RowsOf(r)}
    <3>1. /\ deletion'[d].step = IF found = {} THEN "done" ELSE "deleting"
          /\ deletion'[d].rows = found /\ deletion'[d].remote = r
      BY <1>0, <1>6, <2>3 DEF ListRows, Covers, DeleteRequest
    <3>2. CASE found = {}
      <4>1. RowsOf(r)' = {}
        BY <1>c, <2>1, <3>2
      <4> QED
        BY <1>a, <1>b, <2>1, <4>1 DEF Left
    <3>3. CASE found # {}
      <4>1. \A c \in RowsOf(r)' : <<c, rows'[c]>> \in deletion'[d].rows
        BY <1>c, <2>1, <3>1
      <4>2. Covers(d, r)'
        BY <3>1, <3>3, <4>1 DEF Covers
      <4> QED
        BY <1>a, <1>b, <2>1, <4>2 DEF Left
    <3> QED
      BY <3>2, <3>3
  <2> QED
    BY <2>2, <2>3
<1>7. ASSUME NEW d \in Deletions, NEW row \in deletion[d].rows, DeleteRow(d, row) PROVE Left(r)'
  <2>1. UNCHANGED <<phase, input, registry, file, gone>> /\ gone[r] /\ deletion[d].step = "deleting"
    BY <1>7 DEF DeleteRow, disk, jobVars
  <2>2. /\ row[1] \in Components /\ row = <<row[1], row[2]>>
        /\ spoiled[r] => spoiled'[r]
        /\ rows' = rows \/ rows' = [rows EXCEPT ![row[1]] = Burned]
    <3>1. row \in Components \X Jobs
      BY <1>0 DEF DeleteRequest
    <3> QED
      BY <1>0, <1>7, <3>1 DEF DeleteRow
  <2>3. \A c \in RowsOf(r)' : c \in RowsOf(r) /\ rows'[c] = rows[c]
    BY <1>0, <2>1, <2>2, IngestAssumption DEF RowsOf, IngestAssumption
  <2>4. \A e \in Deletions : e # d => deletion'[e] = deletion[e]
    BY <1>0, <1>7 DEF DeleteRow
  <2>5. CASE ~Covers(d, r) \/ spoiled'[r]
    BY <1>a, <1>b, <2>1, <2>2, <2>3, <2>4, <2>5, StaysLeft DEF RecordsKept
  <2>6. CASE Covers(d, r) /\ ~spoiled'[r]
    <3>1. /\ deletion'[d].step = IF deletion[d].rows = {row} THEN "done" ELSE "deleting"
          /\ deletion'[d].rows = deletion[d].rows \ {row} /\ deletion'[d].remote = r
          /\ deletion[d].remote = r
      BY <1>0, <1>7, <2>6 DEF DeleteRow, Covers, DeleteRequest
    <3>2. rows[row[1]] = row[2] => rows' = [rows EXCEPT ![row[1]] = Burned]
      BY <1>0, <1>7, <2>6, <3>1 DEF DeleteRow
    <3>3. \A c \in RowsOf(r)' : <<c, rows'[c]>> \in deletion[d].rows
      BY <2>1, <2>3, <2>6 DEF Covers
    <3>4. \A c \in RowsOf(r)' : <<c, rows'[c]>> # row
      <4> SUFFICES ASSUME NEW c \in RowsOf(r)', <<c, rows'[c]>> = row PROVE FALSE
        OBVIOUS
      <4>1. c = row[1] /\ rows'[c] = row[2] /\ rows[c] = row[2] /\ rows'[c] \in Jobs
        BY <2>3 DEF RowsOf
      <4>2. rows'[c] = Burned
        BY <1>0, <2>2, <3>2, <4>1
      <4> QED
        BY <4>1, <4>2, IngestAssumption DEF IngestAssumption
    <3>5. CASE deletion[d].rows = {row}
      <4>1. RowsOf(r)' = {}
        BY <3>3, <3>4, <3>5
      <4> QED
        BY <1>a, <1>b, <2>1, <4>1 DEF Left
    <3>6. CASE deletion[d].rows # {row}
      <4>1. Covers(d, r)'
        BY <3>1, <3>3, <3>4, <3>6 DEF Covers
      <4> QED
        BY <1>a, <1>b, <2>1, <4>1 DEF Left
    <3> QED
      BY <3>5, <3>6
  <2> QED
    BY <2>5, <2>6
<1>8. ASSUME Die, UNCHANGED gone, RecordsKept(r) PROVE Left(r)'
  <2>1. UNCHANGED <<rows, input>> /\ gone[r]
    BY <1>8 DEF Die
  <2>2. UnderWay(r)' = {}
    BY <1>0, <1>8 DEF Die, UnderWay, Active, InDirectory
  <2>3. /\ spoiled[r] => spoiled'[r]
        /\ \A d \in Deletions : Covers(d, r) => spoiled'[r]
    BY <1>8 DEF Die, Covers
  <2> QED
    BY <1>8, <1>a, <1>c, <2>1, <2>2, <2>3, StaysLeft
<1>9. CASE Crash
  <2>1. RecordsKept(r)
    BY <1>9, AfterRestart DEF Crash, NoRecords, RecordsKept
  <2> QED
    BY <1>8, <1>9, <2>1 DEF Crash
<1>10. ASSUME NEW j \in Jobs, CrashServing(j) PROVE Left(r)'
  <2>1. phase[j] \in Active /\ gone[r] /\ input' = input
    BY <1>10 DEF CrashServing, Die, Active, InDirectory
  <2>2. input[j].remote # r
    BY <1>a, <2>1 DEF UnderWay
  <2>3. Upserted(j)[r] = registry[r]
    BY <2>1, <2>2, UpsertedRecords
  <2>4. Restart(file) \/ Restart(Upserted(j)) \/ Restart(NoRecords)
    BY <1>10 DEF CrashServing
  <2>5. RecordsKept(r)
    BY <2>3, <2>4, AfterRestart DEF NoRecords, RecordsKept
  <2> QED
    BY <1>8, <1>10, <2>5 DEF CrashServing
<1>11. ASSUME NEW s \in Remotes, CrashDeleting(s) PROVE Left(r)'
  <2>1. [registry EXCEPT ![s] = None][r] \in {registry[r], None}
    BY <1>0
  <2>2. RecordsKept(r)
    BY <1>11, <2>1, AfterRestart DEF CrashDeleting, RecordsKept
  <2> QED
    BY <1>8, <1>11, <2>2 DEF CrashDeleting
<1>12. CASE UNCHANGED vars
  BY <1>12, <1>a, <1>b, <1>c, StaysLeft DEF vars, disk, jobVars, history, RecordsKept
<1> QED
  BY <1>1, <1>2, <1>3, <1>4, <1>5, <1>6, <1>7, <1>9, <1>10, <1>11, <1>12, <1>13
     DEF Step, Begins, Deleting

----------------------------------------------------------------------------
LEMMA IInvSpec == Spec => []IInv
<1>1. Init => IInv
  <2> SUFFICES ASSUME Init PROVE IInv
    OBVIOUS
  <2>1. TypeOK
    BY TypesInit
  <2>2. Asked /\ Alone /\ Directories
    BY IngestAssumption DEF IngestAssumption, Init, Asked, Alone, Directories, InDirectory
  <2>3. ListedIsServed
    BY SeedVersion DEF Init, ListedIsServed, Reloaded
  <2>4. Deserted
    BY DEF Init, Deserted
  <2> QED
    BY <2>1, <2>2, <2>3, <2>4 DEF IInv
<1>2. IInv /\ [Next]_vars => IInv'
  BY NextSteps, TypesStep, AskedStep, DirectoriesStep, ListedStep, DesertedStep DEF IInv
<1> QED
  BY <1>1, <1>2, PTL DEF Spec

\* Every variable keeps its type, deaths of the process at any point included.
THEOREM IngestTypes == Spec => []TypeOK
<1>1. IInv => TypeOK
  BY DEF IInv
<1> QED
  BY <1>1, IInvSpec, PTL

\* What the Hub is told to load is there, and is of the version it is told, however
\* ingests, deletions and restarts interleave, except that the version may differ once
\* two jobs shared the work directory, and after a job that failed or died while it
\* served the remote.
THEOREM ListedAreServed == Spec => []ListedIsServed
<1>1. IInv => ListedIsServed
  BY DEF IInv
<1> QED
  BY <1>1, IInvSpec, PTL

\* What was deleted with no job of it under way stays deleted, and none of its
\* components is listed once the catalog has answered the deletion.
THEOREM DeletedStaysGone == Spec => []DeletedIsGone
<1>1. IInv => DeletedIsGone
  BY DEF IInv, Deserted, Left, Covers, DeletedIsGone, Undone
<1> QED
  BY <1>1, IInvSpec, PTL
=============================================================================
