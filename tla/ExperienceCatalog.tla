------------------------- MODULE ExperienceCatalog -------------------------
(***************************************************************************)
(* The governed experiences of one tenant in the catalog server:           *)
(* routes/experiences.ts over experience-repo, publication-repo and        *)
(* audit-repo.  A request is one transaction of withTenantScope; an action *)
(* is one of its SQL statements, run under PostgreSQL's READ COMMITTED: it *)
(* sees what is committed when it starts, a row or a unique key another    *)
(* transaction has written makes it wait for that transaction's end, and   *)
(* an UPDATE then re-evaluates its WHERE on the committed row.  What a     *)
(* transaction wrote is pending until COMMIT and dropped by ROLLBACK.      *)
(*                                                                         *)
(* An experience is its name (unique, immutable, never reused).  Title,    *)
(* goal, body and tags are one content, named for the request that wrote   *)
(* it; an entry hash and an embed key are named for the request too.  The  *)
(* capability bodies a manifest also freezes are left out.                 *)
(***************************************************************************)
EXTENDS Integers, Sequences, FiniteSets, FiniteSetsExt

CONSTANTS
    Txns,        \* bound: the requests of a behaviour
    Experiences, \* names of experiences
    Seeded,      \* the experience that exists from the start, if any
    Ops,         \* the endpoints this instance calls
    NewStates    \* approval states experiences are created in

States == {"draft", "review", "approved", "rejected", "deprecated"}
Actions == {"submit", "approve", "reject", "deprecate", "revoke"}
Edits == {"patch", "emptyPatch", "rollback"}
Publishing == {"publish", "unpublish", "rotate"}
AllOps == Actions \cup Edits \cup Publishing \cup {"create", "delete"}

Seed == "seed"         \* the request that created the seeded experience
Genesis == "genesis"   \* AUDIT_GENESIS_HASH
Requests == Txns \cup {Seed}

ASSUME TxnsAssumption == Seed \notin Txns /\ Genesis \notin Txns

ASSUME SeedAssumption ==
    /\ Seeded \subseteq Experiences
    /\ \A d, e \in Seeded : d = e
    /\ Ops \subseteq AllOps
    /\ NewStates \subseteq States

VARIABLES
    rows,         \* table experiences
    versions,     \* table experience_versions
    audit,        \* table catalog_audit of the tenant
    publications, \* table experience_publications
    pc,           \* next statement of each transaction, or how it ended
    req,          \* the endpoint and the experience it calls
    seen,         \* the row its last SELECT of experiences returned
    latest,       \* the MAX(version_no) it read
    head,         \* the head of the audit chain it read
    target,       \* the version it restores, or the publication its UPDATE found
    locks,        \* its advisory locks
    newRow,       \* its pending writes, one variable per table
    newVersion,
    newAudit,
    newPubs

tables == <<rows, versions, audit, publications>>
reads == <<seen, latest, head, target>>
writes == <<newRow, newVersion, newAudit, newPubs>>
vars == <<tables, pc, req, reads, locks, writes>>

Row == [exp : Experiences, state : States, content : Requests, deleted : BOOLEAN,
        chain : Seq([tx : Requests, from : States, to : States])]
Version == [exp : Experiences, no : Nat, content : Requests, state : States, by : Requests]
Entry == [pos : Nat, prev : Requests \cup {Genesis}, hash : Requests]
Publication == [id : Requests, exp : Experiences, no : Nat, content : Requests,
                key : Requests, active : BOOLEAN]

Waiting == {"update", "insert", "snapshot", "latest", "scan", "recheck", "pubInsert", "reread",
            "auditLock", "auditHead", "auditInsert", "versionLock", "versionMax",
            "versionInsert", "commit"}
Ended == {"ok", "missing", "refused", "clash", "auditClash", "versionClash", "lost"}

----------------------------------------------------------------------------
(* Requests, locks and the unit of work.                                   *)

op(t) == req[t].op
exp(t) == req[t].exp

AuditLock == <<"audit">>
VersionLock(e) == <<"version", e>>
LockFree(t, key) == \A u \in Txns \ {t} : key \notin locks[u]

\* Rows of experiences that another transaction has written and not ended.
RowFree(t) == \A u \in Txns \ {t} : \A r \in newRow[u] : r.exp # exp(t)
PubFree(t, p) == \A u \in Txns \ {t} : \A q \in newPubs[u] : q.id # p.id

The(S) == CHOOSE x \in S : TRUE
LatestNo(e) == Max({0} \cup {v.no : v \in {w \in versions : w.exp = e}})
ChainHead == {a \in audit : \A b \in audit : b.pos <= a.pos}

\* The end of a transaction: its connection goes back to the pool.
ReleaseKeepingLocks(t) ==  \* faulty: released without COMMIT or ROLLBACK
    /\ seen' = [seen EXCEPT ![t] = {}]
    /\ latest' = [latest EXCEPT ![t] = 0]
    /\ head' = [head EXCEPT ![t] = {}]
    /\ target' = [target EXCEPT ![t] = {}]
    /\ newRow' = [newRow EXCEPT ![t] = {}]
    /\ newVersion' = [newVersion EXCEPT ![t] = {}]
    /\ newAudit' = [newAudit EXCEPT ![t] = {}]
    /\ newPubs' = [newPubs EXCEPT ![t] = {}]
    /\ UNCHANGED locks

Release(t) ==
    /\ seen' = [seen EXCEPT ![t] = {}]
    /\ latest' = [latest EXCEPT ![t] = 0]
    /\ head' = [head EXCEPT ![t] = {}]
    /\ target' = [target EXCEPT ![t] = {}]
    /\ locks' = [locks EXCEPT ![t] = {}]
    /\ newRow' = [newRow EXCEPT ![t] = {}]
    /\ newVersion' = [newVersion EXCEPT ![t] = {}]
    /\ newAudit' = [newAudit EXCEPT ![t] = {}]
    /\ newPubs' = [newPubs EXCEPT ![t] = {}]

\* The handler throws or returns null: nothing of it stays.
End(t, outcome) ==
    /\ pc' = [pc EXCEPT ![t] = outcome]
    /\ Release(t)
    /\ UNCHANGED <<tables, req>>

\* The next statement, when the one executed only read.
Goto(t, statement) == pc' = [pc EXCEPT ![t] = statement]

Init ==
    /\ \E s \in NewStates :
         /\ rows = {[exp |-> e, state |-> s, content |-> Seed, deleted |-> FALSE,
                     chain |-> <<>>] : e \in Seeded}
         /\ versions = {[exp |-> e, no |-> 1, content |-> Seed, state |-> s, by |-> Seed] :
                            e \in Seeded}
    /\ audit = {[pos |-> 1, prev |-> Genesis, hash |-> Seed] : e \in Seeded}
    /\ publications = {}
    /\ pc = [t \in Txns |-> "idle"]
    /\ req \in [Txns -> [op : Ops, exp : Experiences]]
    /\ seen = [t \in Txns |-> {}]
    /\ latest = [t \in Txns |-> 0]
    /\ head = [t \in Txns |-> {}]
    /\ target = [t \in Txns |-> {}]
    /\ locks = [t \in Txns |-> {}]
    /\ newRow = [t \in Txns |-> {}]
    /\ newVersion = [t \in Txns |-> {}]
    /\ newAudit = [t \in Txns |-> {}]
    /\ newPubs = [t \in Txns |-> {}]

----------------------------------------------------------------------------
(* The first SELECT of every handler: findExperienceByName or -ById.       *)

\* Statement that follows the SELECT of a request whose row qualifies.
First(o) == CASE o = "rollback" -> "snapshot"
              [] o = "emptyPatch" -> "reread"
              [] o = "publish" -> "latest"
              [] o \in {"unpublish", "rotate"} -> "scan"
              [] OTHER -> "update"

\* nextApprovalState: the pairs it does not throw on, and their result.
Transitions ==
    {<<s, "deprecate", "deprecated">> : s \in States} \cup
    {<<"approved", "revoke", "draft">>, <<"draft", "submit", "review">>,
     <<"review", "approve", "approved">>, <<"review", "reject", "rejected">>,
     <<"rejected", "submit", "review">>}

Legal(s, action) == \E to \in States : <<s, action, to>> \in Transitions

Found(t) == {r \in rows : r.exp = exp(t)}

FindForCreate(t) ==
    /\ pc[t] = "idle" /\ op(t) = "create"
    /\ IF Found(t) # {} THEN End(t, "refused")
       ELSE /\ Goto(t, "insert")
            /\ UNCHANGED <<tables, req, reads, locks, writes>>

\* 404: no such row, or a tombstone where the handler looks for it.
FindMissing(t) ==
    /\ pc[t] = "idle" /\ op(t) # "create"
    /\ \A r \in Found(t) : r.deleted /\ op(t) \in {"publish", "delete"}
    /\ End(t, "missing")

\* 409: the transition is illegal, or what is to be published is not approved.
FindRefused(t) ==
    /\ pc[t] = "idle"
    /\ \E r \in Found(t) :
         \/ op(t) \in Actions /\ ~Legal(r.state, op(t))
         \/ op(t) = "publish" /\ ~r.deleted /\ r.state # "approved"
    /\ End(t, "refused")

FindRowUnapproved(t) ==  \* faulty: publishing does not check approvalState
    /\ pc[t] = "idle" /\ op(t) # "create"
    /\ \E r \in Found(t) :
         /\ op(t) \in {"publish", "delete"} => ~r.deleted
         /\ op(t) \in Actions => Legal(r.state, op(t))
    /\ seen' = [seen EXCEPT ![t] = Found(t)]
    /\ Goto(t, First(op(t)))
    /\ UNCHANGED <<tables, req, latest, head, target, locks, writes>>

FindRow(t) ==
    /\ pc[t] = "idle" /\ op(t) # "create"
    /\ \E r \in Found(t) :
         /\ op(t) \in {"publish", "delete"} => ~r.deleted
         /\ op(t) = "publish" => r.state = "approved"
         /\ op(t) \in Actions => Legal(r.state, op(t))
    /\ seen' = [seen EXCEPT ![t] = Found(t)]
    /\ Goto(t, First(op(t)))
    /\ UNCHANGED <<tables, req, latest, head, target, locks, writes>>

\* updateExperience of an empty patch: it only reads the row again.
Reread(t) ==
    /\ pc[t] = "reread"
    /\ seen' = [seen EXCEPT ![t] = Found(t)]
    /\ Goto(t, "auditLock")
    /\ UNCHANGED <<tables, req, latest, head, target, locks, writes>>

----------------------------------------------------------------------------
(* Writes of table experiences.                                            *)

\* createExperience; the unique index on the name has the last word.
Insert(t) ==
    /\ pc[t] = "insert"
    /\ RowFree(t)
    /\ IF Found(t) # {} THEN End(t, "clash")
       ELSE /\ \E s \in NewStates :
                 newRow' = [newRow EXCEPT ![t] =
                     {[exp |-> exp(t), state |-> s, content |-> t, deleted |-> FALSE,
                       chain |-> <<>>]}]
            /\ Goto(t, "auditLock")
            /\ UNCHANGED <<tables, req, reads, locks, newVersion, newAudit, newPubs>>

\* getExperienceVersion of the number in the URL, which may not exist.
Snapshot(t) ==
    /\ pc[t] = "snapshot"
    /\ \/ End(t, "missing")
       \/ \E v \in versions :
            /\ v.exp = exp(t)
            /\ target' = [target EXCEPT ![t] = {v}]
            /\ Goto(t, "update")
            /\ UNCHANGED <<tables, req, seen, latest, head, locks, writes>>

\* The WHERE clause of the UPDATE that request t makes.
MatchesAnyState(t, r) ==  \* faulty: the transition does not compare approval_state
    r.exp = exp(t) /\ ~r.deleted

MatchesTombstones(t, r) ==  \* faulty: soft_deleted_at IS NULL is missing
    r.exp = exp(t) /\ (op(t) \in Actions => \E b \in seen[t] : b.state = r.state)

Matches(t, r) ==
    /\ r.exp = exp(t)
    /\ ~r.deleted
    /\ op(t) \in Actions => \E b \in seen[t] : b.state = r.state

\* What a transition computed from the row it read.
FromState(t) == The(seen[t]).state
ToState(t) == The({s \in States : <<FromState(t), op(t), s>> \in Transitions})
Event(t) == [tx |-> t, from |-> FromState(t), to |-> ToState(t)]

\* The row the UPDATE returns: r with the columns its SET lists.
Updated(t, r) ==
    CASE op(t) = "patch" -> [r EXCEPT !.content = t]
      [] op(t) = "rollback" -> [r EXCEPT !.content = The(target[t]).content]
      [] op(t) = "delete" -> [r EXCEPT !.deleted = TRUE]
      [] OTHER -> [r EXCEPT !.state = ToState(t),
                            !.chain = Append(The(seen[t]).chain, Event(t))]

\* updateExperience, applyExperienceTransition and softDeleteExperience.
Update(t) ==
    /\ pc[t] = "update"
    /\ \E r \in rows :
         /\ Matches(t, r)
         /\ RowFree(t)
         /\ newRow' = [newRow EXCEPT ![t] = {Updated(t, r)}]
    /\ Goto(t, "auditLock")
    /\ UNCHANGED <<tables, req, reads, locks, newVersion, newAudit, newPubs>>

\* No row left to update: 409 for a transition, 404 for the others.
UpdateMisses(t) ==
    /\ pc[t] = "update"
    /\ ~\E r \in rows : Matches(t, r)
    /\ End(t, IF op(t) \in Actions THEN "refused" ELSE "missing")

----------------------------------------------------------------------------
(* Writes of table experience_publications.                                *)

\* getLatestExperienceVersionNo, a statement after the SELECT of the row.
Latest(t) ==
    /\ pc[t] = "latest"
    /\ latest' = [latest EXCEPT ![t] = LatestNo(exp(t))]
    /\ Goto(t, "scan")
    /\ UNCHANGED <<tables, req, seen, head, target, locks, writes>>

Active == {p \in publications : p.active}

\* The UPDATE of the active publication scans the rows it sees at its start...
Scan(t) ==
    /\ pc[t] = "scan"
    /\ target' = [target EXCEPT ![t] = {p \in Active : p.exp = exp(t)}]
    /\ Goto(t, "recheck")
    /\ UNCHANGED <<tables, req, seen, latest, head, locks, writes>>

\* ... and looks at them again once they are not locked by another transaction.
StillActiveAsScanned(t) == target[t]  \* faulty: what it scanned is changed unseen

StillActive(t) == {p \in Active : \E q \in target[t] : q.id = p.id}

Changed(t, p) == IF op(t) = "rotate" THEN [p EXCEPT !.key = t] ELSE [p EXCEPT !.active = FALSE]

Recheck(t) ==
    /\ pc[t] = "recheck"
    /\ \A p \in target[t] : PubFree(t, p)
    /\ StillActive(t) # {} \/ op(t) = "publish"
    /\ newPubs' = [newPubs EXCEPT ![t] = {Changed(t, p) : p \in StillActive(t)}]
    /\ Goto(t, IF op(t) = "publish" THEN "pubInsert" ELSE "auditLock")
    /\ UNCHANGED <<tables, req, reads, locks, newRow, newVersion, newAudit>>

\* 409: no active publication to unpublish, or to rotate the key of.
RecheckRefused(t) ==
    /\ pc[t] = "recheck" /\ op(t) # "publish"
    /\ \A p \in target[t] : PubFree(t, p)
    /\ StillActive(t) = {}
    /\ End(t, "refused")

\* Publications that conflict with a new active one: the unique index on
\* (experience) WHERE active makes the INSERT wait for those not yet ended.
RivalsUnindexed(t) == {}  \* faulty: no unique index on active publications

Rivals(t) == {p \in Active : p.exp = exp(t) /\ \A q \in newPubs[t] : q.id # p.id}

PubInsert(t) ==
    /\ pc[t] = "pubInsert"
    /\ \A u \in Txns \ {t} : \A q \in newPubs[u] : q.exp = exp(t) => ~q.active
    /\ \A p \in Rivals(t) : PubFree(t, p)
    /\ IF Rivals(t) # {} THEN End(t, "clash")
       ELSE /\ newPubs' = [newPubs EXCEPT ![t] = @ \cup
                   {[id |-> t, exp |-> exp(t), no |-> latest[t],
                     content |-> The(seen[t]).content, key |-> t, active |-> TRUE]}]
            /\ Goto(t, "auditLock")
            /\ UNCHANGED <<tables, req, reads, locks, newRow, newVersion, newAudit>>

----------------------------------------------------------------------------
(* appendAudit: the tenant's chain, one appender at a time.                *)

LockAuditHead(t) ==  \* faulty: only the head row is locked, FOR UPDATE
    /\ pc[t] = "auditLock"
    /\ Goto(t, "auditHead")
    /\ UNCHANGED <<tables, req, reads, locks, writes>>

LockAudit(t) ==
    /\ pc[t] = "auditLock"
    /\ LockFree(t, AuditLock)
    /\ locks' = [locks EXCEPT ![t] = @ \cup {AuditLock}]
    /\ Goto(t, "auditHead")
    /\ UNCHANGED <<tables, req, reads, writes>>

ReadHead(t) ==
    /\ pc[t] = "auditHead"
    /\ head' = [head EXCEPT ![t] = ChainHead]
    /\ Goto(t, "auditInsert")
    /\ UNCHANGED <<tables, req, seen, latest, target, locks, writes>>

NextEntrySkipping(t) ==  \* faulty: links to the entry before the head
    IF head[t] = {} THEN [pos |-> 1, prev |-> Genesis, hash |-> t]
    ELSE [pos |-> The(head[t]).pos + 1, prev |-> The(head[t]).prev, hash |-> t]

NextEntry(t) ==
    IF head[t] = {} THEN [pos |-> 1, prev |-> Genesis, hash |-> t]
    ELSE [pos |-> The(head[t]).pos + 1, prev |-> The(head[t]).hash, hash |-> t]

\* Deleting, publishing and the like keep no version.
Versioned(o) == o \in Actions \cup Edits \cup {"create"}

InsertAudit(t) ==
    /\ pc[t] = "auditInsert"
    /\ \A u \in Txns \ {t} : \A a \in newAudit[u] : a.pos # NextEntry(t).pos
    /\ IF \E a \in audit : a.pos = NextEntry(t).pos THEN End(t, "auditClash")
       ELSE /\ newAudit' = [newAudit EXCEPT ![t] = {NextEntry(t)}]
            /\ Goto(t, IF Versioned(op(t)) THEN "versionLock" ELSE "commit")
            /\ UNCHANGED <<tables, req, reads, locks, newRow, newVersion, newPubs>>

----------------------------------------------------------------------------
(* appendExperienceVersion: the experience's history, likewise.            *)

LockVersions(t) ==
    /\ pc[t] = "versionLock"
    /\ LockFree(t, VersionLock(exp(t)))
    /\ locks' = [locks EXCEPT ![t] = @ \cup {VersionLock(exp(t))}]
    /\ Goto(t, "versionMax")
    /\ UNCHANGED <<tables, req, reads, writes>>

ReadVersionMax(t) ==
    /\ pc[t] = "versionMax"
    /\ latest' = [latest EXCEPT ![t] = LatestNo(exp(t))]
    /\ Goto(t, "versionInsert")
    /\ UNCHANGED <<tables, req, seen, head, target, locks, writes>>

\* The row the handler holds: what its write returned, else what it read.
ReturnedBefore(t) ==  \* faulty: the version is taken from `before`
    The(IF seen[t] # {} THEN seen[t] ELSE newRow[t])

Returned(t) == The(IF newRow[t] # {} THEN newRow[t] ELSE seen[t])

NextVersion(t) == [exp |-> exp(t), no |-> latest[t] + 1,
                   content |-> Returned(t).content, state |-> Returned(t).state, by |-> t]

SameVersion(v, w) == v.exp = w.exp /\ v.no = w.no

InsertVersion(t) ==
    /\ pc[t] = "versionInsert"
    /\ \A u \in Txns \ {t} : \A v \in newVersion[u] : ~SameVersion(v, NextVersion(t))
    /\ IF \E v \in versions : SameVersion(v, NextVersion(t)) THEN End(t, "versionClash")
       ELSE /\ newVersion' = [newVersion EXCEPT ![t] = {NextVersion(t)}]
            /\ Goto(t, "commit")
            /\ UNCHANGED <<tables, req, reads, locks, newRow, newAudit, newPubs>>

----------------------------------------------------------------------------
Commit(t) ==
    /\ pc[t] = "commit"
    /\ rows' = {r \in rows : \A w \in newRow[t] : w.exp # r.exp} \cup newRow[t]
    /\ versions' = versions \cup newVersion[t]
    /\ audit' = audit \cup newAudit[t]
    /\ publications' =
           {p \in publications : \A q \in newPubs[t] : q.id # p.id} \cup newPubs[t]
    /\ pc' = [pc EXCEPT ![t] = "ok"]
    /\ Release(t)
    /\ UNCHANGED req

\* The connection breaks: the server rolls the transaction back.
Lose(t) ==
    /\ pc[t] \in Waiting
    /\ End(t, "lost")

Find(t) == FindForCreate(t) \/ FindMissing(t) \/ FindRefused(t) \/ FindRow(t)
WriteRow(t) == Reread(t) \/ Insert(t) \/ Snapshot(t) \/ Update(t) \/ UpdateMisses(t)
Publish(t) == Latest(t) \/ Scan(t) \/ Recheck(t) \/ RecheckRefused(t) \/ PubInsert(t)
AppendAudit(t) == LockAudit(t) \/ ReadHead(t) \/ InsertAudit(t)
AppendVersion(t) == LockVersions(t) \/ ReadVersionMax(t) \/ InsertVersion(t)

Statement(t) ==
    WriteRow(t) \/ Publish(t) \/ AppendAudit(t) \/ AppendVersion(t) \/ Commit(t)

Next == \E t \in Txns : Find(t) \/ Statement(t) \/ Lose(t)

\* A request that began goes on: the handler awaits its statements in turn and
\* PostgreSQL executes each of them once what it waits for is released.
Fairness == \A t \in Txns : WF_vars(Statement(t))

Spec == Init /\ [][Next]_vars /\ Fairness

----------------------------------------------------------------------------
(* What is claimed.                                                        *)

\* Every variable has its type.
TypeOK ==
    /\ rows \subseteq Row
    /\ versions \subseteq Version
    /\ audit \subseteq Entry
    /\ publications \subseteq Publication
    /\ pc \in [Txns -> {"idle"} \cup Waiting \cup Ended]
    /\ req \in [Txns -> [op : Ops, exp : Experiences]]
    /\ seen \in [Txns -> SUBSET Row]
    /\ latest \in [Txns -> Nat]
    /\ head \in [Txns -> SUBSET Entry]
    /\ target \in [Txns -> SUBSET (Version \cup Publication)]
    /\ locks \in [Txns -> SUBSET ({AuditLock} \cup {VersionLock(e) : e \in Experiences})]
    /\ newRow \in [Txns -> SUBSET Row]
    /\ newVersion \in [Txns -> SUBSET Version]
    /\ newAudit \in [Txns -> SUBSET Entry]
    /\ newPubs \in [Txns -> SUBSET Publication]

\* The committed audit chain always passes verifyAuditChain: positions are
\* 1, 2, ... without gap or repetition, and each entry holds the hash of the
\* one before, whichever transactions overlapped or were lost.
AuditChainIntact ==
    /\ \A a, b \in audit : a.pos = b.pos => a = b
    /\ \A a \in audit : \/ a.pos = 1 /\ a.prev = Genesis
                        \/ \E b \in audit : b.pos = a.pos - 1 /\ b.hash = a.prev

\* The versions of an experience are numbered 1, 2, ... without gap or
\* repetition (appendExperienceVersion: "concurrent writers never collide").
VersionsDense ==
    /\ \A v, w \in versions : SameVersion(v, w) => v = w
    /\ \A v \in versions : v.no = 1 \/ \E w \in versions : w.exp = v.exp /\ w.no = v.no - 1

\* A version that an empty patch appended: it wrote no row and locked none.
IsRepeat(v) == v.by # Seed /\ op(v.by) = "emptyPatch"

\* The versions are dense, and the highest that is not an empty patch's is a copy
\* of the row: what wrote the row also wrote the version, and in the same order.
\* (An empty patch may append a copy of a row that has changed since.)
VersionsFollowRows ==
    /\ VersionsDense
    /\ \A r \in rows : \E v \in versions :
           /\ v.exp = r.exp /\ v.content = r.content /\ v.state = r.state
           /\ ~IsRepeat(v)
           /\ \A w \in versions : w.exp = v.exp /\ w.no > v.no => IsRepeat(w)

\* The locks spare every appender the unique indexes of audit positions and
\* version numbers: no request fails on them.
NoAppendFails == \A t \in Txns : pc[t] \notin {"auditClash", "versionClash"}

\* A row changes state along the approval state machine only, by the event its
\* chain then ends with, even when the request computed that event from a row
\* that others have moved since.
StatesMoveLegally ==
    [][\A r \in rows, s \in rows' : r.exp = s.exp /\ r.state # s.state =>
         LET last == s.chain[Len(s.chain)] IN
         /\ last.from = r.state /\ last.to = s.state
         /\ <<r.state, op(last.tx), s.state>> \in Transitions]_vars

\* A tombstone is final: no request changes a soft-deleted row, not even one that
\* read it before it was deleted, and none adds to its history but an empty patch,
\* which says there what the history says already.
TombstonesFrozen ==
    [][\A r \in rows : r.deleted =>
         /\ r \in rows'
         /\ \A v \in versions' \ versions : v.exp = r.exp =>
                /\ IsRepeat(v)
                /\ \E w \in versions :
                       w.exp = v.exp /\ w.content = v.content /\ w.state = v.state]_vars

\* At most one publication of an experience is active, also when publishers
\* overlap (the partial unique index behind insertPublication).
OneActivePublication == \A p, q \in Active : p.exp = q.exp => p = q

\* What is published was approved: some version of the experience has that
\* content in state approved, however the publication raced with edits.
PublishedWasApproved ==
    \A p \in publications : \E v \in versions :
        v.exp = p.exp /\ v.content = p.content /\ v.state = "approved"

\* The columns of the tables that GovernedCatalog speaks of, in the order of the
\* versions and of the audit chain.
Record == [e \in Experiences |->
    {[content |-> r.content, state |-> r.state, deleted |-> r.deleted] :
        r \in {x \in rows : x.exp = e}}]

VersionNo(e, i) == The({v \in versions : v.exp = e /\ v.no = i})
History == [e \in Experiences |-> [i \in 1 .. LatestNo(e) |->
    [content |-> VersionNo(e, i).content, state |-> VersionNo(e, i).state]]]

Embedded == [e \in Experiences |->
    {[content |-> p.content, key |-> p.key] : p \in {q \in Active : q.exp = e}}]

LogLength == IF ChainHead = {} THEN 0 ELSE The(ChainHead).pos
Log == [i \in 1 .. LogLength |-> The({a \in audit : a.pos = i}).hash]

\* Seen from the outside, requests take effect one at a time.
Governed == INSTANCE GovernedCatalog WITH
    record <- Record, history <- History, embedded <- Embedded, log <- Log

\* Refinement: however the statements of requests overlap, wait, fail or are lost,
\* every COMMIT is one legal operation on the catalog as it was just before, and
\* nothing else shows.
ImplementsGoverned == Governed!Spec

\* Every request that began is answered: no two transactions wait for each
\* other, and a lost one leaves no lock behind.
EveryRequestEnds == \A t \in Txns : pc[t] # "idle" ~> pc[t] \in Ended
=============================================================================
