---------------------- MODULE ExperienceCatalogProofs ----------------------
(***************************************************************************)
(* Proofs about ExperienceCatalog, for every set of requests and           *)
(* experiences.  The audit chain and the version histories are kept by the *)
(* same argument: whoever has read the end of the table holds its advisory *)
(* lock until it commits, so that what it appends still follows the end.   *)
(* Rows and publications are kept by locks on rows: FOR UPDATE, and those  *)
(* an UPDATE takes.  Together they make every request that succeeds one    *)
(* operation of GovernedCatalog, at its COMMIT.                            *)
(***************************************************************************)
EXTENDS ExperienceCatalog, SequenceTheorems, TLAPS

\* Statements of a transaction that holds the audit lock, has read the head
\* of the chain, has written its entry; and likewise for its version.
AfterAuditLock == {"auditHead", "auditInsert", "versionLock", "versionMax", "versionInsert",
                   "commit"}
AfterHead == AfterAuditLock \ {"auditHead"}
AfterEntry == AfterHead \ {"auditInsert"}

\* The functions of the control state, for the updates of them to mean something.
Control ==
    /\ pc \in [Txns -> {"idle"} \cup Waiting \cup Ended]
    /\ DOMAIN head = Txns
    /\ DOMAIN latest = Txns
    /\ DOMAIN locks = Txns
    /\ DOMAIN newAudit = Txns
    /\ DOMAIN newVersion = Txns

\* At most one transaction holds the audit lock: those past LockAudit.
AuditLocked ==
    /\ \A t \in Txns : pc[t] \in AfterAuditLock => AuditLock \in locks[t]
    /\ \A t, u \in Txns : AuditLock \in locks[t] /\ AuditLock \in locks[u] => t = u

\* The head a transaction has read is still the head, and what it wrote follows.
HeadIsCurrent ==
    \A t \in Txns :
        /\ pc[t] \in AfterHead => head[t] = ChainHead
        /\ newAudit[t] = {} \/ (pc[t] \in AfterEntry /\ newAudit[t] = {NextEntry(t)})

\* The chain has n entries, at positions 1 to n.
ChainOf(n) ==
    /\ \A a \in audit : a.pos \in 1 .. n
    /\ n # 0 => \E a \in audit : a.pos = n

Chained == audit \subseteq Entry /\ AuditChainIntact /\ \E n \in Nat : ChainOf(n)

AuditInv ==
    /\ Control /\ AuditLocked /\ HeadIsCurrent /\ Chained
    /\ \A t \in Txns : pc[t] # "auditClash"

----------------------------------------------------------------------------
\* The head of a chain of n entries: the entry at position n, when there is one.
LEMMA HeadOfChain ==
    ASSUME Chained, NEW n \in Nat, ChainOf(n)
    PROVE  /\ n = 0 => ChainHead = {}
           /\ n # 0 => \E a \in audit : a.pos = n /\ ChainHead = {a}
<1>1. \A a \in audit : a.pos \in Nat
  BY DEF Chained, Entry
<1>2. CASE n = 0
  BY <1>1, <1>2 DEF ChainOf, ChainHead
<1>3. CASE n # 0
  <2>1. PICK a \in audit : a.pos = n
    BY <1>3 DEF ChainOf
  <2>2. ASSUME NEW b \in audit PROVE b.pos <= n
    BY DEF ChainOf
  <2>3. a \in ChainHead
    BY <2>1, <2>2 DEF ChainHead
  <2>4. ASSUME NEW b \in ChainHead PROVE b = a
    <3>1. b \in audit /\ a.pos <= b.pos
      BY DEF ChainHead
    <3>2. b.pos = a.pos
      BY <3>1, <2>1, <2>2, <1>1
    <3> QED BY <3>1, <3>2 DEF Chained, AuditChainIntact
  <2> QED BY <1>3, <2>1, <2>3, <2>4
<1> QED BY <1>2, <1>3

\* What follows the head extends the chain: no position is used twice.
LEMMA EntryExtends ==
    ASSUME TxnsAssumption, Chained, NEW t \in Txns, head[t] = ChainHead
    PROVE  /\ \A a \in audit : a.pos # NextEntry(t).pos
           /\ audit' = audit \cup {NextEntry(t)} => Chained'
<1>0. PICK n \in Nat : ChainOf(n)
  BY DEF Chained
<1>1. \A a \in audit : a.pos \in Nat /\ a.pos <= n
  BY <1>0 DEF ChainOf, Chained, Entry
<1>2. CASE n = 0
  <2>1. NextEntry(t) = [pos |-> 1, prev |-> Genesis, hash |-> t] /\ audit = {}
    BY <1>0, <1>2, HeadOfChain DEF NextEntry, ChainOf
  <2>2. ASSUME audit' = audit \cup {NextEntry(t)} PROVE Chained'
    <3>1. audit' = {[pos |-> 1, prev |-> Genesis, hash |-> t]}
      BY <2>1, <2>2
    <3>2. (audit \subseteq Entry)'
      BY <3>1 DEF Entry, Requests
    <3>3. AuditChainIntact'
      BY <3>1 DEF AuditChainIntact
    <3>4. ChainOf(1)'
      BY <3>1 DEF ChainOf
    <3> QED BY <3>2, <3>3, <3>4 DEF Chained
  <2> QED BY <2>1, <2>2
<1>3. CASE n # 0
  <2>1. PICK a \in audit : a.pos = n /\ ChainHead = {a}
    BY <1>0, <1>3, HeadOfChain
  <2>2. NextEntry(t) = [pos |-> n + 1, prev |-> a.hash, hash |-> t]
    BY <2>1 DEF NextEntry, The
  <2>3. ASSUME audit' = audit \cup {NextEntry(t)} PROVE Chained'
    <3>1. (audit \subseteq Entry)'
      BY <2>1, <2>2, <2>3 DEF Chained, Entry, Requests
    <3>2. (\A b, c \in audit : b.pos = c.pos => b = c)'
      BY <1>1, <2>2, <2>3 DEF Chained, AuditChainIntact
    <3>3. (\A b \in audit : \/ b.pos = 1 /\ b.prev = Genesis
                            \/ \E c \in audit : c.pos = b.pos - 1 /\ c.hash = b.prev)'
      <4> SUFFICES ASSUME NEW b \in audit'
                   PROVE  \/ b.pos = 1 /\ b.prev = Genesis
                          \/ \E c \in audit' : c.pos = b.pos - 1 /\ c.hash = b.prev
        OBVIOUS
      <4>1. CASE b \in audit
        BY <4>1, <2>3 DEF Chained, AuditChainIntact
      <4>2. CASE b = NextEntry(t)
        <5>1. b.pos - 1 = a.pos /\ b.prev = a.hash
          BY <4>2, <2>1, <2>2
        <5> QED BY <5>1, <2>3
      <4> QED BY <4>1, <4>2, <2>3
    <3>4. ChainOf(n + 1)'
      BY <1>1, <1>0, <2>2, <2>3 DEF ChainOf, Chained, Entry
    <3> QED BY <3>1, <3>2, <3>3, <3>4 DEF Chained, AuditChainIntact
  <2> QED BY <1>1, <2>2, <2>3
<1> QED BY <1>2, <1>3

----------------------------------------------------------------------------
LEMMA AuditInit == Init => AuditInv
<1> SUFFICES ASSUME Init PROVE AuditInv
  OBVIOUS
<1>1. Control
  BY DEF Init, Control
<1>2. AuditLocked
  BY DEF Init, AuditLocked, AfterAuditLock
<1>3. HeadIsCurrent
  BY DEF Init, HeadIsCurrent, AfterHead, AfterAuditLock
<1>4. audit \subseteq Entry
  BY DEF Init, Entry, Requests
<1>5. AuditChainIntact
  BY DEF Init, AuditChainIntact
<1>6. \E n \in Nat : ChainOf(n)
  <2>1. CASE Seeded = {}
    <3>1. ChainOf(0)
      BY <2>1 DEF Init, ChainOf
    <3> QED BY <3>1
  <2>2. CASE Seeded # {}
    <3>1. PICK e \in Seeded : TRUE
      BY <2>2
    <3>2. \A a \in audit : a.pos = 1
      BY DEF Init
    <3>3. [pos |-> 1, prev |-> Genesis, hash |-> Seed] \in audit
      BY <3>1 DEF Init
    <3>4. ChainOf(1)
      BY <3>2, <3>3 DEF ChainOf
    <3> QED BY <3>4
  <2> QED BY <2>1, <2>2
<1>7. \A t \in Txns : pc[t] # "auditClash"
  BY DEF Init
<1> QED BY <1>1, <1>2, <1>3, <1>4, <1>5, <1>6, <1>7 DEF AuditInv, Chained

\* A step of t that leaves the chain, the other transactions' entries and the
\* locks of others alone keeps the invariant if t's own part of it holds.
LEMMA OwnStep ==
    ASSUME AuditInv, NEW t \in Txns, UNCHANGED audit, Control',
           \A u \in Txns \ {t} : /\ pc'[u] = pc[u] /\ head'[u] = head[u]
                                 /\ locks'[u] = locks[u] /\ newAudit'[u] = newAudit[u],
           pc'[t] # "auditClash",
           AuditLock \in locks'[t] => AuditLock \in locks[t] \/ LockFree(t, AuditLock),
           pc'[t] \in AfterAuditLock => AuditLock \in locks'[t],
           pc'[t] \in AfterHead => head'[t] = ChainHead,
           newAudit'[t] = {} \/ (pc'[t] \in AfterEntry /\ newAudit'[t] = {NextEntry(t)'})
    PROVE  AuditInv'
<1>1. Chained'
  BY DEF AuditInv, Chained, AuditChainIntact, ChainOf
<1>2. AuditLocked'
  BY DEF AuditInv, AuditLocked, LockFree
<1>3. ChainHead' = ChainHead
  BY DEF ChainHead
<1>4. HeadIsCurrent'
  <2> SUFFICES ASSUME NEW u \in Txns
               PROVE  /\ pc'[u] \in AfterHead => head'[u] = ChainHead
                      /\ \/ newAudit'[u] = {}
                         \/ pc'[u] \in AfterEntry /\ newAudit'[u] = {NextEntry(u)'}
    BY <1>3 DEF HeadIsCurrent
  <2>1. CASE u = t
    BY <2>1
  <2>2. CASE u # t
    <3>1. NextEntry(u)' = NextEntry(u)
      BY <2>2 DEF NextEntry
    <3> QED BY <2>2, <3>1 DEF AuditInv, HeadIsCurrent
  <2> QED BY <2>1, <2>2
<1>5. \A u \in Txns : pc'[u] # "auditClash"
  BY DEF AuditInv
<1> QED BY <1>1, <1>2, <1>4, <1>5 DEF AuditInv

\* Ending a transaction other than by COMMIT, for any reason but a clash.
LEMMA EndKeeps ==
    ASSUME AuditInv, NEW t \in Txns, NEW o \in Ended \ {"auditClash"}, End(t, o)
    PROVE  AuditInv'
<1>1. Control'
  BY DEF AuditInv, Control, End, Release
<1>2. pc'[t] = o /\ head'[t] = {} /\ locks'[t] = {} /\ newAudit'[t] = {}
  BY DEF AuditInv, Control, End, Release
<1>3. pc'[t] \notin AfterAuditLock
  BY <1>2 DEF AfterAuditLock, Ended
<1>4. \A u \in Txns \ {t} : /\ pc'[u] = pc[u] /\ head'[u] = head[u]
                            /\ locks'[u] = locks[u] /\ newAudit'[u] = newAudit[u]
  BY DEF AuditInv, Control, End, Release
<1>5. UNCHANGED audit
  BY DEF End, tables
<1> QED BY <1>1, <1>2, <1>3, <1>4, <1>5, OwnStep DEF AfterHead

\* A statement that is not one of appendAudit, and goes on to a statement that
\* needs no more of the audit lock than the one before.
LEMMA StatementKeeps ==
    ASSUME AuditInv, NEW t \in Txns, NEW next \in Waiting, Goto(t, next),
           UNCHANGED <<audit, head, newAudit>>, Control',
           \A u \in Txns \ {t} : locks'[u] = locks[u],
           AuditLock \in locks'[t] <=> AuditLock \in locks[t],
           next \in AfterAuditLock => pc[t] \in AfterAuditLock,
           next \in AfterHead => pc[t] \in AfterHead,
           pc[t] \in AfterEntry => next \in AfterEntry
    PROVE  AuditInv'
<1>1. pc'[t] = next /\ \A u \in Txns \ {t} : pc'[u] = pc[u]
  BY DEF AuditInv, Control, Goto
<1>2. next # "auditClash"
  BY DEF Waiting
<1>3. NextEntry(t)' = NextEntry(t)
  BY DEF NextEntry
<1>4. newAudit[t] = {} \/ (pc[t] \in AfterEntry /\ newAudit[t] = {NextEntry(t)})
  BY DEF AuditInv, HeadIsCurrent
<1>5. pc[t] \in AfterAuditLock => AuditLock \in locks[t]
  BY DEF AuditInv, AuditLocked
<1>6. pc[t] \in AfterHead => head[t] = ChainHead
  BY DEF AuditInv, HeadIsCurrent
<1> QED BY <1>1, <1>2, <1>3, <1>4, <1>5, <1>6, OwnStep
\* The statements before appendAudit, which know nothing of the chain.
BeforeAudit == {"update", "insert", "snapshot", "latest", "scan", "recheck", "pubInsert",
                "reread", "auditLock"}

LEMMA EarlyStatement ==
    ASSUME AuditInv, NEW t \in Txns, NEW next \in BeforeAudit,
           pc[t] \in BeforeAudit \cup {"idle"}, Goto(t, next),
           UNCHANGED <<audit, head, newAudit, newVersion, locks>>, DOMAIN latest' = Txns
    PROVE  AuditInv'
<1>1. next \in Waiting /\ next \notin AfterAuditLock /\ pc[t] \notin AfterAuditLock
  BY DEF BeforeAudit, Waiting, AfterAuditLock
<1>2. Control'
  BY <1>1 DEF AuditInv, Control, Goto
<1> QED BY <1>1, <1>2, StatementKeeps DEF AfterHead, AfterEntry

LEMMA FindKeeps == ASSUME AuditInv, NEW t \in Txns, Find(t) PROVE AuditInv'
<1> USE DEF reads, writes, tables
<1>1. "refused" \in Ended \ {"auditClash"} /\ "missing" \in Ended \ {"auditClash"}
  BY DEF Ended
<1>2. DOMAIN latest = Txns
  BY DEF AuditInv, Control
<1>3. CASE FindForCreate(t)
  <2>1. CASE End(t, "refused")
    BY <1>1, <2>1, EndKeeps
  <2>2. CASE Goto(t, "insert") /\ UNCHANGED <<tables, req, reads, locks, writes>>
    BY <1>2, <1>3, <2>2, EarlyStatement DEF FindForCreate, BeforeAudit
  <2> QED BY <1>3, <2>1, <2>2 DEF FindForCreate
<1>4. CASE FindMissing(t)
  BY <1>1, <1>4, EndKeeps DEF FindMissing
<1>5. CASE FindRefused(t)
  BY <1>1, <1>5, EndKeeps DEF FindRefused
<1>6. CASE FindRow(t)
  <2>1. First(op(t)) \in BeforeAudit
    BY DEF First, BeforeAudit
  <2> QED BY <1>2, <1>6, <2>1, EarlyStatement DEF FindRow, BeforeAudit
<1> QED BY <1>3, <1>4, <1>5, <1>6 DEF Find

LEMMA WriteRowKeeps == ASSUME AuditInv, NEW t \in Txns, WriteRow(t) PROVE AuditInv'
<1> USE DEF reads, writes, tables
<1>1. {"refused", "missing", "clash"} \subseteq Ended \ {"auditClash"}
  BY DEF Ended
<1>2. DOMAIN latest = Txns
  BY DEF AuditInv, Control
<1>3. CASE Reread(t)
  BY <1>2, <1>3, EarlyStatement DEF Reread, BeforeAudit
<1>4. CASE Insert(t)
  <2>1. CASE End(t, "clash")
    BY <1>1, <2>1, EndKeeps
  <2>2. CASE ~End(t, "clash")
    BY <1>2, <1>4, <2>2, EarlyStatement DEF Insert, BeforeAudit
  <2> QED BY <2>1, <2>2
<1>5. CASE Snapshot(t)
  <2>1. CASE End(t, "missing")
    BY <1>1, <2>1, EndKeeps
  <2>2. CASE ~End(t, "missing")
    BY <1>2, <1>5, <2>2, EarlyStatement DEF Snapshot, BeforeAudit
  <2> QED BY <2>1, <2>2
<1>6. CASE Update(t)
  BY <1>2, <1>6, EarlyStatement DEF Update, BeforeAudit
<1>7. CASE UpdateMisses(t)
  BY <1>1, <1>7, EndKeeps DEF UpdateMisses
<1> QED BY <1>3, <1>4, <1>5, <1>6, <1>7 DEF WriteRow

LEMMA PublishKeeps == ASSUME AuditInv, NEW t \in Txns, Publish(t) PROVE AuditInv'
<1> USE DEF reads, writes, tables
<1>1. {"refused", "clash"} \subseteq Ended \ {"auditClash"}
  BY DEF Ended
<1>2. DOMAIN latest = Txns
  BY DEF AuditInv, Control
<1>3. CASE Latest(t)
  BY <1>2, <1>3, EarlyStatement DEF Latest, BeforeAudit
<1>4. CASE Scan(t)
  BY <1>2, <1>4, EarlyStatement DEF Scan, BeforeAudit
<1>5. CASE Recheck(t)
  BY <1>2, <1>5, EarlyStatement DEF Recheck, BeforeAudit
<1>6. CASE RecheckRefused(t)
  BY <1>1, <1>6, EndKeeps DEF RecheckRefused
<1>7. CASE PubInsert(t)
  <2>1. CASE End(t, "clash")
    BY <1>1, <2>1, EndKeeps
  <2>2. CASE ~End(t, "clash")
    BY <1>2, <1>7, <2>2, EarlyStatement DEF PubInsert, BeforeAudit
  <2> QED BY <2>1, <2>2
<1> QED BY <1>3, <1>4, <1>5, <1>6, <1>7 DEF Publish
----------------------------------------------------------------------------
LEMMA AppendAuditKeeps ==
    ASSUME TxnsAssumption, AuditInv, NEW t \in Txns, AppendAudit(t)
    PROVE  AuditInv'
<1> USE DEF reads, writes, tables
<1>1. CASE LockAudit(t)
  <2>1. /\ pc[t] = "auditLock" /\ pc' = [pc EXCEPT ![t] = "auditHead"]
        /\ LockFree(t, AuditLock) /\ locks' = [locks EXCEPT ![t] = @ \cup {AuditLock}]
        /\ UNCHANGED <<audit, head, latest, newAudit, newVersion>>
    BY <1>1 DEF LockAudit, Goto
  <2>2. Control'
    BY <2>1 DEF AuditInv, Control, Waiting
  <2>3. /\ pc'[t] = "auditHead" /\ AuditLock \in locks'[t]
        /\ \A u \in Txns \ {t} : pc'[u] = pc[u] /\ locks'[u] = locks[u]
    BY <2>1 DEF AuditInv, Control
  <2>4. newAudit[t] = {}
    BY <2>1 DEF AuditInv, HeadIsCurrent, AfterEntry, AfterHead, AfterAuditLock
  <2> QED BY <2>1, <2>2, <2>3, <2>4, OwnStep DEF AfterHead
<1>2. CASE ReadHead(t)
  <2>1. /\ pc[t] = "auditHead" /\ pc' = [pc EXCEPT ![t] = "auditInsert"]
        /\ head' = [head EXCEPT ![t] = ChainHead]
        /\ UNCHANGED <<audit, locks, latest, newAudit, newVersion>>
    BY <1>2 DEF ReadHead, Goto
  <2>2. Control'
    BY <2>1 DEF AuditInv, Control, Waiting
  <2>3. /\ pc'[t] = "auditInsert" /\ head'[t] = ChainHead
        /\ \A u \in Txns \ {t} : pc'[u] = pc[u] /\ head'[u] = head[u]
    BY <2>1 DEF AuditInv, Control
  <2>4. newAudit[t] = {}
    BY <2>1 DEF AuditInv, HeadIsCurrent, AfterEntry, AfterHead, AfterAuditLock
  <2>5. AuditLock \in locks[t]
    BY <2>1 DEF AuditInv, AuditLocked, AfterAuditLock
  <2> QED BY <2>1, <2>2, <2>3, <2>4, <2>5, OwnStep
<1>3. CASE InsertAudit(t)
  <2>1. pc[t] = "auditInsert" /\ head[t] = ChainHead /\ AuditLock \in locks[t]
    BY <1>3 DEF InsertAudit, AuditInv, HeadIsCurrent, AuditLocked, AfterHead, AfterAuditLock
  <2>2. ~\E a \in audit : a.pos = NextEntry(t).pos
    BY <2>1, EntryExtends DEF AuditInv
  <2> DEFINE next == IF Versioned(op(t)) THEN "versionLock" ELSE "commit"
  <2>3. /\ newAudit' = [newAudit EXCEPT ![t] = {NextEntry(t)}]
        /\ pc' = [pc EXCEPT ![t] = next]
        /\ UNCHANGED <<audit, head, locks, latest, newVersion>>
    BY <1>3, <2>2 DEF InsertAudit, Goto
  <2>4. next \in AfterEntry /\ next \in Waiting
    BY DEF AfterEntry, AfterHead, AfterAuditLock, Waiting
  <2> HIDE DEF next
  <2>5. Control'
    BY <2>3, <2>4 DEF AuditInv, Control
  <2>6. /\ pc'[t] = next /\ newAudit'[t] = {NextEntry(t)}
        /\ \A u \in Txns \ {t} : pc'[u] = pc[u] /\ newAudit'[u] = newAudit[u]
    BY <2>3 DEF AuditInv, Control
  <2>7. NextEntry(t)' = NextEntry(t)
    BY <2>3 DEF NextEntry
  <2>8. next # "auditClash"
    BY <2>4 DEF Waiting
  <2> QED BY <2>1, <2>3, <2>4, <2>5, <2>6, <2>7, <2>8, OwnStep DEF AfterEntry
<1> QED BY <1>1, <1>2, <1>3 DEF AppendAudit

LEMMA AppendVersionKeeps == ASSUME AuditInv, NEW t \in Txns, AppendVersion(t) PROVE AuditInv'
<1> USE DEF reads, writes, tables
<1>1. {"versionLock", "versionMax", "versionInsert", "commit"} \subseteq
          AfterEntry \cap AfterHead \cap AfterAuditLock \cap Waiting
  BY DEF AfterEntry, AfterHead, AfterAuditLock, Waiting
<1>2. CASE LockVersions(t)
  <2>1. /\ pc[t] = "versionLock" /\ Goto(t, "versionMax")
        /\ locks' = [locks EXCEPT ![t] = @ \cup {VersionLock(exp(t))}]
        /\ UNCHANGED <<audit, head, latest, newAudit, newVersion>>
    BY <1>2 DEF LockVersions
  <2>2. AuditLock # VersionLock(exp(t))
    BY DEF AuditLock, VersionLock
  <2>3. Control' /\ \A u \in Txns \ {t} : locks'[u] = locks[u]
    BY <2>1, <1>1 DEF AuditInv, Control, Goto
  <2>4. AuditLock \in locks'[t] <=> AuditLock \in locks[t]
    BY <2>1, <2>2 DEF AuditInv, Control
  <2> QED BY <1>1, <2>1, <2>3, <2>4, StatementKeeps
<1>3. CASE ReadVersionMax(t)
  <2>1. /\ pc[t] = "versionMax" /\ Goto(t, "versionInsert")
        /\ latest' = [latest EXCEPT ![t] = LatestNo(exp(t))]
        /\ UNCHANGED <<audit, head, locks, newAudit, newVersion>>
    BY <1>3 DEF ReadVersionMax
  <2>2. Control'
    BY <2>1, <1>1 DEF AuditInv, Control, Goto
  <2> QED BY <1>1, <2>1, <2>2, StatementKeeps
<1>4. CASE InsertVersion(t)
  <2>1. CASE End(t, "versionClash")
    BY <2>1, EndKeeps DEF Ended
  <2>2. CASE ~End(t, "versionClash")
    <3>1. /\ pc[t] = "versionInsert" /\ Goto(t, "commit")
          /\ newVersion' = [newVersion EXCEPT ![t] = {NextVersion(t)}]
          /\ UNCHANGED <<audit, head, latest, locks, newAudit>>
      BY <1>4, <2>2 DEF InsertVersion
    <3>2. Control'
      BY <3>1, <1>1 DEF AuditInv, Control, Goto
    <3> QED BY <1>1, <3>1, <3>2, StatementKeeps
  <2> QED BY <2>1, <2>2
<1> QED BY <1>2, <1>3, <1>4 DEF AppendVersion

\* COMMIT appends the entry to the chain its transaction alone could follow.
LEMMA CommitKeeps == ASSUME TxnsAssumption, AuditInv, NEW t \in Txns, Commit(t) PROVE AuditInv'
<1>1. /\ pc[t] = "commit" /\ pc' = [pc EXCEPT ![t] = "ok"]
      /\ audit' = audit \cup newAudit[t] /\ Release(t)
  BY DEF Commit
<1>2. AuditLock \in locks[t] /\ head[t] = ChainHead
  BY <1>1 DEF AuditInv, AuditLocked, HeadIsCurrent, AfterHead, AfterAuditLock
<1>3. newAudit[t] = {} \/ newAudit[t] = {NextEntry(t)}
  BY DEF AuditInv, HeadIsCurrent
<1>4. Chained'
  <2>1. CASE newAudit[t] = {}
    <3>1. audit' = audit
      BY <1>1, <2>1
    <3> QED BY <3>1 DEF AuditInv, Chained, AuditChainIntact, ChainOf
  <2>2. CASE newAudit[t] = {NextEntry(t)}
    BY <1>1, <1>2, <2>2, EntryExtends DEF AuditInv
  <2> QED BY <1>3, <2>1, <2>2
<1>5. Control'
  BY <1>1 DEF AuditInv, Control, Release, Ended
<1>6. /\ pc'[t] = "ok" /\ locks'[t] = {} /\ newAudit'[t] = {}
      /\ \A u \in Txns \ {t} : /\ pc'[u] = pc[u] /\ head'[u] = head[u]
                               /\ locks'[u] = locks[u] /\ newAudit'[u] = newAudit[u]
  BY <1>1 DEF AuditInv, Control, Release
<1>7. "ok" \notin AfterAuditLock
  BY DEF AfterAuditLock
<1>8. AuditLocked'
  BY <1>6, <1>7 DEF AuditInv, AuditLocked
<1>9. \A u \in Txns \ {t} : pc[u] \notin AfterAuditLock
  BY <1>2 DEF AuditInv, AuditLocked
<1>10. HeadIsCurrent'
  BY <1>6, <1>7, <1>9 DEF AuditInv, HeadIsCurrent, AfterEntry, AfterHead
<1>11. \A u \in Txns : pc'[u] # "auditClash"
  BY <1>6 DEF AuditInv
<1> QED BY <1>4, <1>5, <1>8, <1>10, <1>11 DEF AuditInv

LEMMA AuditStep == ASSUME TxnsAssumption, AuditInv, [Next]_vars PROVE AuditInv'
<1>1. CASE UNCHANGED vars
  <2> USE DEF vars, tables, reads, writes
  <2>1. Control' /\ AuditLocked' /\ Chained'
    BY <1>1 DEF AuditInv, Control, AuditLocked, Chained, AuditChainIntact, ChainOf
  <2>2. HeadIsCurrent'
    BY <1>1 DEF AuditInv, HeadIsCurrent, ChainHead, NextEntry
  <2> QED BY <1>1, <2>1, <2>2 DEF AuditInv
<1>2. ASSUME NEW t \in Txns, Find(t) \/ Statement(t) \/ Lose(t) PROVE AuditInv'
  <2>1. CASE Lose(t)
    BY <2>1, EndKeeps DEF Lose, Ended
  <2> QED BY <1>2, <2>1, FindKeeps, WriteRowKeeps, PublishKeeps, AppendAuditKeeps,
             AppendVersionKeeps, CommitKeeps DEF Statement
<1> QED BY <1>1, <1>2 DEF Next

\* Whatever requests overlap or are lost, the committed audit chain of the tenant
\* passes verifyAuditChain: dense positions, each entry linked to the one before.
THEOREM AuditChainHolds == Spec => []AuditChainIntact
<1>1. Init => AuditInv
  BY AuditInit
<1>2. AuditInv /\ [Next]_vars => AuditInv'
  BY AuditStep, TxnsAssumption
<1>3. AuditInv => AuditChainIntact
  BY DEF AuditInv, Chained
<1> QED BY <1>1, <1>2, <1>3, PTL DEF Spec
----------------------------------------------------------------------------
(* The histories: appendExperienceVersion under its advisory lock.         *)

\* A transaction at these statements holds the lock of its experience.
AfterVersionLock == {"versionMax", "versionInsert"}

\* At most one transaction holds the lock of an experience's versions.
VersionsLocked ==
    /\ \A t \in Txns : pc[t] \in AfterVersionLock => VersionLock(exp(t)) \in locks[t]
    /\ \A t, u \in Txns, e \in Experiences :
           VersionLock(e) \in locks[t] /\ VersionLock(e) \in locks[u] => t = u

\* The number a transaction has read is still the latest.
LatestIsCurrent == \A t \in Txns : pc[t] = "versionInsert" => latest[t] = LatestNo(exp(t))

\* A version to be committed follows the latest, and its writer holds the lock.
PendingFollows ==
    \A t \in Txns :
        /\ \A v \in newVersion[t] : /\ pc[t] = "commit" /\ VersionLock(exp(t)) \in locks[t]
                                    /\ v.exp = exp(t) /\ v.no = LatestNo(exp(t)) + 1
        /\ \A v, w \in newVersion[t] : v = w

\* Experience e has the versions 1 to n.
HistoryOf(e, n) ==
    /\ \A v \in versions : v.exp = e => v.no \in 1 .. n
    /\ \A i \in 1 .. n : \E v \in versions : v.exp = e /\ v.no = i

Histories ==
    /\ \A v \in versions : v.exp \in Experiences
    /\ \A v, w \in versions : SameVersion(v, w) => v = w
    /\ \A e \in Experiences : \E n \in Nat : HistoryOf(e, n)

VersionsInv ==
    /\ req \in [Txns -> [op : Ops, exp : Experiences]]
    /\ VersionsLocked /\ LatestIsCurrent /\ PendingFollows /\ Histories
    /\ \A t \in Txns : pc[t] # "versionClash"

\* The MAX(version_no) of a history of n versions, in any state of the table, is n.
LEMMA MaxOfHistory ==
    ASSUME NEW V, NEW e, NEW n \in Nat,
           \A v \in V : v.exp = e => v.no \in 1 .. n,
           \A i \in 1 .. n : \E v \in V : v.exp = e /\ v.no = i
    PROVE  Max({0} \cup {v.no : v \in {w \in V : w.exp = e}}) = n
<1> DEFINE S == {0} \cup {v.no : v \in {w \in V : w.exp = e}}
<1>1. \A x \in S : x \in Nat /\ x <= n
  OBVIOUS
<1>2. n \in S
  <2>1. CASE n = 0
    BY <2>1
  <2>2. CASE n # 0
    <3>1. n \in 1 .. n
      BY <2>2
    <3>2. PICK v \in V : v.exp = e /\ v.no = n
      BY <3>1
    <3> QED BY <3>2
  <2> QED BY <2>1, <2>2
<1> HIDE DEF S
<1>3. \A x \in S : (\A y \in S : x >= y) <=> x = n
  BY <1>1, <1>2
<1>4. Max(S) = n
  BY <1>2, <1>3 DEF Max
<1> QED BY <1>4 DEF S

LEMMA LatestOfHistory ==
    ASSUME NEW e, NEW n \in Nat, HistoryOf(e, n)
    PROVE  LatestNo(e) = n
BY MaxOfHistory DEF HistoryOf, LatestNo

LEMMA LatestIsNat == ASSUME Histories, NEW e \in Experiences PROVE LatestNo(e) \in Nat
<1>1. PICK n \in Nat : HistoryOf(e, n)
  BY DEF Histories
<1> QED BY <1>1, LatestOfHistory

\* The version that follows the latest is new, and the histories stay dense.
LEMMA VersionExtends ==
    ASSUME Histories, NEW v, v.exp \in Experiences, v.no = LatestNo(v.exp) + 1
    PROVE  /\ \A w \in versions : ~SameVersion(w, v)
           /\ versions' = versions \cup {v} =>
                  /\ Histories' /\ LatestNo(v.exp)' = v.no
                  /\ \A e \in Experiences \ {v.exp} : LatestNo(e)' = LatestNo(e)
<1>1. PICK n \in Nat : HistoryOf(v.exp, n)
  BY DEF Histories
<1>2. v.no = n + 1
  BY <1>1, LatestOfHistory
<1>3. \A w \in versions : ~SameVersion(w, v)
  BY <1>1, <1>2 DEF HistoryOf, SameVersion
<1>4. ASSUME versions' = versions \cup {v}
      PROVE  /\ Histories' /\ LatestNo(v.exp)' = v.no
             /\ \A e \in Experiences \ {v.exp} : LatestNo(e)' = LatestNo(e)
  <2>1. (\A w \in versions : w.exp \in Experiences)'
    BY <1>4 DEF Histories
  <2>2. (\A w, x \in versions : SameVersion(w, x) => w = x)'
    BY <1>3, <1>4 DEF Histories, SameVersion
  <2>3. HistoryOf(v.exp, n + 1)'
    <3>1. \A w \in versions' : w.exp = v.exp => w.no \in 1 .. n + 1
      BY <1>1, <1>2, <1>4 DEF HistoryOf
    <3>2. ASSUME NEW i \in 1 .. n + 1 PROVE \E w \in versions' : w.exp = v.exp /\ w.no = i
      <4>1. CASE i = n + 1
        BY <4>1, <1>2, <1>4
      <4>2. CASE i # n + 1
        <5>1. i \in 1 .. n
          BY <4>2
        <5> QED BY <5>1, <1>1, <1>4 DEF HistoryOf
      <4> QED BY <4>1, <4>2
    <3> QED BY <3>1, <3>2 DEF HistoryOf
  <2>4. ASSUME NEW e \in Experiences \ {v.exp}, NEW m \in Nat, HistoryOf(e, m)
        PROVE  HistoryOf(e, m)'
    BY <2>4, <1>4 DEF HistoryOf
  <2>5. \A e \in Experiences \ {v.exp} : LatestNo(e)' = LatestNo(e)
    <3> SUFFICES ASSUME NEW e \in Experiences \ {v.exp} PROVE LatestNo(e)' = LatestNo(e)
      OBVIOUS
    <3>1. PICK m \in Nat : HistoryOf(e, m)
      BY DEF Histories
    <3>2. LatestNo(e) = m
      BY <3>1, LatestOfHistory
    <3>3. HistoryOf(e, m)'
      BY <3>1, <2>4
    <3>4. LatestNo(e)' = m
      BY <3>3, MaxOfHistory DEF HistoryOf, LatestNo
    <3> QED BY <3>2, <3>4
  <2>6. (\A e \in Experiences : \E m \in Nat : HistoryOf(e, m))'
    <3> SUFFICES ASSUME NEW e \in Experiences PROVE \E m \in Nat : HistoryOf(e, m)'
      OBVIOUS
    <3>1. CASE e = v.exp
      BY <3>1, <2>3
    <3>2. CASE e # v.exp
      BY <3>2, <2>4 DEF Histories
    <3> QED BY <3>1, <3>2
  <2>7. LatestNo(v.exp)' = n + 1
    <3>1. PICK m \in Nat : m = n + 1
      OBVIOUS
    <3>2. /\ \A w \in versions' : w.exp = v.exp => w.no \in 1 .. m
          /\ \A i \in 1 .. m : \E w \in versions' : w.exp = v.exp /\ w.no = i
      BY <2>3, <3>1 DEF HistoryOf
    <3>3. Max({0} \cup {x.no : x \in {w \in versions' : w.exp = v.exp}}) = m
      BY <3>2, MaxOfHistory
    <3> QED BY <3>1, <3>3 DEF LatestNo
  <2> QED BY <1>2, <2>1, <2>2, <2>5, <2>6, <2>7 DEF Histories
<1> QED BY <1>3, <1>4

----------------------------------------------------------------------------
LEMMA VersionsInit == SeedAssumption /\ Init => VersionsInv
<1> SUFFICES ASSUME SeedAssumption, Init PROVE VersionsInv
  OBVIOUS
<1>1. req \in [Txns -> [op : Ops, exp : Experiences]] /\ \A t \in Txns : pc[t] = "idle"
  BY DEF Init
<1>2. VersionsLocked /\ LatestIsCurrent /\ PendingFollows
  BY DEF Init, VersionsLocked, LatestIsCurrent, PendingFollows, AfterVersionLock
<1>3. Histories
  <2> PICK s \in NewStates :
          versions = {[exp |-> e, no |-> 1, content |-> Seed, state |-> s, by |-> Seed] :
                           e \in Seeded}
    BY DEF Init
  <2>1. \A v \in versions : v.exp \in Experiences /\ v.exp \in Seeded /\ v.no = 1
    BY DEF SeedAssumption
  <2>2. \A v, w \in versions : v = w
    BY DEF SeedAssumption
  <2>3. ASSUME NEW e \in Seeded PROVE \E v \in versions : v.exp = e /\ v.no = 1
    <3>1. [exp |-> e, no |-> 1, content |-> Seed, state |-> s, by |-> Seed] \in versions
      OBVIOUS
    <3> QED BY <3>1
  <2>4. ASSUME NEW e \in Experiences PROVE \E n \in Nat : HistoryOf(e, n)
    <3>1. CASE e \in Seeded
      <4>1. HistoryOf(e, 1)
        BY <3>1, <2>1, <2>3 DEF HistoryOf
      <4> QED BY <4>1
    <3>2. CASE e \notin Seeded
      <4>1. HistoryOf(e, 0)
        BY <3>2, <2>1 DEF HistoryOf
      <4> QED BY <4>1
    <3> QED BY <3>1, <3>2
  <2> QED BY <2>1, <2>2, <2>4 DEF Histories
<1> QED BY <1>1, <1>2, <1>3 DEF VersionsInv

\* As OwnStep: a step of t that commits no version keeps the histories if t's own
\* part of the invariant holds after it.
LEMMA OwnVersionStep ==
    ASSUME VersionsInv, NEW t \in Txns, UNCHANGED <<versions, req>>,
           \A u \in Txns \ {t} : /\ pc'[u] = pc[u] /\ latest'[u] = latest[u]
                                 /\ locks'[u] = locks[u] /\ newVersion'[u] = newVersion[u],
           pc'[t] # "versionClash",
           \A e \in Experiences : VersionLock(e) \in locks'[t] =>
               VersionLock(e) \in locks[t] \/ LockFree(t, VersionLock(e)),
           pc'[t] \in AfterVersionLock => VersionLock(exp(t)) \in locks'[t],
           pc'[t] = "versionInsert" => latest'[t] = LatestNo(exp(t)),
           \A v \in newVersion'[t] :
               /\ pc'[t] = "commit" /\ VersionLock(exp(t)) \in locks'[t]
               /\ v.exp = exp(t) /\ v.no = LatestNo(exp(t)) + 1,
           \A v, w \in newVersion'[t] : v = w
    PROVE  VersionsInv'
<1>1. \A u \in Txns : exp(u)' = exp(u)
  BY DEF exp
<1>2. \A e : LatestNo(e)' = LatestNo(e)
  BY DEF LatestNo
<1>3. \A e : VersionLock(e)' = VersionLock(e)
  BY DEF VersionLock
<1>4. VersionsLocked'
  BY <1>1, <1>3 DEF VersionsInv, VersionsLocked, LockFree
<1>5. LatestIsCurrent'
  BY <1>1, <1>2 DEF VersionsInv, LatestIsCurrent
<1>6. PendingFollows'
  BY <1>1, <1>2, <1>3 DEF VersionsInv, PendingFollows
<1>7. Histories'
  BY DEF VersionsInv, Histories, HistoryOf
<1> QED BY <1>4, <1>5, <1>6, <1>7 DEF VersionsInv

LEMMA EndKeepsVersions ==
    ASSUME Control, VersionsInv, NEW t \in Txns, NEW o \in Ended \ {"versionClash"}, End(t, o)
    PROVE  VersionsInv'
<1>1. UNCHANGED <<versions, req>> /\ pc' = [pc EXCEPT ![t] = o] /\ Release(t)
  BY DEF End, tables
<1>2. pc'[t] = o /\ locks'[t] = {} /\ newVersion'[t] = {}
  BY <1>1 DEF Control, Release
<1>3. \A u \in Txns \ {t} : /\ pc'[u] = pc[u] /\ latest'[u] = latest[u]
                            /\ locks'[u] = locks[u] /\ newVersion'[u] = newVersion[u]
  BY <1>1 DEF Control, Release
<1>4. o \notin AfterVersionLock
  BY DEF AfterVersionLock, Ended
<1> QED BY <1>1, <1>2, <1>3, <1>4, OwnVersionStep DEF AfterVersionLock

\* A statement before appendExperienceVersion, which knows nothing of versions.
LEMMA QuietStatement ==
    ASSUME Control, VersionsInv, NEW t \in Txns, NEW next \in Waiting \ AfterVersionLock,
           pc[t] # "commit", Goto(t, next), UNCHANGED <<versions, req, newVersion>>,
           \A u \in Txns \ {t} : latest'[u] = latest[u] /\ locks'[u] = locks[u],
           \A e \in Experiences : VersionLock(e) \in locks'[t] <=> VersionLock(e) \in locks[t]
    PROVE  VersionsInv'
<1>1. newVersion'[t] = {}
  BY DEF VersionsInv, PendingFollows
<1>2. pc'[t] = next /\ \A u \in Txns \ {t} : pc'[u] = pc[u]
  BY DEF Control, Goto
<1>3. next # "versionClash" /\ next # "versionInsert"
  BY DEF Waiting, AfterVersionLock
<1> QED BY <1>1, <1>2, <1>3, OwnVersionStep

LEMMA FindKeepsVersions ==
    ASSUME Control, VersionsInv, NEW t \in Txns, Find(t)
    PROVE  VersionsInv'
<1> USE DEF reads, writes, tables
<1>1. {"refused", "missing"} \subseteq Ended \ {"versionClash"}
  BY DEF Ended
<1>2. CASE FindForCreate(t)
  <2>1. CASE End(t, "refused")
    BY <1>1, <2>1, EndKeepsVersions
  <2>2. CASE ~End(t, "refused")
    BY <1>2, <2>2, QuietStatement DEF FindForCreate, Waiting, AfterVersionLock
  <2> QED BY <2>1, <2>2
<1>3. CASE FindMissing(t)
  BY <1>1, <1>3, EndKeepsVersions DEF FindMissing
<1>4. CASE FindRefused(t)
  BY <1>1, <1>4, EndKeepsVersions DEF FindRefused
<1>5. CASE FindRow(t)
  <2>1. First(op(t)) \in Waiting \ AfterVersionLock
    BY DEF First, Waiting, AfterVersionLock
  <2> QED BY <1>5, <2>1, QuietStatement DEF FindRow
<1> QED BY <1>2, <1>3, <1>4, <1>5 DEF Find

LEMMA WriteRowKeepsVersions ==
    ASSUME Control, VersionsInv, NEW t \in Txns, WriteRow(t)
    PROVE  VersionsInv'
<1> USE DEF reads, writes, tables
<1>1. {"refused", "missing", "clash"} \subseteq Ended \ {"versionClash"}
  BY DEF Ended
<1>2. {"auditLock", "update"} \subseteq Waiting \ AfterVersionLock
  BY DEF Waiting, AfterVersionLock
<1>3. CASE Reread(t)
  BY <1>2, <1>3, QuietStatement DEF Reread
<1>4. CASE Insert(t)
  <2>1. CASE End(t, "clash")
    BY <1>1, <2>1, EndKeepsVersions
  <2>2. CASE ~End(t, "clash")
    BY <1>2, <1>4, <2>2, QuietStatement DEF Insert
  <2> QED BY <2>1, <2>2
<1>5. CASE Snapshot(t)
  <2>1. CASE End(t, "missing")
    BY <1>1, <2>1, EndKeepsVersions
  <2>2. CASE ~End(t, "missing")
    BY <1>2, <1>5, <2>2, QuietStatement DEF Snapshot
  <2> QED BY <2>1, <2>2
<1>6. CASE Update(t)
  BY <1>2, <1>6, QuietStatement DEF Update
<1>7. CASE UpdateMisses(t)
  BY <1>1, <1>7, EndKeepsVersions DEF UpdateMisses
<1> QED BY <1>3, <1>4, <1>5, <1>6, <1>7 DEF WriteRow

LEMMA PublishKeepsVersions ==
    ASSUME Control, VersionsInv, NEW t \in Txns, Publish(t)
    PROVE  VersionsInv'
<1> USE DEF reads, writes, tables
<1>1. {"refused", "clash"} \subseteq Ended \ {"versionClash"}
  BY DEF Ended
<1>2. {"scan", "recheck", "pubInsert", "auditLock"} \subseteq Waiting \ AfterVersionLock
  BY DEF Waiting, AfterVersionLock
<1>3. CASE Latest(t)
  <2>1. \A u \in Txns \ {t} : latest'[u] = latest[u]
    BY <1>3 DEF Latest, Control
  <2> QED BY <1>2, <1>3, <2>1, QuietStatement DEF Latest
<1>4. CASE Scan(t)
  BY <1>2, <1>4, QuietStatement DEF Scan
<1>5. CASE Recheck(t)
  BY <1>2, <1>5, QuietStatement DEF Recheck
<1>6. CASE RecheckRefused(t)
  BY <1>1, <1>6, EndKeepsVersions DEF RecheckRefused
<1>7. CASE PubInsert(t)
  <2>1. CASE End(t, "clash")
    BY <1>1, <2>1, EndKeepsVersions
  <2>2. CASE ~End(t, "clash")
    BY <1>2, <1>7, <2>2, QuietStatement DEF PubInsert
  <2> QED BY <2>1, <2>2
<1> QED BY <1>3, <1>4, <1>5, <1>6, <1>7 DEF Publish

LEMMA AppendAuditKeepsVersions ==
    ASSUME Control, VersionsInv, NEW t \in Txns, AppendAudit(t)
    PROVE  VersionsInv'
<1> USE DEF reads, writes, tables
<1>1. {"auditHead", "auditInsert", "versionLock", "commit"} \subseteq Waiting \ AfterVersionLock
  BY DEF Waiting, AfterVersionLock
<1>2. CASE LockAudit(t)
  <2>1. locks' = [locks EXCEPT ![t] = @ \cup {AuditLock}]
    BY <1>2 DEF LockAudit
  <2>2. \A e : AuditLock # VersionLock(e)
    BY DEF AuditLock, VersionLock
  <2>3. /\ \A u \in Txns \ {t} : locks'[u] = locks[u]
        /\ \A e \in Experiences : VersionLock(e) \in locks'[t] <=> VersionLock(e) \in locks[t]
    BY <2>1, <2>2 DEF Control
  <2> QED BY <1>1, <1>2, <2>3, QuietStatement DEF LockAudit
<1>3. CASE ReadHead(t)
  BY <1>1, <1>3, QuietStatement DEF ReadHead
<1>4. CASE InsertAudit(t)
  <2>1. CASE End(t, "auditClash")
    BY <2>1, EndKeepsVersions DEF Ended
  <2>2. CASE ~End(t, "auditClash")
    <3> DEFINE next == IF Versioned(op(t)) THEN "versionLock" ELSE "commit"
    <3>1. next \in Waiting \ AfterVersionLock
      BY <1>1
    <3>2. /\ pc[t] = "auditInsert" /\ Goto(t, next)
          /\ UNCHANGED <<versions, req, latest, locks, newVersion>>
      BY <1>4, <2>2 DEF InsertAudit
    <3> HIDE DEF next
    <3> QED BY <3>1, <3>2, QuietStatement
  <2> QED BY <2>1, <2>2
<1> QED BY <1>2, <1>3, <1>4 DEF AppendAudit

LEMMA AppendVersionKeepsVersions ==
    ASSUME Control, VersionsInv, NEW t \in Txns, AppendVersion(t)
    PROVE  VersionsInv'
<1> USE DEF reads, writes, tables
<1>1. exp(t) \in Experiences
  BY DEF VersionsInv, exp
<1>2. CASE LockVersions(t)
  <2>1. /\ pc[t] = "versionLock" /\ pc' = [pc EXCEPT ![t] = "versionMax"]
        /\ LockFree(t, VersionLock(exp(t)))
        /\ locks' = [locks EXCEPT ![t] = @ \cup {VersionLock(exp(t))}]
        /\ UNCHANGED <<versions, req, latest, newVersion>>
    BY <1>2 DEF LockVersions, Goto
  <2>2. /\ pc'[t] = "versionMax" /\ locks'[t] = locks[t] \cup {VersionLock(exp(t))}
        /\ \A u \in Txns \ {t} : pc'[u] = pc[u] /\ locks'[u] = locks[u]
    BY <2>1 DEF Control
  <2>3. newVersion'[t] = {}
    BY <2>1 DEF VersionsInv, PendingFollows
  <2> QED BY <2>1, <2>2, <2>3, OwnVersionStep DEF AfterVersionLock
<1>3. CASE ReadVersionMax(t)
  <2>1. /\ pc[t] = "versionMax" /\ pc' = [pc EXCEPT ![t] = "versionInsert"]
        /\ latest' = [latest EXCEPT ![t] = LatestNo(exp(t))]
        /\ UNCHANGED <<versions, req, locks, newVersion>>
    BY <1>3 DEF ReadVersionMax, Goto
  <2>2. /\ pc'[t] = "versionInsert" /\ latest'[t] = LatestNo(exp(t))
        /\ \A u \in Txns \ {t} : pc'[u] = pc[u] /\ latest'[u] = latest[u]
    BY <2>1 DEF Control
  <2>3. newVersion'[t] = {}
    BY <2>1 DEF VersionsInv, PendingFollows
  <2>4. VersionLock(exp(t)) \in locks[t]
    BY <2>1 DEF VersionsInv, VersionsLocked, AfterVersionLock
  <2> QED BY <2>1, <2>2, <2>3, <2>4, OwnVersionStep
<1>4. CASE InsertVersion(t)
  <2>1. /\ pc[t] = "versionInsert" /\ latest[t] = LatestNo(exp(t))
        /\ VersionLock(exp(t)) \in locks[t]
    BY <1>4 DEF InsertVersion, VersionsInv, LatestIsCurrent, VersionsLocked, AfterVersionLock
  <2>2. NextVersion(t).exp = exp(t) /\ NextVersion(t).no = LatestNo(exp(t)) + 1
    BY <2>1 DEF NextVersion
  <2>3. ~\E v \in versions : SameVersion(v, NextVersion(t))
    BY <1>1, <2>2, VersionExtends DEF VersionsInv
  <2>4. /\ pc' = [pc EXCEPT ![t] = "commit"]
        /\ newVersion' = [newVersion EXCEPT ![t] = {NextVersion(t)}]
        /\ UNCHANGED <<versions, req, latest, locks>>
    BY <1>4, <2>3 DEF InsertVersion, Goto
  <2>5. /\ pc'[t] = "commit" /\ newVersion'[t] = {NextVersion(t)}
        /\ \A u \in Txns \ {t} : pc'[u] = pc[u] /\ newVersion'[u] = newVersion[u]
    BY <2>4 DEF Control
  <2> QED BY <2>1, <2>2, <2>4, <2>5, OwnVersionStep DEF AfterVersionLock
<1> QED BY <1>2, <1>3, <1>4 DEF AppendVersion

\* COMMIT appends the version; a transaction that has read the latest number of
\* the same experience would hold the lock this one holds.
LEMMA CommitKeepsVersions ==
    ASSUME Control, VersionsInv, NEW t \in Txns, Commit(t)
    PROVE  VersionsInv'
<1>1. /\ pc[t] = "commit" /\ pc' = [pc EXCEPT ![t] = "ok"]
      /\ versions' = versions \cup newVersion[t] /\ Release(t) /\ UNCHANGED req
  BY DEF Commit
<1>2. /\ pc'[t] = "ok" /\ locks'[t] = {} /\ newVersion'[t] = {}
      /\ \A u \in Txns \ {t} : /\ pc'[u] = pc[u] /\ latest'[u] = latest[u]
                               /\ locks'[u] = locks[u] /\ newVersion'[u] = newVersion[u]
  BY <1>1 DEF Control, Release
<1>3. CASE newVersion[t] = {}
  <2>1. versions' = versions
    BY <1>1, <1>3
  <2> QED BY <1>1, <1>2, <2>1, OwnVersionStep DEF AfterVersionLock
<1>4. CASE newVersion[t] # {}
  <2>1. PICK v \in newVersion[t] : newVersion[t] = {v}
    BY <1>4 DEF VersionsInv, PendingFollows
  <2>2. /\ VersionLock(exp(t)) \in locks[t] /\ v.exp = exp(t) /\ v.exp \in Experiences
        /\ v.no = LatestNo(v.exp) + 1
    BY DEF VersionsInv, PendingFollows, exp
  <2>3. Histories' /\ \A e \in Experiences \ {exp(t)} : LatestNo(e)' = LatestNo(e)
    BY <1>1, <2>1, <2>2, VersionExtends DEF VersionsInv
  <2>4. \A u \in Txns : exp(u) \in Experiences /\ exp(u)' = exp(u)
    BY <1>1 DEF VersionsInv, exp
  <2>5. \A u \in Txns \ {t} : VersionLock(exp(u)) \in locks[u] => LatestNo(exp(u))' = LatestNo(exp(u))
    <3> SUFFICES ASSUME NEW u \in Txns \ {t}, VersionLock(exp(u)) \in locks[u]
                 PROVE  exp(u) # exp(t)
      BY <2>3, <2>4
    <3> QED BY <2>2, <2>4 DEF VersionsInv, VersionsLocked
  <2>6. \A e : VersionLock(e)' = VersionLock(e)
    BY DEF VersionLock
  <2>7. VersionsLocked'
    BY <1>2, <2>4, <2>6 DEF VersionsInv, VersionsLocked, AfterVersionLock
  <2>8. LatestIsCurrent'
    BY <1>2, <2>4, <2>5 DEF VersionsInv, VersionsLocked, LatestIsCurrent, AfterVersionLock
  <2>9. PendingFollows'
    BY <1>2, <2>4, <2>5, <2>6 DEF VersionsInv, PendingFollows
  <2>10. \A u \in Txns : pc'[u] # "versionClash"
    BY <1>2 DEF VersionsInv
  <2> QED BY <1>1, <2>3, <2>7, <2>8, <2>9, <2>10 DEF VersionsInv
<1> QED BY <1>3, <1>4

LEMMA VersionsStep == ASSUME Control, VersionsInv, [Next]_vars PROVE VersionsInv'
<1>1. CASE UNCHANGED vars
  BY <1>1 DEF vars, tables, reads, VersionsInv, VersionsLocked, LatestIsCurrent, PendingFollows,
              Histories, HistoryOf, LatestNo, VersionLock, exp, writes
<1>2. ASSUME NEW t \in Txns, Find(t) \/ Statement(t) \/ Lose(t) PROVE VersionsInv'
  <2>1. CASE Lose(t)
    BY <2>1, EndKeepsVersions DEF Lose, Ended
  <2> QED BY <1>2, <2>1, FindKeepsVersions, WriteRowKeepsVersions, PublishKeepsVersions,
             AppendAuditKeepsVersions, AppendVersionKeepsVersions, CommitKeepsVersions
             DEF Statement
<1> QED BY <1>1, <1>2 DEF Next

LEMMA HistoriesAreDense == VersionsInv => VersionsDense
<1> SUFFICES ASSUME VersionsInv, NEW v \in versions
             PROVE  v.no = 1 \/ \E w \in versions : w.exp = v.exp /\ w.no = v.no - 1
  BY DEF VersionsInv, Histories, VersionsDense
<1>1. PICK n \in Nat : HistoryOf(v.exp, n)
  BY DEF VersionsInv, Histories
<1>2. v.no \in 1 .. n
  BY <1>1 DEF HistoryOf
<1>3. v.no = 1 \/ v.no - 1 \in 1 .. n
  BY <1>2
<1> QED BY <1>1, <1>3 DEF HistoryOf

\* The histories that the advisory locks serialise: the versions of every
\* experience are 1, 2, ... whichever edits, rollbacks and transitions overlap.
THEOREM VersionsAreDense == Spec => []VersionsDense
<1>1. Init => AuditInv /\ VersionsInv
  BY AuditInit, VersionsInit, SeedAssumption
<1>2. AuditInv /\ VersionsInv /\ [Next]_vars => AuditInv' /\ VersionsInv'
  BY AuditStep, VersionsStep, TxnsAssumption DEF AuditInv
<1>3. VersionsInv => VersionsDense
  BY HistoriesAreDense
<1> QED BY <1>1, <1>2, <1>3, PTL DEF Spec

\* No request ever fails on the unique indexes of audit positions and version
\* numbers: appendAudit and appendExperienceVersion need no retry.
THEOREM AppendsNeverClash == Spec => []NoAppendFails
<1>1. Init => AuditInv /\ VersionsInv
  BY AuditInit, VersionsInit, SeedAssumption
<1>2. AuditInv /\ VersionsInv /\ [Next]_vars => AuditInv' /\ VersionsInv'
  BY AuditStep, VersionsStep, TxnsAssumption DEF AuditInv
<1>3. AuditInv /\ VersionsInv => NoAppendFails
  BY DEF AuditInv, VersionsInv, NoAppendFails
<1> QED BY <1>1, <1>2, <1>3, PTL DEF Spec

----------------------------------------------------------------------------
(* Rows: what a transaction has read and written when it reaches a         *)
(* statement, and the types that follow.                                   *)

\* The statements of an endpoint after its first SELECT.
Program(o) ==
    {"auditLock", "auditHead", "auditInsert", "commit"}
    \cup (IF Versioned(o) THEN {"versionLock", "versionMax", "versionInsert"} ELSE {})
    \cup (CASE o = "create" -> {"insert"}
            [] o = "rollback" -> {"snapshot", "update"}
            [] o = "emptyPatch" -> {"reread"}
            [] o = "publish" -> {"latest", "scan", "recheck", "pubInsert"}
            [] o \in {"unpublish", "rotate"} -> {"scan", "recheck"}
            [] OTHER -> {"update"})

\* Every transaction runs its endpoint's statements.
OnProgram == \A t \in Txns : pc[t] \in {"idle"} \cup Program(op(t)) \cup Ended

\* An experience is one row, and what a handler holds is that row, as it was.
ReadsRow ==
    /\ \A r, s \in rows : r.exp = s.exp => r = s
    /\ \A t \in Txns :
         /\ \A r, s \in seen[t] : r = s /\ r.exp = exp(t)
         /\ seen[t] # {} => Found(t) # {}
         /\ pc[t] \in Waiting /\ op(t) # "create" => seen[t] # {}
         /\ pc[t] = "update" /\ op(t) \in Actions => \A r \in seen[t] : Legal(r.state, op(t))
         /\ pc[t] = "update" /\ op(t) = "rollback" => target[t] # {} /\ target[t] \subseteq Version

\* What it is to commit is one row of that experience.
WritesRow ==
    \A t \in Txns :
        /\ \A w, x \in newRow[t] : w = x /\ w.exp = exp(t)
        /\ pc[t] \in Waiting \ {"insert"} /\ op(t) = "create" => newRow[t] # {}

RowsInv == TypeOK /\ OnProgram /\ ReadsRow /\ WritesRow

LEMMA TheIsIn == ASSUME NEW S, S # {} PROVE The(S) \in S
BY DEF The

LEMMA RowsInit == TxnsAssumption /\ SeedAssumption /\ Init => RowsInv
<1> SUFFICES ASSUME TxnsAssumption, SeedAssumption, Init PROVE RowsInv
  OBVIOUS
<1> PICK s \in NewStates :
        /\ rows = {[exp |-> e, state |-> s, content |-> Seed, deleted |-> FALSE,
                    chain |-> <<>>] : e \in Seeded}
        /\ versions = {[exp |-> e, no |-> 1, content |-> Seed, state |-> s, by |-> Seed] :
                           e \in Seeded}
  BY DEF Init
<1>1. s \in States /\ Seeded \subseteq Experiences
  BY DEF SeedAssumption
<1>2. rows \subseteq Row /\ versions \subseteq Version
  <2>1. <<>> \in Seq([tx : Requests, from : States, to : States])
    OBVIOUS
  <2>2. ASSUME NEW e \in Seeded
        PROVE  /\ [exp |-> e, state |-> s, content |-> Seed, deleted |-> FALSE, chain |-> <<>>] \in Row
               /\ [exp |-> e, no |-> 1, content |-> Seed, state |-> s, by |-> Seed] \in Version
    BY <1>1, <2>1 DEF Row, Version, Requests
  <2> QED BY <2>2
<1>3. audit \subseteq Entry
  BY DEF Init, Entry, Requests
<1>4. TypeOK
  BY <1>2, <1>3 DEF Init, TypeOK
<1>5. OnProgram
  BY DEF Init, OnProgram
<1>6. \A r, q \in rows : r.exp = q.exp => r = q
  OBVIOUS
<1>7. ReadsRow
  BY <1>6 DEF Init, ReadsRow, Waiting
<1>8. WritesRow
  BY DEF Init, WritesRow, Waiting
<1> QED BY <1>4, <1>5, <1>7, <1>8 DEF RowsInv

\* A step of t that commits nothing keeps the types and the rows if t's own part
\* of them holds after it.
LEMMA OwnRowStep ==
    ASSUME RowsInv, NEW t \in Txns, UNCHANGED <<tables, req>>,
           pc' \in [Txns -> {"idle"} \cup Waiting \cup Ended],
           seen' \in [Txns -> SUBSET Row], latest' \in [Txns -> Nat],
           head' \in [Txns -> SUBSET Entry],
           target' \in [Txns -> SUBSET (Version \cup Publication)],
           locks' \in [Txns -> SUBSET ({AuditLock} \cup {VersionLock(e) : e \in Experiences})],
           newRow' \in [Txns -> SUBSET Row], newVersion' \in [Txns -> SUBSET Version],
           newAudit' \in [Txns -> SUBSET Entry], newPubs' \in [Txns -> SUBSET Publication],
           \A u \in Txns \ {t} : /\ pc'[u] = pc[u] /\ seen'[u] = seen[u]
                                 /\ target'[u] = target[u] /\ newRow'[u] = newRow[u],
           pc'[t] \in Program(op(t)) \cup Ended,
           \A r, s \in seen'[t] : r = s /\ r.exp = exp(t),
           seen'[t] # {} => Found(t) # {},
           pc'[t] \in Waiting /\ op(t) # "create" => seen'[t] # {},
           pc'[t] = "update" /\ op(t) \in Actions => \A r \in seen'[t] : Legal(r.state, op(t)),
           pc'[t] = "update" /\ op(t) = "rollback" => target'[t] # {} /\ target'[t] \subseteq Version,
           \A w, x \in newRow'[t] : w = x /\ w.exp = exp(t),
           pc'[t] \in Waiting \ {"insert"} /\ op(t) = "create" => newRow'[t] # {}
    PROVE  RowsInv'
<1>1. \A u \in Txns : exp(u)' = exp(u) /\ op(u)' = op(u) /\ Found(u)' = Found(u)
  BY DEF exp, op, Found, tables
<1>2. TypeOK'
  BY DEF RowsInv, TypeOK, tables, AuditLock, VersionLock
<1>3. OnProgram'
  BY <1>1 DEF RowsInv, OnProgram
<1>4. ReadsRow'
  BY <1>1 DEF RowsInv, ReadsRow, tables
<1>5. WritesRow'
  BY <1>1 DEF RowsInv, WritesRow
<1> QED BY <1>2, <1>3, <1>4, <1>5 DEF RowsInv

LEMMA EndKeepsRows ==
    ASSUME RowsInv, NEW t \in Txns, NEW o \in Ended, End(t, o)
    PROVE  RowsInv'
<1>1. UNCHANGED <<tables, req>> /\ pc' = [pc EXCEPT ![t] = o] /\ Release(t)
  BY DEF End
<1>2. /\ pc'[t] = o /\ seen'[t] = {} /\ newRow'[t] = {}
      /\ \A u \in Txns \ {t} : /\ pc'[u] = pc[u] /\ seen'[u] = seen[u]
                               /\ target'[u] = target[u] /\ newRow'[u] = newRow[u]
  BY <1>1 DEF RowsInv, TypeOK, Release
<1>3. pc' \in [Txns -> {"idle"} \cup Waiting \cup Ended]
  BY <1>1 DEF RowsInv, TypeOK
<1>4. /\ seen' \in [Txns -> SUBSET Row] /\ latest' \in [Txns -> Nat]
      /\ head' \in [Txns -> SUBSET Entry]
      /\ target' \in [Txns -> SUBSET (Version \cup Publication)]
      /\ locks' \in [Txns -> SUBSET ({AuditLock} \cup {VersionLock(e) : e \in Experiences})]
      /\ newRow' \in [Txns -> SUBSET Row] /\ newVersion' \in [Txns -> SUBSET Version]
      /\ newAudit' \in [Txns -> SUBSET Entry] /\ newPubs' \in [Txns -> SUBSET Publication]
  BY <1>1 DEF RowsInv, TypeOK, Release
<1>5. o \notin Waiting
  BY DEF Waiting, Ended
<1> QED BY <1>1, <1>2, <1>3, <1>4, <1>5, OwnRowStep DEF Waiting

\* A statement after the row has been read, and written if the endpoint does.
LEMMA RowStatement ==
    ASSUME RowsInv, NEW t \in Txns, NEW next \in Program(op(t)) \ {"insert", "update"},
           pc[t] \in Waiting \ {"insert"}, next \in Waiting,
           Goto(t, next), UNCHANGED <<tables, req, seen, newRow>>,
           latest' \in [Txns -> Nat], head' \in [Txns -> SUBSET Entry],
           target' \in [Txns -> SUBSET (Version \cup Publication)],
           locks' \in [Txns -> SUBSET ({AuditLock} \cup {VersionLock(e) : e \in Experiences})],
           newVersion' \in [Txns -> SUBSET Version], newAudit' \in [Txns -> SUBSET Entry],
           newPubs' \in [Txns -> SUBSET Publication],
           \A u \in Txns \ {t} : target'[u] = target[u]
    PROVE  RowsInv'
<1>1. /\ pc'[t] = next /\ \A u \in Txns \ {t} : pc'[u] = pc[u]
      /\ pc' \in [Txns -> {"idle"} \cup Waiting \cup Ended]
  BY DEF RowsInv, TypeOK, Goto
<1>2. seen' \in [Txns -> SUBSET Row] /\ newRow' \in [Txns -> SUBSET Row]
  BY DEF RowsInv, TypeOK
<1>3. /\ \A r, s \in seen'[t] : r = s /\ r.exp = exp(t)
      /\ seen'[t] # {} => Found(t) # {}
      /\ op(t) # "create" => seen'[t] # {}
      /\ \A w, x \in newRow'[t] : w = x /\ w.exp = exp(t)
      /\ op(t) = "create" => newRow'[t] # {}
  BY DEF RowsInv, ReadsRow, WritesRow
<1> QED BY <1>1, <1>2, <1>3, OwnRowStep

LEMMA FindKeepsRows == ASSUME RowsInv, NEW t \in Txns, Find(t) PROVE RowsInv'
<1>0. {"refused", "missing"} \subseteq Ended
  BY DEF Ended
<1>1. CASE FindForCreate(t)
  <2>1. CASE End(t, "refused")
    BY <1>0, <2>1, EndKeepsRows
  <2>2. CASE ~End(t, "refused")
    <3>1. /\ op(t) = "create" /\ pc' = [pc EXCEPT ![t] = "insert"]
          /\ UNCHANGED <<tables, req, reads, locks, writes>>
      BY <1>1, <2>2 DEF FindForCreate, Goto
    <3>2. /\ pc'[t] = "insert" /\ \A u \in Txns \ {t} : pc'[u] = pc[u]
          /\ pc' \in [Txns -> {"idle"} \cup Waiting \cup Ended]
      BY <3>1 DEF RowsInv, TypeOK, Waiting
    <3>3. "insert" \in Program(op(t)) /\ op(t) \notin Actions
      BY <3>1 DEF Program, Actions
    <3>4. /\ \A r, s \in seen[t] : r = s /\ r.exp = exp(t)
          /\ seen[t] # {} => Found(t) # {}
          /\ \A w, x \in newRow[t] : w = x /\ w.exp = exp(t)
      BY DEF RowsInv, ReadsRow, WritesRow
    <3> QED BY <3>1, <3>2, <3>3, <3>4, OwnRowStep DEF RowsInv, TypeOK, reads, writes
  <2> QED BY <2>1, <2>2
<1>2. CASE FindMissing(t)
  BY <1>0, <1>2, EndKeepsRows DEF FindMissing
<1>3. CASE FindRefused(t)
  BY <1>0, <1>3, EndKeepsRows DEF FindRefused
<1>4. CASE FindRow(t)
  <2>1. /\ op(t) # "create" /\ pc' = [pc EXCEPT ![t] = First(op(t))]
        /\ seen' = [seen EXCEPT ![t] = Found(t)]
        /\ UNCHANGED <<tables, req, latest, head, target, locks, writes>>
    BY <1>4 DEF FindRow, Goto
  <2>2. \A r, s \in Found(t) : r = s /\ r.exp = exp(t)
    BY DEF RowsInv, ReadsRow, Found
  <2>3. Found(t) # {} /\ (op(t) \in Actions => \A r \in Found(t) : Legal(r.state, op(t)))
    BY <1>4, <2>2 DEF FindRow
  <2>4. First(op(t)) \in Program(op(t)) /\ First(op(t)) \in Waiting
    BY <2>1 DEF First, Program, Waiting
  <2>5. First(op(t)) = "update" => op(t) # "rollback"
    BY DEF First
  <2>6. /\ pc'[t] = First(op(t)) /\ seen'[t] = Found(t)
        /\ \A u \in Txns \ {t} : pc'[u] = pc[u] /\ seen'[u] = seen[u]
        /\ pc' \in [Txns -> {"idle"} \cup Waiting \cup Ended]
        /\ seen' \in [Txns -> SUBSET Row]
    BY <2>1, <2>4 DEF RowsInv, TypeOK, Found
  <2>7. \A w, x \in newRow[t] : w = x /\ w.exp = exp(t)
    BY DEF RowsInv, WritesRow
  <2> HIDE DEF First
  <2> QED BY <2>1, <2>2, <2>3, <2>4, <2>5, <2>6, <2>7, OwnRowStep DEF RowsInv, TypeOK, writes
<1> QED BY <1>1, <1>2, <1>3, <1>4 DEF Find

\* nextApprovalState never leaves the approval states.
LEMMA TransitionsInStates ==
    ASSUME NEW s \in States, NEW a \in Actions, Legal(s, a)
    PROVE  /\ \E x \in States : <<s, a, x>> \in Transitions
           /\ The({x \in States : <<s, a, x>> \in Transitions}) \in States
<1>1. \E x \in States : <<s, a, x>> \in Transitions
  BY DEF Legal, Transitions, States
<1> QED BY <1>1 DEF The

LEMMA UpdatedIsRow ==
    ASSUME RowsInv, NEW t \in Txns, pc[t] = "update", NEW r \in rows
    PROVE  Updated(t, r) \in Row /\ Updated(t, r).exp = r.exp
<1>1. r \in Row /\ t \in Requests
  BY DEF RowsInv, TypeOK, Requests
<1>2. op(t) \in Actions \cup {"patch", "delete", "rollback"}
  <2>1. op(t) \in AllOps
    BY SeedAssumption DEF RowsInv, TypeOK, op
  <2>2. "update" \in Program(op(t))
    BY DEF RowsInv, OnProgram, Ended
  <2>3. op(t) \notin {"create", "emptyPatch", "publish", "unpublish", "rotate"}
    BY <2>2 DEF Program
  <2> QED BY <2>1, <2>3 DEF AllOps, Actions, Edits, Publishing
<1>3. CASE op(t) = "patch"
  BY <1>1, <1>3 DEF Updated, Row
<1>4. CASE op(t) = "delete"
  BY <1>1, <1>4 DEF Updated, Row
<1>5. CASE op(t) = "rollback"
  <2>1. target[t] # {} /\ target[t] \subseteq Version
    BY <1>5 DEF RowsInv, ReadsRow
  <2>2. The(target[t]) \in Version
    BY <2>1, TheIsIn
  <2>3. The(target[t]).content \in Requests
    BY <2>2 DEF Version
  <2> QED BY <1>1, <1>5, <2>3 DEF Updated, Row
<1>6. CASE op(t) \in Actions
  <2>1. op(t) # "create" /\ op(t) \notin {"patch", "rollback", "delete"}
    BY <1>6 DEF Actions
  <2>2. seen[t] # {} /\ \A b \in seen[t] : Legal(b.state, op(t)) /\ b \in Row
    BY <1>6, <2>1 DEF RowsInv, ReadsRow, TypeOK, Waiting
  <2> DEFINE b == The(seen[t])
  <2>3. b \in Row /\ Legal(b.state, op(t))
    BY <2>2, TheIsIn
  <2> HIDE DEF b
  <2>4. FromState(t) \in States /\ ToState(t) \in States
    BY <2>3, <1>6, TransitionsInStates DEF FromState, ToState, Row, b
  <2>5. Event(t) \in [tx : Requests, from : States, to : States]
    BY <1>1, <2>4 DEF Event
  <2>6. Append(b.chain, Event(t)) \in Seq([tx : Requests, from : States, to : States])
    BY <2>3, <2>5 DEF Row
  <2>7. Updated(t, r) = [r EXCEPT !.state = ToState(t), !.chain = Append(b.chain, Event(t))]
    BY <2>1 DEF Updated, b
  <2> QED BY <1>1, <2>4, <2>6, <2>7 DEF Row
<1> QED BY <1>2, <1>3, <1>4, <1>5, <1>6

LEMMA WriteRowKeepsRows == ASSUME RowsInv, NEW t \in Txns, WriteRow(t) PROVE RowsInv'
<1>0. {"refused", "missing", "clash"} \subseteq Ended
  BY DEF Ended
<1>1. /\ \A r, s \in seen[t] : r = s /\ r.exp = exp(t)
      /\ seen[t] # {} => Found(t) # {}
      /\ \A w, x \in newRow[t] : w = x /\ w.exp = exp(t)
  BY DEF RowsInv, ReadsRow, WritesRow
<1>2. "auditLock" \in Program(op(t)) /\ "auditLock" \in Waiting
  BY DEF Program, Waiting
<1>3. CASE Reread(t)
  <2>1. /\ pc[t] = "reread" /\ pc' = [pc EXCEPT ![t] = "auditLock"]
        /\ seen' = [seen EXCEPT ![t] = Found(t)]
        /\ UNCHANGED <<tables, req, latest, head, target, locks, writes>>
    BY <1>3 DEF Reread, Goto
  <2>2. op(t) # "create"
    BY <2>1 DEF RowsInv, OnProgram, Program, Ended
  <2>3. Found(t) # {} /\ \A r, s \in Found(t) : r = s /\ r.exp = exp(t)
    BY <2>1, <2>2 DEF RowsInv, ReadsRow, Waiting, Found
  <2>4. /\ pc'[t] = "auditLock" /\ seen'[t] = Found(t)
        /\ \A u \in Txns \ {t} : pc'[u] = pc[u] /\ seen'[u] = seen[u]
        /\ pc' \in [Txns -> {"idle"} \cup Waiting \cup Ended]
        /\ seen' \in [Txns -> SUBSET Row]
    BY <1>2, <2>1 DEF RowsInv, TypeOK, Found
  <2> QED BY <1>1, <1>2, <2>1, <2>2, <2>3, <2>4, OwnRowStep DEF RowsInv, TypeOK, writes
<1>4. CASE Insert(t)
  <2>1. CASE End(t, "clash")
    BY <1>0, <2>1, EndKeepsRows
  <2>2. CASE ~End(t, "clash")
    <3> DEFINE Fresh(s) == [exp |-> exp(t), state |-> s, content |-> t, deleted |-> FALSE,
                            chain |-> <<>>]
    <3>1. PICK s \in NewStates : newRow' = [newRow EXCEPT ![t] = {Fresh(s)}]
      BY <1>4, <2>2 DEF Insert
    <3>2. /\ pc[t] = "insert" /\ pc' = [pc EXCEPT ![t] = "auditLock"]
          /\ UNCHANGED <<tables, req, reads, locks, newVersion, newAudit, newPubs>>
      BY <1>4, <2>2 DEF Insert, Goto
    <3>3. Fresh(s) \in Row /\ Fresh(s).exp = exp(t)
      <4>1. s \in States /\ exp(t) \in Experiences /\ t \in Requests
        BY SeedAssumption DEF RowsInv, TypeOK, exp, Requests
      <4>2. <<>> \in Seq([tx : Requests, from : States, to : States])
        OBVIOUS
      <4> QED BY <4>1, <4>2 DEF Row
    <3> HIDE DEF Fresh
    <3>4. /\ pc'[t] = "auditLock" /\ newRow'[t] = {Fresh(s)}
          /\ \A u \in Txns \ {t} : pc'[u] = pc[u] /\ newRow'[u] = newRow[u]
          /\ pc' \in [Txns -> {"idle"} \cup Waiting \cup Ended]
          /\ newRow' \in [Txns -> SUBSET Row]
      BY <1>2, <3>1, <3>2, <3>3 DEF RowsInv, TypeOK
    <3>5. op(t) # "create" => seen[t] # {}
      BY <3>2 DEF RowsInv, ReadsRow, Waiting
    <3> QED BY <1>1, <1>2, <3>2, <3>3, <3>4, <3>5, OwnRowStep DEF RowsInv, TypeOK, reads
  <2> QED BY <2>1, <2>2
<1>5. CASE Snapshot(t)
  <2>1. CASE End(t, "missing")
    BY <1>0, <2>1, EndKeepsRows
  <2>2. CASE ~End(t, "missing")
    <3>1. /\ pc[t] = "snapshot" /\ pc' = [pc EXCEPT ![t] = "update"]
          /\ UNCHANGED <<tables, req, seen, latest, head, locks, writes>>
      BY <1>5, <2>2 DEF Snapshot, Goto
    <3>2. PICK v \in versions : target' = [target EXCEPT ![t] = {v}]
      BY <1>5, <2>2 DEF Snapshot
    <3>3. op(t) = "rollback"
      BY <3>1 DEF RowsInv, OnProgram, Program, Ended
    <3>4. v \in Version
      BY DEF RowsInv, TypeOK
    <3>5. /\ pc'[t] = "update" /\ target'[t] = {v}
          /\ \A u \in Txns \ {t} : pc'[u] = pc[u] /\ target'[u] = target[u]
          /\ pc' \in [Txns -> {"idle"} \cup Waiting \cup Ended]
          /\ target' \in [Txns -> SUBSET (Version \cup Publication)]
      BY <3>1, <3>2, <3>4 DEF RowsInv, TypeOK, Waiting
    <3>6. "update" \in Program(op(t)) /\ op(t) \notin Actions /\ op(t) # "create"
      BY <3>3 DEF Program, Actions
    <3>7. seen[t] # {}
      BY <3>1, <3>6 DEF RowsInv, ReadsRow, Waiting
    <3>8. target'[t] # {} /\ target'[t] \subseteq Version
      BY <3>4, <3>5
    <3>9. /\ seen' \in [Txns -> SUBSET Row] /\ latest' \in [Txns -> Nat]
          /\ head' \in [Txns -> SUBSET Entry]
          /\ locks' \in [Txns -> SUBSET ({AuditLock} \cup {VersionLock(e) : e \in Experiences})]
          /\ newRow' \in [Txns -> SUBSET Row] /\ newVersion' \in [Txns -> SUBSET Version]
          /\ newAudit' \in [Txns -> SUBSET Entry] /\ newPubs' \in [Txns -> SUBSET Publication]
          /\ seen' = seen /\ newRow' = newRow
      BY <3>1 DEF RowsInv, TypeOK, writes
    <3>10. /\ UNCHANGED <<tables, req>>
           /\ \A u \in Txns \ {t} : /\ pc'[u] = pc[u] /\ seen'[u] = seen[u]
                                    /\ target'[u] = target[u] /\ newRow'[u] = newRow[u]
           /\ pc'[t] \in Program(op(t)) \cup Ended
      BY <3>1, <3>5, <3>6, <3>9
    <3>11. /\ \A r, s \in seen'[t] : r = s /\ r.exp = exp(t)
           /\ seen'[t] # {} /\ Found(t) # {}
           /\ \A w, x \in newRow'[t] : w = x /\ w.exp = exp(t)
      BY <1>1, <3>7, <3>9
    <3> QED BY <3>5, <3>6, <3>8, <3>9, <3>10, <3>11, OwnRowStep
  <2> QED BY <2>1, <2>2
<1>6. CASE Update(t)
  <2>1. PICK r \in rows : Matches(t, r) /\ newRow' = [newRow EXCEPT ![t] = {Updated(t, r)}]
    BY <1>6 DEF Update
  <2>2. /\ pc[t] = "update" /\ pc' = [pc EXCEPT ![t] = "auditLock"]
        /\ UNCHANGED <<tables, req, reads, locks, newVersion, newAudit, newPubs>>
    BY <1>6 DEF Update, Goto
  <2>3. Updated(t, r) \in Row /\ Updated(t, r).exp = exp(t)
    BY <2>1, <2>2, UpdatedIsRow DEF Matches
  <2>4. /\ pc'[t] = "auditLock" /\ newRow'[t] = {Updated(t, r)}
        /\ \A u \in Txns \ {t} : pc'[u] = pc[u] /\ newRow'[u] = newRow[u]
        /\ pc' \in [Txns -> {"idle"} \cup Waiting \cup Ended]
        /\ newRow' \in [Txns -> SUBSET Row]
    BY <1>2, <2>1, <2>2, <2>3 DEF RowsInv, TypeOK
  <2>5. op(t) # "create" => seen[t] # {}
    BY <2>2 DEF RowsInv, ReadsRow, Waiting
  <2> QED BY <1>1, <1>2, <2>2, <2>3, <2>4, <2>5, OwnRowStep DEF RowsInv, TypeOK, reads
<1>7. CASE UpdateMisses(t)
  BY <1>0, <1>7, EndKeepsRows DEF UpdateMisses
<1> QED BY <1>3, <1>4, <1>5, <1>6, <1>7 DEF WriteRow

LEMMA PublishKeepsRows ==
    ASSUME RowsInv, Histories, NEW t \in Txns, Publish(t)
    PROVE  RowsInv'
<1>0. {"refused", "clash"} \subseteq Ended
  BY DEF Ended
<1>1. {"scan", "recheck", "pubInsert", "auditLock"} \subseteq Waiting \ {"insert", "update"}
  BY DEF Waiting
<1>2. CASE Latest(t)
  <2>1. /\ pc[t] = "latest" /\ Goto(t, "scan")
        /\ latest' = [latest EXCEPT ![t] = LatestNo(exp(t))]
        /\ UNCHANGED <<tables, req, seen, head, target, locks, writes>>
    BY <1>2 DEF Latest
  <2>2. "scan" \in Program(op(t)) /\ pc[t] \in Waiting \ {"insert"}
    BY <2>1 DEF RowsInv, OnProgram, Program, Ended, Waiting
  <2>3. latest' \in [Txns -> Nat]
    <3>1. exp(t) \in Experiences
      BY DEF RowsInv, TypeOK, exp
    <3> QED BY <2>1, <3>1, LatestIsNat DEF RowsInv, TypeOK
  <2> QED BY <1>1, <2>1, <2>2, <2>3, RowStatement DEF RowsInv, TypeOK, writes
<1>3. CASE Scan(t)
  <2>1. /\ pc[t] = "scan" /\ Goto(t, "recheck")
        /\ target' = [target EXCEPT ![t] = {p \in Active : p.exp = exp(t)}]
        /\ UNCHANGED <<tables, req, seen, latest, head, locks, writes>>
    BY <1>3 DEF Scan
  <2>2. "recheck" \in Program(op(t)) /\ pc[t] \in Waiting \ {"insert"}
    BY <2>1 DEF RowsInv, OnProgram, Program, Ended, Waiting
  <2>3. /\ target' \in [Txns -> SUBSET (Version \cup Publication)]
        /\ \A u \in Txns \ {t} : target'[u] = target[u]
    BY <2>1 DEF RowsInv, TypeOK, Active
  <2> QED BY <1>1, <2>1, <2>2, <2>3, RowStatement DEF RowsInv, TypeOK, writes
<1>4. CASE Recheck(t)
  <2> DEFINE next == IF op(t) = "publish" THEN "pubInsert" ELSE "auditLock"
  <2>1. /\ pc[t] = "recheck" /\ Goto(t, next)
        /\ newPubs' = [newPubs EXCEPT ![t] = {Changed(t, p) : p \in StillActive(t)}]
        /\ UNCHANGED <<tables, req, reads, locks, newRow, newVersion, newAudit>>
    BY <1>4 DEF Recheck
  <2>2. next \in Program(op(t)) \ {"insert", "update"} /\ next \in Waiting
        /\ pc[t] \in Waiting \ {"insert"}
    BY <1>1, <2>1 DEF Program, Waiting
  <2>3. ASSUME NEW p \in StillActive(t) PROVE Changed(t, p) \in Publication
    <3>1. p \in Publication /\ t \in Requests
      BY DEF StillActive, Active, RowsInv, TypeOK, Requests
    <3> QED BY <3>1 DEF Changed, Publication
  <2>4. newPubs' \in [Txns -> SUBSET Publication]
    BY <2>1, <2>3 DEF RowsInv, TypeOK
  <2> HIDE DEF next
  <2> QED BY <2>1, <2>2, <2>4, RowStatement DEF RowsInv, TypeOK, reads
<1>5. CASE RecheckRefused(t)
  BY <1>0, <1>5, EndKeepsRows DEF RecheckRefused
<1>6. CASE PubInsert(t)
  <2>1. CASE End(t, "clash")
    BY <1>0, <2>1, EndKeepsRows
  <2>2. CASE ~End(t, "clash")
    <3> DEFINE new == [id |-> t, exp |-> exp(t), no |-> latest[t],
                       content |-> The(seen[t]).content, key |-> t, active |-> TRUE]
    <3>1. /\ pc[t] = "pubInsert" /\ Goto(t, "auditLock")
          /\ newPubs' = [newPubs EXCEPT ![t] = @ \cup {new}]
          /\ UNCHANGED <<tables, req, reads, locks, newRow, newVersion, newAudit>>
      BY <1>6, <2>2 DEF PubInsert
    <3>2. "auditLock" \in Program(op(t)) /\ pc[t] \in Waiting \ {"insert"} /\ op(t) # "create"
      BY <3>1 DEF RowsInv, OnProgram, Program, Ended, Waiting
    <3>3. The(seen[t]) \in Row
      <4>1. seen[t] # {} /\ seen[t] \subseteq Row
        BY <3>2 DEF RowsInv, ReadsRow, TypeOK
      <4> QED BY <4>1, TheIsIn
    <3>4. new \in Publication
      BY <3>3 DEF Publication, Row, RowsInv, TypeOK, exp, Requests
    <3> HIDE DEF new
    <3>5. newPubs' \in [Txns -> SUBSET Publication]
      BY <3>1, <3>4 DEF RowsInv, TypeOK
    <3> QED BY <1>1, <3>1, <3>2, <3>5, RowStatement DEF RowsInv, TypeOK, reads
  <2> QED BY <2>1, <2>2
<1> QED BY <1>2, <1>3, <1>4, <1>5, <1>6 DEF Publish

LEMMA AppendKeepsRows ==
    ASSUME RowsInv, Histories, NEW t \in Txns, AppendAudit(t) \/ AppendVersion(t)
    PROVE  RowsInv'
<1>0. {"auditClash", "versionClash"} \subseteq Ended
  BY DEF Ended
<1>1. {"auditHead", "auditInsert", "versionLock", "versionMax", "versionInsert", "commit"}
          \subseteq Waiting \ {"insert", "update"}
  BY DEF Waiting
<1>2. exp(t) \in Experiences
  BY DEF RowsInv, TypeOK, exp
<1>3. CASE LockAudit(t)
  <2>1. /\ pc[t] = "auditLock" /\ Goto(t, "auditHead")
        /\ locks' = [locks EXCEPT ![t] = @ \cup {AuditLock}]
        /\ UNCHANGED <<tables, req, reads, writes>>
    BY <1>3 DEF LockAudit
  <2>2. "auditHead" \in Program(op(t)) /\ pc[t] \in Waiting \ {"insert"}
    BY <2>1 DEF Program, Waiting
  <2>3. locks' \in [Txns -> SUBSET ({AuditLock} \cup {VersionLock(e) : e \in Experiences})]
    BY <2>1 DEF RowsInv, TypeOK
  <2> QED BY <1>1, <2>1, <2>2, <2>3, RowStatement DEF RowsInv, TypeOK, reads, writes
<1>4. CASE ReadHead(t)
  <2>1. /\ pc[t] = "auditHead" /\ Goto(t, "auditInsert")
        /\ head' = [head EXCEPT ![t] = ChainHead]
        /\ UNCHANGED <<tables, req, seen, latest, target, locks, writes>>
    BY <1>4 DEF ReadHead
  <2>2. "auditInsert" \in Program(op(t)) /\ pc[t] \in Waiting \ {"insert"}
    BY <2>1 DEF Program, Waiting
  <2>3. head' \in [Txns -> SUBSET Entry]
    BY <2>1 DEF RowsInv, TypeOK, ChainHead
  <2> QED BY <1>1, <2>1, <2>2, <2>3, RowStatement DEF RowsInv, TypeOK, writes
<1>5. CASE InsertAudit(t)
  <2>1. CASE End(t, "auditClash")
    BY <1>0, <2>1, EndKeepsRows
  <2>2. CASE ~End(t, "auditClash")
    <3> DEFINE next == IF Versioned(op(t)) THEN "versionLock" ELSE "commit"
    <3>1. /\ pc[t] = "auditInsert" /\ Goto(t, next)
          /\ newAudit' = [newAudit EXCEPT ![t] = {NextEntry(t)}]
          /\ UNCHANGED <<tables, req, reads, locks, newRow, newVersion, newPubs>>
      BY <1>5, <2>2 DEF InsertAudit
    <3>2. next \in Program(op(t)) \ {"insert", "update"} /\ next \in Waiting
          /\ pc[t] \in Waiting \ {"insert"}
      BY <1>1, <3>1 DEF Program, Waiting
    <3>3. NextEntry(t) \in Entry
      <4>1. head[t] \subseteq Entry
        BY DEF RowsInv, TypeOK
      <4>2. head[t] # {} => The(head[t]) \in Entry
        BY <4>1, TheIsIn
      <4> QED BY <4>2 DEF NextEntry, Entry, Requests
    <3>4. newAudit' \in [Txns -> SUBSET Entry]
      BY <3>1, <3>3 DEF RowsInv, TypeOK
    <3> HIDE DEF next
    <3> QED BY <3>1, <3>2, <3>4, RowStatement DEF RowsInv, TypeOK, reads
  <2> QED BY <2>1, <2>2
<1>6. CASE LockVersions(t)
  <2>1. /\ pc[t] = "versionLock" /\ Goto(t, "versionMax")
        /\ locks' = [locks EXCEPT ![t] = @ \cup {VersionLock(exp(t))}]
        /\ UNCHANGED <<tables, req, reads, writes>>
    BY <1>6 DEF LockVersions
  <2>2. "versionMax" \in Program(op(t)) /\ pc[t] \in Waiting \ {"insert"}
    BY <2>1 DEF RowsInv, OnProgram, Program, Ended, Waiting
  <2>3. locks' \in [Txns -> SUBSET ({AuditLock} \cup {VersionLock(e) : e \in Experiences})]
    BY <1>2, <2>1 DEF RowsInv, TypeOK
  <2> QED BY <1>1, <2>1, <2>2, <2>3, RowStatement DEF RowsInv, TypeOK, reads, writes
<1>7. CASE ReadVersionMax(t)
  <2>1. /\ pc[t] = "versionMax" /\ Goto(t, "versionInsert")
        /\ latest' = [latest EXCEPT ![t] = LatestNo(exp(t))]
        /\ UNCHANGED <<tables, req, seen, head, target, locks, writes>>
    BY <1>7 DEF ReadVersionMax
  <2>2. "versionInsert" \in Program(op(t)) /\ pc[t] \in Waiting \ {"insert"}
    BY <2>1 DEF RowsInv, OnProgram, Program, Ended, Waiting
  <2>3. latest' \in [Txns -> Nat]
    BY <1>2, <2>1, LatestIsNat DEF RowsInv, TypeOK
  <2> QED BY <1>1, <2>1, <2>2, <2>3, RowStatement DEF RowsInv, TypeOK, writes
<1>8. CASE InsertVersion(t)
  <2>1. CASE End(t, "versionClash")
    BY <1>0, <2>1, EndKeepsRows
  <2>2. CASE ~End(t, "versionClash")
    <3>1. /\ pc[t] = "versionInsert" /\ Goto(t, "commit")
          /\ newVersion' = [newVersion EXCEPT ![t] = {NextVersion(t)}]
          /\ UNCHANGED <<tables, req, reads, locks, newRow, newAudit, newPubs>>
      BY <1>8, <2>2 DEF InsertVersion
    <3>2. "commit" \in Program(op(t)) /\ pc[t] \in Waiting \ {"insert"}
      BY <3>1 DEF Program, Waiting
    <3>3. Returned(t) \in Row
      <4>1. newRow[t] # {} \/ seen[t] # {}
        BY <3>2 DEF RowsInv, ReadsRow, WritesRow
      <4>2. newRow[t] \subseteq Row /\ seen[t] \subseteq Row
        BY DEF RowsInv, TypeOK
      <4> QED BY <4>1, <4>2, TheIsIn DEF Returned
    <3>4. NextVersion(t) \in Version
      BY <1>2, <3>3 DEF NextVersion, Version, Row, RowsInv, TypeOK, Requests
    <3>5. newVersion' \in [Txns -> SUBSET Version]
      BY <3>1, <3>4 DEF RowsInv, TypeOK
    <3> QED BY <1>1, <3>1, <3>2, <3>5, RowStatement DEF RowsInv, TypeOK, reads
  <2> QED BY <2>1, <2>2
<1> QED BY <1>3, <1>4, <1>5, <1>6, <1>7, <1>8 DEF AppendAudit, AppendVersion

\* COMMIT replaces the row by the one written: an experience stays one row.
LEMMA CommitKeepsRows == ASSUME RowsInv, NEW t \in Txns, Commit(t) PROVE RowsInv'
<1>1. /\ pc' = [pc EXCEPT ![t] = "ok"] /\ Release(t) /\ UNCHANGED req
      /\ rows' = {r \in rows : \A w \in newRow[t] : w.exp # r.exp} \cup newRow[t]
  BY DEF Commit
<1>2. /\ rows' \subseteq Row /\ versions' \subseteq Version /\ audit' \subseteq Entry
      /\ publications' \subseteq Publication
  BY DEF Commit, RowsInv, TypeOK
<1>3. TypeOK'
  BY <1>1, <1>2 DEF RowsInv, TypeOK, Release, Ended, AuditLock, VersionLock
<1>4. /\ pc'[t] = "ok" /\ seen'[t] = {} /\ newRow'[t] = {}
      /\ \A u \in Txns \ {t} : /\ pc'[u] = pc[u] /\ seen'[u] = seen[u]
                               /\ target'[u] = target[u] /\ newRow'[u] = newRow[u]
  BY <1>1 DEF RowsInv, TypeOK, Release
<1>5. \A u \in Txns : exp(u)' = exp(u) /\ op(u)' = op(u)
  BY <1>1 DEF exp, op
<1>6. \A r, s \in rows' : r.exp = s.exp => r = s
  BY <1>1 DEF RowsInv, ReadsRow, WritesRow
<1>7. \A u \in Txns : Found(u) # {} => Found(u)' # {}
  <2> SUFFICES ASSUME NEW u \in Txns, NEW r \in rows, r.exp = exp(u)
               PROVE  \E s \in rows' : s.exp = exp(u)
    BY <1>5 DEF Found
  <2>1. CASE \E w \in newRow[t] : w.exp = r.exp
    BY <1>1, <2>1
  <2>2. CASE \A w \in newRow[t] : w.exp # r.exp
    BY <1>1, <2>2
  <2> QED BY <2>1, <2>2
<1>8. "ok" \in Ended /\ "ok" \notin Waiting
  BY DEF Ended, Waiting
<1>9. OnProgram'
  BY <1>4, <1>5, <1>8 DEF RowsInv, OnProgram
<1>10. ReadsRow'
  BY <1>4, <1>5, <1>6, <1>7, <1>8 DEF RowsInv, ReadsRow
<1>11. WritesRow'
  BY <1>4, <1>5, <1>8 DEF RowsInv, WritesRow
<1> QED BY <1>3, <1>9, <1>10, <1>11 DEF RowsInv

LEMMA RowsStep == ASSUME RowsInv, Histories, [Next]_vars PROVE RowsInv'
<1>1. CASE UNCHANGED vars
  <2>1. /\ UNCHANGED <<pc, req, locks, rows, versions, audit, publications>>
        /\ UNCHANGED <<seen, latest, head, target, newRow, newVersion, newAudit, newPubs>>
    BY <1>1 DEF vars, tables, reads, writes
  <2>2. TypeOK'
    BY <2>1 DEF RowsInv, TypeOK, AuditLock, VersionLock
  <2>3. OnProgram'
    BY <2>1 DEF RowsInv, OnProgram, op, exp
  <2>4. ReadsRow'
    BY <2>1 DEF RowsInv, ReadsRow, Found, op, exp
  <2>5. WritesRow'
    BY <2>1 DEF RowsInv, WritesRow, op, exp
  <2> QED BY <2>2, <2>3, <2>4, <2>5 DEF RowsInv
<1>2. ASSUME NEW t \in Txns, Find(t) \/ Statement(t) \/ Lose(t) PROVE RowsInv'
  <2>1. CASE Lose(t)
    BY <2>1, EndKeepsRows DEF Lose, Ended
  <2> QED BY <1>2, <2>1, FindKeepsRows, WriteRowKeepsRows, PublishKeepsRows, AppendKeepsRows,
             CommitKeepsRows DEF Statement
<1> QED BY <1>1, <1>2 DEF Next

\* Rows, versions, audit entries and publications keep their types, and what a
\* handler dereferences is there when it does.
THEOREM CatalogTypes == Spec => []TypeOK
<1>1. Init => AuditInv /\ VersionsInv /\ RowsInv
  BY AuditInit, VersionsInit, RowsInit, TxnsAssumption, SeedAssumption
<1>2. AuditInv /\ VersionsInv /\ RowsInv /\ [Next]_vars => AuditInv' /\ VersionsInv' /\ RowsInv'
  BY AuditStep, VersionsStep, RowsStep, TxnsAssumption DEF AuditInv, VersionsInv
<1>3. RowsInv => TypeOK
  BY DEF RowsInv
<1> QED BY <1>1, <1>2, <1>3, PTL DEF Spec

----------------------------------------------------------------------------
(* Publications: the unique index, and the row locks of their UPDATEs.     *)

\* A publication's id is that of the request that inserted it, once.
OneRowPerId ==
    /\ \A p, q \in publications : p.id = q.id => p = q
    /\ \A t \in Txns : \A p, q \in newPubs[t] : p.id = q.id => p = q
    /\ \A t \in Txns : pc[t] # "ok" => \A p \in publications : p.id # t

\* What a transaction has written is a new row, or an active one that it alone
\* has locked; before its INSERT it has only deactivated rows.
PendingPubs ==
    \A t \in Txns :
        /\ \A q \in newPubs[t] : \/ q.id = t /\ pc[t] # "pubInsert"
                                 \/ \E p \in Active : p.id = q.id /\ p.exp = q.exp
        /\ \A u \in Txns \ {t} : \A q \in newPubs[t], r \in newPubs[u] : q.id # r.id
        /\ pc[t] = "pubInsert" => \A q \in newPubs[t] : ~q.active

\* The active row a transaction is to commit replaces the one there is, and no
\* other transaction has one for the same experience.
ActiveIsReserved ==
    \A t \in Txns : \A q \in newPubs[t] : q.active =>
        /\ \A p \in Active : p.exp = q.exp => \E r \in newPubs[t] : r.id = p.id
        /\ \A r \in newPubs[t] : r.active /\ r.exp = q.exp => r = q
        /\ \A u \in Txns \ {t} : \A r \in newPubs[u] : r.exp = q.exp => ~r.active

\* The rows an UPDATE found at its start are still rows of the same experience.
ScannedExist ==
    \A t \in Txns : pc[t] = "recheck" =>
        \A q \in target[t] : q.exp = exp(t) /\ \E p \in publications : p.id = q.id /\ p.exp = q.exp

PubsInv ==
    /\ DOMAIN target = Txns /\ DOMAIN newPubs = Txns
    /\ OneRowPerId /\ PendingPubs /\ ActiveIsReserved /\ ScannedExist /\ OneActivePublication

LEMMA PubsInit == Init => PubsInv
BY DEF Init, PubsInv, OneRowPerId, PendingPubs, ActiveIsReserved, ScannedExist,
       OneActivePublication, Active

\* A step of t that writes no publication, and is not one of the UPDATE's.
LEMMA OwnPubStep ==
    ASSUME PubsInv, NEW t \in Txns, UNCHANGED <<publications, req>>,
           DOMAIN target' = Txns, DOMAIN newPubs' = Txns,
           \A u \in Txns \ {t} : /\ pc'[u] = pc[u] /\ target'[u] = target[u]
                                 /\ newPubs'[u] = newPubs[u],
           pc[t] # "ok", pc'[t] # "pubInsert",
           pc'[t] = "recheck" =>
               \A q \in target'[t] : q.exp = exp(t) /\ \E p \in publications : p.id = q.id /\ p.exp = q.exp,
           newPubs'[t] = newPubs[t] \/ newPubs'[t] = {}
    PROVE  PubsInv'
<1>1. Active' = Active
  BY DEF Active
<1>2. \A u \in Txns : newPubs'[u] \subseteq newPubs[u] /\ exp(u)' = exp(u)
  BY DEF exp
<1>3. OneRowPerId'
  BY <1>2 DEF PubsInv, OneRowPerId
<1>4. PendingPubs'
  <2> SUFFICES ASSUME NEW u \in Txns
      PROVE  /\ \A q \in newPubs'[u] : \/ q.id = u /\ pc'[u] # "pubInsert"
                                       \/ \E p \in Active : p.id = q.id /\ p.exp = q.exp
             /\ \A w \in Txns \ {u} : \A q \in newPubs'[u], r \in newPubs'[w] : q.id # r.id
             /\ pc'[u] = "pubInsert" => \A q \in newPubs'[u] : ~q.active
    BY <1>1 DEF PendingPubs
  <2>1. \A w \in Txns \ {u} : \A q \in newPubs'[u], r \in newPubs'[w] : q.id # r.id
    BY <1>2 DEF PubsInv, PendingPubs
  <2>2. CASE u = t
    BY <1>2, <2>1, <2>2 DEF PubsInv, PendingPubs
  <2>3. CASE u # t
    BY <2>1, <2>3 DEF PubsInv, PendingPubs
  <2> QED BY <2>2, <2>3
<1>5. ActiveIsReserved'
  <2> SUFFICES ASSUME NEW u \in Txns, NEW q \in newPubs'[u], q.active
      PROVE  /\ \A p \in Active : p.exp = q.exp => \E r \in newPubs'[u] : r.id = p.id
             /\ \A r \in newPubs'[u] : r.active /\ r.exp = q.exp => r = q
             /\ \A w \in Txns \ {u} : \A r \in newPubs'[w] : r.exp = q.exp => ~r.active
    BY <1>1 DEF ActiveIsReserved
  <2>1. q \in newPubs[u] /\ newPubs'[u] = newPubs[u]
    BY <1>2
  <2> QED BY <1>2, <2>1 DEF PubsInv, ActiveIsReserved
<1>6. ScannedExist'
  <2> SUFFICES ASSUME NEW u \in Txns, pc'[u] = "recheck", NEW q \in target'[u]
               PROVE  q.exp = exp(u) /\ \E p \in publications : p.id = q.id /\ p.exp = q.exp
    BY <1>2 DEF ScannedExist
  <2> QED BY DEF PubsInv, ScannedExist
<1>7. OneActivePublication'
  BY <1>1 DEF PubsInv, OneActivePublication
<1> QED BY <1>3, <1>4, <1>5, <1>6, <1>7 DEF PubsInv

LEMMA EndKeepsPubs ==
    ASSUME Control, PubsInv, NEW t \in Txns, pc[t] # "ok", NEW o \in Ended \ {"ok"}, End(t, o)
    PROVE  PubsInv'
<1>1. UNCHANGED <<publications, req>> /\ pc' = [pc EXCEPT ![t] = o] /\ Release(t)
  BY DEF End, tables
<1>2. /\ pc'[t] = o /\ newPubs'[t] = {}
      /\ DOMAIN target' = Txns /\ DOMAIN newPubs' = Txns
      /\ \A u \in Txns \ {t} : /\ pc'[u] = pc[u] /\ target'[u] = target[u]
                               /\ newPubs'[u] = newPubs[u]
  BY <1>1 DEF Control, PubsInv, Release
<1>3. o # "pubInsert" /\ o # "recheck"
  BY DEF Ended
<1> QED BY <1>1, <1>2, <1>3, OwnPubStep

\* A statement that is not of table experience_publications.
LEMMA OtherStatement ==
    ASSUME Control, PubsInv, NEW t \in Txns, NEW next \in Waiting \ {"recheck", "pubInsert"},
           pc[t] # "ok", Goto(t, next), UNCHANGED <<publications, req, newPubs>>,
           DOMAIN target' = Txns, \A u \in Txns \ {t} : target'[u] = target[u]
    PROVE  PubsInv'
<1>1. pc'[t] = next /\ \A u \in Txns \ {t} : pc'[u] = pc[u]
  BY DEF Control, Goto
<1>2. DOMAIN newPubs' = Txns
  BY DEF PubsInv
<1> QED BY <1>1, <1>2, OwnPubStep

LEMMA RestKeepsPubs ==
    ASSUME Control, PubsInv, NEW t \in Txns,
           Find(t) \/ WriteRow(t) \/ AppendAudit(t) \/ AppendVersion(t) \/ Lose(t)
    PROVE  PubsInv'
<1> USE DEF reads, writes, tables
<1>1. {"refused", "missing", "clash", "auditClash", "versionClash", "lost"} \subseteq Ended \ {"ok"}
  BY DEF Ended
<1>2. Waiting \ {"recheck", "pubInsert"} =
          {"update", "insert", "snapshot", "latest", "scan", "reread", "auditLock", "auditHead",
           "auditInsert", "versionLock", "versionMax", "versionInsert", "commit"}
  BY DEF Waiting
<1>3. DOMAIN target = Txns
  BY DEF PubsInv
<1>4. ASSUME NEW o \in Ended \ {"ok"}, End(t, o), pc[t] # "ok" PROVE PubsInv'
  BY <1>4, EndKeepsPubs
<1>5. CASE Find(t)
  <2>1. CASE FindForCreate(t)
    <3>1. CASE End(t, "refused")
      BY <1>1, <1>4, <2>1, <3>1 DEF FindForCreate
    <3>2. CASE ~End(t, "refused")
      BY <1>2, <1>3, <2>1, <3>2, OtherStatement DEF FindForCreate
    <3> QED BY <3>1, <3>2
  <2>2. CASE FindMissing(t)
    BY <1>1, <1>4, <2>2 DEF FindMissing
  <2>3. CASE FindRefused(t)
    BY <1>1, <1>4, <2>3 DEF FindRefused
  <2>4. CASE FindRow(t)
    <3>1. First(op(t)) \in Waiting \ {"recheck", "pubInsert"}
      BY <1>2 DEF First
    <3> QED BY <1>3, <2>4, <3>1, OtherStatement DEF FindRow
  <2> QED BY <1>5, <2>1, <2>2, <2>3, <2>4 DEF Find
<1>6. CASE WriteRow(t)
  <2>1. CASE Reread(t)
    BY <1>2, <1>3, <2>1, OtherStatement DEF Reread
  <2>2. CASE Insert(t)
    <3>1. CASE End(t, "clash")
      BY <1>1, <1>4, <2>2, <3>1 DEF Insert
    <3>2. CASE ~End(t, "clash")
      BY <1>2, <1>3, <2>2, <3>2, OtherStatement DEF Insert
    <3> QED BY <3>1, <3>2
  <2>3. CASE Snapshot(t)
    <3>1. CASE End(t, "missing")
      BY <1>1, <1>4, <2>3, <3>1 DEF Snapshot
    <3>2. CASE ~End(t, "missing")
      <4>1. /\ pc[t] = "snapshot" /\ Goto(t, "update")
            /\ UNCHANGED <<publications, req, newPubs>>
            /\ DOMAIN target' = Txns /\ \A u \in Txns \ {t} : target'[u] = target[u]
        BY <1>3, <2>3, <3>2 DEF Snapshot
      <4> QED BY <1>2, <4>1, OtherStatement
    <3> QED BY <3>1, <3>2
  <2>4. CASE Update(t)
    BY <1>2, <1>3, <2>4, OtherStatement DEF Update
  <2>5. CASE UpdateMisses(t)
    BY <1>1, <1>4, <2>5 DEF UpdateMisses
  <2> QED BY <1>6, <2>1, <2>2, <2>3, <2>4, <2>5 DEF WriteRow
<1>7. CASE AppendAudit(t)
  <2>1. CASE LockAudit(t)
    BY <1>2, <1>3, <2>1, OtherStatement DEF LockAudit
  <2>2. CASE ReadHead(t)
    BY <1>2, <1>3, <2>2, OtherStatement DEF ReadHead
  <2>3. CASE InsertAudit(t)
    <3>1. CASE End(t, "auditClash")
      BY <1>1, <1>4, <2>3, <3>1 DEF InsertAudit
    <3>2. CASE ~End(t, "auditClash")
      <4> DEFINE next == IF Versioned(op(t)) THEN "versionLock" ELSE "commit"
      <4>1. next \in Waiting \ {"recheck", "pubInsert"}
        BY <1>2
      <4>2. /\ pc[t] = "auditInsert" /\ Goto(t, next)
            /\ UNCHANGED <<publications, req, target, newPubs>>
        BY <2>3, <3>2 DEF InsertAudit
      <4> HIDE DEF next
      <4> QED BY <1>3, <4>1, <4>2, OtherStatement
    <3> QED BY <3>1, <3>2
  <2> QED BY <1>7, <2>1, <2>2, <2>3 DEF AppendAudit
<1>8. CASE AppendVersion(t)
  <2>1. CASE LockVersions(t)
    BY <1>2, <1>3, <2>1, OtherStatement DEF LockVersions
  <2>2. CASE ReadVersionMax(t)
    BY <1>2, <1>3, <2>2, OtherStatement DEF ReadVersionMax
  <2>3. CASE InsertVersion(t)
    <3>1. CASE End(t, "versionClash")
      BY <1>1, <1>4, <2>3, <3>1 DEF InsertVersion
    <3>2. CASE ~End(t, "versionClash")
      BY <1>2, <1>3, <2>3, <3>2, OtherStatement DEF InsertVersion
    <3> QED BY <3>1, <3>2
  <2> QED BY <1>8, <2>1, <2>2, <2>3 DEF AppendVersion
<1>9. CASE Lose(t)
  BY <1>1, <1>4, <1>9 DEF Lose, Waiting
<1> QED BY <1>5, <1>6, <1>7, <1>8, <1>9

\* The UPDATE replaces active rows that no other transaction has locked, so that
\* no other can have reserved their experience.
LEMMA RecheckKeepsPubs ==
    ASSUME RowsInv, PubsInv, NEW t \in Txns, Recheck(t)
    PROVE  PubsInv'
<1> DEFINE next == IF op(t) = "publish" THEN "pubInsert" ELSE "auditLock"
           N == {Changed(t, p) : p \in StillActive(t)}
<1>1. /\ pc[t] = "recheck" /\ \A p \in target[t] : PubFree(t, p)
      /\ newPubs' = [newPubs EXCEPT ![t] = N] /\ pc' = [pc EXCEPT ![t] = next]
      /\ UNCHANGED <<publications, req, target>>
  BY DEF Recheck, Goto, tables, reads
<1>2. ASSUME NEW p \in StillActive(t)
      PROVE  /\ p \in Active /\ p.exp = exp(t)
             /\ \A u \in Txns \ {t} : \A r \in newPubs[u] : r.id # p.id
  <2>1. PICK q \in target[t] : q.id = p.id
    BY DEF StillActive
  <2>2. p \in Active /\ p \in publications
    BY DEF StillActive, Active
  <2>3. p.exp = exp(t)
    BY <1>1, <2>1, <2>2 DEF PubsInv, ScannedExist, OneRowPerId
  <2>4. \A u \in Txns \ {t} : \A r \in newPubs[u] : r.id # p.id
    BY <1>1, <2>1 DEF PubFree
  <2> QED BY <2>2, <2>3, <2>4
<1>3. \A p, q \in StillActive(t) : p = q
  BY <1>2 DEF PubsInv, OneActivePublication
<1>4. ASSUME NEW q \in N
      PROVE  \E p \in StillActive(t) : /\ p.id = q.id /\ p.exp = q.exp
                                       /\ op(t) = "publish" => ~q.active
  <2>1. PICK p \in StillActive(t) : q = Changed(t, p)
    OBVIOUS
  <2>2. p \in Publication
    BY DEF StillActive, Active, RowsInv, TypeOK
  <2>3. q.id = p.id /\ q.exp = p.exp /\ (op(t) = "publish" => ~q.active)
    BY <2>1, <2>2 DEF Changed, Publication
  <2> QED BY <2>3
<1>5. \A p, q \in N : p = q
  BY <1>3
<1> HIDE DEF N
<1>6. /\ pc'[t] = next /\ newPubs'[t] = N /\ Active' = Active
      /\ \A u \in Txns \ {t} : pc'[u] = pc[u] /\ newPubs'[u] = newPubs[u]
  BY <1>1 DEF RowsInv, TypeOK, Active
<1>7. next # "recheck" /\ (next = "pubInsert" => op(t) = "publish")
  OBVIOUS
<1> HIDE DEF next
<1>8. OneRowPerId'
  BY <1>1, <1>5, <1>6 DEF PubsInv, OneRowPerId
<1>9. PendingPubs'
  <2>1. \A q \in N : \E p \in Active : p.id = q.id /\ p.exp = q.exp
    BY <1>2, <1>4
  <2>2. \A u \in Txns \ {t} : \A q \in N, r \in newPubs[u] : q.id # r.id
    BY <1>2, <1>4
  <2>3. next = "pubInsert" => \A q \in N : ~q.active
    BY <1>4, <1>7
  <2> QED BY <1>6, <2>1, <2>2, <2>3 DEF PubsInv, PendingPubs
<1>10. ActiveIsReserved'
  <2>1. \A u \in Txns \ {t} : \A q \in N, r \in newPubs[u] : r.active => r.exp # q.exp
    <3> SUFFICES ASSUME NEW u \in Txns \ {t}, NEW q \in N, NEW r \in newPubs[u],
                        r.active, r.exp = q.exp
                 PROVE  FALSE
      OBVIOUS
    <3>1. PICK p \in StillActive(t) : p.id = q.id /\ p.exp = q.exp
      BY <1>4
    <3>2. \E x \in newPubs[u] : x.id = p.id
      BY <1>2, <3>1 DEF PubsInv, ActiveIsReserved
    <3> QED BY <1>2, <3>2
  <2>2. ASSUME NEW q \in N, NEW p \in Active, p.exp = q.exp PROVE \E r \in N : r.id = p.id
    <3>1. PICK x \in StillActive(t) : x.id = q.id /\ x.exp = q.exp
      BY <1>4
    <3>2. x = p
      BY <1>2, <2>2, <3>1 DEF PubsInv, OneActivePublication
    <3> QED BY <3>1, <3>2
  <2>3. ASSUME NEW u \in Txns, NEW q \in newPubs'[u], q.active
        PROVE  /\ \A p \in Active : p.exp = q.exp => \E r \in newPubs'[u] : r.id = p.id
               /\ \A r \in newPubs'[u] : r.active /\ r.exp = q.exp => r = q
               /\ \A w \in Txns \ {u} : \A r \in newPubs'[w] : r.exp = q.exp => ~r.active
    <3>1. CASE u = t
      BY <1>5, <1>6, <2>1, <2>2, <3>1
    <3>2. CASE u # t
      <4>1. \A w \in Txns \ {u, t} : \A r \in newPubs'[w] : r.exp = q.exp => ~r.active
        BY <1>6, <2>3, <3>2 DEF PubsInv, ActiveIsReserved
      <4>2. \A r \in newPubs'[t] : r.exp # q.exp
        BY <1>6, <2>1, <2>3, <3>2
      <4> QED BY <1>6, <2>3, <3>2, <4>1, <4>2 DEF PubsInv, ActiveIsReserved
    <3> QED BY <3>1, <3>2
  <2> QED BY <1>6, <2>3 DEF ActiveIsReserved
<1>11. ScannedExist'
  BY <1>1, <1>6, <1>7 DEF PubsInv, ScannedExist, exp
<1>12. OneActivePublication'
  BY <1>6 DEF PubsInv, OneActivePublication
<1>13. DOMAIN target' = Txns /\ DOMAIN newPubs' = Txns
  BY <1>1 DEF PubsInv
<1> QED BY <1>8, <1>9, <1>10, <1>11, <1>12, <1>13 DEF PubsInv

\* The UPDATE of a publisher and its INSERT, and the statements before them.
LEMMA PubInsertKeepsPubs ==
    ASSUME RowsInv, PubsInv, NEW t \in Txns, PubInsert(t), Rivals(t) = {}
    PROVE  PubsInv'
<1> DEFINE new == [id |-> t, exp |-> exp(t), no |-> latest[t],
                   content |-> The(seen[t]).content, key |-> t, active |-> TRUE]
<1>1. /\ pc[t] = "pubInsert" /\ pc' = [pc EXCEPT ![t] = "auditLock"]
      /\ newPubs' = [newPubs EXCEPT ![t] = @ \cup {new}]
      /\ UNCHANGED <<publications, req, target>>
  BY DEF PubInsert, Goto, tables, reads
<1>2. \A u \in Txns \ {t} : \A q \in newPubs[u] : q.exp = exp(t) => ~q.active
  BY DEF PubInsert
<1>3. new.id = t /\ new.exp = exp(t) /\ new.active
  OBVIOUS
<1> HIDE DEF new
<1>4. /\ pc'[t] = "auditLock" /\ newPubs'[t] = newPubs[t] \cup {new} /\ Active' = Active
      /\ \A u \in Txns \ {t} : pc'[u] = pc[u] /\ newPubs'[u] = newPubs[u]
  BY <1>1 DEF RowsInv, TypeOK, Active
<1>5. \A p \in publications : p.id # t
  BY <1>1 DEF PubsInv, OneRowPerId
<1>6. \A q \in newPubs[t] : /\ \E p \in Active : p.id = q.id /\ p.exp = q.exp
                            /\ ~q.active
  BY <1>1 DEF PubsInv, PendingPubs
<1>7. \A u \in Txns : \A q \in newPubs[u] : q.id # t
  BY <1>1, <1>5 DEF PubsInv, PendingPubs, Active
<1>8. OneRowPerId'
  BY <1>1, <1>3, <1>4, <1>7 DEF PubsInv, OneRowPerId
<1>9. PendingPubs'
  <2>1. \A q \in newPubs'[t] : \/ q.id = t
                               \/ \E p \in Active : p.id = q.id /\ p.exp = q.exp
    BY <1>3, <1>4, <1>6
  <2>2. \A u \in Txns : \A w \in Txns \ {u} : \A q \in newPubs'[u], r \in newPubs'[w] : q.id # r.id
    BY <1>3, <1>4, <1>7 DEF PubsInv, PendingPubs
  <2> QED BY <1>4, <2>1, <2>2 DEF PubsInv, PendingPubs
<1>10. ActiveIsReserved'
  <2>1. \A p \in Active : p.exp = exp(t) => \E r \in newPubs'[t] : r.id = p.id
    BY <1>4 DEF Rivals
  <2>2. ASSUME NEW u \in Txns, NEW q \in newPubs'[u], q.active
        PROVE  /\ \A p \in Active : p.exp = q.exp => \E r \in newPubs'[u] : r.id = p.id
               /\ \A r \in newPubs'[u] : r.active /\ r.exp = q.exp => r = q
               /\ \A w \in Txns \ {u} : \A r \in newPubs'[w] : r.exp = q.exp => ~r.active
    <3>1. CASE u = t
      <4>1. q = new
        BY <1>4, <1>6, <2>2, <3>1
      <4> QED BY <1>2, <1>3, <1>4, <1>6, <2>1, <3>1, <4>1
    <3>2. CASE u # t
      <4>1. \A r \in newPubs'[t] : r.exp = q.exp => ~r.active
        BY <1>2, <1>3, <1>4, <1>6, <2>2, <3>2
      <4>2. q \in newPubs[u]
        BY <1>4, <3>2
      <4>3. /\ \A p \in Active : p.exp = q.exp => \E r \in newPubs[u] : r.id = p.id
            /\ \A r \in newPubs[u] : r.active /\ r.exp = q.exp => r = q
            /\ \A w \in Txns \ {u} : \A r \in newPubs[w] : r.exp = q.exp => ~r.active
        BY <2>2, <4>2 DEF PubsInv, ActiveIsReserved
      <4> QED BY <1>4, <3>2, <4>1, <4>3
    <3> QED BY <3>1, <3>2
  <2> QED BY <1>4, <2>2 DEF ActiveIsReserved
<1>11. ScannedExist'
  BY <1>1, <1>4 DEF PubsInv, ScannedExist, exp
<1>12. OneActivePublication'
  BY <1>4 DEF PubsInv, OneActivePublication
<1>13. DOMAIN target' = Txns /\ DOMAIN newPubs' = Txns
  BY <1>1 DEF PubsInv
<1> QED BY <1>8, <1>9, <1>10, <1>11, <1>12, <1>13 DEF PubsInv

LEMMA PublishKeepsPubs ==
    ASSUME Control, RowsInv, PubsInv, NEW t \in Txns, Publish(t)
    PROVE  PubsInv'
<1> USE DEF reads, writes, tables
<1>1. {"refused", "clash"} \subseteq Ended \ {"ok"}
  BY DEF Ended
<1>2. DOMAIN target = Txns /\ DOMAIN newPubs = Txns
  BY DEF PubsInv
<1>3. CASE Latest(t)
  <2>1. "scan" \in Waiting \ {"recheck", "pubInsert"}
    BY DEF Waiting
  <2> QED BY <1>2, <1>3, <2>1, OtherStatement DEF Latest
<1>4. CASE Scan(t)
  <2>1. /\ pc[t] = "scan" /\ pc' = [pc EXCEPT ![t] = "recheck"]
        /\ target' = [target EXCEPT ![t] = {p \in Active : p.exp = exp(t)}]
        /\ UNCHANGED <<publications, req, newPubs>>
    BY <1>4 DEF Scan, Goto
  <2>2. /\ pc'[t] = "recheck" /\ target'[t] = {p \in Active : p.exp = exp(t)}
        /\ \A u \in Txns \ {t} : pc'[u] = pc[u] /\ target'[u] = target[u]
        /\ DOMAIN target' = Txns /\ DOMAIN newPubs' = Txns
    BY <1>2, <2>1 DEF Control
  <2>3. \A q \in target'[t] : q.exp = exp(t) /\ q \in publications
    BY <2>2 DEF Active
  <2> QED BY <2>1, <2>2, <2>3, OwnPubStep
<1>5. CASE Recheck(t)
  BY <1>5, RecheckKeepsPubs
<1>6. CASE RecheckRefused(t)
  BY <1>1, <1>6, EndKeepsPubs DEF RecheckRefused
<1>7. CASE PubInsert(t)
  <2>1. CASE Rivals(t) = {}
    BY <1>7, <2>1, PubInsertKeepsPubs
  <2>2. CASE Rivals(t) # {}
    BY <1>1, <1>7, <2>2, EndKeepsPubs DEF PubInsert
  <2> QED BY <2>1, <2>2
<1> QED BY <1>3, <1>4, <1>5, <1>6, <1>7 DEF Publish

\* COMMIT puts the pending rows in the place of those with their ids.
LEMMA CommitKeepsPubs ==
    ASSUME RowsInv, PubsInv, NEW t \in Txns, Commit(t)
    PROVE  PubsInv'
<1> DEFINE Kept == {p \in publications : \A q \in newPubs[t] : q.id # p.id}
<1>1. /\ pc[t] = "commit" /\ pc' = [pc EXCEPT ![t] = "ok"]
      /\ publications' = Kept \cup newPubs[t] /\ Release(t) /\ UNCHANGED req
  BY DEF Commit
<1>2. /\ pc'[t] = "ok" /\ newPubs'[t] = {}
      /\ DOMAIN target' = Txns /\ DOMAIN newPubs' = Txns
      /\ \A u \in Txns \ {t} : /\ pc'[u] = pc[u] /\ target'[u] = target[u]
                               /\ newPubs'[u] = newPubs[u]
  BY <1>1 DEF RowsInv, TypeOK, Release
<1>3. /\ \A p, q \in publications : p.id = q.id => p = q
      /\ \A p, q \in newPubs[t] : p.id = q.id => p = q
  BY DEF PubsInv, OneRowPerId
<1>4. \A q \in newPubs[t] : q.id = t \/ \E p \in Active : p.id = q.id /\ p.exp = q.exp
  BY DEF PubsInv, PendingPubs
<1>5. \A q \in newPubs[t] : q.active =>
          /\ \A p \in Active : p.exp = q.exp => p \notin Kept
          /\ \A r \in newPubs[t] : r.active /\ r.exp = q.exp => r = q
          /\ \A u \in Txns \ {t} : \A r \in newPubs[u] : r.exp = q.exp => ~r.active
  BY DEF PubsInv, ActiveIsReserved
<1>6. OneRowPerId'
  <2>1. (\A p, q \in publications : p.id = q.id => p = q)'
    BY <1>1, <1>3
  <2>2. \A u \in Txns : pc'[u] # "ok" => \A p \in publications' : p.id # u
    BY <1>1, <1>2, <1>4 DEF PubsInv, OneRowPerId, Active
  <2>3. \A u \in Txns : \A p, q \in newPubs'[u] : p.id = q.id => p = q
    BY <1>2 DEF PubsInv, OneRowPerId
  <2> QED BY <2>1, <2>2, <2>3 DEF OneRowPerId
<1>7. \A p, q \in publications' : p.active /\ q.active /\ p.exp = q.exp => p = q
  <2> SUFFICES ASSUME NEW p \in publications', NEW q \in publications',
                      p.active, q.active, p.exp = q.exp
               PROVE  p = q
    OBVIOUS
  <2>1. CASE p \in Kept /\ q \in Kept
    BY <2>1 DEF PubsInv, OneActivePublication, Active
  <2>2. CASE p \in newPubs[t] /\ q \in newPubs[t]
    BY <1>5, <2>2
  <2>3. CASE p \in Kept /\ q \in newPubs[t]
    BY <1>5, <2>3 DEF Active
  <2>4. CASE p \in newPubs[t] /\ q \in Kept
    BY <1>5, <2>4 DEF Active
  <2> QED BY <1>1, <2>1, <2>2, <2>3, <2>4
<1>8. PendingPubs'
  <2>1. ASSUME NEW u \in Txns \ {t}, NEW q \in newPubs[u],
               NEW p \in Active, p.id = q.id, p.exp = q.exp
        PROVE  p \in Active'
    <3>1. p \in Kept
      BY <2>1 DEF PubsInv, PendingPubs, Active
    <3> QED BY <1>1, <3>1 DEF Active
  <2>2. \A u \in Txns : \A w \in Txns \ {u} : \A q \in newPubs'[u], r \in newPubs'[w] : q.id # r.id
    BY <1>2 DEF PubsInv, PendingPubs
  <2>3. ASSUME NEW u \in Txns \ {t}, NEW q \in newPubs[u]
        PROVE  \/ q.id = u /\ pc[u] # "pubInsert"
               \/ \E p \in Active' : p.id = q.id /\ p.exp = q.exp
    BY <2>1 DEF PubsInv, PendingPubs
  <2>4. \A u \in Txns \ {t} : pc[u] = "pubInsert" => \A q \in newPubs[u] : ~q.active
    BY DEF PubsInv, PendingPubs
  <2>5. ASSUME NEW u \in Txns
        PROVE  /\ \A q \in newPubs'[u] : \/ q.id = u /\ pc'[u] # "pubInsert"
                                         \/ \E p \in Active' : p.id = q.id /\ p.exp = q.exp
               /\ pc'[u] = "pubInsert" => \A q \in newPubs'[u] : ~q.active
    <3>1. CASE u = t
      BY <1>2, <3>1
    <3>2. CASE u # t
      BY <1>2, <2>3, <2>4, <3>2
    <3> QED BY <3>1, <3>2
  <2> QED BY <2>2, <2>5 DEF PendingPubs
<1>9. ActiveIsReserved'
  <2> SUFFICES ASSUME NEW u \in Txns, NEW q \in newPubs'[u], q.active
      PROVE  /\ \A p \in Active' : p.exp = q.exp => \E r \in newPubs'[u] : r.id = p.id
             /\ \A r \in newPubs'[u] : r.active /\ r.exp = q.exp => r = q
             /\ \A w \in Txns \ {u} : \A r \in newPubs'[w] : r.exp = q.exp => ~r.active
    BY DEF ActiveIsReserved
  <2>1. u # t /\ q \in newPubs[u] /\ newPubs'[u] = newPubs[u]
    BY <1>2
  <2>2. /\ \A p \in Active : p.exp = q.exp => \E r \in newPubs[u] : r.id = p.id
        /\ \A r \in newPubs[u] : r.active /\ r.exp = q.exp => r = q
        /\ \A w \in Txns \ {u} : \A r \in newPubs[w] : r.exp = q.exp => ~r.active
    BY <2>1 DEF PubsInv, ActiveIsReserved
  <2>3. \A p \in Active' : p.exp = q.exp => p \in Active
    BY <1>1, <2>1, <2>2 DEF Active
  <2>4. \A w \in Txns \ {u} : newPubs'[w] \subseteq newPubs[w]
    BY <1>2
  <2> QED BY <2>1, <2>2, <2>3, <2>4
<1>10. ScannedExist'
  <2>1. \A p \in publications : \E x \in publications' : x.id = p.id /\ x.exp = p.exp
    <3> SUFFICES ASSUME NEW p \in publications, p \notin Kept
                 PROVE  \E x \in publications' : x.id = p.id /\ x.exp = p.exp
      BY <1>1
    <3>1. PICK x \in newPubs[t] : x.id = p.id
      OBVIOUS
    <3>2. \A y \in publications : y.id # t
      BY <1>1 DEF PubsInv, OneRowPerId
    <3>3. PICK y \in Active : y.id = x.id /\ y.exp = x.exp
      BY <1>4, <3>1, <3>2
    <3>4. y = p
      BY <1>3, <3>1, <3>3 DEF Active
    <3> QED BY <1>1, <3>1, <3>3, <3>4
  <2>2. \A u \in Txns : exp(u)' = exp(u)
    BY <1>1 DEF exp
  <2> SUFFICES ASSUME NEW u \in Txns, pc'[u] = "recheck", NEW q \in target'[u]
               PROVE  q.exp = exp(u) /\ \E p \in publications' : p.id = q.id /\ p.exp = q.exp
    BY <2>2 DEF ScannedExist
  <2>3. u # t /\ pc[u] = "recheck" /\ q \in target[u]
    BY <1>2
  <2>4. q.exp = exp(u) /\ \E p \in publications : p.id = q.id /\ p.exp = q.exp
    BY <2>3 DEF PubsInv, ScannedExist
  <2> QED BY <2>1, <2>4
<1>11. OneActivePublication'
  BY <1>7 DEF OneActivePublication, Active
<1> QED BY <1>2, <1>6, <1>8, <1>9, <1>10, <1>11 DEF PubsInv

LEMMA PubsStep == ASSUME Control, RowsInv, PubsInv, [Next]_vars PROVE PubsInv'
<1>1. CASE UNCHANGED vars
  BY <1>1 DEF vars, tables, reads, writes, PubsInv, OneRowPerId, PendingPubs, ActiveIsReserved,
              ScannedExist, OneActivePublication, Active, exp
<1>2. CASE \E t \in Txns : Find(t) \/ Statement(t) \/ Lose(t)
  BY <1>2, RestKeepsPubs, PublishKeepsPubs, CommitKeepsPubs DEF Statement
<1> QED BY <1>1, <1>2 DEF Next

\* However publishers, unpublishers and key rotations overlap, an experience has
\* at most one active publication.
THEOREM OnePublicationIsActive == Spec => []OneActivePublication
<1>1. Init => AuditInv /\ VersionsInv /\ RowsInv /\ PubsInv
  BY AuditInit, VersionsInit, RowsInit, PubsInit, TxnsAssumption, SeedAssumption
<1>2. AuditInv /\ VersionsInv /\ RowsInv /\ PubsInv /\ [Next]_vars =>
          AuditInv' /\ VersionsInv' /\ RowsInv' /\ PubsInv'
  BY AuditStep, VersionsStep, RowsStep, PubsStep, TxnsAssumption DEF AuditInv, VersionsInv
<1>3. PubsInv => OneActivePublication
  BY DEF PubsInv
<1> QED BY <1>1, <1>2, <1>3, PTL DEF Spec

----------------------------------------------------------------------------
(* What is published was approved: rows are never ahead of their versions. *)

HasVersion(e, c, s) == \E v \in versions : v.exp = e /\ v.content = c /\ v.state = s

\* A committed row has a version of its content and state; a pending one has, or
\* is committed with one.
RowsVersioned ==
    /\ \A r \in rows : HasVersion(r.exp, r.content, r.state)
    /\ \A t \in Txns : \A w \in newRow[t] :
           \/ HasVersion(w.exp, w.content, w.state)
           \/ /\ Versioned(op(t))
              /\ pc[t] = "commit" => \E v \in newVersion[t] :
                     v.exp = w.exp /\ v.content = w.content /\ v.state = w.state

\* Statements of a publisher between reading the row and inserting from it.
BeforePublication == {"latest", "scan", "recheck", "pubInsert"}

\* What a publisher read and what is published, or about to be, was approved.
PublishesApproved ==
    /\ \A t \in Txns : op(t) = "publish" /\ pc[t] \in BeforePublication =>
           \A r \in seen[t] : HasVersion(exp(t), r.content, "approved")
    /\ \A p \in publications : HasVersion(p.exp, p.content, "approved")
    /\ \A t \in Txns : \A p \in newPubs[t] : HasVersion(p.exp, p.content, "approved")

ApprovedInv == RowsVersioned /\ PublishesApproved

LEMMA ApprovedInit == Init => ApprovedInv
<1> SUFFICES ASSUME Init PROVE ApprovedInv
  OBVIOUS
<1> PICK s \in NewStates :
        /\ rows = {[exp |-> e, state |-> s, content |-> Seed, deleted |-> FALSE,
                    chain |-> <<>>] : e \in Seeded}
        /\ versions = {[exp |-> e, no |-> 1, content |-> Seed, state |-> s, by |-> Seed] :
                           e \in Seeded}
  BY DEF Init
<1>1. ASSUME NEW r \in rows PROVE HasVersion(r.exp, r.content, r.state)
  <2>1. PICK e \in Seeded : r = [exp |-> e, state |-> s, content |-> Seed, deleted |-> FALSE,
                                 chain |-> <<>>]
    OBVIOUS
  <2>2. [exp |-> e, no |-> 1, content |-> Seed, state |-> s, by |-> Seed] \in versions
    OBVIOUS
  <2> QED BY <2>1, <2>2 DEF HasVersion
<1>2. RowsVersioned
  BY <1>1 DEF Init, RowsVersioned
<1>3. PublishesApproved
  BY DEF Init, PublishesApproved, BeforePublication
<1> QED BY <1>2, <1>3 DEF ApprovedInv

\* A step of t that commits nothing.
LEMMA OwnApprovedStep ==
    ASSUME ApprovedInv, NEW t \in Txns, UNCHANGED <<rows, versions, publications, req>>,
           \A u \in Txns \ {t} : /\ pc'[u] = pc[u] /\ seen'[u] = seen[u]
                                 /\ newRow'[u] = newRow[u] /\ newVersion'[u] = newVersion[u]
                                 /\ newPubs'[u] = newPubs[u],
           \A w \in newRow'[t] :
               \/ HasVersion(w.exp, w.content, w.state)
               \/ /\ Versioned(op(t))
                  /\ pc'[t] = "commit" => \E v \in newVersion'[t] :
                         v.exp = w.exp /\ v.content = w.content /\ v.state = w.state,
           op(t) = "publish" /\ pc'[t] \in BeforePublication =>
               \A r \in seen'[t] : HasVersion(exp(t), r.content, "approved"),
           \A p \in newPubs'[t] : HasVersion(p.exp, p.content, "approved")
    PROVE  ApprovedInv'
<1>1. \A e, c, s : HasVersion(e, c, s)' = HasVersion(e, c, s)
  BY DEF HasVersion
<1>2. \A u \in Txns : op(u)' = op(u) /\ exp(u)' = exp(u) /\ Versioned(op(u))' = Versioned(op(u))
  BY DEF op, exp, Versioned
<1>3. RowsVersioned'
  <2>1. \A r \in rows' : HasVersion(r.exp, r.content, r.state)'
    BY <1>1 DEF ApprovedInv, RowsVersioned
  <2>2. ASSUME NEW u \in Txns, NEW w \in newRow'[u]
        PROVE  \/ HasVersion(w.exp, w.content, w.state)'
               \/ /\ Versioned(op(u))'
                  /\ pc'[u] = "commit" => \E v \in newVersion'[u] :
                         v.exp = w.exp /\ v.content = w.content /\ v.state = w.state
    <3>1. CASE u = t
      BY <1>1, <1>2, <3>1
    <3>2. CASE u # t
      BY <1>1, <1>2, <3>2 DEF ApprovedInv, RowsVersioned
    <3> QED BY <3>1, <3>2
  <2> QED BY <2>1, <2>2 DEF RowsVersioned
<1>4. PublishesApproved'
  <2>1. \A p \in publications' : HasVersion(p.exp, p.content, "approved")'
    BY <1>1 DEF ApprovedInv, PublishesApproved
  <2>2. ASSUME NEW u \in Txns
        PROVE  /\ op(u)' = "publish" /\ pc'[u] \in BeforePublication =>
                      \A r \in seen'[u] : HasVersion(exp(u), r.content, "approved")'
               /\ \A p \in newPubs'[u] : HasVersion(p.exp, p.content, "approved")'
    <3>1. CASE u = t
      BY <1>1, <1>2, <3>1
    <3>2. CASE u # t
      BY <1>1, <1>2, <3>2 DEF ApprovedInv, PublishesApproved
    <3> QED BY <3>1, <3>2
  <2> QED BY <2>1, <2>2 DEF PublishesApproved, BeforePublication
<1> QED BY <1>3, <1>4 DEF ApprovedInv

LEMMA EndKeepsApproved ==
    ASSUME RowsInv, ApprovedInv, NEW t \in Txns, NEW o \in Ended, End(t, o)
    PROVE  ApprovedInv'
<1>1. /\ UNCHANGED <<rows, versions, publications, req>>
      /\ pc' = [pc EXCEPT ![t] = o] /\ Release(t)
  BY DEF End, tables
<1>2. /\ pc'[t] = o /\ newRow'[t] = {} /\ newPubs'[t] = {}
      /\ \A u \in Txns \ {t} : /\ pc'[u] = pc[u] /\ seen'[u] = seen[u]
                               /\ newRow'[u] = newRow[u] /\ newVersion'[u] = newVersion[u]
                               /\ newPubs'[u] = newPubs[u]
  BY <1>1 DEF RowsInv, TypeOK, Release
<1>3. o \notin BeforePublication
  BY DEF BeforePublication, Ended
<1> QED BY <1>1, <1>2, <1>3, OwnApprovedStep

\* A statement that neither reads the row nor writes it, nor a publication.
LEMMA OtherKeepsApproved ==
    ASSUME RowsInv, ApprovedInv, NEW t \in Txns, NEW next \in Waiting, Goto(t, next),
           UNCHANGED <<rows, versions, publications, req, seen, newRow, newPubs>>,
           \A u \in Txns \ {t} : newVersion'[u] = newVersion[u],
           next = "commit" => ~Versioned(op(t)),
           next \in BeforePublication => pc[t] \in BeforePublication
    PROVE  ApprovedInv'
<1>1. pc'[t] = next /\ \A u \in Txns \ {t} : pc'[u] = pc[u]
  BY DEF RowsInv, TypeOK, Goto
<1>2. \A w \in newRow[t] : HasVersion(w.exp, w.content, w.state) \/ Versioned(op(t))
  BY DEF ApprovedInv, RowsVersioned
<1>3. op(t) = "publish" /\ next \in BeforePublication =>
          \A r \in seen[t] : HasVersion(exp(t), r.content, "approved")
  BY DEF ApprovedInv, PublishesApproved
<1>4. \A p \in newPubs[t] : HasVersion(p.exp, p.content, "approved")
  BY DEF ApprovedInv, PublishesApproved
<1> QED BY <1>1, <1>2, <1>3, <1>4, OwnApprovedStep

LEMMA FindKeepsApproved ==
    ASSUME RowsInv, ApprovedInv, NEW t \in Txns, Find(t)
    PROVE  ApprovedInv'
<1> USE DEF tables, reads, writes
<1>1. {"refused", "missing"} \subseteq Ended
  BY DEF Ended
<1>2. CASE FindForCreate(t)
  <2>1. CASE End(t, "refused")
    BY <1>1, <2>1, EndKeepsApproved
  <2>2. CASE ~End(t, "refused")
    BY <1>2, <2>2, OtherKeepsApproved DEF FindForCreate, Waiting, BeforePublication
  <2> QED BY <2>1, <2>2
<1>3. CASE FindMissing(t)
  BY <1>1, <1>3, EndKeepsApproved DEF FindMissing
<1>4. CASE FindRefused(t)
  BY <1>1, <1>4, EndKeepsApproved DEF FindRefused
<1>5. CASE FindRow(t)
  <2>1. /\ pc' = [pc EXCEPT ![t] = First(op(t))] /\ seen' = [seen EXCEPT ![t] = Found(t)]
        /\ UNCHANGED <<rows, versions, publications, req, newRow, newVersion, newPubs>>
    BY <1>5 DEF FindRow, Goto
  <2>2. /\ pc'[t] = First(op(t)) /\ seen'[t] = Found(t)
        /\ \A u \in Txns \ {t} : pc'[u] = pc[u] /\ seen'[u] = seen[u]
    BY <2>1 DEF RowsInv, TypeOK
  <2>3. First(op(t)) # "commit"
    BY DEF First
  <2>4. ASSUME op(t) = "publish", NEW r \in Found(t)
        PROVE  HasVersion(exp(t), r.content, "approved")
    <3>1. r \in rows /\ r.exp = exp(t) /\ r.state = "approved"
      BY <1>5, <2>4 DEF FindRow, Found, RowsInv, ReadsRow
    <3> QED BY <3>1 DEF ApprovedInv, RowsVersioned
  <2>5. /\ \A w \in newRow[t] : HasVersion(w.exp, w.content, w.state) \/ Versioned(op(t))
        /\ \A p \in newPubs[t] : HasVersion(p.exp, p.content, "approved")
    BY DEF ApprovedInv, RowsVersioned, PublishesApproved
  <2> QED BY <2>1, <2>2, <2>3, <2>4, <2>5, OwnApprovedStep
<1> QED BY <1>2, <1>3, <1>4, <1>5 DEF Find

LEMMA WriteRowKeepsApproved ==
    ASSUME RowsInv, ApprovedInv, NEW t \in Txns, WriteRow(t)
    PROVE  ApprovedInv'
<1> USE DEF tables, reads, writes
<1>1. {"refused", "missing", "clash"} \subseteq Ended
  BY DEF Ended
<1>2. \A p \in newPubs[t] : HasVersion(p.exp, p.content, "approved")
  BY DEF ApprovedInv, PublishesApproved
<1>3. "auditLock" \notin BeforePublication
  BY DEF BeforePublication
<1>4. CASE Reread(t)
  <2>1. /\ pc'[t] = "auditLock" /\ \A u \in Txns \ {t} : pc'[u] = pc[u] /\ seen'[u] = seen[u]
        /\ UNCHANGED <<rows, versions, publications, req, newRow, newVersion, newPubs>>
    BY <1>4 DEF Reread, Goto, RowsInv, TypeOK
  <2>2. \A w \in newRow[t] : HasVersion(w.exp, w.content, w.state) \/ Versioned(op(t))
    BY DEF ApprovedInv, RowsVersioned
  <2> QED BY <1>2, <1>3, <2>1, <2>2, OwnApprovedStep
<1>5. CASE Insert(t)
  <2>1. CASE End(t, "clash")
    BY <1>1, <2>1, EndKeepsApproved
  <2>2. CASE ~End(t, "clash")
    <3>1. /\ pc[t] = "insert" /\ pc'[t] = "auditLock"
          /\ \A u \in Txns \ {t} : pc'[u] = pc[u] /\ newRow'[u] = newRow[u]
          /\ UNCHANGED <<rows, versions, publications, req, seen, newVersion, newPubs>>
      BY <1>5, <2>2 DEF Insert, Goto, RowsInv, TypeOK
    <3>2. Versioned(op(t))
      BY <3>1 DEF RowsInv, OnProgram, Program, Ended, Versioned
    <3> QED BY <1>2, <1>3, <3>1, <3>2, OwnApprovedStep
  <2> QED BY <2>1, <2>2
<1>6. CASE Snapshot(t)
  <2>1. CASE End(t, "missing")
    BY <1>1, <2>1, EndKeepsApproved
  <2>2. CASE ~End(t, "missing")
    BY <1>6, <2>2, OtherKeepsApproved DEF Snapshot, Waiting, BeforePublication
  <2> QED BY <2>1, <2>2
<1>7. CASE Update(t)
  <2>1. /\ pc[t] = "update" /\ pc'[t] = "auditLock"
        /\ \A u \in Txns \ {t} : pc'[u] = pc[u] /\ newRow'[u] = newRow[u]
        /\ UNCHANGED <<rows, versions, publications, req, seen, newVersion, newPubs>>
    BY <1>7 DEF Update, Goto, RowsInv, TypeOK
  <2>2. PICK r \in rows : newRow'[t] = {Updated(t, r)}
    BY <1>7 DEF Update, RowsInv, TypeOK
  <2>3. CASE Versioned(op(t))
    BY <1>2, <1>3, <2>1, <2>3, OwnApprovedStep
  <2>4. CASE ~Versioned(op(t))
    <3>1. op(t) = "delete"
      <4>1. op(t) \in AllOps
        BY SeedAssumption DEF RowsInv, TypeOK, op
      <4>2. "update" \in Program(op(t))
        BY <2>1 DEF RowsInv, OnProgram, Ended
      <4> QED BY <2>4, <4>1, <4>2 DEF Program, Versioned, AllOps, Publishing, Edits
    <3>2. r \in Row /\ Updated(t, r) = [r EXCEPT !.deleted = TRUE]
      BY <3>1 DEF Updated, RowsInv, TypeOK
    <3>3. /\ Updated(t, r).exp = r.exp /\ Updated(t, r).content = r.content
          /\ Updated(t, r).state = r.state
      BY <3>2 DEF Row
    <3>4. \A w \in newRow'[t] : HasVersion(w.exp, w.content, w.state)
      BY <2>2, <3>3 DEF ApprovedInv, RowsVersioned
    <3> QED BY <1>2, <1>3, <2>1, <3>4, OwnApprovedStep
  <2> QED BY <2>3, <2>4
<1>8. CASE UpdateMisses(t)
  BY <1>1, <1>8, EndKeepsApproved DEF UpdateMisses
<1> QED BY <1>4, <1>5, <1>6, <1>7, <1>8 DEF WriteRow

LEMMA PublishKeepsApproved ==
    ASSUME RowsInv, ApprovedInv, NEW t \in Txns, Publish(t)
    PROVE  ApprovedInv'
<1> USE DEF tables, reads, writes
<1>1. {"refused", "clash"} \subseteq Ended
  BY DEF Ended
<1>2. \A w \in newRow[t] : HasVersion(w.exp, w.content, w.state) \/ Versioned(op(t))
  BY DEF ApprovedInv, RowsVersioned
<1>3. CASE Latest(t)
  BY <1>3, OtherKeepsApproved DEF Latest, Waiting, BeforePublication
<1>4. CASE Scan(t)
  BY <1>4, OtherKeepsApproved DEF Scan, Waiting, BeforePublication
<1>5. CASE Recheck(t)
  <2> DEFINE next == IF op(t) = "publish" THEN "pubInsert" ELSE "auditLock"
  <2>1. /\ pc[t] = "recheck" /\ pc'[t] = next
        /\ \A u \in Txns \ {t} : pc'[u] = pc[u] /\ newPubs'[u] = newPubs[u]
        /\ newPubs'[t] = {Changed(t, p) : p \in StillActive(t)}
        /\ UNCHANGED <<rows, versions, publications, req, seen, newRow, newVersion>>
    BY <1>5 DEF Recheck, Goto, RowsInv, TypeOK
  <2>2. ASSUME NEW p \in StillActive(t)
        PROVE  HasVersion(Changed(t, p).exp, Changed(t, p).content, "approved")
    <3>1. p \in publications /\ p \in Publication
      BY DEF StillActive, Active, RowsInv, TypeOK
    <3>2. Changed(t, p).exp = p.exp /\ Changed(t, p).content = p.content
      BY <3>1 DEF Changed, Publication
    <3> QED BY <3>1, <3>2 DEF ApprovedInv, PublishesApproved
  <2>3. op(t) = "publish" => \A r \in seen[t] : HasVersion(exp(t), r.content, "approved")
    BY <2>1 DEF ApprovedInv, PublishesApproved, BeforePublication
  <2>4. next # "commit"
    OBVIOUS
  <2> HIDE DEF next
  <2> QED BY <1>2, <2>1, <2>2, <2>3, <2>4, OwnApprovedStep
<1>6. CASE RecheckRefused(t)
  BY <1>1, <1>6, EndKeepsApproved DEF RecheckRefused
<1>7. CASE PubInsert(t)
  <2>1. CASE End(t, "clash")
    BY <1>1, <2>1, EndKeepsApproved
  <2>2. CASE ~End(t, "clash")
    <3> DEFINE new == [id |-> t, exp |-> exp(t), no |-> latest[t],
                       content |-> The(seen[t]).content, key |-> t, active |-> TRUE]
    <3>1. /\ pc[t] = "pubInsert" /\ pc'[t] = "auditLock"
          /\ \A u \in Txns \ {t} : pc'[u] = pc[u] /\ newPubs'[u] = newPubs[u]
          /\ newPubs'[t] = newPubs[t] \cup {new}
          /\ UNCHANGED <<rows, versions, publications, req, seen, newRow, newVersion>>
      BY <1>7, <2>2 DEF PubInsert, Goto, RowsInv, TypeOK
    <3>2. op(t) = "publish"
      BY <3>1 DEF RowsInv, OnProgram, Program, Ended
    <3>3. The(seen[t]) \in seen[t]
      BY <3>1, <3>2, TheIsIn DEF RowsInv, ReadsRow, Waiting
    <3>4. HasVersion(exp(t), The(seen[t]).content, "approved")
      BY <3>1, <3>2, <3>3 DEF ApprovedInv, PublishesApproved, BeforePublication
    <3>5. HasVersion(new.exp, new.content, "approved")
      BY <3>4
    <3>6. \A p \in newPubs[t] : HasVersion(p.exp, p.content, "approved")
      BY DEF ApprovedInv, PublishesApproved
    <3> HIDE DEF new
    <3>7. "auditLock" \notin BeforePublication
      BY DEF BeforePublication
    <3> QED BY <1>2, <3>1, <3>5, <3>6, <3>7, OwnApprovedStep
  <2> QED BY <2>1, <2>2
<1> QED BY <1>3, <1>4, <1>5, <1>6, <1>7 DEF Publish

LEMMA AppendKeepsApproved ==
    ASSUME RowsInv, ApprovedInv, NEW t \in Txns, AppendAudit(t) \/ AppendVersion(t)
    PROVE  ApprovedInv'
<1> USE DEF tables, reads, writes
<1>1. {"auditClash", "versionClash"} \subseteq Ended
  BY DEF Ended
<1>2. /\ {"auditHead", "auditInsert", "versionLock", "versionMax", "versionInsert", "commit"}
             \subseteq Waiting \ BeforePublication
      /\ "commit" \notin {"auditHead", "auditInsert", "versionLock", "versionMax", "versionInsert"}
  BY DEF Waiting, BeforePublication
<1>3. CASE LockAudit(t)
  BY <1>2, <1>3, OtherKeepsApproved DEF LockAudit
<1>4. CASE ReadHead(t)
  BY <1>2, <1>4, OtherKeepsApproved DEF ReadHead
<1>5. CASE InsertAudit(t)
  <2>1. CASE End(t, "auditClash")
    BY <1>1, <2>1, EndKeepsApproved
  <2>2. CASE ~End(t, "auditClash")
    <3> DEFINE next == IF Versioned(op(t)) THEN "versionLock" ELSE "commit"
    <3>1. /\ Goto(t, next)
          /\ UNCHANGED <<rows, versions, publications, req, seen, newRow, newVersion, newPubs>>
      BY <1>5, <2>2 DEF InsertAudit
    <3>2. next \in Waiting \ BeforePublication /\ (next = "commit" => ~Versioned(op(t)))
      BY <1>2
    <3> HIDE DEF next
    <3> QED BY <3>1, <3>2, OtherKeepsApproved
  <2> QED BY <2>1, <2>2
<1>6. CASE LockVersions(t)
  BY <1>2, <1>6, OtherKeepsApproved DEF LockVersions
<1>7. CASE ReadVersionMax(t)
  BY <1>2, <1>7, OtherKeepsApproved DEF ReadVersionMax
<1>8. CASE InsertVersion(t)
  <2>1. CASE End(t, "versionClash")
    BY <1>1, <2>1, EndKeepsApproved
  <2>2. CASE ~End(t, "versionClash")
    <3>1. /\ pc'[t] = "commit" /\ newVersion'[t] = {NextVersion(t)}
          /\ \A u \in Txns \ {t} : pc'[u] = pc[u] /\ newVersion'[u] = newVersion[u]
          /\ UNCHANGED <<rows, versions, publications, req, seen, newRow, newPubs>>
      BY <1>8, <2>2 DEF InsertVersion, Goto, RowsInv, TypeOK
    <3>2. ASSUME NEW w \in newRow[t]
          PROVE  \/ HasVersion(w.exp, w.content, w.state)
                 \/ /\ Versioned(op(t))
                    /\ \E v \in newVersion'[t] :
                           v.exp = w.exp /\ v.content = w.content /\ v.state = w.state
      <4>1. Returned(t) = w /\ w.exp = exp(t)
        <5>1. The(newRow[t]) \in newRow[t]
          BY TheIsIn
        <5> QED BY <5>1 DEF Returned, RowsInv, WritesRow
      <4>2. /\ NextVersion(t).exp = w.exp /\ NextVersion(t).content = w.content
            /\ NextVersion(t).state = w.state
        BY <4>1 DEF NextVersion
      <4> QED BY <3>1, <4>2 DEF ApprovedInv, RowsVersioned
    <3>3. \A p \in newPubs[t] : HasVersion(p.exp, p.content, "approved")
      BY DEF ApprovedInv, PublishesApproved
    <3> QED BY <1>2, <3>1, <3>2, <3>3, OwnApprovedStep
  <2> QED BY <2>1, <2>2
<1> QED BY <1>3, <1>4, <1>5, <1>6, <1>7, <1>8 DEF AppendAudit, AppendVersion

\* COMMIT makes a row visible together with the version that copies it.
LEMMA CommitKeepsApproved ==
    ASSUME RowsInv, ApprovedInv, NEW t \in Txns, Commit(t)
    PROVE  ApprovedInv'
<1>1. /\ pc[t] = "commit" /\ pc' = [pc EXCEPT ![t] = "ok"]
      /\ rows' = {r \in rows : \A w \in newRow[t] : w.exp # r.exp} \cup newRow[t]
      /\ versions' = versions \cup newVersion[t]
      /\ publications' =
             {p \in publications : \A q \in newPubs[t] : q.id # p.id} \cup newPubs[t]
      /\ Release(t) /\ UNCHANGED req
  BY DEF Commit
<1>2. /\ pc'[t] = "ok" /\ newRow'[t] = {} /\ newPubs'[t] = {}
      /\ \A u \in Txns \ {t} : /\ pc'[u] = pc[u] /\ seen'[u] = seen[u]
                               /\ newRow'[u] = newRow[u] /\ newVersion'[u] = newVersion[u]
                               /\ newPubs'[u] = newPubs[u]
  BY <1>1 DEF RowsInv, TypeOK, Release
<1>3. \A e, c, s : HasVersion(e, c, s) => HasVersion(e, c, s)'
  BY <1>1 DEF HasVersion
<1>4. \A u \in Txns : op(u)' = op(u) /\ exp(u)' = exp(u) /\ Versioned(op(u))' = Versioned(op(u))
  BY <1>1 DEF op, exp, Versioned
<1>5. \A w \in newRow[t] : HasVersion(w.exp, w.content, w.state)'
  BY <1>1, <1>3 DEF ApprovedInv, RowsVersioned, HasVersion
<1>6. RowsVersioned'
  <2>1. \A r \in rows' : HasVersion(r.exp, r.content, r.state)'
    BY <1>1, <1>3, <1>5 DEF ApprovedInv, RowsVersioned
  <2>2. ASSUME NEW u \in Txns, NEW w \in newRow'[u]
        PROVE  \/ HasVersion(w.exp, w.content, w.state)'
               \/ /\ Versioned(op(u))'
                  /\ pc'[u] = "commit" => \E v \in newVersion'[u] :
                         v.exp = w.exp /\ v.content = w.content /\ v.state = w.state
    BY <1>2, <1>3, <1>4 DEF ApprovedInv, RowsVersioned
  <2> QED BY <2>1, <2>2 DEF RowsVersioned
<1>7. PublishesApproved'
  <2>1. \A p \in publications' : HasVersion(p.exp, p.content, "approved")'
    BY <1>1, <1>3 DEF ApprovedInv, PublishesApproved
  <2>2. ASSUME NEW u \in Txns
        PROVE  /\ op(u)' = "publish" /\ pc'[u] \in BeforePublication =>
                      \A r \in seen'[u] : HasVersion(exp(u), r.content, "approved")'
               /\ \A p \in newPubs'[u] : HasVersion(p.exp, p.content, "approved")'
    <3>1. CASE u = t
      BY <1>2, <3>1 DEF BeforePublication
    <3>2. CASE u # t
      BY <1>2, <1>3, <1>4, <3>2 DEF ApprovedInv, PublishesApproved
    <3> QED BY <3>1, <3>2
  <2> QED BY <2>1, <2>2 DEF PublishesApproved, BeforePublication
<1> QED BY <1>6, <1>7 DEF ApprovedInv

LEMMA ApprovedStep == ASSUME RowsInv, ApprovedInv, [Next]_vars PROVE ApprovedInv'
<1>1. CASE UNCHANGED vars
  BY <1>1 DEF vars, tables, reads, writes, ApprovedInv, RowsVersioned, PublishesApproved,
              HasVersion, op, exp, Versioned, BeforePublication
<1>2. ASSUME NEW t \in Txns, Find(t) \/ Statement(t) \/ Lose(t) PROVE ApprovedInv'
  <2>1. CASE Lose(t)
    BY <2>1, EndKeepsApproved DEF Lose, Ended
  <2> QED BY <1>2, <2>1, FindKeepsApproved, WriteRowKeepsApproved, PublishKeepsApproved,
             AppendKeepsApproved, CommitKeepsApproved DEF Statement
<1> QED BY <1>1, <1>2 DEF Next

\* Whatever edits, transitions and deletions race with a publisher, the content
\* it publishes is that of an approved version of the experience.
THEOREM PublishedIsApproved == Spec => []PublishedWasApproved
<1>1. Init => AuditInv /\ VersionsInv /\ RowsInv /\ ApprovedInv
  BY AuditInit, VersionsInit, RowsInit, ApprovedInit, TxnsAssumption, SeedAssumption
<1>2. AuditInv /\ VersionsInv /\ RowsInv /\ ApprovedInv /\ [Next]_vars =>
          AuditInv' /\ VersionsInv' /\ RowsInv' /\ ApprovedInv'
  BY AuditStep, VersionsStep, RowsStep, ApprovedStep, TxnsAssumption DEF AuditInv, VersionsInv
<1>3. ApprovedInv => PublishedWasApproved
  BY DEF ApprovedInv, PublishesApproved, PublishedWasApproved, HasVersion
<1> QED BY <1>1, <1>2, <1>3, PTL DEF Spec

----------------------------------------------------------------------------
(* State moves: a row is written by one transaction at a time, from the    *)
(* row it matched.                                                         *)

\* From r to s in at most one transition, that s ends its chain with.
LegalMove(r, s) ==
    r.state # s.state =>
        LET last == s.chain[Len(s.chain)] IN
        /\ last.from = r.state /\ last.to = s.state
        /\ <<r.state, op(last.tx), s.state>> \in Transitions

\* No two transactions are to commit a row of the same experience.
RowLocked ==
    \A t \in Txns : \A u \in Txns \ {t} : \A w \in newRow[t], x \in newRow[u] : w.exp # x.exp

\* A pending row follows the committed one, which nobody else can replace.
PendingMoves == \A t \in Txns : \A w \in newRow[t], r \in rows : r.exp = w.exp => LegalMove(r, w)

MovesInv == RowLocked /\ PendingMoves

LEMMA MovesInit == Init => MovesInv
BY DEF Init, MovesInv, RowLocked, PendingMoves

\* A step that neither commits nor adds a pending row.
LEMMA OtherKeepsMoves ==
    ASSUME MovesInv, UNCHANGED <<rows, req>>, \A u \in Txns : newRow'[u] \subseteq newRow[u]
    PROVE  MovesInv'
<1>1. \A r, s : LegalMove(r, s)' <=> LegalMove(r, s)
  BY DEF LegalMove, op, Transitions, States
<1> QED BY <1>1 DEF MovesInv, RowLocked, PendingMoves

\* An UPDATE of a transition moves the state of the row it matched legally.
LEMMA UpdateIsLegal ==
    ASSUME RowsInv, NEW t \in Txns, pc[t] = "update", NEW r \in rows, Matches(t, r),
           op(t) \in Actions
    PROVE  <<r.state, op(t), Updated(t, r).state>> \in Transitions
<1>1. r \in Row
  BY DEF RowsInv, TypeOK
<1>2. PICK b \in seen[t] : b.state = r.state
  BY DEF Matches
<1>3. The(seen[t]) = b /\ b \in Row /\ Legal(b.state, op(t))
  <2>1. The(seen[t]) \in seen[t]
    BY <1>2, TheIsIn
  <2> QED BY <1>2, <2>1 DEF RowsInv, ReadsRow, TypeOK
<1>4. FromState(t) = r.state /\ r.state \in States
  BY <1>1, <1>2, <1>3 DEF FromState, Row
<1>5. <<r.state, op(t), ToState(t)>> \in Transitions
  <2> DEFINE S == {s \in States : <<FromState(t), op(t), s>> \in Transitions}
  <2>1. S # {}
    BY <1>2, <1>3, <1>4, TransitionsInStates
  <2>2. The(S) \in S
    BY <2>1, TheIsIn
  <2> QED BY <1>4, <2>2 DEF ToState
<1>6. Updated(t, r) = [r EXCEPT !.state = ToState(t),
                                !.chain = Append(The(seen[t]).chain, Event(t))]
  BY DEF Updated, Actions
<1>7. Updated(t, r).state = ToState(t)
  BY <1>1, <1>6 DEF Row
<1> QED BY <1>5, <1>7

\* The row that an UPDATE returns is a legal move of the row it matched.
LEMMA UpdateMoves ==
    ASSUME RowsInv, NEW t \in Txns, pc[t] = "update", NEW r \in rows, Matches(t, r)
    PROVE  LegalMove(r, Updated(t, r))
<1>1. r \in Row
  BY DEF RowsInv, TypeOK
<1>2. CASE op(t) \in {"patch", "rollback", "delete"}
  <2>1. Updated(t, r).state = r.state
    BY <1>1, <1>2 DEF Updated, Row
  <2> QED BY <2>1 DEF LegalMove
<1>3. CASE op(t) \notin {"patch", "rollback", "delete"}
  <2>1. op(t) \in Actions
    <3>1. op(t) \in AllOps
      BY SeedAssumption DEF RowsInv, TypeOK, op
    <3>2. "update" \in Program(op(t))
      BY DEF RowsInv, OnProgram, Ended
    <3> QED BY <1>3, <3>1, <3>2 DEF Program, AllOps, Publishing, Edits
  <2>2. PICK b \in seen[t] : b.state = r.state
    BY <2>1 DEF Matches
  <2>3. /\ The(seen[t]) = b /\ b \in Row /\ Legal(b.state, op(t))
    <3>1. The(seen[t]) \in seen[t]
      BY TheIsIn
    <3> QED BY <2>1, <3>1 DEF RowsInv, ReadsRow, TypeOK
  <2>4. FromState(t) = r.state /\ r.state \in States
    BY <1>1, <2>2, <2>3 DEF FromState, Row
  <2>5. <<r.state, op(t), Updated(t, r).state>> \in Transitions
    BY <2>1, UpdateIsLegal
  <2>6. Updated(t, r) = [r EXCEPT !.state = ToState(t), !.chain = Append(b.chain, Event(t))]
    BY <1>3, <2>3 DEF Updated
  <2>7. Updated(t, r).state = ToState(t) /\ Updated(t, r).chain = Append(b.chain, Event(t))
    BY <1>1, <2>6 DEF Row
  <2>8. b.chain \in Seq([tx : Requests, from : States, to : States])
    BY <2>3 DEF Row
  <2> DEFINE c == Append(b.chain, Event(t))
  <2>9. c[Len(c)] = Event(t)
    <3> DEFINE E == [tx |-> t, from |-> FromState(t), to |-> ToState(t)]
    <3>1. Event(t) = E
      BY DEF Event
    <3>2. Len(c) = Len(b.chain) + 1 /\ Len(b.chain) \in Nat
      BY <2>8
    <3> QED BY <2>8, <3>2
  <2>10. Event(t).tx = t /\ Event(t).from = FromState(t) /\ Event(t).to = ToState(t)
    BY DEF Event
  <2> HIDE DEF c
  <2> QED BY <2>4, <2>5, <2>7, <2>9, <2>10 DEF LegalMove, c
<1> QED BY <1>2, <1>3

LEMMA MovesStep == ASSUME RowsInv, MovesInv, [Next]_vars PROVE MovesInv'
<1> USE DEF tables, reads, writes
<1>1. ASSUME NEW t \in Txns, NEW o \in Ended, End(t, o) PROVE MovesInv'
  BY <1>1, OtherKeepsMoves DEF End, Release, RowsInv, TypeOK
<1>2. ASSUME UNCHANGED <<rows, req, newRow>> PROVE MovesInv'
  BY <1>2, OtherKeepsMoves
<1>3. CASE UNCHANGED vars
  BY <1>2, <1>3 DEF vars
<1>4. ASSUME NEW t \in Txns, NEW w, newRow' = [newRow EXCEPT ![t] = {w}],
             UNCHANGED <<rows, req>>, w.exp = exp(t), RowFree(t),
             \A r \in rows : r.exp = w.exp => LegalMove(r, w)
      PROVE  MovesInv'
  <2>1. newRow'[t] = {w} /\ \A u \in Txns \ {t} : newRow'[u] = newRow[u]
    BY <1>4 DEF RowsInv, TypeOK
  <2>2. \A u \in Txns \ {t} : \A x \in newRow[u] : x.exp # w.exp
    BY <1>4 DEF RowFree
  <2>3. RowLocked'
    BY <2>1, <2>2 DEF MovesInv, RowLocked
  <2>4. \A r, s : LegalMove(r, s)' <=> LegalMove(r, s)
    BY <1>4 DEF LegalMove, op, Transitions, States
  <2>5. PendingMoves'
    BY <1>4, <2>1, <2>4 DEF MovesInv, PendingMoves
  <2> QED BY <2>3, <2>5 DEF MovesInv
<1>5. ASSUME NEW t \in Txns, Insert(t), ~End(t, "clash") PROVE MovesInv'
  <2>1. PICK s \in NewStates :
            newRow' = [newRow EXCEPT ![t] = {[exp |-> exp(t), state |-> s, content |-> t,
                                              deleted |-> FALSE, chain |-> <<>>]}]
    BY <1>5 DEF Insert
  <2> DEFINE w == [exp |-> exp(t), state |-> s, content |-> t, deleted |-> FALSE, chain |-> <<>>]
  <2>2. w.exp = exp(t)
    OBVIOUS
  <2>3. \A r \in rows : r.exp # exp(t)
    BY <1>5 DEF Insert, Found
  <2>4. newRow' = [newRow EXCEPT ![t] = {w}] /\ UNCHANGED <<rows, req>> /\ RowFree(t)
    BY <1>5, <2>1 DEF Insert
  <2> HIDE DEF w
  <2> QED BY <1>4, <2>2, <2>3, <2>4
<1>6. ASSUME NEW t \in Txns, Update(t) PROVE MovesInv'
  <2>1. PICK r \in rows : /\ Matches(t, r) /\ RowFree(t) /\ pc[t] = "update"
                          /\ newRow' = [newRow EXCEPT ![t] = {Updated(t, r)}]
    BY <1>6 DEF Update
  <2>2. Updated(t, r).exp = exp(t) /\ r.exp = exp(t)
    BY <2>1, UpdatedIsRow DEF Matches
  <2>3. \A x \in rows : x.exp = exp(t) => x = r
    BY <2>2 DEF RowsInv, ReadsRow
  <2>4. LegalMove(r, Updated(t, r))
    BY <2>1, UpdateMoves
  <2> QED BY <1>4, <1>6, <2>1, <2>2, <2>3, <2>4 DEF Update
<1>7. ASSUME NEW t \in Txns, Commit(t) PROVE MovesInv'
  <2>1. /\ rows' = {r \in rows : \A w \in newRow[t] : w.exp # r.exp} \cup newRow[t]
        /\ newRow'[t] = {} /\ \A u \in Txns \ {t} : newRow'[u] = newRow[u]
        /\ UNCHANGED req
    BY <1>7 DEF Commit, Release, RowsInv, TypeOK
  <2>2. \A r, s : LegalMove(r, s)' <=> LegalMove(r, s)
    BY <2>1 DEF LegalMove, op, Transitions, States
  <2>3. RowLocked'
    BY <2>1 DEF MovesInv, RowLocked
  <2>4. PendingMoves'
    BY <2>1, <2>2 DEF MovesInv, RowLocked, PendingMoves
  <2> QED BY <2>3, <2>4 DEF MovesInv
<1>8. ASSUME NEW t \in Txns, Find(t) \/ Publish(t) \/ AppendAudit(t) \/ AppendVersion(t)
      PROVE  MovesInv'
  <2>1. CASE \E o \in Ended : End(t, o)
    BY <1>1, <2>1
  <2>2. CASE \A o \in Ended : ~End(t, o)
    <3>1. {"refused", "missing", "clash", "auditClash", "versionClash"} \subseteq Ended
      BY DEF Ended
    <3>2. UNCHANGED <<rows, req, newRow>>
      BY <1>8, <2>2, <3>1 DEF Find, FindForCreate, FindMissing, FindRefused, FindRow, Publish,
         Latest, Scan, Recheck, RecheckRefused, PubInsert, AppendAudit, LockAudit, ReadHead,
         InsertAudit, AppendVersion, LockVersions, ReadVersionMax, InsertVersion
    <3> QED BY <1>2, <3>2
  <2> QED BY <2>1, <2>2
<1>9. ASSUME NEW t \in Txns, WriteRow(t) \/ Lose(t) PROVE MovesInv'
  <2>1. {"lost", "clash", "missing", "refused"} \subseteq Ended
    BY DEF Ended
  <2>2. CASE \E o \in Ended : End(t, o)
    BY <1>1, <2>2
  <2>3. CASE \A o \in Ended : ~End(t, o)
    <3>1. CASE Insert(t)
      BY <1>5, <2>1, <2>3, <3>1
    <3>2. CASE Update(t)
      BY <1>6, <3>2
    <3>3. CASE Reread(t) \/ Snapshot(t)
      BY <1>2, <2>1, <2>3, <3>3 DEF Reread, Snapshot
    <3> QED BY <1>9, <2>1, <2>3, <3>1, <3>2, <3>3 DEF WriteRow, UpdateMisses, Lose
  <2> QED BY <2>2, <2>3
<1>10. ASSUME NEW t \in Txns, Find(t) \/ Statement(t) \/ Lose(t) PROVE MovesInv'
  BY <1>7, <1>8, <1>9, <1>10 DEF Statement
<1> QED BY <1>3, <1>10 DEF Next

LEMMA OnlyCommitWrites == [Next]_vars => UNCHANGED tables \/ \E t \in Txns : Commit(t)
<1> SUFFICES ASSUME NEW t \in Txns, Find(t) \/ Statement(t) \/ Lose(t), ~Commit(t)
             PROVE  UNCHANGED tables
  BY DEF Next, vars
<1>1. CASE \E o : End(t, o)
  BY <1>1 DEF End
<1>2. CASE \A o : ~End(t, o)
  BY <1>2 DEF Find, FindForCreate, FindMissing, FindRefused, FindRow, Statement, WriteRow,
         Reread, Insert, Snapshot, Update, UpdateMisses, Publish, Latest, Scan, Recheck,
         RecheckRefused, PubInsert, AppendAudit, LockAudit, ReadHead, InsertAudit,
         AppendVersion, LockVersions, ReadVersionMax, InsertVersion, Lose
<1> QED BY <1>1, <1>2

\* Only COMMIT changes the table, to the rows its transaction wrote.
LEMMA CommitMoves ==
    ASSUME RowsInv, MovesInv, [Next]_vars,
           NEW r \in rows, NEW s \in rows', r.exp = s.exp
    PROVE  LegalMove(r, s)
<1>1. CASE rows' = rows
  BY <1>1 DEF RowsInv, ReadsRow, LegalMove
<1>2. CASE rows' # rows
  <2>1. PICK t \in Txns : Commit(t)
    BY <1>2, OnlyCommitWrites DEF tables
  <2>2. s \in newRow[t] \/ s \in rows
    BY <2>1 DEF Commit
  <2>3. CASE s \in newRow[t]
    BY <2>3 DEF MovesInv, PendingMoves
  <2>4. CASE s \in rows
    BY <2>4 DEF RowsInv, ReadsRow, LegalMove
  <2> QED BY <2>2, <2>3, <2>4
<1> QED BY <1>1, <1>2

\* The approval state of an experience moves along nextApprovalState only, by the
\* event its chain then ends with, whichever transitions overlap.
THEOREM MovesAreLegal == Spec => StatesMoveLegally
<1> DEFINE A == \A r \in rows, s \in rows' : r.exp = s.exp /\ r.state # s.state =>
                    LET last == s.chain[Len(s.chain)] IN
                    /\ last.from = r.state /\ last.to = s.state
                    /\ <<r.state, op(last.tx), s.state>> \in Transitions
<1>1. Init => AuditInv /\ VersionsInv /\ RowsInv /\ MovesInv
  BY AuditInit, VersionsInit, RowsInit, MovesInit, TxnsAssumption, SeedAssumption
<1>2. AuditInv /\ VersionsInv /\ RowsInv /\ MovesInv /\ [Next]_vars =>
          AuditInv' /\ VersionsInv' /\ RowsInv' /\ MovesInv'
  BY AuditStep, VersionsStep, RowsStep, MovesStep, TxnsAssumption DEF AuditInv, VersionsInv
<1>3. RowsInv /\ MovesInv /\ [Next]_vars => A
  BY CommitMoves DEF LegalMove
<1>4. StatesMoveLegally <=> [][A]_vars
  BY DEF StatesMoveLegally
<1> HIDE DEF A
<1> QED BY <1>1, <1>2, <1>3, <1>4, PTL DEF Spec

----------------------------------------------------------------------------
(* The history follows the row: but for empty patches, what appends a      *)
(* version also writes the row.                                            *)

\* Statements after the row has been written.
AfterWrite == {"auditLock", "auditHead", "auditInsert", "versionLock", "versionMax",
               "versionInsert", "commit"}

\* The endpoints that keep a version of the row they write.
Rewrites(o) == Versioned(o) /\ o # "emptyPatch"

\* The version that is a copy of the row w.
Copies(v, w) == v.exp = w.exp /\ v.content = w.content /\ v.state = w.state

\* A pending row replaces one that is not deleted; a transaction that rewrites
\* has written a row, and commits its version with it; any other leaves content
\* and state as they were.
PendingCopies ==
    \A t \in Txns :
        /\ \A w \in newRow[t], r \in rows : r.exp = w.exp =>
               ~r.deleted /\ (Rewrites(op(t)) \/ (w.content = r.content /\ w.state = r.state))
        /\ Rewrites(op(t)) \/ \A w \in newRow[t] : \E r \in rows : r.exp = w.exp
        /\ Rewrites(op(t)) /\ pc[t] \in AfterWrite => newRow[t] # {}
        /\ Rewrites(op(t)) /\ pc[t] = "commit" =>
               \E v \in newVersion[t] : \A w \in newRow[t] : Copies(v, w)
        /\ newVersion[t] # {} => Versioned(op(t)) /\ pc[t] = "commit"
        /\ \A v \in newVersion[t] : v.by = t

\* Version v copies the row r, and only empty patches appended after it.
Stands(v, r) ==
    /\ Copies(v, r) /\ ~IsRepeat(v)
    /\ \A w \in versions : w.exp = v.exp /\ w.no > v.no => IsRepeat(w)

LastIsCopy == \A r \in rows : \E v \in versions : Stands(v, r)

FollowInv == PendingCopies /\ LastIsCopy

LEMMA FollowInit == SeedAssumption /\ Init => FollowInv
<1> SUFFICES ASSUME SeedAssumption, Init PROVE FollowInv
  OBVIOUS
<1> PICK s \in NewStates :
        /\ rows = {[exp |-> e, state |-> s, content |-> Seed, deleted |-> FALSE,
                    chain |-> <<>>] : e \in Seeded}
        /\ versions = {[exp |-> e, no |-> 1, content |-> Seed, state |-> s, by |-> Seed] :
                           e \in Seeded}
  BY DEF Init
<1>1. PendingCopies
  BY DEF Init, PendingCopies, AfterWrite
<1>2. ASSUME NEW r \in rows
      PROVE  \E v \in versions : Stands(v, r)
  <2>1. PICK e \in Seeded : r = [exp |-> e, state |-> s, content |-> Seed, deleted |-> FALSE,
                                 chain |-> <<>>]
    OBVIOUS
  <2> DEFINE v == [exp |-> e, no |-> 1, content |-> Seed, state |-> s, by |-> Seed]
  <2>2. v \in versions /\ v.no = 1 /\ v.by = Seed
    OBVIOUS
  <2>3. \A x \in versions : x.no = 1
    OBVIOUS
  <2>4. Copies(v, r)
    BY <2>1 DEF Copies
  <2> HIDE DEF v
  <2>5. ~(1 > 1)
    OBVIOUS
  <2> QED BY <2>2, <2>3, <2>4, <2>5 DEF Stands, IsRepeat
<1> QED BY <1>1, <1>2 DEF FollowInv, LastIsCopy

\* A step of t that commits nothing.
LEMMA OwnFollowStep ==
    ASSUME FollowInv, NEW t \in Txns, UNCHANGED <<rows, versions, req>>,
           \A u \in Txns \ {t} : /\ pc'[u] = pc[u] /\ newRow'[u] = newRow[u]
                                 /\ newVersion'[u] = newVersion[u],
           \A w \in newRow'[t], r \in rows : r.exp = w.exp =>
               ~r.deleted /\ (Rewrites(op(t)) \/ (w.content = r.content /\ w.state = r.state)),
           Rewrites(op(t)) \/ \A w \in newRow'[t] : \E r \in rows : r.exp = w.exp,
           Rewrites(op(t)) /\ pc'[t] \in AfterWrite => newRow'[t] # {},
           Rewrites(op(t)) /\ pc'[t] = "commit" =>
               \E v \in newVersion'[t] : \A w \in newRow'[t] : Copies(v, w),
           newVersion'[t] # {} => Versioned(op(t)) /\ pc'[t] = "commit",
           \A v \in newVersion'[t] : v.by = t
    PROVE  FollowInv'
<1>1. \A u \in Txns : /\ Versioned(op(u))' <=> Versioned(op(u))
                      /\ Rewrites(op(u))' <=> Rewrites(op(u))
  BY DEF op, Rewrites, Versioned, Actions, Edits
<1>2. \A v, w : Copies(v, w)' <=> Copies(v, w)
  BY DEF Copies
<1>3. \A v, r : Stands(v, r)' <=> Stands(v, r)
  BY DEF Stands, Copies, IsRepeat, op
<1>4. LastIsCopy'
  BY <1>3 DEF FollowInv, LastIsCopy
<1>5. PendingCopies'
  <2> SUFFICES ASSUME NEW u \in Txns
      PROVE  /\ \A w \in newRow'[u], r \in rows : r.exp = w.exp =>
                    /\ ~r.deleted
                    /\ Rewrites(op(u)) \/ (w.content = r.content /\ w.state = r.state)
             /\ Rewrites(op(u)) \/ \A w \in newRow'[u] : \E r \in rows : r.exp = w.exp
             /\ Rewrites(op(u)) /\ pc'[u] \in AfterWrite => newRow'[u] # {}
             /\ Rewrites(op(u)) /\ pc'[u] = "commit" =>
                    \E v \in newVersion'[u] : \A w \in newRow'[u] : Copies(v, w)
             /\ newVersion'[u] # {} => Versioned(op(u)) /\ pc'[u] = "commit"
             /\ \A v \in newVersion'[u] : v.by = u
    BY <1>1, <1>2 DEF PendingCopies, AfterWrite
  <2>1. CASE u = t
    BY <2>1
  <2>2. CASE u # t
    BY <2>2 DEF FollowInv, PendingCopies
  <2> QED BY <2>1, <2>2
<1> QED BY <1>4, <1>5 DEF FollowInv

LEMMA EndKeepsFollow ==
    ASSUME RowsInv, FollowInv, NEW t \in Txns, NEW o \in Ended, End(t, o)
    PROVE  FollowInv'
<1>1. UNCHANGED <<rows, versions, req>> /\ pc' = [pc EXCEPT ![t] = o] /\ Release(t)
  BY DEF End, tables
<1>2. /\ pc'[t] = o /\ newRow'[t] = {} /\ newVersion'[t] = {}
      /\ \A u \in Txns \ {t} : /\ pc'[u] = pc[u] /\ newRow'[u] = newRow[u]
                               /\ newVersion'[u] = newVersion[u]
  BY <1>1 DEF RowsInv, TypeOK, Release
<1>3. o \notin AfterWrite /\ o # "commit"
  BY DEF AfterWrite, Ended
<1> QED BY <1>1, <1>2, <1>3, OwnFollowStep

\* A statement that writes neither the row nor the version.
LEMMA OtherKeepsFollow ==
    ASSUME RowsInv, FollowInv, NEW t \in Txns, NEW next, pc[t] # "commit", Goto(t, next),
           UNCHANGED <<rows, versions, req, newRow, newVersion>>,
           Rewrites(op(t)) /\ next \in AfterWrite => pc[t] \in AfterWrite,
           next = "commit" => ~Versioned(op(t))
    PROVE  FollowInv'
<1>1. pc'[t] = next /\ \A u \in Txns \ {t} : pc'[u] = pc[u]
  BY DEF RowsInv, TypeOK, Goto
<1>2. newVersion[t] = {}
  BY DEF FollowInv, PendingCopies
<1>3. /\ \A w \in newRow[t], r \in rows : r.exp = w.exp =>
             ~r.deleted /\ (Rewrites(op(t)) \/ (w.content = r.content /\ w.state = r.state))
      /\ Rewrites(op(t)) \/ \A w \in newRow[t] : \E r \in rows : r.exp = w.exp
      /\ Rewrites(op(t)) /\ next \in AfterWrite => newRow[t] # {}
  BY DEF FollowInv, PendingCopies
<1> QED BY <1>1, <1>2, <1>3, OwnFollowStep DEF Rewrites

\* Finding the row goes on to a statement before the row is written.
LEMMA FindKeepsFollow ==
    ASSUME RowsInv, FollowInv, NEW t \in Txns, Find(t)
    PROVE  FollowInv'
<1> USE DEF tables, reads, writes
<1>1. {"refused", "missing"} \subseteq Ended
  BY DEF Ended
<1>2. CASE FindForCreate(t)
  <2>1. CASE End(t, "refused")
    BY <1>1, <2>1, EndKeepsFollow
  <2>2. CASE ~End(t, "refused")
    BY <1>2, <2>2, OtherKeepsFollow DEF FindForCreate, AfterWrite
  <2> QED BY <2>1, <2>2
<1>3. CASE FindMissing(t)
  BY <1>1, <1>3, EndKeepsFollow DEF FindMissing
<1>4. CASE FindRefused(t)
  BY <1>1, <1>4, EndKeepsFollow DEF FindRefused
<1>5. CASE FindRow(t)
  <2>1. First(op(t)) \notin AfterWrite /\ First(op(t)) # "commit"
    BY DEF First, AfterWrite
  <2>2. pc[t] # "commit" /\ Goto(t, First(op(t)))
        /\ UNCHANGED <<rows, versions, req, newRow, newVersion>>
    BY <1>5 DEF FindRow
  <2> QED BY <2>1, <2>2, OtherKeepsFollow
<1> QED BY <1>2, <1>3, <1>4, <1>5 DEF Find

LEMMA WriteRowKeepsFollow ==
    ASSUME RowsInv, FollowInv, NEW t \in Txns, WriteRow(t)
    PROVE  FollowInv'
<1> USE DEF tables, reads, writes
<1>1. {"refused", "missing", "clash"} \subseteq Ended
  BY DEF Ended
<1>2. op(t) \in AllOps
  BY SeedAssumption DEF RowsInv, TypeOK, op
<1>3. pc[t] # "commit" => newVersion[t] = {}
  BY DEF FollowInv, PendingCopies
<1>4. CASE Reread(t)
  <2>1. pc[t] = "reread" /\ Goto(t, "auditLock")
        /\ UNCHANGED <<rows, versions, req, newRow, newVersion>>
    BY <1>4 DEF Reread
  <2>2. ~Rewrites(op(t))
    BY <2>1 DEF RowsInv, OnProgram, Program, Ended, Rewrites
  <2> QED BY <2>1, <2>2, OtherKeepsFollow
<1>5. CASE Insert(t)
  <2>1. CASE End(t, "clash")
    BY <1>1, <2>1, EndKeepsFollow
  <2>2. CASE ~End(t, "clash")
    <3>1. /\ pc[t] = "insert" /\ pc'[t] = "auditLock" /\ Found(t) = {}
          /\ \A u \in Txns \ {t} : pc'[u] = pc[u] /\ newRow'[u] = newRow[u]
          /\ UNCHANGED <<rows, versions, req, newVersion>>
      BY <1>5, <2>2 DEF Insert, Goto, RowsInv, TypeOK
    <3>2. PICK s \in NewStates :
              newRow'[t] = {[exp |-> exp(t), state |-> s, content |-> t, deleted |-> FALSE,
                             chain |-> <<>>]}
      BY <1>5, <2>2 DEF Insert, RowsInv, TypeOK
    <3>3. newRow'[t] # {} /\ \A w \in newRow'[t], r \in rows : r.exp # w.exp
      BY <3>1, <3>2 DEF Found
    <3>4. Rewrites(op(t))
      BY <3>1 DEF RowsInv, OnProgram, Program, Ended, Versioned, Rewrites
    <3> QED BY <1>3, <3>1, <3>3, <3>4, OwnFollowStep
  <2> QED BY <2>1, <2>2
<1>6. CASE Snapshot(t)
  <2>1. CASE End(t, "missing")
    BY <1>1, <2>1, EndKeepsFollow
  <2>2. CASE ~End(t, "missing")
    BY <1>6, <2>2, OtherKeepsFollow DEF Snapshot, AfterWrite
  <2> QED BY <2>1, <2>2
<1>7. CASE Update(t)
  <2>1. /\ pc[t] = "update" /\ pc'[t] = "auditLock"
        /\ \A u \in Txns \ {t} : pc'[u] = pc[u] /\ newRow'[u] = newRow[u]
        /\ UNCHANGED <<rows, versions, req, newVersion>>
    BY <1>7 DEF Update, Goto, RowsInv, TypeOK
  <2>2. PICK r \in rows : Matches(t, r) /\ newRow'[t] = {Updated(t, r)}
    BY <1>7 DEF Update, RowsInv, TypeOK
  <2>3. Updated(t, r).exp = r.exp
    BY <2>1, UpdatedIsRow
  <2>4. \A x \in rows : x.exp = r.exp => x = r /\ ~x.deleted
    BY <2>2 DEF RowsInv, ReadsRow, Matches
  <2>5. ~Rewrites(op(t)) =>
            Updated(t, r).content = r.content /\ Updated(t, r).state = r.state
    <3> SUFFICES ASSUME ~Rewrites(op(t))
                 PROVE  Updated(t, r).content = r.content /\ Updated(t, r).state = r.state
      OBVIOUS
    <3>1. "update" \in Program(op(t))
      BY <2>1 DEF RowsInv, OnProgram, Ended
    <3>2. op(t) = "delete"
      BY <1>2, <3>1 DEF Program, Rewrites, Versioned, AllOps, Publishing, Edits
    <3>3. r \in Row /\ Updated(t, r) = [r EXCEPT !.deleted = TRUE]
      BY <3>2 DEF Updated, RowsInv, TypeOK
    <3> QED BY <3>3 DEF Row
  <2> QED BY <1>3, <2>1, <2>2, <2>3, <2>4, <2>5, OwnFollowStep
<1>8. CASE UpdateMisses(t)
  BY <1>1, <1>8, EndKeepsFollow DEF UpdateMisses
<1> QED BY <1>4, <1>5, <1>6, <1>7, <1>8 DEF WriteRow

LEMMA PublishKeepsFollow ==
    ASSUME RowsInv, FollowInv, NEW t \in Txns, Publish(t)
    PROVE  FollowInv'
<1> USE DEF tables, reads, writes
<1>1. {"refused", "clash"} \subseteq Ended
  BY DEF Ended
<1>2. pc[t] \in {"scan", "recheck", "latest", "pubInsert"}
  BY DEF Publish, Latest, Scan, Recheck, RecheckRefused, PubInsert
<1>3. ~Versioned(op(t))
  <2>1. op(t) \in {"publish", "unpublish", "rotate"}
    BY <1>2 DEF RowsInv, OnProgram, Program, Ended
  <2> QED BY <2>1 DEF Versioned, Actions, Edits
<1>4. CASE \E o \in Ended : End(t, o)
  BY <1>4, EndKeepsFollow
<1>5. CASE \A o \in Ended : ~End(t, o)
  <2>1. /\ \E next \in {"scan", "recheck", "pubInsert", "auditLock"} : Goto(t, next)
        /\ UNCHANGED <<rows, versions, req, newRow, newVersion>>
    BY <1>1, <1>5 DEF Publish, Latest, Scan, Recheck, RecheckRefused, PubInsert
  <2> QED BY <1>2, <1>3, <2>1, OtherKeepsFollow DEF Rewrites
<1> QED BY <1>4, <1>5

LEMMA AppendKeepsFollow ==
    ASSUME RowsInv, FollowInv, NEW t \in Txns, AppendAudit(t) \/ AppendVersion(t)
    PROVE  FollowInv'
<1> USE DEF tables, reads, writes
<1>1. {"auditClash", "versionClash"} \subseteq Ended
  BY DEF Ended
<1>2. pc[t] \in AfterWrite \ {"commit"}
  BY DEF AppendAudit, LockAudit, ReadHead, InsertAudit, AppendVersion, LockVersions,
         ReadVersionMax, InsertVersion, AfterWrite
<1>3. CASE \E o \in Ended : End(t, o)
  BY <1>3, EndKeepsFollow
<1>4. CASE (\A o \in Ended : ~End(t, o)) /\ ~InsertVersion(t)
  <2>1. /\ UNCHANGED <<rows, versions, req, newRow, newVersion>>
        /\ \E next \in AfterWrite : Goto(t, next) /\ (next = "commit" => ~Versioned(op(t)))
    BY <1>1, <1>4 DEF AppendAudit, LockAudit, ReadHead, InsertAudit, AppendVersion,
                      LockVersions, ReadVersionMax, AfterWrite
  <2> QED BY <1>2, <2>1, OtherKeepsFollow
<1>5. CASE (\A o \in Ended : ~End(t, o)) /\ InsertVersion(t)
  <2>1. /\ pc[t] = "versionInsert" /\ pc'[t] = "commit" /\ newVersion'[t] = {NextVersion(t)}
        /\ \A u \in Txns \ {t} : pc'[u] = pc[u] /\ newVersion'[u] = newVersion[u]
        /\ UNCHANGED <<rows, versions, req, newRow>>
    BY <1>1, <1>5 DEF InsertVersion, Goto, RowsInv, TypeOK
  <2>2. Versioned(op(t))
    BY <2>1 DEF RowsInv, OnProgram, Program, Ended
  <2>3. Rewrites(op(t)) => newRow[t] # {}
    BY <1>2 DEF FollowInv, PendingCopies
  <2>4. \A w \in newRow[t] : Copies(NextVersion(t), w)
    <3>1. newRow[t] # {} => The(newRow[t]) \in newRow[t]
      BY TheIsIn
    <3>2. \A w \in newRow[t] : Returned(t) = w /\ w.exp = exp(t)
      BY <3>1 DEF Returned, RowsInv, WritesRow
    <3> QED BY <3>2 DEF NextVersion, Copies
  <2>5. /\ \A w \in newRow[t], r \in rows : r.exp = w.exp =>
               /\ ~r.deleted
               /\ Rewrites(op(t)) \/ (w.content = r.content /\ w.state = r.state)
        /\ Rewrites(op(t)) \/ \A w \in newRow[t] : \E r \in rows : r.exp = w.exp
    BY DEF FollowInv, PendingCopies
  <2>6. NextVersion(t).by = t
    BY DEF NextVersion
  <2> QED BY <2>1, <2>2, <2>3, <2>4, <2>5, <2>6, OwnFollowStep
<1> QED BY <1>3, <1>4, <1>5

\* COMMIT adds the version after the row's, or leaves what the row's copies.
LEMMA CommitKeepsFollow ==
    ASSUME TxnsAssumption, RowsInv, VersionsInv, MovesInv, FollowInv, NEW t \in Txns,
           Commit(t)
    PROVE  FollowInv'
<1>1. /\ pc[t] = "commit" /\ pc' = [pc EXCEPT ![t] = "ok"]
      /\ rows' = {r \in rows : \A w \in newRow[t] : w.exp # r.exp} \cup newRow[t]
      /\ versions' = versions \cup newVersion[t] /\ Release(t) /\ UNCHANGED req
  BY DEF Commit
<1>2. /\ pc'[t] = "ok" /\ newRow'[t] = {} /\ newVersion'[t] = {}
      /\ \A u \in Txns \ {t} : /\ pc'[u] = pc[u] /\ newRow'[u] = newRow[u]
                               /\ newVersion'[u] = newVersion[u]
  BY <1>1 DEF RowsInv, TypeOK, Release
<1>3. \A u \in Txns : /\ Versioned(op(u))' <=> Versioned(op(u))
                      /\ Rewrites(op(u))' <=> Rewrites(op(u))
  BY <1>1 DEF op, Rewrites, Versioned, Actions, Edits
<1>4. \A v, w : Copies(v, w)' <=> Copies(v, w)
  BY DEF Copies
<1>5. PendingCopies'
  <2>1. \A u \in Txns \ {t} : \A w \in newRow[u], r \in rows' : r.exp = w.exp => r \in rows
    BY <1>1 DEF MovesInv, RowLocked
  <2>2. ASSUME NEW u \in Txns \ {t}, NEW w \in newRow[u], NEW r \in rows, r.exp = w.exp
        PROVE  r \in rows'
    BY <1>1, <2>2 DEF MovesInv, RowLocked
  <2> SUFFICES ASSUME NEW u \in Txns
      PROVE  /\ \A w \in newRow'[u], r \in rows' : r.exp = w.exp =>
                    /\ ~r.deleted
                    /\ Rewrites(op(u)) \/ (w.content = r.content /\ w.state = r.state)
             /\ Rewrites(op(u)) \/ \A w \in newRow'[u] : \E r \in rows' : r.exp = w.exp
             /\ Rewrites(op(u)) /\ pc'[u] \in AfterWrite => newRow'[u] # {}
             /\ Rewrites(op(u)) /\ pc'[u] = "commit" =>
                    \E v \in newVersion'[u] : \A w \in newRow'[u] : Copies(v, w)
             /\ newVersion'[u] # {} => Versioned(op(u)) /\ pc'[u] = "commit"
             /\ \A v \in newVersion'[u] : v.by = u
    BY <1>3, <1>4 DEF PendingCopies, AfterWrite
  <2>3. CASE u = t
    BY <1>2, <2>3 DEF AfterWrite
  <2>4. CASE u # t
    BY <1>2, <2>1, <2>2, <2>4 DEF FollowInv, PendingCopies
  <2> QED BY <2>3, <2>4
<1>6. \A v : IsRepeat(v)' <=> IsRepeat(v)
  BY <1>1 DEF IsRepeat, op
<1>7. LastIsCopy'
  <2> SUFFICES ASSUME NEW r \in rows'
               PROVE  \E v \in versions' : Stands(v, r)'
    BY DEF LastIsCopy
  <2>1. ASSUME NEW q \in rows, q.exp = r.exp, q.content = r.content, q.state = r.state,
               \A w \in newVersion[t] : w.exp = r.exp => IsRepeat(w)
        PROVE  \E v \in versions' : Stands(v, r)'
    <3>1. PICK v \in versions : Stands(v, q)
      BY DEF FollowInv, LastIsCopy
    <3>2. Copies(v, r)
      BY <2>1, <3>1 DEF Stands, Copies
    <3> QED BY <1>1, <1>4, <1>6, <2>1, <3>1, <3>2 DEF Stands, Copies
  <2>2. CASE ~Rewrites(op(t))
    <3>1. ASSUME NEW w \in newVersion[t] PROVE IsRepeat(w)
      <4>1. w.by = t /\ op(t) = "emptyPatch"
        BY <2>2 DEF FollowInv, PendingCopies, Rewrites
      <4> QED BY <4>1, TxnsAssumption DEF IsRepeat
    <3>2. \E q \in rows : q.exp = r.exp /\ q.content = r.content /\ q.state = r.state
      BY <1>1, <2>2 DEF FollowInv, PendingCopies
    <3> QED BY <2>1, <3>1, <3>2
  <2>3. CASE Rewrites(op(t))
    <3>1. PICK v \in newVersion[t] : \A w \in newRow[t] : Copies(v, w)
      BY <1>1, <2>3 DEF FollowInv, PendingCopies
    <3>2. newVersion[t] = {v} /\ v.exp = exp(t) /\ v.no = LatestNo(v.exp) + 1
      BY DEF VersionsInv, PendingFollows
    <3>3. ~IsRepeat(v)
      BY <2>3, TxnsAssumption DEF IsRepeat, Rewrites, FollowInv, PendingCopies
    <3>4. CASE r \in newRow[t]
      <4>1. Copies(v, r)
        BY <3>1, <3>4
      <4>2. \A w \in versions' : w.exp = v.exp => ~(w.no > v.no)
        <5>1. v.exp \in Experiences
          BY <3>2 DEF VersionsInv, exp
        <5>2. PICK n \in Nat : HistoryOf(v.exp, n)
          BY <5>1 DEF VersionsInv, Histories
        <5>3. LatestNo(v.exp) = n
          BY <5>2, LatestOfHistory
        <5>4. \A w \in versions : w.exp = v.exp => w.no \in Nat /\ w.no <= n
          BY <5>2 DEF HistoryOf
        <5> QED BY <1>1, <3>2, <5>3, <5>4
      <4> QED BY <1>1, <1>4, <1>6, <3>3, <4>1, <4>2 DEF Stands
    <3>5. CASE r \notin newRow[t]
      <4>1. r \in rows /\ \A w \in newRow[t] : w.exp # r.exp
        BY <1>1, <3>5
      <4>2. \E w \in newRow[t] : w.exp = v.exp
        <5>1. newRow[t] # {}
          BY <1>1, <2>3 DEF FollowInv, PendingCopies, AfterWrite
        <5> QED BY <3>1, <5>1 DEF Copies
      <4>3. \A w \in newVersion[t] : w.exp # r.exp
        BY <3>2, <4>1, <4>2
      <4> QED BY <2>1, <4>1, <4>3
    <3> QED BY <3>4, <3>5
  <2> QED BY <2>2, <2>3
<1> QED BY <1>5, <1>7 DEF FollowInv

LEMMA FollowStep ==
    ASSUME TxnsAssumption, RowsInv, VersionsInv, MovesInv, FollowInv, [Next]_vars
    PROVE  FollowInv'
<1>1. CASE UNCHANGED vars
  <2>1. UNCHANGED <<rows, versions, req, pc, newRow, newVersion>>
    BY <1>1 DEF vars, tables, writes
  <2>2. PendingCopies'
    BY <2>1 DEF FollowInv, PendingCopies, Copies, op, Rewrites, Versioned, AfterWrite,
                Actions, Edits
  <2>3. LastIsCopy'
    BY <2>1 DEF FollowInv, LastIsCopy, Stands, Copies, IsRepeat, op
  <2> QED BY <2>2, <2>3 DEF FollowInv
<1>2. ASSUME NEW t \in Txns, Find(t) \/ Statement(t) \/ Lose(t) PROVE FollowInv'
  <2>1. CASE Lose(t)
    BY <2>1, EndKeepsFollow DEF Lose, Ended
  <2> QED BY <1>2, <2>1, FindKeepsFollow, WriteRowKeepsFollow, PublishKeepsFollow,
             AppendKeepsFollow, CommitKeepsFollow DEF Statement
<1> QED BY <1>1, <1>2 DEF Next

\* All that is invariant together.
CatalogInv == AuditInv /\ VersionsInv /\ RowsInv /\ MovesInv /\ FollowInv

LEMMA CatalogInvariant == (Init => CatalogInv) /\ (CatalogInv /\ [Next]_vars => CatalogInv')
BY AuditInit, VersionsInit, RowsInit, MovesInit, FollowInit, AuditStep, VersionsStep, RowsStep,
   MovesStep, FollowStep, TxnsAssumption, SeedAssumption DEF CatalogInv, AuditInv, VersionsInv

\* The highest version of an experience that no empty patch appended is its row:
\* edits, rollbacks and transitions commit row and version in the same order, and
\* all that stands behind a copy of the row are empty patches' repetitions.
THEOREM HistoryFollowsRows == Spec => []VersionsFollowRows
<1>1. Init => CatalogInv
  BY CatalogInvariant
<1>2. CatalogInv /\ [Next]_vars => CatalogInv'
  BY CatalogInvariant
<1>3. CatalogInv => VersionsFollowRows
  <2>1. CatalogInv => VersionsDense
    BY HistoriesAreDense DEF CatalogInv
  <2> QED BY <2>1 DEF CatalogInv, FollowInv, LastIsCopy, Stands, Copies, VersionsFollowRows
<1> QED BY <1>1, <1>2, <1>3, PTL DEF Spec

----------------------------------------------------------------------------
(* The refinement.  What a transaction is to commit is, from the moment it *)
(* is written, an operation on what is committed, and stays one: others    *)
(* can change the rows, the publication or the ends of chain and history   *)
(* that it starts from only when its COMMIT has released them.             *)

\* The endpoints that write the row of an experience that exists.
Writing == Actions \cup {"patch", "rollback", "delete"}

\* The pending row is a new one, or the UPDATE of the committed one.
RowOf(t) ==
    /\ \A w \in newRow[t] :
           /\ pc[t] \in AfterWrite /\ w.exp = exp(t)
           /\ \/ /\ op(t) = "create" /\ Found(t) = {}
                 /\ w.content = t /\ w.state \in NewStates /\ ~w.deleted
              \/ /\ op(t) \in Writing
                 /\ \E r \in rows :
                        /\ Matches(t, r) /\ w = Updated(t, r)
                        /\ op(t) \in Actions => <<r.state, op(t), w.state>> \in Transitions
    /\ pc[t] \in AfterWrite /\ op(t) \in Writing \cup {"create"} => newRow[t] # {}

\* What is restored, or repeated by an empty patch, is a version.
SourceOf(t) ==
    /\ op(t) = "rollback" /\ pc[t] \in AfterWrite \cup {"update"} =>
           /\ target[t] # {}
           /\ \A v \in target[t] : v \in versions /\ v.exp = exp(t)
    /\ op(t) = "emptyPatch" /\ pc[t] \in AfterWrite =>
           /\ seen[t] # {}
           /\ \A r \in seen[t] : HasVersion(exp(t), r.content, r.state)

\* The pending version is that of the row the handler holds.
VersionOf(t) ==
    /\ newVersion[t] # {} => pc[t] = "commit" /\ Versioned(op(t))
    /\ pc[t] = "commit" /\ Versioned(op(t)) => newVersion[t] # {}
    /\ \A v \in newVersion[t] : v.content = Returned(t).content /\ v.state = Returned(t).state

\* The pending entry is the request's only one.
EntryOf(t) ==
    /\ pc[t] \in AfterEntry => newAudit[t] # {}
    /\ pc[t] # "ok" => \A a \in audit : a.hash # t

\* The pending publications are the one that is active, as the request changes
\* it, and the one that is published.
EmbedOf(t) ==
    /\ newPubs[t] # {} => op(t) \in Publishing
    /\ \A q \in newPubs[t] :
           \/ /\ op(t) = "publish" /\ q.id = t /\ q.exp = exp(t) /\ q.key = t /\ q.active
           \/ \E p \in Active : p.exp = exp(t) /\ q = Changed(t, p)
    /\ pc[t] \in AfterWrite /\ op(t) \in {"unpublish", "rotate"} => newPubs[t] # {}
    /\ pc[t] \in AfterWrite /\ op(t) = "publish" => \E q \in newPubs[t] : q.id = t

Own(t) == RowOf(t) /\ SourceOf(t) /\ VersionOf(t) /\ EntryOf(t) /\ EmbedOf(t)

\* Everything below relies on.
Known == AuditInv /\ VersionsInv /\ RowsInv /\ PubsInv /\ ApprovedInv /\ MovesInv

LEMMA OwnInit == TxnsAssumption /\ Init => \A t \in Txns : Own(t)
<1> SUFFICES ASSUME TxnsAssumption, Init, NEW t \in Txns PROVE Own(t)
  OBVIOUS
<1>1. /\ newRow[t] = {} /\ newVersion[t] = {} /\ newPubs[t] = {} /\ pc[t] = "idle"
      /\ \A a \in audit : a.hash = Seed
  BY DEF Init
<1>2. "idle" \notin AfterWrite \cup {"update"} /\ "idle" \notin AfterEntry
  BY DEF AfterWrite, AfterEntry, AfterHead, AfterAuditLock
<1> QED BY <1>1, <1>2, TxnsAssumption DEF Own, RowOf, SourceOf, VersionOf, EntryOf, EmbedOf

\* A step that is not a COMMIT leaves the others' part as it is.
LEMMA OthersOwn ==
    ASSUME NEW u \in Txns, Own(u), UNCHANGED <<tables, req>>,
           pc'[u] = pc[u], seen'[u] = seen[u], target'[u] = target[u], newRow'[u] = newRow[u],
           newVersion'[u] = newVersion[u], newAudit'[u] = newAudit[u], newPubs'[u] = newPubs[u]
    PROVE  Own(u)'
<1>0. UNCHANGED <<rows, versions, audit, publications, req>>
  BY DEF tables
<1>1. op(u)' = op(u) /\ exp(u)' = exp(u)
  BY <1>0 DEF op, exp
<1>2. \A r \in rows : Matches(u, r)' <=> Matches(u, r)
  BY <1>1 DEF Matches, Actions
<1>3. \A r \in rows : Updated(u, r)' = Updated(u, r)
  BY <1>1 DEF Updated, ToState, FromState, Event, Transitions, States
<1>4. RowOf(u)'
  BY <1>0, <1>1, <1>2, <1>3 DEF Own, RowOf, Found, Writing, Actions, AfterWrite
<1>5. SourceOf(u)'
  BY <1>0, <1>1 DEF Own, SourceOf, HasVersion, AfterWrite
<1>6. VersionOf(u)'
  BY <1>1 DEF Own, VersionOf, Versioned, Actions, Edits, Returned
<1>7. EntryOf(u)'
  BY <1>0 DEF Own, EntryOf, AfterEntry, AfterHead, AfterAuditLock
<1>8. EmbedOf(u)'
  BY <1>0, <1>1 DEF Own, EmbedOf, Active, Changed, Publishing, AfterWrite
<1> QED BY <1>4, <1>5, <1>6, <1>7, <1>8 DEF Own

\* A transaction that has ended without success has nothing pending.
LEMMA EndOwn ==
    ASSUME Known, NEW t \in Txns, \A u \in Txns : Own(u),
           NEW o \in Ended \ {"ok"}, pc[t] # "ok", End(t, o)
    PROVE  \A u \in Txns : Own(u)'
<1>1. UNCHANGED <<tables, req>> /\ pc' = [pc EXCEPT ![t] = o] /\ Release(t)
  BY DEF End
<1>2. /\ pc'[t] = o /\ newRow'[t] = {} /\ newVersion'[t] = {} /\ newPubs'[t] = {}
      /\ \A u \in Txns \ {t} :
             /\ pc'[u] = pc[u] /\ seen'[u] = seen[u] /\ target'[u] = target[u]
             /\ newRow'[u] = newRow[u] /\ newVersion'[u] = newVersion[u]
             /\ newAudit'[u] = newAudit[u] /\ newPubs'[u] = newPubs[u]
  BY <1>1 DEF Known, RowsInv, TypeOK, Release
<1>3. \A u \in Txns \ {t} : Own(u)'
  BY <1>1, <1>2, OthersOwn
<1>4. o \notin AfterWrite \cup {"update", "commit"} /\ o \notin AfterEntry
  BY DEF AfterWrite, AfterEntry, AfterHead, AfterAuditLock, Ended
<1>5. \A a \in audit' : a.hash # t
  BY <1>1 DEF Own, EntryOf, tables
<1>6. Own(t)'
  BY <1>2, <1>4, <1>5 DEF Own, RowOf, SourceOf, VersionOf, EntryOf, EmbedOf,
     AfterWrite, AfterEntry, AfterHead, AfterAuditLock
<1> QED BY <1>3, <1>6

\* A step of t that is not a COMMIT keeps the others' part; its own is to be shown.
LEMMA StepOwn ==
    ASSUME NEW t \in Txns, \A u \in Txns : Own(u), UNCHANGED <<tables, req>>,
           \A u \in Txns \ {t} :
               /\ pc'[u] = pc[u] /\ seen'[u] = seen[u] /\ target'[u] = target[u]
               /\ newRow'[u] = newRow[u] /\ newVersion'[u] = newVersion[u]
               /\ newAudit'[u] = newAudit[u] /\ newPubs'[u] = newPubs[u],
           Own(t)'
    PROVE  \A u \in Txns : Own(u)'
BY OthersOwn

\* A statement of t that writes nothing, when what it reads is not yet used.
LEMMA ReadOwn ==
    ASSUME Known, NEW t \in Txns, \A u \in Txns : Own(u), UNCHANGED <<tables, req, writes>>,
           NEW next \in Waiting \ {"commit"}, Goto(t, next), pc[t] \in {"idle"} \cup Waiting,
           pc[t] # "commit",
           \A u \in Txns \ {t} : seen'[u] = seen[u] /\ target'[u] = target[u],
           pc[t] \in AfterWrite <=> next \in AfterWrite,
           next \in AfterEntry => pc[t] \in AfterEntry,
           next \in AfterWrite => seen'[t] = seen[t] /\ target'[t] = target[t],
           next = "update" => op(t) # "rollback"
    PROVE  \A u \in Txns : Own(u)'
<1>0. UNCHANGED <<rows, versions, audit, publications, req, newRow, newVersion, newAudit, newPubs>>
  BY DEF tables, writes
<1>1. pc'[t] = next /\ \A u \in Txns \ {t} : pc'[u] = pc[u]
  BY DEF Known, RowsInv, TypeOK, Goto
<1>2. op(t)' = op(t) /\ exp(t)' = exp(t)
  BY <1>0 DEF op, exp
<1>3. Own(t)
  OBVIOUS
<1>4. RowOf(t)'
  <2>1. CASE next \in AfterWrite
    <3>1. seen'[t] = seen[t] /\ target'[t] = target[t]
      BY <2>1
    <3>2. \A r \in rows : Matches(t, r)' <=> Matches(t, r)
      BY <1>2, <3>1 DEF Matches, Actions
    <3>3. \A r \in rows : Updated(t, r)' = Updated(t, r)
      BY <1>2, <3>1 DEF Updated, ToState, FromState, Event, Transitions, States
    <3> QED BY <1>0, <1>1, <1>2, <1>3, <2>1, <3>2, <3>3
            DEF Own, RowOf, Found, Writing, Actions, AfterWrite
  <2>2. CASE next \notin AfterWrite
    BY <1>0, <1>1, <1>3, <2>2 DEF Own, RowOf, AfterWrite
  <2> QED BY <2>1, <2>2
<1>5. SourceOf(t)'
  BY <1>0, <1>1, <1>2, <1>3 DEF Own, SourceOf, HasVersion, AfterWrite
<1>6. VersionOf(t)'
  BY <1>0, <1>1, <1>3 DEF Own, VersionOf
<1>7. EntryOf(t)'
  <2>1. pc[t] # "ok"
    BY DEF Waiting
  <2> QED BY <1>0, <1>1, <1>3, <2>1 DEF Own, EntryOf, AfterEntry, AfterHead, AfterAuditLock
<1>8. EmbedOf(t)'
  BY <1>0, <1>1, <1>2, <1>3 DEF Own, EmbedOf, Active, Changed, Publishing, AfterWrite
<1>9. Own(t)'
  BY <1>4, <1>5, <1>6, <1>7, <1>8 DEF Own
<1> QED BY <1>0, <1>1, <1>9, StepOwn

\* The first SELECT of a request writes nothing.
LEMMA FindOwn ==
    ASSUME Known, NEW t \in Txns, \A u \in Txns : Own(u), Find(t)
    PROVE  \A u \in Txns : Own(u)'
<1>1. {"refused", "missing"} \subseteq Ended \ {"ok"} /\ "idle" \notin {"ok", "commit"}
  BY DEF Ended
<1>2. "idle" \notin AfterWrite /\ "insert" \notin AfterWrite \cup AfterEntry
  BY DEF AfterWrite, AfterEntry, AfterHead, AfterAuditLock
<1>3. CASE FindForCreate(t)
  <2>1. CASE End(t, "refused")
    BY <1>1, <1>3, <2>1, EndOwn DEF FindForCreate
  <2>2. CASE ~End(t, "refused")
    <3>1. Goto(t, "insert") /\ UNCHANGED <<tables, req, reads, locks, writes>> /\ pc[t] = "idle"
      BY <1>3, <2>2 DEF FindForCreate
    <3>2. "insert" \in Waiting \ {"commit"} /\ "insert" # "update"
      BY DEF Waiting
    <3> QED BY <1>1, <1>2, <3>1, <3>2, ReadOwn DEF reads
  <2> QED BY <2>1, <2>2
<1>4. CASE FindMissing(t)
  BY <1>1, <1>4, EndOwn DEF FindMissing
<1>5. CASE FindRefused(t)
  BY <1>1, <1>5, EndOwn DEF FindRefused
<1>6. CASE FindRow(t)
  <2>1. /\ pc[t] = "idle" /\ op(t) # "create" /\ Goto(t, First(op(t)))
        /\ seen' = [seen EXCEPT ![t] = Found(t)]
        /\ UNCHANGED <<tables, req, latest, head, target, locks, writes>>
    BY <1>6 DEF FindRow
  <2>2. \A u \in Txns \ {t} : seen'[u] = seen[u] /\ target'[u] = target[u]
    BY <2>1 DEF Known, RowsInv, TypeOK
  <2>3. /\ First(op(t)) \in {"snapshot", "reread", "latest", "scan", "update"}
        /\ First(op(t)) = "update" => op(t) # "rollback"
    BY DEF First
  <2>4. /\ First(op(t)) \in Waiting \ {"commit"}
        /\ First(op(t)) \notin AfterWrite \cup AfterEntry
    BY <2>3 DEF Waiting, AfterWrite, AfterEntry, AfterHead, AfterAuditLock
  <2> HIDE DEF First
  <2> DEFINE next == First(op(t))
  <2> HIDE DEF next
  <2>5. next \in Waiting \ {"commit"} /\ Goto(t, next) /\ next \notin AfterWrite \cup AfterEntry
        /\ (next = "update" => op(t) # "rollback")
    BY <2>1, <2>3, <2>4 DEF next
  <2> QED BY <1>1, <1>2, <2>1, <2>2, <2>5, ReadOwn
<1> QED BY <1>3, <1>4, <1>5, <1>6 DEF Find

\* The appends to the chain and the history: the entry and the version follow the row.
LEMMA AppendOwn ==
    ASSUME Known, NEW t \in Txns, \A u \in Txns : Own(u), AppendAudit(t) \/ AppendVersion(t)
    PROVE  \A u \in Txns : Own(u)'
<1> USE DEF tables, reads, writes
<1>0. {"auditClash", "versionClash"} \subseteq Ended \ {"ok"}
  BY DEF Ended
<1>1. ASSUME NEW next \in {"auditHead", "auditInsert", "versionMax", "versionInsert"},
             pc[t] \in {"auditLock", "auditHead", "versionLock", "versionMax"},
             next \in {"auditHead", "auditInsert"} => pc[t] \in {"auditLock", "auditHead"},
             next \in {"versionMax", "versionInsert"} => pc[t] \in {"versionLock", "versionMax"},
             Goto(t, next), UNCHANGED <<tables, req, seen, target, writes>>
      PROVE  \A u \in Txns : Own(u)'
  <2>1. next \in Waiting \ {"commit"} /\ pc[t] \in Waiting /\ next # "update" /\ pc[t] # "commit"
    BY <1>1 DEF Waiting
  <2>2. next \in AfterWrite /\ pc[t] \in AfterWrite /\ (next \in AfterEntry => pc[t] \in AfterEntry)
    BY <1>1 DEF AfterWrite, AfterEntry, AfterHead, AfterAuditLock
  <2>3. UNCHANGED <<tables, req, writes>> /\ UNCHANGED <<seen, target>>
    BY <1>1
  <2> QED BY <1>1, <2>1, <2>2, <2>3, ReadOwn
<1>2. CASE LockAudit(t)
  BY <1>1, <1>2 DEF LockAudit
<1>3. CASE ReadHead(t)
  BY <1>1, <1>3 DEF ReadHead
<1>4. CASE LockVersions(t)
  BY <1>1, <1>4 DEF LockVersions
<1>5. CASE ReadVersionMax(t)
  BY <1>1, <1>5 DEF ReadVersionMax
<1>6. CASE InsertAudit(t)
  <2>1. CASE End(t, "auditClash")
    BY <1>0, <1>6, <2>1, EndOwn DEF InsertAudit
  <2>2. CASE ~End(t, "auditClash")
    <3> DEFINE next == IF Versioned(op(t)) THEN "versionLock" ELSE "commit"
    <3>1. /\ pc[t] = "auditInsert" /\ Goto(t, next)
          /\ newAudit' = [newAudit EXCEPT ![t] = {NextEntry(t)}]
          /\ UNCHANGED <<tables, req, reads, locks, newRow, newVersion, newPubs>>
      BY <1>6, <2>2 DEF InsertAudit
    <3>2. /\ pc'[t] = next /\ newAudit'[t] # {}
          /\ \A u \in Txns \ {t} : pc'[u] = pc[u] /\ newAudit'[u] = newAudit[u]
      BY <3>1 DEF Known, RowsInv, TypeOK, Goto
    <3>3. /\ next \in AfterWrite /\ pc[t] \in AfterWrite /\ next # "ok"
          /\ next = "commit" => ~Versioned(op(t))
      BY <3>1 DEF AfterWrite
    <3> HIDE DEF next
    <3>4. op(t)' = op(t) /\ exp(t)' = exp(t) /\ Versioned(op(t))' = Versioned(op(t))
      BY <3>1 DEF op, exp, Versioned
    <3>5. RowOf(t)'
      <4>1. \A r \in rows : Matches(t, r)' <=> Matches(t, r)
        BY <3>1, <3>4 DEF Matches, Actions
      <4>2. \A r \in rows : Updated(t, r)' = Updated(t, r)
        BY <3>1, <3>4 DEF Updated, ToState, FromState, Event, Transitions, States
      <4> QED BY <3>1, <3>2, <3>3, <3>4, <4>1, <4>2 DEF Own, RowOf, Found, Writing, Actions, AfterWrite
    <3>6. SourceOf(t)'
      BY <3>1, <3>2, <3>3, <3>4 DEF Own, SourceOf, HasVersion, AfterWrite
    <3>7. VersionOf(t)'
      BY <3>1, <3>2, <3>3, <3>4 DEF Own, VersionOf
    <3>8. EntryOf(t)'
      BY <3>1, <3>2 DEF Own, EntryOf
    <3>9. EmbedOf(t)'
      BY <3>1, <3>2, <3>3, <3>4 DEF Own, EmbedOf, Active, Changed, Publishing, AfterWrite
    <3>10. Own(t)'
      BY <3>5, <3>6, <3>7, <3>8, <3>9 DEF Own
    <3>11. UNCHANGED <<tables, req>> /\ UNCHANGED <<seen, target, newRow, newVersion, newPubs>>
      BY <3>1
    <3> QED BY <3>2, <3>10, <3>11, StepOwn
  <2> QED BY <2>1, <2>2
<1>7. CASE InsertVersion(t)
  <2>1. CASE End(t, "versionClash")
    BY <1>0, <1>7, <2>1, EndOwn DEF InsertVersion
  <2>2. CASE ~End(t, "versionClash")
    <3>1. /\ pc[t] = "versionInsert" /\ Goto(t, "commit")
          /\ newVersion' = [newVersion EXCEPT ![t] = {NextVersion(t)}]
          /\ UNCHANGED <<tables, req, reads, locks, newRow, newAudit, newPubs>>
      BY <1>7, <2>2 DEF InsertVersion
    <3>2. /\ pc'[t] = "commit" /\ newVersion'[t] = {NextVersion(t)}
          /\ \A u \in Txns \ {t} : pc'[u] = pc[u] /\ newVersion'[u] = newVersion[u]
      BY <3>1 DEF Known, RowsInv, TypeOK, Goto
    <3>3. /\ "commit" \in AfterWrite /\ pc[t] \in AfterWrite /\ pc[t] # "ok"
          /\ pc[t] \in AfterEntry
      BY <3>1 DEF AfterWrite, AfterEntry, AfterHead, AfterAuditLock
    <3>4. op(t)' = op(t) /\ exp(t)' = exp(t) /\ Versioned(op(t))' = Versioned(op(t))
      BY <3>1 DEF op, exp, Versioned
    <3>5. RowOf(t)'
      <4>1. \A r \in rows : Matches(t, r)' <=> Matches(t, r)
        BY <3>1, <3>4 DEF Matches, Actions
      <4>2. \A r \in rows : Updated(t, r)' = Updated(t, r)
        BY <3>1, <3>4 DEF Updated, ToState, FromState, Event, Transitions, States
      <4> QED BY <3>1, <3>2, <3>3, <3>4, <4>1, <4>2 DEF Own, RowOf, Found, Writing, Actions, AfterWrite
    <3>6. SourceOf(t)'
      BY <3>1, <3>2, <3>3, <3>4 DEF Own, SourceOf, HasVersion, AfterWrite
    <3>7. VersionOf(t)'
      <4>1. Versioned(op(t))
        BY <3>1 DEF Known, RowsInv, OnProgram, Program, Ended, Waiting
      <4>2. Returned(t)' = Returned(t)
        BY <3>1 DEF Returned
      <4>3. \A v \in newVersion'[t] : v.content = Returned(t).content /\ v.state = Returned(t).state
        BY <3>2 DEF NextVersion
      <4> QED BY <3>2, <3>4, <4>1, <4>2, <4>3 DEF VersionOf
    <3>8. EntryOf(t)'
      BY <3>1, <3>2, <3>3 DEF Own, EntryOf
    <3>9. EmbedOf(t)'
      BY <3>1, <3>2, <3>3, <3>4 DEF Own, EmbedOf, Active, Changed, Publishing, AfterWrite
    <3>10. Own(t)'
      BY <3>5, <3>6, <3>7, <3>8, <3>9 DEF Own
    <3>11. UNCHANGED <<tables, req>> /\ UNCHANGED <<seen, target, newRow, newAudit, newPubs>>
      BY <3>1
    <3> QED BY <3>2, <3>10, <3>11, StepOwn
  <2> QED BY <2>1, <2>2
<1> QED BY <1>2, <1>3, <1>4, <1>5, <1>6, <1>7 DEF AppendAudit, AppendVersion

\* A step of t that writes its row, or has it already, before the audit lock.
LEMMA WriteOwn ==
    ASSUME Known, NEW t \in Txns, \A u \in Txns : Own(u), WriteRow(t)
    PROVE  \A u \in Txns : Own(u)'
<1> USE DEF tables, reads, writes
<1>0. {"missing", "refused", "clash"} \subseteq Ended \ {"ok"}
  BY DEF Ended
<1>1. /\ "auditLock" \in AfterWrite \ AfterEntry /\ "update" \notin AfterWrite
      /\ pc[t] \notin {"ok", "commit"} /\ pc[t] \in Waiting
      /\ pc[t] \notin AfterWrite
  BY DEF AfterWrite, AfterEntry, AfterHead, AfterAuditLock, WriteRow, Reread, Insert, Snapshot,
         Update, UpdateMisses, Waiting
<1>2. newRow[t] = {} /\ newVersion[t] = {} /\ \A a \in audit : a.hash # t
  BY <1>1 DEF Own, RowOf, VersionOf, EntryOf
<1>3. op(t)' = op(t) /\ exp(t)' = exp(t)
  BY DEF WriteRow, Reread, Insert, Snapshot, Update, UpdateMisses, End, op, exp
\* What is common to the three statements that lead to the audit lock.
<1>4. ASSUME Goto(t, "auditLock"),
             UNCHANGED <<tables, req, target, newVersion, newAudit, newPubs>>,
             \A u \in Txns \ {t} : newRow'[u] = newRow[u] /\ seen'[u] = seen[u],
             op(t) \notin Publishing, RowOf(t)', SourceOf(t)'
      PROVE  \A u \in Txns : Own(u)'
  <2>1. pc'[t] = "auditLock" /\ \A u \in Txns \ {t} : pc'[u] = pc[u]
    BY <1>4 DEF Known, RowsInv, TypeOK, Goto
  <2>2. VersionOf(t)'
    BY <1>2, <1>4, <2>1 DEF VersionOf
  <2>3. EntryOf(t)'
    BY <1>1, <1>2, <1>4, <2>1 DEF EntryOf, AfterEntry, AfterHead, AfterAuditLock
  <2>4. EmbedOf(t)'
    BY <1>3, <1>4, <2>1 DEF Own, EmbedOf, Active, Changed, Publishing
  <2>5. Own(t)'
    BY <1>4, <2>2, <2>3, <2>4 DEF Own
  <2>6. UNCHANGED <<tables, req>> /\ UNCHANGED <<target, newVersion, newAudit, newPubs>>
    BY <1>4
  <2> QED BY <1>4, <2>1, <2>5, <2>6, StepOwn
<1>5. CASE Reread(t)
  <2>1. /\ pc[t] = "reread" /\ Goto(t, "auditLock") /\ seen' = [seen EXCEPT ![t] = Found(t)]
        /\ UNCHANGED <<tables, req, target, newRow, newVersion, newAudit, newPubs>>
    BY <1>5 DEF Reread
  <2>2. seen'[t] = Found(t) /\ \A u \in Txns \ {t} : seen'[u] = seen[u]
    BY <2>1 DEF Known, RowsInv, TypeOK
  <2>3. op(t) = "emptyPatch"
    <3>1. "reread" \in Program(op(t))
      BY <2>1 DEF Known, RowsInv, OnProgram, Ended
    <3> QED BY <3>1 DEF Program
  <2>4. Found(t) # {}
    <3>1. seen[t] # {}
      BY <2>1, <2>3 DEF Known, RowsInv, ReadsRow, Waiting
    <3> QED BY <3>1 DEF Known, RowsInv, ReadsRow
  <2>5. ASSUME NEW r \in Found(t) PROVE HasVersion(exp(t), r.content, r.state)
    BY DEF Known, ApprovedInv, RowsVersioned, Found
  <2>6. RowOf(t)'
    BY <1>2, <1>3, <2>1, <2>3 DEF RowOf, Writing, Actions
  <2>7. SourceOf(t)'
    BY <1>3, <2>1, <2>2, <2>3, <2>4, <2>5 DEF SourceOf, HasVersion
  <2>8. op(t) \notin Publishing
    BY <2>3 DEF Publishing
  <2> QED BY <1>4, <2>1, <2>2, <2>6, <2>7, <2>8
<1>6. CASE Insert(t)
  <2>1. CASE End(t, "clash")
    BY <1>0, <1>1, <2>1, EndOwn
  <2>2. CASE ~End(t, "clash")
    <3>1. /\ pc[t] = "insert" /\ Goto(t, "auditLock") /\ Found(t) = {}
          /\ UNCHANGED <<tables, req, seen, target, newVersion, newAudit, newPubs>>
      BY <1>6, <2>2 DEF Insert
    <3>2. PICK s \in NewStates :
              newRow' = [newRow EXCEPT ![t] =
                  {[exp |-> exp(t), state |-> s, content |-> t, deleted |-> FALSE, chain |-> <<>>]}]
      BY <1>6, <2>2 DEF Insert
    <3>3. /\ newRow'[t] = {[exp |-> exp(t), state |-> s, content |-> t, deleted |-> FALSE,
                            chain |-> <<>>]}
          /\ \A u \in Txns \ {t} : newRow'[u] = newRow[u]
      BY <3>2 DEF Known, RowsInv, TypeOK
    <3>4. op(t) = "create"
      <4>1. "insert" \in Program(op(t))
        BY <3>1 DEF Known, RowsInv, OnProgram, Ended
      <4> QED BY <4>1 DEF Program
    <3>5. pc'[t] = "auditLock"
      BY <3>1 DEF Known, RowsInv, TypeOK, Goto
    <3>6. RowOf(t)'
      BY <1>1, <1>3, <3>1, <3>3, <3>4, <3>5 DEF RowOf, Found, AfterWrite
    <3>7. SourceOf(t)'
      BY <1>3, <3>4 DEF SourceOf
    <3>8. op(t) \notin Publishing
      BY <3>4 DEF Publishing
    <3> QED BY <1>4, <3>1, <3>3, <3>6, <3>7, <3>8
  <2> QED BY <2>1, <2>2
<1>7. CASE Snapshot(t)
  <2>1. CASE End(t, "missing")
    BY <1>0, <1>1, <2>1, EndOwn
  <2>2. CASE ~End(t, "missing")
    <3>1. PICK v \in versions :
              /\ v.exp = exp(t) /\ Goto(t, "update")
              /\ target' = [target EXCEPT ![t] = {v}]
              /\ UNCHANGED <<tables, req, seen, newRow, newVersion, newAudit, newPubs>>
      BY <1>7, <2>2 DEF Snapshot
    <3>2. /\ pc'[t] = "update" /\ target'[t] = {v}
          /\ \A u \in Txns \ {t} : pc'[u] = pc[u] /\ target'[u] = target[u]
      BY <3>1 DEF Known, RowsInv, TypeOK, Goto
    <3>3. RowOf(t)'
      BY <1>1, <1>2, <3>1, <3>2 DEF RowOf, AfterWrite
    <3>4. SourceOf(t)'
      BY <1>1, <1>3, <3>1, <3>2 DEF SourceOf, AfterWrite
    <3>5. VersionOf(t)'
      BY <1>2, <3>1, <3>2 DEF VersionOf
    <3>6. EntryOf(t)'
      BY <1>2, <3>1, <3>2 DEF EntryOf, AfterEntry, AfterHead, AfterAuditLock
    <3>7. EmbedOf(t)'
      BY <1>1, <1>3, <3>1, <3>2 DEF Own, EmbedOf, Active, Changed, Publishing, AfterWrite
    <3>8. Own(t)'
      BY <3>3, <3>4, <3>5, <3>6, <3>7 DEF Own
    <3>9. UNCHANGED <<tables, req>> /\ UNCHANGED <<seen, newRow, newVersion, newAudit, newPubs>>
      BY <3>1
    <3> QED BY <3>2, <3>8, <3>9, StepOwn
  <2> QED BY <2>1, <2>2
<1>8. CASE Update(t)
  <2>1. /\ pc[t] = "update" /\ Goto(t, "auditLock")
        /\ UNCHANGED <<tables, req, seen, target, newVersion, newAudit, newPubs>>
    BY <1>8 DEF Update
  <2>2. PICK r \in rows : Matches(t, r) /\ newRow' = [newRow EXCEPT ![t] = {Updated(t, r)}]
    BY <1>8 DEF Update
  <2>3. newRow'[t] = {Updated(t, r)} /\ \A u \in Txns \ {t} : newRow'[u] = newRow[u]
    BY <2>2 DEF Known, RowsInv, TypeOK
  <2>4. op(t) \in Writing
    <3>1. op(t) \in AllOps
      BY SeedAssumption DEF Known, RowsInv, TypeOK, op
    <3>2. "update" \in Program(op(t))
      BY <2>1 DEF Known, RowsInv, OnProgram, Ended
    <3>3. op(t) \notin {"create", "emptyPatch", "publish", "unpublish", "rotate"}
      BY <3>2 DEF Program
    <3> QED BY <3>1, <3>3 DEF Writing, AllOps, Edits, Publishing
  <2>5. pc'[t] = "auditLock"
    BY <2>1 DEF Known, RowsInv, TypeOK, Goto
  <2>6. Updated(t, r).exp = exp(t)
    BY <2>1, <2>2, UpdatedIsRow DEF Known, Matches
  <2>7. RowOf(t)'
    <3>1. Matches(t, r)'
      BY <1>3, <2>1, <2>2 DEF Matches, Actions
    <3>2. Updated(t, r)' = Updated(t, r)
      BY <1>3, <2>1 DEF Updated, ToState, FromState, Event, Transitions, States
    <3>3. (op(t) \in Writing)' /\ r \in rows'
      BY <1>3, <2>1, <2>4 DEF Writing, Actions
    <3>4. (op(t) \in Actions => <<r.state, op(t), Updated(t, r).state>> \in Transitions)'
      BY <1>3, <2>1, <2>2, <3>2, UpdateIsLegal DEF Known, Actions, Transitions, States
    <3> QED BY <1>1, <1>3, <2>3, <2>5, <2>6, <3>1, <3>2, <3>3, <3>4 DEF RowOf, AfterWrite
  <2>8. SourceOf(t)'
    <3>1. op(t) # "emptyPatch"
      BY <2>4 DEF Writing, Actions
    <3> QED BY <1>3, <2>1, <3>1 DEF Own, SourceOf, AfterWrite
  <2>9. op(t) \notin Publishing
    BY <2>4 DEF Publishing, Writing, Actions
  <2> QED BY <1>4, <2>1, <2>3, <2>7, <2>8, <2>9
<1>9. CASE UpdateMisses(t)
  BY <1>0, <1>1, <1>9, EndOwn DEF UpdateMisses
<1> QED BY <1>5, <1>6, <1>7, <1>8, <1>9 DEF WriteRow

\* The writes of publications: the active one changed, and the one published.
LEMMA PublishOwn ==
    ASSUME Known, NEW t \in Txns, \A u \in Txns : Own(u), Publish(t)
    PROVE  \A u \in Txns : Own(u)'
<1> USE DEF tables, reads, writes
<1>0. {"refused", "clash"} \subseteq Ended \ {"ok"}
  BY DEF Ended
<1>1. /\ pc[t] \in Waiting /\ pc[t] \notin {"ok", "commit"} \cup AfterWrite
      /\ pc[t] \in {"latest", "scan", "recheck", "pubInsert"}
  BY DEF Publish, Latest, Scan, Recheck, RecheckRefused, PubInsert, Waiting, AfterWrite
<1>2. newRow[t] = {} /\ newVersion[t] = {} /\ \A a \in audit : a.hash # t
  BY <1>1 DEF Own, RowOf, VersionOf, EntryOf
<1>3. op(t) \in Publishing
  <2>1. op(t) \in AllOps /\ pc[t] \in Program(op(t))
    BY <1>1, SeedAssumption DEF Known, RowsInv, OnProgram, TypeOK, op, Ended
  <2> QED BY <1>1, <2>1 DEF Program, AllOps, Publishing, Edits, Actions
<1>4. op(t)' = op(t) /\ exp(t)' = exp(t)
  BY DEF Publish, Latest, Scan, Recheck, RecheckRefused, PubInsert, End, op, exp
\* What is common to the two statements that write publications.
<1>5. ASSUME NEW next \in {"pubInsert", "auditLock"}, Goto(t, next),
             UNCHANGED <<tables, req, seen, target, newRow, newVersion, newAudit>>,
             \A u \in Txns \ {t} : newPubs'[u] = newPubs[u], EmbedOf(t)'
      PROVE  \A u \in Txns : Own(u)'
  <2>1. pc'[t] = next /\ \A u \in Txns \ {t} : pc'[u] = pc[u]
    BY <1>5 DEF Known, RowsInv, TypeOK, Goto
  <2>2. RowOf(t)'
    BY <1>2, <1>3, <1>4, <1>5 DEF RowOf, Writing, Actions, Publishing
  <2>3. SourceOf(t)'
    BY <1>3, <1>4 DEF SourceOf, Publishing
  <2>4. VersionOf(t)'
    BY <1>2, <1>5, <2>1 DEF VersionOf
  <2>5. EntryOf(t)'
    BY <1>2, <1>5, <2>1 DEF EntryOf, AfterEntry, AfterHead, AfterAuditLock
  <2>6. Own(t)'
    BY <1>5, <2>2, <2>3, <2>4, <2>5 DEF Own
  <2>7. UNCHANGED <<tables, req>> /\ UNCHANGED <<seen, target, newRow, newVersion, newAudit>>
    BY <1>5
  <2> QED BY <1>5, <2>1, <2>6, <2>7, StepOwn
<1>6. CASE Latest(t)
  <2>1. /\ Goto(t, "scan") /\ UNCHANGED <<tables, req, writes>> /\ UNCHANGED <<seen, target>>
    BY <1>6 DEF Latest
  <2>2. "scan" \in Waiting \ {"commit"} /\ "scan" \notin AfterWrite \cup AfterEntry
    BY DEF Waiting, AfterWrite, AfterEntry, AfterHead, AfterAuditLock
  <2> QED BY <1>1, <2>1, <2>2, ReadOwn
<1>7. CASE Scan(t)
  <2>1. /\ Goto(t, "recheck") /\ UNCHANGED <<tables, req, writes>> /\ UNCHANGED seen
        /\ \A u \in Txns \ {t} : target'[u] = target[u]
    BY <1>7 DEF Scan, Known, RowsInv, TypeOK
  <2>2. "recheck" \in Waiting \ {"commit"} /\ "recheck" \notin AfterWrite \cup AfterEntry
    BY DEF Waiting, AfterWrite, AfterEntry, AfterHead, AfterAuditLock
  <2>3. \A u \in Txns \ {t} : seen'[u] = seen[u] /\ target'[u] = target[u]
    BY <2>1
  <2> QED BY <1>1, <2>1, <2>2, <2>3, ReadOwn
<1>8. CASE Recheck(t)
  <2> DEFINE next == IF op(t) = "publish" THEN "pubInsert" ELSE "auditLock"
             pubs == {Changed(t, p) : p \in StillActive(t)}
  <2>1. /\ pc[t] = "recheck" /\ Goto(t, next) /\ (StillActive(t) # {} \/ op(t) = "publish")
        /\ newPubs' = [newPubs EXCEPT ![t] = pubs]
        /\ UNCHANGED <<tables, req, seen, target, newRow, newVersion, newAudit>>
    BY <1>8 DEF Recheck
  <2>2. newPubs'[t] = pubs /\ \A u \in Txns \ {t} : newPubs'[u] = newPubs[u]
    BY <2>1 DEF Known, RowsInv, TypeOK
  <2>3. next \in {"pubInsert", "auditLock"} /\ pc'[t] = next
    BY <2>1 DEF Known, RowsInv, TypeOK, Goto
  <2>4. ASSUME NEW p \in StillActive(t) PROVE p \in Active /\ p.exp = exp(t)
    BY <2>1 DEF StillActive, Active, Known, PubsInv, ScannedExist, OneRowPerId
  <2>5. \A p : Changed(t, p)' = Changed(t, p)
    BY <1>4 DEF Changed
  <2>6. Active' = Active
    BY <2>1 DEF Active
  <2>7. \A q \in newPubs'[t] : \E p \in Active' : p.exp = exp(t)' /\ q = Changed(t, p)'
    <3> SUFFICES ASSUME NEW q \in pubs
                 PROVE  \E p \in Active : p.exp = exp(t) /\ q = Changed(t, p)
      BY <1>4, <2>2, <2>5, <2>6
    <3> QED BY <2>4
  <2>8. (op(t) # "publish" => newPubs'[t] # {}) /\ (op(t) = "publish" => next \notin AfterWrite)
    BY <2>1, <2>2 DEF AfterWrite
  <2>9. EmbedOf(t)'
    <3> HIDE DEF next, pubs
    <3>1. (op(t) \in Publishing)'
      BY <1>3, <1>4 DEF Publishing
    <3>2. (pc[t] \in AfterWrite /\ op(t) = "publish" => FALSE)'
      BY <1>4, <2>3, <2>8 DEF AfterWrite
    <3> QED BY <1>4, <2>7, <2>8, <3>1, <3>2 DEF EmbedOf
  <2> HIDE DEF next, pubs
  <2> QED BY <1>5, <2>1, <2>2, <2>3, <2>9
<1>9. CASE RecheckRefused(t)
  BY <1>0, <1>1, <1>9, EndOwn DEF RecheckRefused
<1>10. CASE PubInsert(t)
  <2>1. CASE End(t, "clash")
    BY <1>0, <1>1, <2>1, EndOwn
  <2>2. CASE ~End(t, "clash")
    <3> DEFINE new == [id |-> t, exp |-> exp(t), no |-> latest[t],
                       content |-> The(seen[t]).content, key |-> t, active |-> TRUE]
    <3>1. /\ pc[t] = "pubInsert" /\ Goto(t, "auditLock")
          /\ newPubs' = [newPubs EXCEPT ![t] = @ \cup {new}]
          /\ UNCHANGED <<tables, req, seen, target, newRow, newVersion, newAudit>>
      BY <1>10, <2>2 DEF PubInsert
    <3>2. newPubs'[t] = newPubs[t] \cup {new} /\ \A u \in Txns \ {t} : newPubs'[u] = newPubs[u]
      BY <3>1 DEF Known, RowsInv, TypeOK
    <3>3. new.id = t /\ new.exp = exp(t) /\ new.key = t /\ new.active
      OBVIOUS
    <3> HIDE DEF new
    <3>4. op(t) = "publish"
      <4>1. "pubInsert" \in Program(op(t))
        BY <3>1 DEF Known, RowsInv, OnProgram, Ended
      <4> QED BY <4>1 DEF Program
    <3>5. Active' = Active /\ \A p : Changed(t, p)' = Changed(t, p)
      BY <1>4, <3>1 DEF Active, Changed
    <3>6. EmbedOf(t)'
      BY <1>3, <1>4, <3>2, <3>3, <3>4, <3>5 DEF Own, EmbedOf, Publishing
    <3> QED BY <1>5, <3>1, <3>2, <3>6
  <2> QED BY <2>1, <2>2
<1> QED BY <1>6, <1>7, <1>8, <1>9, <1>10 DEF Publish

\* A COMMIT leaves what the others' pending writes start from.
LEMMA CommitOwn ==
    ASSUME Known, NEW t \in Txns, \A u \in Txns : Own(u), Commit(t)
    PROVE  \A u \in Txns : Own(u)'
<1>1. /\ rows' = {r \in rows : \A w \in newRow[t] : w.exp # r.exp} \cup newRow[t]
      /\ versions' = versions \cup newVersion[t] /\ audit' = audit \cup newAudit[t]
      /\ publications' = {p \in publications : \A q \in newPubs[t] : q.id # p.id} \cup newPubs[t]
      /\ UNCHANGED req
  BY DEF Commit
<1>2. /\ pc'[t] = "ok" /\ newRow'[t] = {} /\ newVersion'[t] = {} /\ newPubs'[t] = {}
      /\ \A u \in Txns \ {t} :
             /\ pc'[u] = pc[u] /\ seen'[u] = seen[u] /\ target'[u] = target[u]
             /\ newRow'[u] = newRow[u] /\ newVersion'[u] = newVersion[u]
             /\ newAudit'[u] = newAudit[u] /\ newPubs'[u] = newPubs[u]
  BY DEF Commit, Release, Known, RowsInv, TypeOK
<1>3. Own(t)'
  BY <1>2 DEF Own, RowOf, SourceOf, VersionOf, EntryOf, EmbedOf,
     AfterWrite, AfterEntry, AfterHead, AfterAuditLock
<1>4. ASSUME NEW u \in Txns \ {t} PROVE Own(u)'
  <2>1. op(u)' = op(u) /\ exp(u)' = exp(u) /\ Own(u)
    BY <1>1 DEF op, exp
  <2>2. \A r : (Matches(u, r)' <=> Matches(u, r)) /\ Updated(u, r)' = Updated(u, r)
    BY <1>2, <2>1 DEF Matches, Actions, Updated, ToState, FromState, Event, Transitions, States
  <2>3. RowOf(u)'
    <3>1. \A w \in newRow[u] : \A x \in newRow[t] : x.exp # w.exp
      BY DEF Known, MovesInv, RowLocked
    <3>2. ASSUME NEW w \in newRow[u]
          PROVE  /\ \A r \in rows : r.exp = w.exp => r \in rows'
                 /\ \A r \in rows' : r.exp = w.exp => r \in rows
      BY <1>1, <3>1
    <3>3. ASSUME NEW w \in newRow[u]
          PROVE  /\ pc'[u] \in AfterWrite /\ w.exp = exp(u)
                 /\ \/ /\ op(u) = "create" /\ \A r \in rows' : r.exp # exp(u)
                       /\ w.content = u /\ w.state \in NewStates /\ ~w.deleted
                    \/ /\ op(u) \in Writing
                       /\ \E r \in rows' :
                              /\ Matches(u, r) /\ w = Updated(u, r)
                              /\ op(u) \in Actions => <<r.state, op(u), w.state>> \in Transitions
      <4>1. /\ pc'[u] \in AfterWrite /\ w.exp = exp(u)
            /\ \/ /\ op(u) = "create" /\ Found(u) = {}
                  /\ w.content = u /\ w.state \in NewStates /\ ~w.deleted
               \/ /\ op(u) \in Writing
                       /\ \E r \in rows :
                              /\ Matches(u, r) /\ w = Updated(u, r)
                              /\ op(u) \in Actions => <<r.state, op(u), w.state>> \in Transitions
        BY <1>2, <2>1 DEF Own, RowOf
      <4>2. \A r : Matches(u, r) => r.exp = exp(u)
        BY DEF Matches
      <4>3. Found(u) = {} => \A r \in rows' : r.exp # exp(u)
        BY <3>2, <4>1 DEF Found
      <4> QED BY <3>2, <4>1, <4>2, <4>3
    <3>4. Transitions' = Transitions
      BY DEF Transitions, States
    <3>5. Writing' = Writing /\ Actions' = Actions /\ AfterWrite' = AfterWrite
      BY DEF Writing, Actions, AfterWrite
    <3>6. pc'[u] \in AfterWrite /\ op(u) \in Writing \cup {"create"} => newRow'[u] # {}
      BY <1>2, <2>1 DEF Own, RowOf
    <3> QED BY <1>2, <2>1, <2>2, <3>3, <3>4, <3>5, <3>6 DEF RowOf, Found
  <2>4. SourceOf(u)'
    <3>1. \A e, c, s : HasVersion(e, c, s) => HasVersion(e, c, s)'
      BY <1>1 DEF HasVersion
    <3> QED BY <1>1, <1>2, <2>1, <3>1 DEF Own, SourceOf, AfterWrite
  <2>5. VersionOf(u)'
    BY <1>2, <2>1 DEF Own, VersionOf, Versioned, Actions, Edits, Returned
  <2>6. EntryOf(u)'
    <3>1. \A a \in newAudit[t] : a.hash = t
      BY DEF Known, AuditInv, HeadIsCurrent, NextEntry
    <3> QED BY <1>1, <1>2, <2>1, <3>1 DEF Own, EntryOf, AfterEntry, AfterHead, AfterAuditLock
  <2>7. EmbedOf(u)'
    <3>1. \A p : Changed(u, p)' = Changed(u, p)
      BY <2>1 DEF Changed
    <3>2. ASSUME NEW q \in newPubs[u], NEW p \in Active, q = Changed(u, p)
          PROVE  p \in Active'
      <4>1. p \in Publication /\ p.id = q.id
        BY <3>2 DEF Known, RowsInv, TypeOK, Active, Publication, Changed
      <4>2. \A r \in newPubs[t] : r.id # q.id
        BY DEF Known, PubsInv, PendingPubs
      <4> QED BY <1>1, <4>1, <4>2 DEF Active
    <3>3. \A q \in newPubs'[u] :
              \/ /\ op(u) = "publish" /\ q.id = u /\ q.exp = exp(u) /\ q.key = u /\ q.active
              \/ \E p \in Active' : p.exp = exp(u) /\ q = Changed(u, p)
      BY <1>2, <2>1, <3>2 DEF Own, EmbedOf
    <3> QED BY <1>2, <2>1, <3>1, <3>3 DEF Own, EmbedOf, Publishing, AfterWrite
  <2> QED BY <2>3, <2>4, <2>5, <2>6, <2>7 DEF Own
<1> QED BY <1>3, <1>4

\* Every step keeps every transaction's part.
LEMMA OwnStays ==
    ASSUME Known, \A t \in Txns : Own(t), [Next]_vars
    PROVE  \A t \in Txns : Own(t)'
<1>1. CASE UNCHANGED vars
  <2>1. UNCHANGED <<tables, req>> /\ UNCHANGED <<pc, seen, target, newRow, newVersion, newAudit, newPubs>>
    BY <1>1 DEF vars, reads, writes
  <2> QED BY <2>1, OthersOwn
<1>2. ASSUME NEW t \in Txns, Find(t) \/ Statement(t) \/ Lose(t) PROVE \A u \in Txns : Own(u)'
  <2>1. CASE Lose(t)
    <3>1. pc[t] # "ok" /\ "lost" \in Ended \ {"ok"} /\ End(t, "lost")
      BY <2>1 DEF Lose, Waiting, Ended
    <3> QED BY <3>1, EndOwn
  <2> QED BY <1>2, <2>1, FindOwn, WriteOwn, PublishOwn, AppendOwn, CommitOwn DEF Statement
<1> QED BY <1>1, <1>2 DEF Next

----------------------------------------------------------------------------
(* The log and the histories: sequences that a COMMIT extends by one.      *)

\* A function on 1 .. n is a sequence.
LEMMA FunctionIsSeq ==
    ASSUME NEW S, NEW n \in Nat, NEW f \in [1 .. n -> S]
    PROVE  f \in Seq(S) /\ Len(f) = n
OBVIOUS

\* A sequence with one element more at its end.
LEMMA Grown ==
    ASSUME NEW S, NEW n \in Nat, NEW f \in [1 .. n -> S], NEW g \in [1 .. n + 1 -> S],
           \A i \in 1 .. n : g[i] = f[i]
    PROVE  g = Append(f, g[n + 1])
<1>1. f \in Seq(S) /\ Len(f) = n
  BY FunctionIsSeq
<1>2. g \in Seq(S) /\ Len(g) = n + 1
  BY FunctionIsSeq
<1>3. g[n + 1] \in S
  OBVIOUS
<1>4. /\ Append(f, g[n + 1]) \in Seq(S) /\ Len(Append(f, g[n + 1])) = n + 1
      /\ \A i \in 1 .. n : Append(f, g[n + 1])[i] = f[i]
      /\ Append(f, g[n + 1])[n + 1] = g[n + 1]
  BY <1>1, <1>3, AppendProperties
<1>5. \A i \in 1 .. Len(g) : g[i] = Append(f, g[n + 1])[i]
  BY <1>2, <1>4
<1> QED BY <1>2, <1>4, <1>5, SeqEqual

\* The chain has an entry at every position from 1 to its length.
Filled ==
    \E n \in Nat :
        /\ \A a \in audit : a.pos \in 1 .. n
        /\ \A i \in 1 .. n : \E a \in audit : a.pos = i

LEMMA FilledInit == Init => Filled
<1> SUFFICES ASSUME Init PROVE Filled
  OBVIOUS
<1>1. audit = {[pos |-> 1, prev |-> Genesis, hash |-> Seed] : e \in Seeded}
  BY DEF Init
<1>2. CASE Seeded = {}
  <2>1. audit = {}
    BY <1>1, <1>2
  <2>2. \A i \in 1 .. 0 : FALSE
    OBVIOUS
  <2> QED BY <2>1, <2>2 DEF Filled
<1>3. CASE Seeded # {}
  <2>1. audit = {[pos |-> 1, prev |-> Genesis, hash |-> Seed]}
    BY <1>1, <1>3
  <2>2. \A i \in 1 .. 1 : i = 1
    OBVIOUS
  <2> QED BY <2>1, <2>2 DEF Filled
<1> QED BY <1>2, <1>3

\* What a transaction commits to the chain takes the position after its last.
LEMMA EntryFollows ==
    ASSUME Known, NEW t \in Txns, Commit(t), NEW n \in Nat, ChainOf(n)
    PROVE  \A a \in newAudit[t] : a.pos = n + 1 /\ a.hash = t
<1>1. head[t] = ChainHead /\ (newAudit[t] = {} \/ newAudit[t] = {NextEntry(t)})
  <2>1. pc[t] = "commit" /\ "commit" \in AfterHead
    BY DEF Commit, AfterHead, AfterAuditLock
  <2> QED BY <2>1 DEF Known, AuditInv, HeadIsCurrent
<1>2. NextEntry(t).pos = n + 1 /\ NextEntry(t).hash = t
  <2>1. CASE n = 0
    BY <1>1, <2>1, HeadOfChain DEF Known, AuditInv, NextEntry
  <2>2. CASE n # 0
    <3>1. PICK h \in audit : h.pos = n /\ ChainHead = {h}
      BY <2>2, HeadOfChain DEF Known, AuditInv
    <3> QED BY <1>1, <3>1 DEF NextEntry, The
  <2> QED BY <2>1, <2>2
<1> QED BY <1>1, <1>2

\* A chain without gaps is one whose last position is its length.
LEMMA FilledIsChain ==
    ASSUME NEW n \in Nat, \A a \in audit : a.pos \in 1 .. n,
           \A i \in 1 .. n : \E a \in audit : a.pos = i
    PROVE  ChainOf(n)
BY DEF ChainOf

\* A COMMIT adds the next position, other steps none.
LEMMA FilledStays == ASSUME Known, Filled, [Next]_vars PROVE Filled'
<1>1. CASE UNCHANGED tables
  BY <1>1 DEF tables, Filled
<1>2. ASSUME NEW t \in Txns, Commit(t) PROVE Filled'
  <2>1. PICK n \in Nat : /\ \A a \in audit : a.pos \in 1 .. n
                         /\ \A i \in 1 .. n : \E a \in audit : a.pos = i
    BY DEF Filled
  <2>2. audit' = audit \cup newAudit[t]
    BY <1>2 DEF Commit
  <2>3. \A a \in newAudit[t] : a.pos = n + 1
    BY <1>2, <2>1, FilledIsChain, EntryFollows
  <2>4. CASE newAudit[t] = {}
    BY <2>1, <2>2, <2>4 DEF Filled
  <2>5. CASE newAudit[t] # {}
    <3>1. \A a \in audit' : a.pos \in 1 .. n + 1
      BY <2>1, <2>2, <2>3
    <3>2. \A i \in 1 .. n + 1 : i \in 1 .. n \/ i = n + 1
      OBVIOUS
    <3>3. \A i \in 1 .. n + 1 : \E a \in audit' : a.pos = i
      BY <2>1, <2>2, <2>3, <2>5, <3>2
    <3>4. n + 1 \in Nat
      OBVIOUS
    <3> QED BY <3>1, <3>3, <3>4 DEF Filled
  <2> QED BY <2>4, <2>5
<1> QED BY <1>1, <1>2, OnlyCommitWrites

\* COMMIT appends the request to the log, where it was not.
LEMMA LogAppends ==
    ASSUME Known, Filled, NEW t \in Txns, Own(t), Commit(t)
    PROVE  Log' = Append(Log, t) /\ \A i \in DOMAIN Log : Log[i] # t
<1>1. PICK n \in Nat : ChainOf(n) /\ \A i \in 1 .. n : \E b \in audit : b.pos = i
  BY FilledIsChain DEF Filled
<1>2. LogLength = n
  <2>1. CASE n = 0
    BY <1>1, <2>1, HeadOfChain DEF Known, AuditInv, LogLength
  <2>2. CASE n # 0
    <3>1. PICK a \in audit : a.pos = n /\ ChainHead = {a}
      BY <1>1, <2>2, HeadOfChain DEF Known, AuditInv
    <3> QED BY <3>1 DEF LogLength, The
  <2> QED BY <2>1, <2>2
<1> DEFINE a == NextEntry(t)
<1>3. /\ head[t] = ChainHead /\ newAudit[t] = {a} /\ audit' = audit \cup {a}
      /\ pc[t] # "ok"
  <2>1. pc[t] = "commit" /\ "commit" \in AfterHead /\ "commit" \in AfterEntry
    BY DEF Commit, AfterEntry, AfterHead, AfterAuditLock
  <2> QED BY <2>1 DEF Known, AuditInv, HeadIsCurrent, Own, EntryOf, Commit
<1>4. a.pos = n + 1 /\ a.hash = t
  BY <1>1, <1>3, EntryFollows
<1> HIDE DEF a
<1>5. \A b \in audit : b.pos \in 1 .. n /\ b.hash \in Requests /\ b.hash # t
  BY <1>1, <1>3 DEF ChainOf, Known, AuditInv, Chained, Entry, Own, EntryOf
<1>6. LogLength' = n + 1
  <2>1. {b \in audit' : \A c \in audit' : c.pos <= b.pos} = {a}
    <3>1. \A b \in audit : b.pos < a.pos /\ ~(a.pos <= b.pos) /\ b.pos <= a.pos
      BY <1>4, <1>5
    <3>2. a.pos <= a.pos
      BY <1>4
    <3> QED BY <1>3, <3>1, <3>2
  <2>2. ChainHead' = {a}
    BY <2>1 DEF ChainHead
  <2> QED BY <1>4, <2>2 DEF LogLength, The
<1>7. \A i \in 1 .. n : {b \in audit' : b.pos = i} = {b \in audit : b.pos = i}
  BY <1>3, <1>4
<1>8. {b \in audit' : b.pos = n + 1} = {a}
  BY <1>3, <1>4, <1>5
<1>9. \A i \in 1 .. n : \E b \in audit : {c \in audit : c.pos = i} = {b}
  <2> SUFFICES ASSUME NEW i \in 1 .. n
               PROVE  \E b \in audit : {c \in audit : c.pos = i} = {b}
    OBVIOUS
  <2>1. \E b \in audit : b.pos = i
    BY <1>1
  <2> QED BY <2>1 DEF Known, AuditInv, Chained, AuditChainIntact
<1>10. \A i \in 1 .. n : The({c \in audit : c.pos = i}).hash \in Requests \ {t}
  BY <1>5, <1>9 DEF The
<1>11. Log \in [1 .. n -> Requests] /\ \A i \in 1 .. n : Log[i] # t
  BY <1>2, <1>10 DEF Log
<1>12. /\ Log' \in [1 .. n + 1 -> Requests]
       /\ \A i \in 1 .. n : Log'[i] = Log[i]
       /\ Log'[n + 1] = t
  <2>1. \A i \in 1 .. n + 1 : i \in 1 .. n \/ i = n + 1
    OBVIOUS
  <2>2. Log' = [i \in 1 .. n + 1 |-> The({c \in audit' : c.pos = i}).hash]
    BY <1>6 DEF Log
  <2>3. ASSUME NEW i \in 1 .. n PROVE Log'[i] = Log[i]
    <3>1. Log'[i] = The({c \in audit' : c.pos = i}).hash
      BY <2>1, <2>2
    <3>2. Log[i] = The({c \in audit : c.pos = i}).hash
      BY <1>2 DEF Log
    <3> QED BY <1>7, <3>1, <3>2
  <2>4. Log'[n + 1] = t
    BY <1>4, <1>8, <2>2 DEF The
  <2>5. t \in Requests
    BY DEF Requests
  <2>6. \A i \in 1 .. n + 1 : Log'[i] \in Requests
    BY <1>11, <2>1, <2>3, <2>4, <2>5
  <2> QED BY <2>2, <2>3, <2>4, <2>6
<1>13. DOMAIN Log = 1 .. n
  BY <1>11
<1> QED BY <1>11, <1>12, <1>13, Grown

VersionColumns == [content : Requests, state : States]

\* A history lists the versions of its experience by their numbers.
LEMMA HistoryEntry ==
    ASSUME Known, NEW e \in Experiences
    PROVE  /\ LatestNo(e) \in Nat
           /\ History[e] \in [1 .. LatestNo(e) -> VersionColumns]
           /\ \A v \in versions : v.exp = e =>
                  /\ v.no \in 1 .. LatestNo(e)
                  /\ History[e][v.no] = [content |-> v.content, state |-> v.state]
<1>1. PICK n \in Nat : HistoryOf(e, n)
  BY DEF Known, VersionsInv, Histories
<1>2. LatestNo(e) = n
  BY <1>1, LatestOfHistory
<1> DEFINE Numbered(i) == {v \in versions : v.exp = e /\ v.no = i}
<1>3. ASSUME NEW i \in 1 .. n, NEW v \in versions, v.exp = e, v.no = i
      PROVE  /\ VersionNo(e, i) = v
             /\ v.content \in Requests /\ v.state \in States
  <2>1. Numbered(i) = {v}
    BY <1>3 DEF Known, VersionsInv, Histories, SameVersion
  <2>2. The(Numbered(i)) = v
    BY <2>1 DEF The
  <2>3. v \in Version
    BY DEF Known, RowsInv, TypeOK
  <2> QED BY <2>2, <2>3 DEF VersionNo, Version
<1> HIDE DEF Numbered
<1>4. History[e] = [i \in 1 .. n |->
                        [content |-> VersionNo(e, i).content, state |-> VersionNo(e, i).state]]
  BY <1>2 DEF History
<1>5. ASSUME NEW i \in 1 .. n PROVE History[e][i] \in VersionColumns
  <2>1. PICK v \in versions : v.exp = e /\ v.no = i
    BY <1>1 DEF HistoryOf
  <2> QED BY <1>3, <1>4, <2>1 DEF VersionColumns
<1>6. ASSUME NEW v \in versions, v.exp = e
      PROVE  /\ v.no \in 1 .. n
             /\ History[e][v.no] = [content |-> v.content, state |-> v.state]
  <2>1. v.no \in 1 .. n
    BY <1>1, <1>6 DEF HistoryOf
  <2>2. VersionNo(e, v.no) = v
    BY <1>3, <1>6, <2>1
  <2> QED BY <1>4, <2>1, <2>2
<1>7. History[e] \in [1 .. n -> VersionColumns]
  BY <1>4, <1>5
<1> QED BY <1>2, <1>6, <1>7

\* COMMIT appends the version of a request that keeps one to the history of its
\* experience, and to no other.
LEMMA HistoryAppends ==
    ASSUME Known, NEW t \in Txns, Commit(t), NEW v, newVersion[t] = {v}
    PROVE  History' = [History EXCEPT ![exp(t)] =
                           Append(@, [content |-> v.content, state |-> v.state])]
<1> DEFINE c == [content |-> v.content, state |-> v.state]
<1>0. PICK x \in Experiences, n \in Nat : x = exp(t) /\ n = LatestNo(x)
  <2>1. exp(t) \in Experiences
    BY DEF Known, VersionsInv, exp
  <2> QED BY <2>1, LatestIsNat DEF Known, VersionsInv
<1>1. /\ v.exp = x /\ v.no = n + 1 /\ v \in Version
      /\ versions' = versions \cup {v}
  BY <1>0 DEF Known, VersionsInv, PendingFollows, exp, RowsInv, TypeOK, Commit
<1>2. LatestNo(x)' = n + 1 /\ \A e \in Experiences \ {x} : LatestNo(e)' = LatestNo(e)
  <2>1. v.exp \in Experiences /\ v.no = LatestNo(v.exp) + 1
    BY <1>0, <1>1
  <2>2. /\ LatestNo(v.exp)' = v.no
        /\ \A e \in Experiences \ {v.exp} : LatestNo(e)' = LatestNo(e)
    BY <1>1, <2>1, VersionExtends DEF Known, VersionsInv
  <2> QED BY <1>1, <2>2
<1> HIDE DEF c
<1>4. ASSUME NEW e \in Experiences, NEW i \in 1 .. LatestNo(e)
      PROVE  VersionNo(e, i)' = VersionNo(e, i)
  <2>1. e # v.exp \/ i # v.no
    BY <1>0, <1>1
  <2>2. {w \in versions' : w.exp = e /\ w.no = i} = {w \in versions : w.exp = e /\ w.no = i}
    BY <1>1, <2>1
  <2> QED BY <2>2 DEF VersionNo
<1>5. ASSUME NEW e \in Experiences \ {x} PROVE History'[e] = History[e]
  <2>1. /\ History'[e] = [i \in 1 .. LatestNo(e)' |->
               [content |-> VersionNo(e, i)'.content, state |-> VersionNo(e, i)'.state]]
        /\ History[e] = [i \in 1 .. LatestNo(e) |->
               [content |-> VersionNo(e, i).content, state |-> VersionNo(e, i).state]]
    BY DEF History
  <2>2. LatestNo(e)' = LatestNo(e)
    BY <1>2, <1>5
  <2>3. \A i \in 1 .. LatestNo(e) : VersionNo(e, i)' = VersionNo(e, i)
    BY <1>4, <1>5
  <2> QED BY <2>1, <2>2, <2>3
<1>6. History'[x] = Append(History[x], c)
  <2>1. History[x] \in [1 .. n -> VersionColumns]
    BY <1>0, HistoryEntry
  <2>2. /\ History'[x] = [i \in 1 .. n + 1 |->
               [content |-> VersionNo(x, i)'.content, state |-> VersionNo(x, i)'.state]]
        /\ History[x] = [i \in 1 .. n |->
               [content |-> VersionNo(x, i).content, state |-> VersionNo(x, i).state]]
    BY <1>0, <1>1, <1>2 DEF History
  <2>3. History'[x][n + 1] = c
    <3>1. {w \in versions' : w.exp = x /\ w.no = n + 1} = {v}
      <4>1. \A w \in versions : w.exp = x => w.no \in 1 .. n
        BY <1>0, HistoryEntry
      <4>2. \A w \in versions : w.exp = x => w.no # n + 1
        BY <1>0, <4>1
      <4> QED BY <1>1, <4>2
    <3>2. VersionNo(x, n + 1)' = v
      BY <3>1 DEF VersionNo, The
    <3>3. n + 1 \in 1 .. n + 1
      BY <1>0
    <3> QED BY <2>2, <3>2, <3>3 DEF c
  <2>4. ASSUME NEW i \in 1 .. n PROVE History'[x][i] = History[x][i]
    <3>1. i \in 1 .. n + 1
      BY <1>0
    <3>2. VersionNo(x, i)' = VersionNo(x, i)
      BY <1>0, <1>1, <1>4
    <3> QED BY <2>2, <3>1, <3>2
  <2>5. c \in VersionColumns
    BY <1>1 DEF c, Version, VersionColumns
  <2>6. History'[x] \in [1 .. n + 1 -> VersionColumns]
    <3>1. \A i \in 1 .. n + 1 : i \in 1 .. n \/ i = n + 1
      BY <1>0
    <3>2. \A i \in 1 .. n : History[x][i] \in VersionColumns
      BY <2>1
    <3>3. \A i \in 1 .. n + 1 : History'[x][i] \in VersionColumns
      BY <2>3, <2>4, <2>5, <3>1, <3>2
    <3> QED BY <2>2, <3>3
  <2> QED BY <1>0, <2>1, <2>3, <2>4, <2>6, Grown
<1>7. x \in DOMAIN History /\ DOMAIN History = Experiences
  BY <1>0 DEF History
<1>8. History' = [e \in Experiences |-> History'[e]] /\ History = [e \in Experiences |-> History[e]]
  BY DEF History
<1>9. History' = [History EXCEPT ![x] = Append(@, c)]
  BY <1>5, <1>6, <1>7, <1>8
<1> QED BY <1>0, <1>9 DEF c

LEMMA HistoryKept == ASSUME versions' = versions PROVE History' = History
BY DEF History, LatestNo, VersionNo

Columns(r) == [content |-> r.content, state |-> r.state, deleted |-> r.deleted]

\* COMMIT replaces the record of the experience whose row is pending.
LEMMA RecordReplaced ==
    ASSUME Known, NEW t \in Txns, Commit(t), NEW w, newRow[t] = {w}
    PROVE  Record' = [Record EXCEPT ![exp(t)] = {Columns(w)}]
<1> DEFINE x == exp(t)
<1>1. /\ rows' = {r \in rows : r.exp # x} \cup {w} /\ w.exp = x /\ x \in Experiences
  BY DEF Commit, Known, RowsInv, WritesRow, TypeOK, exp
<1> HIDE DEF x
<1>2. {r \in rows' : r.exp = x} = {w}
  BY <1>1
<1>3. Record'[x] = {Columns(w)}
  <2>1. Record'[x] = {Columns(r) : r \in {y \in rows' : y.exp = x}}
    BY <1>1 DEF Record, Columns
  <2>2. Record'[x] = {Columns(r) : r \in {w}}
    BY <1>2, <2>1
  <2> QED BY <2>2
<1>4. ASSUME NEW e \in Experiences \ {x} PROVE Record'[e] = Record[e]
  <2>1. {r \in rows' : r.exp = e} = {r \in rows : r.exp = e}
    BY <1>1
  <2>2. Record'[e] = {Columns(r) : r \in {y \in rows' : y.exp = e}}
    BY DEF Record, Columns
  <2>3. Record[e] = {Columns(r) : r \in {y \in rows : y.exp = e}}
    BY DEF Record, Columns
  <2> QED BY <2>1, <2>2, <2>3
<1>5. Record' = [e \in Experiences |-> Record'[e]] /\ Record = [e \in Experiences |-> Record[e]]
  BY DEF Record
<1>6. Record' = [Record EXCEPT ![x] = {Columns(w)}]
  BY <1>1, <1>3, <1>4, <1>5
<1> QED BY <1>6 DEF x

LEMMA RecordKept == ASSUME rows' = rows PROVE Record' = Record
BY DEF Record

LEMMA CommitKeepsRow ==
    ASSUME NEW t \in Txns, Commit(t), newRow[t] = {}
    PROVE  rows' = rows
BY DEF Commit

EmbedColumns(p) == [content |-> p.content, key |-> p.key]

\* COMMIT replaces what is embedded by the one pending active publication, if any.
LEMMA EmbeddedReplaced ==
    ASSUME Known, NEW t \in Txns, Commit(t), NEW S, S = {q \in newPubs[t] : q.active},
           \A q \in newPubs[t] : q.exp = exp(t),
           \A p \in Active : p.exp = exp(t) => \E q \in newPubs[t] : q.id = p.id,
           \A q \in newPubs[t], p \in publications : q.id = p.id => p.exp = exp(t)
    PROVE  Embedded' = [Embedded EXCEPT ![exp(t)] = {EmbedColumns(q) : q \in S}]
<1> DEFINE x == exp(t)
<1>1. /\ publications' = {p \in publications : \A q \in newPubs[t] : q.id # p.id} \cup newPubs[t]
      /\ x \in Experiences
  BY DEF Commit, Known, RowsInv, TypeOK, exp
<1> HIDE DEF x
<1>2. {p \in Active' : p.exp = x} = S
  <2>1. \A p \in publications : p.active /\ p.exp = x => \E q \in newPubs[t] : q.id = p.id
    BY DEF x, Active
  <2> QED BY <1>1, <2>1 DEF Active, x
<1>3. Embedded'[x] = {EmbedColumns(q) : q \in S}
  <2>1. Embedded'[x] = {EmbedColumns(q) : q \in {p \in Active' : p.exp = x}}
    BY <1>1 DEF Embedded, EmbedColumns
  <2> QED BY <1>2, <2>1
<1>4. ASSUME NEW e \in Experiences \ {x} PROVE Embedded'[e] = Embedded[e]
  <2>1. {p \in Active' : p.exp = e} = {p \in Active : p.exp = e}
    BY <1>1 DEF Active, x
  <2>2. Embedded'[e] = {EmbedColumns(q) : q \in {p \in Active' : p.exp = e}}
    BY DEF Embedded, EmbedColumns
  <2>3. Embedded[e] = {EmbedColumns(q) : q \in {p \in Active : p.exp = e}}
    BY DEF Embedded, EmbedColumns
  <2> QED BY <2>1, <2>2, <2>3
<1>5. /\ Embedded' = [e \in Experiences |-> Embedded'[e]]
      /\ Embedded = [e \in Experiences |-> Embedded[e]]
  BY DEF Embedded
<1>6. Embedded' = [Embedded EXCEPT ![x] = {EmbedColumns(q) : q \in S}]
  BY <1>1, <1>3, <1>4, <1>5
<1> QED BY <1>6 DEF x

LEMMA EmbeddedKept == ASSUME publications' = publications PROVE Embedded' = Embedded
BY DEF Embedded, Active

----------------------------------------------------------------------------
(* A COMMIT is one operation, by what its transaction is to commit.        *)

\* A request that keeps a version has one pending at its COMMIT, of the row it holds.
LEMMA PendingVersion ==
    ASSUME Known, NEW t \in Txns, Own(t), Commit(t)
    PROVE  /\ Versioned(op(t)) =>
                  \E v : /\ newVersion[t] = {v}
                         /\ v.content = Returned(t).content /\ v.state = Returned(t).state
           /\ ~Versioned(op(t)) => newVersion[t] = {}
<1>1. pc[t] = "commit"
  BY DEF Commit
<1>2. CASE Versioned(op(t))
  <2>1. newVersion[t] # {} /\ \A v, w \in newVersion[t] : v = w
    BY <1>1, <1>2 DEF Own, VersionOf, Known, VersionsInv, PendingFollows
  <2>2. PICK v \in newVersion[t] : TRUE
    BY <2>1
  <2>3. newVersion[t] = {v}
    BY <2>1, <2>2
  <2> QED BY <1>2, <2>2, <2>3 DEF Own, VersionOf
<1>3. CASE ~Versioned(op(t))
  BY <1>3 DEF Own, VersionOf
<1> QED BY <1>2, <1>3

\* Requests about publications commit no row, the others no publication.
LEMMA PendingRow ==
    ASSUME Known, NEW t \in Txns, Own(t), Commit(t)
    PROVE  /\ op(t) \in Writing \cup {"create"} => \E w : newRow[t] = {w}
           /\ op(t) \notin Writing \cup {"create"} => newRow[t] = {}
           /\ op(t) \notin Publishing => publications' = publications
<1>1. pc[t] = "commit" /\ "commit" \in AfterWrite
  BY DEF Commit, AfterWrite
<1>2. ASSUME op(t) \in Writing \cup {"create"} PROVE \E w : newRow[t] = {w}
  <2>1. PICK w \in newRow[t] : TRUE
    BY <1>1, <1>2 DEF Own, RowOf
  <2>2. newRow[t] = {w}
    BY <2>1 DEF Known, RowsInv, WritesRow
  <2> QED BY <2>2
<1>3. op(t) \notin Writing \cup {"create"} => newRow[t] = {}
  BY DEF Own, RowOf
<1>4. ASSUME op(t) \notin Publishing PROVE publications' = publications
  <2>1. newPubs[t] = {}
    BY <1>4 DEF Own, EmbedOf
  <2> QED BY <2>1 DEF Commit
<1>5. op(t) \in Writing \cup {"create"} => \E w : newRow[t] = {w}
  BY <1>2
<1> QED BY <1>3, <1>4, <1>5

\* A COMMIT of a row and its version.
LEMMA RowBecomes ==
    ASSUME Known, NEW t \in Txns, Own(t), Commit(t), NEW w, newRow[t] = {w},
           Versioned(op(t)), op(t) \notin Publishing
    PROVE  Governed!Becomes(exp(t), Columns(w))
<1>1. Record' = [Record EXCEPT ![exp(t)] = {Columns(w)}]
  BY RecordReplaced
<1>2. PICK v : newVersion[t] = {v} /\ v.content = w.content /\ v.state = w.state
  <2>1. Returned(t) = w
    BY DEF Returned, The
  <2> QED BY <2>1, PendingVersion
<1>3. History' = [History EXCEPT ![exp(t)] =
                      Append(@, [content |-> v.content, state |-> v.state])]
  BY <1>2, HistoryAppends
<1>4. Governed!Copy(Columns(w)) = [content |-> v.content, state |-> v.state]
  BY <1>2 DEF Governed!Copy, Columns
<1>5. Embedded' = Embedded
  BY PendingRow, EmbeddedKept
<1> QED BY <1>1, <1>3, <1>4, <1>5 DEF Governed!Becomes

\* The row a request matched is the record that stands.
LEMMA MatchedStands ==
    ASSUME Known, NEW t \in Txns, NEW r \in rows, Matches(t, r)
    PROVE  /\ exp(t) \in Experiences
           /\ Columns(r) \in Governed!Standing(exp(t))
<1>1. exp(t) \in Experiences
  BY DEF Known, VersionsInv, exp
<1>2. Columns(r) \in Record[exp(t)]
  BY <1>1 DEF Record, Columns, Matches
<1> QED BY <1>1, <1>2 DEF Governed!Standing, Columns, Matches

\* The operations of GovernedCatalog, one per endpoint.
LEMMA CommitCreate ==
    ASSUME Known, NEW t \in Txns, Own(t), Commit(t), op(t) = "create"
    PROVE  Governed!Create(t, exp(t))
<1>1. PICK w : newRow[t] = {w}
  BY PendingRow
<1>2. Found(t) = {} /\ w.content = t /\ w.state \in NewStates /\ ~w.deleted
  BY <1>1 DEF Own, RowOf, Writing, Actions
<1>3. Record[exp(t)] = {}
  BY <1>2 DEF Record, Found, Known, VersionsInv, exp
<1>4. w.deleted = FALSE
  BY <1>1, <1>2 DEF Known, RowsInv, TypeOK, Row
<1>5. Columns(w) = Governed!New(t, w.state)
  BY <1>2, <1>4 DEF Columns, Governed!New
<1>6. Versioned(op(t)) /\ op(t) \notin Publishing
  BY DEF Versioned, Publishing
<1> QED BY <1>1, <1>2, <1>3, <1>5, <1>6, RowBecomes DEF Governed!Create

\* What an UPDATE is to commit is made of the committed row it matched.
LEMMA PendingUpdate ==
    ASSUME Known, NEW t \in Txns, Own(t), Commit(t), op(t) \in Writing
    PROVE  \E r \in rows : Matches(t, r) /\ newRow[t] = {Updated(t, r)}
<1>1. PICK w : newRow[t] = {w}
  BY PendingRow
<1> QED BY <1>1 DEF Own, RowOf, Writing, Actions

\* The columns of a tombstone.
LEMMA Deleted ==
    ASSUME NEW c \in [content : Requests, state : States, deleted : BOOLEAN]
    PROVE  [c EXCEPT !.deleted = TRUE] =
               [content |-> c.content, state |-> c.state, deleted |-> TRUE]
<1> DEFINE d == [c EXCEPT !.deleted = TRUE]
<1>1. d \in [content : Requests, state : States, deleted : BOOLEAN]
  OBVIOUS
<1>2. d.content = c.content /\ d.state = c.state /\ d.deleted = TRUE
  OBVIOUS
<1> HIDE DEF d
<1>3. d = [content |-> d.content, state |-> d.state, deleted |-> d.deleted]
  BY <1>1
<1>4. d = [content |-> c.content, state |-> c.state, deleted |-> TRUE]
  BY <1>2, <1>3
<1> QED BY <1>4 DEF d

\* The columns an UPDATE sets, per endpoint.
LEMMA UpdatedColumns ==
    ASSUME Known, NEW t \in Txns, NEW r \in rows
    PROVE  /\ op(t) = "patch" =>
                  Columns(Updated(t, r)) = [Columns(r) EXCEPT !.content = t]
           /\ op(t) = "rollback" =>
                  /\ Columns(Updated(t, r)) = [Columns(r) EXCEPT !.content = Updated(t, r).content]
                  /\ Updated(t, r).content = The(target[t]).content
           /\ op(t) = "delete" =>
                  Columns(Updated(t, r)) = [Columns(r) EXCEPT !.deleted = TRUE]
           /\ op(t) \in Actions =>
                  Columns(Updated(t, r)) = [Columns(r) EXCEPT !.state = Updated(t, r).state]
<1> DEFINE w == Updated(t, r)
<1>1. r \in Row
  BY DEF Known, RowsInv, TypeOK
<1>2. op(t) = "patch" => w.content = t /\ w.state = r.state /\ w.deleted = r.deleted
  BY <1>1 DEF Updated, Row
<1>3. op(t) = "rollback" =>
          w.content = The(target[t]).content /\ w.state = r.state /\ w.deleted = r.deleted
  BY <1>1 DEF Updated, Row
<1>4. op(t) = "delete" => w.content = r.content /\ w.state = r.state /\ w.deleted = TRUE
  BY <1>1 DEF Updated, Row
<1>5. op(t) \in Actions => w.content = r.content /\ w.deleted = r.deleted
  BY <1>1 DEF Updated, Row, Actions
<1> HIDE DEF w
<1>6. op(t) = "patch" => Columns(w) = [Columns(r) EXCEPT !.content = t]
  BY <1>2 DEF Columns
<1>7. op(t) = "rollback" => Columns(w) = [Columns(r) EXCEPT !.content = w.content]
  BY <1>3 DEF Columns
<1>8. op(t) = "delete" => Columns(w) = [Columns(r) EXCEPT !.deleted = TRUE]
  <2> DEFINE d == [content |-> r.content, state |-> r.state, deleted |-> TRUE]
  <2>1. op(t) = "delete" => Columns(w) = d
    BY <1>4 DEF Columns
  <2>2. Columns(r) \in [content : Requests, state : States, deleted : BOOLEAN]
    BY <1>1 DEF Columns, Row
  <2>3. Columns(r).content = r.content /\ Columns(r).state = r.state
    BY DEF Columns
  <2> HIDE DEF Columns
  <2>4. [Columns(r) EXCEPT !.deleted = TRUE] = d
    BY <2>2, <2>3, Deleted
  <2> QED BY <2>1, <2>4
<1>9. op(t) \in Actions => Columns(w) = [Columns(r) EXCEPT !.state = w.state]
  BY <1>5 DEF Columns
<1> QED BY <1>3, <1>6, <1>7, <1>8, <1>9 DEF w

LEMMA CommitPatch ==
    ASSUME Known, NEW t \in Txns, Own(t), Commit(t), op(t) = "patch"
    PROVE  Governed!Patch(t, exp(t))
<1>1. PICK r \in rows : Matches(t, r) /\ newRow[t] = {Updated(t, r)}
  BY PendingUpdate DEF Writing
<1>2. Columns(Updated(t, r)) = [Columns(r) EXCEPT !.content = t]
  BY UpdatedColumns
<1>3. Versioned(op(t)) /\ op(t) \notin Publishing
  BY DEF Versioned, Edits, Publishing
<1>4. Governed!Becomes(exp(t), [Columns(r) EXCEPT !.content = t])
  BY <1>1, <1>2, <1>3, RowBecomes
<1> QED BY <1>1, <1>4, MatchedStands DEF Governed!Patch

LEMMA CommitRollback ==
    ASSUME Known, NEW t \in Txns, Own(t), Commit(t), op(t) = "rollback"
    PROVE  Governed!Rollback(exp(t))
<1>1. PICK r \in rows : Matches(t, r) /\ newRow[t] = {Updated(t, r)}
  BY PendingUpdate DEF Writing
<1> DEFINE v == The(target[t])
<1>2. v \in versions /\ v.exp = exp(t)
  BY TheIsIn DEF Own, SourceOf, Commit, AfterWrite
<1>3. PICK i \in DOMAIN History[exp(t)] : History[exp(t)][i].content = v.content
  <2>1. exp(t) \in Experiences
    BY <1>1, MatchedStands
  <2> HIDE DEF v
  <2>2. /\ v.no \in DOMAIN History[exp(t)]
        /\ History[exp(t)][v.no] = [content |-> v.content, state |-> v.state]
    BY <1>2, <2>1, HistoryEntry
  <2> QED BY <2>2
<1>4. Columns(Updated(t, r)) = [Columns(r) EXCEPT !.content = v.content]
  BY UpdatedColumns
<1>5. Versioned(op(t)) /\ op(t) \notin Publishing
  BY DEF Versioned, Edits, Publishing
<1> HIDE DEF v
<1>6. Governed!Becomes(exp(t), [Columns(r) EXCEPT !.content = History[exp(t)][i].content])
  BY <1>1, <1>3, <1>4, <1>5, RowBecomes
<1> QED BY <1>1, <1>3, <1>6, MatchedStands DEF Governed!Rollback

LEMMA CommitTransition ==
    ASSUME Known, NEW t \in Txns, Own(t), Commit(t), op(t) \in Actions
    PROVE  Governed!Transition(exp(t))
<1>1. PICK w : newRow[t] = {w}
  BY PendingRow DEF Writing
<1>2. PICK r \in rows : /\ Matches(t, r) /\ w = Updated(t, r)
                        /\ <<r.state, op(t), w.state>> \in Transitions
  BY <1>1 DEF Own, RowOf, Actions
<1>3. Columns(w) = [Columns(r) EXCEPT !.state = w.state]
  BY <1>2, UpdatedColumns
<1>4. Versioned(op(t)) /\ op(t) \notin Publishing
  BY DEF Versioned, Actions, Publishing
<1>5. Governed!Becomes(exp(t), [Columns(r) EXCEPT !.state = w.state])
  BY <1>1, <1>3, <1>4, RowBecomes
<1> DEFINE move == <<r.state, op(t), w.state>>
<1>6. move \in Transitions /\ move[1] = Columns(r).state /\ move[3] = w.state
  BY <1>2 DEF Columns
<1> HIDE DEF move
<1> QED BY <1>2, <1>5, <1>6, MatchedStands DEF Governed!Transition

LEMMA CommitDelete ==
    ASSUME Known, NEW t \in Txns, Own(t), Commit(t), op(t) = "delete"
    PROVE  Governed!Delete(exp(t))
<1>1. PICK r \in rows : Matches(t, r) /\ newRow[t] = {Updated(t, r)}
  BY PendingUpdate DEF Writing
<1>2. Columns(Updated(t, r)) = [Columns(r) EXCEPT !.deleted = TRUE]
  BY UpdatedColumns
<1>3. ~Versioned(op(t)) /\ op(t) \notin Publishing
  BY DEF Versioned, Actions, Edits, Publishing
<1>4. versions' = versions /\ publications' = publications
  BY <1>3, PendingVersion, PendingRow DEF Commit
<1>5. Record' = [Record EXCEPT ![exp(t)] = {[Columns(r) EXCEPT !.deleted = TRUE]}]
  BY <1>1, <1>2, RecordReplaced
<1> QED BY <1>1, <1>4, <1>5, MatchedStands, HistoryKept, EmbeddedKept DEF Governed!Delete

\* What an empty patch appends is the copy of a version.
LEMMA RepeatsAVersion ==
    ASSUME Known, NEW t \in Txns, Own(t), Commit(t), op(t) = "emptyPatch"
    PROVE  \A v \in newVersion[t] : \E u \in versions :
               u.exp = exp(t) /\ u.content = v.content /\ u.state = v.state
<1>1. newRow[t] = {}
  BY PendingRow DEF Writing, Actions
<1>2. Returned(t) \in seen[t]
  BY <1>1, TheIsIn DEF Own, SourceOf, Commit, AfterWrite, Returned
<1>3. HasVersion(exp(t), Returned(t).content, Returned(t).state)
  BY <1>2 DEF Own, SourceOf, Commit, AfterWrite
<1>4. \A v \in newVersion[t] : v.content = Returned(t).content /\ v.state = Returned(t).state
  BY DEF Own, VersionOf
<1> QED BY <1>3, <1>4 DEF HasVersion

LEMMA CommitRepeat ==
    ASSUME Known, NEW t \in Txns, Own(t), Commit(t), op(t) = "emptyPatch"
    PROVE  Governed!Repeat(exp(t))
<1>1. newRow[t] = {} /\ Versioned(op(t)) /\ op(t) \notin Publishing
  BY PendingRow DEF Versioned, Edits, Writing, Actions, Publishing
<1>3. PICK v : newVersion[t] = {v} /\ v.content = Returned(t).content /\ v.state = Returned(t).state
  BY <1>1, PendingVersion
<1>4. PICK u \in versions : u.exp = exp(t) /\ u.content = v.content /\ u.state = v.state
  BY <1>3, RepeatsAVersion
<1>5. exp(t) \in Experiences
  BY DEF Known, VersionsInv, exp
<1>6. /\ u.no \in DOMAIN History[exp(t)]
      /\ History[exp(t)][u.no] = [content |-> v.content, state |-> v.state]
  BY <1>4, <1>5, HistoryEntry
<1>7. History' = [History EXCEPT ![exp(t)] =
                      Append(@, [content |-> v.content, state |-> v.state])]
  BY <1>3, HistoryAppends
<1>8. Record' = Record /\ Embedded' = Embedded
  BY <1>1, CommitKeepsRow, RecordKept, PendingRow, EmbeddedKept
<1> QED BY <1>6, <1>7, <1>8 DEF Governed!Repeat

\* An UPDATE of publications changes the key or ends it, of the one it found.
LEMMA ChangedColumns ==
    ASSUME Known, NEW t \in Txns, NEW p \in Active
    PROVE  /\ Changed(t, p).id = p.id /\ Changed(t, p).exp = p.exp
           /\ op(t) = "rotate" =>
                  /\ Changed(t, p).active
                  /\ EmbedColumns(Changed(t, p)) = [EmbedColumns(p) EXCEPT !.key = t]
           /\ op(t) # "rotate" => ~Changed(t, p).active
<1>1. p \in Publication /\ p.active
  BY DEF Active, Known, RowsInv, TypeOK
<1> DEFINE q == Changed(t, p)
<1>2. q.id = p.id /\ q.exp = p.exp
  BY <1>1 DEF Changed, Publication
<1>3. op(t) = "rotate" => q.active = p.active
  BY <1>1 DEF Changed, Publication
<1>4. op(t) = "rotate" => q.content = p.content /\ q.key = t
  BY <1>1 DEF Changed, Publication
<1>5. op(t) # "rotate" => q.active = FALSE
  BY <1>1 DEF Changed, Publication
<1> HIDE DEF q
<1>6. op(t) = "rotate" => EmbedColumns(q) = [EmbedColumns(p) EXCEPT !.key = t]
  BY <1>4 DEF EmbedColumns
<1> QED BY <1>1, <1>2, <1>3, <1>5, <1>6 DEF q

\* Unpublishing and rotating a key change the one publication that is active.
LEMMA CommitOfActive ==
    ASSUME Known, NEW t \in Txns, Own(t), Commit(t), op(t) \in {"unpublish", "rotate"}
    PROVE  \E p \in Active : p.exp = exp(t) /\ newPubs[t] = {Changed(t, p)}
<1>1. newPubs[t] # {} /\ op(t) # "publish"
  BY DEF Own, EmbedOf, Commit, AfterWrite
<1>2. \A q \in newPubs[t] : \E p \in Active : p.exp = exp(t) /\ q = Changed(t, p)
  BY <1>1 DEF Own, EmbedOf
<1>3. PICK q \in newPubs[t], p \in Active : p.exp = exp(t) /\ q = Changed(t, p)
  BY <1>1, <1>2
<1>4. \A r \in Active : r.exp = exp(t) => r = p
  BY <1>3 DEF Known, PubsInv, OneActivePublication
<1>5. \A r \in newPubs[t] : r = q
  BY <1>2, <1>3, <1>4
<1> QED BY <1>3, <1>5

\* What they leave embedded.
LEMMA CommitEmbeds ==
    ASSUME Known, NEW t \in Txns, Own(t), Commit(t), op(t) \in {"unpublish", "rotate"},
           NEW p \in Active, p.exp = exp(t), newPubs[t] = {Changed(t, p)}
    PROVE  Embedded' = [Embedded EXCEPT ![exp(t)] =
                            {EmbedColumns(q) : q \in {r \in newPubs[t] : r.active}}]
<1>1. \A q \in newPubs[t] : q.exp = exp(t) /\ q.id = p.id
  BY ChangedColumns
<1>2. \A r \in Active : r.exp = exp(t) => \E q \in newPubs[t] : q.id = r.id
  BY <1>1 DEF Known, PubsInv, OneActivePublication
<1>3. \A q \in newPubs[t], r \in publications : q.id = r.id => r.exp = exp(t)
  BY <1>1 DEF Known, PubsInv, OneRowPerId, Active
<1> DEFINE S == {r \in newPubs[t] : r.active}
<1>4. S = {r \in newPubs[t] : r.active}
  OBVIOUS
<1> HIDE DEF S
<1>5. Embedded' = [Embedded EXCEPT ![exp(t)] = {EmbedColumns(q) : q \in S}]
  BY <1>1, <1>2, <1>3, <1>4, EmbeddedReplaced
<1> QED BY <1>5 DEF S

\* They keep rows and versions as they are.
LEMMA PublishingKeeps ==
    ASSUME Known, NEW t \in Txns, Own(t), Commit(t), op(t) \in Publishing
    PROVE  Record' = Record /\ History' = History
<1>1. ~Versioned(op(t)) /\ op(t) \notin Writing \cup {"create"}
  BY DEF Publishing, Versioned, Writing, Actions, Edits
<1>2. rows' = rows /\ versions' = versions
  BY <1>1, PendingVersion, PendingRow, CommitKeepsRow DEF Commit
<1> QED BY <1>2, RecordKept, HistoryKept

\* The active publication is what is embedded.
LEMMA ActiveEmbedded ==
    ASSUME Known, NEW t \in Txns, NEW p \in Active, p.exp = exp(t)
    PROVE  EmbedColumns(p) \in Embedded[exp(t)]
<1>1. exp(t) \in Experiences
  BY DEF Known, VersionsInv, exp
<1> QED BY <1>1 DEF Embedded, EmbedColumns

LEMMA CommitUnpublish ==
    ASSUME Known, NEW t \in Txns, Own(t), Commit(t), op(t) = "unpublish"
    PROVE  Governed!Unpublish(exp(t))
<1>1. PICK p \in Active : p.exp = exp(t) /\ newPubs[t] = {Changed(t, p)}
  BY CommitOfActive
<1>2. {r \in newPubs[t] : r.active} = {}
  BY <1>1, ChangedColumns
<1>3. Embedded' = [Embedded EXCEPT ![exp(t)] = {}]
  BY <1>1, <1>2, CommitEmbeds
<1>4. Embedded[exp(t)] # {}
  BY <1>1, ActiveEmbedded
<1> QED BY <1>3, <1>4, PublishingKeeps DEF Governed!Unpublish, Publishing

LEMMA CommitRotate ==
    ASSUME Known, NEW t \in Txns, Own(t), Commit(t), op(t) = "rotate"
    PROVE  Governed!Rotate(t, exp(t))
<1>1. PICK p \in Active : p.exp = exp(t) /\ newPubs[t] = {Changed(t, p)}
  BY CommitOfActive
<1>2. {r \in newPubs[t] : r.active} = {Changed(t, p)}
  BY <1>1, ChangedColumns
<1>3. Embedded' = [Embedded EXCEPT ![exp(t)] = {EmbedColumns(Changed(t, p))}]
  BY <1>1, <1>2, CommitEmbeds
<1>4. EmbedColumns(Changed(t, p)) = [EmbedColumns(p) EXCEPT !.key = t]
  BY <1>1, ChangedColumns
<1>5. EmbedColumns(p) \in Embedded[exp(t)]
  BY <1>1, ActiveEmbedded
<1> QED BY <1>3, <1>4, <1>5, PublishingKeeps DEF Governed!Rotate, Publishing

\* Publishing embeds content that a version had when it was approved.
LEMMA CommitPublish ==
    ASSUME Known, NEW t \in Txns, Own(t), Commit(t), op(t) = "publish"
    PROVE  Governed!Publish(t, exp(t))
<1>1. PICK q \in newPubs[t] : q.id = t
  BY DEF Own, EmbedOf, Commit, AfterWrite
<1>2. \A p \in publications : p.id # t
  BY DEF Known, PubsInv, OneRowPerId, Commit
<1>3. \A r \in newPubs[t] :
          \/ r.id = t /\ r.exp = exp(t) /\ r.key = t /\ r.active
          \/ \E p \in Active : p.exp = exp(t) /\ r = Changed(t, p)
  BY DEF Own, EmbedOf
<1>4. ASSUME NEW r \in newPubs[t], r.id # t
      PROVE  ~r.active /\ r.exp = exp(t) /\ \E p \in Active : p.id = r.id /\ p.exp = exp(t)
  <2>1. PICK p \in Active : p.exp = exp(t) /\ r = Changed(t, p)
    BY <1>3, <1>4
  <2> QED BY <2>1, ChangedColumns
<1>5. \A r \in newPubs[t] : r.id = t => r = q
  BY <1>1 DEF Known, PubsInv, OneRowPerId
<1>6. q.exp = exp(t) /\ q.key = t /\ q.active
  <2>1. \A p \in Active : Changed(t, p).id = p.id /\ p \in publications
    BY ChangedColumns DEF Active
  <2> QED BY <1>1, <1>2, <1>3, <2>1
<1> DEFINE S == {r \in newPubs[t] : r.active}
<1>7. S = {q}
  BY <1>4, <1>5, <1>6
<1>8. Embedded' = [Embedded EXCEPT ![exp(t)] = {EmbedColumns(q)}]
  <2>1. \A r \in newPubs[t] : r.exp = exp(t)
    BY <1>4, <1>5, <1>6
  <2>2. \A p \in Active : p.exp = exp(t) => \E r \in newPubs[t] : r.id = p.id
    BY <1>6 DEF Known, PubsInv, ActiveIsReserved
  <2>3. \A r \in newPubs[t], p \in publications : r.id = p.id => p.exp = exp(t)
    BY <1>2, <1>4 DEF Known, PubsInv, OneRowPerId, Active
  <2>4. S = {r \in newPubs[t] : r.active}
    OBVIOUS
  <2> HIDE DEF S
  <2>5. Embedded' = [Embedded EXCEPT ![exp(t)] = {EmbedColumns(r) : r \in S}]
    BY <2>1, <2>2, <2>3, <2>4, EmbeddedReplaced
  <2> QED BY <1>7, <2>5
<1>9. PICK u \in versions : u.exp = exp(t) /\ u.content = q.content /\ u.state = "approved"
  BY <1>6 DEF Known, ApprovedInv, PublishesApproved, HasVersion
<1>10. exp(t) \in Experiences
  BY DEF Known, VersionsInv, exp
<1>11. /\ u.no \in DOMAIN History[exp(t)]
       /\ History[exp(t)][u.no] = [content |-> u.content, state |-> u.state]
  BY <1>9, <1>10, HistoryEntry
<1>12. EmbedColumns(q) = [content |-> History[exp(t)][u.no].content, key |-> t]
  BY <1>6, <1>9, <1>11 DEF EmbedColumns
<1>13. History[exp(t)][u.no].state = "approved"
  BY <1>9, <1>11
<1> QED BY <1>8, <1>11, <1>12, <1>13, PublishingKeeps DEF Governed!Publish, Publishing

\* A COMMIT is one operation of the abstract catalog.
LEMMA CommitIsOperation ==
    ASSUME Known, Filled, NEW t \in Txns, Own(t), Commit(t)
    PROVE  Governed!Next
<1>1. exp(t) \in Experiences
  BY DEF Known, VersionsInv, exp
<1>2. Governed!Succeeds(t)
  BY LogAppends DEF Governed!Succeeds
<1>3. op(t) \in Actions \cup Edits \cup Publishing \cup {"create", "delete"}
  BY SeedAssumption DEF Known, RowsInv, TypeOK, op, AllOps
<1>4. CASE op(t) \in Actions
  BY <1>1, <1>2, <1>4, CommitTransition DEF Governed!Next
<1>5. CASE op(t) \in Edits
  BY <1>1, <1>2, <1>5, CommitPatch, CommitRepeat, CommitRollback DEF Governed!Next, Edits
<1>6. CASE op(t) \in Publishing
  BY <1>1, <1>2, <1>6, CommitPublish, CommitUnpublish, CommitRotate DEF Governed!Next, Publishing
<1>7. CASE op(t) \in {"create", "delete"}
  BY <1>1, <1>2, <1>7, CommitCreate, CommitDelete DEF Governed!Next
<1> QED BY <1>3, <1>4, <1>5, <1>6, <1>7

GovernedInv == Known /\ Filled /\ \A t \in Txns : Own(t)

\* A step is one operation, or leaves all that GovernedCatalog speaks of.
LEMMA StepIsOperation ==
    ASSUME GovernedInv, [Next]_vars
    PROVE  [Governed!Next]_(Governed!vars)
<1>1. CASE UNCHANGED tables
  <2>1. UNCHANGED <<rows, versions, audit, publications>>
    BY <1>1 DEF tables
  <2>2. Log' = Log
    BY <2>1 DEF Log, LogLength, ChainHead
  <2> QED BY <2>1, <2>2, RecordKept, HistoryKept, EmbeddedKept DEF Governed!vars
<1>2. ASSUME NEW t \in Txns, Commit(t) PROVE Governed!Next
  BY <1>2, CommitIsOperation DEF GovernedInv
<1> QED BY <1>1, <1>2, OnlyCommitWrites

\* The catalog starts as the abstract one does.
LEMMA GovernedInitially == Init => Governed!Init
<1> SUFFICES ASSUME Init PROVE Governed!Init
  OBVIOUS
<1> PICK s \in NewStates :
        /\ rows = {[exp |-> e, state |-> s, content |-> Seed, deleted |-> FALSE,
                    chain |-> <<>>] : e \in Seeded}
        /\ versions = {[exp |-> e, no |-> 1, content |-> Seed, state |-> s, by |-> Seed] :
                           e \in Seeded}
  BY DEF Init
<1>1. /\ audit = {[pos |-> 1, prev |-> Genesis, hash |-> Seed] : e \in Seeded}
      /\ publications = {}
  BY DEF Init
<1> DEFINE r == Governed!New(Seed, s)
<1>2. Governed!Copy(r) = [content |-> Seed, state |-> s]
  BY DEF Governed!Copy, Governed!New
<1>3. Record = [e \in Experiences |-> IF e \in Seeded THEN {r} ELSE {}]
  <2>1. ASSUME NEW e \in Experiences
        PROVE  Record[e] = IF e \in Seeded THEN {r} ELSE {}
    <3>1. Record[e] = {Columns(x) : x \in {y \in rows : y.exp = e}}
      BY DEF Record, Columns
    <3> DEFINE w == [exp |-> e, state |-> s, content |-> Seed, deleted |-> FALSE, chain |-> <<>>]
    <3>2. {y \in rows : y.exp = e} = IF e \in Seeded THEN {w} ELSE {}
      OBVIOUS
    <3>3. Columns(w) = r
      BY DEF Columns, Governed!New
    <3> HIDE DEF w, r
    <3> QED BY <3>1, <3>2, <3>3
  <2> QED BY <2>1 DEF Record
<1>4. History = [e \in Experiences |-> IF e \in Seeded THEN <<Governed!Copy(r)>> ELSE <<>>]
  <2>1. ASSUME NEW e \in Experiences
        PROVE  History[e] = IF e \in Seeded THEN <<Governed!Copy(r)>> ELSE <<>>
    <3>1. CASE e \in Seeded
      <4> DEFINE v == [exp |-> e, no |-> 1, content |-> Seed, state |-> s, by |-> Seed]
      <4>0. v \in versions /\ v.exp = e /\ v.no = 1
        BY <3>1
      <4>1. HistoryOf(e, 1)
        <5>1. \A w \in versions : w.no = 1
          OBVIOUS
        <5>2. \A i \in 1 .. 1 : i = 1
          OBVIOUS
        <5> HIDE DEF v
        <5> QED BY <4>0, <5>1, <5>2 DEF HistoryOf
      <4>2. LatestNo(e) = 1
        BY <4>1, LatestOfHistory
      <4>3. {w \in versions : w.exp = e /\ w.no = 1} = {v}
        BY <3>1
      <4>4. VersionNo(e, 1) = v
        BY <4>3 DEF VersionNo, The
      <4>5. History[e] = [i \in 1 .. 1 |-> [content |-> Seed, state |-> s]]
        BY <4>2, <4>4 DEF History
      <4> QED BY <1>2, <3>1, <4>5
    <3>2. CASE e \notin Seeded
      <4>1. HistoryOf(e, 0)
        BY <3>2 DEF HistoryOf
      <4>2. LatestNo(e) = 0
        BY <4>1, LatestOfHistory
      <4>3. History[e] = [i \in 1 .. 0 |-> [content |-> VersionNo(e, i).content,
                                            state |-> VersionNo(e, i).state]]
        BY <4>2 DEF History
      <4> QED BY <3>2, <4>3
    <3> QED BY <3>1, <3>2
  <2> QED BY <2>1 DEF History
<1>5. Embedded = [e \in Experiences |-> {}]
  BY <1>1 DEF Embedded, Active
<1>6. Log = IF Seeded = {} THEN <<>> ELSE <<Seed>>
  <2>1. CASE Seeded = {}
    <3>1. audit = {}
      BY <1>1, <2>1
    <3>2. LogLength = 0
      BY <3>1 DEF LogLength, ChainHead
    <3> QED BY <2>1, <3>2 DEF Log
  <2>2. CASE Seeded # {}
    <3> DEFINE a == [pos |-> 1, prev |-> Genesis, hash |-> Seed]
    <3>1. audit = {a}
      BY <1>1, <2>2
    <3>2. LogLength = 1
      <4>1. a.pos = 1 /\ a.pos <= a.pos
        OBVIOUS
      <4> HIDE DEF a
      <4>2. ChainHead = {a}
        BY <3>1, <4>1 DEF ChainHead
      <4> QED BY <4>1, <4>2 DEF LogLength, The
    <3>3. {b \in audit : b.pos = 1} = {a}
      BY <3>1
    <3>4. The({b \in audit : b.pos = 1}).hash = Seed
      <4>1. The({a}) = a /\ a.hash = Seed
        BY DEF The
      <4> QED BY <3>3, <4>1
    <3>5. Log = [i \in 1 .. 1 |-> Seed]
      BY <3>2, <3>4 DEF Log
    <3> QED BY <2>2, <3>5
  <2> QED BY <2>1, <2>2
<1> QED BY <1>3, <1>4, <1>5, <1>6 DEF Governed!Init

LEMMA GovernedInvariant ==
    (Init => GovernedInv) /\ (GovernedInv /\ [Next]_vars => GovernedInv')
<1>1. Init => GovernedInv
  BY AuditInit, VersionsInit, RowsInit, PubsInit, ApprovedInit, MovesInit, FilledInit, OwnInit,
     TxnsAssumption, SeedAssumption DEF GovernedInv, Known
<1>2. GovernedInv /\ [Next]_vars => GovernedInv'
  <2> SUFFICES ASSUME GovernedInv, [Next]_vars PROVE GovernedInv'
    OBVIOUS
  <2>1. Control /\ Histories /\ Known /\ Filled /\ \A t \in Txns : Own(t)
    BY DEF GovernedInv, Known, AuditInv, VersionsInv
  <2>2. AuditInv' /\ VersionsInv' /\ RowsInv' /\ PubsInv' /\ ApprovedInv' /\ MovesInv'
    BY <2>1, AuditStep, VersionsStep, RowsStep, PubsStep, ApprovedStep, MovesStep,
       TxnsAssumption DEF Known
  <2>3. Filled' /\ \A t \in Txns : Own(t)'
    BY <2>1, FilledStays, OwnStays
  <2> QED BY <2>2, <2>3 DEF GovernedInv, Known
<1> QED BY <1>1, <1>2

\* However the statements of requests overlap, wait, fail or are lost, each COMMIT
\* is one operation on the catalog as it was just before, its success is the next
\* entry of the audit chain, and nothing else shows.
THEOREM RequestsAreAtomic == Spec => ImplementsGoverned
<1>1. Init => GovernedInv /\ Governed!Init
  BY GovernedInvariant, GovernedInitially
<1>2. GovernedInv /\ [Next]_vars => GovernedInv'
  BY GovernedInvariant
<1>3. GovernedInv /\ [Next]_vars => [Governed!Next]_(Governed!vars)
  BY StepIsOperation
<1> QED BY <1>1, <1>2, <1>3, PTL DEF Spec, ImplementsGoverned, Governed!Spec

\* A soft-deleted row stays as it is, also for a request that read it before it
\* was deleted, and what an empty patch adds to its history stood there before.
THEOREM TombstonesStay == Spec => TombstonesFrozen
<1> DEFINE Inv == GovernedInv /\ FollowInv
           A == \A r \in rows : r.deleted =>
                    /\ r \in rows'
                    /\ \A v \in versions' \ versions : v.exp = r.exp =>
                           /\ IsRepeat(v)
                           /\ \E w \in versions :
                                  w.exp = v.exp /\ w.content = v.content /\ w.state = v.state
<1>1. Init => Inv
  BY GovernedInvariant, FollowInit, SeedAssumption
<1>2. Inv /\ [Next]_vars => Inv'
  BY GovernedInvariant, FollowStep, TxnsAssumption DEF GovernedInv, Known
<1>3. ASSUME Inv, [Next]_vars PROVE A
  <2>1. CASE rows' = rows /\ versions' = versions
    BY <2>1
  <2>2. ASSUME NEW t \in Txns, Commit(t) PROVE A
    <3> SUFFICES ASSUME NEW r \in rows, r.deleted
                 PROVE  /\ r \in rows'
                        /\ \A v \in newVersion[t] : v.exp = r.exp =>
                              /\ IsRepeat(v)
                              /\ \E w \in versions :
                                     w.exp = v.exp /\ w.content = v.content /\ w.state = v.state
      BY <2>2 DEF Commit
    <3>1. \A w \in newRow[t] : w.exp # r.exp
      BY <1>3 DEF FollowInv, PendingCopies
    <3>2. r \in rows'
      BY <2>2, <3>1 DEF Commit
    <3>3. ASSUME NEW v \in newVersion[t], v.exp = r.exp
          PROVE  /\ IsRepeat(v)
                 /\ \E w \in versions :
                        w.exp = v.exp /\ w.content = v.content /\ w.state = v.state
      <4>1. newVersion[t] = {v} /\ v.by = t /\ v.exp = exp(t) /\ Versioned(op(t))
        BY <1>3 DEF FollowInv, PendingCopies, GovernedInv, Known, VersionsInv, PendingFollows
      <4>2. ~Rewrites(op(t))
        <5> SUFFICES ASSUME Rewrites(op(t)) PROVE FALSE
          OBVIOUS
        <5>1. newRow[t] # {} /\ \A w \in newRow[t] : Copies(v, w)
          BY <1>3, <2>2, <4>1 DEF FollowInv, PendingCopies, Commit, AfterWrite
        <5> QED BY <3>1, <3>3, <5>1 DEF Copies
      <4>3. op(t) = "emptyPatch"
        BY <4>1, <4>2 DEF Rewrites
      <4>4. IsRepeat(v)
        BY <4>1, <4>3, TxnsAssumption DEF IsRepeat
      <4>5. \E w \in versions :
                w.exp = exp(t) /\ w.content = v.content /\ w.state = v.state
        BY <1>3, <2>2, <4>3, RepeatsAVersion DEF GovernedInv
      <4> QED BY <4>1, <4>4, <4>5
    <3> QED BY <3>2, <3>3
  <2>3. (rows' = rows /\ versions' = versions) \/ \E t \in Txns : Commit(t)
    BY <1>3, OnlyCommitWrites DEF tables
  <2> QED BY <2>1, <2>2, <2>3
<1>4. TombstonesFrozen <=> [][A]_vars
  BY DEF TombstonesFrozen
<1> HIDE DEF A, Inv
<1> QED BY <1>1, <1>2, <1>3, <1>4, PTL DEF Spec
=============================================================================
