------------------------ MODULE CatalogServiceProofs ------------------------
(* That the governance of the catalog service holds for all items, threads    *)
(* and requests.  Two facts carry it.  A row that a request has read and whose *)
(* version is still that of the row is the row (Held): so what NotMoved lets   *)
(* through replaces what it was made of.  And a number that is free and one    *)
(* above a number that was the highest once is one above the highest now: so   *)
(* what NewNumber lets through leaves no gap.                                  *)
EXTENDS CatalogService, TLAPS

\* r was read from the row of capability i.
Held(r, i) ==
    /\ r \in Row /\ row[i] \in Row
    /\ r.version <= row[i].version
    /\ r.version = row[i].version => r = row[i]

\* What a request, x, holds of a capability, and what it is about to make of it.
Asked(x) == x # None /\ x.op = "if-match" => Held(x.saw, x.item)

Made(x) ==
    x # None /\ x.op \in Writes \ {"create"} /\ x.item \in Capabilities =>
        /\ Held(x.base, x.item) /\ ~x.base.deleted
        /\ x.saw \in {None, x.base}
        /\ x.new.version = x.base.version
        /\ x.new.approval = "approved" /\ x.op # "transition" =>
               x.base.approval = "approved" /\ x.new.body = x.base.body
        /\ x.new.lifecycle = "published" /\ x.base.lifecycle # "published" =>
               x.op = "update" /\ x.new.approval = "approved"

Seeded(x) ==
    x # None /\ x.op = "create" /\ x.item \in Capabilities /\ x.new.lifecycle = "published"
    => x.new.approval = "approved"

ApprovedAsReviewed ==
    \A i \in Capabilities :
        row[i] # None /\ row[i].approval = "approved" => reviewed[i] = row[i].body

RowInv ==
    /\ \A t \in Threads : Asked(tx[t]) /\ Made(tx[t]) /\ Seeded(tx[t])
    /\ ApprovedAsReviewed

\* The number a request has taken is one above a number of the log, or 1; what a
\* delete is about to write is deleted.
Numbered(t) ==
    tx[t] # None /\ tx[t].op \in Logged /\ tx[t].no > 0 =>
        tx[t].no - 1 \in Numbers(tx[t].item) \cup {0}

Deletes(t) == tx[t] # None /\ tx[t].op = "delete" => tx[t].new.deleted

LogInv == LogTellsTheRow /\ \A t \in Threads : Numbered(t) /\ Deletes(t)

\* A request that holds the publications of an experience alone holds the one
\* that is active, if there is one.
HoldsTheActive ==
    \A i \in Experiences : ~raced[i] =>
        /\ \A t, u \in Threads : Holds(t, i) /\ Holds(u, i) => t = u
        /\ \A t \in Threads : Holds(t, i) =>
              \/ tx[t].pub \in Active(i)
              \/ tx[t].pub = 0 /\ Active(i) = {} /\ tx[t].op = "publish"

PubInv == OnlyTheLastIsActive /\ HoldsTheActive

IInv == TypeOK /\ RowInv /\ LogInv /\ PubInv

----------------------------------------------------------------------------
(* Types *)

\* What a request makes of a row is a row.
LEMMA ResultsAreRows ==
    ASSUME TypeOK, NEW i \in Items, NEW r \in Row,
           NEW op \in Writes \ {"create"}, NEW new \in Results(i, op, r)
    PROVE  new \in Row
  <1>1. CASE op = "update"
    <2>1. new \in Updated(i, r)
      BY <1>1 DEF Results
    <2>2. PICK p \in Patches(i) :
              new = [r EXCEPT !.body = IF p.body = None THEN @ ELSE p.body,
                              !.lifecycle = IF p.lifecycle = None THEN @ ELSE p.lifecycle,
                              !.approval = AfterEdit(i, @, p.body)]
      BY <2>1 DEF Updated
    <2>3. p.body \in Bodies \cup {None} /\ p.lifecycle \in Lifecycles \cup {None}
      BY <2>2 DEF Patches
    <2>4. AfterEdit(i, r.approval, p.body) \in ApprovalStates
      BY DEF AfterEdit, Row, ApprovalStates
    <2> QED BY <2>2, <2>3, <2>4 DEF Row
  <1>2. CASE op = "transition"
    <2>1. new \in Transitioned(r)
      BY <1>2 DEF Results
    <2> QED BY <2>1 DEF Transitioned, Row
  <1>3. CASE op = "rollback"
    <2>1. new \in RolledBack(i, r)
      BY <1>3 DEF Results
    <2>2. \A v \in log[i] : v.snapshot.body \in Bodies
      BY DEF TypeOK
    <2> QED BY <2>1, <2>2 DEF RolledBack, Row, ApprovalStates
  <1>4. CASE op = "delete"
    <2>1. new = [r EXCEPT !.deleted = TRUE]
      BY <1>4 DEF Results
    <2> QED BY <2>1 DEF Row
  <1> QED BY <1>1, <1>2, <1>3, <1>4 DEF Writes, Logged

\* A request's record, by what it asks.
LEMMA TxTypes ==
    ASSUME TypeOK, NEW t \in Threads, tx[t] # None
    PROVE  /\ tx[t].op = "if-match" => tx[t] \in Waiting
           /\ tx[t].op \in Writes => tx[t] \in Writing
           /\ tx[t].op \in OfPublications => tx[t] \in Publishing
  <1>1. tx[t] \in Waiting \cup Writing \cup Publishing
    BY DEF TypeOK
  <1> QED BY <1>1 DEF Waiting, Writing, Publishing, Writes, Logged, OfPublications

LEMMA TypeStep == TypeOK /\ [Next]_vars => TypeOK'
  <1> SUFFICES ASSUME TypeOK, [Next]_vars PROVE TypeOK'
    OBVIOUS
  <1>1. CASE UNCHANGED vars
    BY <1>1 DEF TypeOK, vars
  <1>2. ASSUME NEW t \in Threads, NEW i \in Items, IfMatch(t, i) PROVE TypeOK'
    <2>1. [op |-> "if-match", item |-> i, saw |-> row[i]] \in Waiting
      BY <1>2 DEF IfMatch, Live, Waiting, TypeOK
    <2> QED BY <1>2, <2>1, CatalogServiceAssumption DEF IfMatch, Begins, TypeOK
  <1>3. ASSUME NEW t \in Threads, NEW i \in Items, Create(t, i) PROVE TypeOK'
    <2>1. PICK new \in Created(i) :
              tx' = [tx EXCEPT ![t] = [op |-> "create", item |-> i, saw |-> None,
                                       base |-> None, new |-> new, no |-> 0]]
      BY <1>3 DEF Create
    <2>2. new \in [body : Bodies, lifecycle : Lifecycles, approval : ApprovalStates,
                  version : {0}, deleted : {FALSE}]
      <3>1. CASE i \in Experiences
        BY <3>1 DEF Created, Lifecycles
      <3>2. CASE i \notin Experiences
        BY <3>2 DEF Created, ApprovalStates
      <3> QED BY <3>1, <3>2
    <2>4. /\ new = [body |-> new.body, lifecycle |-> new.lifecycle, approval |-> new.approval,
                    version |-> new.version, deleted |-> new.deleted]
          /\ new.body \in Bodies /\ new.lifecycle \in Lifecycles
          /\ new.approval \in ApprovalStates /\ new.version = 0 /\ new.deleted \in BOOLEAN
      BY <2>2
    <2>5. new \in Row
      BY <2>4 DEF Row
    <2>3. [op |-> "create", item |-> i, saw |-> None, base |-> None,
           new |-> new, no |-> 0] \in Writing
      BY <2>5 DEF Writing, Writes, Logged
    <2> QED BY <1>3, <2>1, <2>3, CatalogServiceAssumption DEF Create, Begins, TypeOK
  <1>4. ASSUME NEW t \in Threads, NEW i \in Items, NEW op \in Writes \ {"create"},
               Load(t, i, op) PROVE TypeOK'
    <2>1. PICK new \in Results(i, op, row[i]) :
              tx' = [tx EXCEPT ![t] =
                       [op |-> op, item |-> i, saw |-> IF @ = None THEN None ELSE @.saw,
                        base |-> row[i], new |-> new, no |-> 0]]
      BY <1>4 DEF Load
    <2>2. row[i] \in Row
      BY <1>4 DEF Load, Live, TypeOK
    <2>3. new \in Row
      BY <2>2, ResultsAreRows
    <2>4. tx[t] = None \/ tx[t] \in Waiting
      BY <1>4, TxTypes DEF Load, Begins
    <2>5. (IF tx[t] = None THEN None ELSE tx[t].saw) \in Row \cup {None}
      BY <2>4 DEF Waiting
    <2>6. [op |-> op, item |-> i, saw |-> IF tx[t] = None THEN None ELSE tx[t].saw,
           base |-> row[i], new |-> new, no |-> 0] \in Writing
      BY <2>2, <2>3, <2>5 DEF Writing
    <2>7. requests' \in 0 .. MaxRequests
      BY <1>4, CatalogServiceAssumption DEF Load, Begins, TypeOK
    <2> QED BY <1>4, <2>1, <2>6, <2>7 DEF Load, TypeOK
  <1>5. ASSUME NEW t \in Threads, Number(t) PROVE TypeOK'
    <2>1. tx[t] \in Writing
      BY <1>5, TxTypes DEF Number, Writes
    <2>2. tx[t].item \in Items
      BY <2>1 DEF Writing
    <2>3. Numbers(tx[t].item) \subseteq Nat
      BY <2>2 DEF Numbers, TypeOK
    <2>4. PICK n \in Numbers(tx[t].item) \cup {0} : tx' = [tx EXCEPT ![t].no = n + 1]
      BY <1>5 DEF Number
    <2>5. [tx[t] EXCEPT !.no = n + 1] \in Writing
      BY <2>1, <2>3 DEF Writing
    <2> QED BY <1>5, <2>4, <2>5 DEF Number, TypeOK
  <1>6. ASSUME NEW t \in Threads, Commit(t) PROVE TypeOK'
    <2>1. tx[t] \in Writing
      BY <1>6, TxTypes DEF Commit
    <2> DEFINE i == tx[t].item
    <2>2. i \in Items /\ tx[t].new \in Row /\ tx[t].no \in Nat
      BY <2>1 DEF Writing
    <2>3. \A k \in {0, 1} : [tx[t].new EXCEPT !.version = @ + k] \in Row
      BY <2>2 DEF Row
    <2>4. row' \in [Items -> Row \cup {None}]
      BY <1>6, <2>2, <2>3 DEF Commit, TypeOK
    <2>5. [no |-> tx[t].no, snapshot |-> Snapshot(tx[t].new)] \in
             [no : Nat, snapshot : [body : Bodies, lifecycle : Lifecycles,
                                    approval : ApprovalStates]]
      BY <2>2 DEF Snapshot, Row
    <2>6. log' \in [Items -> SUBSET [no : Nat, snapshot : [body : Bodies,
                        lifecycle : Lifecycles, approval : ApprovalStates]]]
      BY <1>6, <2>2, <2>5 DEF Commit, TypeOK
    <2>7. reviewed' \in [Items -> Bodies \cup {None}]
      BY <1>6, <2>2 DEF Commit, TypeOK, Row
    <2> QED BY <1>6, <2>4, <2>6, <2>7 DEF Commit, TypeOK
  <1>7. ASSUME NEW t \in Threads, Abort(t) PROVE TypeOK'
    BY <1>7 DEF Abort, TypeOK
  <1>8. ASSUME NEW t \in Threads, NEW i \in Experiences, NEW op \in OfPublications,
               Publication(t, i, op) PROVE TypeOK'
    <2>1. [op |-> op, item |-> i, pub |-> None] \in Publishing
      BY DEF Publishing
    <2> QED BY <1>8, <2>1, CatalogServiceAssumption DEF Publication, Begins, TypeOK
  <1>9. ASSUME NEW t \in Threads, Find(t) PROVE TypeOK'
    <2>1. tx[t] \in Publishing
      BY <1>9, TxTypes DEF Find
    <2>2. tx[t].item \in Experiences
      BY <2>1 DEF Publishing
    <2>3. Active(tx[t].item) \subseteq Nat
      BY <2>2 DEF Active, TypeOK
    <2>4. PICK p \in Nat : tx' = [tx EXCEPT ![t].pub = p]
      BY <1>9, <2>3 DEF Find
    <2>5. [tx[t] EXCEPT !.pub = p] \in Publishing
      BY <2>1 DEF Publishing
    <2>6. raced' \in [Experiences -> BOOLEAN]
      BY <1>9 DEF Find, TypeOK
    <2> QED BY <1>9, <2>4, <2>5, <2>6 DEF Find, TypeOK
  <1>10. ASSUME NEW t \in Threads, Settle(t) PROVE TypeOK'
    <2>1. tx[t] \in Publishing
      BY <1>10, TxTypes DEF Settle, Holds
    <2> DEFINE i == tx[t].item
    <2>2. i \in Experiences /\ tx[t].op \in OfPublications
      BY <2>1 DEF Publishing
    <2>3. pubs[i] \in Seq({"active", "revoked"})
      BY <2>2 DEF TypeOK
    <2>4. \A p, s : s \in {"active", "revoked"} =>
              Marked(i, p, s) \in Seq({"active", "revoked"})
      BY <2>3 DEF Marked
    <2>5. Settled(i, tx[t].op, tx[t].pub) \in Seq({"active", "revoked"})
      BY <2>2, <2>3, <2>4 DEF Settled, OfPublications
    <2> QED BY <1>10, <2>2, <2>5 DEF Settle, TypeOK
  <1> QED BY <1>1, <1>2, <1>3, <1>4, <1>5, <1>6, <1>7, <1>8, <1>9, <1>10 DEF Next

----------------------------------------------------------------------------
(* The log *)

\* A step that changes only what thread t holds.
LEMMA LogKept ==
    ASSUME TypeOK, LogInv, NEW t \in Threads, NEW x, tx' = [tx EXCEPT ![t] = x],
           UNCHANGED <<row, log>>,
           x # None /\ x.op \in Logged /\ x.no > 0 => x.no - 1 \in Numbers(x.item) \cup {0},
           x # None /\ x.op = "delete" => x.new.deleted
    PROVE  LogInv'
  <1>1. \A i : Numbers(i)' = Numbers(i) /\ Live(i)' = Live(i)
    BY DEF Numbers, Live
  <1>2. LogTellsTheRow'
    BY <1>1 DEF LogInv, LogTellsTheRow
  <1>3. ASSUME NEW u \in Threads PROVE Numbered(u)' /\ Deletes(u)'
    <2>1. CASE u = t
      <3>1. tx'[u] = x
        BY <2>1 DEF TypeOK
      <3> QED BY <1>1, <3>1 DEF Numbered, Deletes
    <2>2. CASE u # t
      <3>1. tx'[u] = tx[u]
        BY <2>2 DEF TypeOK
      <3> QED BY <1>1, <3>1 DEF Numbered, Deletes, LogInv
    <2> QED BY <2>1, <2>2
  <1> QED BY <1>2, <1>3 DEF LogInv

LEMMA LogCommit ==
    ASSUME TypeOK, LogInv, NEW t \in Threads, Commit(t)
    PROVE  LogInv'
  <1>1. tx[t] \in Writing /\ tx[t] # None
    BY TxTypes DEF Commit
  <1>2. PICK i \in Items, new \in Row, no \in Nat :
            i = tx[t].item /\ new = tx[t].new /\ no = tx[t].no
    BY <1>1 DEF Writing
  <1>3. tx' = [tx EXCEPT ![t] = None] /\ tx \in [Threads -> Waiting \cup Writing \cup Publishing \cup {None}]
    BY DEF Commit, TypeOK
  <1>4. PICK n \in Numbers(i) \cup {0} :
            /\ Numbers(i) = 1 .. n
            /\ Live(i) => \E v \in log[i] : v.no = n /\ v.snapshot = Snapshot(row[i])
    BY <1>2 DEF LogInv, LogTellsTheRow
  <1>5. n \in Nat
    BY <1>2, <1>4 DEF Numbers, TypeOK
  <1>6. /\ row \in [Items -> Row \cup {None}]
        /\ \A j \in Items \ {i} : row'[j] = row[j]
        /\ row'[i].deleted = new.deleted /\ Snapshot(row'[i]) = Snapshot(new)
    BY <1>2 DEF Commit, TypeOK, Row, Snapshot
  <1>7. CASE tx[t].op \in Logged
    <2> DEFINE v == [no |-> no, snapshot |-> Snapshot(new)]
    <2>1. log' = [log EXCEPT ![i] = @ \cup {v}]
      BY <1>2, <1>7 DEF Commit
    <2>2. log'[i] = log[i] \cup {v} /\ \A j \in Items \ {i} : log'[j] = log[j]
      BY <1>2, <2>1 DEF TypeOK
    <2>3. no > 0 /\ no \notin Numbers(i)
      BY <1>2, <1>7 DEF Commit, NewNumber
    <2>4. no - 1 \in Numbers(i) \cup {0}
      BY <1>1, <1>2, <1>7, <2>3 DEF LogInv, Numbered
    <2>5. no = n + 1
      BY <1>2, <1>4, <1>5, <2>3, <2>4
    <2>6. Numbers(i)' = Numbers(i) \cup {n + 1}
      <3>1. v.no = n + 1
        BY <2>5
      <3> HIDE DEF v
      <3> QED BY <2>2, <3>1 DEF Numbers
    <2>7. Numbers(i)' = 1 .. (n + 1)
      BY <1>4, <1>5, <2>6
    <2>8. \A w, z \in log'[i] : w.no = z.no => w = z
      <3>1. \A w \in log[i] : w.no # no
        BY <2>3 DEF Numbers
      <3>2. \A w, z \in log[i] : w.no = z.no => w = z
        BY <1>2 DEF LogInv, LogTellsTheRow
      <3> QED BY <2>2, <3>1, <3>2
    <2>9. v \in log'[i] /\ v.no = n + 1 /\ v.snapshot = Snapshot(row'[i])
      BY <1>6, <2>2, <2>5
    <2>10. LogTellsTheRow'
      <3> SUFFICES ASSUME NEW j \in Items
                   PROVE  /\ \A w, z \in log'[j] : w.no = z.no => w = z
                          /\ \E m \in Numbers(j)' \cup {0} :
                                /\ Numbers(j)' = 1 .. m
                                /\ Live(j)' => \E w \in log'[j] :
                                      w.no = m /\ w.snapshot = Snapshot(row'[j])
        BY DEF LogTellsTheRow, Snapshot
      <3>1. CASE j = i
        BY <2>6, <2>7, <2>8, <2>9, <3>1
      <3>2. CASE j # i
        <4>1. Numbers(j)' = Numbers(j) /\ Live(j)' = Live(j) /\ log'[j] = log[j] /\ row'[j] = row[j]
          BY <1>6, <2>2, <3>2 DEF Numbers, Live
        <4> QED BY <4>1 DEF LogInv, LogTellsTheRow
      <3> QED BY <3>1, <3>2
    <2>11. \A u \in Threads : Numbered(u)'
      <3> SUFFICES ASSUME NEW u \in Threads, tx'[u] # None, tx'[u].op \in Logged, tx'[u].no > 0
                   PROVE  tx'[u].no - 1 \in Numbers(tx[u].item)' \cup {0}
        BY DEF Numbered
      <3>1. u # t /\ tx'[u] = tx[u]
        BY <1>3
      <3>2. PICK j \in Items : j = tx[u].item
        BY <3>1, TxTypes DEF Writes, Writing
      <3>3. tx[u].no - 1 \in Numbers(j) \cup {0}
        BY <3>1, <3>2 DEF LogInv, Numbered
      <3>4. log[j] \subseteq log'[j]
        BY <2>2
      <3>5. Numbers(j) \subseteq {w.no : w \in log'[j]}
        BY <3>4 DEF Numbers
      <3> QED BY <3>1, <3>2, <3>3, <3>5 DEF Numbers
    <2>12. \A u \in Threads : Deletes(u)'
      BY <1>3 DEF LogInv, Deletes
    <2> QED BY <2>10, <2>11, <2>12 DEF LogInv
  <1>8. CASE tx[t].op \notin Logged
    <2>1. log' = log /\ tx[t].op = "delete"
      BY <1>8 DEF Commit, Writes
    <2>2. \A j : Numbers(j)' = Numbers(j)
      BY <2>1 DEF Numbers
    <2>3. new.deleted
      BY <1>1, <1>2, <2>1 DEF LogInv, Deletes
    <2>4. ~Live(i)' /\ \A j \in Items \ {i} : Live(j)' = Live(j) /\ row'[j] = row[j]
      BY <1>6, <2>3 DEF Live
    <2>5. LogTellsTheRow'
      BY <2>1, <2>2, <2>4 DEF LogInv, LogTellsTheRow
    <2>6. \A u \in Threads : tx'[u] # None => tx'[u] = tx[u]
      BY <1>3
    <2>7. \A u \in Threads : Numbered(u)' /\ Deletes(u)'
      BY <2>2, <2>6 DEF LogInv, Numbered, Deletes
    <2> QED BY <2>5, <2>7 DEF LogInv
  <1> QED BY <1>7, <1>8

LEMMA LogStep == TypeOK /\ LogInv /\ [Next]_vars => LogInv'
  <1> SUFFICES ASSUME TypeOK, LogInv, [Next]_vars PROVE LogInv'
    OBVIOUS
  <1>1. CASE UNCHANGED vars
    BY <1>1 DEF vars, LogInv, LogTellsTheRow, Numbered, Deletes, Numbers, Live
  <1>2. ASSUME NEW t \in Threads, NEW i \in Items, IfMatch(t, i) PROVE LogInv'
    BY <1>2, LogKept DEF IfMatch, Logged
  <1>3. ASSUME NEW t \in Threads, NEW i \in Items, Create(t, i) PROVE LogInv'
    <2>1. PICK new : tx' = [tx EXCEPT ![t] = [op |-> "create", item |-> i, saw |-> None,
                                              base |-> None, new |-> new, no |-> 0]]
      BY <1>3 DEF Create
    <2> DEFINE x == [op |-> "create", item |-> i, saw |-> None, base |-> None,
                     new |-> new, no |-> 0]
    <2>2. tx' = [tx EXCEPT ![t] = x] /\ x.no = 0 /\ x.op = "create"
      BY <2>1
    <2> HIDE DEF x
    <2>3. UNCHANGED <<row, log>> /\ ~(x.no > 0) /\ x.op # "delete"
      BY <1>3, <2>2 DEF Create
    <2> QED BY <2>2, <2>3, LogKept
  <1>4. ASSUME NEW t \in Threads, NEW i \in Items, NEW op \in Writes \ {"create"},
               Load(t, i, op) PROVE LogInv'
    <2>1. PICK new \in Results(i, op, row[i]),
                saw \in {IF tx[t] = None THEN None ELSE tx[t].saw} :
              tx' = [tx EXCEPT ![t] = [op |-> op, item |-> i, saw |-> saw,
                                       base |-> row[i], new |-> new, no |-> 0]]
      BY <1>4 DEF Load
    <2>2. op = "delete" => new.deleted
      <3>1. row[i] \in Row
        BY <1>4 DEF Load, Live, TypeOK
      <3> QED BY <3>1 DEF Results, Row
    <2> DEFINE x == [op |-> op, item |-> i, saw |-> saw, base |-> row[i],
                     new |-> new, no |-> 0]
    <2>3. tx' = [tx EXCEPT ![t] = x] /\ x.no = 0 /\ x.op = op /\ x.new = new
      BY <2>1
    <2> HIDE DEF x
    <2>4. UNCHANGED <<row, log>> /\ ~(x.no > 0) /\ (x.op = "delete" => x.new.deleted)
      BY <1>4, <2>2, <2>3 DEF Load
    <2> QED BY <2>3, <2>4, LogKept
  <1>5. ASSUME NEW t \in Threads, Number(t) PROVE LogInv'
    <2>1. PICK n \in Numbers(tx[t].item) \cup {0} : tx' = [tx EXCEPT ![t].no = n + 1]
      BY <1>5 DEF Number
    <2>2. tx[t] \in Writing
      BY <1>5, TxTypes DEF Number, Writes
    <2>3. n \in Nat
      BY <2>2 DEF Writing, Numbers, TypeOK
    <2> DEFINE x == [tx[t] EXCEPT !.no = n + 1]
    <2>4. x.op = tx[t].op /\ x.item = tx[t].item /\ x.no = n + 1
      BY <2>2 DEF Writing
    <2>5. tx' = [tx EXCEPT ![t] = x]
      BY <2>1
    <2>6. x.op # "delete" /\ x.no - 1 \in Numbers(x.item) \cup {0}
      BY <1>5, <2>3, <2>4 DEF Number, Logged
    <2> HIDE DEF x
    <2> QED BY <1>5, <2>5, <2>6, LogKept DEF Number
  <1>6. ASSUME NEW t \in Threads, Commit(t) PROVE LogInv'
    BY <1>6, LogCommit
  <1>7. ASSUME NEW t \in Threads, Abort(t) PROVE LogInv'
    BY <1>7, LogKept DEF Abort
  <1>8. ASSUME NEW t \in Threads, NEW i \in Experiences, NEW op \in OfPublications,
               Publication(t, i, op) PROVE LogInv'
    BY <1>8, LogKept DEF Publication, OfPublications, Logged
  <1>9. ASSUME NEW t \in Threads, Find(t) PROVE LogInv'
    <2>1. PICK p : tx' = [tx EXCEPT ![t].pub = p]
      BY <1>9 DEF Find
    <2>2. tx[t] \in Publishing
      BY <1>9, TxTypes DEF Find
    <2> DEFINE x == [tx[t] EXCEPT !.pub = p]
    <2>3. x.op \notin Writes
      BY <2>2 DEF Publishing, OfPublications, Writes, Logged
    <2>4. tx' = [tx EXCEPT ![t] = x]
      BY <2>1
    <2> HIDE DEF x
    <2> QED BY <1>9, <2>3, <2>4, LogKept DEF Find, Writes
  <1>10. ASSUME NEW t \in Threads, Settle(t) PROVE LogInv'
    BY <1>10, LogKept DEF Settle
  <1> QED BY <1>1, <1>2, <1>3, <1>4, <1>5, <1>6, <1>7, <1>8, <1>9, <1>10 DEF Next

----------------------------------------------------------------------------
(* Publications *)

\* A step after which thread t holds no publication, and held none, or gives up.
LEMMA PubKept ==
    ASSUME TypeOK, PubInv, NEW t \in Threads, NEW x, tx' = [tx EXCEPT ![t] = x],
           UNCHANGED <<pubs, raced>>,
           x # None /\ x.op \in OfPublications => x.pub = None
    PROVE  PubInv'
  <1>1. \A i : Active(i)' = Active(i)
    BY DEF Active
  <1>2. ASSUME NEW i, NEW u \in Threads, Holds(u, i)' PROVE Holds(u, i) /\ tx'[u] = tx[u]
    <2>1. u # t
      BY <1>2 DEF Holds, TypeOK
    <2> QED BY <1>2, <2>1 DEF Holds, TypeOK
  <1>3. OnlyTheLastIsActive'
    BY <1>1 DEF PubInv, OnlyTheLastIsActive
  <1>4. HoldsTheActive'
    BY <1>1, <1>2 DEF PubInv, HoldsTheActive
  <1> QED BY <1>3, <1>4 DEF PubInv

LEMMA PubFind ==
    ASSUME TypeOK, PubInv, NEW t \in Threads, Find(t)
    PROVE  PubInv'
  <1>1. tx[t] \in Publishing /\ tx[t] # None /\ tx[t].pub = None
    BY TxTypes DEF Find
  <1>2. PICK i \in Experiences : i = tx[t].item
    BY <1>1 DEF Publishing
  <1>3. PICK p : /\ tx' = [tx EXCEPT ![t].pub = p]
                 /\ p \in Active(i) \/ (p = 0 /\ Active(i) = {} /\ tx[t].op = "publish")
    BY <1>2 DEF Find
  <1>4. /\ tx'[t].op = tx[t].op /\ tx'[t].item = i /\ tx'[t].pub = p
        /\ \A u \in Threads \ {t} : tx'[u] = tx[u]
    BY <1>1, <1>2, <1>3 DEF TypeOK, Publishing
  <1>5. /\ \A j \in Experiences \ {i} : raced'[j] = raced[j]
        /\ raced'[i] = (raced[i] \/ \E u \in Threads \ {t} : Holds(u, i))
    BY <1>2 DEF Find, TypeOK
  <1>6. \A j : Active(j)' = Active(j)
    BY DEF Find, Active
  <1>7. /\ \A j \in Experiences : ~Holds(t, j) /\ (Holds(t, j)' => j = i)
        /\ \A j \in Experiences, u \in Threads \ {t} : Holds(u, j)' = Holds(u, j)
    BY <1>1, <1>4 DEF Holds
  <1>8. \A j \in Experiences : ~raced'[j] => ~raced[j]
    BY <1>5
  <1>9. OnlyTheLastIsActive'
    BY <1>6, <1>8 DEF PubInv, OnlyTheLastIsActive, Find
  <1>10. HoldsTheActive'
    <2> SUFFICES ASSUME NEW j \in Experiences, ~raced'[j]
                 PROVE  /\ \A u, w \in Threads : Holds(u, j)' /\ Holds(w, j)' => u = w
                        /\ \A u \in Threads : Holds(u, j)' =>
                              \/ tx'[u].pub \in Active(j)
                              \/ tx'[u].pub = 0 /\ Active(j) = {} /\ tx'[u].op = "publish"
      BY <1>6 DEF HoldsTheActive
    <2>1. CASE j = i
      <3>1. \A u \in Threads \ {t} : ~Holds(u, i)'
        BY <1>5, <1>7, <2>1
      <3> QED BY <1>3, <1>4, <2>1, <3>1
    <2>2. CASE j # i
      <3>1. \A u \in Threads : Holds(u, j)' => u # t /\ Holds(u, j) /\ tx'[u] = tx[u]
        BY <1>4, <1>7, <2>2
      <3> QED BY <1>8, <3>1 DEF PubInv, HoldsTheActive
    <2> QED BY <2>1, <2>2
  <1> QED BY <1>9, <1>10 DEF PubInv

\* What is written over the publications of which only the last may be active, by
\* the one request that holds the active one.
LEMMA SettledLast ==
    ASSUME NEW s \in Seq({"active", "revoked"}), NEW op \in OfPublications, NEW p \in Nat,
           NEW i \in Experiences, pubs[i] = s,
           \A q \in DOMAIN s : s[q] = "active" => q = Len(s),
           \/ p \in DOMAIN s /\ s[p] = "active"
           \/ p = 0 /\ op = "publish" /\ \A q \in DOMAIN s : s[q] # "active"
    PROVE  LET z == Settled(i, op, p)
           IN  \A q \in DOMAIN z : z[q] = "active" => q = Len(z)
  <1>1. CASE p \in DOMAIN s /\ s[p] = "active"
    <2>1. p = Len(s) /\ p # 0
      BY <1>1
    <2> DEFINE m == [s EXCEPT ![p] = "revoked"]
    <2>2. /\ m \in Seq({"active", "revoked"}) /\ Len(m) = Len(s)
          /\ \A q \in DOMAIN m : m[q] # "active"
      BY <1>1, <2>1
    <2>3. CASE op = "publish"
      <3>1. Settled(i, op, p) = Append(m, "active")
        BY <2>1, <2>3 DEF Settled, Marked
      <3> HIDE DEF m
      <3> QED BY <2>2, <3>1
    <2>4. CASE op = "unpublish"
      <3>1. Settled(i, op, p) = m
        BY <2>1, <2>4 DEF Settled, Marked
      <3> QED BY <2>2, <3>1
    <2>5. CASE op = "rotate"
      <3>1. Settled(i, op, p) = [s EXCEPT ![p] = "active"]
        BY <2>1, <2>5 DEF Settled, Marked
      <3> QED BY <1>1, <2>1, <3>1
    <2> QED BY <2>3, <2>4, <2>5 DEF OfPublications
  <1>2. CASE p = 0 /\ op = "publish" /\ \A q \in DOMAIN s : s[q] # "active"
    <2>1. Settled(i, op, p) = Append(s, "active")
      BY <1>2 DEF Settled, Marked
    <2> QED BY <1>2, <2>1
  <1> QED BY <1>1, <1>2

LEMMA PubSettle ==
    ASSUME TypeOK, PubInv, NEW t \in Threads, Settle(t)
    PROVE  PubInv'
  <1>1. tx[t] \in Publishing /\ tx[t] # None /\ tx[t].pub # None
    BY TxTypes DEF Settle, Holds
  <1>2. PICK i \in Experiences, p \in Nat, op \in OfPublications :
            i = tx[t].item /\ p = tx[t].pub /\ op = tx[t].op
    BY <1>1 DEF Publishing
  <1>3. /\ pubs' = [pubs EXCEPT ![i] = Settled(i, op, p)]
        /\ tx' = [tx EXCEPT ![t] = None] /\ raced' = raced /\ Holds(t, i)
    BY <1>2 DEF Settle
  <1>4. /\ pubs'[i] = Settled(i, op, p)
        /\ \A j \in Experiences \ {i} : pubs'[j] = pubs[j] /\ Active(j)' = Active(j)
    BY <1>3 DEF TypeOK, Active
  <1>5. \A j \in Experiences, u \in Threads :
            Holds(u, j)' => u # t /\ tx'[u] = tx[u] /\ Holds(u, j)
    BY <1>3 DEF Holds, TypeOK
  <1>6. ASSUME ~raced[i]
        PROVE  /\ Active(i)' \subseteq {Len(pubs'[i])}
               /\ \A u \in Threads : ~Holds(u, i)'
    <2>1. pubs[i] \in Seq({"active", "revoked"})
      BY DEF TypeOK
    <2>2. \A q \in DOMAIN pubs[i] : pubs[i][q] = "active" => q = Len(pubs[i])
      BY <1>6 DEF PubInv, OnlyTheLastIsActive, Active
    <2>3. \/ p \in DOMAIN pubs[i] /\ pubs[i][p] = "active"
          \/ p = 0 /\ op = "publish" /\ \A q \in DOMAIN pubs[i] : pubs[i][q] # "active"
      BY <1>2, <1>3, <1>6 DEF PubInv, HoldsTheActive, Active
    <2>4. \A q \in DOMAIN pubs'[i] : pubs'[i][q] = "active" => q = Len(pubs'[i])
      BY <1>4, <2>1, <2>2, <2>3, SettledLast
    <2>5. \A u \in Threads : ~Holds(u, i)'
      BY <1>3, <1>5, <1>6 DEF PubInv, HoldsTheActive
    <2> QED BY <2>4, <2>5 DEF Active
  <1>7. OnlyTheLastIsActive'
    BY <1>3, <1>4, <1>6 DEF PubInv, OnlyTheLastIsActive
  <1>8. HoldsTheActive'
    <2> SUFFICES ASSUME NEW j \in Experiences, ~raced[j]
                 PROVE  /\ \A u, w \in Threads : Holds(u, j)' /\ Holds(w, j)' => u = w
                        /\ \A u \in Threads : Holds(u, j)' =>
                              \/ tx'[u].pub \in Active(j)'
                              \/ tx'[u].pub = 0 /\ Active(j)' = {} /\ tx'[u].op = "publish"
      BY <1>3 DEF HoldsTheActive
    <2>1. CASE j = i
      BY <1>6, <2>1
    <2>2. CASE j # i
      BY <1>4, <1>5, <2>2 DEF PubInv, HoldsTheActive
    <2> QED BY <2>1, <2>2
  <1> QED BY <1>7, <1>8 DEF PubInv

LEMMA PubStep == TypeOK /\ PubInv /\ [Next]_vars => PubInv'
  <1> SUFFICES ASSUME TypeOK, PubInv, [Next]_vars PROVE PubInv'
    OBVIOUS
  <1>1. CASE UNCHANGED vars
    BY <1>1 DEF vars, PubInv, OnlyTheLastIsActive, HoldsTheActive, Active, Holds
  <1>2. ASSUME NEW t \in Threads, NEW i \in Items, IfMatch(t, i) PROVE PubInv'
    BY <1>2, PubKept DEF IfMatch, OfPublications
  <1>3. ASSUME NEW t \in Threads, NEW i \in Items, Create(t, i) PROVE PubInv'
    BY <1>3, PubKept DEF Create, OfPublications
  <1>4. ASSUME NEW t \in Threads, NEW i \in Items, NEW op \in Writes \ {"create"},
               Load(t, i, op) PROVE PubInv'
    <2>1. PICK new, saw :
              tx' = [tx EXCEPT ![t] = [op |-> op, item |-> i, saw |-> saw,
                                       base |-> row[i], new |-> new, no |-> 0]]
      BY <1>4 DEF Load
    <2>2. op \notin OfPublications
      BY DEF OfPublications, Writes, Logged
    <2> QED BY <1>4, <2>1, <2>2, PubKept DEF Load
  <1>5. ASSUME NEW t \in Threads, Number(t) PROVE PubInv'
    <2>1. PICK n : tx' = [tx EXCEPT ![t].no = n + 1]
      BY <1>5 DEF Number
    <2>2. tx[t] \in Writing
      BY <1>5, TxTypes DEF Number, Writes
    <2> DEFINE x == [tx[t] EXCEPT !.no = n + 1]
    <2>3. x.op \notin OfPublications
      BY <2>2 DEF Writing, OfPublications, Writes, Logged
    <2>4. tx' = [tx EXCEPT ![t] = x]
      BY <2>1
    <2> HIDE DEF x
    <2> QED BY <1>5, <2>3, <2>4, PubKept DEF Number
  <1>6. ASSUME NEW t \in Threads, Commit(t) PROVE PubInv'
    BY <1>6, PubKept DEF Commit
  <1>7. ASSUME NEW t \in Threads, Abort(t) PROVE PubInv'
    BY <1>7, PubKept DEF Abort
  <1>8. ASSUME NEW t \in Threads, NEW i \in Experiences, NEW op \in OfPublications,
               Publication(t, i, op) PROVE PubInv'
    BY <1>8, PubKept DEF Publication
  <1>9. ASSUME NEW t \in Threads, Find(t) PROVE PubInv'
    BY <1>9, PubFind
  <1>10. ASSUME NEW t \in Threads, Settle(t) PROVE PubInv'
    BY <1>10, PubSettle
  <1> QED BY <1>1, <1>2, <1>3, <1>4, <1>5, <1>6, <1>7, <1>8, <1>9, <1>10 DEF Next

----------------------------------------------------------------------------
(* Rows *)

\* A step that changes only what thread t holds.
LEMMA RowKept ==
    ASSUME TypeOK, RowInv, NEW t \in Threads, NEW x, tx' = [tx EXCEPT ![t] = x],
           UNCHANGED <<row, reviewed>>, Asked(x), Made(x), Seeded(x)
    PROVE  RowInv'
  <1>1. \A u \in Threads : tx'[u] = x \/ tx'[u] = tx[u]
    BY DEF TypeOK
  <1>2. \A u \in Threads : Asked(tx[u])' /\ Made(tx[u])' /\ Seeded(tx[u])'
    BY <1>1 DEF RowInv, Asked, Made, Seeded, Held
  <1>3. ApprovedAsReviewed'
    BY DEF RowInv, ApprovedAsReviewed
  <1> QED BY <1>2, <1>3 DEF RowInv

LEMMA NothingHeld == Asked(None) /\ Made(None) /\ Seeded(None)
  BY DEF Asked, Made, Seeded

LEMMA LoadedRow ==
    ASSUME TypeOK, RowInv, NEW t \in Threads, NEW i \in Items,
           NEW op \in Writes \ {"create"}, Load(t, i, op)
    PROVE  RowInv'
  <1>1. row[i] \in Row /\ ~row[i].deleted
    BY DEF Load, Live, TypeOK
  <1>2. PICK new \in Results(i, op, row[i]),
                saw \in {IF tx[t] = None THEN None ELSE tx[t].saw} :
            /\ tx' = [tx EXCEPT ![t] = [op |-> op, item |-> i, saw |-> saw,
                                        base |-> row[i], new |-> new, no |-> 0]]
            /\ saw = IF tx[t] = None THEN None ELSE tx[t].saw
    BY DEF Load
  <1>3. saw \in {None, row[i]}
    <2>1. CASE tx[t] = None
      BY <1>2, <2>1
    <2>2. CASE tx[t] # None
      <3>1. tx[t].op = "if-match" /\ tx[t].item = i /\ tx[t].saw.version = row[i].version
        BY <2>2 DEF Load, Begins
      <3>2. Held(tx[t].saw, i)
        BY <2>2, <3>1 DEF RowInv, Asked
      <3> QED BY <1>2, <2>2, <3>1, <3>2 DEF Held
    <2> QED BY <2>1, <2>2
  <1>4. Held(row[i], i)
    BY <1>1 DEF Held, Row
  <1>5. ASSUME i \in Capabilities
        PROVE  /\ new.version = row[i].version
               /\ new.approval = "approved" /\ op # "transition" =>
                      row[i].approval = "approved" /\ new.body = row[i].body
               /\ new.lifecycle = "published" /\ row[i].lifecycle # "published" =>
                      op = "update" /\ new.approval = "approved"
    <2>1. CASE op = "update"
      <3>1. PICK q \in Patches(i) :
                /\ q.lifecycle = "published" => AfterEdit(i, row[i].approval, q.body) = "approved"
                /\ new = [row[i] EXCEPT
                             !.body = IF q.body = None THEN @ ELSE q.body,
                             !.lifecycle = IF q.lifecycle = None THEN @ ELSE q.lifecycle,
                             !.approval = AfterEdit(i, @, q.body)]
        BY <1>2, <2>1 DEF Results, Updated
      <3>2. /\ new.version = row[i].version
            /\ new.body = IF q.body = None THEN row[i].body ELSE q.body
            /\ new.lifecycle = IF q.lifecycle = None THEN row[i].lifecycle ELSE q.lifecycle
            /\ new.approval = AfterEdit(i, row[i].approval, q.body)
        BY <1>1, <3>1 DEF Row
      <3> QED BY <1>5, <2>1, <3>1, <3>2 DEF AfterEdit
    <2>2. CASE op = "transition"
      <3>1. PICK to \in ApprovalStates : new = [row[i] EXCEPT !.approval = to]
        BY <1>2, <2>2 DEF Results, Transitioned
      <3> QED BY <1>1, <2>2, <3>1 DEF Row
    <2>3. CASE op = "rollback"
      <3>1. PICK v \in log[i] :
                new = [row[i] EXCEPT !.body = v.snapshot.body, !.approval = "draft"]
        BY <1>2, <1>5, <2>3 DEF Results, RolledBack
      <3> QED BY <1>1, <2>3, <3>1 DEF Row
    <2>4. CASE op = "delete"
      <3>1. new = [row[i] EXCEPT !.deleted = TRUE]
        BY <1>2, <2>4 DEF Results
      <3> QED BY <1>1, <2>4, <3>1 DEF Row
    <2> QED BY <2>1, <2>2, <2>3, <2>4 DEF Writes, Logged
  <1> DEFINE x == [op |-> op, item |-> i, saw |-> saw, base |-> row[i], new |-> new, no |-> 0]
  <1>6. /\ tx' = [tx EXCEPT ![t] = x] /\ x.op = op /\ x.item = i /\ x.saw = saw
        /\ x.base = row[i] /\ x.new = new
    BY <1>2
  <1> HIDE DEF x
  <1>7. Made(x)
    BY <1>1, <1>3, <1>4, <1>5, <1>6 DEF Made
  <1>8. Asked(x) /\ Seeded(x)
    BY <1>6 DEF Asked, Seeded, Writes, Logged
  <1> QED BY <1>6, <1>7, <1>8, RowKept DEF Load

\* What a commit writes over the row of a capability.
LEMMA Committed ==
    ASSUME TypeOK, RowInv, NEW t \in Threads, Commit(t), tx[t].item \in Capabilities
    PROVE  LET i == tx[t].item
               new == tx[t].new
           IN  /\ row'[i] \in Row /\ row'[i].body = new.body
               /\ row'[i].lifecycle = new.lifecycle /\ row'[i].approval = new.approval
               /\ tx[t].op = "create" => row[i] = None /\ Seeded(tx[t])
               /\ tx[t].op # "create" =>
                     /\ Made(tx[t]) /\ tx[t].base = row[i] /\ row[i] \in Row
                     /\ row'[i].version = row[i].version + 1
               /\ reviewed'[i] = IF new.approval = "approved" /\ tx[t].op \in {"create", "transition"}
                                 THEN new.body ELSE reviewed[i]
  <1>1. tx[t] \in Writing /\ tx[t] # None
    BY TxTypes DEF Commit
  <1>2. PICK i \in Capabilities, new \in Row, op \in Writes :
            i = tx[t].item /\ new = tx[t].new /\ op = tx[t].op
    BY <1>1 DEF Writing
  <1>3. i \in Items
    BY <1>2 DEF Capabilities
  <1>4. row'[i] = [new EXCEPT !.version = @ + (IF op # "create" THEN 1 ELSE 0)]
    BY <1>2, <1>3 DEF Commit, TypeOK
  <1>5. /\ row'[i] \in Row /\ row'[i].body = new.body
        /\ row'[i].lifecycle = new.lifecycle /\ row'[i].approval = new.approval
        /\ op # "create" => row'[i].version = new.version + 1
    BY <1>4 DEF Row
  <1>6. reviewed'[i] = IF new.approval = "approved" /\ op \in {"create", "transition"}
                       THEN new.body ELSE reviewed[i]
    BY <1>2, <1>3 DEF Commit, TypeOK
  <1>7. op = "create" => row[i] = None /\ Seeded(tx[t])
    BY <1>2 DEF Commit, NotMoved, RowInv
  <1>8. ASSUME op # "create"
        PROVE  Made(tx[t]) /\ tx[t].base = row[i] /\ row[i] \in Row /\ new.version = row[i].version
    <2>1. Made(tx[t])
      BY DEF RowInv
    <2>2. Held(tx[t].base, i) /\ new.version = tx[t].base.version
      BY <1>1, <1>2, <1>8, <2>1 DEF Made
    <2>3. row[i].version = tx[t].base.version
      BY <1>2, <1>8 DEF Commit, NotMoved
    <2> QED BY <2>1, <2>2, <2>3 DEF Held
  <1> QED BY <1>2, <1>5, <1>6, <1>7, <1>8

\* The other rows, and what was approved of them, stay.
LEMMA OthersStay ==
    ASSUME TypeOK, NEW t \in Threads, Commit(t), NEW j \in Items, j # tx[t].item
    PROVE  row'[j] = row[j] /\ reviewed'[j] = reviewed[j]
  BY DEF Commit, TypeOK

LEMMA RowCommit ==
    ASSUME TypeOK, RowInv, NEW t \in Threads, Commit(t)
    PROVE  RowInv'
  <1>1. \A u \in Threads : tx'[u] # None => u # t /\ tx'[u] = tx[u]
    BY DEF Commit, TypeOK
  <1>2. ASSUME NEW j \in Capabilities, NEW r, Held(r, j) PROVE Held(r, j)'
    <2>1. CASE j # tx[t].item
      <3>1. row'[j] = row[j]
        BY <2>1, OthersStay DEF Capabilities
      <3> QED BY <1>2, <3>1 DEF Held
    <2>2. CASE j = tx[t].item
      <3>1. row[j] # None
        BY <1>2, CatalogServiceAssumption DEF Held
      <3>2. row[j] \in Row /\ row'[j] \in Row /\ row'[j].version = row[j].version + 1
        BY <2>2, <3>1, Committed
      <3> QED BY <1>2, <3>2 DEF Held, Row
    <2> QED BY <2>1, <2>2
  <1>3. ASSUME NEW u \in Threads PROVE Asked(tx[u])' /\ Made(tx[u])' /\ Seeded(tx[u])'
    <2>1. CASE tx'[u] = None
      BY <2>1 DEF Asked, Made, Seeded
    <2>2. CASE tx'[u] # None
      <3>1. tx'[u] = tx[u] /\ Asked(tx[u]) /\ Made(tx[u]) /\ Seeded(tx[u])
        BY <1>1, <2>2 DEF RowInv
      <3>2. tx[u].op = "if-match" => tx[u].item \in Capabilities
        BY <2>2, <3>1, TxTypes DEF Waiting
      <3>3. Asked(tx[u])'
        BY <1>2, <3>1, <3>2 DEF Asked
      <3>4. Made(tx[u])'
        BY <1>2, <3>1 DEF Made
      <3> QED BY <3>1, <3>3, <3>4 DEF Seeded
    <2> QED BY <2>1, <2>2
  <1>4. ASSUME NEW j \in Capabilities, row'[j] # None, row'[j].approval = "approved"
        PROVE  reviewed'[j] = row'[j].body
    <2>1. CASE j # tx[t].item
      BY <1>4, <2>1, OthersStay DEF Capabilities, RowInv, ApprovedAsReviewed
    <2>2. CASE j = tx[t].item
      <3>1. CASE tx[t].op \in {"create", "transition"}
        BY <1>4, <2>2, <3>1, Committed
      <3>2. CASE tx[t].op \notin {"create", "transition"}
        <4>1. /\ Made(tx[t]) /\ tx[t].base = row[j] /\ row[j] \in Row
              /\ tx[t].new.approval = "approved" /\ row'[j].body = tx[t].new.body
              /\ reviewed'[j] = reviewed[j]
          BY <1>4, <2>2, <3>2, Committed
        <4>2. row[j].approval = "approved" /\ tx[t].new.body = row[j].body
          BY <2>2, <3>2, <4>1 DEF Made, Commit
        <4>3. reviewed[j] = row[j].body
          BY <4>1, <4>2, CatalogServiceAssumption DEF RowInv, ApprovedAsReviewed
        <4> QED BY <4>1, <4>2, <4>3
      <3> QED BY <3>1, <3>2
    <2> QED BY <2>1, <2>2
  <1> QED BY <1>3, <1>4 DEF RowInv, ApprovedAsReviewed

LEMMA RowStep == TypeOK /\ RowInv /\ [Next]_vars => RowInv'
  <1> SUFFICES ASSUME TypeOK, RowInv, [Next]_vars PROVE RowInv'
    OBVIOUS
  <1>1. CASE UNCHANGED vars
    BY <1>1 DEF vars, RowInv, Asked, Made, Seeded, Held, ApprovedAsReviewed
  <1>2. ASSUME NEW t \in Threads, NEW i \in Items, IfMatch(t, i) PROVE RowInv'
    <2> DEFINE x == [op |-> "if-match", item |-> i, saw |-> row[i]]
    <2>1. tx' = [tx EXCEPT ![t] = x] /\ x.op = "if-match" /\ x.saw = row[i] /\ x.item = i
      BY <1>2 DEF IfMatch
    <2>2. row[i] \in Row
      BY <1>2 DEF IfMatch, Live, TypeOK
    <2> HIDE DEF x
    <2>3. Asked(x) /\ Made(x) /\ Seeded(x)
      BY <2>1, <2>2 DEF Asked, Made, Seeded, Held, Row, Writes, Logged
    <2> QED BY <1>2, <2>1, <2>3, RowKept DEF IfMatch
  <1>3. ASSUME NEW t \in Threads, NEW i \in Items, Create(t, i) PROVE RowInv'
    <2>1. PICK new \in Created(i) :
              tx' = [tx EXCEPT ![t] = [op |-> "create", item |-> i, saw |-> None,
                                       base |-> None, new |-> new, no |-> 0]]
      BY <1>3 DEF Create
    <2> DEFINE x == [op |-> "create", item |-> i, saw |-> None, base |-> None,
                     new |-> new, no |-> 0]
    <2>2. tx' = [tx EXCEPT ![t] = x] /\ x.op = "create" /\ x.item = i /\ x.new = new
      BY <2>1
    <2>3. i \in Capabilities /\ new.lifecycle = "published" => new.approval = "approved"
      BY DEF Created, Capabilities
    <2> HIDE DEF x
    <2>4. Asked(x) /\ Made(x) /\ Seeded(x)
      BY <2>2, <2>3 DEF Asked, Made, Seeded
    <2> QED BY <1>3, <2>2, <2>4, RowKept DEF Create
  <1>4. ASSUME NEW t \in Threads, NEW i \in Items, NEW op \in Writes \ {"create"},
               Load(t, i, op) PROVE RowInv'
    BY <1>4, LoadedRow
  <1>5. ASSUME NEW t \in Threads, Number(t) PROVE RowInv'
    <2>1. PICK n : tx' = [tx EXCEPT ![t].no = n + 1]
      BY <1>5 DEF Number
    <2>2. tx[t] \in Writing
      BY <1>5, TxTypes DEF Number, Writes
    <2> DEFINE x == [tx[t] EXCEPT !.no = n + 1]
    <2>3. /\ tx' = [tx EXCEPT ![t] = x] /\ x.op = tx[t].op /\ x.item = tx[t].item
          /\ x.saw = tx[t].saw /\ x.base = tx[t].base /\ x.new = tx[t].new
      BY <2>1, <2>2 DEF Writing
    <2> HIDE DEF x
    <2>4. Asked(x) /\ Made(x) /\ Seeded(x)
      BY <1>5, <2>3 DEF RowInv, Asked, Made, Seeded, Number
    <2> QED BY <1>5, <2>3, <2>4, RowKept DEF Number
  <1>6. ASSUME NEW t \in Threads, Commit(t) PROVE RowInv'
    BY <1>6, RowCommit
  <1>7. ASSUME NEW t \in Threads, Abort(t) PROVE RowInv'
    BY <1>7, RowKept, NothingHeld DEF Abort
  <1>8. ASSUME NEW t \in Threads, NEW i \in Experiences, NEW op \in OfPublications,
               Publication(t, i, op) PROVE RowInv'
    <2> DEFINE x == [op |-> op, item |-> i, pub |-> None]
    <2>1. tx' = [tx EXCEPT ![t] = x] /\ x.op = op
      BY <1>8 DEF Publication
    <2> HIDE DEF x
    <2>2. Asked(x) /\ Made(x) /\ Seeded(x)
      BY <2>1 DEF Asked, Made, Seeded, OfPublications, Writes, Logged
    <2> QED BY <1>8, <2>1, <2>2, RowKept DEF Publication
  <1>9. ASSUME NEW t \in Threads, Find(t) PROVE RowInv'
    <2>1. PICK p : tx' = [tx EXCEPT ![t].pub = p]
      BY <1>9 DEF Find
    <2>2. tx[t] \in Publishing
      BY <1>9, TxTypes DEF Find
    <2> DEFINE x == [tx[t] EXCEPT !.pub = p]
    <2>3. tx' = [tx EXCEPT ![t] = x] /\ x.op \in OfPublications
      BY <2>1, <2>2 DEF Publishing
    <2> HIDE DEF x
    <2>4. Asked(x) /\ Made(x) /\ Seeded(x)
      BY <2>3 DEF Asked, Made, Seeded, OfPublications, Writes, Logged
    <2> QED BY <1>9, <2>3, <2>4, RowKept DEF Find
  <1>10. ASSUME NEW t \in Threads, Settle(t) PROVE RowInv'
    BY <1>10, RowKept, NothingHeld DEF Settle
  <1> QED BY <1>1, <1>2, <1>3, <1>4, <1>5, <1>6, <1>7, <1>8, <1>9, <1>10 DEF Next

----------------------------------------------------------------------------
LEMMA InitIInv == Init => IInv
  <1> SUFFICES ASSUME Init PROVE IInv
    OBVIOUS
  <1>1. TypeOK
    BY CatalogServiceAssumption DEF Init, TypeOK
  <1>2. \A t \in Threads : tx[t] = None
    BY DEF Init
  <1>3. RowInv
    BY <1>2, NothingHeld, CatalogServiceAssumption DEF Init, RowInv, ApprovedAsReviewed, Capabilities
  <1>4. LogInv
    <2>1. \A i \in Items : log[i] = {} /\ Numbers(i) = {} /\ ~Live(i)
      BY DEF Init, Numbers, Live
    <2>2. 1 .. 0 = {}
      OBVIOUS
    <2>3. LogTellsTheRow
      BY <2>1, <2>2 DEF LogTellsTheRow
    <2> QED BY <1>2, <2>3 DEF LogInv, Numbered, Deletes
  <1>5. PubInv
    <2>1. \A i \in Experiences : Active(i) = {}
      <3>1. \A i \in Experiences : pubs[i] = <<>>
        BY DEF Init
      <3>2. DOMAIN <<>> = {}
        BY SMT
      <3> QED BY <3>1, <3>2 DEF Active
    <2> QED BY <1>2, <2>1 DEF PubInv, OnlyTheLastIsActive, HoldsTheActive, Holds
  <1> QED BY <1>1, <1>3, <1>4, <1>5 DEF IInv

\* Only a commit changes a row.
LEMMA OnlyCommit ==
    ASSUME TypeOK, [Next]_vars, NEW i \in Items, row'[i] # row[i]
    PROVE  \E t \in Threads : Commit(t) /\ tx[t].item = i
  <1>1. PICK t \in Threads : Commit(t)
    BY DEF Next, vars, IfMatch, Create, Load, Number, Abort, Publication, Find, Settle
  <1> QED BY <1>1, OthersStay

\* Step of NoLostUpdate.
LEMMA UpdateStep ==
    ASSUME TypeOK, RowInv, [Next]_vars, NEW i \in Capabilities, row[i] # None, row'[i] # row[i]
    PROVE  /\ ~row[i].deleted
           /\ \E t \in Threads :
                /\ tx[t] # None /\ tx[t].op \in Writes /\ tx[t].item = i
                /\ tx'[t] = None
                /\ tx[t].base = row[i] /\ tx[t].saw \in {None, row[i]}
  <1>1. PICK t \in Threads : Commit(t) /\ tx[t].item = i
    BY OnlyCommit DEF Capabilities
  <1>2. tx[t] # None /\ tx[t].op \in Writes /\ tx'[t] = None
    BY <1>1 DEF Commit, TypeOK
  <1>3. tx[t].op # "create" /\ Made(tx[t]) /\ tx[t].base = row[i]
    BY <1>1, Committed
  <1>4. ~row[i].deleted /\ tx[t].saw \in {None, row[i]}
    BY <1>1, <1>2, <1>3 DEF Made
  <1> QED BY <1>1, <1>2, <1>3, <1>4

\* Step of PublishedAsReviewed.
LEMMA PublishStep ==
    ASSUME TypeOK, RowInv, [Next]_vars, NEW i \in Capabilities,
           row'[i] # None, row'[i].lifecycle = "published",
           row[i] = None \/ row[i].lifecycle # "published"
    PROVE  reviewed'[i] = row'[i].body
  <1>1. PICK t \in Threads : Commit(t) /\ tx[t].item = i
    BY OnlyCommit DEF Capabilities
  <1>2. tx[t] # None /\ tx[t].op \in Writes
    BY <1>1 DEF Commit
  <1>3. CASE tx[t].op = "create"
    BY <1>1, <1>2, <1>3, Committed DEF Seeded
  <1>4. CASE tx[t].op # "create"
    <2>1. /\ Made(tx[t]) /\ tx[t].base = row[i] /\ row[i] \in Row
          /\ tx[t].new.lifecycle = "published" /\ row'[i].body = tx[t].new.body
      BY <1>1, <1>4, Committed
    <2>2. row[i] # None
      BY <2>1, CatalogServiceAssumption
    <2>3. tx[t].op = "update" /\ row[i].approval = "approved" /\ tx[t].new.body = row[i].body
      BY <1>1, <1>2, <1>4, <2>1, <2>2 DEF Made
    <2>4. reviewed[i] = row[i].body
      BY <2>2, <2>3 DEF RowInv, ApprovedAsReviewed
    <2>5. reviewed'[i] = reviewed[i]
      BY <1>1, <2>3, Committed
    <2> QED BY <2>1, <2>3, <2>4, <2>5
  <1> QED BY <1>3, <1>4

LEMMA IInvStep == IInv /\ [Next]_vars => IInv'
  BY TypeStep, RowStep, LogStep, PubStep DEF IInv

THEOREM Invariance == Spec => []IInv
  BY InitIInv, IInvStep, PTL DEF Spec

\* Every reachable state of the catalog service has its types.
THEOREM CatalogServiceTypes == Spec => []TypeOK
  <1>1. IInv => TypeOK
    BY DEF IInv
  <1> QED BY Invariance, <1>1, PTL

\* The version log has no gap and no number twice, and its last version is the
\* live row, for every number of items, threads and requests.
THEOREM LogTells == Spec => []LogTellsTheRow
  <1>1. IInv => LogTellsTheRow
    BY DEF IInv, LogInv
  <1> QED BY Invariance, <1>1, PTL

\* All publications but the last are revoked, unless two requests held them at once.
THEOREM LastActive == Spec => []OnlyTheLastIsActive
  <1>1. IInv => OnlyTheLastIsActive
    BY DEF IInv, PubInv
  <1> QED BY Invariance, <1>1, PTL

\* No change of a capability is lost to another, and a deleted one stays deleted.
THEOREM LosesNoUpdate == Spec => NoLostUpdate
  <1>1. IInv /\ [Next]_vars =>
          [\A i \in Capabilities : row[i] # None /\ row'[i] # row[i] =>
              /\ ~row[i].deleted
              /\ \E t \in Threads :
                    /\ tx[t] # None /\ tx[t].op \in Writes /\ tx[t].item = i
                    /\ tx'[t] = None
                    /\ tx[t].base = row[i] /\ tx[t].saw \in {None, row[i]}]_vars
    BY UpdateStep DEF IInv
  <1> QED BY Invariance, <1>1, PTL DEF Spec, NoLostUpdate

\* Nothing becomes published that was not approved as it is.
THEOREM PublishesAsReviewed == Spec => PublishedAsReviewed
  <1>1. IInv /\ [Next]_vars =>
          [\A i \in Capabilities :
              /\ row'[i] # None /\ row'[i].lifecycle = "published"
              /\ row[i] = None \/ row[i].lifecycle # "published"
              => reviewed'[i] = row'[i].body]_vars
    BY PublishStep DEF IInv
  <1> QED BY Invariance, <1>1, PTL DEF Spec, PublishedAsReviewed
=============================================================================
