--------------------------- MODULE CatalogService ---------------------------
(***************************************************************************)
(* The Java catalog service (platform/agentic-catalog-service): versions,  *)
(* approval, concurrency and publication of capabilities and experiences.  *)
(* Requests run on threads.  A transaction reads the row, then the highest *)
(* number of its versions, and writes both when it commits.  The database  *)
(* shows it what others have committed (READ COMMITTED), keeps names and   *)
(* version numbers unique and, for capabilities alone, refuses to replace  *)
(* a row whose version has moved on (@Version).                            *)
(*                                                                         *)
(* Refused requests (404, 409, 412) change nothing and are no steps.  An   *)
(* item is its name: the unique names count deleted rows, too, so a name   *)
(* has one row for ever.  Of a row there is its body and what governs it;  *)
(* tags, owner and the chain of approvals come and go with these.  Of a    *)
(* publication there is its status; key, pin and bundle are written once,  *)
(* or with it.                                                             *)
(***************************************************************************)
EXTENDS Integers, Sequences

CONSTANTS
    Items,
    Experiences,   \* the items that are experiences; the others, capabilities
    Bodies,
    Threads,
    None,
    MaxRequests    \* bound: requests that write

Capabilities == Items \ Experiences
Lifecycles == {"draft", "published"}   \* and others that nothing depends on
ApprovalStates == {"draft", "review", "approved", "rejected", "deprecated"}
Row == [body : Bodies, lifecycle : Lifecycles, approval : ApprovalStates,
        version : Nat, deleted : BOOLEAN]
Snapshot(r) == [body |-> r.body, lifecycle |-> r.lifecycle, approval |-> r.approval]

ASSUME CatalogServiceAssumption ==
    /\ Experiences \subseteq Items
    /\ MaxRequests \in Nat
    /\ None \notin Bodies \cup Lifecycles \cup Row

VARIABLES
    row,        \* per item: its row, or None
    log,        \* per item: its rows of capability_versions or experience_versions
    pubs,       \* per experience: its publications, each "active" or "revoked"
    tx,         \* per thread: what the request it serves has read, or None
    requests,
    reviewed,   \* history, per item: the body that an approver, or a seed, approved
    raced       \* history, per experience: two requests held its publications at once

vars == <<row, log, pubs, tx, requests, reviewed, raced>>

Live(i) == row[i] # None /\ ~row[i].deleted
Numbers(i) == {v.no : v \in log[i]}
IsMaxVersionNo(i, n) == n \in Numbers(i) \cup {0} /\ \A m \in Numbers(i) : m <= n

Init ==
    /\ row = [i \in Items |-> None]
    /\ log = [i \in Items |-> {}]
    /\ pubs = [i \in Experiences |-> <<>>]
    /\ tx = [t \in Threads |-> None]
    /\ requests = 0
    /\ reviewed = [i \in Items |-> None]
    /\ raced = [i \in Experiences |-> FALSE]

----------------------------------------------------------------------------
(* What a request makes of a row *)

\* A create may ask for "published", which is taken as approved (a seed), and for
\* any approval state of an experience.
Created(i) ==
    IF i \in Experiences
    THEN [body : Bodies, lifecycle : {"draft"}, approval : ApprovalStates,
          version : {0}, deleted : {FALSE}]
    ELSE {r \in [body : Bodies, lifecycle : Lifecycles, approval : {"draft", "approved"},
                 version : {0}, deleted : {FALSE}] :
             r.approval = "approved" <=> r.lifecycle = "published"}

\* Wrong: a new body keeps the approval of the old one.
AfterEditKept(i, approval, body) == approval

\* A new body sends an approved capability back to draft.
AfterEdit(i, approval, body) ==
    IF i \in Capabilities /\ body # None /\ approval = "approved" THEN "draft" ELSE approval

\* PATCH: a body, for capabilities a lifecycle, or neither; only what is approved
\* then may become published.
Patches(i) ==
    [body : Bodies \cup {None},
     lifecycle : IF i \in Capabilities THEN Lifecycles \cup {None} ELSE {None}]

Updated(i, r) ==
    {[r EXCEPT !.body = IF p.body = None THEN @ ELSE p.body,
               !.lifecycle = IF p.lifecycle = None THEN @ ELSE p.lifecycle,
               !.approval = AfterEdit(i, @, p.body)] :
        p \in {q \in Patches(i) : q.lifecycle = "published" =>
                                     AfterEdit(i, r.approval, q.body) = "approved"}}

\* ApprovalStateMachine.next, as the moves it allows.
Moves ==
    {<<"draft", "review">>, <<"rejected", "review">>,      \* submit
     <<"review", "approved">>, <<"review", "rejected">>,   \* approve, reject
     <<"approved", "draft">>}                              \* revoke
    \cup (ApprovalStates \X {"deprecated"})                \* deprecate

Transitioned(r) == {[r EXCEPT !.approval = to] :
                       to \in {a \in ApprovalStates : <<r.approval, a>> \in Moves}}

\* A body of the log comes back; only a capability is to be reviewed again.
RolledBack(i, r) ==
    {[r EXCEPT !.body = v.snapshot.body,
               !.approval = IF i \in Capabilities THEN "draft" ELSE @] : v \in log[i]}

\* The rows a request may write over r, by what is asked.
Results(i, op, r) ==
    CASE op = "update" -> Updated(i, r)
      [] op = "transition" -> Transitioned(r)
      [] op = "rollback" -> RolledBack(i, r)
      [] op = "delete" -> {[r EXCEPT !.deleted = TRUE]}

----------------------------------------------------------------------------
(* Requests that write a row *)

Begins(t) == tx[t] = None /\ requests < MaxRequests /\ requests' = requests + 1

\* A client sends a PATCH or DELETE with the ETag of the row it has seen.
IfMatch(t, i) ==
    /\ Begins(t)
    /\ i \in Capabilities /\ Live(i)
    /\ tx' = [tx EXCEPT ![t] = [op |-> "if-match", item |-> i, saw |-> row[i]]]
    /\ UNCHANGED <<row, log, pubs, reviewed, raced>>

\* create: no live row has the name.
Create(t, i) ==
    /\ Begins(t)
    /\ ~Live(i)
    /\ \E new \in Created(i) :
          tx' = [tx EXCEPT ![t] = [op |-> "create", item |-> i, saw |-> None,
                                   base |-> None, new |-> new, no |-> 0]]
    /\ UNCHANGED <<row, log, pubs, reviewed, raced>>

\* get, the checks, and the changes to the loaded row; the ETag must be its version.
Load(t, i, op) ==
    /\ Live(i)
    /\ \/ Begins(t)
       \/ /\ tx[t] # None /\ tx[t].op = "if-match" /\ tx[t].item = i
          /\ op \in {"update", "delete"}
          /\ tx[t].saw.version = row[i].version
          /\ UNCHANGED requests
    /\ \E new \in Results(i, op, row[i]) :
          tx' = [tx EXCEPT ![t] =
                    [op |-> op, item |-> i, saw |-> IF @ = None THEN None ELSE @.saw,
                     base |-> row[i], new |-> new, no |-> 0]]
    /\ UNCHANGED <<row, log, pubs, reviewed, raced>>

Logged == {"create", "update", "transition", "rollback"}
Writes == Logged \cup {"delete"}

\* appendVersion reads maxVersionNo.
Number(t) ==
    /\ tx[t] # None /\ tx[t].op \in Logged /\ tx[t].no = 0
    /\ \E n \in Numbers(tx[t].item) \cup {0} :
          /\ IsMaxVersionNo(tx[t].item, n)
          /\ tx' = [tx EXCEPT ![t].no = n + 1]
    /\ UNCHANGED <<row, log, pubs, requests, reviewed, raced>>

\* Wrong: without @Version the row is replaced whatever became of it.
NotMovedUnchecked(t) == TRUE

\* The row a create inserts has a new name; the row of a capability that is
\* written has still the version that was loaded.
NotMoved(t) ==
    LET i == tx[t].item IN
    IF tx[t].op = "create" THEN row[i] = None
    ELSE i \in Capabilities => row[i].version = tx[t].base.version

\* Wrong: version numbers are not unique.
NewNumberUnchecked(t) == TRUE

\* uq_cap_ver, uq_exp_ver
NewNumber(t) == tx[t].no \notin Numbers(tx[t].item)

\* The commit: the version is inserted and the whole row written.
Commit(t) ==
    /\ tx[t] # None /\ tx[t].op \in Writes
    /\ tx[t].op \in Logged => tx[t].no > 0 /\ NewNumber(t)
    /\ NotMoved(t)
    /\ LET i == tx[t].item
           bump == IF i \in Capabilities /\ tx[t].op # "create" THEN 1 ELSE 0
           approves == tx[t].new.approval = "approved" /\ tx[t].op \in {"create", "transition"}
       IN  /\ row' = [row EXCEPT ![i] = [tx[t].new EXCEPT !.version = @ + bump]]
           /\ log' = IF tx[t].op \notin Logged THEN log
                     ELSE [log EXCEPT ![i] = @ \cup
                             {[no |-> tx[t].no, snapshot |-> Snapshot(tx[t].new)]}]
           /\ reviewed' = [reviewed EXCEPT ![i] = IF approves THEN tx[t].new.body ELSE @]
    /\ tx' = [tx EXCEPT ![t] = None]
    /\ UNCHANGED <<pubs, requests, raced>>

\* A request comes to nothing: a constraint or @Version refuses the commit, the
\* ETag is stale, there is nothing to unpublish, or the service dies.
Abort(t) ==
    /\ tx[t] # None
    /\ tx' = [tx EXCEPT ![t] = None]
    /\ UNCHANGED <<row, log, pubs, requests, reviewed, raced>>

----------------------------------------------------------------------------
(* Publications *)

\* publish sees an approved row, unpublish and rotateKey a row, outside of the
\* transaction that follows.
Publication(t, i, op) ==
    /\ Begins(t)
    /\ Live(i) /\ (op = "publish" => row[i].approval = "approved")
    /\ tx' = [tx EXCEPT ![t] = [op |-> op, item |-> i, pub |-> None]]
    /\ UNCHANGED <<row, log, pubs, reviewed, raced>>

OfPublications == {"publish", "unpublish", "rotate"}
Active(i) == {p \in DOMAIN pubs[i] : pubs[i][p] = "active"}
Holds(t, i) == tx[t] # None /\ tx[t].op \in OfPublications /\ tx[t].item = i /\ tx[t].pub # None

\* The transaction reads an active publication; only publish goes on with none.
Find(t) ==
    /\ tx[t] # None /\ tx[t].op \in OfPublications /\ tx[t].pub = None
    /\ LET i == tx[t].item IN
       /\ \E p \in Active(i) \cup (IF tx[t].op = "publish" /\ Active(i) = {} THEN {0} ELSE {}) :
             tx' = [tx EXCEPT ![t].pub = p]
       /\ raced' = [raced EXCEPT ![i] = @ \/ \E u \in Threads \ {t} : Holds(u, i)]
    /\ UNCHANGED <<row, log, pubs, requests, reviewed>>

Marked(i, p, status) == IF p = 0 THEN pubs[i] ELSE [pubs[i] EXCEPT ![p] = status]

\* Wrong: publish leaves the publication that is active as it is.
SettledKept(i, op, p) ==
    CASE op = "publish" -> Append(pubs[i], "active")
      [] op = "unpublish" -> Marked(i, p, "revoked")
      [] op = "rotate" -> Marked(i, p, "active")

\* What is written: the publication that was read, whole, and the new one.
Settled(i, op, p) ==
    CASE op = "publish" -> Append(Marked(i, p, "revoked"), "active")
      [] op = "unpublish" -> Marked(i, p, "revoked")
      [] op = "rotate" -> Marked(i, p, "active")

Settle(t) ==
    /\ tx[t] # None /\ Holds(t, tx[t].item)
    /\ pubs' = [pubs EXCEPT ![tx[t].item] = Settled(tx[t].item, tx[t].op, tx[t].pub)]
    /\ tx' = [tx EXCEPT ![t] = None]
    /\ UNCHANGED <<row, log, requests, reviewed, raced>>

----------------------------------------------------------------------------
Next ==
    \E t \in Threads :
        \/ Number(t) \/ Commit(t) \/ Abort(t) \/ Find(t) \/ Settle(t)
        \/ \E i \in Items : \/ IfMatch(t, i) \/ Create(t, i)
                            \/ \E op \in Writes \ {"create"} : Load(t, i, op)
        \/ \E i \in Experiences, op \in OfPublications : Publication(t, i, op)

Spec == Init /\ [][Next]_vars

----------------------------------------------------------------------------
Waiting == [op : {"if-match"}, item : Capabilities, saw : Row]
Writing == [op : Writes, item : Items, saw : Row \cup {None},
            base : Row \cup {None}, new : Row, no : Nat]
Publishing == [op : OfPublications, item : Experiences, pub : Nat \cup {None}]

TypeOK ==
    /\ row \in [Items -> Row \cup {None}]
    /\ log \in [Items -> SUBSET [no : Nat, snapshot : [body : Bodies,
                    lifecycle : Lifecycles, approval : ApprovalStates]]]
    /\ pubs \in [Experiences -> Seq({"active", "revoked"})]
    /\ tx \in [Threads -> Waiting \cup Writing \cup Publishing \cup {None}]
    /\ requests \in 0 .. MaxRequests
    /\ reviewed \in [Items -> Bodies \cup {None}]
    /\ raced \in [Experiences -> BOOLEAN]

\* The log has no gap and no number twice, and its last version is the live row,
\* of experiences, too, which replace each other's rows unchecked.
LogTellsTheRow ==
    \A i \in Items :
        /\ \A v, w \in log[i] : v.no = w.no => v = w
        /\ \E n \in Numbers(i) \cup {0} :
              /\ Numbers(i) = 1 .. n
              /\ Live(i) => \E v \in log[i] : v.no = n /\ v.snapshot = Snapshot(row[i])

\* What replaces the row of a capability was made of that row, which is not
\* deleted, and is what a client that sent an ETag has seen: no change is lost.
NoLostUpdate ==
    [][\A i \in Capabilities : row[i] # None /\ row'[i] # row[i] =>
          /\ ~row[i].deleted
          /\ \E t \in Threads :
                /\ tx[t] # None /\ tx[t].op \in Writes /\ tx[t].item = i
                /\ tx'[t] = None
                /\ tx[t].base = row[i] /\ tx[t].saw \in {None, row[i]}]_vars

\* A capability becomes published only with the body that was approved last,
\* whatever edits, rollbacks and transitions ran at the same time.
PublishedAsReviewed ==
    [][\A i \in Capabilities :
          /\ row'[i] # None /\ row'[i].lifecycle = "published"
          /\ row[i] = None \/ row[i].lifecycle # "published"
          => reviewed'[i] = row'[i].body]_vars

\* All publications of an experience but the last are revoked, unless two requests
\* held them at once: nothing but the service keeps one active.
OnlyTheLastIsActive ==
    \A i \in Experiences : ~raced[i] => Active(i) \subseteq {Len(pubs[i])}
=============================================================================
