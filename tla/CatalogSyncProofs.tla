------------------------- MODULE CatalogSyncProofs -------------------------
(***************************************************************************)
(* For every number of replicas, clients, writes and faults: the bus of a  *)
(* replica emits no write more often than the replica was notified of it,  *)
(* its own ones once, and misses none unless something was lost; and an    *)
(* app that had the list once never hides everything again.  And for every *)
(* number of its clients, the listener that feeds a replica's bus has one  *)
(* connection at a time, as long as ended clients close in time.           *)
(***************************************************************************)
EXTENDS CatalogSync, NotifyListener, FiniteSetTheorems, TLAPS

\* What is on the server side has its type.
ServerOK ==
    /\ catalog \in 0 .. MaxWrites
    /\ handlers \subseteq Event
    /\ outgoing \subseteq Event
    /\ notes \subseteq [write : Writes, from : Replicas, to : Replicas, by : PgClients]
    /\ listening \in [Replicas -> SUBSET PgClients]
    /\ heard \in [Replicas -> [Writes -> Nat]]
    /\ due \in [Replicas -> [Writes -> Nat]]

\* A write that is not committed, or not published, was emitted nowhere.
NotYet ==
    /\ \A r \in Replicas, w \in Writes : w > catalog => heard[r][w] = 0
    /\ \A h \in handlers \cup outgoing : h.write <= catalog
    /\ \A n \in notes : n.write <= catalog
    /\ \A h \in handlers, r \in Replicas : heard[r][h.write] = 0

\* A write whose query is under way was emitted by its own replica only.
HomeOnly ==
    /\ \A h \in outgoing, r \in Replicas : r # h.from => heard[r][h.write] = 0
    /\ \A h \in handlers \cup outgoing : due[h.from][h.write] = 1

\* A write is at one stage: in its handler, in its query or in notifications.
OneStage ==
    /\ \A h, k \in handlers \cup outgoing : h.write = k.write => h = k
    /\ handlers \cap outgoing = {}
    /\ \A n \in notes, h \in handlers \cup outgoing : n.write # h.write
    /\ \A n, m \in notes : n.write = m.write => n.from = m.from

\* The clients of r with a notification of w that its bus will emit.
Pending(r, w) ==
    {c \in PgClients : \E n \in notes : n.to = r /\ n.write = w /\ n.by = c /\ n.from # r}

\* What was emitted and what is still to be emitted was due.
WithinDue == \A r \in Replicas, w \in Writes : heard[r][w] + Cardinality(Pending(r, w)) <= due[r][w]

EventInv == ServerOK /\ NotYet /\ HomeOnly /\ OneStage /\ WithinDue

\* Sets of clients are finite, and a smaller one has no more members.
LEMMA ClientSets ==
    ASSUME NEW S \in SUBSET PgClients
    PROVE  /\ IsFiniteSet(S) /\ Cardinality(S) \in Nat
           /\ \A T \in SUBSET S : Cardinality(T) \in Nat /\ Cardinality(T) <= Cardinality(S)
           /\ \A c \in S : Cardinality(S \ {c}) = Cardinality(S) - 1 /\ Cardinality(S) >= 1
<1>1. IsFiniteSet(S) /\ Cardinality(S) \in Nat
  BY SyncAssumption, FS_Subset, FS_CardinalityType DEF SyncAssumption
<1>2. \A T \in SUBSET S : Cardinality(T) \in Nat /\ Cardinality(T) <= Cardinality(S)
  BY <1>1, FS_Subset, FS_CardinalityType
<1>3. ASSUME NEW c \in S PROVE Cardinality(S \ {c}) = Cardinality(S) - 1 /\ Cardinality(S) >= 1
  <2>1. Cardinality(S \ {c}) = Cardinality(S) - 1
    BY <1>1, FS_RemoveElement
  <2>2. Cardinality(S \ {c}) \in Nat
    BY <1>2
  <2> QED BY <1>1, <2>1, <2>2
<1> QED BY <1>1, <1>2, <1>3

LEMMA EventInit == Init => EventInv
<1> SUFFICES ASSUME Init PROVE EventInv
  OBVIOUS
<1>1. NewClient({}) \in PgClients
  <2>1. \E c \in PgClients : c \notin {}
    BY SyncAssumption DEF SyncAssumption
  <2> QED BY <2>1 DEF NewClient
<1>2. ServerOK
  BY <1>1, SyncAssumption DEF SyncAssumption, Init, ServerOK, Event
<1>3. NotYet /\ HomeOnly /\ OneStage
  BY DEF Init, NotYet, HomeOnly, OneStage
<1>4. \A r \in Replicas, w \in Writes : Pending(r, w) = {}
  BY DEF Init, Pending
<1>5. WithinDue
  <2> SUFFICES ASSUME NEW r \in Replicas, NEW w \in Writes
               PROVE  heard[r][w] + Cardinality(Pending(r, w)) <= due[r][w]
    BY DEF WithinDue
  <2>1. Pending(r, w) = {}
    BY <1>4
  <2>2. Cardinality(Pending(r, w)) = 0
    BY <2>1, FS_EmptySet, Zenon
  <2>3. heard[r][w] = 0 /\ due[r][w] = 0
    BY DEF Init
  <2> QED BY <2>2, <2>3
<1> QED BY <1>2, <1>3, <1>5 DEF EventInv

\* What is pending when the notifications become fewer.
LEMMA PendingDrops ==
    ASSUME EventInv, notes' \subseteq notes, NEW r \in Replicas, NEW w \in Writes
    PROVE  /\ Pending(r, w)' \subseteq Pending(r, w)
           /\ Cardinality(Pending(r, w)') \in Nat /\ Cardinality(Pending(r, w)) \in Nat
           /\ Cardinality(Pending(r, w)') <= Cardinality(Pending(r, w))
<1>1. Pending(r, w)' \subseteq Pending(r, w) /\ Pending(r, w) \subseteq PgClients
  BY DEF Pending
<1> QED BY <1>1, ClientSets

\* A step that only drops events or notifications keeps the invariant.
LEMMA DropKeeps ==
    ASSUME EventInv,
           catalog' = catalog, heard' = heard, due' = due,
           handlers' \subseteq handlers, outgoing' \subseteq outgoing, notes' \subseteq notes,
           listening' \in [Replicas -> SUBSET PgClients]
    PROVE  EventInv'
<1>1. ServerOK' /\ NotYet' /\ HomeOnly' /\ OneStage'
  BY DEF EventInv, ServerOK, NotYet, HomeOnly, OneStage
<1>2. ASSUME NEW r \in Replicas, NEW w \in Writes
      PROVE  heard'[r][w] + Cardinality(Pending(r, w)') <= due'[r][w]
  <2>1. /\ Cardinality(Pending(r, w)') \in Nat /\ Cardinality(Pending(r, w)) \in Nat
        /\ Cardinality(Pending(r, w)') <= Cardinality(Pending(r, w))
    BY PendingDrops
  <2>2. heard[r][w] \in Nat /\ due[r][w] \in Nat
    BY DEF EventInv, ServerOK
  <2>3. heard[r][w] + Cardinality(Pending(r, w)) <= due[r][w]
    BY DEF EventInv, WithinDue
  <2> QED BY <2>1, <2>2, <2>3
<1>3. WithinDue'
  BY <1>2 DEF WithinDue
<1> QED BY <1>1, <1>3 DEF EventInv

\* A table with one entry changed.
LEMMA OneChanged ==
    ASSUME NEW f \in [Replicas -> [Writes -> Nat]], NEW r \in Replicas, NEW w \in Writes,
           NEW x \in Nat, NEW g, g = [f EXCEPT ![r][w] = x]
    PROVE  /\ g \in [Replicas -> [Writes -> Nat]]
           /\ g[r][w] = x
           /\ \A q \in Replicas, v \in Writes : <<q, v>> # <<r, w>> => g[q][v] = f[q][v]
  OBVIOUS

LEMMA WriteKeeps ==
    ASSUME EventInv, NEW r \in Replicas, Write(r)
    PROVE  EventInv'
<1> DEFINE h0 == [write |-> catalog + 1, from |-> r]
<1>1. catalog \in 0 .. MaxWrites /\ catalog + 1 \in Writes /\ catalog' = catalog + 1
  BY SyncAssumption DEF SyncAssumption, EventInv, ServerOK, Write, Writes
<1>2. handlers' = handlers \cup {h0} /\ h0 \in Event /\ h0.write = catalog + 1 /\ h0.from = r
  BY <1>1 DEF Write, Event
<1>3. UNCHANGED <<outgoing, notes, heard, listening>>
  BY DEF Write, listeners
<1>4. \A k \in handlers \cup outgoing : k \in Event /\ k.write <= catalog /\ k.write \in Writes
  BY DEF EventInv, ServerOK, NotYet, Event
<1>5. \A n \in notes : n.write <= catalog /\ n.write \in Writes
  BY DEF EventInv, ServerOK, NotYet
<1>0. /\ due' \in [Replicas -> [Writes -> Nat]]
      /\ due'[r][catalog + 1] = 1
      /\ \A q \in Replicas, v \in Writes : <<q, v>> # <<r, catalog + 1>> => due'[q][v] = due[q][v]
  <2>1. PICK w0 \in Writes : w0 = catalog + 1
    BY <1>1
  <2>2. due \in [Replicas -> [Writes -> Nat]] /\ due' = [due EXCEPT ![r][w0] = 1]
    BY <2>1 DEF EventInv, ServerOK, Write
  <2>3. /\ due' \in [Replicas -> [Writes -> Nat]]
        /\ due'[r][w0] = 1
        /\ \A q \in Replicas, v \in Writes : <<q, v>> # <<r, w0>> => due'[q][v] = due[q][v]
    BY <2>2, OneChanged
  <2> QED BY <2>1, <2>3
<1>6. ServerOK'
  <2>1. catalog' \in 0 .. MaxWrites
    BY <1>1, SyncAssumption DEF SyncAssumption, Writes
  <2>2. handlers' \subseteq Event
    BY <1>2 DEF EventInv, ServerOK
  <2>3. due' \in [Replicas -> [Writes -> Nat]]
    BY <1>0
  <2> QED BY <1>3, <2>1, <2>2, <2>3 DEF EventInv, ServerOK
<1>7. NotYet'
  BY <1>1, <1>2, <1>3, <1>4, <1>5 DEF EventInv, NotYet, ServerOK, Writes
<1>8. OneStage'
  <2>1. \A k \in handlers \cup outgoing : k.write # h0.write
    BY <1>1, <1>2, <1>4 DEF Writes
  <2>2. \A n \in notes : n.write # h0.write
    BY <1>1, <1>2, <1>5 DEF Writes
  <2> QED
    BY <2>1, <2>2, <1>2, <1>3 DEF EventInv, OneStage
<1>9. HomeOnly'
  <2>1. \A k \in handlers \cup outgoing : due'[k.from][k.write] = 1
    BY <1>0, <1>4 DEF EventInv, HomeOnly, Event
  <2> QED BY <1>0, <1>2, <1>3, <2>1 DEF EventInv, HomeOnly
<1>10. WithinDue'
  <2> SUFFICES ASSUME NEW q \in Replicas, NEW w \in Writes
               PROVE  heard[q][w] + Cardinality(Pending(q, w)') <= due'[q][w]
    BY <1>3 DEF WithinDue
  <2>1. Pending(q, w)' = Pending(q, w)
    BY <1>3 DEF Pending
  <2>2. CASE <<q, w>> # <<r, catalog + 1>>
    BY <1>0, <2>1, <2>2 DEF EventInv, WithinDue
  <2>3. CASE q = r /\ w = catalog + 1
    <3>1. Pending(q, w) = {}
      BY <1>1, <1>5, <2>3 DEF Pending, Writes
    <3>2. heard[q][w] = 0
      BY <1>1, <2>3 DEF EventInv, NotYet, Writes
    <3>3. Cardinality(Pending(q, w)) = 0
      BY <3>1, FS_EmptySet, Zenon
    <3>4. Cardinality(Pending(q, w)') = 0
      BY <2>1, <3>3, Zenon
    <3> QED BY <1>0, <2>3, <3>2, <3>4
  <2> QED BY <2>2, <2>3
<1> QED
  BY <1>6, <1>7, <1>8, <1>9, <1>10 DEF EventInv

\* A bus emits a write once more.
LEMMA EmitCounts ==
    ASSUME EventInv, NEW r \in Replicas, NEW w \in Writes, Emit(r, w)
    PROVE  /\ heard' \in [Replicas -> [Writes -> Nat]]
           /\ heard'[r][w] = heard[r][w] + 1
           /\ \A q \in Replicas, v \in Writes : <<q, v>> # <<r, w>> => heard'[q][v] = heard[q][v]
<1>1. heard \in [Replicas -> [Writes -> Nat]]
  BY DEF EventInv, ServerOK
<1>2. heard' = [heard EXCEPT ![r][w] = @ + 1]
  BY DEF Emit
<1> QED
  BY <1>1, <1>2

LEMMA PublishKeeps ==
    ASSUME EventInv, NEW h \in handlers, Publish(h)
    PROVE  EventInv'
<1>1. /\ h \in Event /\ h.from \in Replicas /\ h.write \in Writes
      /\ handlers' = handlers \ {h} /\ outgoing' = outgoing \cup {h}
      /\ UNCHANGED <<catalog, notes, due, listening>>
      /\ Emit(h.from, h.write)
      /\ heard[h.from][h.write] = 0
  BY DEF EventInv, ServerOK, NotYet, Event, Publish, listeners
<1>2. \A k \in handlers \cup outgoing : k \in Event /\ k.write \in Writes /\ k.from \in Replicas
  BY DEF EventInv, ServerOK, Event
<1>3. \A n \in notes : n.write \in Writes /\ n.to \in Replicas /\ n.write # h.write
  BY DEF EventInv, ServerOK, OneStage
<1>4. \A k \in (handlers \cup outgoing) \ {h} : k.write # h.write
  BY DEF EventInv, OneStage
<1>5. /\ heard' \in [Replicas -> [Writes -> Nat]]
      /\ heard'[h.from][h.write] = 1
      /\ \A q \in Replicas, v \in Writes :
            <<q, v>> # <<h.from, h.write>> => heard'[q][v] = heard[q][v]
  BY <1>1, EmitCounts
<1>6. ServerOK'
  BY <1>1, <1>5 DEF EventInv, ServerOK
<1>7. NotYet'
  <2>1. \A r \in Replicas, w \in Writes : w > catalog => heard'[r][w] = 0
    <3> SUFFICES ASSUME NEW r \in Replicas, NEW w \in Writes, w > catalog PROVE heard'[r][w] = 0
      OBVIOUS
    <3>1. h.write <= catalog /\ catalog \in Int /\ w \in Int /\ h.write \in Int
      BY <1>1 DEF EventInv, NotYet, ServerOK, Writes
    <3>2. <<r, w>> # <<h.from, h.write>> /\ heard[r][w] = 0
      BY <3>1 DEF EventInv, NotYet
    <3> QED
      BY <3>2, <1>5
  <2>2. \A k \in handlers', r \in Replicas : heard'[r][k.write] = 0
    BY <1>1, <1>2, <1>4, <1>5 DEF EventInv, NotYet
  <2> QED
    BY <2>1, <2>2, <1>1 DEF EventInv, NotYet
<1>8. HomeOnly'
  <2>1. \A r \in Replicas : r # h.from => heard'[r][h.write] = 0
    BY <1>1, <1>5 DEF EventInv, NotYet
  <2>2. \A k \in outgoing, r \in Replicas : k # h /\ r # k.from => heard'[r][k.write] = 0
    BY <1>2, <1>4, <1>5 DEF EventInv, HomeOnly
  <2> QED
    BY <2>1, <2>2, <1>1 DEF EventInv, HomeOnly
<1>9. OneStage'
  BY <1>1, <1>3, <1>4 DEF EventInv, OneStage
<1>10. WithinDue'
  <2> SUFFICES ASSUME NEW q \in Replicas, NEW w \in Writes
               PROVE  heard'[q][w] + Cardinality(Pending(q, w)') <= due[q][w]
    BY <1>1 DEF WithinDue
  <2>1. Pending(q, w)' = Pending(q, w)
    BY <1>1 DEF Pending
  <2>2. CASE <<q, w>> # <<h.from, h.write>>
    BY <1>5, <2>1, <2>2 DEF EventInv, WithinDue
  <2>3. CASE q = h.from /\ w = h.write
    <3>1. Pending(q, w) = {}
      BY <1>3, <2>3 DEF Pending
    <3>2. due[q][w] = 1
      BY <1>1, <2>3 DEF EventInv, HomeOnly
    <3> QED BY <1>5, <2>1, <2>3, <3>1, <3>2, FS_EmptySet
  <2> QED BY <2>2, <2>3
<1> QED
  BY <1>6, <1>7, <1>8, <1>9, <1>10 DEF EventInv

\* The notifications that pg_notify sends.
Sends(h) == UNION {{[write |-> h.write, from |-> h.from, to |-> r, by |-> c] :
                       c \in listening[r]} : r \in Replicas}

LEMMA SendsToAll ==
    ASSUME EventInv, NEW h \in outgoing
    PROVE  /\ Sends(h) \subseteq [write : Writes, from : Replicas, to : Replicas, by : PgClients]
           /\ \A n \in Sends(h) : /\ n.write = h.write /\ n.from = h.from
                                   /\ n.to \in Replicas /\ n.by \in listening[n.to]
           /\ \A r \in Replicas : \A c \in listening[r] : \E n \in Sends(h) : n.to = r /\ n.by = c
<1>1. h.from \in Replicas /\ h.write \in Writes
  BY DEF EventInv, ServerOK, Event
<1>2. \A r \in Replicas : listening[r] \subseteq PgClients
  BY DEF EventInv, ServerOK
<1>3. ASSUME NEW n \in Sends(h)
      PROVE  \E r \in Replicas : \E c \in listening[r] :
                 n = [write |-> h.write, from |-> h.from, to |-> r, by |-> c]
  BY DEF Sends
<1>4. ASSUME NEW r \in Replicas, NEW c \in listening[r]
      PROVE  [write |-> h.write, from |-> h.from, to |-> r, by |-> c] \in Sends(h)
  BY DEF Sends
<1>5. ASSUME NEW n \in Sends(h)
      PROVE  /\ n \in [write : Writes, from : Replicas, to : Replicas, by : PgClients]
             /\ n.write = h.write /\ n.from = h.from
             /\ n.to \in Replicas /\ n.by \in listening[n.to]
  BY <1>1, <1>2, <1>3
<1>6. ASSUME NEW r \in Replicas, NEW c \in listening[r]
      PROVE  \E n \in Sends(h) : n.to = r /\ n.by = c
  <2> DEFINE n == [write |-> h.write, from |-> h.from, to |-> r, by |-> c]
  <2>1. n \in Sends(h) /\ n.to = r /\ n.by = c
    BY <1>4
  <2> QED BY <2>1
<1> QED BY <1>5, <1>6

LEMMA NotifyKeeps ==
    ASSUME EventInv, NEW h \in outgoing, Notify(h)
    PROVE  EventInv'
<1>1. /\ h.from \in Replicas /\ h.write \in Writes /\ h.write <= catalog
      /\ outgoing' = outgoing \ {h} /\ notes' = notes \cup Sends(h)
      /\ UNCHANGED <<catalog, handlers, heard, listening>>
  BY DEF EventInv, ServerOK, NotYet, Event, Notify, listeners, Sends
<1>2. /\ Sends(h) \subseteq [write : Writes, from : Replicas, to : Replicas, by : PgClients]
      /\ \A n \in Sends(h) : /\ n.write = h.write /\ n.from = h.from
                              /\ n.to \in Replicas /\ n.by \in listening[n.to]
      /\ \A r \in Replicas : \A c \in listening[r] : \E n \in Sends(h) : n.to = r /\ n.by = c
  BY SendsToAll
<1>3. \A n \in notes : n.write # h.write
  BY DEF EventInv, OneStage
<1>4. \A k \in handlers \cup outgoing' : k.write # h.write
  BY <1>1 DEF EventInv, OneStage
<1>5. /\ due' \in [Replicas -> [Writes -> Nat]]
      /\ \A q \in Replicas, w \in Writes :
             due'[q][w] = IF q # h.from /\ w = h.write THEN Cardinality(listening[q]) ELSE due[q][w]
  <2>1. \A q \in Replicas : listening[q] \in SUBSET PgClients
    BY DEF EventInv, ServerOK
  <2>2. \A q \in Replicas : Cardinality(listening[q]) \in Nat
    BY <2>1, ClientSets
  <2>3. due \in [Replicas -> [Writes -> Nat]]
    BY DEF EventInv, ServerOK
  <2>4. due' = [r \in Replicas |-> IF r = h.from THEN due[r]
                  ELSE [due[r] EXCEPT ![h.write] = Cardinality(listening[r])]]
    BY DEF Notify
  <2> QED BY <1>1, <2>2, <2>3, <2>4
<1>6. ServerOK'
  BY <1>1, <1>2, <1>5 DEF EventInv, ServerOK
<1>7. NotYet'
  BY <1>1, <1>2 DEF EventInv, NotYet
<1>8. HomeOnly'
  <2>1. \A k \in handlers \cup outgoing' : k.from \in Replicas /\ k.write \in Writes
    BY <1>1 DEF EventInv, ServerOK, Event
  <2> QED BY <1>1, <1>4, <1>5, <2>1 DEF EventInv, HomeOnly
<1>9. OneStage'
  BY <1>1, <1>2, <1>3, <1>4 DEF EventInv, OneStage
<1>10. WithinDue'
  <2> SUFFICES ASSUME NEW q \in Replicas, NEW w \in Writes
               PROVE  heard[q][w] + Cardinality(Pending(q, w)') <= due'[q][w]
    BY <1>1 DEF WithinDue
  <2>1. CASE q # h.from /\ w = h.write
    <3>1. Pending(q, w)' = listening[q]
      <4>1. listening[q] \subseteq PgClients
        BY DEF EventInv, ServerOK
      <4>2. ASSUME NEW c \in listening[q]
            PROVE  \E n \in notes' : n.to = q /\ n.write = w /\ n.by = c /\ n.from # q
        BY <1>1, <1>2, <2>1
      <4>3. ASSUME NEW c \in PgClients,
                   \E n \in notes' : n.to = q /\ n.write = w /\ n.by = c /\ n.from # q
            PROVE  c \in listening[q]
        BY <1>1, <1>2, <1>3, <2>1, <4>3
      <4> QED BY <4>1, <4>2, <4>3 DEF Pending
    <3>2. heard[q][w] = 0
      BY <2>1 DEF EventInv, HomeOnly
    <3>3. Cardinality(listening[q]) \in Nat
      <4>1. listening[q] \in SUBSET PgClients
        BY DEF EventInv, ServerOK
      <4> QED BY <4>1, ClientSets
    <3> QED BY <1>5, <2>1, <3>1, <3>2, <3>3
  <2>2. CASE ~(q # h.from /\ w = h.write)
    <3>1. Pending(q, w)' = Pending(q, w)
      BY <1>1, <1>2, <2>2 DEF Pending
    <3> QED BY <1>5, <2>2, <3>1 DEF EventInv, WithinDue
  <2> QED BY <2>1, <2>2
<1> QED
  BY <1>6, <1>7, <1>8, <1>9, <1>10 DEF EventInv

\* A notification that is not an echo was counted.
LEMMA NoteIsPending ==
    ASSUME EventInv, NEW n \in notes, n.from # n.to
    PROVE  /\ heard[n.to][n.write] + 1 <= due[n.to][n.write]
           /\ notes' = notes \ {n} =>
                 heard[n.to][n.write] + 1 + Cardinality(Pending(n.to, n.write)')
                     <= due[n.to][n.write]
<1>1. n.to \in Replicas /\ n.write \in Writes /\ n.by \in PgClients
  BY DEF EventInv, ServerOK
<1> DEFINE P == Pending(n.to, n.write)
<1>2. n.by \in P /\ P \in SUBSET PgClients
  BY <1>1 DEF Pending
<1>3. heard[n.to][n.write] \in Nat /\ due[n.to][n.write] \in Nat
  BY <1>1 DEF EventInv, ServerOK
<1>4. heard[n.to][n.write] + Cardinality(P) <= due[n.to][n.write]
  BY <1>1 DEF EventInv, WithinDue
<1>5. notes' = notes \ {n} => P' = P \ {n.by}
  <2> SUFFICES ASSUME notes' = notes \ {n} PROVE P' = P \ {n.by}
    OBVIOUS
  <2>1. ASSUME NEW m \in notes, m.to = n.to, m.write = n.write, m.by = n.by PROVE m = n
    <3>1. m.from = n.from
      BY <2>1 DEF EventInv, OneStage
    <3>2. /\ m \in [write : Writes, from : Replicas, to : Replicas, by : PgClients]
          /\ n \in [write : Writes, from : Replicas, to : Replicas, by : PgClients]
      BY DEF EventInv, ServerOK
    <3> QED BY <2>1, <3>1, <3>2
  <2>2. ASSUME NEW c \in P' PROVE c \in P /\ c # n.by
    BY <2>1, <2>2 DEF Pending
  <2>3. ASSUME NEW c \in P, c # n.by PROVE c \in P'
    BY <2>3 DEF Pending
  <2> QED BY <2>2, <2>3
<1>6. Cardinality(P) \in Nat /\ Cardinality(P \ {n.by}) = Cardinality(P) - 1 /\ Cardinality(P) >= 1
  BY <1>2, ClientSets
<1> QED BY <1>3, <1>4, <1>5, <1>6

LEMMA ReceiveKeeps ==
    ASSUME EventInv, NEW n \in notes, Receive(n)
    PROVE  EventInv'
<1>1. n.to \in Replicas /\ n.from \in Replicas /\ n.write \in Writes /\ n.write <= catalog
  BY DEF EventInv, ServerOK, NotYet
<1>2. notes' = notes \ {n} /\ UNCHANGED <<catalog, handlers, outgoing, due, listening>>
  BY DEF Receive, listeners
<1>3. CASE n.from = n.to
  <2>1. heard' = heard /\ listening \in [Replicas -> SUBSET PgClients]
    BY <1>3 DEF Receive, EventInv, ServerOK
  <2> QED
    BY <2>1, <1>2, DropKeeps
<1>4. CASE n.from # n.to
  <2>1. Emit(n.to, n.write)
    BY <1>4 DEF Receive
  <2>2. /\ heard' \in [Replicas -> [Writes -> Nat]]
        /\ heard'[n.to][n.write] = heard[n.to][n.write] + 1
        /\ \A q \in Replicas, v \in Writes :
              <<q, v>> # <<n.to, n.write>> => heard'[q][v] = heard[q][v]
    BY <1>1, <2>1, EmitCounts
  <2>3. \A h \in handlers \cup outgoing : h.write \in Writes /\ h.write # n.write
    BY DEF EventInv, ServerOK, OneStage, Event
  <2>5. ServerOK'
    BY <1>2, <2>2 DEF EventInv, ServerOK
  <2>6. NotYet'
    <3>1. \A r \in Replicas, w \in Writes : w > catalog => heard'[r][w] = 0
      <4> SUFFICES ASSUME NEW r \in Replicas, NEW w \in Writes, w > catalog PROVE heard'[r][w] = 0
        OBVIOUS
      <4>1. catalog \in Int /\ w \in Int /\ n.write \in Int
        BY <1>1 DEF EventInv, ServerOK, Writes
      <4>2. <<r, w>> # <<n.to, n.write>> /\ heard[r][w] = 0
        BY <1>1, <4>1 DEF EventInv, NotYet
      <4> QED
        BY <4>2, <2>2
    <3>2. \A h \in handlers, r \in Replicas : heard'[r][h.write] = 0
      BY <2>2, <2>3 DEF EventInv, NotYet
    <3> QED
      BY <3>1, <3>2, <1>2 DEF EventInv, NotYet
  <2>7. HomeOnly'
    BY <1>2, <2>2, <2>3 DEF EventInv, HomeOnly
  <2>8. OneStage'
    BY <1>2 DEF EventInv, OneStage
  <2>9. WithinDue'
    <3> SUFFICES ASSUME NEW q \in Replicas, NEW w \in Writes
                 PROVE  heard'[q][w] + Cardinality(Pending(q, w)') <= due[q][w]
      BY <1>2 DEF WithinDue
    <3>1. CASE q = n.to /\ w = n.write
      BY <1>2, <1>4, <2>2, <3>1, NoteIsPending
    <3>2. CASE ~(q = n.to /\ w = n.write)
      <4>1. Pending(q, w)' = Pending(q, w)
        BY <1>2, <3>2 DEF Pending
      <4> QED BY <2>2, <3>2, <4>1 DEF EventInv, WithinDue
    <3> QED BY <3>1, <3>2
  <2> QED
    BY <2>5, <2>6, <2>7, <2>8, <2>9 DEF EventInv
<1> QED
  BY <1>3, <1>4

\* The steps of a listener drop notifications, if anything.
LEMMA ListenersKeep ==
    ASSUME EventInv, NEW r \in Replicas
    PROVE  /\ ListenerBack(r) => EventInv'
           /\ ListenerRefused(r) => EventInv'
           /\ Crash(r) => EventInv'
           /\ \A c \in PgClients : ListenerLost(r, c) \/ ListenerEnded(r, c) => EventInv'
<1>1. listening \in [Replicas -> SUBSET PgClients]
  BY DEF EventInv, ServerOK
<1>2. ASSUME ListenerBack(r) PROVE EventInv'
  <2> DEFINE S == listening[r] \cup closing[r]
  <2>1. NewClient(S) \in PgClients
    <3>1. \E c \in PgClients : c \notin S
      BY <1>2 DEF ListenerBack
    <3> QED BY <3>1 DEF NewClient
  <2>2. listening' \in [Replicas -> SUBSET PgClients]
    BY <1>1, <1>2, <2>1 DEF ListenerBack
  <2> QED BY <1>2, <2>2, DropKeeps DEF ListenerBack
<1>3. ASSUME ListenerRefused(r) PROVE EventInv'
  BY <1>1, <1>3, DropKeeps DEF ListenerRefused
<1>4. ASSUME Crash(r) PROVE EventInv'
  <2>1. listening' \in [Replicas -> SUBSET PgClients]
    BY <1>1, <1>4 DEF Crash
  <2> QED BY <1>4, <2>1, DropKeeps DEF Crash
<1>5. ASSUME NEW c \in PgClients, ListenerLost(r, c) \/ ListenerEnded(r, c) PROVE EventInv'
  <2>1. listening' \in [Replicas -> SUBSET PgClients]
    BY <1>1, <1>5 DEF ListenerLost, ListenerEnded, Unheard
  <2> QED BY <1>5, <2>1, DropKeeps DEF ListenerLost, ListenerEnded, Unheard
<1> QED BY <1>2, <1>3, <1>4, <1>5

LEMMA ServerKeeps ==
    ASSUME EventInv, Server
    PROVE  EventInv'
<1>1. CASE \E h \in handlers : Publish(h)
  BY <1>1, PublishKeeps
<1>2. CASE \E h \in outgoing : Notify(h)
  BY <1>2, NotifyKeeps
<1>3. CASE \E h \in outgoing : NotifyFails(h)
  <2>1. listening \in [Replicas -> SUBSET PgClients]
    BY DEF EventInv, ServerOK
  <2> QED BY <1>3, <2>1, DropKeeps DEF NotifyFails, listeners
<1>4. CASE \E n \in notes : Receive(n)
  BY <1>4, ReceiveKeeps
<1>5. CASE \E r \in Replicas : Write(r)
  BY <1>5, WriteKeeps
<1>6. CASE \E r \in Replicas : ListenerBack(r) \/ ListenerRefused(r) \/ Crash(r)
  BY <1>6, ListenersKeep
<1>7. CASE \E r \in Replicas, c \in PgClients : ListenerLost(r, c) \/ ListenerEnded(r, c)
  BY <1>7, ListenersKeep
<1> QED
  BY <1>1, <1>2, <1>3, <1>4, <1>5, <1>6, <1>7 DEF Server

\* Streams and fetches leave the server as it is.
LEMMA ClientKeeps ==
    ASSUME EventInv, Stream \/ Authorizer \/ UNCHANGED vars
    PROVE  EventInv'
<1>1. UNCHANGED server
  BY DEF Stream, Authorizer, OpenStream, Subscribe, StreamDrops, StreamRefused, StreamOpens,
     Frame, Poll, Answer, Arrive, Fail, vars
<1>2. listening \in [Replicas -> SUBSET PgClients]
  BY DEF EventInv, ServerOK
<1> QED
  BY <1>1, <1>2, DropKeeps DEF server, listeners

\* EmittedOnce for every number of replicas, clients, writes and faults.
THEOREM NoDoubleEmit == Spec => []EmittedOnce
<1>1. Init => EventInv
  BY EventInit
<1>2. EventInv /\ [Next]_vars => EventInv'
  BY ServerKeeps, ClientKeeps DEF Next
<1>3. EventInv => EmittedOnce
  <2> SUFFICES ASSUME EventInv, NEW r \in Replicas, NEW w \in Writes
               PROVE  heard[r][w] <= due[r][w]
    BY DEF EmittedOnce
  <2>1. Pending(r, w) \in SUBSET PgClients
    BY DEF Pending
  <2>2. Cardinality(Pending(r, w)) \in Nat
    BY <2>1, ClientSets
  <2>3. heard[r][w] \in Nat /\ due[r][w] \in Nat
    BY DEF EventInv, ServerOK
  <2>4. heard[r][w] + Cardinality(Pending(r, w)) <= due[r][w]
    BY DEF EventInv, WithinDue
  <2> QED BY <2>2, <2>3, <2>4
<1> QED
  BY <1>1, <1>2, <1>3, PTL DEF Spec

----------------------------------------------------------------------------
(* Nothing is missed without a loss.                                       *)

\* While nothing was lost every replica has the one client it started with, a write
\* was emitted at home once it left its handler, and a replica that has not emitted
\* a committed write has it coming.
Coming ==
    /\ \A r \in Replicas : /\ \E c \in PgClients : listening[r] = {c}
                          /\ closing[r] = {} /\ reconnects[r] = 0
    /\ \A r \in Replicas, w \in Writes : due[r][w] <= 1
    /\ \A h \in outgoing : heard[h.from][h.write] = 1
    /\ \A n \in notes : heard[n.from][n.write] = 1
    /\ \A r \in Replicas, w \in 1 .. catalog :
          \/ heard[r][w] = 1
          \/ \E h \in handlers \cup outgoing : h.write = w
          \/ \E n \in notes : n.write = w /\ n.to = r /\ n.from # r

LossInv == losses \in Nat /\ (losses = 0 => Coming)

\* A step without a loss keeps what it does not touch.
LEMMA ComingKept ==
    ASSUME Coming, UNCHANGED server
    PROVE  Coming'
  BY DEF Coming, server, listeners

LEMMA ComingWrite ==
    ASSUME EventInv, Coming, NEW r \in Replicas, Write(r)
    PROVE  Coming'
<1>1. /\ catalog \in Nat /\ catalog' = catalog + 1
      /\ handlers' = handlers \cup {[write |-> catalog + 1, from |-> r]}
      /\ UNCHANGED <<outgoing, notes, listening, closing, reconnects, heard>>
  BY SyncAssumption DEF SyncAssumption, EventInv, ServerOK, Write, listeners
<1>2. \E h \in handlers' : h.write = catalog'
  <2>1. [write |-> catalog + 1, from |-> r] \in handlers'
    BY <1>1
  <2>2. [write |-> catalog + 1, from |-> r].write = catalog'
    BY <1>1
  <2> QED
    BY <2>1, <2>2
<1>3. \A w \in 1 .. catalog' : w = catalog' \/ w \in 1 .. catalog
  BY <1>1
<1>4. \A q \in Replicas, w \in Writes : due'[q][w] <= 1
  <2>1. due \in [Replicas -> [Writes -> Nat]] /\ due' = [due EXCEPT ![r][catalog + 1] = 1]
    BY DEF EventInv, ServerOK, Write
  <2>2. \A q \in Replicas, w \in Writes : due'[q][w] = 1 \/ due'[q][w] = due[q][w]
    BY <2>1
  <2> QED BY <2>2 DEF Coming
<1> QED
  BY <1>1, <1>2, <1>3, <1>4 DEF Coming

LEMMA ComingPublish ==
    ASSUME EventInv, Coming, NEW h \in handlers, Publish(h)
    PROVE  Coming'
<1>1. /\ h.from \in Replicas /\ h.write \in Writes
      /\ handlers' = handlers \ {h} /\ outgoing' = outgoing \cup {h}
      /\ UNCHANGED <<catalog, notes, listening, closing, reconnects, due>>
      /\ Emit(h.from, h.write) /\ heard[h.from][h.write] = 0
  BY DEF EventInv, ServerOK, NotYet, Event, Publish, listeners
<1>2. /\ heard'[h.from][h.write] = 1
      /\ \A q \in Replicas, v \in Writes :
            <<q, v>> # <<h.from, h.write>> => heard'[q][v] = heard[q][v]
  BY <1>1, EmitCounts
<1>3. \A q \in Replicas, v \in Writes : heard[q][v] = 1 => heard'[q][v] = 1
  BY <1>1, <1>2
<1>4. \A k \in outgoing : k.from \in Replicas /\ k.write \in Writes
  BY DEF EventInv, ServerOK, Event
<1>5. \A n \in notes : n.from \in Replicas /\ n.write \in Writes
  BY DEF EventInv, ServerOK
<1>6. 1 .. catalog \subseteq Writes
  BY SyncAssumption DEF SyncAssumption, EventInv, ServerOK, Writes
<1>7. handlers \cup outgoing \subseteq handlers' \cup outgoing'
  BY <1>1
<1> QED
  BY <1>1, <1>2, <1>3, <1>4, <1>5, <1>6, <1>7 DEF Coming

LEMMA ComingNotify ==
    ASSUME EventInv, Coming, NEW h \in outgoing, Notify(h)
    PROVE  Coming'
<1>1. /\ h.from \in Replicas /\ h.write \in Writes
      /\ outgoing' = outgoing \ {h}
      /\ notes' = notes \cup Sends(h)
      /\ UNCHANGED <<catalog, handlers, listening, closing, reconnects, heard>>
  BY DEF EventInv, ServerOK, Event, Notify, Sends, listeners
<1>2. \A n \in Sends(h) : n.write = h.write /\ n.from = h.from
  BY SendsToAll
<1>3. \A r \in Replicas : \E n \in notes' : n.write = h.write /\ n.to = r /\ n.from = h.from
  BY <1>1, <1>2, SendsToAll DEF Coming
<1>4. \A r \in Replicas : \/ heard'[r][h.write] = 1
                         \/ \E n \in notes' : n.write = h.write /\ n.to = r /\ n.from # r
  BY <1>1, <1>3 DEF Coming
<1>5. \A n \in notes' : heard'[n.from][n.write] = 1
  BY <1>1, <1>2 DEF Coming
<1>6. \A r \in Replicas, w \in Writes : due'[r][w] <= 1
  <2>1. ASSUME NEW r \in Replicas PROVE Cardinality(listening[r]) = 1
    <3>1. PICK c \in PgClients : listening[r] = {c}
      BY DEF Coming
    <3>2. Cardinality({c}) = 1
      BY FS_Singleton
    <3> QED BY <3>1, <3>2
  <2>2. due \in [Replicas -> [Writes -> Nat]]
    BY DEF EventInv, ServerOK
  <2>3. due' = [r \in Replicas |-> IF r = h.from THEN due[r]
                  ELSE [due[r] EXCEPT ![h.write] = Cardinality(listening[r])]]
    BY DEF Notify
  <2>4. \A r \in Replicas, w \in Writes : due'[r][w] = due[r][w] \/ due'[r][w] = 1
    BY <1>1, <2>1, <2>2, <2>3
  <2> QED BY <2>4 DEF Coming
<1> QED
  BY <1>1, <1>4, <1>5, <1>6 DEF Coming

LEMMA ComingReceive ==
    ASSUME EventInv, Coming, NEW n \in notes, Receive(n)
    PROVE  Coming'
<1>1. /\ n.to \in Replicas /\ n.from \in Replicas /\ n.write \in Writes
      /\ notes' = notes \ {n}
      /\ UNCHANGED <<catalog, handlers, outgoing, listening, closing, reconnects, due>>
  BY DEF EventInv, ServerOK, Receive, listeners
<1>0. ASSUME n.from # n.to
      PROVE  /\ heard'[n.to][n.write] = 1
             /\ heard[n.to][n.write] = 0
             /\ \A q \in Replicas, v \in Writes :
                   <<q, v>> # <<n.to, n.write>> => heard'[q][v] = heard[q][v]
  <2>1. Emit(n.to, n.write)
    BY <1>0 DEF Receive
  <2>2. heard[n.to][n.write] + 1 <= due[n.to][n.write] /\ due[n.to][n.write] <= 1
    BY <1>0, <1>1, NoteIsPending DEF Coming
  <2>3. heard[n.to][n.write] \in Nat /\ due[n.to][n.write] \in Nat
    BY <1>1 DEF EventInv, ServerOK
  <2>4. heard[n.to][n.write] = 0
    BY <2>2, <2>3
  <2> QED BY <1>1, <2>1, <2>4, EmitCounts
<1>2. heard'[n.to][n.write] = 1
  <2>1. CASE n.from = n.to
    BY <2>1 DEF Coming, Receive
  <2> QED
    BY <2>1, <1>0
<1>3. \A q \in Replicas, v \in Writes : heard[q][v] = 1 => heard'[q][v] = 1
  <2>1. CASE n.from = n.to
    BY <2>1 DEF Receive
  <2>2. CASE n.from # n.to
    BY <1>0, <2>2
  <2> QED
    BY <2>1, <2>2
<1>4. \A k \in outgoing : k.from \in Replicas /\ k.write \in Writes
  BY DEF EventInv, ServerOK, Event
<1>5. \A m \in notes : m.from \in Replicas /\ m.write \in Writes
  BY DEF EventInv, ServerOK
<1>6. 1 .. catalog \subseteq Writes
  BY SyncAssumption DEF SyncAssumption, EventInv, ServerOK, Writes
<1>7. ASSUME NEW r \in Replicas, NEW w \in 1 .. catalog
      PROVE  \/ heard'[r][w] = 1
             \/ \E h \in handlers' \cup outgoing' : h.write = w
             \/ \E m \in notes' : m.write = w /\ m.to = r /\ m.from # r
  <2>1. CASE r = n.to /\ w = n.write
    BY <2>1, <1>2
  <2>2. CASE ~(r = n.to /\ w = n.write)
    BY <2>2, <1>1, <1>3, <1>6 DEF Coming
  <2> QED
    BY <2>1, <2>2
<1> QED
  BY <1>1, <1>3, <1>4, <1>5, <1>7 DEF Coming

LEMMA LossStep == EventInv /\ LossInv /\ [Next]_vars => LossInv'
<1> SUFFICES ASSUME EventInv, LossInv, [Next]_vars PROVE LossInv'
  OBVIOUS
<1>1. CASE Lose
  BY <1>1 DEF Lose, LossInv
<1>2. CASE losses' = losses /\ UNCHANGED server
  BY <1>2, ComingKept DEF LossInv
<1>3. ASSUME NEW r \in Replicas, Write(r) PROVE LossInv'
  BY <1>3, ComingWrite DEF LossInv, Write
<1>4. ASSUME NEW h \in handlers, Publish(h) PROVE LossInv'
  BY <1>4, ComingPublish DEF LossInv, Publish
<1>5. ASSUME NEW h \in outgoing, Notify(h) PROVE LossInv'
  BY <1>5, ComingNotify DEF LossInv, Notify
<1>6. ASSUME NEW n \in notes, Receive(n) PROVE LossInv'
  BY <1>6, ComingReceive DEF LossInv, Receive
<1>7. ASSUME NEW r \in Replicas, ListenerBack(r) \/ ListenerRefused(r) PROVE LossInv'
  <2>1. losses' = losses /\ reconnects[r] > 0
    BY <1>7 DEF ListenerBack, ListenerRefused
  <2> QED
    BY <2>1 DEF LossInv, Coming
<1>13. ASSUME NEW r \in Replicas, NEW c \in PgClients, ListenerEnded(r, c) PROVE LossInv'
  <2>1. losses' = losses /\ closing[r] # {}
    BY <1>13 DEF ListenerEnded
  <2> QED
    BY <2>1 DEF LossInv, Coming
<1>8. Server \/ Stream \/ Authorizer \/ UNCHANGED vars
  BY DEF Next
<1>9. CASE Server
  BY <1>9, <1>1, <1>3, <1>4, <1>5, <1>6, <1>7, <1>13 DEF Server, NotifyFails, ListenerLost, Crash
<1>10. CASE Stream
  BY <1>10, <1>1, <1>2 DEF Stream, OpenStream, Subscribe, StreamDrops, StreamRefused, StreamOpens
<1>11. CASE Authorizer
  BY <1>11, <1>1, <1>2 DEF Authorizer, Frame, Poll, Answer, Arrive, Fail
<1>12. CASE UNCHANGED vars
  BY <1>12, <1>2 DEF vars
<1> QED
  BY <1>8, <1>9, <1>10, <1>11, <1>12

\* QuietMeansHeard for every number of replicas and writes: as long as nothing
\* was lost, no replica misses a write.
THEOREM NothingMissed == Spec => []QuietMeansHeard
<1>1. Init => EventInv /\ LossInv
  <2> SUFFICES ASSUME Init PROVE LossInv
    BY EventInit
  <2>1. NewClient({}) \in PgClients
    <3>1. \E c \in PgClients : c \notin {}
      BY SyncAssumption DEF SyncAssumption
    <3> QED BY <3>1 DEF NewClient
  <2> QED BY <2>1 DEF Init, LossInv, Coming
<1>2. EventInv /\ LossInv /\ [Next]_vars => (EventInv /\ LossInv)'
  BY ServerKeeps, ClientKeeps, LossStep DEF Next
<1>3. EventInv /\ LossInv => QuietMeansHeard
  <2> SUFFICES ASSUME EventInv, LossInv, losses = 0, handlers = {}, outgoing = {}, notes = {},
                      NEW r \in Replicas, NEW w \in 1 .. catalog
               PROVE  heard[r][w] = 1
    BY DEF QuietMeansHeard
  <2> QED
    BY DEF LossInv, Coming
<1> QED
  BY <1>1, <1>2, <1>3, PTL DEF Spec

----------------------------------------------------------------------------
(* Types.                                                                  *)

\* What is on the side of the app has its type.
AppOK ==
    /\ stream \in {"none", "connecting", "open", "closed"}
    /\ servedBy \subseteq Replicas
    /\ subscribed \in BOOLEAN
    /\ frames \subseteq Writes
    /\ sse \in {"connecting", "live", "fallback"}
    /\ fetches \in [Slots -> Fetch]
    /\ known \in 0 .. MaxWrites
    /\ everSucceeded \in BOOLEAN
    /\ fetchFailedAtBoot \in BOOLEAN
    /\ thisClient \in [Replicas -> SUBSET PgClients]
    /\ closing \in [Replicas -> SUBSET PgClients]
    /\ reconnects \in [Replicas -> Nat]
    /\ losses \in 0 .. MaxLosses

LEMMA AppStep == EventInv /\ AppOK /\ [Next]_vars => AppOK'
<1> SUFFICES ASSUME EventInv, AppOK, [Next]_vars PROVE AppOK'
  OBVIOUS
<1>1. Lose => losses' \in 0 .. MaxLosses
  BY SyncAssumption DEF SyncAssumption, AppOK, Lose
<1>2. Free \in Fetch /\ Sent \in Fetch /\ [step |-> "answered", list |-> catalog] \in Fetch
  BY SyncAssumption DEF SyncAssumption, Free, Sent, Fetch, EventInv, ServerOK
<1>3. \A s \in Slots : fetches[s].list \in 0 .. MaxWrites
  BY DEF AppOK, Fetch
<1>4. ASSUME NEW r \in Replicas, NEW w \in Writes, Emit(r, w) PROVE frames' \subseteq Writes
  BY <1>4 DEF Emit, AppOK
<1>5. ASSUME NEW h \in handlers, Publish(h) PROVE AppOK'
  <2>1. h.from \in Replicas /\ h.write \in Writes
    BY DEF EventInv, ServerOK, Event
  <2> QED
    BY <2>1, <1>4, <1>5 DEF Publish, AppOK, client, listeners
<1>6. ASSUME NEW n \in notes, Receive(n) PROVE AppOK'
  <2>1. n.to \in Replicas /\ n.write \in Writes
    BY DEF EventInv, ServerOK
  <2> QED
    BY <2>1, <1>4, <1>6 DEF Receive, AppOK, client, listeners
<1>7. ASSUME NEW h \in outgoing, Notify(h) \/ NotifyFails(h) PROVE AppOK'
  BY <1>1, <1>7 DEF Notify, NotifyFails, AppOK, wire, client, listeners
<1>8. ASSUME NEW r \in Replicas, Write(r) PROVE AppOK'
  BY <1>8 DEF Write, AppOK, wire, client, listeners
<1>9. ASSUME NEW r \in Replicas, Crash(r) PROVE AppOK'
  BY <1>1, <1>9 DEF Crash, Disconnected, AppOK, wire, client
<1>16. ASSUME NEW r \in Replicas, NEW S \in SUBSET PgClients, Reschedule(r, S)
       PROVE  /\ thisClient' \in [Replicas -> SUBSET PgClients]
              /\ closing' \in [Replicas -> SUBSET PgClients]
              /\ reconnects' \in [Replicas -> Nat]
  BY <1>16 DEF Reschedule, AppOK
<1>17. ASSUME NEW r \in Replicas, NEW c \in PgClients, ListenerLost(r, c) PROVE AppOK'
  <2>1. closing[r] \cup {c} \in SUBSET PgClients
    BY DEF AppOK
  <2>2. Reschedule(r, closing[r] \cup {c})
    BY <1>17 DEF ListenerLost
  <2>3. /\ thisClient' \in [Replicas -> SUBSET PgClients]
        /\ closing' \in [Replicas -> SUBSET PgClients]
        /\ reconnects' \in [Replicas -> Nat]
    BY <1>16, <2>1, <2>2
  <2> QED BY <1>1, <1>17, <2>3 DEF ListenerLost, AppOK, wire, client
<1>18. ASSUME NEW r \in Replicas, NEW c \in PgClients, ListenerEnded(r, c) PROVE AppOK'
  <2>1. closing[r] \ {c} \in SUBSET PgClients
    BY DEF AppOK
  <2>2. Reschedule(r, closing[r] \ {c})
    BY <1>18 DEF ListenerEnded
  <2>3. /\ thisClient' \in [Replicas -> SUBSET PgClients]
        /\ closing' \in [Replicas -> SUBSET PgClients]
        /\ reconnects' \in [Replicas -> Nat]
    BY <1>16, <2>1, <2>2
  <2> QED BY <1>18, <2>3 DEF ListenerEnded, AppOK, wire, client
<1>19. ASSUME NEW r \in Replicas, ListenerBack(r) PROVE AppOK'
  <2> DEFINE S == listening[r] \cup closing[r]
  <2>1. NewClient(S) \in PgClients
    <3>1. \E c \in PgClients : c \notin S
      BY <1>19 DEF ListenerBack
    <3> QED BY <3>1 DEF NewClient
  <2>2. thisClient' \in [Replicas -> SUBSET PgClients]
    BY <1>19, <2>1 DEF ListenerBack, AppOK
  <2>3. reconnects' \in [Replicas -> Nat]
    BY <1>19 DEF ListenerBack, AppOK
  <2> QED BY <1>19, <2>2, <2>3 DEF ListenerBack, AppOK, wire, client
<1>20. ASSUME NEW r \in Replicas, ListenerRefused(r) PROVE AppOK'
  BY <1>20 DEF ListenerRefused, AppOK, wire, client
<1>10. CASE Stream
  BY <1>1, <1>10 DEF Stream, OpenStream, StreamOpens, Subscribe, StreamDrops, StreamRefused,
     Disconnected, AppOK, server, listeners, client
<1>11. ASSUME NEW s \in Slots, NEW w \in frames, Frame(w, s) PROVE AppOK'
  BY <1>2, <1>11 DEF Frame, Start, AppOK, server, listeners
<1>12. ASSUME NEW s \in Slots, Poll(s) \/ Answer(s) PROVE AppOK'
  BY <1>2, <1>12 DEF Poll, Answer, Start, AppOK, server, listeners, wire
<1>13. ASSUME NEW s \in Slots, Arrive(s) PROVE AppOK'
  BY <1>2, <1>3, <1>13 DEF Arrive, AppOK, server, listeners, wire
<1>14. ASSUME NEW s \in Slots, Fail(s) PROVE AppOK'
  <2>1. fetchFailedAtBoot' \in BOOLEAN
    BY <1>14, Zenon DEF Fail, AppOK
  <2> QED
    BY <1>1, <1>2, <1>14, <2>1 DEF Fail, AppOK, server, listeners, wire
<1>15. CASE UNCHANGED vars
  BY <1>15 DEF vars, server, listeners, wire, client, AppOK
<1> QED
  BY <1>5, <1>6, <1>7, <1>8, <1>9, <1>10, <1>11, <1>12, <1>13, <1>14, <1>15,
     <1>17, <1>18, <1>19, <1>20
     DEF Next, Server, Authorizer

\* Every variable keeps its type, for every number of replicas and faults.
THEOREM SyncTypes == Spec => []TypeOK
<1>1. Init => EventInv /\ AppOK
  <2> SUFFICES ASSUME Init PROVE AppOK
    BY EventInit
  <2>1. Sent \in Fetch /\ Free \in Fetch
    BY SyncAssumption DEF SyncAssumption, Fetch, Sent, Free
  <2>2. fetches \in [Slots -> Fetch]
    BY <2>1 DEF Init
  <2>3. known \in 0 .. MaxWrites /\ losses \in 0 .. MaxLosses
    BY SyncAssumption DEF SyncAssumption, Init
  <2>4. NewClient({}) \in PgClients
    <3>1. \E c \in PgClients : c \notin {}
      BY SyncAssumption DEF SyncAssumption
    <3> QED BY <3>1 DEF NewClient
  <2> QED
    BY <2>2, <2>3, <2>4 DEF Init, AppOK
<1>2. EventInv /\ AppOK /\ [Next]_vars => (EventInv /\ AppOK)'
  BY ServerKeeps, ClientKeeps, AppStep DEF Next
<1>3. EventInv /\ AppOK => TypeOK
  BY DEF EventInv, ServerOK, AppOK, TypeOK
<1> QED
  BY <1>1, <1>2, <1>3, PTL DEF Spec

----------------------------------------------------------------------------

\* NeverClosesAgain, for every interleaving of any number of fetches.
THEOREM StaysOpen == Spec => []NeverClosesAgain
<1>1. Init => NeverClosesAgain
  BY DEF Init, NeverClosesAgain
<1>2. NeverClosesAgain /\ [Next]_vars => NeverClosesAgain'
  <2> SUFFICES ASSUME NeverClosesAgain, [Next]_vars PROVE NeverClosesAgain'
    OBVIOUS
  <2>1. CASE \E s \in Slots : Arrive(s)
    BY <2>1 DEF Arrive, NeverClosesAgain
  <2>2. CASE \E s \in Slots : Fail(s)
    <3>1. /\ fetchFailedAtBoot' = (fetchFailedAtBoot \/ (IsEmpty(known) /\ ~everSucceeded))
          /\ everSucceeded' = everSucceeded
      BY <2>2 DEF Fail
    <3> QED
      BY <3>1, Zenon DEF NeverClosesAgain
  <2>3. CASE UNCHANGED <<everSucceeded, fetchFailedAtBoot>>
    BY <2>3 DEF NeverClosesAgain
  <2>4. Server \/ Stream \/ UNCHANGED vars => UNCHANGED <<everSucceeded, fetchFailedAtBoot>>
    BY DEF Server, Stream, Publish, Notify, NotifyFails, Receive, Write, ListenerLost, ListenerEnded,
       ListenerBack, ListenerRefused, Crash, OpenStream, Subscribe, StreamDrops, StreamRefused, StreamOpens, vars, client
  <2>5. \A s \in Slots : (\E w \in frames : Frame(w, s)) \/ Poll(s) \/ Answer(s)
          => UNCHANGED <<everSucceeded, fetchFailedAtBoot>>
    BY DEF Frame, Poll, Answer
  <2> QED
    BY <2>1, <2>2, <2>3, <2>4, <2>5 DEF Next, Authorizer
<1> QED
  BY <1>1, <1>2, PTL DEF Spec

----------------------------------------------------------------------------
(* The listener behind a replica's `listening`: NotifyListener's clients.   *)
(* One connection at a time, for   *)
(* every number of clients, losses and late ends.  OneListener alone is    *)
(* not inductive: nothing in it says that a client which is still closing  *)
(* has no successor yet.                                                   *)

\* Without an overlap, the replica is in one of three situations: one client is
\* open, or ended ones are closing, or nothing is there but perhaps a timer.
OneOpen ==
    ~overlapped =>
        /\ \A c, d \in Open(status) : c = d
        /\ Open(status) # {} => ~reconnectTimer /\ Closing = {}
        /\ ~stopped => Attached(status) \subseteq {current}

LInv == ListenerTypeOK /\ OneOpen

Status == {"free", "connecting", "subscribing", "listening", "mute", "closing"}

LEMMA ListenerStarts ==
    ASSUME ListenerInit
    PROVE  LInv
  <1>1. PICK c \in Clients :
            /\ status = [d \in Clients |-> IF d = c THEN "connecting" ELSE "free"]
            /\ current = NoClient /\ stopped = FALSE /\ reconnectTimer = FALSE
            /\ currentDelay = RECONNECT_DELAY_MS /\ overlapped = FALSE
            /\ breaks = 0 /\ late = 0
    BY DEF ListenerInit
  <1>2. ListenerTypeOK
    <2>1. status \in [Clients -> Status]
      BY <1>1 DEF Status
    <2>2. breaks \in 0 .. MaxBreaks /\ late \in 0 .. MaxLate
      BY <1>1, ListenerAssumption
    <2> QED BY <1>1, <2>1, <2>2, ListenerAssumption DEF ListenerTypeOK, Status
  <1>3. OneOpen
    BY <1>1 DEF OneOpen, Open, Closing, Attached
  <1> QED BY <1>2, <1>3 DEF LInv

\* What ScheduleReconnect keeps of the types.
LEMMA ScheduleTypes ==
    ASSUME ListenerTypeOK,
           NEW st \in [Clients -> Status], ScheduleReconnect(st)
    PROVE  /\ status' \in [Clients -> Status]
           /\ current' \in Clients \cup {NoClient}
           /\ reconnectTimer' \in BOOLEAN
           /\ currentDelay' \in Delays
  <1>1. CASE stopped \/ reconnectTimer
    BY <1>1 DEF ScheduleReconnect, ListenerTypeOK
  <1>2. CASE ~stopped /\ ~reconnectTimer
    <2>1. EndCurrent(st) \in [Clients -> Status]
      BY DEF EndCurrent, Status
    <2> QED BY <1>2, <2>1, ListenerAssumption DEF ScheduleReconnect, ListenerTypeOK
  <1> QED BY <1>1, <1>2

\* The actions that leave no client open but the current one: whatever branch
\* ScheduleReconnect takes, none is open afterwards.
LEMMA ScheduleCloses ==
    ASSUME NEW st \in [Clients -> Status], ScheduleReconnect(st), Open(st) = {}
    PROVE  Open(status') = {} /\ Attached(status') = {}
  <1>1. Attached(st) = {}
    BY DEF Open, Attached
  <1>2. EndCurrent(st) = st
    BY <1>1 DEF EndCurrent
  <1>3. status' = st
    BY <1>2 DEF ScheduleReconnect
  <1> QED BY <1>1, <1>3

LEMMA Spent ==
    ASSUME NEW n, NEW m, NEW k \in Nat, n \in 0 .. k, n < k, m = n + 1
    PROVE  m \in 0 .. k
  OBVIOUS

LEMMA ListenerStep ==
    ASSUME LInv, [ListenerNext]_listenerVars
    PROVE  LInv'
  <1> USE DEF LInv
  <1>1. CASE UNCHANGED listenerVars
    BY <1>1 DEF listenerVars, ListenerTypeOK, OneOpen, Open,
       Attached, Closing
  <1>2. ASSUME NEW c \in Clients, Connected(c) PROVE LInv'
    <2>1. ListenerTypeOK'
      BY <1>2 DEF Connected, ListenerTypeOK
    <2>2. OneOpen'
      BY <1>2 DEF Connected, ListenerTypeOK, OneOpen, Open,
         Attached, Closing
    <2> QED BY <2>1, <2>2
  <1>3. ASSUME NEW c \in Clients, ConnectFails(c) PROVE LInv'
    <2> DEFINE st == [status EXCEPT ![c] = "free"]
    <2>1. st \in [Clients -> Status] /\ ScheduleReconnect(st)
      BY <1>3 DEF ConnectFails, ListenerTypeOK, Status
    <2>2. ListenerTypeOK'
      BY <1>3, <2>1, ScheduleTypes DEF ConnectFails, ListenerTypeOK, Status
    <2>3. ASSUME ~overlapped PROVE Open(st) = {}
      BY <1>3, <2>3 DEF ConnectFails, ListenerTypeOK, OneOpen, Open
    <2>4. OneOpen'
      BY <1>3, <2>1, <2>3, ScheduleCloses DEF ConnectFails, OneOpen
    <2> QED BY <2>2, <2>4
  <1>4. ASSUME NEW c \in Clients, Listens(c) PROVE LInv'
    <2>1. ListenerTypeOK'
      BY <1>4, ListenerAssumption DEF Listens, ListenerTypeOK
    <2>2. OneOpen'
      BY <1>4 DEF Listens, ListenerTypeOK, OneOpen, Open,
         Attached, Closing
    <2> QED BY <2>1, <2>2
  <1>5. ASSUME NEW c \in Clients, ListenFails(c) PROVE LInv'
    <2> DEFINE st == [status EXCEPT ![c] = "mute"]
    <2>1. st \in [Clients -> Status] /\ ScheduleReconnect(st)
      BY <1>5 DEF ListenFails, ListenerTypeOK, Status
    <2>0. breaks' \in 0 .. MaxBreaks
      BY <1>5, Spent, ListenerAssumption DEF ListenFails, ListenerTypeOK
    <2>2. ListenerTypeOK'
      BY <1>5, <2>0, <2>1, ScheduleTypes DEF ListenFails, ListenerTypeOK, Status
    <2>7. Open(st) = Open(status) /\ Attached(st) = Attached(status)
      BY <1>5, <2>1 DEF ListenFails, ListenerTypeOK, Open, Attached
    <2>3. ASSUME stopped PROVE OneOpen'
      <3>1. status' = st /\ UNCHANGED <<current, reconnectTimer, stopped, overlapped>>
        BY <1>5, <2>3 DEF ListenFails, ScheduleReconnect
      <3>2. Closing' = Closing
        BY <1>5, <3>1 DEF ListenFails, ListenerTypeOK, Closing
      <3>3. Open(status') = Open(status) /\ Attached(status') = Attached(status)
        BY <2>7, <3>1
      <3> QED BY <3>1, <3>2, <3>3 DEF OneOpen
    <2>4. ASSUME ~stopped PROVE OneOpen'
      <3>1. SUFFICES ASSUME ~overlapped PROVE OneOpen'
        BY <1>5 DEF ListenFails, OneOpen
      <3>2. c \in Open(status) /\ c \in Attached(status)
        BY <1>5 DEF ListenFails, Open, Attached
      <3>3. current = c /\ ~reconnectTimer
        BY <2>4, <3>1, <3>2 DEF OneOpen
      <3>4. status' = [st EXCEPT ![c] = "closing"]
        BY <2>4, <2>7, <3>2, <3>3, <2>1 DEF ScheduleReconnect, EndCurrent
      <3>5. Open(status') = {} /\ Attached(status') = {}
        BY <3>1, <3>2, <3>4, <2>1, <2>7 DEF OneOpen, Open, Attached
      <3> QED BY <3>5 DEF OneOpen
    <2> QED BY <2>2, <2>3, <2>4
  <1>6. ASSUME NEW c \in Clients, Lost(c) PROVE LInv'
    <2> DEFINE st == [status EXCEPT ![c] = "closing"]
    <2>1. st \in [Clients -> Status] /\ ScheduleReconnect(st)
      BY <1>6 DEF Lost, ListenerTypeOK, Status
    <2>0. breaks' \in 0 .. MaxBreaks
      BY <1>6, Spent, ListenerAssumption DEF Lost, ListenerTypeOK
    <2>2. ListenerTypeOK'
      BY <1>6, <2>0, <2>1, ScheduleTypes DEF Lost, ListenerTypeOK, Status
    <2>3. ASSUME ~overlapped PROVE Open(st) = {}
      BY <1>6, <2>3 DEF Lost, ListenerTypeOK, OneOpen, Open, Attached
    <2>4. OneOpen'
      BY <1>6, <2>1, <2>3, ScheduleCloses DEF Lost, OneOpen
    <2> QED BY <2>2, <2>4
  <1>7. ASSUME NEW c \in Clients, Ended(c) PROVE LInv'
    <2> DEFINE st == [status EXCEPT ![c] = "free"]
    <2>1. st \in [Clients -> Status] /\ ScheduleReconnect(st)
      BY <1>7 DEF Ended, ListenerTypeOK, Status
    <2>2. ListenerTypeOK'
      BY <1>7, <2>1, ScheduleTypes DEF Ended, ListenerTypeOK, Status
    <2>3. ASSUME ~overlapped PROVE Open(st) = {}
      BY <1>7, <2>3 DEF Ended, ListenerTypeOK, OneOpen, Open, Closing
    <2>4. OneOpen'
      BY <1>7, <2>1, <2>3, ScheduleCloses DEF Ended, OneOpen
    <2> QED BY <2>2, <2>4
  <1>8. CASE TimerFires
    <2>0. late' \in 0 .. MaxLate
      BY <1>8, Spent, ListenerAssumption DEF TimerFires, ListenerTypeOK
    <2>1. ListenerTypeOK'
      BY <1>8, <2>0 DEF TimerFires, ListenerTypeOK
    <2>2. OneOpen'
      BY <1>8 DEF TimerFires, ListenerTypeOK, OneOpen, Open,
         Attached, Closing
    <2> QED BY <2>1, <2>2
  <1>9. CASE Stop
    <2>1. ListenerTypeOK'
      BY <1>9 DEF Stop, ListenerTypeOK, EndCurrent
    <2>2. OneOpen'
      BY <1>9 DEF Stop, ListenerTypeOK, OneOpen, EndCurrent, Open,
         Attached, Closing
    <2> QED BY <2>1, <2>2
  <1> QED BY <1>1, <1>2, <1>3, <1>4, <1>5, <1>6, <1>7, <1>8, <1>9 DEF ListenerNext

\* While ended clients close before the timer fires, a replica never has two
\* connections, so connect() need not ask whether there is one already.
THEOREM ListensOnce ==
    ListenerSpec => []OneListener
  <1>1. ListenerInit => LInv
    BY ListenerStarts
  <1>2. LInv /\ [ListenerNext]_listenerVars => LInv'
    BY ListenerStep
  <1>3. LInv => OneListener
    BY DEF LInv, OneOpen, OneListener
  <1> QED BY <1>1, <1>2, <1>3, PTL DEF ListenerSpec

\* The types, and with them that the backoff never leaves its range.
THEOREM ListenerTypes ==
    ListenerSpec => []ListenerTypeOK
  <1>1. ListenerInit => LInv
    BY ListenerStarts
  <1>2. LInv /\ [ListenerNext]_listenerVars => LInv'
    BY ListenerStep
  <1>3. LInv => ListenerTypeOK
    BY DEF LInv
  <1> QED BY <1>1, <1>2, <1>3, PTL DEF ListenerSpec
=============================================================================
