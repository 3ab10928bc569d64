----------------------- MODULE CapabilityRemotesProofs -----------------------
(***************************************************************************)
(* Proofs about CapabilityRemotes, for every number of remotes, loads and  *)
(* tools and every mixture of conflict policies.                           *)
(*                                                                         *)
(* Disposers remove by name.  They stay among their own entries because    *)
(* every name they hold is still taken by an entry of their own source     *)
(* (Held), which holds as long as loads of a remote do not overlap, no     *)
(* tool displaces one of another source and no disposer is called again    *)
(* while there is something for it to remove.                              *)
(***************************************************************************)
EXTENDS CapabilityRemotes, TLAPS

\* What registerAll is called with: definitions of one source and one owner.
Batch(defs, source, owner) ==
    /\ defs \subseteq Entries
    /\ \A d \in defs : d.source = source /\ d.owner = owner /\ d.name.ns = ""
    /\ \A d, e \in defs : d.name = e.name => d = e

\* What one write of a registry relies on and keeps.
Distinct(reg) == \A d, e \in reg : d.name = e.name => d = e

\* What a conflict policy makes of them: the entries that are stored.
Admitted(reg, policy, defs, source, owner, new) ==
    /\ new \subseteq Entries
    /\ \A d \in new : d.source = source /\ d.owner = owner
    /\ Distinct(new)
    /\ policy = "first-wins" => Displaced(reg, new) = {}
    /\ policy # "namespace" \/ source = "host" => new \subseteq defs
    /\ \A d \in new : \E b \in defs : d.name.base = b.name.base

\* The definitions a conflict policy lets in are of the batch's source and
\* owner and have different names.
LEMMA AcceptedBatch ==
    ASSUME NEW reg, NEW policy, NEW defs, NEW s \in Sources, NEW o, Batch(defs, s, o),
           reg \subseteq Entries
    PROVE  Admitted(reg, policy, defs, s, o, Accepted(reg, policy, defs))
<1> DEFINE new == Accepted(reg, policy, defs)
<1>1. CASE policy = "first-wins"
  BY <1>1 DEF Accepted, Batch, Distinct, Displaced, NamesIn, Admitted
<1>2. CASE policy = "namespace"
  <2> DEFINE Renamed(d) == d.name \in NamesIn(reg) /\ d.source # "host"
             As(d) == IF Renamed(d) THEN [d EXCEPT !.name = Qualified(d.source, d.name.base)] ELSE d
  <2>1. new = {As(d) : d \in defs}
    BY <1>2 DEF Accepted
  <2>2. ASSUME NEW d \in defs
        PROVE  /\ As(d) \in Entries
               /\ As(d).source = s /\ As(d).owner = o
               /\ As(d).name.base = d.name.base
    <3>1. d \in Entries /\ d.source = s /\ d.owner = o /\ d.name \in Names /\ d.name.ns = ""
      BY DEF Batch, Entries
    <3>2. s # "host" => s \in Remotes
      BY DEF Sources
    <3> QED
      BY <3>1, <3>2 DEF Entries, Names, Qualified
  <2>3. ASSUME NEW d \in defs, NEW e \in defs, As(d).name = As(e).name PROVE d = e
    <3>1. d.name = [ns |-> "", base |-> d.name.base] /\ e.name = [ns |-> "", base |-> e.name.base]
      BY DEF Batch, Entries, Names
    <3>2. d.name.base = e.name.base
      <4> HIDE DEF As, Renamed
      <4> QED
        BY <2>2, <2>3
    <3> QED
      BY <3>1, <3>2 DEF Batch
  <2> HIDE DEF As, Renamed, new
  <2>4. new \subseteq Entries /\ \A d \in new : d.source = s /\ d.owner = o
    BY <2>1, <2>2
  <2>5. Distinct(new)
    BY <2>1, <2>3 DEF Distinct
  <2>6. \A d \in new : \E b \in defs : d.name.base = b.name.base
    BY <2>1, <2>2
  <2>7. s = "host" => new \subseteq defs
    BY <1>2 DEF new, Accepted, Batch
  <2> QED
    BY <2>4, <2>5, <2>6, <2>7, <1>2 DEF Admitted, new
<1>3. CASE policy \notin {"first-wins", "namespace"}
  BY <1>3 DEF Accepted, Batch, Distinct, Admitted
<1> QED
  BY <1>1, <1>2, <1>3

\* Storing a batch: the registry keeps its type and its unique names, and what
\* is new in it comes from the batch.
LEMMA StoredBatch ==
    ASSUME NEW reg, NEW policy, NEW defs, NEW s, NEW o, NEW new,
           reg \subseteq Entries, Admitted(reg, policy, defs, s, o, new)
    PROVE  /\ Stored(reg, new) \subseteq Entries
           /\ Distinct(reg) => Distinct(Stored(reg, new))
           /\ \A e \in Stored(reg, new) : e \in reg \/ (e.source = s /\ e.owner = o)
           /\ \A e \in reg : e \in Stored(reg, new) \/ \E d \in new : d.name = e.name
BY DEF Admitted, Stored, Displaced, NamesIn, Distinct

----------------------------------------------------------------------------
(* One registerAll of the ToolRegistry.                                    *)

Registers(defs, s, o) ==
    /\ s \in Sources
    /\ Batch(defs, s, o)
    /\ \A d \in defs : ~Clashes(tools, toolPolicy, d)
    /\ RegisterTools(defs)

\* Nothing of one source has displaced anything of another.
Undisplaced == toolPolicy \in {"first-wins", "throw"} \/ ~displaced

LEMMA RegisterLemma ==
    ASSUME TypeOK, UniqueNames, NEW defs, NEW s, NEW o, Registers(defs, s, o)
    PROVE  /\ tools' \subseteq Entries
           /\ Distinct(tools')
           /\ \A e \in tools' : e \in tools \/ (e.source = s /\ e.owner = o)
           /\ registered' \subseteq Entries /\ disposed' \subseteq Entries
           /\ displaced' \in BOOLEAN
           /\ \A e \in registered' : e \in registered \/ e.owner = o
           /\ Disposers(tools, toolPolicy, defs) \subseteq Names
           /\ \A x \in Disposers(tools, toolPolicy, defs) :
                  \E e \in tools' : e.name = x /\ e.source = s
<1> DEFINE new == Accepted(tools, toolPolicy, defs)
<1>1. Admitted(tools, toolPolicy, defs, s, o, new) /\ tools \subseteq Entries
  BY AcceptedBatch DEF Registers, TypeOK
<1>2. tools' = Stored(tools, new) /\ registered' = registered \cup new
      /\ disposed' = disposed \cup Displaced(tools, new) /\ displaced' \in BOOLEAN
  BY DEF Registers, RegisterTools, TypeOK
<1>3. Disposers(tools, toolPolicy, defs) = NamesIn(new)
  BY DEF Disposers
<1> HIDE DEF new
<1>4. Distinct(tools)
  BY DEF UniqueNames, Distinct
<1>5. /\ tools' \subseteq Entries /\ Distinct(tools')
      /\ \A e \in tools' : e \in tools \/ (e.source = s /\ e.owner = o)
  BY <1>1, <1>2, <1>4, StoredBatch
<1>6. /\ registered' \subseteq Entries /\ disposed' \subseteq Entries
      /\ \A e \in registered' : e \in registered \/ e.owner = o
  BY <1>1, <1>2 DEF Admitted, Displaced, TypeOK
<1>7. \A x \in NamesIn(new) : x \in Names /\ \E e \in tools' : e.name = x /\ e.source = s
  BY <1>1, <1>2 DEF Admitted, Stored, NamesIn, Entries
<1> QED
  BY <1>2, <1>3, <1>5, <1>6, <1>7

\* As long as nothing of another source is displaced, a name stays with its source.
LEMMA RegisterKeepsSources ==
    ASSUME TypeOK, NEW defs, NEW s, NEW o, Registers(defs, s, o),
           toolPolicy' = toolPolicy, Undisplaced', NEW e \in tools
    PROVE  \E f \in tools' : f.name = e.name /\ f.source = e.source
<1> DEFINE new == Accepted(tools, toolPolicy, defs)
<1>1. Admitted(tools, toolPolicy, defs, s, o, new) /\ tools \subseteq Entries
  BY AcceptedBatch DEF Registers, TypeOK
<1>2. /\ tools' = Stored(tools, new)
      /\ ~displaced' => \A f \in Displaced(tools, new), d \in new :
                            f.name = d.name => f.source = d.source
  BY DEF Registers, RegisterTools
<1> HIDE DEF new
<1>3. CASE e \notin Displaced(tools, new)
  BY <1>2, <1>3 DEF Stored
<1>4. CASE e \in Displaced(tools, new)
  <2>1. PICK d \in new : d.name = e.name
    BY <1>4 DEF Displaced, NamesIn
  <2>2. toolPolicy # "first-wins"
    BY <1>1, <1>4 DEF Admitted
  <2>3. toolPolicy # "throw"
    BY <1>1, <2>1 DEF Admitted, Registers, Clashes, NamesIn
  <2>4. ~displaced'
    BY <2>2, <2>3 DEF Undisplaced
  <2> QED
    BY <1>2, <1>4, <2>1, <2>4 DEF Stored
<1> QED
  BY <1>3, <1>4

\* A batch of entries never registered before keeps the account of onDispose.
LEMMA RegisterOnce ==
    ASSUME TypeOK, OnDisposeOnce, NEW defs, NEW s, NEW o, Registers(defs, s, o),
           Accepted(tools, toolPolicy, defs) \cap registered = {}
    PROVE  OnDisposeOnce'
BY DEF OnDisposeOnce, Registers, RegisterTools, Stored, Displaced

----------------------------------------------------------------------------
(* The batches of the actions.                                             *)

LEMMA LoadBatches ==
    ASSUME NEW l \in Loads
    PROVE  /\ RemoteOf[l] \in Remotes /\ RemoteOf[l] \in Sources
           /\ Batch(ToolDefs(l), RemoteOf[l], l)
           /\ Batch(Before(l), RemoteOf[l], l)
           /\ \A d \in Before(l) : ~Clashes(tools, toolPolicy, d)
<1>1. RemoteOf[l] \in Remotes /\ RemoteOf[l] \in Sources /\ l \in Owners
  BY RemotesAssumption DEF RemotesAssumption, Sources, Owners
<1>2. \A n \in Listed(l) : Def(l, n) \in Entries
  BY <1>1 DEF Def, Entry, Plain, Entries, Names, ToolNames
<1>3. Batch(ToolDefs(l), RemoteOf[l], l)
  <2>1. ASSUME NEW n \in Listed(l)
        PROVE  /\ Def(l, n).source = RemoteOf[l] /\ Def(l, n).owner = l
               /\ Def(l, n).name.ns = "" /\ Def(l, n).name.base = n
    BY DEF Def, Entry, Plain
  <2>2. \A d \in ToolDefs(l) : \E n \in Listed(l) : d = Def(l, n)
    BY DEF ToolDefs
  <2>3. /\ ToolDefs(l) \subseteq Entries
        /\ \A d \in ToolDefs(l) : d.source = RemoteOf[l] /\ d.owner = l /\ d.name.ns = ""
    <3> SUFFICES ASSUME NEW d \in ToolDefs(l)
                 PROVE  d \in Entries /\ d.source = RemoteOf[l] /\ d.owner = l /\ d.name.ns = ""
      OBVIOUS
    <3>1. PICK n \in Listed(l) : d = Def(l, n)
      BY <2>2
    <3> QED
      BY <1>2, <2>1, <3>1
  <2>4. ASSUME NEW d \in ToolDefs(l), NEW e \in ToolDefs(l), d.name = e.name PROVE d = e
    <3>1. PICK n \in Listed(l) : d = Def(l, n)
      BY <2>2
    <3>2. PICK m \in Listed(l) : e = Def(l, m)
      BY <2>2
    <3>3. n = m
      BY <2>1, <2>4, <3>1, <3>2
    <3> QED
      BY <3>1, <3>2, <3>3
  <2> QED
    BY <2>3, <2>4 DEF Batch
<1>4. Batch(Before(l), RemoteOf[l], l)
  <2>1. Before(l) \subseteq ToolDefs(l)
    BY DEF Before
  <2> QED
    BY <1>3, <2>1 DEF Batch
<1>5. \A d \in Before(l) : ~Clashes(tools, toolPolicy, d)
  <2> SUFFICES ASSUME NEW i \in DOMAIN Offers[l],
                      \A j \in 1 .. i : ~Clashes(tools, toolPolicy, Def(l, Offers[l][j]))
               PROVE  ~Clashes(tools, toolPolicy, Def(l, Offers[l][i]))
    BY DEF Before
  <2>1. i \in 1 .. i
    <3>1. Offers[l] \in Seq(Listed(l))
      BY RemotesAssumption DEF RemotesAssumption
    <3>2. i \in 1 .. Len(Offers[l]) /\ Len(Offers[l]) \in Nat
      BY <3>1
    <3> QED
      BY <3>2
  <2> QED
    BY <2>1
<1> QED
  BY <1>1, <1>3, <1>4, <1>5

LEMMA HostBatch ==
    ASSUME NEW n \in HostTools
    PROVE  "host" \in Sources /\ Batch({HostDef(n)}, "host", "host")
<1>1. HostDef(n) \in Entries
  BY DEF Sources, HostDef, Entry, Plain, Entries, Names, ToolNames, Owners
<1>2. HostDef(n).source = "host" /\ HostDef(n).owner = "host" /\ HostDef(n).name.ns = ""
  BY DEF HostDef, Entry, Plain
<1> QED
  BY <1>1, <1>2 DEF Batch, Sources

----------------------------------------------------------------------------
(* The invariant.                                                          *)

\* Entries of a load carry the name of its remote.
Stamped ==
    \A e \in tools \cup capabilities : e.owner \in Loads => e.source = RemoteOf[e.owner]

\* A load registers nothing before it arrives.
Fresh == \A e \in registered : e.owner \in Loads => status[e.owner] # "loading"

\* Without overlaps a remote has one live load at most.
Apart ==
    ~overlapped => \A l, m \in Loads :
        status[l] = "applied" /\ status[m] = "applied" /\ RemoteOf[l] = RemoteOf[m] => l = m

Quiet == ~overlapped /\ ~repeated /\ Undisplaced

\* Every name a disposer not yet called holds is taken by an entry of its own
\* source.
Held ==
    Quiet =>
        /\ \A l \in Loads : status[l] = "applied" =>
               \A x \in undo[l] : \E e \in tools : e.name = x /\ e.source = RemoteOf[l]
        /\ \A n \in hostUndo \ hostSpent :
               \E e \in tools : e.name = Plain(n) /\ e.source = "host"

\* Records, and the names under which loads dispose of them, are those of remotes.
RecordNames ==
    /\ \A c \in capabilities : c.source = c.name.base
    /\ \A l \in Loads : \A x \in capUndo[l] : x.base = RemoteOf[l]

IInv ==
    /\ TypeOK
    /\ UniqueNames
    /\ OnDisposeOnce
    /\ NothingOutlivesItsLoad
    /\ Stamped
    /\ Fresh
    /\ Apart
    /\ Held
    /\ RecordNames
    /\ LoadedIsRecorded

LEMMA IInvInit == Init => IInv
<1> SUFFICES ASSUME Init PROVE IInv
  OBVIOUS
<1>1. TypeOK
  BY DEF Init, TypeOK
<1>2. UniqueNames /\ OnDisposeOnce /\ NothingOutlivesItsLoad /\ Stamped /\ Fresh
  BY DEF Init, UniqueNames, OnDisposeOnce, NothingOutlivesItsLoad, Stamped, Fresh
<1>3. Apart /\ Held /\ RecordNames /\ LoadedIsRecorded
  BY DEF Init, Apart, Held, RecordNames, LoadedIsRecorded
<1> QED
  BY <1>1, <1>2, <1>3 DEF IInv

----------------------------------------------------------------------------
(* One register of the CapabilityRegistry.                                 *)

Records(r, o) ==
    /\ r \in Remotes
    /\ o \in Owners
    /\ capabilities' = Stored(capabilities, Accepted(capabilities, capPolicy, {Entry(Plain(r), r, o)}))

LEMMA RecordLemma ==
    ASSUME TypeOK, UniqueNames, RecordNames, NEW r, NEW o, Records(r, o)
    PROVE  /\ capabilities' \subseteq Entries
           /\ Distinct(capabilities')
           /\ \A e \in capabilities' : e \in capabilities \/ (e.source = r /\ e.owner = o)
           /\ \A c \in capabilities' : c.source = c.name.base
           /\ \A c \in capabilities : \E f \in capabilities' : f.source = c.source
           /\ \E c \in capabilities' : c.source = r
           /\ \A x \in Disposers(capabilities, capPolicy, {Entry(Plain(r), r, o)}) :
                  x \in Names /\ x.base = r
<1> DEFINE def == Entry(Plain(r), r, o)
           new == Accepted(capabilities, capPolicy, {def})
<1>0. Plain(r).base = r
  BY DEF Plain
<1>1. Batch({def}, r, o) /\ r \in Sources
  <2>1. def \in Entries /\ r \in Sources
    BY DEF Records, Entry, Plain, Entries, Names, Sources
  <2>2. def.source = r /\ def.owner = o /\ def.name.ns = ""
    BY DEF Entry, Plain
  <2> HIDE DEF def
  <2> QED
    BY <2>1, <2>2 DEF Batch
<1>2. Admitted(capabilities, capPolicy, {def}, r, o, new) /\ capabilities \subseteq Entries
  BY <1>1, AcceptedBatch DEF TypeOK
<1>3. capabilities' = Stored(capabilities, new)
      /\ Disposers(capabilities, capPolicy, {def}) = NamesIn(new)
  BY DEF Records, Disposers
<1>4. new = {} => \E c \in capabilities : c.name = Plain(r)
  BY DEF Accepted, NamesIn, Entry
<1> HIDE DEF new
<1>5. \A d \in new : d.name.base = r /\ d.source = r /\ d.name \in Names
  <2>1. def.name.base = r
    BY DEF Entry, Plain
  <2> HIDE DEF def
  <2> QED
    BY <1>2, <2>1 DEF Admitted, Entries
<1>6. /\ capabilities' \subseteq Entries /\ Distinct(capabilities')
      /\ \A e \in capabilities' : e \in capabilities \/ (e.source = r /\ e.owner = o)
  <2>1. Distinct(capabilities)
    BY DEF UniqueNames, Distinct
  <2> QED
    BY <1>2, <1>3, <2>1, StoredBatch
<1>7. \A c \in capabilities' : c.source = c.name.base
  BY <1>3, <1>5 DEF Stored, RecordNames
<1>8. \A c \in capabilities : \E f \in capabilities' : f.source = c.source
  <2> TAKE c \in capabilities
  <2>1. c \in capabilities' \/ \E d \in new : d.name = c.name
    BY <1>2, <1>3, StoredBatch
  <2>2. ASSUME NEW d \in new, d.name = c.name PROVE d \in capabilities' /\ d.source = c.source
    BY <1>3, <1>5, <2>2 DEF Stored, RecordNames
  <2> QED
    BY <2>1, <2>2
<1>9. \E c \in capabilities' : c.source = r
  <2>1. CASE new = {}
    <3>1. PICK c \in capabilities : c.name = Plain(r)
      BY <1>4, <2>1
    <3>2. c.name.base = r
      BY <1>0, <3>1
    <3>3. c.source = r
      BY <3>1, <3>2 DEF RecordNames
    <3> QED
      BY <1>8, <3>3
  <2>2. CASE new # {}
    BY <1>3, <1>5, <2>2 DEF Stored
  <2> QED
    BY <2>1, <2>2
<1>10. \A x \in NamesIn(new) : x \in Names /\ x.base = r
  BY <1>5 DEF NamesIn
<1> QED
  BY <1>3, <1>6, <1>7, <1>8, <1>9, <1>10

----------------------------------------------------------------------------
(* A load arrives.                                                         *)

LEMMA ApplyInv ==
    ASSUME IInv, NEW l \in Loads, Apply(l) PROVE IInv'
<1> DEFINE s == RemoteOf[l]
           defs == ToolDefs(l)
<1> USE DEF IInv
<1>1. Registers(defs, s, l) /\ s \in Remotes /\ s \in Sources
  BY LoadBatches DEF Apply, Registers
<1>2. Records(s, l)
  BY <1>1 DEF Apply, Records, Record, Owners
<1>3. /\ status[l] = "loading"
      /\ status' = [status EXCEPT ![l] = "applied"]
      /\ undo' = [undo EXCEPT ![l] = Disposers(tools, toolPolicy, defs)]
      /\ capUndo' = [capUndo EXCEPT ![l] = Disposers(capabilities, capPolicy, {Entry(Plain(s), s, l)})]
      /\ overlapped' = (overlapped \/ Live(s))
      /\ UNCHANGED <<toolPolicy, capPolicy, hostUndo, hostSpent, repeated>>
  BY DEF Apply, Record
<1>4. /\ tools' \subseteq Entries /\ Distinct(tools')
      /\ \A e \in tools' : e \in tools \/ (e.source = s /\ e.owner = l)
      /\ registered' \subseteq Entries /\ disposed' \subseteq Entries
      /\ displaced' \in BOOLEAN
      /\ \A e \in registered' : e \in registered \/ e.owner = l
      /\ Disposers(tools, toolPolicy, defs) \subseteq Names
      /\ \A x \in Disposers(tools, toolPolicy, defs) :
             \E e \in tools' : e.name = x /\ e.source = s
  BY <1>1, RegisterLemma
<1>5. /\ capabilities' \subseteq Entries /\ Distinct(capabilities')
      /\ \A e \in capabilities' : e \in capabilities \/ (e.source = s /\ e.owner = l)
      /\ \A c \in capabilities' : c.source = c.name.base
      /\ \A c \in capabilities : \E f \in capabilities' : f.source = c.source
      /\ \E c \in capabilities' : c.source = s
      /\ \A x \in Disposers(capabilities, capPolicy, {Entry(Plain(s), s, l)}) :
             x \in Names /\ x.base = s
  BY <1>2, RecordLemma
<1>6. TypeOK'
  BY <1>3, <1>4, <1>5 DEF TypeOK, Live
<1>7. UniqueNames'
  BY <1>4, <1>5 DEF UniqueNames, Distinct
<1>8. OnDisposeOnce'
  <2>1. Admitted(tools, toolPolicy, defs, s, l, Accepted(tools, toolPolicy, defs))
    BY <1>1, AcceptedBatch DEF Registers, TypeOK
  <2>2. Accepted(tools, toolPolicy, defs) \cap registered = {}
    BY <1>3, <2>1 DEF Admitted, Fresh
  <2> QED
    BY <1>1, <2>2, RegisterOnce
<1>9. NothingOutlivesItsLoad'
  BY <1>3, <1>4, <1>5 DEF NothingOutlivesItsLoad, TypeOK
<1>10. Stamped'
  BY <1>4, <1>5 DEF Stamped
<1>11. Fresh'
  BY <1>3, <1>4 DEF Fresh, TypeOK
<1>12. Apart'
  BY <1>3 DEF Apart, Live, TypeOK
<1>13. Held'
  <2> SUFFICES ASSUME Quiet' PROVE Held'
    BY DEF Held
  <2>1. Quiet
    BY <1>1, <1>3 DEF Quiet, Undisplaced, Registers, RegisterTools
  <2>2. \A e \in tools : \E f \in tools' : f.name = e.name /\ f.source = e.source
    BY <1>1, <1>3, RegisterKeepsSources DEF Quiet
  <2>3. ASSUME NEW m \in Loads, status'[m] = "applied", NEW x \in undo'[m]
        PROVE  \E e \in tools' : e.name = x /\ e.source = RemoteOf[m]
    <3>1. CASE m = l
      BY <1>3, <1>4, <2>3, <3>1 DEF TypeOK
    <3>2. CASE m # l
      <4>1. status[m] = "applied" /\ x \in undo[m]
        BY <1>3, <2>3, <3>2 DEF TypeOK
      <4> QED
        BY <2>1, <2>2, <4>1 DEF Held
    <3> QED
      BY <3>1, <3>2
  <2>4. \A n \in hostUndo' \ hostSpent' : \E e \in tools' : e.name = Plain(n) /\ e.source = "host"
    BY <1>3, <2>1, <2>2 DEF Held
  <2> QED
    BY <2>3, <2>4 DEF Held
<1>14. RecordNames'
  BY <1>3, <1>5 DEF RecordNames, TypeOK
<1>15. LoadedIsRecorded'
  BY <1>3, <1>5 DEF LoadedIsRecorded, TypeOK
<1> QED
  BY <1>6, <1>7, <1>8, <1>9, <1>10, <1>11, <1>12, <1>13, <1>14, <1>15

\* apply() throws halfway.
LEMMA ApplyThrowsInv ==
    ASSUME IInv, NEW l \in Loads, ApplyThrows(l) PROVE IInv'
<1> DEFINE s == RemoteOf[l]
           defs == Before(l)
<1> USE DEF IInv
<1>1. Registers(defs, s, l) /\ s \in Remotes /\ s \in Sources
  BY LoadBatches DEF ApplyThrows, Registers
<1>2. /\ status[l] = "loading"
      /\ status' = [status EXCEPT ![l] = "failed"]
      /\ overlapped' = (overlapped \/ Live(s))
      /\ UNCHANGED <<capabilities, toolPolicy, capPolicy, undo, capUndo, hostUndo, hostSpent,
                     repeated>>
  BY DEF ApplyThrows
<1>3. "throw" \in {toolPolicy, capPolicy}
  BY DEF ApplyThrows, Clashes
<1>4. /\ tools' \subseteq Entries /\ Distinct(tools')
      /\ \A e \in tools' : e \in tools \/ (e.source = s /\ e.owner = l)
      /\ registered' \subseteq Entries /\ disposed' \subseteq Entries
      /\ displaced' \in BOOLEAN
      /\ \A e \in registered' : e \in registered \/ e.owner = l
  BY <1>1, RegisterLemma
<1>5. TypeOK'
  BY <1>2, <1>4 DEF TypeOK, Live
<1>6. UniqueNames'
  BY <1>2, <1>4 DEF UniqueNames, Distinct
<1>7. OnDisposeOnce'
  <2>1. Admitted(tools, toolPolicy, defs, s, l, Accepted(tools, toolPolicy, defs))
    BY <1>1, AcceptedBatch DEF Registers, TypeOK
  <2>2. Accepted(tools, toolPolicy, defs) \cap registered = {}
    BY <1>2, <2>1 DEF Admitted, Fresh
  <2> QED
    BY <1>1, <2>2, RegisterOnce
<1>8. NothingOutlivesItsLoad'
  BY <1>2, <1>3, <1>4 DEF NothingOutlivesItsLoad, TypeOK
<1>9. Stamped' /\ Fresh'
  BY <1>2, <1>4 DEF Stamped, Fresh, TypeOK
<1>10. Apart' /\ LoadedIsRecorded'
  BY <1>2 DEF Apart, LoadedIsRecorded, TypeOK
<1>11. Held'
  <2> SUFFICES ASSUME Quiet' PROVE Held'
    BY DEF Held
  <2>1. Quiet
    BY <1>1, <1>2 DEF Quiet, Undisplaced, Registers, RegisterTools
  <2>2. \A e \in tools : \E f \in tools' : f.name = e.name /\ f.source = e.source
    BY <1>1, <1>2, RegisterKeepsSources DEF Quiet
  <2>3. ASSUME NEW m \in Loads, status'[m] = "applied", NEW x \in undo'[m]
        PROVE  \E e \in tools' : e.name = x /\ e.source = RemoteOf[m]
    <3>1. status[m] = "applied" /\ x \in undo[m]
      BY <1>2, <2>3 DEF TypeOK
    <3> QED
      BY <2>1, <2>2, <3>1 DEF Held
  <2>4. \A n \in hostUndo' \ hostSpent' : \E e \in tools' : e.name = Plain(n) /\ e.source = "host"
    BY <1>2, <2>1, <2>2 DEF Held
  <2> QED
    BY <2>3, <2>4 DEF Held
<1>12. RecordNames'
  BY <1>2 DEF RecordNames
<1> QED
  BY <1>5, <1>6, <1>7, <1>8, <1>9, <1>10, <1>11, <1>12

\* The loader rejects.
LEMMA LoadFailsInv ==
    ASSUME IInv, NEW l \in Loads, LoadFails(l) PROVE IInv'
<1> USE DEF IInv, LoadFails, history
<1>1. TypeOK' /\ UniqueNames' /\ OnDisposeOnce'
  BY DEF TypeOK, UniqueNames, OnDisposeOnce
<1>2. NothingOutlivesItsLoad' /\ Stamped' /\ Fresh'
  BY DEF TypeOK, NothingOutlivesItsLoad, Stamped, Fresh
<1>3. Apart' /\ RecordNames' /\ LoadedIsRecorded'
  BY DEF TypeOK, Apart, RecordNames, LoadedIsRecorded
<1>4. Held'
  BY DEF TypeOK, Held, Quiet, Undisplaced
<1> QED
  BY <1>1, <1>2, <1>3, <1>4

----------------------------------------------------------------------------
(* Disposers.                                                              *)

\* As long as nothing overlapped or displaced another's, the first call of the
\* disposer of a load takes away entries of its own remote only, and those are
\* all it takes.
LEMMA DisposeTakesItsOwn ==
    ASSUME IInv, NEW l \in Loads, Dispose(l), status[l] = "applied", Quiet
    PROVE  \A e \in tools : e \in tools' <=> e.source # RemoteOf[l]
<1>1. \A e \in tools : e.name \in undo[l] => e.source = RemoteOf[l]
  BY DEF IInv, Held, UniqueNames
<1> QED
  BY <1>1 DEF Dispose, Stripped

\* A further call that finds nothing changes nothing.
LEMMA DisposedAgain ==
    ASSUME IInv, NEW l \in Loads, Dispose(l), status[l] # "applied", ~repeated'
    PROVE  UNCHANGED <<tools, capabilities, status>>
<1>1. status[l] = "disposed"
  BY DEF Dispose
<1>2. Stripped(l, tools, undo[l]) = {} /\ Stripped(l, capabilities, capUndo[l]) = {}
  BY <1>1 DEF Dispose
<1>3. tools' = tools /\ capabilities' = capabilities
  BY <1>2 DEF Dispose
<1>4. status' = status
  BY <1>1 DEF Dispose, IInv, TypeOK
<1> QED
  BY <1>3, <1>4

\* Likewise for a disposer of the host.
LEMMA HostTakesItsOwn ==
    ASSUME IInv, NEW n \in HostTools, HostDispose(n), n \notin hostSpent, Quiet
    PROVE  /\ \A e \in tools : e \in tools' <=> e.name # Plain(n)
           /\ \A f \in tools : f.name = Plain(n) => f.source = "host"
BY DEF IInv, Held, UniqueNames, HostDispose

LEMMA HostDisposedAgain ==
    ASSUME IInv, NEW n \in HostTools, HostDispose(n), n \in hostSpent, ~repeated'
    PROVE  UNCHANGED <<tools, hostSpent>>
BY DEF HostDispose

LEMMA DisposeInv ==
    ASSUME IInv, NEW l \in Loads, Dispose(l) PROVE IInv'
<1> USE DEF IInv
<1>1. /\ status' = [status EXCEPT ![l] = "disposed"]
      /\ tools' \subseteq tools /\ capabilities' \subseteq capabilities
      /\ \A e \in tools' \cup capabilities' : e.source # RemoteOf[l]
      /\ disposed' = disposed \cup (tools \ tools')
      /\ UNCHANGED <<toolPolicy, capPolicy, undo, capUndo, hostUndo, hostSpent, registered,
                     overlapped, displaced>>
      /\ repeated' \in BOOLEAN /\ (repeated => repeated')
  BY DEF Dispose, Stripped, TypeOK
<1>2. TypeOK' /\ UniqueNames'
  BY <1>1 DEF TypeOK, UniqueNames
<1>3. OnDisposeOnce'
  BY <1>1 DEF OnDisposeOnce
<1>4. NothingOutlivesItsLoad' /\ Stamped' /\ Fresh'
  BY <1>1 DEF TypeOK, NothingOutlivesItsLoad, Stamped, Fresh
<1>5. Apart' /\ RecordNames'
  BY <1>1 DEF TypeOK, Apart, RecordNames
<1>6. ASSUME status[l] = "applied" PROVE Held' /\ LoadedIsRecorded'
  <2>1. Held'
    <3> SUFFICES ASSUME Quiet' PROVE Held'
      BY DEF Held
    <3>1. Quiet
      BY <1>1 DEF Quiet, Undisplaced
    <3>2. \A e \in tools : e.source # RemoteOf[l] => e \in tools'
      BY <1>6, <3>1, DisposeTakesItsOwn
    <3>3. ASSUME NEW m \in Loads, status'[m] = "applied", NEW x \in undo'[m]
          PROVE  \E e \in tools' : e.name = x /\ e.source = RemoteOf[m]
      <4>1. m # l /\ status[m] = "applied" /\ x \in undo[m]
        BY <1>1, <3>3 DEF TypeOK
      <4>2. RemoteOf[m] # RemoteOf[l]
        BY <1>6, <3>1, <4>1 DEF Apart, Quiet
      <4> QED
        BY <3>1, <3>2, <4>1, <4>2 DEF Held
    <3>4. \A n \in hostUndo' \ hostSpent' : \E e \in tools' : e.name = Plain(n) /\ e.source = "host"
      <4>1. RemoteOf[l] # "host"
        BY RemotesAssumption DEF RemotesAssumption
      <4> QED
        BY <1>1, <3>1, <3>2, <4>1 DEF Held
    <3> QED
      BY <3>3, <3>4 DEF Held
  <2>2. LoadedIsRecorded'
    <3> SUFFICES ASSUME ~overlapped', ~repeated', NEW m \in Loads, status'[m] = "applied"
                 PROVE  \E c \in capabilities' : c.source = RemoteOf[m]
      BY DEF LoadedIsRecorded
    <3>1. m # l /\ status[m] = "applied" /\ ~overlapped /\ ~repeated
      BY <1>1 DEF TypeOK
    <3>2. RemoteOf[m] # RemoteOf[l]
      BY <1>6, <3>1 DEF Apart
    <3>3. PICK c \in capabilities : c.source = RemoteOf[m]
      BY <3>1 DEF LoadedIsRecorded
    <3>4. c.name \notin capUndo[l]
      BY <3>2, <3>3 DEF RecordNames
    <3> QED
      BY <3>2, <3>3, <3>4 DEF Dispose, Stripped
  <2> QED
    BY <2>1, <2>2
<1>7. ASSUME status[l] # "applied" PROVE Held' /\ LoadedIsRecorded'
  <2>1. ~repeated' => UNCHANGED <<tools, capabilities, status>> /\ ~repeated
    BY <1>1, <1>7, DisposedAgain
  <2>2. Held'
    BY <1>1, <2>1 DEF Held, Quiet, Undisplaced
  <2>3. LoadedIsRecorded'
    BY <1>1, <2>1 DEF LoadedIsRecorded
  <2> QED
    BY <2>2, <2>3
<1> QED
  BY <1>2, <1>3, <1>4, <1>5, <1>6, <1>7

LEMMA HostDisposeInv ==
    ASSUME IInv, NEW n \in HostTools, HostDispose(n) PROVE IInv'
<1> USE DEF IInv
<1>1. /\ tools' \subseteq tools
      /\ disposed' = disposed \cup (tools \ tools')
      /\ n \in hostUndo
      /\ hostSpent' = hostSpent \cup {n}
      /\ UNCHANGED <<capabilities, toolPolicy, capPolicy, status, undo, capUndo, hostUndo, registered,
                     overlapped, displaced>>
      /\ repeated' \in BOOLEAN /\ (repeated => repeated')
  BY DEF HostDispose, TypeOK
<1>2. TypeOK' /\ UniqueNames'
  BY <1>1 DEF TypeOK, UniqueNames
<1>3. OnDisposeOnce'
  BY <1>1 DEF OnDisposeOnce
<1>4. NothingOutlivesItsLoad' /\ Stamped' /\ Fresh'
  BY <1>1 DEF NothingOutlivesItsLoad, Stamped, Fresh
<1>5. Apart' /\ RecordNames' /\ LoadedIsRecorded'
  BY <1>1 DEF Apart, RecordNames, LoadedIsRecorded
<1>6. ASSUME Quiet', n \notin hostSpent PROVE Held'
  <2>1. Quiet
    BY <1>1, <1>6 DEF Quiet, Undisplaced
  <2>2. /\ \A e \in tools : e.name # Plain(n) => e \in tools'
        /\ \A e \in tools : e.name = Plain(n) => e.source = "host"
    BY <1>6, <2>1, HostTakesItsOwn
  <2>3. ASSUME NEW m \in Loads, status'[m] = "applied", NEW x \in undo'[m]
        PROVE  \E e \in tools' : e.name = x /\ e.source = RemoteOf[m]
    <3>1. PICK e \in tools : e.name = x /\ e.source = RemoteOf[m]
      BY <1>1, <2>1, <2>3 DEF Held
    <3>2. e.source # "host"
      BY <3>1, RemotesAssumption DEF RemotesAssumption
    <3> QED
      BY <2>2, <3>1, <3>2
  <2>4. ASSUME NEW m \in hostUndo' \ hostSpent'
        PROVE  \E e \in tools' : e.name = Plain(m) /\ e.source = "host"
    <3>1. Plain(m) # Plain(n) /\ m \in hostUndo \ hostSpent
      BY <1>1, <2>4 DEF Plain
    <3> QED
      BY <2>1, <2>2, <3>1 DEF Held
  <2> QED
    BY <2>3, <2>4 DEF Held
<1>7. ASSUME Quiet', n \in hostSpent PROVE Held'
  BY <1>1, <1>7, HostDisposedAgain DEF Held, Quiet, Undisplaced
<1>8. Held'
  BY <1>6, <1>7 DEF Held
<1> QED
  BY <1>2, <1>3, <1>4, <1>5, <1>8

----------------------------------------------------------------------------
(* The host registers a tool; a prefetch registers a record.               *)

LEMMA HostRegisterInv ==
    ASSUME IInv, NEW n \in HostTools, HostRegister(n) PROVE IInv'
<1> DEFINE defs == {HostDef(n)}
<1> USE DEF IInv
<1>1. Registers(defs, "host", "host")
  BY HostBatch DEF HostRegister, Registers
<1>2. /\ HostDef(n) \notin registered
      /\ hostUndo' \subseteq hostUndo \cup {n}
      /\ n \in hostUndo' => n \in hostUndo \/ Plain(n) \in Disposers(tools, toolPolicy, defs)
      /\ hostUndo \subseteq hostUndo'
      /\ UNCHANGED <<capabilities, toolPolicy, capPolicy, status, undo, capUndo, hostSpent,
                     overlapped, repeated>>
  BY DEF HostRegister
<1>3. /\ tools' \subseteq Entries /\ Distinct(tools')
      /\ \A e \in tools' : e \in tools \/ (e.source = "host" /\ e.owner = "host")
      /\ registered' \subseteq Entries /\ disposed' \subseteq Entries
      /\ displaced' \in BOOLEAN
      /\ \A e \in registered' : e \in registered \/ e.owner = "host"
      /\ \A x \in Disposers(tools, toolPolicy, defs) :
             \E e \in tools' : e.name = x /\ e.source = "host"
  BY <1>1, RegisterLemma
<1>4. "host" \notin Loads
  BY RemotesAssumption DEF RemotesAssumption
<1>5. TypeOK' /\ UniqueNames'
  BY <1>2, <1>3 DEF TypeOK, UniqueNames, Distinct
<1>6. OnDisposeOnce'
  <2>1. Admitted(tools, toolPolicy, defs, "host", "host", Accepted(tools, toolPolicy, defs))
    BY <1>1, AcceptedBatch DEF Registers, TypeOK
  <2>2. Accepted(tools, toolPolicy, defs) \cap registered = {}
    BY <1>2, <2>1 DEF Admitted
  <2> QED
    BY <1>1, <2>2, RegisterOnce
<1>7. NothingOutlivesItsLoad' /\ Stamped' /\ Fresh'
  BY <1>2, <1>3, <1>4 DEF NothingOutlivesItsLoad, Stamped, Fresh
<1>8. Apart' /\ RecordNames' /\ LoadedIsRecorded'
  BY <1>2 DEF Apart, RecordNames, LoadedIsRecorded
<1>9. Held'
  <2> SUFFICES ASSUME Quiet' PROVE Held'
    BY DEF Held
  <2>1. Quiet
    BY <1>1, <1>2 DEF Quiet, Undisplaced, Registers, RegisterTools
  <2>2. \A e \in tools : \E f \in tools' : f.name = e.name /\ f.source = e.source
    BY <1>1, <1>2, RegisterKeepsSources DEF Quiet
  <2>3. ASSUME NEW m \in Loads, status'[m] = "applied", NEW x \in undo'[m]
        PROVE  \E e \in tools' : e.name = x /\ e.source = RemoteOf[m]
    BY <1>2, <2>1, <2>2, <2>3 DEF Held
  <2>4. ASSUME NEW m \in hostUndo' \ hostSpent'
        PROVE  \E e \in tools' : e.name = Plain(m) /\ e.source = "host"
    <3>1. CASE m \in hostUndo
      BY <1>2, <2>1, <2>2, <2>4, <3>1 DEF Held
    <3>2. CASE m \notin hostUndo
      BY <1>2, <1>3, <2>4, <3>2
    <3> QED
      BY <3>1, <3>2
  <2> QED
    BY <2>3, <2>4 DEF Held
<1> QED
  BY <1>5, <1>6, <1>7, <1>8, <1>9

LEMMA PrefetchInv ==
    ASSUME IInv, NEW r \in Remotes, Prefetch(r) PROVE IInv'
<1> USE DEF IInv
<1>1. Records(r, "prefetch")
  BY DEF Prefetch, Records, Owners
<1>2. UNCHANGED <<tools, toolPolicy, capPolicy, loads, history>>
  BY DEF Prefetch
<1>3. /\ capabilities' \subseteq Entries /\ Distinct(capabilities')
      /\ \A e \in capabilities' : e \in capabilities \/ (e.source = r /\ e.owner = "prefetch")
      /\ \A c \in capabilities' : c.source = c.name.base
      /\ \A c \in capabilities : \E f \in capabilities' : f.source = c.source
  BY <1>1, RecordLemma
<1>4. "prefetch" \notin Loads
  BY RemotesAssumption DEF RemotesAssumption
<1>5. TypeOK' /\ UniqueNames' /\ OnDisposeOnce'
  BY <1>2, <1>3 DEF TypeOK, UniqueNames, Distinct, OnDisposeOnce, loads, history
<1>6. NothingOutlivesItsLoad' /\ Stamped' /\ Fresh'
  BY <1>2, <1>3, <1>4 DEF NothingOutlivesItsLoad, Stamped, Fresh, loads, history
<1>7. Apart' /\ RecordNames' /\ LoadedIsRecorded'
  BY <1>2, <1>3 DEF Apart, RecordNames, LoadedIsRecorded, loads, history
<1>8. Held'
  BY <1>2 DEF Held, Quiet, Undisplaced, loads, history
<1> QED
  BY <1>5, <1>6, <1>7, <1>8

LEMMA StutterInv == ASSUME IInv, UNCHANGED vars PROVE IInv'
<1> USE DEF IInv, vars, loads, history
<1>1. TypeOK' /\ UniqueNames' /\ OnDisposeOnce' /\ NothingOutlivesItsLoad' /\ Stamped' /\ Fresh'
  BY DEF TypeOK, UniqueNames, OnDisposeOnce, NothingOutlivesItsLoad, Stamped, Fresh
<1>2. Apart' /\ Held' /\ RecordNames' /\ LoadedIsRecorded'
  BY DEF Apart, Held, Quiet, Undisplaced, RecordNames, LoadedIsRecorded
<1> QED
  BY <1>1, <1>2

LEMMA NextInv == IInv /\ [Next]_vars => IInv'
<1> SUFFICES ASSUME IInv, [Next]_vars PROVE IInv'
  OBVIOUS
<1>1. CASE Host
  <2>1. PICK n \in HostTools : HostRegister(n) \/ HostDispose(n)
    BY <1>1 DEF Host
  <2> QED
    BY <2>1, HostRegisterInv, HostDisposeInv
<1>2. CASE Federation
  <2>1. PICK l \in Loads : Apply(l) \/ ApplyThrows(l) \/ LoadFails(l) \/ Dispose(l)
    BY <1>2 DEF Federation
  <2> QED
    BY <2>1, ApplyInv, ApplyThrowsInv, LoadFailsInv, DisposeInv
<1>3. CASE \E r \in Remotes : Prefetch(r)
  BY <1>3, PrefetchInv
<1>4. CASE UNCHANGED vars
  BY <1>4, StutterInv
<1> QED
  BY <1>1, <1>2, <1>3, <1>4 DEF Next

LEMMA SpecInv == Spec => []IInv
BY IInvInit, NextInv, PTL DEF Spec

\* In every behaviour a name means one entry, onDispose is called once for
\* every tool that leaves, nothing outlives the load that made it, and a loaded
\* remote has a record.
THEOREM RemotesSafe ==
    Spec => [](TypeOK /\ UniqueNames /\ OnDisposeOnce /\ NothingOutlivesItsLoad /\ LoadedIsRecorded)
<1>1. IInv => TypeOK /\ UniqueNames /\ OnDisposeOnce /\ NothingOutlivesItsLoad /\ LoadedIsRecorded
  BY DEF IInv
<1> QED
  BY <1>1, SpecInv, PTL

\* Every variable keeps its type, for every set of remotes, loads and tools.
THEOREM RemotesTypes == Spec => []TypeOK
BY RemotesSafe, PTL

\* A name means one entry, for every set of remotes, loads, tools and policies.
THEOREM NamesAreUnique == Spec => []UniqueNames
BY RemotesSafe, PTL

\* onDispose is called once for every tool that leaves the registry, and for no
\* other, for every set of remotes, loads, tools and policies.
THEOREM DisposedOnce == Spec => []OnDisposeOnce
BY RemotesSafe, PTL

\* A remote that is loaded has its record, for every set of remotes and loads,
\* as long as loads of a remote do not overlap and no disposer called again
\* finds something to remove.
THEOREM LoadedHaveRecords == Spec => []LoadedIsRecorded
BY RemotesSafe, PTL

----------------------------------------------------------------------------
(* Tools leave with their owner.                                           *)

LeaveWithOwner ==
    Quiet' => \A e \in tools \ tools' : RemovedByOwner(e)

\* A registration takes nothing away but what a namesake of its source replaces.
LEMMA RegisterLeaves ==
    ASSUME IInv, NEW defs, NEW s, NEW o, Registers(defs, s, o), toolPolicy' = toolPolicy
    PROVE  LeaveWithOwner
BY RegisterKeepsSources DEF IInv, LeaveWithOwner, RemovedByOwner, Quiet

LEMMA NextLeaves == IInv /\ [Next]_vars => LeaveWithOwner
<1> SUFFICES ASSUME IInv, [Next]_vars PROVE LeaveWithOwner
  OBVIOUS
<1>1. ASSUME NEW n \in HostTools, HostRegister(n) PROVE LeaveWithOwner
  <2>1. Registers({HostDef(n)}, "host", "host") /\ toolPolicy' = toolPolicy
    BY <1>1, HostBatch DEF HostRegister, Registers
  <2> QED
    BY <2>1, RegisterLeaves
<1>2. ASSUME NEW n \in HostTools, HostDispose(n) PROVE LeaveWithOwner
  <2> SUFFICES ASSUME Quiet', NEW e \in tools, e \notin tools' PROVE RemovedByOwner(e)
    BY DEF LeaveWithOwner
  <2>1. n \notin hostSpent
    BY <1>2, HostDisposedAgain DEF Quiet
  <2>2. Quiet /\ n \in hostSpent' \ hostSpent
    BY <1>2, <2>1 DEF Quiet, Undisplaced, HostDispose
  <2>3. e.name = Plain(n) /\ e.source = "host"
    BY <1>2, <2>1, <2>2, HostTakesItsOwn
  <2> QED
    BY <2>2, <2>3 DEF RemovedByOwner
<1>3. ASSUME NEW l \in Loads, Apply(l) \/ ApplyThrows(l) PROVE LeaveWithOwner
  <2>1. toolPolicy' = toolPolicy
    BY <1>3 DEF Apply, ApplyThrows
  <2>2. Registers(ToolDefs(l), RemoteOf[l], l) \/ Registers(Before(l), RemoteOf[l], l)
    BY <1>3, LoadBatches DEF Apply, ApplyThrows, Registers
  <2> QED
    BY <2>1, <2>2, RegisterLeaves
<1>4. ASSUME NEW l \in Loads, Dispose(l) PROVE LeaveWithOwner
  <2> SUFFICES ASSUME Quiet', NEW e \in tools, e \notin tools' PROVE RemovedByOwner(e)
    BY DEF LeaveWithOwner
  <2>1. status[l] = "applied"
    BY <1>4, DisposedAgain DEF Quiet
  <2>2. Quiet /\ status'[l] = "disposed"
    BY <1>4 DEF Quiet, Undisplaced, Dispose, IInv, TypeOK
  <2>3. RemoteOf[l] = e.source
    BY <1>4, <2>1, <2>2, DisposeTakesItsOwn
  <2> QED
    BY <2>1, <2>2, <2>3 DEF RemovedByOwner
<1>5. CASE UNCHANGED tools
  BY <1>5 DEF LeaveWithOwner
<1> QED
  BY <1>1, <1>2, <1>3, <1>4, <1>5
     DEF Next, Host, Federation, LoadFails, Prefetch, vars

\* Remotes and the host never take each other's tools away, as long as no two
\* loads of a remote overlap, no tool displaces one of another source and no
\* disposer called again finds something to remove.
THEOREM ToolsLeave == Spec => ToolsLeaveWithTheirOwner
<1> DEFINE Leaves ==
      ~overlapped' /\ ~repeated' /\ (toolPolicy \in {"first-wins", "throw"} \/ ~displaced')
        => \A e \in tools \ tools' : RemovedByOwner(e)
<1>1. IInv /\ [Next]_vars => [Leaves]_vars
  <2>1. [Next]_vars => toolPolicy' = toolPolicy
    BY DEF Next, Host, Federation, HostRegister, HostDispose, Apply, ApplyThrows, LoadFails,
           Dispose, Prefetch, vars
  <2>2. LeaveWithOwner /\ toolPolicy' = toolPolicy => Leaves
    BY DEF LeaveWithOwner, Quiet, Undisplaced
  <2> QED
    BY <2>1, <2>2, NextLeaves
<1>2. ToolsLeaveWithTheirOwner <=> [][Leaves]_vars
  BY DEF ToolsLeaveWithTheirOwner
<1> HIDE DEF Leaves
<1> QED
  BY <1>1, <1>2, SpecInv, PTL DEF Spec
----------------------------------------------------------------------------
(* Namesakes coexist.                                                      *)

\* The entry of a tool of load l, under the one name or the other.
Present(reg, l, d) == \E e \in reg : e.owner = l /\ e.name.base = d.name.base

\* Under 'namespace' every definition of a batch is stored, under some name.
LEMMA NamespaceStores ==
    ASSUME NEW reg, NEW defs, NEW d \in defs
    PROVE  \E e \in Accepted(reg, "namespace", defs) :
               e = d \/ e = [d EXCEPT !.name = Qualified(d.source, d.name.base)]
BY DEF Accepted

\* A registration that displaces nothing of another source leaves the entries of
\* other sources where they are.
LEMMA OthersStay ==
    ASSUME TypeOK, NEW defs, NEW s, NEW o, Registers(defs, s, o), ~displaced',
           NEW e \in tools, e.source # s
    PROVE  e \in tools'
<1> DEFINE new == Accepted(tools, toolPolicy, defs)
<1>1. Admitted(tools, toolPolicy, defs, s, o, new)
  BY AcceptedBatch DEF Registers, TypeOK
<1>2. /\ tools' = Stored(tools, new)
      /\ \A f \in Displaced(tools, new), d \in new : f.name = d.name => f.source = d.source
  BY DEF Registers, RegisterTools
<1> HIDE DEF new
<1>3. \A d \in new : d.name # e.name
  BY <1>1, <1>2 DEF Admitted, Displaced, NamesIn
<1> QED
  BY <1>2, <1>3 DEF Stored, Displaced, NamesIn

\* What a load registers under 'namespace' is there afterwards.
LEMMA LoadIsPresent ==
    ASSUME TypeOK, toolPolicy = "namespace", NEW l \in Loads,
           Registers(ToolDefs(l), RemoteOf[l], l), NEW d \in ToolDefs(l)
    PROVE  Present(tools', l, d)
<1> DEFINE new == Accepted(tools, toolPolicy, ToolDefs(l))
           named == [d EXCEPT !.name = Qualified(d.source, d.name.base)]
<1>1. tools' = Stored(tools, new)
  BY DEF Registers, RegisterTools
<1>2. PICK e \in new : e = d \/ e = named
  BY NamespaceStores
<1>3. d \in Entries /\ d.owner = l
  BY LoadBatches DEF Batch
<1>4. named.owner = l /\ named.name.base = d.name.base
  BY <1>3 DEF Entries, Qualified
<1> HIDE DEF new, named
<1>5. e.owner = l /\ e.name.base = d.name.base
  BY <1>2, <1>3, <1>4
<1> QED
  BY <1>1, <1>2, <1>5 DEF Stored, Present

\* A step that keeps every tool of the loads which stay applied keeps namesakes.
LEMMA KeptTogether ==
    ASSUME IInv, NamesakesCoexist,
           toolPolicy' = toolPolicy,
           ~overlapped' => ~overlapped,
           ~displaced' => ~displaced,
           ~repeated' => ~repeated,
           \A m \in Loads : status'[m] = "applied" /\ status[m] # "applied" =>
               (toolPolicy = "namespace" =>
                   \A d \in ToolDefs(m) : Present(tools', m, d)),
           toolPolicy = "namespace" /\ ~overlapped' /\ ~displaced' /\ ~repeated' =>
               \A m \in Loads : status'[m] = "applied" /\ status[m] = "applied" =>
                   \A e \in tools : e.owner = m => e \in tools'
    PROVE  NamesakesCoexist'
<1> SUFFICES ASSUME toolPolicy = "namespace", ~overlapped', ~displaced', ~repeated',
                    NEW m \in Loads, status'[m] = "applied", NEW d \in ToolDefs(m)
             PROVE  Present(tools', m, d)
  BY DEF NamesakesCoexist, Present, ToolDefs, Def
<1>1. CASE status[m] # "applied"
  BY <1>1
<1>2. CASE status[m] = "applied"
  <2>1. PICK e \in tools : e.owner = m /\ e.name.base = d.name.base
    BY <1>2 DEF NamesakesCoexist
  <2>2. e \in tools'
    BY <1>2, <2>1
  <2> QED
    BY <2>1, <2>2 DEF Present
<1> QED
  BY <1>1, <1>2

\* The entries of a load of another remote stay when one arrives.
LEMMA ArrivalLeavesOthers ==
    ASSUME IInv, NEW l \in Loads, NEW defs, Registers(defs, RemoteOf[l], l),
           overlapped' = (overlapped \/ Live(RemoteOf[l])),
           ~overlapped', ~displaced', NEW m \in Loads, status[m] = "applied",
           NEW e \in tools, e.owner = m
    PROVE  e \in tools'
<1>1. RemoteOf[m] # RemoteOf[l]
  BY DEF Live
<1>2. e.source = RemoteOf[m]
  BY DEF IInv, Stamped
<1> QED
  BY <1>1, <1>2, OthersStay DEF IInv

LEMMA NextCoexist == IInv /\ NamesakesCoexist /\ [Next]_vars => NamesakesCoexist'
<1> SUFFICES ASSUME IInv, NamesakesCoexist, [Next]_vars PROVE NamesakesCoexist'
  OBVIOUS
<1>1. ASSUME NEW l \in Loads, Apply(l) PROVE NamesakesCoexist'
  <2>1. Registers(ToolDefs(l), RemoteOf[l], l)
    BY <1>1, LoadBatches DEF Apply, Registers
  <2>2. /\ toolPolicy' = toolPolicy
        /\ overlapped' = (overlapped \/ Live(RemoteOf[l]))
        /\ ~displaced' => ~displaced
        /\ repeated' = repeated
        /\ \A m \in Loads : status'[m] = "applied" /\ status[m] # "applied" => m = l
    BY <1>1 DEF Apply, RegisterTools, IInv, TypeOK
  <2>3. toolPolicy = "namespace" => \A d \in ToolDefs(l) : Present(tools', l, d)
    BY <2>1, LoadIsPresent DEF IInv
  <2>4. ~overlapped' /\ ~displaced' =>
            \A m \in Loads : status[m] = "applied" =>
                \A e \in tools : e.owner = m => e \in tools'
    BY <2>1, <2>2, ArrivalLeavesOthers
  <2> QED
    BY <2>2, <2>3, <2>4, KeptTogether
<1>2. ASSUME NEW l \in Loads, ApplyThrows(l) PROVE NamesakesCoexist'
  <2>1. Registers(Before(l), RemoteOf[l], l)
    BY <1>2, LoadBatches DEF ApplyThrows, Registers
  <2>2. /\ toolPolicy' = toolPolicy
        /\ overlapped' = (overlapped \/ Live(RemoteOf[l]))
        /\ ~displaced' => ~displaced
        /\ repeated' = repeated
        /\ \A m \in Loads : status'[m] = "applied" => status[m] = "applied"
    BY <1>2 DEF ApplyThrows, RegisterTools, IInv, TypeOK
  <2>3. ~overlapped' /\ ~displaced' =>
            \A m \in Loads : status[m] = "applied" =>
                \A e \in tools : e.owner = m => e \in tools'
    BY <2>1, <2>2, ArrivalLeavesOthers
  <2> QED
    BY <2>2, <2>3, KeptTogether
<1>3. ASSUME NEW l \in Loads, Dispose(l) PROVE NamesakesCoexist'
  <2>1. /\ toolPolicy' = toolPolicy /\ overlapped' = overlapped /\ displaced' = displaced
        /\ repeated => repeated'
        /\ \A m \in Loads : status'[m] = "applied" => m # l /\ status[m] = "applied"
    BY <1>3 DEF Dispose, IInv, TypeOK
  <2>2. ASSUME ~overlapped, ~displaced, ~repeated', NEW m \in Loads, m # l, status[m] = "applied",
               NEW e \in tools, e.owner = m
        PROVE  e \in tools'
    <3>1. CASE status[l] = "applied"
      <4>1. e.source = RemoteOf[m] /\ RemoteOf[m] # RemoteOf[l]
        BY <2>2, <3>1 DEF IInv, Stamped, Apart
      <4>2. Quiet
        BY <2>1, <2>2 DEF Quiet, Undisplaced
      <4> QED
        BY <1>3, <3>1, <4>1, <4>2, DisposeTakesItsOwn
    <3>2. CASE status[l] # "applied"
      BY <1>3, <2>2, <3>2, DisposedAgain
    <3> QED
      BY <3>1, <3>2
  <2> QED
    BY <2>1, <2>2, KeptTogether
<1>4. ASSUME NEW n \in HostTools, HostRegister(n) PROVE NamesakesCoexist'
  <2>1. Registers({HostDef(n)}, "host", "host")
    BY <1>4, HostBatch DEF HostRegister, Registers
  <2>2. /\ toolPolicy' = toolPolicy /\ overlapped' = overlapped /\ status' = status
        /\ ~displaced' => ~displaced
        /\ repeated' = repeated
    BY <1>4 DEF HostRegister, RegisterTools
  <2>3. ASSUME ~displaced', NEW m \in Loads, NEW e \in tools, e.owner = m
        PROVE  e \in tools'
    <3>1. e.source # "host"
      BY <2>3, RemotesAssumption DEF IInv, Stamped, RemotesAssumption
    <3> QED
      BY <2>1, <2>3, <3>1, OthersStay DEF IInv
  <2> QED
    BY <2>2, <2>3, KeptTogether
<1>5. ASSUME NEW n \in HostTools, HostDispose(n) PROVE NamesakesCoexist'
  <2>1. /\ toolPolicy' = toolPolicy /\ overlapped' = overlapped /\ status' = status
        /\ displaced' = displaced
        /\ repeated => repeated'
    BY <1>5 DEF HostDispose
  <2>2. ASSUME ~overlapped, ~displaced, ~repeated', NEW m \in Loads, NEW e \in tools, e.owner = m
        PROVE  e \in tools'
    <3>1. e.source # "host"
      BY <2>2, RemotesAssumption DEF IInv, Stamped, RemotesAssumption
    <3>2. Quiet
      BY <2>1, <2>2 DEF Quiet, Undisplaced
    <3>3. CASE n \notin hostSpent
      BY <1>5, <3>1, <3>2, <3>3, HostTakesItsOwn
    <3>4. CASE n \in hostSpent
      BY <1>5, <2>2, <3>4, HostDisposedAgain
    <3> QED
      BY <3>3, <3>4
  <2> QED
    BY <2>1, <2>2, KeptTogether
<1>6. CASE UNCHANGED <<tools, toolPolicy, overlapped, displaced, repeated>>
           /\ \A m \in Loads : status'[m] = "applied" => status[m] = "applied"
  BY <1>6, KeptTogether
<1>7. ASSUME NEW l \in Loads, LoadFails(l) PROVE NamesakesCoexist'
  BY <1>6, <1>7 DEF LoadFails, history, IInv, TypeOK
<1>8. CASE (\E r \in Remotes : Prefetch(r)) \/ UNCHANGED vars
  BY <1>6, <1>8 DEF Prefetch, vars, loads, history
<1> QED
  BY <1>1, <1>2, <1>3, <1>4, <1>5, <1>7, <1>8 DEF Next, Host, Federation

\* Under 'namespace' every tool of every remote loaded is in the registry, under
\* the one name or the other, in whatever order remotes come and go, as long as
\* no two loads of a remote overlap, no tool displaces one of another source and
\* no disposer called again finds something to remove.
THEOREM Coexist == Spec => []NamesakesCoexist
<1>1. Init => NamesakesCoexist
  BY DEF Init, NamesakesCoexist
<1> QED
  BY <1>1, SpecInv, NextCoexist, PTL DEF Spec
=============================================================================
