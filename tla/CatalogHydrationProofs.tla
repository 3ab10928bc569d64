----------------------- MODULE CatalogHydrationProofs -----------------------
(***************************************************************************)
(* Proofs about CatalogHydration, for every set of kinds and every number  *)
(* of edits and faults.                                                    *)
(*                                                                         *)
(* That a quiet app is current follows an edit on its way: an edit that    *)
(* does not show yet is in a frame, in a lookup, in a GET that is still to *)
(* be read, or in an answer (OnItsWay), or its kind is spoiled.  That no   *)
(* form is compiled before its rules follows the boot (RulesFirst).        *)
(***************************************************************************)
EXTENDS CatalogHydration, TLAPS

\* Nothing is sent before the app is live.
SilentBoot == boot # "live" => stream = "closed" /\ frames = <<>> /\ \A k \in Kinds : lookups[k] = 0

\* The service tells the kind of an experience, so it needs no lookup.
ToldOf ==
    /\ \A i \in DOMAIN frames : frames[i].kind = "experience" => frames[i].event = "told"
    /\ "experience" \in Kinds => lookups["experience"] = 0

\* A kind has no more edits than there were.
Edited == \A k \in Kinds : catalog[k] <= edits

\* No answer is newer than the catalog.
NotAhead == \A k \in Kinds : \A v \in Versions : answers[k][v] > 0 => v <= catalog[k]

\* The catalog's rows of kind k are shown, or will be.
OnItsWay(k) ==
    \/ content[k] = catalog[k]
    \/ ToBeRead(k)
    \/ answers[k][catalog[k]] > 0
    \/ \E i \in DOMAIN frames : frames[i].kind = k
    \/ lookups[k] > 0

Followed == \A k \in Kinds : spoiled[k] \/ OnItsWay(k)

\* Forms are asked for in the second round, after the rules came or failed.
RulesFirst ==
    /\ boot = "first" => content["form"] = None /\ ~Awaited("form")
    /\ content["validation"] \notin Versions /\ ~spoiled["validation"] =>
           boot = "first" /\ Awaited("validation")

HInv ==
    /\ TypeOK
    /\ SilentBoot
    /\ ToldOf
    /\ Edited
    /\ NotAhead
    /\ Followed
    /\ RulesFirst
    /\ FormsHaveRules

----------------------------------------------------------------------------
(* Types.                                                                  *)

Event == [kind : Kinds, event : {"told", "bare", "delete"}]

\* The frames that are left when the first is taken are frames that were there.
LEMMA TailOf ==
    ASSUME NEW S, NEW q \in Seq(S), q # <<>>
    PROVE  /\ Head(q) \in S /\ Tail(q) \in Seq(S)
           /\ Head(q) = q[1] /\ 1 \in DOMAIN q
           /\ \A i \in DOMAIN Tail(q) : i + 1 \in DOMAIN q /\ Tail(q)[i] = q[i + 1]
           /\ \A i \in DOMAIN q : i # 1 => i - 1 \in DOMAIN Tail(q) /\ Tail(q)[i - 1] = q[i]
OBVIOUS

LEMMA AppendTo ==
    ASSUME NEW S, NEW q \in Seq(S), NEW x \in S
    PROVE  /\ Append(q, x) \in Seq(S)
           /\ \A i \in DOMAIN q : i \in DOMAIN Append(q, x) /\ Append(q, x)[i] = q[i]
           /\ \A i \in DOMAIN Append(q, x) : i \in DOMAIN q \/ Append(q, x)[i] = x
           /\ \E i \in DOMAIN Append(q, x) : Append(q, x)[i] = x
<1>1. Len(q) + 1 \in DOMAIN Append(q, x) /\ Append(q, x)[Len(q) + 1] = x
  OBVIOUS
<1>2. \A i \in DOMAIN Append(q, x) : i \in DOMAIN q \/ i = Len(q) + 1
  OBVIOUS
<1> QED
  BY <1>1, <1>2

\* Updates of the counters: of GETs and lookups, and of answers.
LEMMA Counter ==
    ASSUME NEW S, NEW f \in [S -> Nat], NEW x \in S, NEW n \in Nat
    PROVE  [f EXCEPT ![x] = n] \in [S -> Nat]
OBVIOUS

LEMMA Answer ==
    ASSUME NEW a \in [Kinds -> [Versions -> Nat]], NEW k \in Kinds, NEW v \in Versions, NEW n \in Nat
    PROVE  LET b == [a EXCEPT ![k][v] = n] IN
           /\ b \in [Kinds -> [Versions -> Nat]]
           /\ b[k][v] = n
           /\ \A l \in Kinds, w \in Versions : l # k \/ w # v => b[l][w] = a[l][w]
<1> DEFINE row == [a[k] EXCEPT ![v] = n]
<1>1. row \in [Versions -> Nat] /\ row[v] = n /\ \A w \in Versions : w # v => row[w] = a[k][w]
  OBVIOUS
<1>2. [a EXCEPT ![k][v] = n] = [a EXCEPT ![k] = row]
  OBVIOUS
<1> HIDE DEF row
<1> QED
  BY <1>1, <1>2

LEMMA TypesInit == Init => TypeOK /\ Edited
BY HydrationAssumption DEF HydrationAssumption, Init, TypeOK, Edited, Versions

\* fanOut only adds GETs.
LEMMA FanOutAdds ==
    ASSUME TypeOK, NEW sources, NEW n \in Nat, FanOut(sources, n)
    PROVE  /\ asked' \in [Kinds -> Nat]
           /\ \A k \in Kinds : asked'[k] >= asked[k]
           /\ n > 0 => \A k \in Kinds \cap sources : asked'[k] > 0
BY DEF FanOut, TypeOK

LEMMA TypesStep ==
    ASSUME TypeOK, Edited, [Next]_vars
    PROVE  TypeOK' /\ Edited'
<1>0. MaxEdits \in Nat /\ MaxFaults \in Nat
  BY HydrationAssumption DEF HydrationAssumption
<1>f. ASSUME Fault PROVE faults' \in 0 .. MaxFaults
  BY <1>0, <1>f DEF Fault, TypeOK
<1>1. ASSUME NEW k \in Kinds, Edit(k) PROVE TypeOK' /\ Edited'
  <2>1. edits' \in 0 .. MaxEdits /\ edits' = edits + 1
    BY <1>0, <1>1 DEF Edit, TypeOK
  <2>2. catalog' = [catalog EXCEPT ![k] = @ + 1] /\ catalog[k] <= edits
    BY <1>1 DEF Edit, Edited
  <2>3. catalog' \in [Kinds -> Versions] /\ Edited'
    <3>1. catalog[k] + 1 \in Versions /\ catalog \in [Kinds -> Versions]
      BY <1>0, <2>1, <2>2 DEF TypeOK, Versions
    <3>2. catalog' \in [Kinds -> Versions]
      BY <2>2, <3>1
    <3>3. \A l \in Kinds : catalog[l] \in Nat /\ edits \in Nat
      BY <1>0 DEF TypeOK, Versions
    <3> QED
      BY <2>1, <2>2, <3>2, <3>3 DEF TypeOK, Edited
  <2>4. frames' \in Seq(Event)
    <3>1. frames' = frames \/ \E e \in {"told", "bare", "delete"} :
              frames' = Append(frames, [kind |-> k, event |-> e])
      BY <1>1 DEF Edit
    <3> QED
      <4>1. \A e \in {"told", "bare", "delete"} : [kind |-> k, event |-> e] \in Event
        BY DEF Event
      <4>2. frames \in Seq(Event)
        BY DEF Event, TypeOK
      <4>3. ASSUME NEW e \in {"told", "bare", "delete"}
            PROVE  Append(frames, [kind |-> k, event |-> e]) \in Seq(Event)
        BY <4>1, <4>2, AppendTo
      <4> QED
        BY <3>1, <4>2, <4>3
  <2>5. spoiled' \in [Kinds -> BOOLEAN]
    <3>1. spoiled' = spoiled \/ spoiled' = [spoiled EXCEPT ![k] = @ \/ ~ToBeRead(k)]
      BY <1>1 DEF Edit
    <3>2. (spoiled[k] \/ ~ToBeRead(k)) \in BOOLEAN
      OBVIOUS
    <3> QED
      BY <3>1, <3>2 DEF TypeOK
  <2>6. faults' \in 0 .. MaxFaults
    BY <1>1, <1>f DEF Edit, TypeOK
  <2>7. UNCHANGED <<asked, answers, app, stream, lookups>>
    BY <1>1 DEF Edit
  <2> QED
    BY <2>1, <2>3, <2>4, <2>5, <2>6, <2>7 DEF TypeOK, Event, app
<1>2. ASSUME NEW k \in Kinds, Read(k) PROVE TypeOK' /\ Edited'
  <2>1. asked' \in [Kinds -> Nat]
    BY <1>2 DEF Read, TypeOK
  <2>2. answers' \in [Kinds -> [Versions -> Nat]]
    BY <1>2, Answer DEF Read, TypeOK
  <2> QED
    BY <1>2, <2>1, <2>2 DEF Read, TypeOK, Edited, app
<1>3. ASSUME NEW k \in Kinds, NEW v \in Versions, Hydrated(k, v) \/ HydrateThrows(k, v)
      PROVE  TypeOK' /\ Edited'
  <2>0. PICK filled \in Versions \cup {Partial} : Fill(k, v, filled)
    BY <1>3 DEF Hydrated, HydrateThrows
  <2>1. answers' \in [Kinds -> [Versions -> Nat]]
    <3>1. answers[k][v] \in Nat /\ answers[k][v] > 0
      BY <2>0 DEF Fill, TypeOK
    <3>2. answers[k][v] - 1 \in Nat
      BY <3>1
    <3> QED
      BY <2>0, <3>2, Answer DEF Fill, TypeOK
  <2>2. content' \in [Kinds -> Versions \cup {None, Partial}]
    BY <2>0 DEF Fill, TypeOK
  <2>3. spoiled' \in [Kinds -> BOOLEAN] /\ faults' \in 0 .. MaxFaults
    BY <1>3, <1>f DEF Hydrated, HydrateThrows, TypeOK
  <2>4. rules' \in Versions \cup {None, Partial}
    BY <2>0, HydrationAssumption DEF Fill, TypeOK, HydrationAssumption
  <2> QED
    BY <2>0, <2>1, <2>2, <2>3, <2>4 DEF Fill, TypeOK, Edited
<1>4. ASSUME NEW k \in Kinds, HydrateFails(k) PROVE TypeOK' /\ Edited'
  <2>1. asked' \in [Kinds -> Nat]
    <3>1. CASE asked[k] > 0 /\ asked' = [asked EXCEPT ![k] = @ - 1]
      <4>1. asked[k] - 1 \in Nat /\ asked \in [Kinds -> Nat]
        BY <3>1 DEF TypeOK
      <4> QED
        BY <3>1, <4>1, Counter
    <3> QED
      BY <1>4, <3>1 DEF HydrateFails, TypeOK
  <2>2. answers' \in [Kinds -> [Versions -> Nat]]
    <3>1. ASSUME NEW v \in Versions, answers[k][v] > 0, answers' = [answers EXCEPT ![k][v] = @ - 1]
          PROVE  answers' \in [Kinds -> [Versions -> Nat]]
      <4>1. answers[k][v] - 1 \in Nat /\ answers \in [Kinds -> [Versions -> Nat]]
        BY <3>1 DEF TypeOK
      <4> QED
        BY <3>1, <4>1, Answer
    <3> QED
      BY <1>4, <3>1 DEF HydrateFails, TypeOK
  <2>3. spoiled' \in [Kinds -> BOOLEAN] /\ faults' \in 0 .. MaxFaults
    BY <1>4, <1>f DEF HydrateFails, TypeOK
  <2> QED
    BY <1>4, <2>1, <2>2, <2>3 DEF HydrateFails, TypeOK, Edited, app
<1>5. ASSUME NEW k \in Kinds, LookedUp(k) PROVE TypeOK' /\ Edited'
  <2>1. PICK n \in 1 .. lookups[k] :
            /\ lookups' = [lookups EXCEPT ![k] = @ - n]
            /\ FanOut(Source(k), n) \/ FanOut(Capabilities, n)
    BY <1>5 DEF LookedUp
  <2>2. lookups' \in [Kinds -> Nat] /\ n \in Nat
    BY <2>1 DEF TypeOK
  <2>3. asked' \in [Kinds -> Nat]
    BY <2>1, <2>2, FanOutAdds
  <2> QED
    BY <1>5, <2>2, <2>3 DEF LookedUp, TypeOK, Edited, app
<1>6. CASE Boot
  <2>1. asked' \in [Kinds -> Nat]
    <3>1. CASE BootRest
      BY <3>1 DEF BootRest, TypeOK
    <3>2. CASE BootLive
      BY <3>2 DEF BootLive, TypeOK
    <3> QED
      BY <1>6, <3>1, <3>2 DEF Boot
  <2> QED
    BY <1>6, <2>1 DEF Boot, BootRest, BootLive, TypeOK, Edited
<1>7. CASE Connected
  BY <1>7 DEF Connected, TypeOK, Edited, app
<1>8. CASE Dropped
  <2>1. faults' \in 0 .. MaxFaults /\ frames' \in Seq(Event)
    BY <1>8, <1>f DEF Dropped
  <2>2. spoiled' \in [Kinds -> BOOLEAN]
    <3>1. \A k \in Kinds : (spoiled[k] \/ \E i \in DOMAIN frames : frames[i].kind = k) \in BOOLEAN
      OBVIOUS
    <3> QED
      BY <1>8, <3>1 DEF Dropped
  <2> QED
    BY <1>8, <2>1, <2>2 DEF Dropped, TypeOK, Event, Edited, app
<1>9. CASE Frame
  <2>1. frames \in Seq(Event) /\ frames # <<>> /\ frames' = Tail(frames)
    BY <1>9 DEF Frame, TypeOK, Event
  <2>2. frames' \in Seq(Event) /\ Head(frames) \in Event
    BY <2>1, TailOf
  <2>3. asked' \in [Kinds -> Nat]
    BY <1>9, FanOutAdds DEF Frame, TypeOK
  <2>4. lookups' \in [Kinds -> Nat]
    <3> DEFINE h == Head(frames).kind
    <3>1. h \in Kinds
      BY <2>2 DEF Event
    <3>2. lookups' = lookups \/ lookups' = [lookups EXCEPT ![h] = @ + 1]
      BY <1>9 DEF Frame
    <3>3. lookups \in [Kinds -> Nat]
      BY DEF TypeOK
    <3> HIDE DEF h
    <3>4. lookups[h] + 1 \in Nat
      BY <3>1, <3>3
    <3> QED
      BY <3>1, <3>2, <3>3, <3>4, Counter
  <2> QED
    BY <1>9, <2>2, <2>3, <2>4 DEF Frame, TypeOK, Event, Edited, app
<1>10. CASE UNCHANGED vars
  BY <1>10 DEF vars, app, TypeOK, Edited
<1> QED
  BY <1>1, <1>2, <1>3, <1>4, <1>5, <1>6, <1>7, <1>8, <1>9, <1>10 DEF Next, Answered

----------------------------------------------------------------------------
(* What is on its way.                                                     *)

LEMMA SilentStep ==
    ASSUME TypeOK, SilentBoot, [Next]_vars
    PROVE  SilentBoot'
<1>1. ASSUME NEW k \in Kinds,
             \/ Edit(k) \/ Read(k) \/ Answered(k) \/ HydrateFails(k)
             \/ \E v \in Versions : HydrateThrows(k, v)
      PROVE  SilentBoot'
  <2>1. UNCHANGED <<boot, stream, lookups>> /\ (frames' = frames \/ stream = "open")
    BY <1>1 DEF Edit, Read, Answered, Hydrated, HydrateThrows, Fill, HydrateFails, app
  <2> QED
    BY <2>1 DEF SilentBoot
<1>2. ASSUME NEW k \in Kinds, LookedUp(k) PROVE SilentBoot'
  <2>1. UNCHANGED <<boot, stream, frames>> /\ \E n \in 1 .. lookups[k] : TRUE
    BY <1>2 DEF LookedUp, app
  <2>2. lookups[k] # 0
    BY <2>1
  <2> QED
    BY <2>1, <2>2 DEF SilentBoot
<1>3. CASE Boot \/ Connected \/ Dropped \/ Frame \/ UNCHANGED vars
  BY <1>3 DEF Boot, BootRest, BootLive, Connected, Dropped, Frame, vars, app, SilentBoot
<1> QED
  BY <1>1, <1>2, <1>3 DEF Next

\* What an edit makes of the frames: nothing, or one more of its kind.
LEMMA EditTells ==
    ASSUME TypeOK, NEW k \in Kinds, Edit(k)
    PROVE  \/ frames' = frames /\ (spoiled'[k] \/ ToBeRead(k))
           \/ \E e \in {"told", "bare", "delete"} :
                 /\ k = "experience" => e = "told"
                 /\ frames' = Append(frames, [kind |-> k, event |-> e])
BY DEF Edit, TypeOK

LEMMA ToldStep ==
    ASSUME TypeOK, ToldOf, [Next]_vars
    PROVE  ToldOf'
<1>1. ASSUME NEW k \in Kinds, Edit(k) PROVE ToldOf'
  <2>1. lookups' = lookups /\ frames \in Seq(Event)
    BY <1>1 DEF Edit, TypeOK, Event
  <2>2. CASE frames' = frames
    BY <2>1, <2>2 DEF ToldOf
  <2>3. ASSUME NEW e \in {"told", "bare", "delete"}, k = "experience" => e = "told",
               frames' = Append(frames, [kind |-> k, event |-> e])
        PROVE  ToldOf'
    <3> DEFINE x == [kind |-> k, event |-> e]
    <3>1. x \in Event /\ x.kind = k /\ x.event = e
      BY DEF Event
    <3> HIDE DEF x
    <3>2. \A i \in DOMAIN frames' : (i \in DOMAIN frames /\ frames'[i] = frames[i]) \/ frames'[i] = x
      BY <2>1, <2>3, <3>1, AppendTo DEF x
    <3>3. \A i \in DOMAIN frames' : frames'[i].kind = "experience" => frames'[i].event = "told"
      BY <2>3, <3>1, <3>2 DEF ToldOf
    <3> QED
      BY <2>1, <3>3 DEF ToldOf
  <2> QED
    BY <1>1, <2>2, <2>3, EditTells
<1>2. ASSUME NEW k \in Kinds, LookedUp(k) PROVE ToldOf'
  <2>1. PICK n \in 1 .. lookups[k] : lookups' = [lookups EXCEPT ![k] = @ - n]
    BY <1>2 DEF LookedUp
  <2>2. lookups[k] # 0 /\ UNCHANGED frames
    BY <1>2, <2>1 DEF LookedUp
  <2>3. k # "experience"
    BY <2>2 DEF ToldOf
  <2> QED
    BY <2>1, <2>2, <2>3 DEF ToldOf, TypeOK
<1>3. CASE Frame
  <2> DEFINE f == Head(frames)
  <2>1. frames \in Seq(Event) /\ frames # <<>> /\ frames' = Tail(frames)
    BY <1>3 DEF Frame, TypeOK, Event
  <2>2. /\ f \in Event /\ f = frames[1] /\ 1 \in DOMAIN frames
        /\ \A i \in DOMAIN frames' : i + 1 \in DOMAIN frames /\ frames'[i] = frames[i + 1]
    BY <2>1, TailOf
  <2>3. lookups' = lookups \/ (f.event = "bare" /\ lookups' = [lookups EXCEPT ![f.kind] = @ + 1])
    BY <1>3 DEF Frame
  <2> HIDE DEF f
  <2>4. f.event = "bare" => f.kind # "experience"
    BY <2>2 DEF ToldOf
  <2>5. "experience" \in Kinds => lookups'["experience"] = 0
    BY <2>3, <2>4 DEF ToldOf, TypeOK
  <2>6. \A i \in DOMAIN frames' : frames'[i].kind = "experience" => frames'[i].event = "told"
    BY <2>2 DEF ToldOf
  <2> QED
    BY <2>5, <2>6 DEF ToldOf
<1>4. CASE Dropped
  BY <1>4 DEF Dropped, ToldOf
<1>5. CASE UNCHANGED <<frames, lookups>>
  BY <1>5 DEF ToldOf
<1> QED
  BY <1>1, <1>2, <1>3, <1>4, <1>5
     DEF Next, Read, Answered, Hydrated, HydrateThrows, Fill, HydrateFails, Boot, BootRest,
         BootLive, Connected, vars

\* A source listens to the events of its kind, and those of an unknown kind reach
\* all sources but the experiences'.
LEMMA Addressed ==
    ASSUME NEW k \in Kinds
    PROVE  k \in Source(k) /\ (k # "experience" => k \in Capabilities)
BY DEF Source, Capabilities

\* A step that loses nothing of kind k, on the way or shown.
LEMMA StillOnItsWay ==
    ASSUME NEW k \in Kinds, OnItsWay(k),
           catalog'[k] = catalog[k], content'[k] = content[k],
           ToBeRead(k) => ToBeRead(k)',
           answers'[k] = answers[k],
           (\E i \in DOMAIN frames : frames[i].kind = k) =>
               ToBeRead(k)' \/ lookups'[k] > 0 \/ \E i \in DOMAIN frames' : frames'[i].kind = k,
           lookups[k] > 0 => ToBeRead(k)' \/ lookups'[k] > 0
    PROVE  OnItsWay(k)'
BY DEF OnItsWay

LEMMA FollowedEdit ==
    ASSUME TypeOK, NEW k \in Kinds, Edit(k), NEW l \in Kinds, spoiled[l] \/ OnItsWay(l)
    PROVE  spoiled'[l] \/ OnItsWay(l)'
<1>1. /\ catalog' = [catalog EXCEPT ![k] = @ + 1]
      /\ UNCHANGED <<asked, answers, content, boot, lookups>>
      /\ spoiled[l] => spoiled'[l]
  BY DEF Edit, app, TypeOK
<1>2. frames \in Seq(Event) /\ ToBeRead(l)' = ToBeRead(l)
  BY <1>1 DEF TypeOK, Event, ToBeRead
<1>3. CASE frames' = frames /\ (spoiled'[k] \/ ToBeRead(k))
  <2>1. CASE l = k
    BY <1>2, <1>3, <2>1 DEF OnItsWay
  <2>2. CASE l # k
    BY <1>1, <1>2, <1>3, <2>2, StillOnItsWay DEF TypeOK
  <2> QED
    BY <2>1, <2>2
<1>4. ASSUME NEW e \in {"told", "bare", "delete"}, frames' = Append(frames, [kind |-> k, event |-> e])
      PROVE  spoiled'[l] \/ OnItsWay(l)'
  <2> DEFINE x == [kind |-> k, event |-> e]
  <2>1. x \in Event /\ x.kind = k
    BY DEF Event
  <2> HIDE DEF x
  <2>2. /\ \A i \in DOMAIN frames : i \in DOMAIN frames' /\ frames'[i] = frames[i]
        /\ \E i \in DOMAIN frames' : frames'[i] = x
    BY <1>2, <1>4, <2>1, AppendTo DEF x
  <2>3. CASE l = k
    BY <2>1, <2>2, <2>3 DEF OnItsWay
  <2>4. CASE l # k
    <3>1. (\E i \in DOMAIN frames : frames[i].kind = l) => \E i \in DOMAIN frames' : frames'[i].kind = l
      BY <2>2
    <3> QED
      BY <1>1, <1>2, <2>4, <3>1, StillOnItsWay DEF TypeOK
  <2> QED
    BY <2>3, <2>4
<1> QED
  BY <1>3, <1>4, EditTells

LEMMA FollowedRead ==
    ASSUME TypeOK, NEW k \in Kinds, Read(k), NEW l \in Kinds, spoiled[l] \/ OnItsWay(l)
    PROVE  spoiled'[l] \/ OnItsWay(l)'
<1>1. /\ asked' = [asked EXCEPT ![k] = @ - 1]
      /\ answers' = [answers EXCEPT ![k][catalog[k]] = @ + 1]
      /\ UNCHANGED <<catalog, content, boot, frames, lookups, spoiled>>
  BY DEF Read, app
<1>2. answers \in [Kinds -> [Versions -> Nat]] /\ catalog[k] \in Versions /\ asked \in [Kinds -> Nat]
  BY DEF TypeOK
<1>3. answers[k][catalog[k]] \in Nat /\ answers[k][catalog[k]] + 1 \in Nat
  BY <1>2
<1>4. answers'[k][catalog[k]] = answers[k][catalog[k]] + 1
  BY <1>1, <1>2, <1>3, Answer
<1>5. CASE l = k
  BY <1>1, <1>3, <1>4, <1>5 DEF OnItsWay
<1>6. CASE l # k
  <2>1. answers'[l] = answers[l] /\ asked'[l] = asked[l]
    BY <1>1, <1>2, <1>6
  <2>2. ToBeRead(l) => ToBeRead(l)'
    BY <1>1, <2>1 DEF ToBeRead
  <2> QED
    BY <1>1, <2>1, <2>2, StillOnItsWay
<1> QED
  BY <1>5, <1>6

\* An answer of the current version shows it; an older one that takes its place
\* spoils the kind.
LEMMA FollowedHydrated ==
    ASSUME TypeOK, NEW k \in Kinds, NEW v \in Versions, Hydrated(k, v),
           NEW l \in Kinds, spoiled[l] \/ OnItsWay(l), catalog[k] # v => v < catalog[k]
    PROVE  spoiled'[l] \/ OnItsWay(l)'
<1>1. /\ answers' = [answers EXCEPT ![k][v] = @ - 1]
      /\ content' = [content EXCEPT ![k] = v]
      /\ spoiled' = [spoiled EXCEPT ![k] = @ \/ (content[k] \in Versions /\ v < content[k])]
      /\ UNCHANGED <<catalog, asked, boot, frames, lookups>>
  BY DEF Hydrated, Fill
<1>2. /\ answers \in [Kinds -> [Versions -> Nat]] /\ catalog[k] \in Versions
      /\ answers[k][v] - 1 \in Nat
      /\ spoiled \in [Kinds -> BOOLEAN] /\ content \in [Kinds -> Versions \cup {None, Partial}]
  <2>1. answers[k][v] \in Nat /\ answers[k][v] > 0
    BY DEF Hydrated, Fill, TypeOK
  <2> QED
    BY <2>1 DEF TypeOK
<1>3. ToBeRead(l)' = ToBeRead(l)
  BY <1>1 DEF ToBeRead
<1>4. CASE l = k /\ v = catalog[k]
  BY <1>1, <1>2, <1>4 DEF OnItsWay
<1>5. CASE l = k /\ v # catalog[k]
  <2>1. answers'[k][catalog[k]] = answers[k][catalog[k]]
    BY <1>1, <1>2, <1>5, Answer
  <2>2. spoiled[k] => spoiled'[k]
    BY <1>1, <1>2
  <2>3. content[k] = catalog[k] => spoiled'[k]
    <3>1. catalog[k] \in Versions /\ v < catalog[k]
      BY <1>2, <1>5
    <3> QED
      BY <1>1, <1>2, <3>1
  <2> QED
    BY <1>1, <1>3, <1>5, <2>1, <2>2, <2>3 DEF OnItsWay
<1>6. CASE l # k
  <2>1. answers'[l] = answers[l] /\ content'[l] = content[l] /\ spoiled'[l] = spoiled[l]
    BY <1>1, <1>2, <1>6
  <2> QED
    BY <1>1, <1>3, <2>1, StillOnItsWay
<1> QED
  BY <1>4, <1>5, <1>6

LEMMA FollowedFails ==
    ASSUME TypeOK, NEW k \in Kinds, HydrateFails(k) \/ \E v \in Versions : HydrateThrows(k, v),
           NEW l \in Kinds, spoiled[l] \/ OnItsWay(l)
    PROVE  spoiled'[l] \/ OnItsWay(l)'
<1>1. /\ spoiled' = [spoiled EXCEPT ![k] = TRUE]
      /\ UNCHANGED <<catalog, boot, frames, lookups>>
  BY DEF HydrateFails, HydrateThrows, Fill, app
<1>2. CASE l = k
  BY <1>1, <1>2 DEF TypeOK
<1>3. CASE l # k
  <2>1. /\ answers'[l] = answers[l] /\ asked'[l] = asked[l] /\ spoiled'[l] = spoiled[l]
        /\ content'[l] = content[l]
    BY <1>3 DEF HydrateFails, HydrateThrows, Fill, app, TypeOK
  <2>2. ToBeRead(l) => ToBeRead(l)'
    BY <1>1, <2>1 DEF ToBeRead
  <2> QED
    BY <1>1, <2>1, <2>2, StillOnItsWay
<1> QED
  BY <1>2, <1>3

LEMMA FollowedLookedUp ==
    ASSUME TypeOK, ToldOf, NEW k \in Kinds, LookedUp(k), NEW l \in Kinds, spoiled[l] \/ OnItsWay(l)
    PROVE  spoiled'[l] \/ OnItsWay(l)'
<1>1. PICK n \in 1 .. lookups[k] :
          /\ lookups' = [lookups EXCEPT ![k] = @ - n]
          /\ FanOut(Source(k), n) \/ FanOut(Capabilities, n)
  BY DEF LookedUp
<1>2. UNCHANGED <<catalog, answers, content, boot, frames, spoiled>>
  BY DEF LookedUp, app
<1>3. n \in Nat /\ n > 0 /\ k # "experience"
  BY <1>1 DEF ToldOf, TypeOK
<1>4. /\ asked'[l] >= asked[l] /\ asked[l] \in Nat /\ asked'[l] \in Nat
      /\ l = k => asked'[l] > 0
  BY <1>1, <1>3, FanOutAdds, Addressed DEF TypeOK
<1>5. ToBeRead(l) => ToBeRead(l)'
  BY <1>2, <1>4 DEF ToBeRead
<1>6. lookups[l] > 0 => ToBeRead(l)' \/ lookups'[l] > 0
  BY <1>1, <1>4 DEF ToBeRead, TypeOK
<1> QED
  BY <1>2, <1>5, <1>6, StillOnItsWay

LEMMA FollowedBoot ==
    ASSUME TypeOK, Boot, NEW l \in Kinds, spoiled[l] \/ OnItsWay(l)
    PROVE  spoiled'[l] \/ OnItsWay(l)'
<1>1. UNCHANGED <<catalog, answers, content, frames, lookups, spoiled>>
  BY DEF Boot, BootRest, BootLive
<1>2. ToBeRead(l) => ToBeRead(l)'
  BY HydrationAssumption DEF HydrationAssumption, Boot, BootRest, BootLive, ToBeRead, Awaited, TypeOK
<1> QED
  BY <1>1, <1>2, StillOnItsWay

LEMMA FollowedDropped ==
    ASSUME TypeOK, Dropped, NEW l \in Kinds, spoiled[l] \/ OnItsWay(l)
    PROVE  spoiled'[l] \/ OnItsWay(l)'
<1>1. /\ spoiled'[l] = (spoiled[l] \/ \E i \in DOMAIN frames : frames[i].kind = l)
      /\ UNCHANGED <<catalog, asked, answers, content, boot, lookups>>
  BY DEF Dropped, app
<1>2. ToBeRead(l)' = ToBeRead(l)
  BY <1>1 DEF ToBeRead
<1> QED
  BY <1>1, <1>2, StillOnItsWay

\* The sources a frame is for GET their rows again, or its kind is looked up.
LEMMA FollowedFrame ==
    ASSUME TypeOK, ToldOf, Frame, NEW l \in Kinds, spoiled[l] \/ OnItsWay(l)
    PROVE  spoiled'[l] \/ OnItsWay(l)'
<1> DEFINE f == Head(frames)
<1>1. frames \in Seq(Event) /\ frames # <<>> /\ frames' = Tail(frames)
  BY DEF Frame, TypeOK, Event
<1>2. /\ f \in Event /\ f = frames[1] /\ 1 \in DOMAIN frames
      /\ \A i \in DOMAIN frames : i # 1 => i - 1 \in DOMAIN frames' /\ frames'[i - 1] = frames[i]
  BY <1>1, TailOf
<1>3. /\ UNCHANGED <<catalog, answers, content, boot, spoiled>>
      /\ \/ f.event = "told" /\ FanOut(Source(f.kind), 1) /\ UNCHANGED lookups
         \/ f.event = "delete" /\ FanOut(Capabilities, 1) /\ UNCHANGED lookups
         \/ /\ f.event = "bare"
            /\ lookups' = [lookups EXCEPT ![f.kind] = @ + 1]
            /\ UNCHANGED asked
  BY DEF Frame, app
<1>4. f.kind \in Kinds /\ (f.kind = "experience" => f.event = "told")
  BY <1>2 DEF Event, ToldOf
<1> HIDE DEF f
<1>5. /\ asked'[l] >= asked[l] /\ asked[l] \in Nat /\ asked'[l] \in Nat
      /\ l = f.kind => asked'[l] > 0 \/ lookups'[l] > 0
      /\ lookups[l] > 0 => lookups'[l] > 0
  <2>1. asked[l] \in Nat /\ lookups \in [Kinds -> Nat]
    BY DEF TypeOK
  <2>2. CASE f.event = "bare"
    BY <1>3, <1>4, <2>1, <2>2
  <2>3. CASE f.event # "bare"
    BY <1>3, <1>4, <2>1, <2>3, FanOutAdds, Addressed
  <2> QED
    BY <2>2, <2>3
<1>6. ToBeRead(l) => ToBeRead(l)'
  BY <1>3, <1>5 DEF ToBeRead
<1>7. (\E i \in DOMAIN frames : frames[i].kind = l) =>
          ToBeRead(l)' \/ lookups'[l] > 0 \/ \E i \in DOMAIN frames' : frames'[i].kind = l
  <2> SUFFICES ASSUME NEW i \in DOMAIN frames, frames[i].kind = l
               PROVE  ToBeRead(l)' \/ lookups'[l] > 0 \/ \E j \in DOMAIN frames' : frames'[j].kind = l
    OBVIOUS
  <2>1. CASE i = 1
    BY <1>2, <1>5, <2>1 DEF ToBeRead
  <2>2. CASE i # 1
    BY <1>2, <2>2
  <2> QED
    BY <2>1, <2>2
<1> QED
  BY <1>3, <1>5, <1>6, <1>7, StillOnItsWay

LEMMA AheadStep ==
    ASSUME TypeOK, NotAhead, [Next]_vars
    PROVE  NotAhead'
<1>0. /\ answers \in [Kinds -> [Versions -> Nat]] /\ catalog \in [Kinds -> Versions]
      /\ \A v \in Versions : v \in Int
  BY DEF TypeOK, Versions
<1>1. ASSUME NEW k \in Kinds, Edit(k) PROVE NotAhead'
  <2>1. answers' = answers /\ \A l \in Kinds : catalog'[l] = catalog[l] \/ catalog'[l] = catalog[l] + 1
    BY <1>0, <1>1 DEF Edit
  <2> QED
    BY <1>0, <2>1 DEF NotAhead
<1>2. ASSUME NEW k \in Kinds, Read(k) PROVE NotAhead'
  <2>1. catalog' = catalog /\ answers' = [answers EXCEPT ![k][catalog[k]] = @ + 1]
    BY <1>2 DEF Read
  <2>2. catalog[k] \in Versions /\ answers[k][catalog[k]] + 1 \in Nat
    BY <1>0
  <2>3. \A l \in Kinds, w \in Versions : (l # k \/ w # catalog[k]) => answers'[l][w] = answers[l][w]
    BY <1>0, <2>1, <2>2, Answer
  <2> QED
    BY <1>0, <2>1, <2>3 DEF NotAhead
<1>3. ASSUME NEW k \in Kinds, NEW v \in Versions, catalog' = catalog, answers[k][v] > 0,
             answers' = [answers EXCEPT ![k][v] = @ - 1]
      PROVE  NotAhead'
  <2>1. answers[k][v] - 1 \in Nat
    BY <1>0, <1>3
  <2>2. \A l \in Kinds, w \in Versions : (l # k \/ w # v) => answers'[l][w] = answers[l][w]
    BY <1>0, <1>3, <2>1, Answer
  <2>3. v <= catalog[k]
    BY <1>3 DEF NotAhead
  <2> QED
    BY <1>3, <2>2, <2>3 DEF NotAhead
<1>4. CASE UNCHANGED <<answers, catalog>>
  BY <1>4 DEF NotAhead
<1>5. ASSUME NEW k \in Kinds,
             Answered(k) \/ HydrateFails(k) \/ \E v \in Versions : HydrateThrows(k, v)
      PROVE  NotAhead'
  BY <1>3, <1>4, <1>5 DEF Answered, Hydrated, HydrateThrows, Fill, HydrateFails
<1> QED
  BY <1>1, <1>2, <1>4, <1>5
     DEF Next, LookedUp, Boot, BootRest, BootLive, Connected, Dropped, Frame, vars

LEMMA FollowedStep ==
    ASSUME TypeOK, ToldOf, NotAhead, Followed, [Next]_vars
    PROVE  Followed'
<1> SUFFICES ASSUME NEW l \in Kinds PROVE spoiled'[l] \/ OnItsWay(l)'
  BY DEF Followed
<1>0. spoiled[l] \/ OnItsWay(l)
  BY DEF Followed
<1>1. ASSUME NEW k \in Kinds, Answered(k) PROVE spoiled'[l] \/ OnItsWay(l)'
  <2>1. PICK v \in Versions : Hydrated(k, v)
    BY <1>1 DEF Answered
  <2>2. catalog[k] # v => v < catalog[k]
    <3>1. answers[k][v] > 0
      BY <2>1 DEF Hydrated, Fill
    <3>2. v \in Int /\ catalog[k] \in Int
      BY DEF TypeOK, Versions
    <3>3. v <= catalog[k]
      BY <3>1 DEF NotAhead
    <3> QED
      BY <3>2, <3>3
  <2> QED
    BY <1>0, <2>1, <2>2, FollowedHydrated
<1>2. CASE Connected \/ UNCHANGED vars
  <2>1. UNCHANGED <<catalog, asked, answers, content, boot, frames, lookups, spoiled>>
    BY <1>2 DEF Connected, vars, app
  <2> QED
    BY <1>0, <2>1 DEF OnItsWay, ToBeRead
<1> QED
  BY <1>0, <1>1, <1>2, FollowedEdit, FollowedRead, FollowedFails, FollowedLookedUp,
     FollowedBoot, FollowedDropped, FollowedFrame DEF Next

----------------------------------------------------------------------------
(* Rules before forms.                                                     *)

LEMMA RulesStep ==
    ASSUME TypeOK, SilentBoot, RulesFirst, FormsHaveRules, [Next]_vars
    PROVE  RulesFirst' /\ FormsHaveRules'
<1>0. "validation" \in Kinds /\ "validation" \in FirstRound /\ "form" \in Kinds /\ "form" \notin FirstRound
  BY HydrationAssumption DEF HydrationAssumption
<1>a. /\ answers \in [Kinds -> [Versions -> Nat]] /\ catalog \in [Kinds -> Versions]
      /\ asked \in [Kinds -> Nat] /\ spoiled \in [Kinds -> BOOLEAN]
      /\ content \in [Kinds -> Versions \cup {None, Partial}]
  BY DEF TypeOK
<1>1. CASE /\ UNCHANGED <<asked, answers, content, rules, boot>>
           /\ spoiled["validation"] => spoiled'["validation"]
  BY <1>1 DEF RulesFirst, FormsHaveRules, Awaited
<1>2. ASSUME NEW k \in Kinds, Edit(k) PROVE RulesFirst' /\ FormsHaveRules'
  <2>1. spoiled["validation"] => spoiled'["validation"]
    BY <1>0, <1>a, <1>2 DEF Edit
  <2> QED
    BY <1>1, <1>2, <2>1 DEF Edit, app
<1>3. ASSUME NEW k \in Kinds, Read(k) PROVE RulesFirst' /\ FormsHaveRules'
  <2>1. /\ asked' = [asked EXCEPT ![k] = @ - 1] /\ asked[k] > 0
        /\ answers' = [answers EXCEPT ![k][catalog[k]] = @ + 1]
        /\ UNCHANGED <<content, rules, boot, spoiled>>
    BY <1>3 DEF Read, app
  <2>2. catalog[k] \in Versions /\ answers[k][catalog[k]] \in Nat /\ answers[k][catalog[k]] + 1 \in Nat
    BY <1>a
  <2>3. answers'[k][catalog[k]] > 0
    BY <1>a, <2>1, <2>2, Answer
  <2>4. \A l \in Kinds : l # k => answers'[l] = answers[l] /\ asked'[l] = asked[l]
    BY <1>a, <2>1
  <2>5. Awaited("validation") => Awaited("validation")'
    BY <1>0, <2>2, <2>3, <2>4 DEF Awaited
  <2>6. boot = "first" => k # "form"
    BY <2>1 DEF RulesFirst, Awaited
  <2>7. boot = "first" => ~Awaited("form")'
    BY <1>0, <2>4, <2>6 DEF RulesFirst, Awaited
  <2> QED
    BY <2>1, <2>5, <2>7 DEF RulesFirst, FormsHaveRules
<1>4. ASSUME NEW k \in Kinds, NEW v \in Versions, Hydrated(k, v) \/ HydrateThrows(k, v)
      PROVE  RulesFirst' /\ FormsHaveRules'
  <2>0. PICK filled : /\ Fill(k, v, filled)
                      /\ filled \in Versions \/ spoiled'[k]
    BY <1>a, <1>4 DEF Hydrated, HydrateThrows
  <2>1. /\ answers' = [answers EXCEPT ![k][v] = @ - 1] /\ answers[k][v] > 0
        /\ content' = [content EXCEPT ![k] = filled]
        /\ rules' = IF k = "form" THEN content["validation"] ELSE rules
        /\ UNCHANGED <<asked, boot>>
    BY <2>0 DEF Fill
  <2>9. spoiled["validation"] => spoiled'["validation"]
    BY <1>0, <1>a, <1>4 DEF Hydrated, HydrateThrows
  <2>2. \A l \in Kinds : l # k => answers'[l] = answers[l] /\ content'[l] = content[l]
    BY <1>a, <2>1
  <2>3. boot = "first" => k # "form"
    BY <2>1 DEF RulesFirst, Awaited
  <2>4. boot = "first" => content'["form"] = None /\ ~Awaited("form")'
    BY <1>0, <2>1, <2>2, <2>3 DEF RulesFirst, Awaited
  <2>5. content'["validation"] \notin Versions /\ ~spoiled'["validation"] =>
            k # "validation" /\ boot = "first" /\ Awaited("validation")
    BY <1>0, <1>a, <2>0, <2>1, <2>2, <2>9 DEF RulesFirst
  <2>6. k # "validation" /\ Awaited("validation") => Awaited("validation")'
    BY <1>0, <2>1, <2>2 DEF Awaited
  <2>7. RulesFirst'
    BY <2>1, <2>4, <2>5, <2>6 DEF RulesFirst
  <2>8. FormsHaveRules'
    <3>1. CASE k = "form"
      <4>1. content["validation"] \notin Versions => spoiled["validation"]
        BY <2>3, <3>1 DEF RulesFirst
      <4> QED
        BY <2>1, <2>9, <3>1, <4>1 DEF FormsHaveRules
    <3>2. CASE k # "form"
      BY <1>0, <2>1, <2>2, <2>9, <3>2 DEF FormsHaveRules
    <3> QED
      BY <3>1, <3>2
  <2> QED
    BY <2>7, <2>8
<1>5. ASSUME NEW k \in Kinds, HydrateFails(k) PROVE RulesFirst' /\ FormsHaveRules'
  <2>1. /\ UNCHANGED <<content, rules, boot>>
        /\ spoiled' = [spoiled EXCEPT ![k] = TRUE]
        /\ \A l \in Kinds : l # k => answers'[l] = answers[l] /\ asked'[l] = asked[l]
    BY <1>a, <1>5 DEF HydrateFails, app
  <2>2. Awaited(k)
    BY <1>5 DEF HydrateFails, Awaited
  <2>3. boot = "first" => k # "form"
    BY <2>2 DEF RulesFirst
  <2>4. boot = "first" => ~Awaited("form")'
    BY <1>0, <2>1, <2>3 DEF RulesFirst, Awaited
  <2>5. ~spoiled'["validation"] =>
            /\ ~spoiled["validation"]
            /\ Awaited("validation") => Awaited("validation")'
    BY <1>0, <1>a, <2>1 DEF Awaited
  <2>6. spoiled["validation"] => spoiled'["validation"]
    BY <1>0, <1>a, <2>1
  <2> QED
    BY <2>1, <2>4, <2>5, <2>6 DEF RulesFirst, FormsHaveRules
<1>6. CASE /\ boot # "first" /\ boot' # "first"
           /\ UNCHANGED <<content, rules>>
           /\ spoiled["validation"] => spoiled'["validation"]
  BY <1>6 DEF RulesFirst, FormsHaveRules
<1>7. ASSUME NEW k \in Kinds, LookedUp(k) PROVE RulesFirst' /\ FormsHaveRules'
  <2>1. PICK n \in 1 .. lookups[k] : TRUE
    BY <1>7 DEF LookedUp
  <2>2. lookups[k] # 0
    BY <2>1
  <2>3. boot = "live"
    BY <2>2 DEF SilentBoot
  <2> QED
    BY <1>6, <1>7, <2>3 DEF LookedUp, app
<1>8. CASE Frame \/ BootLive
  BY <1>6, <1>8 DEF Frame, BootLive, SilentBoot, app
<1>9. CASE Dropped
  <2>1. spoiled["validation"] => spoiled'["validation"]
    BY <1>0, <1>9 DEF Dropped
  <2> QED
    BY <1>1, <1>9, <2>1 DEF Dropped, app
<1>10. CASE BootRest
  <2>1. boot = "first" /\ boot' = "rest" /\ ~Awaited("validation") /\ UNCHANGED <<content, rules, spoiled>>
    BY <1>0, <1>10 DEF BootRest
  <2> QED
    BY <2>1 DEF RulesFirst, FormsHaveRules
<1>11. CASE Connected \/ UNCHANGED vars
  BY <1>1, <1>11 DEF Connected, vars, app
<1> QED
  BY <1>2, <1>3, <1>4, <1>5, <1>7, <1>8, <1>9, <1>10, <1>11 DEF Next, Answered, Boot

----------------------------------------------------------------------------
LEMMA HInvSpec == Spec => []HInv
<1>1. Init => HInv
  <2> SUFFICES ASSUME Init PROVE HInv
    OBVIOUS
  <2>0. "validation" \in Kinds /\ "validation" \in FirstRound /\ "form" \in Kinds /\ "form" \notin FirstRound
    BY HydrationAssumption DEF HydrationAssumption
  <2>1. TypeOK /\ Edited
    BY TypesInit
  <2>2. SilentBoot /\ ToldOf
    BY DEF Init, SilentBoot, ToldOf
  <2>3. NotAhead
    BY DEF Init, NotAhead
  <2>4. Followed
    <3>1. \A k \in Kinds : k \in FirstRound => asked[k] = 1
      BY DEF Init
    <3>2. boot = "first"
      BY DEF Init
    <3>3. ASSUME NEW k \in Kinds PROVE ToBeRead(k)
      <4>1. CASE k \in FirstRound
        <5>1. asked[k] = 1
          BY <3>1, <4>1
        <5>2. asked[k] > 0
          BY <5>1
        <5> QED
          BY <5>2 DEF ToBeRead
      <4>2. CASE k \notin FirstRound
        BY <3>2, <4>2 DEF ToBeRead
      <4> QED
        BY <4>1, <4>2
    <3> QED
      BY <3>3 DEF Followed, OnItsWay
  <2>5. RulesFirst /\ FormsHaveRules
    BY <2>0 DEF Init, RulesFirst, FormsHaveRules, Awaited
  <2> QED
    BY <2>1, <2>2, <2>3, <2>4, <2>5 DEF HInv
<1>2. HInv /\ [Next]_vars => HInv'
  BY TypesStep, SilentStep, ToldStep, AheadStep, FollowedStep, RulesStep DEF HInv
<1> QED
  BY <1>1, <1>2, PTL DEF Spec

\* Every variable keeps its type; no kind has more versions than edits.
THEOREM HydrationTypes == Spec => []TypeOK
<1>1. HInv => TypeOK
  BY DEF HInv
<1> QED
  BY <1>1, HInvSpec, PTL

\* Once nothing is under way the app shows the rows the catalog has, whatever
\* answers, events and lookups overtook each other, unless a GET or a
\* registration of the kind failed, an older answer came last or the stream missed an
\* edit.
THEOREM QuietShowsAll == Spec => []QuietIsCurrent
<1>1. HInv => QuietIsCurrent
  <2> SUFFICES ASSUME HInv, NEW k \in Kinds, Quiet(k), ~spoiled[k]
               PROVE  content[k] = catalog[k]
    BY DEF QuietIsCurrent
  <2>1. OnItsWay(k) /\ catalog[k] \in Versions
    BY DEF HInv, Followed, TypeOK
  <2>2. ~ToBeRead(k) /\ ~(answers[k][catalog[k]] > 0) /\ frames = <<>> /\ ~(lookups[k] > 0)
    BY <2>1 DEF Quiet, Awaited, ToBeRead
  <2> QED
    BY <2>1, <2>2 DEF OnItsWay
<1> QED
  BY <1>1, HInvSpec, PTL

\* No form is compiled before all of the rules are there, unless these
\* could not be loaded, however the answers of the two rounds overtake each other.
THEOREM RulesComeFirst == Spec => []FormsHaveRules
<1>1. HInv => FormsHaveRules
  BY DEF HInv
<1> QED
  BY <1>1, HInvSpec, PTL
=============================================================================
