-------------------------- MODULE DiscoveryProofs --------------------------
(***************************************************************************)
(* Proofs about Discovery and the operations it is made of, for every set  *)
(* of names, ids and refreshes, and any number of troubles.                *)
(***************************************************************************)
EXTENDS Discovery, TLAPS

USE RecordsAssumption, DiscoveryAssumption

-----------------------------------------------------------------------------
(* The operations on the records. *)

LEMMA RecordOf ==
    ASSUME NEW s \in Discovering, NEW n \in Names
    PROVE  /\ Discovered(s, n) \in Record
           /\ Discovered(s, n).source = s
           /\ Discovered(s, n).id = n
           /\ Discovered(s, n).name = n
BY DEF Discovered, Record, Sources

LEMMA ManualOf ==
    ASSUME NEW i \in Ids, NEW n \in Names
    PROVE  Manual(i, n) \in Record /\ Manual(i, n).source = "manual"
BY DEF Manual, Record, Sources

LEMMA RenamedOf ==
    ASSUME NEW r \in Record, NEW n \in Names
    PROVE  [r EXCEPT !.name = n] \in Record /\ [r EXCEPT !.name = n].source = r.source
BY DEF Record

(* A sync pass creates and deletes records of its own source only          *)
(* (store.py:reconcile, the rule its docstring states).                    *)
THEOREM ReconcileKeepsOthers ==
    ASSUME NEW list \in SUBSET Record, NEW s \in Discovering, NEW listed \in SUBSET Names
    PROVE  /\ Reconciled(list, s, listed) \in SUBSET Record
           /\ \A r \in Record :
                  r.source # s => (r \in Reconciled(list, s, listed) <=> r \in list)
<1>1. \A n \in Missing(list, s, listed) : n \in Names
  BY DEF Missing
<1>2. \A r \in Stale(list, s, listed) : r.source = s
  BY DEF Stale, Of
<1>3. \A n \in Names : Discovered(s, n) \in Record /\ Discovered(s, n).source = s
  BY RecordOf
<1>4. QED
  BY <1>1, <1>2, <1>3 DEF Reconciled

\* Discovered records are told apart by their names.
Owned(list) == \A r \in list : r.source \in Discovering => r = Discovered(r.source, r.name)

(* A pass that sees what the pass before it saw changes nothing: there is  *)
(* nothing to write and no backup to spend (store.py:218-223).             *)
THEOREM ReconcileTwice ==
    ASSUME NEW list \in SUBSET Record, NEW s \in Discovering, NEW listed \in SUBSET Names
    PROVE  LET after == Reconciled(list, s, listed)
           IN  Reconciled(after, s, listed) = after
<1>. DEFINE after == Reconciled(list, s, listed)
<1>1. \A n \in listed : Discovered(s, n).source = s /\ Discovered(s, n).id = n
  BY RecordOf
<1>2. Stale(after, s, listed) = {}
  BY <1>1 DEF Reconciled, Stale, Of, Missing
<1>3. \A n \in listed : Clashes(after, s, n) <=> Clashes(list, s, n)
  <2>1. \A r \in Record : r.source # s => (r \in after <=> r \in list)
    BY ReconcileKeepsOthers
  <2>2. after \in SUBSET Record
    BY ReconcileKeepsOthers
  <2>. HIDE DEF after
  <2>3. QED
    BY <2>1, <2>2 DEF Clashes
<1>4. \A n \in listed : Discovered(s, n) \in list => Discovered(s, n) \in after
  BY <1>1 DEF Reconciled, Stale, Of
<1>5. Missing(after, s, listed) = {}
  <2>1. ASSUME NEW n \in listed, ~ Clashes(after, s, n)
        PROVE  Discovered(s, n) \in after
    <3>1. CASE Discovered(s, n) \in list
      BY <1>4, <3>1
    <3>2. CASE Discovered(s, n) \notin list
      <4>1. n \in Missing(list, s, listed)
        BY <1>3, <2>1, <3>2 DEF Missing
      <4>2. QED
        BY <4>1 DEF Reconciled
    <3>3. QED
      BY <3>1, <3>2
  <2>2. QED
    BY <2>1 DEF Missing
<1>6. QED
  BY <1>2, <1>5 DEF Reconciled

LEMMA ReconcileOwned ==
    ASSUME NEW list \in SUBSET Record, Owned(list),
           NEW s \in Discovering, NEW listed \in SUBSET Names
    PROVE  Owned(Reconciled(list, s, listed))
<1>1. \A n \in listed : Discovered(s, n).source = s /\ Discovered(s, n).name = n
  BY RecordOf
<1>2. QED
  BY <1>1 DEF Owned, Reconciled, Missing

-----------------------------------------------------------------------------
(* Types, and what of the records follows from them. *)

LEMMA DiscoveryTypeInit == Init => DiscoveryTypeOK
<1>1. ASSUME NEW d \in SUBSET Names, NEW t \in SUBSET Names
      PROVE  {Discovered("docker", n) : n \in d} \union {Discovered("traefik", n) : n \in t}
                 \subseteq Record
  BY RecordOf DEF Discovering
<1>2. Init => records \subseteq Record
  BY <1>1 DEF Init
<1>3. Init => poll \in [Pollers -> PollPlaces] /\ listing \in [Pollers -> SUBSET Names]
  BY DEF Init, PollPlaces
<1>4. Init => /\ docker \in DockerPlaces /\ stream \in {"none", "open", "ended"}
              /\ heard \in Nat /\ troubles \in 0 .. MaxTroubles
  BY DEF Init, DockerPlaces
<1>5. QED
  BY <1>2, <1>3, <1>4 DEF Init, DiscoveryTypeOK

LEMMA ReturnsTyped ==
    ASSUME DiscoveryTypeOK, NEW p \in Pollers, NEW how \in {"applied", "failed", "raised"},
           Returns(p, how)
    PROVE  /\ poll' \in [Pollers -> PollPlaces]
           /\ listing' \in [Pollers -> SUBSET Names]
           /\ docker' \in DockerPlaces
           /\ stream' \in {"none", "open", "ended"}
           /\ heard' \in Nat
<1>1. poll' \in [Pollers -> PollPlaces] /\ listing' \in [Pollers -> SUBSET Names]
  BY DEF Returns, DiscoveryTypeOK, PollPlaces
<1>2. PlaceAfter(how) \in DockerPlaces
  BY DEF PlaceAfter, DockerPlaces
<1>3. docker' \in DockerPlaces /\ stream' \in {"none", "open", "ended"} /\ heard' \in Nat
  <2>1. CASE p = DockerLoop
    BY <1>2, <2>1 DEF Returns, Leaves, DiscoveryTypeOK
  <2>2. CASE p # DockerLoop
    BY <2>2 DEF Returns, DiscoveryTypeOK
  <2>3. QED
    BY <2>1, <2>2
<1>4. QED
  BY <1>1, <1>3

LEMMA PollerOf ==
    ASSUME NEW p \in Pollers
    PROVE  p.of \in Discovering
BY DEF Pollers, Loops

LEMMA AskTyped ==
    ASSUME DiscoveryTypeOK, NEW p, Asks(p)
    PROVE  poll' \in [Pollers -> PollPlaces]
BY DEF DiscoveryTypeOK, Asks, PollPlaces

LEMMA UserTyped ==
    ASSUME DiscoveryTypeOK, User
    PROVE  /\ records' \subseteq Record
           /\ \A r \in Record : r.source \in Discovering => (r \in records' <=> r \in records)
<1>. USE DEF DiscoveryTypeOK
<1>0. "manual" \notin Discovering
  BY DEF Discovering
<1>1. CASE \E i \in Ids, n \in Names : MayAdd(records, i, n) /\ records' = Added(records, i, n)
  <2>1. PICK i \in Ids, n \in Names : records' = records \union {Manual(i, n)}
    BY <1>1 DEF Added
  <2>2. QED
    BY <1>0, <2>1, ManualOf
<1>2. CASE \E r \in Editable(records), n \in Names : records' = Renamed(records, r, n)
  <2>1. PICK r \in Editable(records), n \in Names :
            records' = (records \ {r}) \union {[r EXCEPT !.name = n]}
    BY <1>2 DEF Renamed
  <2>2. r \in Record /\ r.source = "manual"
    BY <2>1 DEF Editable, Of
  <2>3. [r EXCEPT !.name = n] \in Record /\ [r EXCEPT !.name = n].source = "manual"
    BY <2>1, <2>2, RenamedOf
  <2>4. QED
    BY <1>0, <2>1, <2>2, <2>3
<1>3. CASE \E r \in Editable(records) : records' = records \ {r}
  BY <1>0, <1>3 DEF Editable, Of
<1>4. QED
  BY <1>1, <1>2, <1>3 DEF User

LEMMA DiscoveryTypeStep ==
    ASSUME DiscoveryTypeOK, [Next]_vars
    PROVE  DiscoveryTypeOK'
<1>. USE DEF DiscoveryTypeOK
<1>1. ASSUME NEW p \in Pollers, Answer(p) \/ NoAnswer(p) \/ Hiccup(p)
      PROVE  DiscoveryTypeOK'
  <2>1. poll' \in [Pollers -> PollPlaces]
    BY <1>1 DEF Answer, NoAnswer, Hiccup, PollPlaces
  <2>2. listing' \in [Pollers -> SUBSET Names]
    BY <1>1, PollerOf DEF Answer, NoAnswer, Hiccup
  <2>3. troubles' \in 0 .. MaxTroubles
    BY <1>1 DEF Answer, NoAnswer, Hiccup, Trouble
  <2>4. QED
    BY <1>1, <2>1, <2>2, <2>3 DEF Answer, NoAnswer, Hiccup
<1>2. ASSUME NEW p \in Pollers, Apply(p)
      PROVE  DiscoveryTypeOK'
  <2>1. records' \subseteq Record
    BY <1>2, PollerOf, ReconcileKeepsOthers DEF Apply
  <2>2. QED
    BY <1>2, <2>1, ReturnsTyped DEF Apply
<1>3. ASSUME NEW p \in Pollers, Fail(p)
      PROVE  DiscoveryTypeOK'
  BY <1>3, ReturnsTyped DEF Fail
<1>4. ASSUME NEW p \in Pollers, StoreRefuses(p)
      PROVE  DiscoveryTypeOK'
  BY <1>4, ReturnsTyped DEF StoreRefuses, Trouble
<1>5. ASSUME TraefikTurn \/ \E s \in Refreshes : Refresh(s)
      PROVE  DiscoveryTypeOK'
  BY <1>5, AskTyped DEF TraefikTurn, Refresh
<1>6. ASSUME DockerStep
      PROVE  DiscoveryTypeOK'
  <2>1. CASE Scan
    BY <2>1, AskTyped DEF Scan, DockerPlaces
  <2>2. CASE Hear
    BY <2>2, AskTyped DEF Hear, DockerPlaces
  <2>3. CASE OpenStream \/ OpenFails \/ EndOfStream \/ Wake
    BY <2>3 DEF OpenStream, OpenFails, EndOfStream, Wake, Leaves, DockerPlaces
  <2>4. QED
    BY <1>6, <2>1, <2>2, <2>3 DEF DockerStep
<1>7. CASE User
  BY <1>7, UserTyped DEF User
<1>8. ASSUME NEW s \in Discovering, WorldChanges(s)
      PROVE  DiscoveryTypeOK'
  <2>1. world' \in [Discovering -> SUBSET Names]
    BY <1>8 DEF WorldChanges
  <2>2. heard' \in Nat /\ troubles' \in 0 .. MaxTroubles
    BY <1>8 DEF WorldChanges, Trouble
  <2>3. QED
    BY <1>8, <2>1, <2>2 DEF WorldChanges
<1>9. ASSUME NEW s \in Discovering, GoesDown(s) \/ ComesUp(s)
      PROVE  DiscoveryTypeOK'
  <2>1. reachable' \in [Discovering -> BOOLEAN]
    BY <1>9 DEF GoesDown, ComesUp
  <2>2. troubles' \in 0 .. MaxTroubles
    BY <1>9 DEF GoesDown, ComesUp, Trouble
  <2>3. stream' \in {"none", "open", "ended"}
    BY <1>9 DEF GoesDown, ComesUp
  <2>4. QED
    BY <1>9, <2>1, <2>2, <2>3 DEF GoesDown, ComesUp
<1>10. CASE UNCHANGED vars
  BY <1>10 DEF vars
<1>11. QED
  BY <1>1, <1>2, <1>3, <1>4, <1>5, <1>6, <1>7, <1>8, <1>9, <1>10 DEF Next, PollStep

(* Every variable of discovery keeps its type (runner.py:293-409).         *)
THEOREM DiscoveryTypeCorrect == Spec => []DiscoveryTypeOK
BY DiscoveryTypeInit, DiscoveryTypeStep, PTL DEF Spec

-----------------------------------------------------------------------------
(* Who changes the discovered records. *)

\* Only a poll with a listing does, and only those of its source.
LEMMA OnlyPollsDiscover ==
    ASSUME DiscoveryTypeOK, [Next]_vars, NEW s \in Discovering,
           \A p \in Pollers : p.of = s => ~ Apply(p)
    PROVE  Of(records, s) \subseteq records'
<1>. USE DEF DiscoveryTypeOK
<1>1. ASSUME NEW p \in Pollers, Apply(p)
      PROVE  Of(records, s) \subseteq records'
  <2>1. p.of \in Discovering /\ p.of # s /\ listing[p] \in SUBSET Names
    BY <1>1, PollerOf
  <2>2. \A r \in Record : r.source # p.of => (r \in records' <=> r \in records)
    BY <1>1, <2>1, ReconcileKeepsOthers DEF Apply
  <2>3. QED
    BY <2>1, <2>2 DEF Of
<1>2. CASE User
  BY <1>2, UserTyped DEF Of
<1>3. CASE UNCHANGED records
  BY <1>3 DEF Of
<1>4. QED
  BY <1>1, <1>2, <1>3
     DEF Next, vars, PollStep, Answer, NoAnswer, Fail, Hiccup, StoreRefuses, TraefikTurn,
         DockerStep, Scan, OpenStream, OpenFails, Hear, EndOfStream, Wake, Refresh,
         WorldChanges, GoesDown, ComesUp

(* While a source does not answer, and no earlier answer is on its way,    *)
(* its records stay (runner.py:298-301, 344-345).                          *)
THEOREM UnreachableIsAlwaysKept == Spec => UnreachableIsNotEmpty
<1>. DEFINE Keeps ==
        \A s \in Discovering :
           /\ ~ reachable[s]
           /\ \A p \in Pollers : p.of = s => poll[p] # "answered"
           => Of(records, s) \subseteq records'
<1>1. DiscoveryTypeOK /\ [Next]_vars => [Keeps]_vars
  <2>. SUFFICES ASSUME DiscoveryTypeOK, [Next]_vars, NEW s \in Discovering,
                       \A p \in Pollers : p.of = s => poll[p] # "answered"
                PROVE  Of(records, s) \subseteq records'
    OBVIOUS
  <2>1. \A p \in Pollers : p.of = s => ~ Apply(p)
    BY DEF Apply
  <2>2. QED
    BY <2>1, OnlyPollsDiscover
<1>2. QED
  BY <1>1, DiscoveryTypeCorrect, PTL DEF Spec, UnreachableIsNotEmpty

-----------------------------------------------------------------------------
(* A name is discovered once. *)

OnceInv == DiscoveryTypeOK /\ Owned(records) /\ DiscoveredOnce

LEMMA ReconcileOnce ==
    ASSUME OnceInv, NEW s \in Discovering, NEW listed \in SUBSET Names,
           records' = Reconciled(records, s, listed)
    PROVE  DiscoveredOnce'
<1>. USE DEF OnceInv, DiscoveryTypeOK
<1>1. ASSUME NEW n \in Missing(records, s, listed), NEW r \in records,
             r.source \in Discovering, r.name = n
      PROVE  FALSE
  <2>1. r.source = s
    BY <1>1 DEF Missing, Clashes
  <2>2. r = Discovered(s, n)
    BY <1>1, <2>1 DEF Owned
  <2>3. QED
    BY <1>1, <2>2 DEF Missing
<1>2. \A n \in Missing(records, s, listed) : Discovered(s, n).name = n
  BY RecordOf DEF Missing
<1>3. \A r \in records' : r \in records \/ \E n \in Missing(records, s, listed) :
                                              r = Discovered(s, n)
  BY DEF Reconciled
<1>4. QED
  BY <1>1, <1>2, <1>3 DEF DiscoveredOnce

LEMMA OnceStep ==
    ASSUME OnceInv, [Next]_vars
    PROVE  OnceInv'
<1>. USE DEF OnceInv
<1>1. DiscoveryTypeOK'
  BY DiscoveryTypeStep
<1>2. ASSUME NEW p \in Pollers, Apply(p)
      PROVE  Owned(records)' /\ DiscoveredOnce'
  <2>1. p.of \in Discovering /\ listing[p] \in SUBSET Names /\ records \in SUBSET Record
    BY PollerOf DEF DiscoveryTypeOK
  <2>2. records' = Reconciled(records, p.of, listing[p])
    BY <1>2 DEF Apply
  <2>3. QED
    BY <2>1, <2>2, ReconcileOwned, ReconcileOnce
<1>3. ASSUME User
      PROVE  Owned(records)' /\ DiscoveredOnce'
  <2>1. \A r \in records' : r.source \in Discovering => r \in records
    BY <1>1, <1>3, UserTyped DEF DiscoveryTypeOK
  <2>2. QED
    BY <2>1 DEF Owned, DiscoveredOnce, Discovered
<1>4. ASSUME UNCHANGED records
      PROVE  Owned(records)' /\ DiscoveredOnce'
  BY <1>4 DEF Owned, DiscoveredOnce, Discovered
<1>5. Owned(records)' /\ DiscoveredOnce'
  BY <1>2, <1>3, <1>4
     DEF Next, vars, PollStep, Answer, NoAnswer, Fail, Hiccup, StoreRefuses, TraefikTurn,
         DockerStep, Scan, OpenStream, OpenFails, Hear, EndOfStream, Wake, Refresh,
         WorldChanges, GoesDown, ComesUp
<1>6. QED
  BY <1>1, <1>5

LEMMA OnceInit == Init => OnceInv
<1>1. ASSUME NEW d \in SUBSET Names, NEW t \in SUBSET Names, d \intersect t = {},
             records = {Discovered("docker", n) : n \in d}
                          \union {Discovered("traefik", n) : n \in t}
      PROVE  Owned(records) /\ DiscoveredOnce
  <2>1. \A r \in records :
           \/ \E n \in d : r = Discovered("docker", n) /\ r.source = "docker" /\ r.name = n
           \/ \E n \in t : r = Discovered("traefik", n) /\ r.source = "traefik" /\ r.name = n
    BY <1>1, RecordOf DEF Discovering
  <2>2. Owned(records)
    BY <2>1 DEF Owned
  <2>3. DiscoveredOnce
    BY <1>1, <2>1 DEF DiscoveredOnce
  <2>4. QED
    BY <2>2, <2>3
<1>2. Init => Owned(records) /\ DiscoveredOnce
  BY <1>1 DEF Init
<1>3. QED
  BY <1>2, DiscoveryTypeInit DEF OnceInv

(* The two importers never both own a record of one name, in whatever      *)
(* order their listings arrive and whatever is renamed in between          *)
(* (store.py:365-370).                                                     *)
THEOREM DiscoveredAtMostOnce == Spec => []DiscoveredOnce
<1>1. OnceInv => DiscoveredOnce
  BY DEF OnceInv
<1>2. QED
  BY <1>1, OnceInit, OnceStep, PTL DEF Spec
=============================================================================
