--------------------------- MODULE ResolverProofs ---------------------------
(***************************************************************************)
(* Proofs about Resolver, for every list of records, every question,       *)
(* any number of them in flight, every list of servers and every lifetime. *)
(***************************************************************************)
EXTENDS Resolver, ZoneProofs

-----------------------------------------------------------------------------
(* The zone. *)

LEMMA OursByKey ==
    ASSUME NEW table, RootIsFree(table), NEW question \in Questions
    PROVE  IsOurs(table, cache_key(question).name) <=> IsOurs(table, question.name)
<1>1. question.name \in Seq(Labels)
  BY ResolverAssumption
<1>2. normalise(normalise(question.name)) = normalise(question.name)
  BY <1>1, NormaliseTwice
<1>3. cache_key(question).name = normalise(question.name)
  BY DEF cache_key
<1>4. QED
  BY <1>2, <1>3, OursIsClaimed

LEMMA ZoneStaysRootFree ==
    /\ Init => RootIsFree(zone)
    /\ RootIsFree(zone) /\ [Next]_vars => RootIsFree(zone)'
<1>1. Init => RootIsFree(zone)
  BY CompiledIsRootFree DEF Init
<1>2. ASSUME RootIsFree(zone), [Next]_vars
      PROVE  RootIsFree(zone')
  <2>1. CASE zone' = zone
    BY <1>2, <2>1
  <2>2. CASE \E d \in DomainLists : apply(d)
    BY <2>2, CompiledIsRootFree DEF apply
  <2>3. QED
    BY <1>2, <2>1, <2>2
       DEF Next, vars, Arrival, Refuse, AnswerLocally, AnswerFromCache, ForwardQuery, Wake,
           LookupStep, ServerAnswers, ServerAnswersNothing, ServerTruncates, ServerFails,
           Tick, StopListening, CancelDatagrams
<1>3. RootIsFree(zone)' <=> RootIsFree(zone')
  BY DEF RootIsFree
<1>4. QED
  BY <1>1, <1>2, <1>3

\* A name that becomes ours, or ceases to be, starts with no answer of before, whatever
\* the lists of records: comparing namespaces is enough to see that its owner changes.
THEOREM ClaimsEmptyTheCache == Spec => NoAnswerSurvivesAClaim
<1>1. RootIsFree(zone) /\ RootIsFree(zone)' /\ [Next]_vars =>
        [\A i \in DOMAIN cache, j \in DOMAIN cache' :
            cache[i].key = cache'[j].key /\ cache'[j].age >= cache[i].age =>
              (IsOurs(zone, cache[i].key.name) <=> IsOurs(zone', cache[i].key.name))]_vars
  <2>. SUFFICES ASSUME RootIsFree(zone), RootIsFree(zone)', [Next]_vars,
                       NEW i \in DOMAIN cache, NEW j \in DOMAIN cache'
                PROVE  IsOurs(zone, cache[i].key.name) <=> IsOurs(zone', cache[i].key.name)
    OBVIOUS
  <2>1. CASE zone' = zone
    BY <2>1
  <2>2. CASE \E d \in DomainLists : apply(d)
    <3>1. cache' = <<>> \/ namespaces(zone) = namespaces(zone')
      BY <2>2 DEF apply
    <3>2. cache' # <<>>
      OBVIOUS
    <3>3. RootIsFree(zone')
      BY DEF RootIsFree
    <3>4. QED
      BY <3>1, <3>2, <3>3, SameNamespacesSameOwner
  <2>3. QED
    BY <2>1, <2>2
       DEF Next, vars, Arrival, Refuse, AnswerLocally, AnswerFromCache, ForwardQuery, Wake,
           LookupStep, ServerAnswers, ServerAnswersNothing, ServerTruncates, ServerFails,
           Tick, StopListening, CancelDatagrams
<1>2. QED
  BY ZoneStaysRootFree, <1>1, PTL DEF Spec, NoAnswerSurvivesAClaim

-----------------------------------------------------------------------------
(* Queries and lookups. *)

Positions == {"idle", "leads", "joins", "woken"}

\* The shape of what a slot and a key hold.  What a reply rests on and which servers are
\* left is of no concern here.
SlotOk(s) ==
    /\ s = [at |-> s.at, key |-> s.key, ours |-> s.ours, reply |-> s.reply]
    /\ s.at \in Positions /\ s.ours \in BOOLEAN

LookupOk(p) ==
    /\ p = [left |-> p.left, stage |-> p.stage, tcp |-> p.tcp, failed |-> p.failed]
    /\ p.tcp \in BOOLEAN
    /\ p # NoLookup => p.stage # "none"

Shaped ==
    /\ query = [q \in Queries |-> query[q]] /\ \A q \in Queries : SlotOk(query[q])
    /\ pending = [k \in Keys |-> pending[k]] /\ \A k \in Keys : LookupOk(pending[k])

\* A lookup is of the transport of its leader, so that the end of the datagrams takes with
\* it the lookups whose leaders it takes, and no others.
LedByItsTransport ==
    \A q \in Queries : query[q].at = "leads" =>
        pending[query[q].key].tcp = (q \in Connections)

QueryInv ==
    /\ Shaped
    /\ OneLeader
    /\ LedByItsTransport
    /\ OursIsNeverForeign

LEMMA IdleIs ==
    ASSUME NEW ours \in BOOLEAN, NEW reply
    PROVE  LET s == Idle(ours, reply)
           IN  SlotOk(s) /\ s.at = "idle" /\ s.ours = ours /\ s.reply = reply
BY DEF Idle, SlotOk, Positions

LEMMA WokenIs ==
    ASSUME NEW s, SlotOk(s), NEW reply
    PROVE  LET t == [s EXCEPT !.at = "woken", !.reply = reply]
           IN  SlotOk(t) /\ t.at = "woken" /\ t.ours = s.ours
<1>. DEFINE t == [s EXCEPT !.at = "woken", !.reply = reply]
<1>1. PICK a, k, o, r : s = [at |-> a, key |-> k, ours |-> o, reply |-> r]
  BY DEF SlotOk
<1>2. s.ours = o
  BY <1>1
<1>3. t = [at |-> "woken", key |-> k, ours |-> o, reply |-> reply]
  <2>1. s \in [at : {a, "woken"}, key : {k}, ours : {o}, reply : {r, reply}]
    BY <1>1
  <2>2. /\ t \in [at : {a, "woken"}, key : {k}, ours : {o}, reply : {r, reply}]
        /\ t.at = "woken" /\ t.reply = reply
    BY <2>1
  <2>. HIDE DEF t
  <2>3. QED
    BY <2>2
<1>. HIDE DEF t
<1>4. o \in BOOLEAN
  BY <1>2 DEF SlotOk
<1>5. t.at = "woken" /\ t.key = k /\ t.ours = o /\ t.reply = reply
  BY <1>3
<1>6. SlotOk(t) /\ t.at = "woken" /\ t.ours = s.ours
  BY <1>2, <1>3, <1>4, <1>5 DEF SlotOk, Positions
<1>7. QED
  BY <1>6 DEF t

LEMMA KeysAreKeys ==
    ASSUME NEW question \in Questions, question.form = "good"
    PROVE  cache_key(question) \in Keys
BY DEF Keys

LEMMA QueryInit == Init => QueryInv
<1>. SUFFICES ASSUME Init PROVE QueryInv
  OBVIOUS
<1>1. \A q \in Queries : /\ query[q] = Idle(FALSE, NoReply)
                          /\ SlotOk(query[q]) /\ query[q].at = "idle" /\ ~ query[q].ours
  BY IdleIs DEF Init
<1>2. \A k \in Keys : pending[k] = NoLookup /\ LookupOk(pending[k])
  BY DEF Init, NoLookup, LookupOk
<1>3. Shaped
  BY <1>1, <1>2 DEF Init, Shaped
<1>4. QED
  BY <1>1, <1>2, <1>3 DEF QueryInv, OneLeader, LedByItsTransport, OursIsNeverForeign, Running

\* An answer at once concerns the slot alone.
LEMMA AnsweredAtOnce ==
    ASSUME QueryInv, NEW q \in Queries, NEW ours \in BOOLEAN, NEW reply,
           query[q].at = "idle",
           ours => reply.kind \notin {"cache", "upstream", "servfail"},
           query' = [query EXCEPT ![q] = Idle(ours, reply)],
           pending' = pending
    PROVE  QueryInv'
<1>. DEFINE slot == Idle(ours, reply)
<1>1. SlotOk(slot) /\ slot.at = "idle" /\ slot.ours = ours /\ slot.reply = reply
  BY IdleIs
<1>2. /\ query' = [p \in Queries |-> query'[p]]
      /\ query'[q] = slot /\ \A p \in Queries \ {q} : query'[p] = query[p]
  <2>. HIDE DEF slot
  <2>1. QED
    BY DEF QueryInv, Shaped, slot
<1>. HIDE DEF slot
<1>3. Shaped'
  BY <1>1, <1>2 DEF QueryInv, Shaped
<1>4. OneLeader'
  <2>1. \A p \in Queries : query'[p].at \in {"leads", "joins"} <=>
                            query[p].at \in {"leads", "joins"}
    BY <1>1, <1>2
  <2>2. \A p \in Queries : query'[p].at \in {"leads", "joins"} => query'[p] = query[p]
    BY <1>1, <1>2
  <2>3. \A p \in Queries : \A k : query'[p].at = "leads" /\ query'[p].key = k <=>
                               query[p].at = "leads" /\ query[p].key = k
    BY <1>1, <1>2
  <2>4. QED
    BY <2>1, <2>2, <2>3 DEF QueryInv, OneLeader, Running
<1>5. LedByItsTransport'
  BY <1>1, <1>2 DEF QueryInv, LedByItsTransport
<1>6. OursIsNeverForeign'
  BY <1>1, <1>2 DEF QueryInv, OursIsNeverForeign
<1>7. QED
  BY <1>3, <1>4, <1>5, <1>6 DEF QueryInv

\* A lookup over which the servers change stays a lookup, and of the same transport.
LEMMA LookupMoves ==
    ASSUME QueryInv, NEW key \in Keys, Running(key), NEW left, NEW failed,
           NEW stage \in {"udp", "tcp"},
           pending' = [pending EXCEPT ![key] = [left |-> left, stage |-> stage,
                                                tcp |-> pending[key].tcp, failed |-> failed]],
           query' = query
    PROVE  QueryInv'
<1>. DEFINE p == [left |-> left, stage |-> stage, tcp |-> pending[key].tcp, failed |-> failed]
<1>1. LookupOk(p) /\ p # NoLookup /\ p.tcp = pending[key].tcp
  BY DEF QueryInv, Shaped, LookupOk, NoLookup
<1>2. /\ pending' = [k \in Keys |-> pending'[k]]
      /\ pending'[key] = p /\ \A k \in Keys \ {key} : pending'[k] = pending[k]
  <2>. HIDE DEF p
  <2>1. QED
    BY DEF QueryInv, Shaped, p
<1>. HIDE DEF p
<1>3. \A k \in Keys : /\ LookupOk(pending'[k]) /\ pending'[k].tcp = pending[k].tcp
                       /\ pending'[k] # NoLookup <=> pending[k] # NoLookup
  BY <1>1, <1>2 DEF QueryInv, Shaped, Running
<1>4. QED
  BY <1>2, <1>3 DEF QueryInv, Shaped, OneLeader, LedByItsTransport, OursIsNeverForeign, Running

LEMMA ReleasedIs ==
    ASSUME QueryInv, NEW key \in Keys, NEW reply, NEW q \in Queries
    PROVE  LET s == Released(key, reply)[q]
           IN  /\ SlotOk(s)
               /\ s.ours = query[q].ours
               /\ query[q].key = key =>
                      s.at \notin {"leads", "joins"} /\ (s.at = "idle" /\ s.ours => s = query[q])
               /\ query[q].key # key => s = query[q]
<1>. DEFINE s == Released(key, reply)[q]
<1>0. SlotOk(query[q]) /\ query[q].at \in Positions /\ query[q].ours \in BOOLEAN
  BY DEF QueryInv, Shaped, SlotOk
<1>1. CASE query[q].key = key /\ query[q].at = "leads"
  <2>1. s = Idle(query[q].ours, Delivered(q, reply))
    BY <1>1 DEF Released
  <2>2. ~ query[q].ours
    BY <1>1 DEF QueryInv, OursIsNeverForeign
  <2>3. QED
    BY <1>0, <1>1, <2>1, <2>2, IdleIs
<1>2. CASE query[q].key = key /\ query[q].at = "joins"
  <2>1. s = [query[q] EXCEPT !.at = "woken", !.reply = reply]
    BY <1>2 DEF Released
  <2>2. SlotOk(s) /\ s.at = "woken" /\ s.ours = query[q].ours
    <3>. HIDE DEF s
    <3>1. QED
      BY <1>0, <2>1, WokenIs
  <2>3. QED
    BY <1>2, <2>2
<1>3. CASE ~ (query[q].key = key /\ query[q].at \in {"leads", "joins"})
  <2>1. s = query[q]
    BY <1>3 DEF Released
  <2>2. QED
    BY <1>0, <1>3, <2>1
<1>4. QED
  BY <1>1, <1>2, <1>3

\* Whatever ends a lookup ends it for its leader and for all that joined it.
LEMMA LookupEnds ==
    ASSUME QueryInv, NEW key \in Keys, NEW reply,
           query' = Released(key, reply),
           pending' = [pending EXCEPT ![key] = NoLookup]
    PROVE  QueryInv'
<1>1. /\ pending' = [k \in Keys |-> pending'[k]]
      /\ pending'[key] = NoLookup /\ \A k \in Keys \ {key} : pending'[k] = pending[k]
  BY DEF QueryInv, Shaped
<1>2. query' = [q \in Queries |-> query'[q]]
  BY DEF Released
<1>3. \A q \in Queries :
        /\ SlotOk(query'[q]) /\ query'[q].ours = query[q].ours
        /\ query[q].key = key =>
              /\ query'[q].at \notin {"leads", "joins"}
              /\ query'[q].at = "idle" /\ query'[q].ours => query'[q] = query[q]
        /\ query[q].key # key => query'[q] = query[q]
  BY ReleasedIs
<1>4. LookupOk(NoLookup)
  BY DEF LookupOk, NoLookup
<1>5. Shaped'
  BY <1>1, <1>2, <1>3, <1>4 DEF QueryInv, Shaped
<1>6. OneLeader'
  <2>1. ASSUME NEW k \in Keys, Running(k)'
        PROVE  \E q \in Queries : \A p \in Queries :
                  query'[p].at = "leads" /\ query'[p].key = k <=> p = q
    <3>1. k # key /\ Running(k)
      BY <1>1, <2>1 DEF Running
    <3>2. PICK q \in Queries : \A p \in Queries :
              query[p].at = "leads" /\ query[p].key = k <=> p = q
      BY <3>1 DEF QueryInv, OneLeader
    <3>3. \A p \in Queries : query'[p].at = "leads" /\ query'[p].key = k <=>
                             query[p].at = "leads" /\ query[p].key = k
      BY <1>3, <3>1
    <3>4. QED
      BY <3>2, <3>3
  <2>2. ASSUME NEW q \in Queries, query'[q].at \in {"leads", "joins"}
        PROVE  query'[q].key \in Keys /\ pending'[query'[q].key] # NoLookup
    <3>1. query'[q] = query[q] /\ query[q].key # key
      BY <1>3, <2>2
    <3>2. query[q].key \in Keys /\ Running(query[q].key)
      BY <2>2, <3>1 DEF QueryInv, OneLeader
    <3>3. QED
      BY <1>1, <3>1, <3>2 DEF Running
  <2>3. QED
    BY <2>1, <2>2 DEF OneLeader, Running
<1>7. LedByItsTransport'
  <2>1. ASSUME NEW q \in Queries, query'[q].at = "leads"
        PROVE  pending'[query'[q].key].tcp = (q \in Connections)
    <3>1. query'[q] = query[q] /\ query[q].key # key /\ query[q].key \in Keys
      BY <1>3, <2>1 DEF QueryInv, OneLeader
    <3>2. QED
      BY <1>1, <2>1, <3>1 DEF QueryInv, LedByItsTransport
  <2>2. QED
    BY <2>1 DEF LedByItsTransport
<1>8. OursIsNeverForeign'
  <2>1. ASSUME NEW q \in Queries, query'[q].ours
        PROVE  query'[q].at = "idle"
               /\ query'[q].reply.kind \notin {"cache", "upstream", "servfail"}
    <3>1. query[q].ours /\ query[q].at = "idle"
          /\ query[q].reply.kind \notin {"cache", "upstream", "servfail"}
      BY <1>3, <2>1 DEF QueryInv, OursIsNeverForeign
    <3>2. query'[q] = query[q]
      BY <1>3, <3>1 DEF Released
    <3>3. QED
      BY <3>1, <3>2
  <2>2. QED
    BY <2>1 DEF OursIsNeverForeign
<1>9. QED
  BY <1>5, <1>6, <1>7, <1>8 DEF QueryInv

LEMMA ForwardKeeps ==
    ASSUME QueryInv, RootIsFree(zone), NEW q \in Queries, NEW question \in Questions,
           ForwardQuery(q, question)
    PROVE  QueryInv'
<1>. DEFINE key == cache_key(question)
<1>0. key \in Keys /\ query[q].at = "idle" /\ ~ IsOurs(zone, key.name)
  BY KeysAreKeys, OursByKey DEF ForwardQuery, MayArrive
<1>. HIDE DEF key
<1>1. ASSUME NEW at \in {"leads", "joins"}, query' = [query EXCEPT ![q] = Waiting(at, key)]
      PROVE  /\ query' = [p \in Queries |-> query'[p]]
             /\ SlotOk(query'[q]) /\ query'[q].at = at /\ query'[q].key = key
             /\ ~ query'[q].ours
             /\ \A p \in Queries \ {q} : query'[p] = query[p]
  <2>. DEFINE slot == Waiting(at, key)
  <2>1. SlotOk(slot) /\ slot.at = at /\ slot.key = key /\ ~ slot.ours
    BY <1>0 DEF Waiting, SlotOk, Positions, IsOurs
  <2>. HIDE DEF slot
  <2>2. query' = [query EXCEPT ![q] = slot]
    BY <1>1 DEF slot
  <2>3. QED
    BY <2>1, <2>2 DEF QueryInv, Shaped
<1>2. CASE Running(key)
  <2>1. query' = [query EXCEPT ![q] = Waiting("joins", key)] /\ pending' = pending
    BY <1>2 DEF ForwardQuery, MayJoin, key
  <2>2. /\ query' = [p \in Queries |-> query'[p]]
        /\ SlotOk(query'[q]) /\ query'[q].at = "joins" /\ query'[q].key = key
        /\ ~ query'[q].ours
        /\ \A p \in Queries \ {q} : query'[p] = query[p]
    BY <1>1, <2>1
  <2>3. Shaped'
    BY <2>1, <2>2 DEF QueryInv, Shaped
  <2>4. OneLeader'
    <3>1. \A p \in Queries : query'[p].at = "leads" <=> query[p].at = "leads"
      BY <1>0, <2>2
    <3>2. \A p \in Queries : query[p].at = "leads" => query'[p] = query[p]
      BY <1>0, <2>2
    <3>3. \A p \in Queries : query'[p].at \in {"leads", "joins"} => p = q \/ query'[p] = query[p]
      BY <2>2
    <3>4. QED
      BY <1>0, <1>2, <2>1, <2>2, <3>1, <3>2, <3>3 DEF QueryInv, OneLeader, Running
  <2>5. LedByItsTransport'
    BY <2>1, <2>2 DEF QueryInv, LedByItsTransport
  <2>6. OursIsNeverForeign'
    BY <2>2 DEF QueryInv, OursIsNeverForeign
  <2>7. QED
    BY <2>3, <2>4, <2>5, <2>6 DEF QueryInv
<1>3. CASE ~ Running(key)
  <2>. DEFINE p0 == [left |-> _order, failed |-> {}, tcp |-> q \in Connections,
                     stage |-> FirstStage(q \in Connections)]
  <2>1. /\ query' = [query EXCEPT ![q] = Waiting("leads", key)]
        /\ pending' = [pending EXCEPT ![key] = p0]
    BY <1>3 DEF ForwardQuery, MayJoin, key
  <2>2. LookupOk(p0) /\ p0 # NoLookup /\ p0.tcp = (q \in Connections)
    BY DEF LookupOk, NoLookup, FirstStage
  <2>. HIDE DEF p0
  <2>3. /\ query' = [p \in Queries |-> query'[p]]
        /\ SlotOk(query'[q]) /\ query'[q].at = "leads" /\ query'[q].key = key
        /\ ~ query'[q].ours
        /\ \A p \in Queries \ {q} : query'[p] = query[p]
    BY <1>1, <2>1
  <2>4. /\ pending' = [k \in Keys |-> pending'[k]]
        /\ pending'[key] = p0 /\ \A k \in Keys \ {key} : pending'[k] = pending[k]
    BY <1>0, <2>1 DEF QueryInv, Shaped
  <2>5. Shaped'
    BY <2>2, <2>3, <2>4 DEF QueryInv, Shaped
  <2>6. \A p \in Queries : query[p].at \in {"leads", "joins"} => query[p].key # key
    BY <1>3 DEF QueryInv, OneLeader
  <2>7. OneLeader'
    <3>1. ASSUME NEW k \in Keys, Running(k)'
          PROVE  \E o \in Queries : \A p \in Queries :
                    query'[p].at = "leads" /\ query'[p].key = k <=> p = o
      <4>1. CASE k = key
        BY <2>3, <2>6, <4>1
      <4>2. CASE k # key
        <5>1. Running(k)
          BY <2>4, <3>1, <4>2 DEF Running
        <5>2. PICK o \in Queries : \A p \in Queries :
                  query[p].at = "leads" /\ query[p].key = k <=> p = o
          BY <5>1 DEF QueryInv, OneLeader
        <5>3. \A p \in Queries : query'[p].at = "leads" /\ query'[p].key = k <=>
                                 query[p].at = "leads" /\ query[p].key = k
          BY <1>0, <2>3, <4>2
        <5>4. QED
          BY <5>2, <5>3
      <4>3. QED
        BY <4>1, <4>2
    <3>2. ASSUME NEW p \in Queries, query'[p].at \in {"leads", "joins"}
          PROVE  query'[p].key \in Keys /\ pending'[query'[p].key] # NoLookup
      <4>1. CASE p = q
        BY <1>0, <2>2, <2>3, <2>4, <4>1
      <4>2. CASE p # q
        <5>1. query'[p] = query[p] /\ query[p].key # key
          BY <2>3, <2>6, <3>2, <4>2
        <5>2. query[p].key \in Keys /\ Running(query[p].key)
          BY <3>2, <5>1 DEF QueryInv, OneLeader
        <5>3. QED
          BY <2>4, <5>1, <5>2 DEF Running
      <4>3. QED
        BY <4>1, <4>2
    <3>3. QED
      BY <3>1, <3>2 DEF OneLeader, Running
  <2>8. LedByItsTransport'
    <3>1. ASSUME NEW p \in Queries, query'[p].at = "leads"
          PROVE  pending'[query'[p].key].tcp = (p \in Connections)
      <4>1. CASE p = q
        BY <2>2, <2>3, <2>4, <4>1
      <4>2. CASE p # q
        <5>1. query'[p] = query[p] /\ query[p].key # key /\ query[p].key \in Keys
          BY <2>3, <2>6, <3>1, <4>2 DEF QueryInv, OneLeader
        <5>2. QED
          BY <2>4, <3>1, <5>1 DEF QueryInv, LedByItsTransport
      <4>3. QED
        BY <4>1, <4>2
    <3>2. QED
      BY <3>1 DEF LedByItsTransport
  <2>9. OursIsNeverForeign'
    BY <2>3 DEF QueryInv, OursIsNeverForeign
  <2>10. QED
    BY <2>5, <2>7, <2>8, <2>9 DEF QueryInv
<1>4. QED
  BY <1>2, <1>3

LEMMA WakeKeeps ==
    ASSUME QueryInv, NEW q \in Queries, Wake(q)
    PROVE  QueryInv'
<1>. DEFINE given == Idle(query[q].ours, Delivered(q, query[q].reply))
<1>0. query[q].at = "woken" /\ query[q].ours = FALSE
  BY DEF Wake, QueryInv, OursIsNeverForeign, Shaped, SlotOk
<1>1. SlotOk(given) /\ given.at = "idle" /\ given.ours = FALSE
  BY <1>0, IdleIs
<1>. HIDE DEF given
<1>2. query' = [query EXCEPT ![q] = given] /\ pending' = pending
  BY DEF Wake, given
<1>3. /\ query' = [p \in Queries |-> query'[p]]
      /\ query'[q] = given /\ \A p \in Queries \ {q} : query'[p] = query[p]
  BY <1>2 DEF QueryInv, Shaped
<1>4. \A p \in Queries : query'[p].at \in {"leads", "joins"} \/ query[p].at \in {"leads", "joins"}
                            => query'[p] = query[p]
  BY <1>0, <1>1, <1>3
<1>5. Shaped'
  BY <1>1, <1>2, <1>3 DEF QueryInv, Shaped
<1>6. OneLeader'
  <2>1. \A p \in Queries : \A k : query'[p].at = "leads" /\ query'[p].key = k <=>
                                 query[p].at = "leads" /\ query[p].key = k
    BY <1>4
  <2>2. QED
    BY <1>2, <1>4, <2>1 DEF QueryInv, OneLeader, Running
<1>7. LedByItsTransport'
  BY <1>2, <1>4 DEF QueryInv, LedByItsTransport
<1>8. OursIsNeverForeign'
  BY <1>1, <1>3 DEF QueryInv, OursIsNeverForeign
<1>9. QED
  BY <1>5, <1>6, <1>7, <1>8 DEF QueryInv

LEMMA CancelKeeps ==
    ASSUME QueryInv, CancelDatagrams
    PROVE  QueryInv'
<1>. DEFINE Cut(k) == Running(k) /\ ~ pending[k].tcp
<1>1. /\ pending' = [k \in Keys |-> pending'[k]]
      /\ \A k \in Keys : pending'[k] = IF Cut(k) THEN NoLookup ELSE pending[k]
  BY DEF CancelDatagrams
<1>. DEFINE Dropped(q) == Idle(query[q].ours, Reply("dropped"))
            Roused(q)  == [query[q] EXCEPT !.at = "woken", !.reply = Servfail(query[q].key)]
            Given(q)   == query[q].at # "idle" /\ q \in Datagrams
            Led(q)     == query[q].at = "joins" /\ q \in Connections /\ Cut(query[q].key)
            Kept(q)    == CASE Given(q) -> Dropped(q) [] Led(q) -> Roused(q) [] OTHER -> query[q]
<1>1a. query' = [q \in Queries |-> Kept(q)]
  BY DEF CancelDatagrams
<1>2. query' = [q \in Queries |-> query'[q]] /\ \A q \in Queries : query'[q] = Kept(q)
  <2>. HIDE DEF Kept
  <2>1. QED
    BY <1>1a
<1>0. \A q \in Queries : q \in Datagrams <=> q \notin Connections
  BY ResolverAssumption DEF Queries
<1>2a. ASSUME NEW q \in Queries
       PROVE  /\ Given(q) => query'[q] = Dropped(q)
              /\ Led(q) => query'[q] = Roused(q)
              /\ ~ Given(q) /\ ~ Led(q) => query'[q] = query[q]
  <2>1. ~ (Given(q) /\ Led(q))
    BY <1>0
  <2>. HIDE DEF Dropped, Roused, Led, Given
  <2>2. ASSUME Given(q) PROVE query'[q] = Dropped(q)
    BY <1>2, <2>1, <2>2
  <2>3. ASSUME Led(q) PROVE query'[q] = Roused(q)
    BY <1>2, <2>1, <2>3
  <2>4. ASSUME ~ Given(q), ~ Led(q) PROVE query'[q] = query[q]
    BY <1>2, <2>4
  <2>5. QED
    BY <2>2, <2>3, <2>4
<1>. HIDE DEF Cut, Kept
<1>3. ASSUME NEW q \in Queries
      PROVE  /\ SlotOk(query'[q]) /\ query'[q].ours = query[q].ours
             /\ query[q].ours => query'[q] = query[q]
             /\ query'[q].at \in {"leads", "joins"} =>
                    query'[q] = query[q] /\ q \notin Datagrams
                    /\ (query[q].at = "joins" => ~ Cut(query[q].key))
             /\ q \notin Datagrams /\ query[q].at = "leads" => query'[q] = query[q]
    <2>0. SlotOk(query[q]) /\ query[q].ours \in BOOLEAN
      BY DEF QueryInv, Shaped, SlotOk
    <2>1. query[q].ours => query[q].at = "idle"
      BY DEF QueryInv, OursIsNeverForeign
    <2>2. CASE Given(q)
      <3>1. query'[q] = Idle(query[q].ours, Reply("dropped"))
        BY <1>2a, <2>2
      <3>2. SlotOk(query'[q]) /\ query'[q].at = "idle" /\ query'[q].ours = query[q].ours
        BY <2>0, <3>1, IdleIs
      <3>3. QED
        BY <2>1, <2>2, <3>2
    <2>3. CASE Led(q)
      <3>1. query'[q] = [query[q] EXCEPT !.at = "woken", !.reply = Servfail(query[q].key)]
        BY <1>2a, <2>3
      <3>2. SlotOk(query'[q]) /\ query'[q].at = "woken" /\ query'[q].ours = query[q].ours
        <4>. DEFINE t == query'[q]
                    s == query[q]
                    r == Servfail(query[q].key)
        <4>1. t = [s EXCEPT !.at = "woken", !.reply = r] /\ SlotOk(s)
          BY <2>0, <3>1
        <4>. HIDE DEF t, s, r
        <4>2. SlotOk(t) /\ t.at = "woken" /\ t.ours = s.ours
          BY <4>1, WokenIs
        <4>3. QED
          BY <4>2 DEF t, s
      <3>3. QED
        BY <1>0, <2>1, <2>3, <3>2
    <2>4. CASE ~ Given(q) /\ ~ Led(q)
      <3>1. query'[q] = query[q]
        BY <1>2a, <2>4
      <3>2. QED
        BY <1>0, <2>0, <2>4, <3>1
    <2>5. QED
      BY <2>2, <2>3, <2>4
<1>4. \A k \in Keys : LookupOk(pending'[k]) /\ (pending'[k] # NoLookup => ~ Cut(k) /\ pending'[k] = pending[k])
  <2>1. LookupOk(NoLookup)
    BY DEF LookupOk, NoLookup
  <2>2. QED
    BY <1>1, <2>1 DEF QueryInv, Shaped
<1>5. Shaped'
  BY <1>1, <1>2, <1>3, <1>4 DEF Shaped
<1>7. ASSUME NEW q \in Queries, query'[q].at \in {"leads", "joins"}
      PROVE  /\ query'[q] = query[q] /\ query[q].key \in Keys
             /\ pending'[query[q].key] = pending[query[q].key]
             /\ pending[query[q].key] # NoLookup
  <2>1. query'[q] = query[q] /\ q \notin Datagrams
    BY <1>3, <1>7
  <2>2. query[q].key \in Keys /\ Running(query[q].key)
    BY <1>7, <2>1 DEF QueryInv, OneLeader
  <2>3. ~ Cut(query[q].key)
    <3>1. CASE query[q].at = "joins"
      BY <1>3, <1>7, <2>1, <3>1
    <3>2. CASE query[q].at = "leads"
      BY <1>0, <2>1, <3>2 DEF QueryInv, LedByItsTransport, Cut
    <3>3. QED
      BY <1>7, <2>1, <3>1, <3>2
  <2>4. QED
    BY <1>1, <2>1, <2>2, <2>3 DEF Running
<1>8. OneLeader'
  <2>1. ASSUME NEW k \in Keys, Running(k)'
        PROVE  \E q \in Queries : \A p \in Queries :
                  query'[p].at = "leads" /\ query'[p].key = k <=> p = q
    <3>1. ~ Cut(k) /\ Running(k)
      BY <1>4, <2>1 DEF Running
    <3>2. PICK q \in Queries : \A p \in Queries :
              query[p].at = "leads" /\ query[p].key = k <=> p = q
      BY <3>1 DEF QueryInv, OneLeader
    <3>3. q \in Connections
      <4>1. pending[k].tcp = (q \in Connections)
        BY <3>2 DEF QueryInv, LedByItsTransport
      <4>2. pending[k].tcp
        BY <3>1, <4>1 DEF Cut
      <4>3. QED
        BY <4>1, <4>2
    <3>4. query'[q] = query[q]
      BY <1>3, <1>0, <3>2, <3>3
    <3>5. \A p \in Queries : query'[p].at = "leads" => query'[p] = query[p]
      BY <1>3
    <3>6. QED
      BY <3>2, <3>4, <3>5
  <2>2. QED
    BY <1>7, <2>1 DEF OneLeader, Running
<1>9. LedByItsTransport'
  <2>1. ASSUME NEW q \in Queries, query'[q].at = "leads"
        PROVE  pending'[query'[q].key].tcp = (q \in Connections)
    BY <1>7, <2>1 DEF QueryInv, LedByItsTransport
  <2>2. QED
    BY <2>1 DEF LedByItsTransport
<1>10. OursIsNeverForeign'
  BY <1>3 DEF QueryInv, OursIsNeverForeign
<1>11. QED
  BY <1>5, <1>8, <1>9, <1>10 DEF QueryInv

\* A query answered at once is answered from the zone, from the cache when its name is not
\* in the zone, or with a refusal.
LEMMA ArrivalKeeps ==
    ASSUME QueryInv, RootIsFree(zone), NEW q \in Queries, NEW question \in Questions,
           \/ Refuse(q, question)
           \/ AnswerLocally(q, question)
           \/ AnswerFromCache(q, question)
           \/ ForwardQuery(q, question)
    PROVE  QueryInv'
<1>1. CASE Refuse(q, question)
  <2>. DEFINE reply == Reply(Refusals[question.form])
  <2>1. /\ query[q].at = "idle"
        /\ query' = [query EXCEPT ![q] = Idle(FALSE, reply)] /\ pending' = pending
    BY <1>1 DEF Refuse, MayArrive
  <2>. HIDE DEF reply
  <2>2. QED
    BY <2>1, AnsweredAtOnce
<1>2. CASE AnswerLocally(q, question)
  <2>. DEFINE reply == Reply(LocalReply(question))
  <2>1. /\ query[q].at = "idle"
        /\ query' = [query EXCEPT ![q] = Idle(TRUE, reply)] /\ pending' = pending
    BY <1>2 DEF AnswerLocally, MayArrive
  <2>2. reply.kind \notin {"cache", "upstream", "servfail"}
    BY DEF Reply, LocalReply
  <2>. HIDE DEF reply
  <2>3. QED
    BY <2>1, <2>2, AnsweredAtOnce
<1>3. CASE AnswerFromCache(q, question)
  <2>1. PICK i \in Hits(cache_key(question)) :
            query' = [query EXCEPT ![q] =
                        Idle(IsOurs(zone, question.name),
                             [Reply("cache") EXCEPT !.age = cache[i].age,
                                                    !.error = cache[i].error])]
    BY <1>3 DEF AnswerFromCache
  <2>. DEFINE reply == [Reply("cache") EXCEPT !.age = cache[i].age, !.error = cache[i].error]
  <2>2. IsOurs(zone, question.name) = FALSE
    BY <1>3 DEF AnswerFromCache, IsForeign, IsOurs
  <2>3. query' = [query EXCEPT ![q] = Idle(FALSE, reply)]
    BY <2>1, <2>2
  <2>4. query[q].at = "idle" /\ pending' = pending
    BY <1>3 DEF AnswerFromCache, MayArrive
  <2>. HIDE DEF reply
  <2>5. QED
    BY <2>3, <2>4, AnsweredAtOnce
<1>4. CASE ForwardQuery(q, question)
  BY <1>4, ForwardKeeps
<1>5. QED
  BY <1>1, <1>2, <1>3, <1>4

LEMMA EditedLookup ==
    ASSUME NEW p, NEW left, NEW failed, NEW stage,
           p = [left |-> p.left, stage |-> p.stage, tcp |-> p.tcp, failed |-> p.failed]
    PROVE  [p EXCEPT !.left = left, !.failed = failed, !.stage = stage] =
              [left |-> left, stage |-> stage, tcp |-> p.tcp, failed |-> failed]
<1>1. PICK l, g, c, f : p = [left |-> l, stage |-> g, tcp |-> c, failed |-> f]
  OBVIOUS
<1>2. p.tcp = c
  BY <1>1
<1>. DEFINE t == [p EXCEPT !.left = left, !.failed = failed, !.stage = stage]
<1>3. p \in [left : {l, left}, stage : {g, stage}, tcp : {c}, failed : {f, failed}]
  BY <1>1
<1>4. /\ t \in [left : {l, left}, stage : {g, stage}, tcp : {c}, failed : {f, failed}]
      /\ t.left = left /\ t.failed = failed /\ t.stage = stage
  BY <1>3
<1>5. t = [left |-> left, stage |-> stage, tcp |-> c, failed |-> failed]
  <2>. HIDE DEF t
  <2>1. QED
    BY <1>4
<1>6. QED
  BY <1>2, <1>5

LEMMA LookupKeeps ==
    ASSUME QueryInv, NEW key \in Keys, LookupStep(key)
    PROVE  QueryInv'
<1>. DEFINE lookup == pending[key]
<1>0. /\ lookup = [left |-> lookup.left, stage |-> lookup.stage, tcp |-> lookup.tcp,
                   failed |-> lookup.failed]
      /\ pending = [k \in Keys |-> pending[k]]
  BY DEF QueryInv, Shaped, LookupOk
<1>1. CASE \E e \in BOOLEAN, t \in Ttls : ServerAnswers(key, [error |-> e, ttl |-> t])
  <2>. DEFINE reply == Reply("upstream")
  <2>1. query' = Released(key, reply) /\ pending' = [pending EXCEPT ![key] = NoLookup]
    BY <1>1 DEF ServerAnswers
  <2>. HIDE DEF reply
  <2>2. QED
    BY <2>1, LookupEnds
<1>2. CASE ServerAnswersNothing(key)
  <2>. DEFINE reply == [Servfail(key) EXCEPT !.failed = @ \union {"empty"}]
  <2>1. query' = Released(key, reply) /\ pending' = [pending EXCEPT ![key] = NoLookup]
    BY <1>2 DEF ServerAnswersNothing
  <2>. HIDE DEF reply
  <2>2. QED
    BY <2>1, LookupEnds
<1>3. CASE ServerTruncates(key)
  <2>. DEFINE moved == [left |-> lookup.left, stage |-> "tcp", tcp |-> lookup.tcp,
                        failed |-> lookup.failed]
  <2>1. Running(key) /\ query' = query /\ pending' = [pending EXCEPT ![key].stage = "tcp"]
    BY <1>3 DEF ServerTruncates
  <2>2. [lookup EXCEPT !.stage = "tcp"] = moved
    <3>1. PICK l, g, c, f : lookup = [left |-> l, stage |-> g, tcp |-> c, failed |-> f]
      BY <1>0
    <3>2. QED
      BY <3>1
  <2>3. pending' = [pending EXCEPT ![key] = moved]
    BY <2>1, <2>2
  <2>4. QED
    BY <2>1, <2>3, LookupMoves
<1>4. CASE ServerFails(key)
  <2>. DEFINE failed == lookup.failed \union {Head(lookup.left)}
              reply  == [Reply("servfail") EXCEPT !.failed = failed]
              left   == Tail(lookup.left)
              stage  == FirstStage(lookup.tcp)
              moved  == [left |-> left, stage |-> stage, tcp |-> lookup.tcp, failed |-> failed]
  <2>1. CASE Len(lookup.left) > 1
    <3>1. /\ Running(key) /\ query' = query
          /\ pending' = [pending EXCEPT ![key] =
                [lookup EXCEPT !.left = left, !.failed = failed, !.stage = stage]]
      BY <1>4, <2>1 DEF ServerFails
    <3>2. [lookup EXCEPT !.left = left, !.failed = failed, !.stage = stage] = moved
      <4>1. lookup = [left |-> lookup.left, stage |-> lookup.stage, tcp |-> lookup.tcp,
                      failed |-> lookup.failed]
        BY <1>0
      <4>. HIDE DEF lookup, left, failed, stage
      <4>2. QED
        BY <4>1, EditedLookup
    <3>3. pending' = [pending EXCEPT ![key] = moved]
      BY <3>1, <3>2
    <3>4. stage \in {"udp", "tcp"}
      BY DEF FirstStage
    <3>. HIDE DEF failed, left, stage
    <3>5. QED
      BY <3>1, <3>3, <3>4, LookupMoves
  <2>2. CASE ~ (Len(lookup.left) > 1)
    <3>1. query' = Released(key, reply) /\ pending' = [pending EXCEPT ![key] = NoLookup]
      BY <1>4, <2>2 DEF ServerFails
    <3>. HIDE DEF reply
    <3>2. QED
      BY <3>1, LookupEnds
  <2>3. QED
    BY <2>1, <2>2
<1>5. QED
  BY <1>1, <1>2, <1>3, <1>4 DEF LookupStep

LEMMA QueryStep == QueryInv /\ RootIsFree(zone) /\ [Next]_vars => QueryInv'
<1>. SUFFICES ASSUME QueryInv, RootIsFree(zone), [Next]_vars
              PROVE  QueryInv'
  OBVIOUS
<1>1. CASE \E q \in Queries : Arrival(q)
  BY <1>1, ArrivalKeeps DEF Arrival
<1>2. CASE \E q \in Queries : Wake(q)
  BY <1>2, WakeKeeps
<1>3. CASE \E k \in Keys : LookupStep(k)
  BY <1>3, LookupKeeps
<1>4. CASE CancelDatagrams
  BY <1>4, CancelKeeps
<1>5. CASE query' = query /\ pending' = pending
  BY <1>5 DEF QueryInv, Shaped, OneLeader, LedByItsTransport, OursIsNeverForeign, Running
<1>6. QED
  BY <1>1, <1>2, <1>3, <1>4, <1>5 DEF Next, vars, apply, Tick, StopListening

LEMMA QueriesStayInOrder == Spec => []QueryInv
BY QueryInit, ZoneStaysRootFree, QueryStep, PTL DEF Spec

\* A name of the zone is never answered with what an upstream said, whatever was cached or
\* was being looked up when it became ours.
THEOREM OursStaysOurs == Spec => []OursIsNeverForeign
<1>1. QueryInv => OursIsNeverForeign
  BY DEF QueryInv
<1>2. QED
  BY <1>1, QueriesStayInOrder, PTL

\* A lookup in progress has exactly one leader, and nobody waits for a lookup that is over:
\* however servers fail, and whichever of the two transports is closed first.
THEOREM OneLookupPerQuestion == Spec => []OneLeader
<1>1. QueryInv => OneLeader
  BY DEF QueryInv
<1>2. QED
  BY <1>1, QueriesStayInOrder, PTL

-----------------------------------------------------------------------------
(* Servers. *)

LEMMA SizesAre ==
    /\ MinTtl \in Nat /\ MaxTtl \in Nat /\ NegativeTtl \in Nat /\ MaxEntries \in Nat
    /\ ColdTime \in Nat /\ MinTtl >= 1 /\ MaxEntries >= 1 /\ ColdTime >= 1
    /\ MinTtl <= NegativeTtl /\ NegativeTtl <= MaxTtl /\ Ttls \subseteq Nat
BY ResolverAssumption

LEMMA MinOfTwo ==
    ASSUME NEW a \in Int, NEW b \in Int PROVE Min({a, b}) = IF a <= b THEN a ELSE b
BY DEF Min

LEMMA MaxOfTwo ==
    ASSUME NEW a \in Int, NEW b \in Int PROVE Max({a, b}) = IF a >= b THEN a ELSE b
BY DEF Max

LEMMA RangeIs ==
    ASSUME NEW T, NEW s \in Seq(T)
    PROVE  s \in Seq(Range(s)) /\ Range(s) = {s[i] : i \in 1..Len(s)}
BY DEF Range

LEMMA SanitisedIs ==
    ASSUME NEW T, NEW raw \in Seq(T)
    PROVE  sanitise_upstreams(raw) \in Seq(T)
BY SublistIn DEF sanitise_upstreams

LEMMA ServersAre ==
    /\ servers \in Seq(ServerSet) /\ Len(servers) \in Nat
    /\ ServerSet = {servers[i] : i \in 1..Len(servers)}
    /\ servers # <<>>
<1>1. \E T : servers \in Seq(T)
  BY SanitisedIs, ResolverAssumption DEF servers
<1>2. servers \in Seq(Range(servers)) /\ Range(servers) = {servers[i] : i \in 1..Len(servers)}
  BY <1>1, RangeIs
<1>3. QED
  BY <1>2, ServersAssumption DEF ServerSet

\* Every server is asked before a lookup fails, the cold ones last.
LEMMA OrderIs ==
    ASSUME cold \in [ServerSet -> 0..ColdTime]
    PROVE  /\ _order \in Seq(ServerSet) /\ Range(_order) = ServerSet
           /\ _order # <<>>
<1>. DEFINE warmAt == {i \in DOMAIN servers : cold[servers[i]] = 0}
            coldAt == {i \in DOMAIN servers : cold[servers[i]] > 0}
            w == Sublist(servers, warmAt)
            c == Sublist(servers, coldAt)
<1>1. /\ servers \in Seq(ServerSet) /\ DOMAIN servers = 1..Len(servers)
      /\ ServerSet = {servers[i] : i \in 1..Len(servers)} /\ servers # <<>>
  BY ServersAre
<1>2. /\ w \in Seq(ServerSet) /\ c \in Seq(ServerSet)
      /\ \A i \in warmAt : i \in 1..Len(servers) => \E k \in 1..Len(w) : w[k] = servers[i]
      /\ \A i \in coldAt : i \in 1..Len(servers) => \E k \in 1..Len(c) : c[k] = servers[i]
  <2>. HIDE DEF warmAt, coldAt
  <2>1. /\ w \in Seq(ServerSet)
        /\ \A i \in warmAt : i \in 1..Len(servers) => \E k \in 1..Len(w) : w[k] = servers[i]
    BY <1>1, SublistIn, SublistHas
  <2>2. /\ c \in Seq(ServerSet)
        /\ \A i \in coldAt : i \in 1..Len(servers) => \E k \in 1..Len(c) : c[k] = servers[i]
    BY <1>1, SublistIn, SublistHas
  <2>3. QED
    BY <2>1, <2>2
<1>3. \A i \in 1..Len(servers) : i \in warmAt \/ i \in coldAt
  <2>1. ASSUME NEW i \in 1..Len(servers) PROVE i \in warmAt \/ i \in coldAt
    <3>1. servers[i] \in ServerSet
      BY <1>1
    <3>2. cold[servers[i]] \in 0..ColdTime
      BY <3>1
    <3>3. cold[servers[i]] = 0 \/ cold[servers[i]] > 0
      BY <3>2, SizesAre
    <3>4. QED
      BY <1>1, <3>3
  <2>2. QED
    BY <2>1
<1>4. _order = w \o c
  BY DEF _order
<1>. HIDE DEF w, c, warmAt, coldAt
<1>4a. Len(w) \in Nat /\ Len(c) \in Nat /\ w \o c \in Seq(ServerSet)
  BY <1>2
<1>5. /\ w \o c \in Seq(ServerSet) /\ Len(w \o c) = Len(w) + Len(c)
      /\ \A k \in 1..Len(w) : k \in 1..Len(w \o c) /\ (w \o c)[k] = w[k]
      /\ \A k \in 1..Len(c) : Len(w) + k \in 1..Len(w \o c) /\ (w \o c)[Len(w) + k] = c[k]
  BY <1>2, BothParts
<1>6. Range(w \o c) = {(w \o c)[i] : i \in 1..Len(w \o c)}
  <2>. DEFINE o == w \o c
  <2>1. o \in Seq(ServerSet)
    BY <1>4a
  <2>. HIDE DEF o
  <2>2. Range(o) = {o[i] : i \in 1..Len(o)}
    BY <2>1, RangeIs
  <2>3. QED
    BY <2>2 DEF o
<1>7. ASSUME NEW x \in ServerSet PROVE x \in Range(w \o c)
  <2>1. PICK i \in 1..Len(servers) : x = servers[i]
    BY <1>1
  <2>2. CASE i \in warmAt
    <3>1. PICK k \in 1..Len(w) : w[k] = x
      BY <1>2, <2>1, <2>2
    <3>2. QED
      BY <1>5, <1>6, <3>1
  <2>3. CASE i \in coldAt
    <3>1. PICK k \in 1..Len(c) : c[k] = x
      BY <1>2, <2>1, <2>3
    <3>2. QED
      BY <1>5, <1>6, <3>1
  <2>4. QED
    BY <1>3, <2>2, <2>3
<1>8. Range(w \o c) \subseteq ServerSet
  BY <1>5, <1>6
<1>9. Range(w \o c) = ServerSet
  BY <1>7, <1>8
<1>10. w \o c # <<>>
  <2>1. servers[1] \in ServerSet
    BY <1>1
  <2>2. Range(w \o c) # {}
    BY <1>9, <2>1
  <2>3. QED
    BY <1>6, <2>2
<1>11. QED
  BY <1>4, <1>5, <1>9, <1>10

-----------------------------------------------------------------------------
(* The cache. *)

CacheOk(c) ==
    /\ c \in Seq(Entries) /\ Len(c) <= MaxEntries
    /\ \A i, j \in 1..Len(c) : c[i].key = c[j].key => i = j
    /\ \A i \in 1..Len(c) : c[i].error => c[i].ttl <= NegativeTtl

LEMMA ClampedIs ==
    ASSUME NEW error \in BOOLEAN, NEW ttl \in Nat
    PROVE  /\ Clamped(error, ttl) \in MinTtl..MaxTtl
           /\ error => Clamped(error, ttl) <= NegativeTtl
<1>1. Min({ttl, NegativeTtl}) = IF ttl <= NegativeTtl THEN ttl ELSE NegativeTtl
  BY MinOfTwo, SizesAre
<1>. DEFINE allowed == IF error THEN Min({ttl, NegativeTtl}) ELSE ttl
<1>2. allowed \in Nat /\ (error => allowed <= NegativeTtl)
  BY <1>1, SizesAre
<1>3. Clamped(error, ttl) = Max({MinTtl, Min({allowed, MaxTtl})})
  BY DEF Clamped
<1>. HIDE DEF allowed
<1>4. Min({allowed, MaxTtl}) = IF allowed <= MaxTtl THEN allowed ELSE MaxTtl
  BY <1>2, MinOfTwo, SizesAre
<1>. DEFINE capped == Min({allowed, MaxTtl})
<1>5. capped \in Nat /\ capped <= MaxTtl /\ (error => capped <= NegativeTtl)
  BY <1>2, <1>4, SizesAre
<1>. HIDE DEF capped
<1>6. Max({MinTtl, capped}) = IF MinTtl >= capped THEN MinTtl ELSE capped
  BY <1>5, MaxOfTwo, SizesAre
<1>7. QED
  BY <1>3, <1>5, <1>6, SizesAre DEF capped

LEMMA EntryIs ==
    ASSUME NEW key \in Keys, NEW error \in BOOLEAN, NEW ttl \in Nat
    PROVE  LET e == Entry(key, [error |-> error, ttl |-> ttl])
           IN  /\ e \in Entries /\ e.key = key
               /\ e.error => e.ttl <= NegativeTtl
<1>1. /\ Clamped(error, ttl) \in MinTtl..MaxTtl
      /\ error => Clamped(error, ttl) <= NegativeTtl
  BY ClampedIs
<1>2. 0 \in 0..MaxTtl
  BY SizesAre
<1>3. QED
  BY <1>1, <1>2 DEF Entry, Entries

LEMMA SublistOk ==
    ASSUME NEW c, CacheOk(c), NEW places
    PROVE  CacheOk(Sublist(c, places))
<1>. DEFINE t == Sublist(c, places)
<1>0. /\ t \in Seq(Entries) /\ Len(t) <= Len(c)
      /\ \A k \in 1..Len(t) : \E i \in places : i \in 1..Len(c) /\ t[k] = c[i]
      /\ \A j, k \in 1..Len(t) : j < k =>
            \E g, h \in places : /\ g \in 1..Len(c) /\ h \in 1..Len(c) /\ g < h
                                 /\ t[j] = c[g] /\ t[k] = c[h]
  <2>1. c \in Seq(Entries)
    BY DEF CacheOk
  <2>2. QED
    BY <2>1, SublistIn, SublistFrom, SublistInOrder
<1>. HIDE DEF t
<1>1. Len(t) \in Nat /\ \A k \in 1..Len(t) : t[k] \in Entries
  BY <1>0
<1>2. ASSUME NEW j \in 1..Len(t), NEW k \in 1..Len(t), j < k PROVE t[j].key # t[k].key
  <2>1. PICK g, h \in places : /\ g \in 1..Len(c) /\ h \in 1..Len(c) /\ g < h
                               /\ t[j] = c[g] /\ t[k] = c[h]
    BY <1>0, <1>2
  <2>2. QED
    BY <2>1 DEF CacheOk
<1>3. \A j, k \in 1..Len(t) : t[j].key = t[k].key => j = k
  <2>1. \A j, k \in 1..Len(t) : j < k \/ k < j \/ j = k
    BY <1>1
  <2>2. QED
    BY <1>2, <2>1
<1>4. \A k \in 1..Len(t) : t[k].error => t[k].ttl <= NegativeTtl
  BY <1>0 DEF CacheOk
<1>5. Len(t) <= MaxEntries
  <2>1. Len(c) \in Nat /\ Len(c) <= MaxEntries
    BY DEF CacheOk
  <2>2. QED
    BY <1>0, <1>1, <2>1, SizesAre
<1>6. QED
  BY <1>0, <1>1, <1>3, <1>4, <1>5 DEF CacheOk, t

\* A cache that is full gives up its oldest entry; one key has one entry.
LEMMA PutOk ==
    ASSUME CacheOk(cache), NEW key \in Keys, NEW error \in BOOLEAN, NEW ttl \in Nat
    PROVE  CacheOk(put(key, [error |-> error, ttl |-> ttl]))
<1>. DEFINE e == Entry(key, [error |-> error, ttl |-> ttl])
            o == Others(key)
            es == Append(o, e)
            places == {i \in DOMAIN cache : cache[i].key # key}
<1>1. e \in Entries /\ e.key = key /\ (e.error => e.ttl <= NegativeTtl)
  BY EntryIs
<1>2. CacheOk(o)
  BY SublistOk DEF Others
<1>3. \A k \in 1..Len(o) : o[k].key # key
  <2>1. \A k \in 1..Len(o) : \E i \in places : i \in 1..Len(cache) /\ o[k] = cache[i]
    <3>1. cache \in Seq(Entries) /\ o = Sublist(cache, places)
      BY DEF CacheOk, Others
    <3>. HIDE DEF o, places
    <3>2. QED
      BY <3>1, SublistFrom
  <2>2. \A i \in places : cache[i].key # key
    OBVIOUS
  <2>. HIDE DEF o, places
  <2>3. QED
    BY <2>1, <2>2
<1>4. put(key, [error |-> error, ttl |-> ttl]) =
          IF Len(es) > MaxEntries THEN Tail(es) ELSE es
  BY DEF put
<1>. HIDE DEF e, o
<1>5. /\ o \in Seq(Entries) /\ Len(o) \in Nat /\ Len(o) <= MaxEntries
  BY <1>2 DEF CacheOk
<1>6. /\ es \in Seq(Entries) /\ Len(es) = Len(o) + 1 /\ es[Len(o) + 1] = e
      /\ \A k \in 1..Len(o) : es[k] = o[k]
  BY <1>1, <1>5
<1>. HIDE DEF es
<1>7. \A i, j \in 1..Len(es) : es[i].key = es[j].key => i = j
  <2>1. \A i \in 1..Len(es) : i \in 1..Len(o) \/ i = Len(o) + 1
    BY <1>5, <1>6
  <2>2. \A i \in 1..Len(o) : es[i].key # es[Len(o) + 1].key
    BY <1>1, <1>3, <1>6
  <2>3. \A i, j \in 1..Len(o) : es[i].key = es[j].key => i = j
    BY <1>2, <1>6 DEF CacheOk
  <2>4. QED
    BY <2>1, <2>2, <2>3
<1>8. \A i \in 1..Len(es) : es[i].error => es[i].ttl <= NegativeTtl
  <2>1. \A i \in 1..Len(es) : i \in 1..Len(o) \/ i = Len(o) + 1
    BY <1>5, <1>6
  <2>2. QED
    BY <1>1, <1>2, <1>6, <2>1 DEF CacheOk
<1>9. CASE Len(es) > MaxEntries
  <2>. DEFINE t == Tail(es)
  <2>1. /\ t \in Seq(Entries) /\ Len(t) = Len(es) - 1 /\ Len(es) \in Nat
        /\ \A k \in 1..Len(t) : k + 1 \in 1..Len(es) /\ t[k] = es[k + 1]
    BY <1>5, <1>6
  <2>. HIDE DEF t
  <2>2. \A i, j \in 1..Len(t) : t[i].key = t[j].key => i = j
    <3>1. ASSUME NEW i \in 1..Len(t), NEW j \in 1..Len(t), t[i].key = t[j].key PROVE i = j
      <4>1. i + 1 = j + 1
        BY <1>7, <2>1, <3>1
      <4>2. QED
        BY <4>1
    <3>2. QED
      BY <3>1
  <2>3. \A i \in 1..Len(t) : t[i].error => t[i].ttl <= NegativeTtl
    BY <1>8, <2>1
  <2>4. Len(t) <= MaxEntries
    BY <1>5, <1>6, <2>1, SizesAre
  <2>5. CacheOk(t)
    BY <2>1, <2>2, <2>3, <2>4 DEF CacheOk
  <2>6. QED
    BY <1>4, <1>9, <2>5 DEF t
<1>10. CASE ~ (Len(es) > MaxEntries)
  <2>1. Len(es) <= MaxEntries
    BY <1>5, <1>6, <1>10, SizesAre
  <2>2. CacheOk(es)
    BY <1>6, <1>7, <1>8, <2>1 DEF CacheOk
  <2>3. QED
    BY <1>4, <1>10, <2>2
<1>11. QED
  BY <1>9, <1>10

LEMMA AgedOk ==
    ASSUME CacheOk(cache)
    PROVE  CacheOk([i \in DOMAIN cache |-> [cache[i] EXCEPT !.age = Min({@ + 1, MaxTtl})]])
<1>. DEFINE n == Len(cache)
            older(e) == [e EXCEPT !.age = Min({@ + 1, MaxTtl})]
            aged == [i \in 1..n |-> older(cache[i])]
<1>1. cache \in Seq(Entries) /\ n \in Nat /\ DOMAIN cache = 1..n
  BY DEF CacheOk
<1>1a. \A i \in 1..n : cache[i] \in Entries
  BY <1>1
<1>2. ASSUME NEW i \in 1..n
      PROVE  /\ older(cache[i]) \in Entries /\ older(cache[i]).key = cache[i].key
             /\ older(cache[i]).error = cache[i].error /\ older(cache[i]).ttl = cache[i].ttl
  <2>1. cache[i] \in Entries /\ cache[i].age \in 0..MaxTtl
    BY <1>1a DEF Entries
  <2>. DEFINE age == Min({cache[i].age + 1, MaxTtl})
  <2>2. age \in 0..MaxTtl
    <3>1. cache[i].age + 1 \in Int /\ cache[i].age + 1 >= 0
      BY <2>1, SizesAre
    <3>2. age = IF cache[i].age + 1 <= MaxTtl THEN cache[i].age + 1 ELSE MaxTtl
      BY <3>1, MinOfTwo, SizesAre
    <3>3. QED
      BY <3>1, <3>2, SizesAre
  <2>3. older(cache[i]) = [cache[i] EXCEPT !.age = age]
    BY <2>1 DEF Entries
  <2>. HIDE DEF older, age
  <2>4. QED
    BY <2>1, <2>2, <2>3 DEF Entries
<1>. HIDE DEF older
<1>3. aged \in Seq(Entries) /\ Len(aged) = n /\ \A i \in 1..n : aged[i] = older(cache[i])
  BY <1>1, <1>2
<1>4. CacheOk(aged)
  <2>. HIDE DEF aged
  <2>1. QED
    BY <1>2, <1>3 DEF CacheOk
<1>5. QED
  BY <1>1, <1>4 DEF older

-----------------------------------------------------------------------------
(* What a lookup knows and what a reply rests on. *)

Slots == [at : Positions, key : Keys \union {NoKey}, ours : BOOLEAN, reply : Replies]

\* A server is left to be asked, or it has failed.
GoodLookup(p) ==
    /\ p \in Lookups
    /\ p # NoLookup => p.left # <<>> /\ p.failed \union Range(p.left) = ServerSet

GoodReply(r, open) ==
    /\ r \in Replies
    /\ r.kind = "cache" => r.age < MaxTtl /\ (r.error => r.age < NegativeTtl)
    /\ open /\ r.kind = "servfail" => r.failed = ServerSet \/ "empty" \in r.failed

GoodSlot(s, open) == s \in Slots /\ GoodReply(s.reply, open)

GoodLookups(p) == p \in [Keys -> Lookups] /\ \A k \in Keys : GoodLookup(p[k])

GoodQueries(s, open) == s \in [Queries -> Slots] /\ \A q \in Queries : GoodSlot(s[q], open)

Open == listening = "open"

ResolverInv ==
    /\ zone \in {from_domains(d) : d \in DomainLists}
    /\ CacheOk(cache)
    /\ cold \in [ServerSet -> 0..ColdTime]
    /\ GoodLookups(pending)
    /\ GoodQueries(query, Open)
    /\ listening \in {"open", "closing", "stopped"}

LEMMA ReplyIs ==
    ASSUME NEW kind \in {"none", "formerr", "nothing", "notimp", "refused", "address",
                         "nodata", "cache", "upstream", "servfail", "dropped"}
    PROVE  /\ Reply(kind) \in Replies /\ Reply(kind).kind = kind
           /\ Reply(kind).failed = {} /\ Reply(kind).age = 0 /\ Reply(kind).error = FALSE
BY SizesAre DEF Reply, Replies

LEMMA PlainReply ==
    ASSUME NEW kind \in {"none", "formerr", "nothing", "notimp", "refused", "address",
                         "nodata", "upstream", "dropped"}, NEW open
    PROVE  GoodReply(Reply(kind), open)
BY ReplyIs DEF GoodReply

LEMMA FailedReply ==
    ASSUME NEW failed \in SUBSET (ServerSet \union {"empty"}), NEW open,
           open => failed = ServerSet \/ "empty" \in failed
    PROVE  GoodReply([Reply("servfail") EXCEPT !.failed = failed], open)
<1>. DEFINE r == [Reply("servfail") EXCEPT !.failed = failed]
<1>1. Reply("servfail") \in Replies /\ Reply("servfail").kind = "servfail"
  BY ReplyIs
<1>2. r \in Replies /\ r.kind = "servfail" /\ r.failed = failed
  BY <1>1 DEF Replies
<1>. HIDE DEF r
<1>3. QED
  BY <1>2 DEF GoodReply, r

LEMMA GoodIdle ==
    ASSUME NEW ours \in BOOLEAN, NEW r, NEW open, GoodReply(r, open)
    PROVE  GoodSlot(Idle(ours, r), open)
BY DEF GoodSlot, Slots, Idle, Positions, GoodReply

LEMMA GoodDelivered ==
    ASSUME NEW q \in Queries, NEW r, NEW open, GoodReply(r, open)
    PROVE  GoodReply(Delivered(q, r), open)
BY PlainReply DEF Delivered

LEMMA GoodWoken ==
    ASSUME NEW s, NEW open, GoodSlot(s, open), NEW r, GoodReply(r, open)
    PROVE  GoodSlot([s EXCEPT !.at = "woken", !.reply = r], open)
<1>. DEFINE t == [s EXCEPT !.at = "woken", !.reply = r]
<1>1. s \in Slots /\ r \in Replies
  BY DEF GoodSlot, GoodReply
<1>2. t \in Slots /\ t.reply = r
  BY <1>1 DEF Slots, Positions
<1>. HIDE DEF t
<1>3. QED
  BY <1>2 DEF GoodSlot, t

LEMMA GoodReleased ==
    ASSUME NEW key \in Keys, NEW r, NEW open, GoodReply(r, open),
           \A q \in Queries : GoodSlot(query[q], open)
    PROVE  GoodQueries(Released(key, r), open)
<1>1. ASSUME NEW q \in Queries PROVE GoodSlot(Released(key, r)[q], open)
  <2>. DEFINE s == Released(key, r)[q]
  <2>1. GoodSlot(query[q], open) /\ query[q].ours \in BOOLEAN
    BY DEF GoodSlot, Slots
  <2>2. CASE query[q].key = key /\ query[q].at = "leads"
    <3>1. s = Idle(query[q].ours, Delivered(q, r))
      BY <2>2 DEF Released
    <3>2. QED
      BY <2>1, <3>1, GoodIdle, GoodDelivered
  <2>3. CASE query[q].key = key /\ query[q].at = "joins"
    <3>1. s = [query[q] EXCEPT !.at = "woken", !.reply = r]
      BY <2>3 DEF Released
    <3>2. GoodSlot([query[q] EXCEPT !.at = "woken", !.reply = r], open)
      BY <2>1, GoodWoken
    <3>3. QED
      BY <3>1, <3>2
  <2>4. CASE ~ (query[q].key = key /\ query[q].at \in {"leads", "joins"})
    <3>1. s = query[q]
      BY <2>4 DEF Released
    <3>2. QED
      BY <2>1, <3>1
  <2>5. QED
    BY <2>2, <2>3, <2>4
<1>2. \E f : Released(key, r) = [q \in Queries |-> f[q]]
  BY DEF Released
<1>3. QED
  <2>. DEFINE t == Released(key, r)
  <2>1. t = [q \in Queries |-> t[q]]
    <3>. HIDE DEF t
    <3>1. QED
      BY <1>2 DEF t
  <2>2. \A q \in Queries : t[q] \in Slots
    BY <1>1 DEF GoodSlot
  <2>. HIDE DEF t
  <2>3. t \in [Queries -> Slots]
    BY <2>1, <2>2
  <2>4. QED
    BY <1>1, <2>3 DEF t, GoodQueries

LEMMA SlotPut ==
    ASSUME NEW open, GoodQueries(query, open), NEW q \in Queries, NEW s, GoodSlot(s, open)
    PROVE  GoodQueries([query EXCEPT ![q] = s], open)
<1>1. s \in Slots
  BY DEF GoodSlot
<1>2. QED
  BY <1>1 DEF GoodQueries

LEMMA LookupPut ==
    ASSUME GoodLookups(pending), NEW key \in Keys, NEW p, GoodLookup(p)
    PROVE  GoodLookups([pending EXCEPT ![key] = p])
<1>1. p \in Lookups
  BY DEF GoodLookup
<1>2. QED
  BY <1>1 DEF GoodLookups

LEMMA ColdPut ==
    ASSUME cold \in [ServerSet -> 0..ColdTime], NEW server, NEW time \in 0..ColdTime
    PROVE  [cold EXCEPT ![server] = time] \in [ServerSet -> 0..ColdTime]
OBVIOUS

LEMMA NoLookupIs == GoodLookup(NoLookup)
<1>1. <<>> \in Seq(ServerSet)
  OBVIOUS
<1>2. QED
  BY <1>1 DEF GoodLookup, NoLookup, Lookups

LEMMA ResolverInit == Init => ResolverInv
<1>. SUFFICES ASSUME Init PROVE ResolverInv
  OBVIOUS
<1>1. CacheOk(<<>>)
  BY SizesAre DEF CacheOk
<1>2. cold \in [ServerSet -> 0..ColdTime]
  BY SizesAre DEF Init
<1>3. GoodLookups(pending)
  <2>1. NoLookup \in Lookups /\ GoodLookup(NoLookup)
    BY NoLookupIs DEF GoodLookup
  <2>2. pending = [k \in Keys |-> NoLookup]
    BY DEF Init
  <2>3. QED
    BY <2>1, <2>2 DEF GoodLookups
<1>4. GoodQueries(query, Open)
  <2>. DEFINE s == Idle(FALSE, NoReply)
  <2>1. GoodSlot(s, Open)
    BY PlainReply, GoodIdle DEF NoReply
  <2>2. query = [q \in Queries |-> s] /\ s \in Slots
    BY <2>1 DEF Init, GoodSlot
  <2>. HIDE DEF s
  <2>3. QED
    BY <2>1, <2>2 DEF GoodQueries
<1>5. QED
  BY <1>1, <1>2, <1>3, <1>4 DEF Init, ResolverInv

\* What each step leaves of the queries.
LEMMA ArrivalReplies ==
    ASSUME ResolverInv, NEW q \in Queries, NEW question \in Questions,
           \/ Refuse(q, question)
           \/ AnswerLocally(q, question)
           \/ AnswerFromCache(q, question)
           \/ ForwardQuery(q, question)
    PROVE  GoodQueries(query', Open) /\ listening' = listening
<1>0. GoodQueries(query, Open)
  BY DEF ResolverInv
<1>1. CASE Refuse(q, question)
  <2>. DEFINE kind == Refusals[question.form]
  <2>1. query' = [query EXCEPT ![q] = Idle(FALSE, Reply(kind))] /\ listening' = listening
    BY <1>1 DEF Refuse
  <2>2. kind \in {"formerr", "nothing", "notimp", "refused"}
    BY <1>1, ResolverAssumption DEF Refuse, Refusals
  <2>. HIDE DEF kind
  <2>3. GoodSlot(Idle(FALSE, Reply(kind)), Open)
    BY <2>2, PlainReply, GoodIdle
  <2>4. QED
    BY <1>0, <2>1, <2>3, SlotPut
<1>2. CASE AnswerLocally(q, question)
  <2>. DEFINE kind == LocalReply(question)
  <2>1. query' = [query EXCEPT ![q] = Idle(TRUE, Reply(kind))] /\ listening' = listening
    BY <1>2 DEF AnswerLocally
  <2>2. kind \in {"address", "nodata"}
    BY DEF LocalReply
  <2>. HIDE DEF kind
  <2>3. GoodSlot(Idle(TRUE, Reply(kind)), Open)
    BY <2>2, PlainReply, GoodIdle
  <2>4. QED
    BY <1>0, <2>1, <2>3, SlotPut
<1>3. CASE AnswerFromCache(q, question)
  <2>. DEFINE r(i) == [Reply("cache") EXCEPT !.age = cache[i].age, !.error = cache[i].error]
  <2>1. PICK i \in Hits(cache_key(question)) :
            query' = [query EXCEPT ![q] = Idle(IsOurs(zone, question.name), r(i))]
    BY <1>3 DEF AnswerFromCache
  <2>2. /\ cache[i] \in Entries /\ cache[i].age < cache[i].ttl
        /\ cache[i].error => cache[i].ttl <= NegativeTtl
    <3>1. i \in DOMAIN cache /\ cache[i].age < cache[i].ttl
      BY DEF Hits
    <3>2. cache \in Seq(Entries) /\ DOMAIN cache = 1..Len(cache)
      BY DEF ResolverInv, CacheOk
    <3>3. QED
      BY <3>1, <3>2 DEF ResolverInv, CacheOk
  <2>3. /\ cache[i].age \in 0..MaxTtl /\ cache[i].error \in BOOLEAN
        /\ cache[i].ttl \in MinTtl..MaxTtl
    BY <2>2 DEF Entries
  <2>4. cache[i].age < MaxTtl /\ (cache[i].error => cache[i].age < NegativeTtl)
    BY <2>2, <2>3, SizesAre
  <2>5. Reply("cache") \in Replies /\ Reply("cache").kind = "cache"
    BY ReplyIs
  <2>6. /\ r(i) \in Replies /\ r(i).kind = "cache" /\ r(i).age = cache[i].age
        /\ r(i).error = cache[i].error
    BY <2>3, <2>5 DEF Replies
  <2>7. IsOurs(zone, question.name) \in BOOLEAN
    BY DEF IsOurs
  <2>. HIDE DEF r
  <2>8. GoodReply(r(i), Open)
    BY <2>4, <2>6 DEF GoodReply
  <2>9. GoodSlot(Idle(IsOurs(zone, question.name), r(i)), Open)
    BY <2>7, <2>8, GoodIdle
  <2>10. listening' = listening
    BY <1>3 DEF AnswerFromCache
  <2>11. QED
    BY <1>0, <2>1, <2>9, <2>10, SlotPut
<1>4. CASE ForwardQuery(q, question)
  <2>. DEFINE key == cache_key(question)
  <2>1. key \in Keys
    BY <1>4, KeysAreKeys DEF ForwardQuery
  <2>2. \E at \in {"joins", "leads"} : query' = [query EXCEPT ![q] = Waiting(at, key)]
    BY <1>4 DEF ForwardQuery
  <2>3. GoodReply(NoReply, Open) /\ NoReply \in Replies
    BY PlainReply DEF NoReply, GoodReply
  <2>4. IsOurs(zone, key.name) \in BOOLEAN
    BY DEF IsOurs
  <2>. HIDE DEF key
  <2>5. \A at \in {"joins", "leads"} : GoodSlot(Waiting(at, key), Open)
    BY <2>1, <2>3, <2>4 DEF Waiting, GoodSlot, Slots, Positions
  <2>6. listening' = listening
    BY <1>4 DEF ForwardQuery
  <2>7. QED
    BY <1>0, <2>2, <2>5, <2>6, SlotPut
<1>5. QED
  BY <1>1, <1>2, <1>3, <1>4

\* A lookup begins with every server before it.
LEMMA ForwardLooksUp ==
    ASSUME ResolverInv, NEW q \in Queries, NEW question \in Questions,
           ForwardQuery(q, question)
    PROVE  GoodLookups(pending') /\ CacheOk(cache')
<1>. DEFINE key == cache_key(question)
            p == [left |-> _order, failed |-> {}, tcp |-> q \in Connections,
                  stage |-> FirstStage(q \in Connections)]
<1>1. key \in Keys
  BY KeysAreKeys DEF ForwardQuery
<1>2. CacheOk(cache')
  <2>1. cache' = AfterGet(key)
    BY DEF ForwardQuery
  <2>2. QED
    BY <2>1, SublistOk DEF AfterGet, ResolverInv
<1>3. pending' = pending \/ pending' = [pending EXCEPT ![key] = p]
  BY DEF ForwardQuery
<1>4. GoodLookup(p)
  <2>1. _order \in Seq(ServerSet) /\ Range(_order) = ServerSet /\ _order # <<>>
    BY OrderIs DEF ResolverInv
  <2>2. QED
    BY <2>1 DEF GoodLookup, Lookups, FirstStage
<1>. HIDE DEF p, key
<1>5. QED
  BY <1>1, <1>2, <1>3, <1>4, LookupPut DEF ResolverInv

LEMMA HeadAndTail ==
    ASSUME NEW T, NEW s \in Seq(T), s # <<>>
    PROVE  /\ Head(s) \in T /\ Tail(s) \in Seq(T)
           /\ Range(s) = {Head(s)} \union Range(Tail(s))
           /\ Len(s) > 1 <=> Tail(s) # <<>>
<1>1. /\ Len(s) \in Nat /\ Len(s) >= 1 /\ Head(s) = s[1] /\ Tail(s) \in Seq(T)
      /\ Len(Tail(s)) = Len(s) - 1
      /\ \A i \in 1..(Len(s) - 1) : Tail(s)[i] = s[i + 1]
  OBVIOUS
<1>. DEFINE t == Tail(s)
<1>2. t \in Seq(T) /\ Len(t) = Len(s) - 1 /\ \A i \in 1..(Len(s) - 1) : t[i] = s[i + 1]
  BY <1>1
<1>3. Head(s) \in T
  BY <1>1
<1>. HIDE DEF t
<1>4. /\ Range(s) = {s[i] : i \in 1..Len(s)}
      /\ Range(t) = {t[i] : i \in 1..Len(t)}
  BY <1>2, RangeIs
<1>5. ASSUME NEW x \in Range(s) PROVE x = s[1] \/ x \in Range(t)
  <2>1. PICK i \in 1..Len(s) : x = s[i]
    BY <1>4
  <2>2. CASE i > 1
    <3>1. i - 1 \in 1..Len(t) /\ t[i - 1] = s[(i - 1) + 1] /\ (i - 1) + 1 = i
      BY <1>1, <1>2, <2>2
    <3>2. QED
      BY <1>4, <2>1, <3>1
  <2>3. CASE ~ (i > 1)
    BY <1>1, <2>1, <2>3
  <2>4. QED
    BY <2>2, <2>3
<1>6. ASSUME NEW x \in Range(t) PROVE x \in Range(s)
  <2>1. PICK i \in 1..Len(t) : x = t[i]
    BY <1>4
  <2>2. i + 1 \in 1..Len(s) /\ x = s[i + 1]
    BY <1>1, <1>2, <2>1
  <2>3. QED
    BY <1>4, <2>2
<1>7. s[1] \in Range(s)
  BY <1>1, <1>4
<1>8. Range(s) = {s[1]} \union Range(t)
  BY <1>5, <1>6, <1>7
<1>9. Len(s) > 1 <=> t # <<>>
  BY <1>1, <1>2
<1>10. QED
  BY <1>1, <1>3, <1>8, <1>9 DEF t

\* A server that fails joins those that have failed, and the last of them ends the lookup:
\* that is when SERVFAIL is said.
LEMMA LookupRests ==
    ASSUME ResolverInv, NEW key \in Keys, LookupStep(key)
    PROVE  /\ GoodQueries(query', Open) /\ GoodLookups(pending') /\ listening' = listening
           /\ CacheOk(cache') /\ cold' \in [ServerSet -> 0..ColdTime]
<1>. DEFINE p == pending[key]
<1>0. /\ GoodQueries(query, Open) /\ GoodLookups(pending) /\ CacheOk(cache)
      /\ cold \in [ServerSet -> 0..ColdTime]
      /\ \A q \in Queries : GoodSlot(query[q], Open)
  BY DEF ResolverInv, GoodQueries
<1>1. /\ p \in Lookups /\ p.left \in Seq(ServerSet) /\ p.failed \in SUBSET ServerSet
      /\ p.tcp \in BOOLEAN
      /\ p # NoLookup => p.left # <<>> /\ p.failed \union Range(p.left) = ServerSet
  BY <1>0 DEF GoodLookups, GoodLookup, Lookups
<1>2. 0 \in 0..ColdTime /\ ColdTime \in 0..ColdTime
  BY SizesAre
<1>3. GoodLookup(NoLookup)
  BY NoLookupIs
<1>. HIDE DEF p
<1>4. CASE \E e \in BOOLEAN, t \in Ttls : ServerAnswers(key, [error |-> e, ttl |-> t])
  <2>1. PICK e \in BOOLEAN, t \in Ttls : ServerAnswers(key, [error |-> e, ttl |-> t])
    BY <1>4
  <2>. DEFINE answer == [error |-> e, ttl |-> t]
  <2>2. /\ Running(key) /\ cold' = [cold EXCEPT ![Head(p.left)] = 0]
        /\ cache' = put(key, answer) /\ query' = Released(key, Reply("upstream"))
        /\ pending' = [pending EXCEPT ![key] = NoLookup] /\ listening' = listening
    BY <2>1 DEF ServerAnswers, p
  <2>3. CacheOk(put(key, answer))
    BY <1>0, PutOk, SizesAre
  <2>. HIDE DEF answer
  <2>4. GoodQueries(query', Open)
    BY <1>0, <2>2, PlainReply, GoodReleased
  <2>5. QED
    BY <1>0, <1>2, <1>3, <2>2, <2>3, <2>4, LookupPut, ColdPut
<1>5. CASE ServerAnswersNothing(key)
  <2>. DEFINE failed == p.failed \union {"empty"}
              r == [Reply("servfail") EXCEPT !.failed = failed]
              given == [Servfail(key) EXCEPT !.failed = @ \union {"empty"}]
  <2>1. given = r
    <3>1. Reply("servfail") = [kind |-> "servfail", age |-> 0, error |-> FALSE, failed |-> {}]
      BY DEF Reply
    <3>2. Servfail(key) = [Reply("servfail") EXCEPT !.failed = p.failed]
      BY DEF Servfail, p
    <3>3. QED
      BY <3>1, <3>2
  <2>2. /\ Running(key) /\ cold' = [cold EXCEPT ![Head(p.left)] = 0]
        /\ query' = Released(key, given) /\ cache' = cache
        /\ pending' = [pending EXCEPT ![key] = NoLookup] /\ listening' = listening
    BY <1>5 DEF ServerAnswersNothing, p
  <2>3. GoodReply(r, Open)
    BY <1>1, FailedReply
  <2>. HIDE DEF r, given
  <2>4. GoodQueries(query', Open)
    BY <1>0, <2>1, <2>2, <2>3, GoodReleased
  <2>5. QED
    BY <1>0, <1>2, <1>3, <2>2, <2>4, LookupPut, ColdPut
<1>6. CASE ServerTruncates(key)
  <2>. DEFINE moved == [p EXCEPT !.stage = "tcp"]
  <2>1. /\ Running(key) /\ pending' = [pending EXCEPT ![key] = moved]
        /\ UNCHANGED <<cache, cold, query, listening>>
    BY <1>6 DEF ServerTruncates, p
  <2>2. moved \in Lookups /\ moved.left = p.left /\ moved.failed = p.failed
    BY <1>1 DEF Lookups
  <2>3. p # NoLookup
    BY <2>1 DEF Running, p
  <2>. HIDE DEF moved
  <2>4. GoodLookup(moved)
    BY <1>1, <2>2, <2>3 DEF GoodLookup
  <2>5. QED
    BY <1>0, <2>1, <2>4, LookupPut
<1>7. CASE ServerFails(key)
  <2>. DEFINE failed == p.failed \union {Head(p.left)}
              r == [Reply("servfail") EXCEPT !.failed = failed]
              moved == [p EXCEPT !.left = Tail(p.left), !.failed = failed,
                                 !.stage = FirstStage(p.tcp)]
  <2>1. /\ Running(key) /\ cold' = [cold EXCEPT ![Head(p.left)] = ColdTime]
        /\ IF Len(p.left) > 1
           THEN pending' = [pending EXCEPT ![key] = moved] /\ query' = query
           ELSE pending' = [pending EXCEPT ![key] = NoLookup] /\ query' = Released(key, r)
        /\ cache' = cache /\ listening' = listening
    BY <1>7 DEF ServerFails, p
  <2>2. p # NoLookup
    BY <2>1 DEF Running, p
  <2>3. /\ Tail(p.left) \in Seq(ServerSet) /\ Head(p.left) \in ServerSet
        /\ Range(p.left) = {Head(p.left)} \union Range(Tail(p.left))
        /\ Len(p.left) > 1 <=> Tail(p.left) # <<>>
    BY <1>1, <2>2, HeadAndTail
  <2>4. failed \in SUBSET ServerSet /\ failed \union Range(Tail(p.left)) = ServerSet
    BY <1>1, <2>2, <2>3
  <2>5. cold' \in [ServerSet -> 0..ColdTime]
    BY <1>0, <1>2, <2>1, ColdPut
  <2>6. CASE Len(p.left) > 1
    <3>1. moved \in Lookups /\ moved.left = Tail(p.left) /\ moved.failed = failed
      <4>1. FirstStage(p.tcp) \in {"udp", "tcp"}
        BY DEF FirstStage
      <4>. HIDE DEF failed
      <4>2. QED
        BY <1>1, <2>3, <2>4, <4>1 DEF Lookups
    <3>. HIDE DEF moved, failed
    <3>2. GoodLookup(moved)
      BY <2>3, <2>4, <2>6, <3>1 DEF GoodLookup
    <3>3. QED
      BY <1>0, <2>1, <2>5, <2>6, <3>2, LookupPut
  <2>7. CASE ~ (Len(p.left) > 1)
    <3>1. Range(Tail(p.left)) = {}
      <4>1. Tail(p.left) = <<>>
        BY <2>3, <2>7
      <4>2. QED
        BY <4>1 DEF Range
    <3>2. failed = ServerSet
      BY <2>4, <3>1
    <3>3. GoodReply(r, Open)
      BY <2>4, <3>2, FailedReply
    <3>. HIDE DEF r, failed
    <3>4. GoodQueries(query', Open)
      BY <1>0, <2>1, <2>7, <3>3, GoodReleased
    <3>5. QED
      BY <1>0, <1>3, <2>1, <2>5, <2>7, <3>4, LookupPut
  <2>8. QED
    BY <2>6, <2>7
<1>8. QED
  BY <1>4, <1>5, <1>6, <1>7 DEF LookupStep

LEMMA ResolverStep == ResolverInv /\ OneLeader /\ [Next]_vars => ResolverInv'
<1>. SUFFICES ASSUME ResolverInv, OneLeader, [Next]_vars
              PROVE  ResolverInv'
  OBVIOUS
<1>. DEFINE Rest == /\ zone' \in {from_domains(d) : d \in DomainLists} /\ CacheOk(cache')
                    /\ cold' \in [ServerSet -> 0..ColdTime] /\ GoodLookups(pending')
                    /\ listening' \in {"open", "closing", "stopped"}
<1>0. /\ zone \in {from_domains(d) : d \in DomainLists} /\ CacheOk(cache)
      /\ cold \in [ServerSet -> 0..ColdTime] /\ GoodLookups(pending)
      /\ GoodQueries(query, Open) /\ listening \in {"open", "closing", "stopped"}
  BY DEF ResolverInv
<1>1. ASSUME NEW q \in Queries, Arrival(q)
      PROVE  Rest /\ GoodQueries(query', Open) /\ listening' = listening
  <2>1. PICK question \in Questions :
            \/ Refuse(q, question)
            \/ AnswerLocally(q, question)
            \/ AnswerFromCache(q, question)
            \/ ForwardQuery(q, question)
    BY <1>1 DEF Arrival
  <2>2. GoodQueries(query', Open) /\ listening' = listening
    BY <2>1, ArrivalReplies
  <2>3. UNCHANGED <<zone, cold>>
    BY <2>1 DEF Refuse, AnswerLocally, AnswerFromCache, ForwardQuery
  <2>4. GoodLookups(pending') /\ CacheOk(cache')
    <3>1. CASE ForwardQuery(q, question)
      BY <3>1, ForwardLooksUp
    <3>2. CASE UNCHANGED <<cache, pending>>
      BY <1>0, <3>2
    <3>3. QED
      BY <2>1, <3>1, <3>2 DEF Refuse, AnswerLocally, AnswerFromCache
  <2>5. QED
    BY <1>0, <2>2, <2>3, <2>4
<1>2. ASSUME NEW q \in Queries, Wake(q)
      PROVE  Rest /\ GoodQueries(query', Open) /\ listening' = listening
  <2>1. GoodSlot(query[q], Open)
    BY <1>0 DEF GoodQueries
  <2>2. GoodReply(query[q].reply, Open) /\ query[q].ours \in BOOLEAN
    BY <2>1 DEF GoodSlot, Slots
  <2>3. GoodSlot(Idle(query[q].ours, Delivered(q, query[q].reply)), Open)
    BY <2>2, GoodDelivered, GoodIdle
  <2>4. /\ query' = [query EXCEPT ![q] = Idle(query[q].ours, Delivered(q, query[q].reply))]
        /\ UNCHANGED <<zone, cache, pending, cold, listening>>
    BY <1>2 DEF Wake
  <2>5. QED
    BY <1>0, <2>3, <2>4, SlotPut
<1>3. ASSUME NEW k \in Keys, LookupStep(k)
      PROVE  Rest /\ GoodQueries(query', Open) /\ listening' = listening
  <2>1. zone' = zone
    BY <1>3 DEF LookupStep, ServerAnswers, ServerAnswersNothing, ServerTruncates, ServerFails
  <2>2. QED
    BY <1>0, <1>3, <2>1, LookupRests
<1>4. ASSUME NEW d \in DomainLists, apply(d)
      PROVE  Rest /\ GoodQueries(query', Open) /\ listening' = listening
  <2>1. CacheOk(<<>>)
    BY SizesAre DEF CacheOk
  <2>2. QED
    BY <1>0, <1>4, <2>1 DEF apply
<1>5. ASSUME Tick
      PROVE  Rest /\ GoodQueries(query', Open) /\ listening' = listening
  <2>1. CacheOk(cache')
    BY <1>0, <1>5, AgedOk DEF Tick
  <2>2. cold' \in [ServerSet -> 0..ColdTime]
    <3>1. ASSUME NEW s \in ServerSet PROVE Max({cold[s] - 1, 0}) \in 0..ColdTime
      <4>1. cold[s] \in Int /\ cold[s] <= ColdTime /\ cold[s] - 1 \in Int
        BY <1>0, SizesAre
      <4>2. Max({cold[s] - 1, 0}) = IF cold[s] - 1 >= 0 THEN cold[s] - 1 ELSE 0
        BY <4>1, MaxOfTwo
      <4>3. QED
        BY <4>1, <4>2, SizesAre
    <3>2. cold' = [s \in ServerSet |-> Max({cold[s] - 1, 0})]
      BY <1>5 DEF Tick
    <3>3. QED
      BY <3>1, <3>2
  <2>3. QED
    BY <1>0, <1>5, <2>1, <2>2 DEF Tick
<1>6. ASSUME StopListening
      PROVE  Rest /\ GoodQueries(query', FALSE) /\ ~ Open'
  <2>1. GoodQueries(query, FALSE)
    BY <1>0 DEF GoodQueries, GoodSlot, GoodReply
  <2>2. QED
    BY <1>0, <1>6, <2>1 DEF StopListening, Open
<1>7. ASSUME CancelDatagrams
      PROVE  Rest /\ GoodQueries(query', FALSE) /\ ~ Open'
  <2>. DEFINE Cut(k) == Running(k) /\ ~ pending[k].tcp
              Given(q) == query[q].at # "idle" /\ q \in Datagrams
              Led(q)   == query[q].at = "joins" /\ q \in Connections /\ Cut(query[q].key)
              Kept(q)  == CASE Given(q) -> Idle(query[q].ours, Reply("dropped"))
                            [] Led(q)   -> [query[q] EXCEPT !.at = "woken",
                                                            !.reply = Servfail(query[q].key)]
                            [] OTHER    -> query[q]
  <2>1. /\ pending' = [k \in Keys |-> IF Cut(k) THEN NoLookup ELSE pending[k]]
        /\ query' = [q \in Queries |-> Kept(q)]
        /\ UNCHANGED <<zone, cache, cold>> /\ listening' = "stopped"
    BY <1>7 DEF CancelDatagrams
  <2>2. GoodLookups(pending')
    <3>1. NoLookup \in Lookups /\ GoodLookup(NoLookup)
      BY NoLookupIs DEF GoodLookup
    <3>. HIDE DEF Cut
    <3>2. QED
      BY <1>0, <2>1, <3>1 DEF GoodLookups
  <2>3. ASSUME NEW q \in Queries PROVE GoodSlot(Kept(q), FALSE)
    <3>1. GoodSlot(query[q], FALSE) /\ query[q].ours \in BOOLEAN
      BY <1>0 DEF GoodQueries, GoodSlot, GoodReply, Slots
    <3>2. CASE Given(q)
      <4>1. ~ Led(q)
        BY <3>2, ResolverAssumption
      <4>. HIDE DEF Given, Led
      <4>2. Kept(q) = Idle(query[q].ours, Reply("dropped"))
        BY <3>2, <4>1
      <4>3. GoodSlot(Idle(query[q].ours, Reply("dropped")), FALSE)
        BY <3>1, PlainReply, GoodIdle
      <4>4. QED
        BY <4>2, <4>3
    <3>3. CASE Led(q)
      <4>1. ~ Given(q)
        BY <3>3, ResolverAssumption
      <4>2. query[q].key \in Keys
        BY <3>3 DEF OneLeader
      <4>3. pending[query[q].key].failed \in SUBSET ServerSet
        BY <1>0, <4>2 DEF GoodLookups, Lookups
      <4>4. GoodReply(Servfail(query[q].key), FALSE)
        BY <4>3, FailedReply DEF Servfail
      <4>5. GoodSlot([query[q] EXCEPT !.at = "woken", !.reply = Servfail(query[q].key)], FALSE)
        BY <3>1, <4>4, GoodWoken
      <4>. HIDE DEF Given, Led
      <4>6. QED
        BY <3>3, <4>1, <4>5
    <3>4. CASE ~ Given(q) /\ ~ Led(q)
      <4>. HIDE DEF Given, Led
      <4>1. QED
        BY <3>1, <3>4
    <3>5. QED
      BY <3>2, <3>3, <3>4
  <2>. HIDE DEF Kept
  <2>4. GoodQueries(query', FALSE)
    <3>1. \A q \in Queries : Kept(q) \in Slots
      BY <2>3 DEF GoodSlot
    <3>2. QED
      BY <2>1, <2>3, <3>1 DEF GoodQueries
  <2>5. QED
    BY <1>0, <2>1, <2>2, <2>4 DEF Open
<1>8. CASE UNCHANGED vars
  BY <1>8 DEF vars, ResolverInv, Open, Running
<1>9. CASE Rest /\ GoodQueries(query', Open) /\ listening' = listening
  BY <1>9 DEF ResolverInv, Open
<1>10. CASE Rest /\ GoodQueries(query', FALSE) /\ ~ Open'
  BY <1>10 DEF ResolverInv, Open
<1>. HIDE DEF Rest
<1>11. QED
  BY <1>1, <1>2, <1>3, <1>4, <1>5, <1>6, <1>7, <1>8, <1>9, <1>10 DEF Next

LEMMA ResolverStaysGood == Spec => []ResolverInv
BY ResolverInit, ResolverStep, OneLookupPerQuestion, PTL DEF Spec

\* The state stays well formed; the cache never outgrows MAX_ENTRIES nor holds two entries
\* of one key, however queries, answers and changes of the zone alternate.
THEOREM ResolverTypeCorrect == Spec => []ResolverTypeOK
<1>1. ResolverInv => ResolverTypeOK
  <2>. SUFFICES ASSUME ResolverInv PROVE ResolverTypeOK
    OBVIOUS
  <2>1. DOMAIN zone = {"exact", "wildcards"}
    <3>1. PICK domains \in DomainLists : zone = from_domains(domains)
      BY DEF ResolverInv
    <3>2. QED
      BY <3>1 DEF from_domains
  <2>2. /\ cache \in Seq(Entries) /\ Len(cache) <= MaxEntries
        /\ \A i, j \in DOMAIN cache : cache[i].key = cache[j].key => i = j
    BY DEF ResolverInv, CacheOk
  <2>3. pending \in [Keys -> Lookups] /\ \A k \in Keys : Running(k) => pending[k].left # <<>>
    BY DEF ResolverInv, GoodLookups, GoodLookup, Running
  <2>4. query \in [Queries -> [at : {"idle", "leads", "joins", "woken"},
                                key : Keys \union {NoKey}, ours : BOOLEAN, reply : Replies]]
    BY DEF ResolverInv, GoodQueries, Slots, Positions
  <2>5. QED
    BY <2>1, <2>2, <2>3, <2>4 DEF ResolverInv, ResolverTypeOK
<1>2. QED
  BY <1>1, ResolverStaysGood, PTL

\* No answer is given from the cache past MAX_TTL, and no failure past MAX_NEGATIVE_TTL,
\* whatever lifetimes the servers announce.
THEOREM CacheStaysFresh == Spec => []FreshFromCache
<1>1. ResolverInv => FreshFromCache
  BY DEF ResolverInv, GoodQueries, GoodSlot, GoodReply, FreshFromCache
<1>2. QED
  BY <1>1, ResolverStaysGood, PTL

\* While the listener is up, SERVFAIL means that every server has failed in the lookup the
\* query waited for, those passed over at first included, or that one sent nothing.
THEOREM ServfailStaysHonest == Spec => []ServfailIsHonest
<1>1. ResolverInv => ServfailIsHonest
  <2>. SUFFICES ASSUME ResolverInv, NEW q \in Queries, Open, query[q].reply.kind = "servfail"
                PROVE  \/ query[q].reply.failed = ServerSet
                       \/ /\ query[q].reply.failed \in SUBSET (ServerSet \union {"empty"})
                          /\ "empty" \in query[q].reply.failed
    BY DEF ServfailIsHonest, Open
  <2>1. GoodReply(query[q].reply, Open)
    BY DEF ResolverInv, GoodQueries, GoodSlot
  <2>2. QED
    BY <2>1 DEF GoodReply, Replies
<1>2. QED
  BY <1>1, ResolverStaysGood, PTL

-----------------------------------------------------------------------------
(* The zone in force. *)

LEMMA ListsAreNamed ==
    ASSUME NEW domains \in DomainLists \union ProbedLists
    PROVE  /\ domains \in Seq(NamedRecords)
           /\ domains \in DomainLists => \A i \in 1..Len(domains) : validate(domains[i].name).ok
<1>1. domains \in Seq(Range(domains))
  BY RecordsAssumption
<1>2. Len(domains) \in Nat /\ Range(domains) = {domains[i] : i \in 1..Len(domains)}
  BY <1>1, RangeIs
<1>3. ASSUME NEW d \in Range(domains) PROVE d \in NamedRecords
  <2>1. /\ d = Domain(d.name, d.address, d.enabled)
        /\ d.name \in Seq(Labels) /\ normalise(d.name) # <<>>
        /\ d.address \in Addresses /\ d.enabled \in BOOLEAN
    BY RecordsAssumption
  <2>2. QED
    BY <2>1 DEF Domain, NamedRecords
<1>4. domains \in Seq(NamedRecords)
  BY <1>1, <1>3
<1>5. QED
  BY <1>2, <1>4, RecordsAssumption

\* The zone in force answers by rank, whatever the store holds: a name before a subtree, a
\* deeper subtree before a shallower one, the later of two records of one name.
THEOREM ZoneInForceAnswersByRank == Spec => []MostSpecific
<1>1. Misanswered = {}
  <2>1. ASSUME NEW domains \in ProbedLists, NEW qname \in ProbedNames
        PROVE  AnswersByRank(domains, qname)
    <3>1. domains \in Seq(NamedRecords) /\ qname \in Seq(Labels)
      BY ListsAreNamed, RecordsAssumption
    <3>2. QED
      BY <3>1, ZoneAnswersByRank
  <2>2. QED
    BY <2>1 DEF Misanswered
<1>2. ResolverInv => MostSpecific
  BY <1>1 DEF ResolverInv, MostSpecific
<1>3. QED
  BY <1>2, ResolverStaysGood, PTL

\* A zone made of names that validate lets through claims no name of one label.
THEOREM ZoneInForceIsServable == Spec => []AcceptedIsServed
<1>1. Unservable = {}
  <2>1. \A raw \in ProbedInputs : raw \in Seq(Labels)
    BY RecordsAssumption
  <2>2. QED
    BY <2>1, WhatIsAcceptedIsServed DEF Unservable
<1>2. ASSUME NEW domains \in DomainLists, NEW wildcard \in BOOLEAN,
             NEW n \in DOMAIN Table(domains, wildcard)
      PROVE  Len(n) > 1
  <2>1. domains \in Seq(NamedRecords) /\ \A i \in 1..Len(domains) : validate(domains[i].name).ok
    BY ListsAreNamed
  <2>2. PICK i \in Tabled(domains, wildcard) : n = KeyOf(domains[i])
    BY <2>1, TableKeys
  <2>3. i \in 1..Len(domains) /\ domains[i] \in NamedRecords
    BY <2>1, <2>2 DEF Tabled
  <2>. DEFINE name == normalise(domains[i].name)
  <2>4. name \in Seq(Labels) /\ name # <<>>
    BY <2>3, NormaliseIs DEF NamedRecords
  <2>5. NameErrors(name) = {}
    BY <2>1, <2>3 DEF validate
  <2>6. n = apex_of(name)
    BY <2>2 DEF KeyOf
  <2>7. QED
    BY <2>4, <2>5, <2>6, TwoLabels
<1>3. ResolverInv => AcceptedIsServed
  <2>. SUFFICES ASSUME ResolverInv, NEW n \in DOMAIN zone.exact \union DOMAIN zone.wildcards
                PROVE  Len(n) > 1
    BY <1>1 DEF AcceptedIsServed
  <2>1. PICK domains \in DomainLists : zone = from_domains(domains)
    BY DEF ResolverInv
  <2>2. zone.exact = Table(domains, FALSE) /\ zone.wildcards = Table(domains, TRUE)
    BY <2>1 DEF from_domains
  <2>3. QED
    BY <1>2, <2>2
<1>4. QED
  BY <1>3, ResolverStaysGood, PTL
=============================================================================
