------------------------------ MODULE Resolver ------------------------------
(***************************************************************************)
(* The resolver of a running daemon (src/resolver/): a query is answered   *)
(* from the zone, from the cache, or by one shared lookup that asks the    *)
(* upstream servers in turn.                                               *)
(*                                                                         *)
(* asyncio runs one piece of code at a time, so a step here is what runs   *)
(* between two awaits: from the arrival of a query to its answer or to the *)
(* first datagram of its lookup; from the answer of a server to the end of *)
(* the lookup, the cache and the leader's reply included; from the wake-up *)
(* of a query that joined to its reply.                                    *)
(*                                                                         *)
(* A query keeps, once answered, what the answer was and what was known    *)
(* when it was asked, until its slot is used again: the properties are     *)
(* stated over that.                                                       *)
(***************************************************************************)
EXTENDS Zone, Sublists, Functions

CONSTANTS
    Datagrams,      \* slots for queries that came in a datagram...
    Connections,    \* ...and for those of TCP connections
    Questions,      \* [form, name, type, do]: what clients ask
    DomainLists,    \* the lists of records the store may hold
    V6Addresses,    \* the addresses among Addresses that are IPv6
    Captured,       \* the name servers the system was using
    Fallback,       \* settings.fallback_upstreams
    OurAddresses,   \* listening, loopback and unspecified addresses
    Ttls,           \* lifetimes upstream answers carry
    MinTtl, MaxTtl, NegativeTtl,    \* MIN_TTL, MAX_TTL, MAX_NEGATIVE_TTL
    MaxEntries,     \* MAX_ENTRIES
    ColdTime,       \* COLD_SECONDS
    ProbedLists,    \* lists of records and names over which the precedence
    ProbedNames,    \* of the zone is checked...
    ProbedInputs    \* ...and what is typed as a name

Queries == Datagrams \union Connections

ASSUME ResolverAssumption ==
    /\ Datagrams \intersect Connections = {}
    /\ V6Addresses \subseteq Addresses
    /\ {MinTtl, MaxTtl, NegativeTtl, MaxEntries, ColdTime} \subseteq Nat \ {0}
    /\ Ttls \subseteq Nat
    /\ MinTtl <= NegativeTtl /\ NegativeTtl <= MaxTtl
    /\ <<>> \in DomainLists
    /\ Captured \in Seq(Range(Captured)) /\ Fallback \in Seq(Range(Fallback))
    /\ \A question \in Questions :
          /\ question.form \in {"good", "unreadable", "short", "opcode", "questions", "class"}
          /\ question.name \in Seq(Labels)

(* The zone is made of named records; those of a store carry names that    *)
(* the interfaces let through (Editing).                                   *)
ASSUME RecordsAssumption ==
    /\ \A domains \in DomainLists \union ProbedLists :
          /\ domains \in Seq(Range(domains))
          /\ \A d \in Range(domains) :
                /\ d = Domain(d.name, d.address, d.enabled)
                /\ d.name \in Seq(Labels) /\ normalise(d.name) # <<>>
                /\ d.address \in Addresses /\ d.enabled \in BOOLEAN
    /\ \A domains \in DomainLists : \A d \in Range(domains) : validate(d.name).ok
    /\ ProbedNames \union ProbedInputs \subseteq Seq(Labels)

VARIABLES
    zone,       \* Resolver._zone
    cache,      \* Cache._entries, oldest first
    pending,    \* Upstream._inflight: by key, the lookup in progress
    cold,       \* Upstream._cold: how long a server is still passed over
    query,      \* by slot, a query and what became of it
    listening   \* "open", "closing" once Server.stop began, then "stopped"

vars == <<zone, cache, pending, cold, query, listening>>

-----------------------------------------------------------------------------
(* Upstream servers and keys.                                              *)

(* Nothing that leads back here, and nothing twice.                        *)
sanitise_upstreams(raw) ==
    Sublist(raw, {i \in DOMAIN raw : /\ raw[i] \notin OurAddresses
                                     /\ \A j \in 1..(i - 1) : raw[j] # raw[i]})

(* Upstream.servers, as capture_upstreams finds them.                      *)
servers ==
    IF sanitise_upstreams(Captured) = <<>>
    THEN sanitise_upstreams(Fallback) ELSE sanitise_upstreams(Captured)

ASSUME ServersAssumption == servers # <<>>

ServerSet == Range(servers)

cache_key(question) ==
    [name |-> normalise(question.name), type |-> question.type, do |-> question.do]

Keys == {cache_key(q) : q \in {p \in Questions : p.form = "good"}}

\* Mutant: while one server is warm, those that failed lately are not asked.
OrderWarmOnly ==
    LET warm == Sublist(servers, {i \in DOMAIN servers : cold[servers[i]] = 0})
    IN  IF warm = <<>> THEN servers ELSE warm

_order == Sublist(servers, {i \in DOMAIN servers : cold[servers[i]] = 0})
              \o Sublist(servers, {i \in DOMAIN servers : cold[servers[i]] > 0})

-----------------------------------------------------------------------------
(* The cache.                                                              *)

\* Mutant: a failure is kept as long as an answer.
ClampedAlike(error, ttl) == Max({MinTtl, Min({ttl, MaxTtl})})

Clamped(error, ttl) ==
    Max({MinTtl, Min({IF error THEN Min({ttl, NegativeTtl}) ELSE ttl, MaxTtl})})

Hits(key) == {i \in DOMAIN cache : cache[i].key = key /\ cache[i].age < cache[i].ttl}

(* get drops an entry it finds expired.                                    *)
AfterGet(key) ==
    Sublist(cache, {i \in DOMAIN cache : ~ (cache[i].key = key /\ cache[i].age >= cache[i].ttl)})

Entry(key, answer) ==
    [key |-> key, error |-> answer.error, age |-> 0,
     ttl |-> Clamped(answer.error, answer.ttl)]

Others(key) == Sublist(cache, {i \in DOMAIN cache : cache[i].key # key})

\* Mutant: nothing is evicted.
PutUnbounded(key, answer) == Append(Others(key), Entry(key, answer))

put(key, answer) ==
    LET entries == Append(Others(key), Entry(key, answer))
    IN  IF Len(entries) > MaxEntries THEN Tail(entries) ELSE entries

-----------------------------------------------------------------------------
(* Queries and replies.                                                    *)

(* A reply, and what it rests on: the age of a cached answer and whether   *)
(* it was a failure, the servers that failed before a SERVFAIL.            *)
Reply(kind) == [kind |-> kind, age |-> 0, error |-> FALSE, failed |-> {}]
NoReply == Reply("none")

NoKey == [name |-> <<>>, type |-> "none", do |-> FALSE]

(* at is where the handler is: "idle" when none runs in the slot, "leads"  *)
(* or "joins" the lookup of key, "woken" when that lookup is over.         *)
(* ours is whether the zone claimed the name when the query was asked.     *)
Idle(ours, reply) == [at |-> "idle", key |-> NoKey, ours |-> ours, reply |-> reply]

Waiting(at, key) ==
    [at |-> at, key |-> key, ours |-> IsOurs(zone, key.name), reply |-> NoReply]

(* A datagram for a client cannot be sent once the transport is closed.    *)
Delivered(q, reply) ==
    IF q \in Connections \/ listening = "open" THEN reply ELSE Reply("dropped")

NoLookup == [left |-> <<>>, stage |-> "none", tcp |-> FALSE, failed |-> {}]
Running(key) == pending[key] # NoLookup

(* A question that came over TCP is passed on over TCP.                    *)
FirstStage(tcp) == IF tcp THEN "tcp" ELSE "udp"

(* What cannot be read or is not ours to answer is refused at once.        *)
Refusals == [unreadable |-> "formerr", short |-> "nothing", opcode |-> "notimp",
             questions  |-> "formerr", class |-> "refused"]

(* A name that is ours is answered here whatever the type: the address, or *)
(* NODATA for any type the address is not of.                              *)
LocalReply(question) ==
    LET address == match(zone, question.name).address
    IN  IF \/ question.type = "A"    /\ address \notin V6Addresses
           \/ question.type = "AAAA" /\ address \in V6Addresses
        THEN "address" ELSE "nodata"

-----------------------------------------------------------------------------
Init ==
    /\ zone \in {from_domains(d) : d \in DomainLists}
    /\ cache = <<>>
    /\ pending = [k \in Keys |-> NoLookup]
    /\ cold = [s \in ServerSet |-> 0]
    /\ query = [q \in Queries |-> Idle(FALSE, NoReply)]
    /\ listening = "open"

(* A new datagram, or the next question of a connection that is still up.  *)
MayArrive(q) ==
    /\ query[q].at = "idle"
    /\ \/ listening = "open"
       \/ listening = "closing" /\ q \in Connections

Refuse(q, question) ==
    /\ MayArrive(q)
    /\ question.form # "good"
    /\ query' = [query EXCEPT ![q] = Idle(FALSE, Reply(Refusals[question.form]))]
    /\ UNCHANGED <<zone, cache, pending, cold, listening>>

AnswerLocally(q, question) ==
    /\ MayArrive(q)
    /\ question.form = "good"
    /\ IsOurs(zone, question.name)
    /\ query' = [query EXCEPT ![q] = Idle(TRUE, Reply(LocalReply(question)))]
    /\ UNCHANGED <<zone, cache, pending, cold, listening>>

\* Mutant: the cache is looked up before the zone.
ForeignUnlessCached(question) ==
    IsOurs(zone, question.name) => Hits(cache_key(question)) # {}

(* The zone has the first word.                                            *)
IsForeign(question) == ~ IsOurs(zone, question.name)

AnswerFromCache(q, question) ==
    /\ MayArrive(q)
    /\ question.form = "good"
    /\ IsForeign(question)
    /\ \E i \in Hits(cache_key(question)) :
          query' = [query EXCEPT ![q] =
                       Idle(IsOurs(zone, question.name),
                            [Reply("cache") EXCEPT !.age = cache[i].age,
                                                   !.error = cache[i].error])]
    /\ UNCHANGED <<zone, cache, pending, cold, listening>>

\* Mutant: a lookup is shared only by queries of its own transport.
MayJoinAlike(q, key) == Running(key) /\ pending[key].tcp = (q \in Connections)

MayJoin(q, key) == Running(key)

(* Neither ours nor cached: the first to ask leads a lookup, whoever asks  *)
(* the same meanwhile joins it.                                            *)
ForwardQuery(q, question) ==
    LET key == cache_key(question) IN
    /\ MayArrive(q)
    /\ question.form = "good"
    /\ ~ IsOurs(zone, question.name)
    /\ Hits(key) = {}
    /\ cache' = AfterGet(key)
    /\ IF MayJoin(q, key)
       THEN /\ query' = [query EXCEPT ![q] = Waiting("joins", key)]
            /\ UNCHANGED pending
       ELSE /\ query' = [query EXCEPT ![q] = Waiting("leads", key)]
            /\ pending' = [pending EXCEPT ![key] =
                              [left |-> _order, failed |-> {}, tcp |-> q \in Connections,
                               stage |-> FirstStage(q \in Connections)]]
    /\ UNCHANGED <<zone, cold, listening>>

-----------------------------------------------------------------------------
(* A lookup.                                                               *)

\* Mutant: a lookup that fails leaves its future unresolved.
ReleasedOnAnswer(key, reply) ==
    [q \in Queries |->
        CASE query[q].key = key /\ query[q].at = "leads" ->
                Idle(query[q].ours, Delivered(q, reply))
          [] query[q].key = key /\ query[q].at = "joins" /\ reply.kind = "upstream" ->
                [query[q] EXCEPT !.at = "woken", !.reply = reply]
          [] OTHER -> query[q]]

(* The lookup is over: its leader replies, those that joined will wake up. *)
Released(key, reply) ==
    [q \in Queries |->
        CASE query[q].key = key /\ query[q].at = "leads" ->
                Idle(query[q].ours, Delivered(q, reply))
          [] query[q].key = key /\ query[q].at = "joins" ->
                [query[q] EXCEPT !.at = "woken", !.reply = reply]
          [] OTHER -> query[q]]

Servfail(key) == [Reply("servfail") EXCEPT !.failed = pending[key].failed]

(* The server answers: it is warm again, the answer is cached.             *)
ServerAnswers(key, answer) ==
    /\ Running(key)
    /\ cold' = [cold EXCEPT ![Head(pending[key].left)] = 0]
    /\ cache' = put(key, answer)
    /\ query' = Released(key, Reply("upstream"))
    /\ pending' = [pending EXCEPT ![key] = NoLookup]
    /\ UNCHANGED <<zone, listening>>

(* An empty datagram, or a length of zero over TCP, ends the lookup like   *)
(* an answer, but there is nothing to relay.                               *)
ServerAnswersNothing(key) ==
    LET server == Head(pending[key].left) IN
    /\ Running(key)
    /\ cold' = [cold EXCEPT ![server] = 0]
    /\ query' = Released(key, [Servfail(key) EXCEPT !.failed = @ \union {"empty"}])
    /\ pending' = [pending EXCEPT ![key] = NoLookup]
    /\ UNCHANGED <<zone, cache, listening>>

(* The answer did not fit in a datagram: the same server, over TCP.        *)
ServerTruncates(key) ==
    /\ Running(key) /\ pending[key].stage = "udp"
    /\ pending' = [pending EXCEPT ![key].stage = "tcp"]
    /\ UNCHANGED <<zone, cache, cold, query, listening>>

(* A timeout, a refused connection, an answer cut short: the next server,  *)
(* and when there is none, no answer.                                      *)
ServerFails(key) ==
    LET lookup == pending[key]
        server == Head(lookup.left)
        failed == lookup.failed \union {server}
    IN
    /\ Running(key)
    /\ cold' = [cold EXCEPT ![server] = ColdTime]
    /\ IF Len(lookup.left) > 1
       THEN /\ pending' = [pending EXCEPT ![key] =
                    [lookup EXCEPT !.left = Tail(lookup.left), !.failed = failed,
                                   !.stage = FirstStage(lookup.tcp)]]
            /\ UNCHANGED query
       ELSE /\ pending' = [pending EXCEPT ![key] = NoLookup]
            /\ query' = Released(key, [Reply("servfail") EXCEPT !.failed = failed])
    /\ UNCHANGED <<zone, cache, listening>>

(* A query that joined gets what the lookup brought.                       *)
Wake(q) ==
    /\ query[q].at = "woken"
    /\ query' = [query EXCEPT ![q] =
                    Idle(query[q].ours, Delivered(q, query[q].reply))]
    /\ UNCHANGED <<zone, cache, pending, cold, listening>>

-----------------------------------------------------------------------------
(* The surroundings.                                                       *)

\* Mutant: the cache outlives a change of the names that are ours.
ApplyKeepingCache(domains) ==
    /\ zone' = from_domains(domains)
    /\ UNCHANGED <<cache, pending, cold, query, listening>>

(* Runner.reload hands over a zone.  An answer cached for a name that has  *)
(* just become ours must go; a lookup in flight is not touched.            *)
apply(domains) ==
    /\ zone' = from_domains(domains)
    /\ cache' = IF namespaces(zone) # namespaces(zone') THEN <<>> ELSE cache
    /\ UNCHANGED <<pending, cold, query, listening>>

(* Time is counted in steps; ages beyond the longest lifetime are alike.   *)
Tick ==
    /\ cache' = [i \in DOMAIN cache |->
                    [cache[i] EXCEPT !.age = Min({@ + 1, MaxTtl})]]
    /\ cold' = [s \in ServerSet |-> Max({cold[s] - 1, 0})]
    /\ UNCHANGED <<zone, pending, query, listening>>

(* Server.stop: no more datagrams and no new connections...                *)
StopListening ==
    /\ listening = "open"
    /\ listening' = "closing"
    /\ UNCHANGED <<zone, cache, pending, cold, query>>

(* ...and, once the connections are closed or at once, as asyncio has it,  *)
(* the handlers of datagrams are cancelled.  A lookup one of them led ends *)
(* with its error for the queries that joined it over TCP.                 *)
CancelDatagrams ==
    LET Cut(k) == Running(k) /\ ~ pending[k].tcp IN
    /\ listening = "closing"
    /\ listening' = "stopped"
    /\ pending' = [k \in Keys |-> IF Cut(k) THEN NoLookup ELSE pending[k]]
    /\ query' = [q \in Queries |->
          CASE query[q].at # "idle" /\ q \in Datagrams ->
                  Idle(query[q].ours, Reply("dropped"))
            [] query[q].at = "joins" /\ q \in Connections /\ Cut(query[q].key) ->
                  [query[q] EXCEPT !.at = "woken", !.reply = Servfail(query[q].key)]
            [] OTHER -> query[q]]
    /\ UNCHANGED <<zone, cache, cold>>

-----------------------------------------------------------------------------
LookupStep(key) ==
    \/ \E e \in BOOLEAN, t \in Ttls : ServerAnswers(key, [error |-> e, ttl |-> t])
    \/ ServerAnswersNothing(key)
    \/ ServerTruncates(key)
    \/ ServerFails(key)

Arrival(q) ==
    \E question \in Questions :
        \/ Refuse(q, question)
        \/ AnswerLocally(q, question)
        \/ AnswerFromCache(q, question)
        \/ ForwardQuery(q, question)

Next ==
    \/ \E q \in Queries : Arrival(q) \/ Wake(q)
    \/ \E k \in Keys : LookupStep(k)
    \/ \E d \in DomainLists : apply(d)
    \/ Tick
    \/ StopListening
    \/ CancelDatagrams

(* Each exchange with a server is bounded by a timeout and the loop runs   *)
(* what is ready; nothing is assumed of clients, of the store or of stop.  *)
Fairness ==
    /\ \A k \in Keys : WF_vars(LookupStep(k))
    /\ \A q \in Queries : WF_vars(Wake(q))

Spec == Init /\ [][Next]_vars
FairSpec == Spec /\ Fairness

-----------------------------------------------------------------------------
(* Types.                                                                  *)

Entries == [key : Keys, error : BOOLEAN, age : 0..MaxTtl, ttl : MinTtl..MaxTtl]

Replies ==
    [kind : {"none", "formerr", "nothing", "notimp", "refused", "address",
             "nodata", "cache", "upstream", "servfail", "dropped"},
     age : 0..MaxTtl, error : BOOLEAN, failed : SUBSET (ServerSet \union {"empty"})]

Lookups ==
    [left : Seq(ServerSet), stage : {"none", "udp", "tcp"}, tcp : BOOLEAN,
     failed : SUBSET ServerSet]

(* The state is well formed, and the cache never outgrows MAX_ENTRIES nor  *)
(* holds two entries of one key (Cache.put).                               *)
ResolverTypeOK ==
    /\ DOMAIN zone = {"exact", "wildcards"}
    /\ cache \in Seq(Entries)
    /\ Len(cache) <= MaxEntries
    /\ \A i, j \in DOMAIN cache : cache[i].key = cache[j].key => i = j
    /\ pending \in [Keys -> Lookups]
    /\ \A k \in Keys : Running(k) => pending[k].left # <<>>
    /\ cold \in [ServerSet -> 0..ColdTime]
    /\ query \in [Queries -> [at : {"idle", "leads", "joins", "woken"},
                              key : Keys \union {NoKey}, ours : BOOLEAN,
                              reply : Replies]]
    /\ listening \in {"open", "closing", "stopped"}

-----------------------------------------------------------------------------
(* Safety.                                                                 *)

(* A query for a name that was ours when it was asked is never answered    *)
(* with what an upstream said, neither now nor from the cache, even where  *)
(* the answer to an older query for it arrived and was cached since.       *)
OursIsNeverForeign ==
    \A q \in Queries : query[q].ours =>
        query[q].at = "idle" /\ query[q].reply.kind \notin {"cache", "upstream", "servfail"}

(* What a step leaves in the cache is not an answer for a name whose owner *)
(* that step changes: a name that becomes ours, or ceases to be, starts    *)
(* with no answer of before.  The code compares namespaces, not names.     *)
NoAnswerSurvivesAClaim ==
    [][\A i \in DOMAIN cache, j \in DOMAIN cache' :
          cache[i].key = cache'[j].key /\ cache'[j].age >= cache[i].age =>
              (IsOurs(zone, cache[i].key.name) <=> IsOurs(zone', cache[i].key.name))]_vars

(* No answer outlives what the cache allows it: MAX_TTL, and for a failure *)
(* MAX_NEGATIVE_TTL, so that a hiccup of the network is forgotten soon.    *)
FreshFromCache ==
    \A q \in Queries : query[q].reply.kind = "cache" =>
        /\ query[q].reply.age < MaxTtl
        /\ query[q].reply.error => query[q].reply.age < NegativeTtl

(* While the listener is up, SERVFAIL is said only when every server, the  *)
(* ones passed over included, has failed in the lookup the query waited    *)
(* for, or when one of them answered with an empty message.                *)
ServfailIsHonest ==
    \A q \in Queries :
        listening = "open" /\ query[q].at = "idle" /\ query[q].reply.kind = "servfail" =>
            query[q].reply.failed \in {ServerSet} \union
                {f \in SUBSET (ServerSet \union {"empty"}) : "empty" \in f}

(* The zone in force is compiled from the records of the store, and        *)
(* whatever these are, their order, duplicates and disabled ones included, *)
(* Zone.match answers by rank (AnswersByRank).                             *)
Misanswered ==
    {c \in ProbedLists \X ProbedNames : ~ AnswersByRank(c[1], c[2])}

MostSpecific == zone \in {from_domains(d) : d \in DomainLists} /\ Misanswered = {}

(* Whatever is typed, validate lets only servable names through            *)
(* (AcceptedIsServable), so that the zone in force, made of such names,    *)
(* claims no name of one label.                                            *)
Unservable ==
    {c \in ProbedInputs \X Addresses : ~ AcceptedIsServable(c[1], c[2])}

AcceptedIsServed ==
    /\ Unservable = {}
    /\ \A n \in DOMAIN zone.exact \union DOMAIN zone.wildcards : Len(n) > 1

(* Identical questions share one lookup: a lookup in progress has exactly  *)
(* one leader, and whoever leads or joins waits for one in progress.       *)
OneLeader ==
    /\ \A k \in Keys : Running(k) =>
          \E q \in Queries : \A p \in Queries :
              query[p].at = "leads" /\ query[p].key = k <=> p = q
    /\ \A q \in Queries : query[q].at \in {"leads", "joins"} =>
          query[q].key \in Keys /\ Running(query[q].key)

(* Liveness: every query that reaches the resolver is answered, or given   *)
(* up with the listener, however the servers fail.                         *)
EveryQueryIsAnswered ==
    \A q \in Queries : query[q].at # "idle" ~> query[q].at = "idle"
=============================================================================
