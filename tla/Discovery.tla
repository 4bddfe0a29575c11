----------------------------- MODULE Discovery -----------------------------
(***************************************************************************)
(* How the daemon keeps the discovered records in step with the container  *)
(* engine and with Traefik (src/daemon/runner.py:293-409): a loop that     *)
(* polls Traefik on a timer, a loop that scans the engine and then follows *)
(* its event stream, and the refreshes the control API starts beside them. *)
(*                                                                         *)
(* A poll is an await for the listing and then, without another, its       *)
(* reconciliation with the store: asking, the answer and its application   *)
(* are three steps, between which the engine, the other polls and the      *)
(* users move.                                                             *)
(***************************************************************************)
EXTENDS DomainRecords, Naturals

CONSTANTS
    Refreshes,      \* the sources refreshed through the API as well
    MaxTroubles     \* bound on what happens around the daemon: see Trouble

ASSUME DiscoveryAssumption ==
    /\ Refreshes \subseteq Discovering
    /\ MaxTroubles \in Nat

VARIABLES
    world,      \* the names each source would list if it were asked
    reachable,  \* does it answer?
    records,    \* the store
    poll,       \* where each poll is
    listing,    \* the listing it was given
    docker,     \* where the engine's loop is
    stream,     \* the engine's event stream
    heard,      \* the events in it that the loop has not come to
    troubles    \* how much has happened around the daemon

vars == <<world, reachable, records, poll, listing, docker, stream, heard, troubles>>

Loops == [by : {"loop"}, of : Discovering]
Pollers == Loops \union [by : {"refresh"}, of : Refreshes]
DockerLoop == [by |-> "loop", of |-> "docker"]

PollPlaces == {"idle", "asked", "answered", "failed"}
DockerPlaces == {"scan", "scanning", "open", "follow", "rescanning", "rest"}

DiscoveryTypeOK ==
    /\ world \in [Discovering -> SUBSET Names]
    /\ reachable \in [Discovering -> BOOLEAN]
    /\ records \subseteq Record
    /\ poll \in [Pollers -> PollPlaces]
    /\ listing \in [Pollers -> SUBSET Names]
    /\ docker \in DockerPlaces
    /\ stream \in {"none", "open", "ended"}
    /\ heard \in Nat
    /\ troubles \in 0 .. MaxTroubles

(* The store may hold the records of an earlier run.                       *)
Init ==
    /\ world \in [Discovering -> SUBSET Names]
    /\ reachable \in [Discovering -> BOOLEAN]
    /\ \E d, t \in SUBSET Names :
           /\ d \intersect t = {}
           /\ records = {Discovered("docker", n) : n \in d}
                          \union {Discovered("traefik", n) : n \in t}
    /\ poll = [p \in Pollers |-> "idle"]
    /\ listing = [p \in Pollers |-> {}]
    /\ docker = "scan"
    /\ stream = "none"
    /\ heard = 0
    /\ troubles = 0

-----------------------------------------------------------------------------
(* A poll: poll_traefik, poll_docker.                                      *)

Asks(p) ==
    /\ poll[p] = "idle"
    /\ poll' = [poll EXCEPT ![p] = "asked"]

(* The listing is of this moment; what follows may come much later.        *)
Answer(p) ==
    /\ poll[p] = "asked"
    /\ reachable[p.of]
    /\ poll' = [poll EXCEPT ![p] = "answered"]
    /\ listing' = [listing EXCEPT ![p] = world[p.of]]
    /\ UNCHANGED <<world, reachable, records, docker, stream, heard, troubles>>

NoAnswer(p) ==
    /\ poll[p] = "asked"
    /\ ~ reachable[p.of]
    /\ poll' = [poll EXCEPT ![p] = "failed"]
    /\ UNCHANGED <<world, reachable, records, listing, docker, stream, heard, troubles>>

(* The engine's loop goes on after its poll: the first one of a connection *)
(* leads to the stream, the others back to it.  A scan that failed and     *)
(* whatever reconcile raises lead to the wait before the next connection.  *)
PlaceAfter(how) ==
    IF how = "raised" \/ (how = "failed" /\ docker = "scanning") THEN "rest"
    ELSE IF docker = "scanning" THEN "open" ELSE "follow"

Leaves(to) ==
    /\ docker' = to
    /\ IF to = "rest" THEN stream' = "none" /\ heard' = 0
                      ELSE UNCHANGED <<stream, heard>>

Returns(p, how) ==
    /\ poll' = [poll EXCEPT ![p] = "idle"]
    /\ listing' = [listing EXCEPT ![p] = {}]
    /\ IF p = DockerLoop THEN Leaves(PlaceAfter(how))
                         ELSE UNCHANGED <<docker, stream, heard>>

Apply(p) ==
    /\ poll[p] = "answered"
    /\ records' = Reconciled(records, p.of, listing[p])
    /\ Returns(p, "applied")
    /\ UNCHANGED <<world, reachable, troubles>>

\* Mutant: a source that does not answer is taken for one with nothing to list.
FailIsEmpty(p) ==
    /\ poll[p] = "failed"
    /\ records' = Reconciled(records, p.of, {})
    /\ Returns(p, "failed")
    /\ UNCHANGED <<world, reachable, troubles>>

Fail(p) ==
    /\ poll[p] = "failed"
    /\ Returns(p, "failed")
    /\ UNCHANGED <<world, reachable, records, troubles>>

-----------------------------------------------------------------------------
(* Who polls.                                                              *)

(* _traefik_loop, when its interval has passed.                            *)
TraefikTurn ==
    /\ Asks([by |-> "loop", of |-> "traefik"])
    /\ UNCHANGED <<world, reachable, records, listing, docker, stream, heard, troubles>>

(* POST /v1/traefik/refresh and /v1/docker/refresh.                        *)
Refresh(s) ==
    /\ Asks([by |-> "refresh", of |-> s])
    /\ UNCHANGED <<world, reachable, records, listing, docker, stream, heard, troubles>>

(* _docker_loop: a scan on every connection.                               *)
Scan ==
    /\ docker = "scan"
    /\ Asks(DockerLoop)
    /\ docker' = "scanning"
    /\ UNCHANGED <<world, reachable, records, listing, stream, heard, troubles>>

(* events() is asked for what happens from now on.                         *)
OpenStream ==
    /\ docker = "open"
    /\ reachable["docker"]
    /\ docker' = "follow"
    /\ stream' = "open"
    /\ heard' = 0
    /\ UNCHANGED <<world, reachable, records, poll, listing, troubles>>

OpenFails ==
    /\ docker = "open"
    /\ ~ reachable["docker"]
    /\ Leaves("rest")
    /\ UNCHANGED <<world, reachable, records, poll, listing, troubles>>

\* Mutant: the loop polls whether or not the engine has said something.
HearNothing ==
    /\ docker = "follow"
    /\ heard' = heard - 1
    /\ Asks(DockerLoop)
    /\ docker' = "rescanning"
    /\ UNCHANGED <<world, reachable, records, listing, stream, troubles>>

Hear ==
    /\ docker = "follow"
    /\ heard > 0
    /\ heard' = heard - 1
    /\ Asks(DockerLoop)
    /\ docker' = "rescanning"
    /\ UNCHANGED <<world, reachable, records, listing, stream, troubles>>

\* Mutant: an empty line is taken for a timeout, and read again.
EndOfStreamIgnored == FALSE

(* An empty line: the engine has closed the stream, and all it had said    *)
(* before has been read.                                                   *)
EndOfStream ==
    /\ docker = "follow"
    /\ heard = 0
    /\ stream = "ended"
    /\ Leaves("rest")
    /\ UNCHANGED <<world, reachable, records, poll, listing, troubles>>

(* BACKOFF_SECONDS have passed.                                            *)
Wake ==
    /\ docker = "rest"
    /\ docker' = "scan"
    /\ UNCHANGED <<world, reachable, records, poll, listing, stream, heard, troubles>>

-----------------------------------------------------------------------------
(* What the users do, through any surface.                                 *)

User ==
    /\ \/ \E i \in Ids, n \in Names :
              MayAdd(records, i, n) /\ records' = Added(records, i, n)
       \/ \E r \in Editable(records), n \in Names :
              records' = Renamed(records, r, n)
       \/ \E r \in Editable(records) : records' = records \ {r}
    /\ UNCHANGED <<world, reachable, poll, listing, docker, stream, heard, troubles>>

-----------------------------------------------------------------------------
(* What happens around the daemon.                                         *)

Trouble ==
    /\ troubles < MaxTroubles
    /\ troubles' = troubles + 1

(* A container starts or stops, a router appears or goes.  The engine says *)
(* so to whoever follows it.                                               *)
WorldChanges(s) ==
    /\ Trouble
    /\ \E n \in Names :
           world' = [world EXCEPT ![s] = IF n \in @ THEN @ \ {n} ELSE @ \union {n}]
    /\ heard' = IF s = "docker" /\ stream = "open" THEN heard + 1 ELSE heard
    /\ UNCHANGED <<reachable, records, poll, listing, docker, stream>>

GoesDown(s) ==
    /\ Trouble
    /\ reachable[s]
    /\ reachable' = [reachable EXCEPT ![s] = FALSE]
    /\ stream' = IF s = "docker" /\ stream = "open" THEN "ended" ELSE stream
    /\ UNCHANGED <<world, records, poll, listing, docker, heard>>

ComesUp(s) ==
    /\ ~ reachable[s]
    /\ reachable' = [reachable EXCEPT ![s] = TRUE]
    /\ UNCHANGED <<world, records, poll, listing, docker, stream, heard, troubles>>

(* One request times out although the source is there.                     *)
Hiccup(p) ==
    /\ Trouble
    /\ poll[p] = "asked"
    /\ poll' = [poll EXCEPT ![p] = "failed"]
    /\ UNCHANGED <<world, reachable, records, listing, docker, stream, heard>>

(* reconcile raises: the lock is taken, the file is a newer build's, the   *)
(* disk is full.                                                           *)
StoreRefuses(p) ==
    /\ Trouble
    /\ poll[p] = "answered"
    /\ Returns(p, "raised")
    /\ UNCHANGED <<world, reachable, records>>

-----------------------------------------------------------------------------
PollStep(p) == Answer(p) \/ NoAnswer(p) \/ Apply(p) \/ Fail(p)
DockerStep == Scan \/ OpenStream \/ OpenFails \/ Hear \/ EndOfStream \/ Wake

Next ==
    \/ \E p \in Pollers : PollStep(p) \/ Hiccup(p) \/ StoreRefuses(p)
    \/ TraefikTurn
    \/ DockerStep
    \/ \E s \in Refreshes : Refresh(s)
    \/ User
    \/ \E s \in Discovering : WorldChanges(s) \/ GoesDown(s) \/ ComesUp(s)

Spec == Init /\ [][Next]_vars

(* The loops go on: their waits are timers, and a request is answered or   *)
(* times out.  Nobody is obliged to refresh, to edit, or to come up.       *)
FairSpec ==
    /\ Spec
    /\ WF_vars(TraefikTurn)
    /\ WF_vars(DockerStep)
    /\ \A p \in Pollers : WF_vars(PollStep(p))

-----------------------------------------------------------------------------
(* What discovery promises.                                                *)

(* A name is discovered once: the two importers never both own a record of *)
(* it, in whatever order their listings arrive and whatever is renamed in  *)
(* between (store.py:365-370).                                             *)
DiscoveredOnce ==
    \A r, q \in records :
        r.source \in Discovering /\ q.source \in Discovering /\ r.name = q.name
            => r = q

(* An unreachable source is not an empty one (runner.py:298-301, 344-345): *)
(* while it does not answer, and no answer of earlier is on its way, its   *)
(* records stay.                                                           *)
UnreachableIsNotEmpty ==
    [][\A s \in Discovering :
           /\ ~ reachable[s]
           /\ \A p \in Pollers : p.of = s => poll[p] # "answered"
           => Of(records, s) \subseteq records']_vars

InStep(s) ==
    /\ NamesIn(Of(records, s)) \subseteq world[s]
    /\ world[s] \subseteq NamesIn(records)

(* When Traefik answers again for good, what it no longer routes goes and  *)
(* stays away, and what it routes is in the list again and again, even if  *)
(* users keep adding and deleting records of the same names and a refresh  *)
(* overtakes the loop: the next poll makes good.                           *)
TraefikIsFollowed ==
    <>[]reachable["traefik"]
        => /\ <>[](NamesIn(Of(records, "traefik")) \subseteq world["traefik"])
           /\ []<>InStep("traefik")

(* The engine's loop reconnects for as long as the daemon runs             *)
(* (runner.py:379): once the engine is up for good, it is followed for     *)
(* good.                                                                   *)
StreamComesBack == <>[]reachable["docker"] => <>[](stream = "open")

(* The list does not drift from the engine (runner.py:381-383): once the   *)
(* engine is up for good the records come into step with it.  The code     *)
(* does not keep this: run DockerDrifts.                                   *)
DockerIsFollowed == <>[]reachable["docker"] => []<>InStep("docker")
=============================================================================
