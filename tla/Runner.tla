------------------------------- MODULE Runner -------------------------------
(***************************************************************************)
(* The life of the daemon (daemon/runner.py): what it does to the machine, *)
(* in which order, and what is left when it is killed in between.          *)
(*                                                                         *)
(* A run is a process launched once.  Several runs share the machine: the  *)
(* rule table, the port, netstate.json, daemon.json and the domain store.  *)
(* One run is one asyncio thread, so inside a run the steps below are      *)
(* sequential; between any two of them the process may be killed, the      *)
(* store edited by another process or, with Overlap, another run may move. *)
(* Each action is one call that reaches outside the process.               *)
(***************************************************************************)
EXTENDS NamePolicy

CONSTANTS
    None,      \* no file, no process
    Zones,     \* the namespace sets the domain store can compile to
    Owned,     \* the runs started by a window, which watch their owner
    Overlap    \* whether a run may be launched while another is still alive

ASSUME RunnerAssumption ==
    /\ None \notin Daemons
    /\ Zones \subseteq SUBSET Namespaces
    /\ Owned \subseteq Daemons
    /\ Overlap \in BOOLEAN

VARIABLES
    os,           \* the machine's rule table
    port,         \* the run whose sockets hold port 53
    netstate,     \* netstate.json
    daemonFile,   \* daemon.json: the run a client would connect to
    store,        \* the namespaces domains.json compiles to
    owner,        \* whether the owning window is alive
    pc,           \* where each run is
    zone,         \* namespaces of the resolver's zone
    draft,        \* the NetState object apply_policy was handed
    applied,      \* Runner.applied
    policyError,  \* whether Runner.policy_error is set
    resume,       \* what apply_policy returns to
    stop,         \* Runner._stop
    seen          \* whether the store is as the watch loop last saw it

machine == <<os, port, netstate, daemonFile, store, owner>>
memory == <<zone, draft, applied, policyError, resume, stop, seen>>
vars == <<machine, pc, memory>>

-----------------------------------------------------------------------------
(* State. *)

\* What a run does next, named for the call it is about to make.
Starting == {"clear_leftovers", "remove_all", "clear", "build_zone", "bind_sockets",
             "write_intent", "publish"}
Applying == {"rewrite_intent", "apply_policy", "write_confirmed"}
Stopping == {"unpublish", "close_sockets", "policy_remove", "mark_clean", "clear_state"}
Running == Starting \cup Applying \cup {"serving"} \cup Stopping

\* stopped: through stop(); refused: exit code 3; killed: anything else.
Ended == {"stopped", "refused", "killed"}

NetState ==
    [pid : Daemons, intent : SUBSET Namespaces, confirmed : SUBSET Namespaces,
     links : BOOLEAN, clean : BOOLEAN]

\* A record is not the absence of one.
ASSUME NoneAssumption == None \notin NetState

\* Mutant: the record is written without the number of the process.
FreshUnowned(d, intent) ==
    [pid |-> None, intent |-> intent, confirmed |-> {}, links |-> FALSE, clean |-> FALSE]

\* NetState.start, with the intent start() and reload() put in it at once.
Fresh(d, intent) ==
    [pid |-> d, intent |-> intent, confirmed |-> {}, links |-> FALSE, clean |-> FALSE]

Alive(d) == pc[d] \in Running

TypeOK ==
    /\ os \in Table
    /\ port \in Daemons \cup {None}
    /\ netstate \in NetState \cup {None}
    /\ daemonFile \in Daemons \cup {None}
    /\ store \in Zones
    /\ owner \in BOOLEAN
    /\ pc \in [Daemons -> {"new"} \cup Running \cup Ended]
    /\ zone \in [Daemons -> SUBSET Namespaces]
    /\ draft \in [Daemons -> NetState]
    /\ applied \in [Daemons -> PolicyState]
    /\ policyError \in [Daemons -> BOOLEAN]
    /\ resume \in [Daemons -> {"publish", "serving", "unpublish"}]
    /\ stop \in [Daemons -> BOOLEAN]
    /\ seen \in [Daemons -> BOOLEAN]

Init ==
    /\ os = NoRules
    /\ port = None
    /\ netstate = None
    /\ daemonFile = None
    /\ store \in Zones
    /\ owner = TRUE
    /\ pc = [d \in Daemons |-> "new"]
    /\ zone = [d \in Daemons |-> {}]
    /\ draft = [d \in Daemons |-> Fresh(d, {})]
    /\ applied = [d \in Daemons |-> NothingApplied]
    /\ policyError = [d \in Daemons |-> FALSE]
    /\ resume = [d \in Daemons |-> "publish"]
    /\ stop = [d \in Daemons |-> FALSE]
    /\ seen = [d \in Daemons |-> TRUE]

-----------------------------------------------------------------------------
(* start(). *)

Goto(d, from, to) ==
    /\ pc[d] = from
    /\ pc' = [pc EXCEPT ![d] = to]

\* The process is created, by the service manager or by a window.
Launch(d) ==
    /\ Overlap \/ \A e \in Daemons : ~Alive(e)
    /\ Goto(d, "new", "clear_leftovers")
    /\ UNCHANGED <<machine, memory>>

\* Mutant: a handle that opens is taken for a process that runs.
PidAlwaysAlive(p) == TRUE

\* pid_alive: with the fault, the number of a dead run belongs to some other process.
PidAlive(p) == Alive(p) \/ "pid" \in Faults
PidDead(p) == ~Alive(p)

\* clear_leftovers, up to its first effect.
ReadLeftovers(d) ==
    /\ \/ /\ netstate = None
          /\ Goto(d, "clear_leftovers", "build_zone")
       \/ /\ netstate # None
          /\ netstate.clean
          /\ Goto(d, "clear_leftovers", "clear")
       \/ /\ netstate # None
          /\ ~netstate.clean
          /\ netstate.pid # d
          /\ PidAlive(netstate.pid)
          /\ Goto(d, "clear_leftovers", "build_zone")
       \/ /\ netstate # None
          /\ ~netstate.clean
          /\ netstate.pid = d \/ PidDead(netstate.pid)
          /\ Goto(d, "clear_leftovers", "remove_all")
    /\ UNCHANGED <<machine, memory>>

\* A PolicyError is suppressed: the record is cleared whatever the outcome.
SweepLeftovers(d) ==
    /\ \E o \in RemoveAllOutcomes(os) : os' = o.table
    /\ Goto(d, "remove_all", "clear")
    /\ UNCHANGED <<port, netstate, daemonFile, store, owner, memory>>

ForgetLeftovers(d) ==
    /\ netstate' = None
    /\ Goto(d, "clear", "build_zone")
    /\ UNCHANGED <<os, port, daemonFile, store, owner, memory>>

BuildZone(d) ==
    /\ zone' = [zone EXCEPT ![d] = store]
    /\ Goto(d, "build_zone", "bind_sockets")
    /\ UNCHANGED <<machine, draft, applied, policyError, resume, stop, seen>>

\* Mutant: the sockets are opened with address reuse, so a held port is no obstacle.
BindShared(d) ==
    /\ port' = d
    /\ Goto(d, "bind_sockets", "write_intent")
    /\ UNCHANGED <<os, netstate, daemonFile, store, owner, memory>>

\* Both sockets on every address, or none.
BindSockets(d) ==
    /\ port = None
    /\ port' = d
    /\ Goto(d, "bind_sockets", "write_intent")
    /\ UNCHANGED <<os, netstate, daemonFile, store, owner, memory>>

\* Mutant: a bind that failed is logged, and the start goes on.
BindRefusedIgnored(d) ==
    /\ port # None
    /\ Goto(d, "bind_sockets", "write_intent")
    /\ UNCHANGED <<machine, memory>>

\* BindError: run_forever returns 3, without stop().
BindRefused(d) ==
    /\ port # None \/ "bind" \in Faults
    /\ Goto(d, "bind_sockets", "refused")
    /\ UNCHANGED <<machine, memory>>

WriteIntent(d) ==
    /\ draft' = [draft EXCEPT ![d] = Fresh(d, zone[d])]
    /\ netstate' = Fresh(d, zone[d])
    /\ resume' = [resume EXCEPT ![d] = "publish"]
    /\ Goto(d, "write_intent", "apply_policy")
    /\ UNCHANGED <<os, port, daemonFile, store, owner, zone, applied, policyError, stop, seen>>

-----------------------------------------------------------------------------
(* apply_policy(). *)

\* With no namespaces the policy is not called: nothing is claimed, nothing removed.
ApplyNothing(d) ==
    /\ zone[d] = {}
    /\ applied' = [applied EXCEPT ![d] = NothingApplied]
    /\ draft' = [draft EXCEPT ![d].confirmed = {}]
    /\ netstate' = [draft[d] EXCEPT !.confirmed = {}]
    /\ Goto(d, "apply_policy", resume[d])
    /\ UNCHANGED <<os, port, daemonFile, store, owner, zone, policyError, resume, stop, seen>>

\* Mutant: what was applied is not remembered.
ApplyZoneForgetting(d) ==
    /\ zone[d] # {}
    /\ \E o \in ApplyOutcomes(os, zone[d], d) :
        /\ os' = o.table
        /\ policyError' = [policyError EXCEPT ![d] = ~o.ok]
    /\ Goto(d, "apply_policy", "write_confirmed")
    /\ UNCHANGED <<port, netstate, daemonFile, store, owner,
                   zone, draft, applied, resume, stop, seen>>

\* Mutant: a refusal is logged and reported nowhere.
ApplyZoneQuietly(d) ==
    /\ zone[d] # {}
    /\ \E o \in ApplyOutcomes(os, zone[d], d) :
        /\ os' = o.table
        /\ applied' = [applied EXCEPT
                          ![d] = IF o.ok THEN AppliedTo(zone[d]) ELSE NothingApplied]
    /\ Goto(d, "apply_policy", "write_confirmed")
    /\ UNCHANGED <<port, netstate, daemonFile, store, owner,
                   zone, draft, policyError, resume, stop, seen>>

\* A PolicyError is not fatal: the run goes on with nothing it remembers applying.
ApplyZone(d) ==
    /\ zone[d] # {}
    /\ \E o \in ApplyOutcomes(os, zone[d], d) :
        /\ os' = o.table
        /\ policyError' = [policyError EXCEPT ![d] = ~o.ok]
        /\ applied' = [applied EXCEPT
                          ![d] = IF o.ok THEN AppliedTo(zone[d]) ELSE NothingApplied]
    /\ Goto(d, "apply_policy", "write_confirmed")
    /\ UNCHANGED <<port, netstate, daemonFile, store, owner, zone, draft, resume, stop, seen>>

Confirmed(d) ==
    [draft[d] EXCEPT !.confirmed = applied[d].namespaces, !.links = applied[d].links]

WriteConfirmed(d) ==
    /\ draft' = [draft EXCEPT ![d] = Confirmed(d)]
    /\ netstate' = Confirmed(d)
    /\ Goto(d, "write_confirmed", resume[d])
    /\ UNCHANGED <<os, port, daemonFile, store, owner,
                   zone, applied, policyError, resume, stop, seen>>

\* api.start: daemon.json is written last.  serve_forever follows at once, and the
\* watch loop takes the store as it now is for the one already loaded.
Publish(d) ==
    /\ daemonFile' = d
    /\ seen' = [seen EXCEPT ![d] = TRUE]
    /\ Goto(d, "publish", "serving")
    /\ UNCHANGED <<os, port, netstate, store, owner,
                   zone, draft, applied, policyError, resume, stop>>

-----------------------------------------------------------------------------
(* reload(), and the two things that call it. *)

Recorded(d) == IF netstate = None THEN Fresh(d, {}) ELSE netstate

\* Mutant: reload() leaves the recorded intent as the start wrote it.
RecompileUnannounced(d) ==
    /\ zone' = [zone EXCEPT ![d] = store]
    /\ draft' = [draft EXCEPT ![d] = Recorded(d)]
    /\ resume' = [resume EXCEPT ![d] = pc[d]]
    /\ pc' = [pc EXCEPT ![d] = "rewrite_intent"]

\* The resolver has the new zone before the record is written.
Recompile(d) ==
    /\ zone' = [zone EXCEPT ![d] = store]
    /\ draft' = [draft EXCEPT ![d] = [Recorded(d) EXCEPT !.intent = @ \cup store]]
    /\ resume' = [resume EXCEPT ![d] = pc[d]]
    /\ pc' = [pc EXCEPT ![d] = "rewrite_intent"]

\* The control API and the discovery loops reload after each change they make; a
\* request still in flight may do so once stop() has begun, until the API is closed.
Reload(d) ==
    /\ pc[d] \in {"serving", "unpublish"}
    /\ zone[d] # store
    /\ Recompile(d)
    /\ UNCHANGED <<machine, applied, policyError, stop, seen>>

\* Mutant: the loop keeps the new stamp but reloads nothing.
WatchStoreStampOnly(d) ==
    /\ pc[d] = "serving"
    /\ ~stop[d]
    /\ ~seen[d]
    /\ seen' = [seen EXCEPT ![d] = TRUE]
    /\ UNCHANGED <<machine, pc, zone, draft, applied, policyError, resume, stop>>

\* Mutant: the loop gives the resolver the new zone and leaves the policy alone.
WatchStoreZoneOnly(d) ==
    /\ pc[d] = "serving"
    /\ ~stop[d]
    /\ ~seen[d]
    /\ seen' = [seen EXCEPT ![d] = TRUE]
    /\ zone' = [zone EXCEPT ![d] = store]
    /\ UNCHANGED <<machine, pc, draft, applied, policyError, resume, stop>>

\* _store_watch_loop: another process edited the file.
WatchStore(d) ==
    /\ pc[d] = "serving"
    /\ ~stop[d]
    /\ ~seen[d]
    /\ seen' = [seen EXCEPT ![d] = TRUE]
    /\ IF zone[d] # store
       THEN Recompile(d)
       ELSE UNCHANGED <<pc, zone, draft, resume>>
    /\ UNCHANGED <<machine, applied, policyError, stop>>

RewriteIntent(d) ==
    /\ netstate' = draft[d]
    /\ Goto(d, "rewrite_intent", "apply_policy")
    /\ UNCHANGED <<os, port, daemonFile, store, owner, memory>>

\* Writing the record raised, and whoever called reload() logged it: the rules stay as
\* they were, the resolver keeps the new zone, and what the run remembers of the policy
\* may be gone already.
SaveRefused(d) ==
    /\ "save" \in Faults
    /\ resume[d] # "publish"
    /\ \/ pc[d] \in {"rewrite_intent", "write_confirmed"} /\ UNCHANGED applied
       \/ /\ pc[d] = "apply_policy"
          /\ zone[d] = {}
          /\ applied' = [applied EXCEPT ![d] = NothingApplied]
    /\ pc' = [pc EXCEPT ![d] = resume[d]]
    /\ UNCHANGED <<machine, zone, draft, policyError, resume, stop, seen>>

-----------------------------------------------------------------------------
(* stop(). *)

\* A signal, the service manager, Ctrl+C: it only sets the event.
RequestStop(d) ==
    /\ Alive(d)
    /\ ~stop[d]
    /\ stop' = [stop EXCEPT ![d] = TRUE]
    /\ UNCHANGED <<machine, pc, zone, draft, applied, policyError, resume, seen>>

\* _owner_watch_loop.
WatchOwner(d) ==
    /\ d \in Owned
    /\ pc[d] = "serving"
    /\ ~stop[d]
    /\ ~owner
    /\ stop' = [stop EXCEPT ![d] = TRUE]
    /\ UNCHANGED <<machine, pc, zone, draft, applied, policyError, resume, seen>>

\* Mutant: the stop waits for a reload that the cancelled loop no longer makes.
BeginStopSettled(d) ==
    /\ stop[d]
    /\ seen[d]
    /\ Goto(d, "serving", "unpublish")
    /\ UNCHANGED <<machine, memory>>

\* serve_forever returns, its loops cancelled.
BeginStop(d) ==
    /\ stop[d]
    /\ Goto(d, "serving", "unpublish")
    /\ UNCHANGED <<machine, memory>>

\* api.stop.
Unpublish(d) ==
    /\ daemonFile' = None
    /\ Goto(d, "unpublish", "close_sockets")
    /\ UNCHANGED <<os, port, netstate, store, owner, memory>>

\* server.stop.
CloseSockets(d) ==
    /\ port' = None
    /\ Goto(d, "close_sockets", "policy_remove")
    /\ UNCHANGED <<os, netstate, daemonFile, store, owner, memory>>

\* A PolicyError is logged, and the shutdown goes on.
RemovePolicy(d) ==
    /\ IF applied[d] = NothingApplied
       THEN UNCHANGED <<os, applied>>
       ELSE \E o \in RemoveOutcomes(os, applied[d]) :
                /\ os' = o.table
                /\ applied' = IF o.ok THEN [applied EXCEPT ![d] = NothingApplied] ELSE applied
    /\ Goto(d, "policy_remove", "mark_clean")
    /\ UNCHANGED <<port, netstate, daemonFile, store, owner,
                   zone, draft, policyError, resume, stop, seen>>

MarkClean(d) ==
    /\ netstate' = IF netstate = None THEN None
                   ELSE [netstate EXCEPT !.clean = TRUE, !.confirmed = {}]
    /\ Goto(d, "mark_clean", "clear_state")
    /\ UNCHANGED <<os, port, daemonFile, store, owner, memory>>

\* What the process held in memory goes with it.
Forgotten(d) ==
    /\ zone' = [zone EXCEPT ![d] = {}]
    /\ draft' = [draft EXCEPT ![d] = Fresh(d, {})]
    /\ applied' = [applied EXCEPT ![d] = NothingApplied]
    /\ policyError' = [policyError EXCEPT ![d] = FALSE]
    /\ resume' = [resume EXCEPT ![d] = "publish"]
    /\ stop' = [stop EXCEPT ![d] = FALSE]
    /\ seen' = [seen EXCEPT ![d] = TRUE]

ClearState(d) ==
    /\ netstate' = None
    /\ Goto(d, "clear_state", "stopped")
    /\ Forgotten(d)
    /\ UNCHANGED <<os, port, daemonFile, store, owner>>

-----------------------------------------------------------------------------
(* The environment. *)

\* A command that was running when the daemon died may have done part of its work.
LeftByDeath(d) ==
    CASE pc[d] = "apply_policy" /\ zone[d] # {} -> ApplyPartway(os, zone[d], d)
      [] pc[d] = "policy_remove" /\ applied[d] # NothingApplied -> RemovePartway(os, applied[d])
      [] pc[d] = "remove_all" -> RemoveAllPartway(os)
      [] OTHER -> {os}

\* kill -9, a power cut to the process, an exception nothing catches.
Kill(d) ==
    /\ Alive(d)
    /\ os' \in LeftByDeath(d)
    /\ port' = IF port = d THEN None ELSE port
    /\ pc' = [pc EXCEPT ![d] = "killed"]
    /\ Forgotten(d)
    /\ UNCHANGED <<netstate, daemonFile, store, owner>>

\* Whoever writes domains.json: the console, a client, the run itself.
EditStore ==
    /\ \E z \in Zones \ {store} : store' = z
    /\ seen' = [d \in Daemons |-> pc[d] \notin Applying \cup {"serving"}]
    /\ UNCHANGED <<os, port, netstate, daemonFile, owner,
                   pc, zone, draft, applied, policyError, resume, stop>>

OwnerDies ==
    /\ Owned # {}
    /\ owner
    /\ owner' = FALSE
    /\ UNCHANGED <<os, port, netstate, daemonFile, store, pc, memory>>

-----------------------------------------------------------------------------
(* Specification. *)

\* The straight-line part of a run: once begun it goes on by itself.
Proceed(d) ==
    \/ ReadLeftovers(d) \/ SweepLeftovers(d) \/ ForgetLeftovers(d)
    \/ BuildZone(d) \/ BindSockets(d) \/ BindRefused(d) \/ WriteIntent(d)
    \/ ApplyNothing(d) \/ ApplyZone(d) \/ WriteConfirmed(d) \/ Publish(d)
    \/ RewriteIntent(d) \/ SaveRefused(d)
    \/ Unpublish(d) \/ CloseSockets(d) \/ RemovePolicy(d) \/ MarkClean(d) \/ ClearState(d)

Step(d) ==
    \/ Launch(d) \/ Proceed(d)
    \/ Reload(d) \/ WatchStore(d)
    \/ RequestStop(d) \/ WatchOwner(d) \/ BeginStop(d)
    \/ Kill(d)

Next == (\E d \in Daemons : Step(d)) \/ EditStore \/ OwnerDies

Spec == Init /\ [][Next]_vars

\* Every call the run makes returns (the commands carry a timeout), and the event loop
\* runs every callback that is ready before it starts another round: a loop whose timer
\* is due is not overtaken for ever by requests.  Nothing is assumed of kills, edits,
\* requests or the owner.
Fairness ==
    \A d \in Daemons :
        /\ WF_vars(Proceed(d))
        /\ SF_vars(WatchStore(d))
        /\ SF_vars(WatchOwner(d))
        /\ SF_vars(BeginStop(d))
        /\ SF_vars(Unpublish(d))

FairSpec == Spec /\ Fairness

-----------------------------------------------------------------------------
(* Properties. *)

\* NetState.intent "is always a superset of confirmed": nothing is recorded as claimed
\* that was not first recorded as about to be claimed, however runs follow each other.
IntentCoversConfirmed == netstate # None => netstate.confirmed \subseteq netstate.intent

\* "Bind first": a rule appears on the machine only while the run it points at holds
\* the sockets, whether it starts or reloads, and even if a command half fails.
BindBeforeClaim == [][\A r \in os'.rules \ os.rules : port = r.by]_vars

Listed == IF netstate = None THEN {} ELSE netstate.intent

\* netstate.json is written before the policy is applied, so at every moment - a crash
\* can come at any - it names every namespace a rule of ours exists for.
RulesAreListed == NamespacesOf(os.rules) \subseteq Listed

\* Whatever the previous run left, nothing of it is on the machine when the next one
\* compiles its zone, binds and records its own intent.
StartsClean ==
    \A d \in Daemons :
        pc[d] \in {"build_zone", "bind_sockets", "write_intent"} => os = NoRules

\* A serving run that reports no policy error has exactly its zone's namespaces claimed.
ServedIsClaimed ==
    \A d \in Daemons :
        pc[d] = "serving" /\ ~policyError[d] => NamespacesOf(os.rules) = zone[d]

\* stop() puts the machine back: no rule of a run that went through it survives it.
StopPutsBack ==
    \A d \in Daemons : pc[d] = "stopped" => \A r \in os.rules : r.by # d

\* While a run serves, daemon.json leads a client to it and to no other run: neither
\* the file of a dead run nor the late exit of the previous one can hide it.
ServingIsPublished == \A d \in Daemons : pc[d] = "serving" => daemonFile = d

Leaving(d) == pc[d] \in Stopping \cup Ended

\* Closing or killing the window takes the daemon it started down, through stop().
OwnedRunEnds ==
    \A d \in Owned : (pc[d] = "serving" /\ ~owner) ~> (pc[d] \in Ended)

\* An edit another process makes while the run serves reaches the resolver's zone.
EditIsServed ==
    \A d \in Daemons : \A z \in Zones :
        (pc[d] = "serving" /\ ~seen[d] /\ store = z) ~> (zone[d] = z \/ store # z \/ Leaving(d))

\* Names that the resolver serves get claimed, or the run says it could not.
ServedGetsClaimed ==
    \A d \in Daemons : \A z \in Zones :
        (pc[d] = "serving" /\ zone[d] = z) ~>
            (NamespacesOf(os.rules) = z \/ zone[d] # z \/ policyError[d] \/ Leaving(d))
=============================================================================
