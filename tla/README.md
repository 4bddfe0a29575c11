# HostBridge: a TLA+ model

HostBridge claims DNS namespaces on a developer's machine (NRPT rules on Windows, a
systemd-resolved link on Linux), points them at a resolver of its own on port 53, and must
put the machine back as it was whatever happens to it.  This directory models that promise
and the parts of the program that keep it, checks them with TLC and proves what can be
proved with TLAPS.  Everything is translated from the source; a `file:line` is relative to
`src/`.

## 1. Inventory

| component | code | state it keeps | operations | in this project |
|---|---|---|---|---|
| Name policies | `daemon/policy.py`, `system/nrpt_win.py`, `system/resolved_linux.py` | the machine's rules, found by a marker or by a link's name | `apply`, `remove`, `remove_all` | `NamePolicy` |
| Daemon run | `daemon/runner.py`, `daemon/netstate.py`, `resolver/server.py` (sockets) | `netstate.json`, `Runner.applied`, `policy_error`, `_stop`, the sockets, the zone | `start`, `apply_policy`, `reload`, the watch loops, `serve_forever`, `stop` | `Runner`, `RunnerProofs` |
| Repair | `daemon/repair.py` | none; reads and clears the files of a run | `repair` | `Repair`, `RepairProofs` |
| Entry points | `daemon/service.py`, `daemon/winservice.py`, `system/service_*.py`, `app/cli.py` | what the service manager knows | launch, stop, repair after a stop | as environment of `Runner`, `Repair` |
| Window start-up | `client/bootstrap.py`, `system/elevate.py` | the owner's process number, an attempt under way | launch with an owner, wait for the API, give up | the owner in `Runner`, the attempt in `Window` |
| Domain store | `core/store.py`, `core/jsonio.py`, `core/model.py`, `core/migrate.py` | `domains.json`, its lock, its backups | `mutate` and, through it, `add`, `update`, `toggle`, `delete`, `reconcile` | `AtomicStore`, `DomainStore`, `DomainStoreProofs`: `mutate`; `DomainRecords`, `Editing`: its operations |
| Zone | `core/match.py` | immutable tables | `normalise`, `validate`, `from_domains`, `match` | `Zone`, `ZoneProofs` |
| Resolver | `resolver/query.py`, `answer.py`, `cache.py`, `upstream.py`, `server.py` (requests) | the zone, the cache, cold servers, lookups in flight | `handle`, `apply`, `resolve`, `stop` | `Resolver`, `ResolverProofs` |
| Discovery | `discover/*.py`, `runner.py:295-409` | the event stream, listings in flight | polls, event stream, reconcile | `Discovery`, `DiscoveryProofs`; what labels ask for in `Editing` |
| Event bus | `core/events.py` | bounded queues, history | `publish`, `subscribe`, `close` | `Window`, `WindowProofs` |
| Control API | `daemon/api.py`, `daemon/auth.py`, `daemon/status.py` | `daemon.json`, open streams | requests that change the store, settings, event streams | publication in `Runner`, streams in `Window`, the routes of records in `Editing`; settings are not modelled |
| Client bridge | `client/api.py` | the backend chosen at connection | local and HTTP backends, the event stream | `Window` (choice, stream), `Editing` (requests) |
| Window, console | `ui/*.py` | widgets, the worker's bridge, queued signals; the list shown | slots, dialogs, menus | `Window` (worker, signals, notices), `Editing` (the table, its dialogs, the console) |
| Settings | `core/config.py` | `settings.json` | `load`, `save` | not modelled, see the end of section 3 |
| Probes, paths, logging, translations, build | `system/` (rest), `core/paths.py`, `core/log.py`, `lang/`, `build/` | none | one effect each | not modelled: no state of their own |

How they meet.  A run *is* one asyncio thread: `start` is a straight line of calls, after
which the store watch, the owner watch, the discovery loops and the API handlers share the
loop; each of them ends in `reload`, which contains no `await`.  Different processes share
files only: the store (under a lock), `netstate.json` and `daemon.json` (atomic replace, no
lock), the rule table (external commands) and port 53.  A window starts a run and is watched
by it; a service manager starts and stops runs and, on Linux, calls repair in between.

What is hard.  A run can die between any two calls and in the middle of an external command;
what it leaves must be recognisable.  Commands are refused, time out or fail silently after
doing half their work.  Two runs may overlap, although nobody intends it.  Files of dead
processes look like files of live ones.  The store changes while a run starts or stops.
`PROJECT.json` lists each hazard at its line, with the properties that would catch it.

What makes each component correct:

* **policies**: an apply leaves exactly what was asked; a removal only ever takes away;
  repetition is harmless;
* **run**: no rule without the sockets behind it; every rule named in the record at every
  moment; a clean machine at the start of the next run and at the end of this one; what is
  served is claimed; edits reach the zone; the run ends with its owner;
* **repair**: exit 0 means nothing of ours is left, and being interrupted loses nothing;
* **store**: no edit of another process is lost, no half-written file, a source touches only
  its own records, a name is discovered once;
* **discovery**: an unreachable engine is not an empty one, what an older listing undid is made
  good, the loops recover from whatever failed;
* **event bus, API**: every subscriber sees a gapless stream or is told that it ended;
* **zone**: what it answers depends on precedence and not on the order of the records; what a
  user may type can be served;
* **resolver**: a name that is ours is answered here and nowhere else, whatever an upstream said
  of it before; identical questions share one lookup and all of them are answered; SERVFAIL is
  the last word of every server, not of the first;
* **window**: it comes to show the list and the state there are, whatever connections broke, and
  keeps saying that nothing serves when nothing does;
* **editing**: through the daemon or without it, one request does one thing; nothing that failed
  goes untold.

## 2. Modules

| module | what it is |
|---|---|
| `NamePolicy` | the two mechanisms as operators: for each operation the set of its outcomes (table left, raised or not) and of the tables a death in the middle can leave |
| `Runner` | any number of daemon runs on one machine, one action per call that leaves the process, plus kills, store edits and the owner's death |
| `Repair` | `Runner` composed with the repair process and reboots |
| `AtomicStore` | what `mutate` promises: an edit is applied whole and once to the list of that moment, or refused |
| `DomainStore` | how it does it: any number of calls of `mutate`, one action per step under the lock, plus deaths, the clock and a newer build |
| `Sublists` | the one operator the lists of `Resolver` and `Editing` are cut with: the items at certain places, in their order |
| `DomainRecords` | the records and what `add`, `update`, `delete` and `reconcile` make of them, as operators |
| `Zone` | names, their validation, the compiled tables and the lookup, as operators, with what they promise said of the records |
| `Resolver` | queries from arrival to reply over a zone that changes, the cache, the shared lookups, the servers and their cold periods |
| `Window` | the event bus of a run, its stream through the API, the window's worker, its queued signals and its slots, over runs that come and go |
| `Editing` | requests that edit the list, from what a dialog shows to what the store keeps, through either backend, with the console and an importer beside it |
| `Discovery` | the Traefik loop, the engine's loop with its event stream, and the refreshes of the API, over sources that change and fall silent |
| `MCRunner`, `MCRepair`, `MCDomainStore`, `MCDiscovery`, `MCResolver`, `MCWindow`, `MCEditing` | instances for TLC |
| `RunnerProofs`, `RepairProofs`, `DomainStoreProofs`, `DiscoveryProofs`, `ZoneProofs`, `ResolverProofs`, `WindowProofs`, `EditingProofs` | the theorems |

`Runner` extends `NamePolicy`; `Repair` extends `Runner` and drives its `Next`.  `DomainStore`
stands beside them and is an instance of `AtomicStore`; `Runner` sees the store as a set of
namespaces that any process may change at once, which is what the refinement justifies.
`Discovery` extends `DomainRecords` and applies an operation to the records in one step, for
the same reason.  `Resolver` and `Editing` extend `Zone` and `Sublists`, whose recursive function
is what a comprehension or a loop with `append` is in the code; `Editing` is an instance of
`DomainRecords`, which says less: its steps are mapped to the steps `Discovery` is made of.
`Window` knows the list by its version only, since what it shows is a copy.

### NamePolicy

`os` is a table: our rules, each a namespace and the run (`by`) whose servers it carries, and
whether our link exists.  Rules of other programs never match the marker and are left out.
`Outcome(ok, table)` is what an operation returns: `ok = FALSE` is a raised `PolicyError`.

* NRPT: `plan_apply` removes what is stale, then adds what is missing, by namespace
  (`NrptPartway`, `NrptApplied`); removals are told to continue silently, so with the
  `remove` fault some have no effect and nobody is told (`TakenAway`, `RemovalReports`);
  a query that failed reads as an empty table (`ReadPresent`, fault `read`); an empty plan
  runs nothing; `remove_all` swallows its failure.
* systemd-resolved: link, servers, domains in this order (`ResolvedPartway`); setting the
  servers redirects the domains already on the link; `resolvectl revert` on a missing link
  is not tolerated, `ip` on a missing link is.

### Runner

| in the model | in the code |
|---|---|
| `pc[d]` | the next call of run `d`: `clear_leftovers`, `remove_all`, `clear`, `build_zone`, `bind_sockets`, `write_intent`, `apply_policy`, `write_confirmed`, `publish`, `serving`, `rewrite_intent`, and `unpublish` ... `clear_state` for `stop()` |
| `os` | the rule table of the machine |
| `port` | whose sockets are bound (`bind_sockets` is all or nothing, `server.py:102-106`) |
| `netstate`, `daemonFile` | the two files; a write is an atomic replace, so it is one step |
| `store` | the set of namespaces `domains.json` compiles to |
| `zone`, `applied`, `policyError`, `stop` | `resolver.zone.namespaces()`, `Runner.applied`, `bool(policy_error)`, `Runner._stop` |
| `draft` | the `NetState` object handed to `apply_policy`, which may differ from the file |
| `resume` | where `apply_policy` returns to: the rest of `start`, the loop, or an API handler still running during `stop` |
| `seen` | whether the stamp of the store is the one the watch loop remembers |

`Faults` chooses what may go wrong: `read`, `apply`, `remove` (commands), `save` (writing
the record during a reload), `bind`, `pid` (the number of a dead process is in use again).
`Kill` is possible at every `pc`, and during a command leaves any of its intermediate tables.
An exception that nothing catches is a `Kill` too.  `Launch` happens once per run; with
`Overlap = FALSE` only when no other run is alive.  `Owned` runs watch `owner`.

Kept out of `Runner`: the null policy of an unsupported machine; `policy.flush()`; a record
written by a newer build (read as none); the choice of addresses and upstreams; settings.  A
rule's `by` stands for its name servers; two runs with equal settings carry equal ones.

### Repair

`repairing` is the next call of `repair()`, or its last exit code.  With
`RepairAnytime = FALSE` it runs only while no daemon does, as `ExecStopPost` and the next
`ExecStart` do (`service_linux.py:42-50`).  `Reboot` ends everything; rules and files
survive it, the dummy link does not.

### DomainStore and AtomicStore

A client is one call of `mutate`, in any thread or process: `locked()` opens the lock file
anew each time, so threads of one process exclude each other as processes do.  `pc` is the
call's place: waiting for the lock, `load` (`store.py:210-216`: read, check the schema,
apply the change, all in memory), `rotate` (`_rotate_backup`), `replace`
(`write_json_atomic`), `unlock`; each is a step between which others may move or the process
may die.  `change`, `snapshot` and `stamp` are the call's locals.  The file is its schema (none, old, current,
newer) and its list; what a change does to the list is the constant operators `Effect` and
`Refuses`, so the results hold for `add`, `update`, `toggle`, `delete` and `reconcile` alike.
Out of the model: a lock file that cannot be opened (the call fails before it begins), the
temporary files a death leaves, readers without the lock (`os.replace` shows them one whole
version or the other), and users who edit the file by hand.

`AtomicStore` knows only the list, what each client waits for, and how it ended.  The mapping
reads the list off the file and takes a client for waiting until its change has replaced the
file, been found to change nothing, or been refused.

### DomainRecords and Discovery

A record is its source, its identity and its name.  A discovered record's owner is
`host:<name>` in both importers, and `reconcile` works by owners, so its name stands for it;
a manual record has an id of its own and may change its name.  `enabled`, `address`, `note`
and the times are left out: no operation decides on them.  So is `pinned_fields`, which
nothing writes any more.

| in the model | in the code |
|---|---|
| `world`, `reachable` | what the engine and Traefik would list, and whether they answer |
| `records` | `domains.json` |
| `poll[p]` | where one call of `poll_docker` or `poll_traefik` is: waiting for the listing (`asked`), holding it (`answered`), or refused (`failed`); `p.by` says whether the loop or an API handler made it |
| `listing[p]` | the listing it holds, of the moment of the answer |
| `docker` | where `_docker_loop` is: `scan` and `scanning` (`runner.py:390`), `open` and `follow` (395), `rescanning` (398), `rest` (the back-off, 406) |
| `stream`, `heard` | the event stream, and the events on it the loop has not come to |

`Apply` is everything after the `await`: conversion, `reconcile`, the return.  It is one step
because nothing between is awaited, and it may come long after the answer: the loop, a refresh
and the users move in between.  `PlaceAfter` says where the engine's loop goes on: a failed
scan raises `DockerUnavailable` itself (391), a failed rescan goes back to the stream, and
what `reconcile` raises leads to the back-off.  Reachability flags only choose a log line or
feed the status; the one that is read (391) is read before anything else can set it.  Stopping
is in `Runner`.  The stream is asked for what happens from then on, since the loop passes no
`since`.

### Zone

A name is the sequence of its labels; a label is a model value, and what makes it unusable is a
set it belongs to.  `Folded` is what `lower()` and punycode make of a label: idempotent, and no
label becomes the empty one or `*`.  Punycode that fails, or that changes the number of labels,
is left out; so is the length of a name in characters, for which `MaxLabels` stands.
`normalise`, `validate`, `apex_of`, `from_domains`, `match`, `IsOurs` and `namespaces` are the
functions of `core/match.py`; `Table` keeps the last record of a key, as a dictionary does.

Two definitions are not the code's: `AnswersByRank` says of the records what the comment of
the module says of the tables (a name before a subtree, a deeper subtree before a shallower
one, the later of two records of one name), and `AcceptedIsServable` says what validation is for.

### Resolver

| in the model | in the code |
|---|---|
| `zone`, `cache` | `Resolver._zone`, `Cache._entries` in order of insertion, each with its age |
| `pending[k]` | `Upstream._inflight`: the servers left to ask, the stage of the present one, the transport of the leader |
| `cold` | `Upstream._cold`, as the time that is left |
| `query[q]` | a handler: idle, leading or joining the lookup of its key, or about to wake; and, until its slot is used again, what it replied |
| `listening` | `Server.stop`: the transports close, then the handlers of datagrams are cancelled |

A step is what runs between two awaits.  `Refuse`, `AnswerLocally`, `AnswerFromCache` and
`ForwardQuery` are the ways through `handle`; `ServerAnswers`, `ServerAnswersNothing`,
`ServerTruncates` and `ServerFails` what an exchange with one server can come to, with the
cache, the cold periods and the leader's reply in the same step; `Wake` is a query that joined.
`apply` is the resolver's and clears the cache when the namespaces change.  `CancelDatagrams`
ends the lookups led by datagrams with an error for the TCP connections that joined them.  The
bytes of messages, identifiers and EDNS are out of the model, except the flag that belongs to
the key of the cache; so is a list of servers that is empty from the start, to which the code
answers SERVFAIL at once (`ServersAssumption`).

### Window

| in the model | in the code |
|---|---|
| `run`, `bus`, `stream` | the daemon there is; `Bus` (history and count); one subscription with its queue and what lies unread in its socket |
| `worker` | `BridgeWorker.run`: connect, open the stream, read it, and its `bridge` |
| `signals` | the signals queued between the worker's thread and the window's |
| `window` | `MainWindow`: its bridge, the list it shows, its notices, whether a start is being tried |
| `store` | how many edits the list has seen |

`publish` puts an event in the queue or, when it is full, detaches the subscriber and leaves it
the word that wakes it; `Attach` is `_stream_events` up to its loop, which awaits nothing
between attaching and replaying; `Forward` one round of the loop.  `Deliver` is a queued
slot: it takes the bridge the worker has *then*, not the one it had when it emitted.  A run that
is stopping may still answer (`Answered`); one that crashed leaves `daemon.json` behind and
answers nobody.  `FitsHistory` bounds a burst between the check that found a daemon and the
attachment of the stream: section 3 says why.

### Editing

The store is the list in its order, with ids, sources, addresses and switches.  `add`,
`update`, `toggle`, `delete`, `reconcile` are the operations of `DomainStore`; `Http` and
`Local` are the two backends with what they validate and what the bridge says of the outcome;
`Call` adds what can go wrong on the way, a lost answer among it.  `window` is the tab: a
dialog with the names it refuses and the records it is about, as they were when it opened, and
the requests it has left to make.  Between any two of them `Console` and `Sync` may act.
`Refresh` is the list following an event; nothing obliges it to be recent.

## 3. Runs

The runs of `Runner` and `Repair` use two namespaces, enough for a set to grow, shrink and be replaced, and for a
command to stop between two rules.  `SomeZones` is three sets, none empty; `AnyZones` and
`NoneOrBoth` contain the empty one.  Three runs in turn are enough: one leaves a mess, one
starts on it, and one starts on what that leaves; two are used where the question concerns
one overlap.  No counter is bounded: a process is launched once, so the state space is finite
by itself.  Deadlock is checked in every run, for every module: something outside the program
can always happen again.

`DomainStore` has two callers, two names, three changes (two additions and a deletion), two
backups kept and three seconds: two callers are what a lock can get wrong, since further
waiters stand where the second does (three were tried once with the same result), and one
second more than backups kept makes the pruning bite.  Files start missing, old, current or
newer.  `Faults` is `{"write"}`: under `"read"`, `"backup"` and `"clock"` the properties that
the theorems of section 4 state without them do fail.

`Discovery` has one name, which both sources may list and a manual record may take: collisions
are about one name, and names do not interact otherwise.  Each source has a loop and a refresh
beside it, which is all the overlap there is: a second refresh stands where the first does.
`MaxTroubles` bounds what happens around the daemon (a change of the world, a source going
down, a request that times out, a store that refuses): two are enough for a listing to become
stale behind another, and for a source to fall silent over a changed world.  `DockerDrifts`
allows one, the container itself, so nothing else can be to blame.

`Resolver` has one question in a datagram and one in a TCP connection, which is where the two
differ: in the transport of a lookup, in what a stop does to them.  They ask two names and
one opcode that is refused.  Two servers are warm or cold independently; a third address is the
resolver's own and must be filtered.  Four lists of records claim, change and release the
names.  Lifetimes of 0 and 3 are below `MinTtl` = 1 and above `MaxTtl` = 2; a cache of one entry
evicts with the second.  The same run evaluates `AnswersByRank` for every list of up to two of
24 records against eight names, and `AcceptedIsServable` for every sequence of up to three of ten
labels (the constants `ProbedLists`, `ProbedNames` and `ProbedInputs`); the theorems of section 4
do without these bounds.

`Window` has a queue of one event, a socket that holds one, a history of two and a run that
publishes three, so that every limit is met; two runs, two edits and two queued signals.  A
second run is what a stale connection can be mistaken for.  `MaxSignals` makes
the worker wait for a slow window, which the code's unbounded queue does not.

`Editing` has two records at a time and three in all, which is what a renaming needs to meet
another; four typed names (one in capitals with a dot at its end, a wildcard with its apex,
one that is refused) and one importer.

| run | asks | result |
|---|---|---|
| `RunnerRestart` | NRPT, three runs in turn, kills anywhere: is every rule in the record, every start clean, every served zone claimed? | holds |
| `RunnerOverlap` | two runs alive at once, refused and silent commands, failed writes, reused process numbers, a store that empties | the intent covers what is confirmed, a rule appears only with its sockets bound, a serving run is the published one |
| `RunnerFair` | liveness of a run owned by a window, with refused commands and binds | ends with its owner, serves edits, claims or reports |
| `RepairBetweenRuns` | NRPT, repair between runs, reboots, a store that empties | exit 0 is a clean machine |
| `RepairResolved` | systemd-resolved, runs and repairs in turn, both cut short anywhere, reboots that take the link | whatever is left is still named by the record |
| `DomainStore` | is every edit atomic (`AtomicStore` as a property), a newer file kept, a replaced one in the backups, the lock given back, every call answered? | holds |
| `Discovery` | can listings, failures, refreshes and edits, in any order, lose a record to a silent source, discover a name twice, leave Traefik's records out of step, or leave a loop stuck? | no |
| `Resolver` | can an answer mix two zones, outlive what the cache allows, be SERVFAIL while a server was not asked, or never come; does the zone answer by precedence, and what is accepted get served? | all hold |
| `Window` | does a live stream lose, repeat or reorder an event; does the window settle on the run, the list and the notices there are; does it admit for good that nothing serves? | holds |
| `Editing` | do the backends agree, is each request one operation of `DomainRecords`, is each failure told? | holds; two manual records share a name in the one way `EditsAreRecordEdits` names |
| `StopLeavesRules` | a stop after the last domain was disabled | **violated**: the rules stay |
| `DockerDrifts` | a container that starts between a scan and its event stream | **violated**: never found |

The violated ones are places where the code and what its documentation or tests say of it
differ; `PROJECT.json` quotes both sides under `findings`.  The passing runs leave out
exactly what these show: `RunnerRestart` and the proofs of section 4 exclude the empty store,
overlap and refused commands; `Discovery` states for Traefik what `DockerDrifts` refutes for the
engine.

Other differences met while modelling have no run.

* *Runs.*  The watch loop takes its first stamp after the zone was compiled
  (`runner.py:431`): an edit made in between is in the stamp and not in the zone, although
  its comment (421) says that edits of other processes are noticed.  A run that stops slowly
  clears the record the next one has just written (`runner.py:520`), so the record is no longer
  the superset `netstate.py:6-7` promises.  A daemon launched beside another after a crash reads
  the dead run's record (`runner.py:159-165`) and sweeps by the marker (171) with nothing held
  between, so it can take the rules the other has just claimed, although
  `tests/unit/test_runner.py:242` says that the second must not tear down the first's.  A write
  of the record that fails during a reload (`runner.py:262`) comes after the resolver has the new
  zone (252), so the next reload sees no difference (253) and the names stay served and
  unclaimed; `RunnerFair` excludes that fault.  `stop()` closes the sockets (`runner.py:499`)
  before it removes the rules (503), although `runner.py:14` promises the reverse of the start.
  A Windows service asked to stop before its loop exists (`winservice.py:78`) asks nobody.
* *Repair and policies.*  After a reboot the record names a link that is gone, and repair
  exits 5 with nothing to repair (`repair.py:44`, `resolved_linux.py:158-162`), although
  `repair.py:12-13` says that finding nothing is success.  `plan_apply` never re-adds a rule
  whose servers changed (`nrpt_win.py:118`), although the comment at 122 speaks of that case.
  On Windows a failing `remove_all` is swallowed (`policy.py:84`), so repair can exit 0 with
  rules left.
* *Settings.*  `_update_settings` sets the attributes one by one (`api.py:334`) before the
  request is known to be valid (327, 332) and before they are saved (341): a request refused
  with 400 or 500 has changed the daemon, and the same request again answers 200 without
  writing, although `tests/integration/test_control_api.py:442` says that a setting is written.
  The Traefik loop is made, with its interval, only when the daemon starts (`runner.py:476`,
  330), so an address set later is polled by hand alone.
* *Streams.*  A burst longer than the history (`events.py:30`) between a window's connection
  and the attachment of its stream pushes a change of the list out of the replay, and nothing
  tells the window: hence `FitsHistory`.  `Bus.close` leaves no sentinel in a full queue; the
  cancellation of the streams ends them.  A reload by the watch loop publishes no "domains"
  event, so an edit of another process reaches an open window with the next one that does.
  A request read after `ControlApi.stop` has cancelled the streams gets a stream that keeps the
  close of the port waiting, where the library waits for connections (`api.py:132-145`).
* *Editing.*  `ReconcileResult` says that a manual record always wins over a discovered one
  (`store.py:90-91`); after a renaming through a dialog opened over an older list there are two
  records of the name, of which `by_name` finds the first and the zone serves the last.
  `LocalBackend` calls itself interchangeable with the routes (`client/api.py:86-88`), yet it
  validates no change of a name and ignores `enabled` on creation: `BackendsAgree` holds because
  of what the interfaces send.  An edit whose reload fails afterwards is made and not answered.
  When a wildcard is added with its apex and the wildcard is refused, the apex is not tried.
* *Resolver.*  An upstream that answers with an empty message ends the lookup with SERVFAIL
  although other servers are left; answers from the cache, and those of a joined lookup, repeat
  the first asker's spelling of the name.

Fairness (`Runner!Fairness`).  Every call a run makes returns, because commands carry a
timeout (`system/run.py`), so `Proceed` is weakly fair.  The watch loops are timers: asyncio
runs every ready callback before the next round, so a due loop cannot be overtaken for ever
by API requests, although these disable it again and again by occupying the thread; hence
strong fairness of `WatchStore`, `WatchOwner`, `BeginStop`, `Unpublish`.  Kills, edits,
requests, launches and the owner are not fair at all.  In `DomainStore` each call under way is
weakly fair: between taking and giving back the lock it waits for nothing, and while it waits
it either finds the lock free or reaches `LOCK_TIMEOUT`.  In `Discovery` the two loops and every
poll under way are weakly fair: their waits are timers, and a request is answered or times
out.  No source is obliged to come up; the liveness properties assume that it does, for good.
In `Resolver` the lookups and the wake-ups are weakly fair: every exchange is bounded by a
timeout, and the event loop runs what is ready; clients, the store and a stop are not fair.  In `Window` the daemon's
handler, the worker's thread and the slots that a queue or a timer starts are weakly fair;
nobody has to edit, press a button or start a daemon, and the two liveness properties say from
when on the daemon is up or down for good.

## 4. Proofs

`RunnerProofs` proves, for every set of namespaces and runs and for both mechanisms:

| theorem | property | assumes |
|---|---|---|
| `TypeCorrect` | `TypeOK` | nothing beyond the constants' assumptions |
| `IntentAlwaysCovers` | `IntentCoversConfirmed` | nothing |
| `ClaimsAreBound` | `BindBeforeClaim` | nothing |
| `ServingIsAlwaysPublished` | `ServingIsPublished` | nothing |
| `RecordNamesEveryRule` | `RulesAreListed` | `OneByOne` |
| `EveryStartIsClean` | `StartsClean` | `OneByOne` |
| `ServedIsAlwaysClaimed` | `ServedIsClaimed` | `OneByOne` |
| `StopAlwaysPutsBack` | `StopPutsBack`, which `StopLeavesRules` refutes without `OneByOne` | `OneByOne` |

`OneByOne` is `Faults = {}`, a store that never empties and no overlap: section 3 tells what
goes wrong without each part.

The argument.  Lemmas about `NamePolicy` come first: an apply, finished or not, adds only
rules of its own run for what was asked or was there (`ApplyPartwayGains`); a removal,
finished or not, only shrinks the table (`RemoveShrinks`, `RemoveAllShrinks`); an apply that
nothing refuses leaves exactly what was asked (`QuietApply`) and such a removal nothing
(`QuietRemove`, `QuietRemoveAll`).  Then the inductive invariants:

* `IntentInv` adds to `IntentCoversConfirmed` that the draft a run is about to write covers
  what it will confirm;
* `PortInv` says that a run between the bind and the end of its listeners holds the port,
  which is what makes every new rule point at bound sockets; with it, `PublishInv` says that a
  run that serves, or applies on the way back to serving, is the one in `daemon.json`: two runs
  cannot both be between their bind and the removal of the file;
* `RestartInv` says, for each place a run can be, what the machine, the record and the run's
  memory have to do with each other (`RunInv`), together with: at most one run is alive
  (`Sole`), a link exists where rules need it (`LinkOk`), and a record that is absent or
  marked clean means a clean machine (`CleanIsClean`).  `RulesAreListed` alone is not
  inductive: a reload unites the recorded intent with the new zone, and that this covers the
  old rules depends on the record being this run's own.

`DomainStoreProofs` proves, for every set of clients, changes and lists, every `Effect` and
`Refuses`, and every bound:

| theorem | property | assumes |
|---|---|---|
| `StoreTypeCorrect` | `StoreTypeOK` | nothing |
| `SnapshotStaysFresh` | `SnapshotIsFresh` | the file can be read |
| `EditsAreAlwaysAtomic` | `EditsAreAtomic`: `Spec` implements `AtomicStore` | the file can be read |
| `NewerIsAlwaysKept` | `NewerIsKept` | the file can be read |
| `UndoIsAlwaysThere` | `UndoIsThere` | copies succeed, the clock is not put back |

The first assumption matters: `load` takes a file it cannot read for an empty one
(`store.py:148-150`), and the next change would then replace everything, a newer file
included.  The argument: `OneHolder` says that a call is past the lock exactly when it has it
(`LockInv`, with the types and what each call was asked); hence nobody else can have changed
the file between a call's read and its write, which is `SnapshotIsFresh`, and `replace` is
`AtomicStore`'s `Take` on the list of that moment.  `LockInv` holds whatever fails.  For the
backups, `BackupsInOrder` adds that none is named after a later second than now, so the copy
just made is the newest and the pruning spares it (`NewestSurvives`).

`DiscoveryProofs` proves, for every set of names, ids and refreshes and any `MaxTroubles`, with
no assumption beyond the constants':

| theorem | what |
|---|---|
| `DiscoveryTypeCorrect` | `DiscoveryTypeOK` |
| `UnreachableIsAlwaysKept` | `UnreachableIsNotEmpty` |
| `DiscoveredAtMostOnce` | `DiscoveredOnce` |
| `ReconcileKeepsOthers` | a pass leaves every other source's records as they are |
| `ReconcileTwice` | a pass that sees what the one before saw changes nothing |

`DiscoveredOnce` needs `Owned`: a discovered record is determined by its source and its name,
so a pass that finds no record of another source under a name, and adds one, cannot double its
own.  Users cannot disturb it, because `update` and `delete` refuse discovered records.

`RepairProofs` extends `RunnerProofs` and proves, for both mechanisms, every store, any overlap
of runs and repairs:

| theorem | what | assumes |
|---|---|---|
| `RepairTypeCorrect` | `RepairTypeOK` | nothing |
| `RepairAlwaysCleans` | `RepairedIsClean` | `"remove"` is not in `Faults` |

The argument is `CleaningInv`: a link is there wherever rules need one (`LinkOk`, which every
step keeps, finished or cut short, so that the removal by marker reaches every rule); and while
no daemon has lived since the repair began, what it has undone so far stays undone.  The
assumption is the fault under which a removal that did nothing is reported as done.

`ZoneProofs` proves, for every set of labels and whatever makes them unusable:

| theorem | what |
|---|---|
| `ZoneAnswersByRank` | `AnswersByRank` for every list of records that have a name and every question |
| `WhatIsAcceptedIsServed` | `AcceptedIsServable` for everything that can be typed |

The lookup finds the *least* start of a suffix, and a table keeps the *last* record of a key:
`MinIsLeast` and `MaxIsGreatest`, from the well-foundedness of the naturals, say that these
exist.  The rest for the zone is that two wildcards whose tails are one suffix are one name (`SameTail`) and
that a suffix that starts earlier is longer (`SuffixIs`).  `NormaliseTwice`, that a key is
matched like the question it was made of, is what the cache and the lookups rest on.

The same module holds the lemmas about lists that the next two need.  `Sublist` is a recursive
function, and what it returns for every list takes an induction, which the library's theorem
cannot be used for: `NatSetInduction` derives it for a set of numbers from the least element
that well-foundedness gives.  `LoopExists` then says that the function is defined, `SublistIs`
that a sublist is the list read along an increasing map of its places, and `SublistIn`, `SublistFrom`,
`SublistHas` and `SublistInOrder` what follows for its items.

`ResolverProofs` proves, for every list of records, every set of questions and slots, every list
of servers and every lifetime:

| theorem | property |
|---|---|
| `ClaimsEmptyTheCache` | `NoAnswerSurvivesAClaim` |
| `OursStaysOurs` | `OursIsNeverForeign` |
| `OneLookupPerQuestion` | `OneLeader` |
| `ResolverTypeCorrect` | `ResolverTypeOK` |
| `CacheStaysFresh` | `FreshFromCache` |
| `ServfailStaysHonest` | `ServfailIsHonest` |
| `ZoneInForceAnswersByRank` | `MostSpecific` |
| `ZoneInForceIsServable` | `AcceptedIsServed` |

The first rests on `OursIsClaimed`: whether a name is ours depends on the namespaces of the
zone and on nothing else, given that no record claims the root (`RootIsFree`).  So comparing
namespaces, as `apply` does, misses no name that changes hands.  The other two come from
`QueryInv`: the slots and lookups have their shape (`Shaped`), `OneLeader`, a lookup over UDP is
led by a datagram and one over TCP by a connection (`LedByItsTransport`, without which
cancelling the datagrams would leave lookups without a leader), and `OursIsNeverForeign`.

The last five come from `ResolverInv`.  `CacheOk` keeps every entry's lifetime within the
bounds of the code, a failure's within the shorter one, and no two entries of one key: so what
`get` finds not yet expired is younger than both bounds.  `GoodLookup` says that a server is
either left to be asked or has failed, and that a lookup in progress has one left: together
with `_order`, which loses no server however many are cold, this is why SERVFAIL is the last
word of all of them (while the resolver listens: a cancelled lookup has asked nobody it did not
get to).  None of the properties implies these: `ServfailIsHonest` speaks of replies, and
what makes a reply honest is in the lookup it comes from.  `MostSpecific` and
`AcceptedIsServed` add to the theorems about `Zone` that the zone in force is always the
compilation of a list of the store; `RecordsAssumption` says what these lists hold.

`WindowProofs` proves, for every size of queue, history and socket and any number of runs and
edits:

| theorem | property |
|---|---|
| `StreamIsAlwaysGapless` | `StreamIsGapless` |
| `WindowTypeCorrect` | `WindowTypeOK`: every queue between the daemon and the window within its bound |

`StreamInv` is: the types; `HistoryIsTail` (the history is the end of what was published, in
order); `StreamOfARun` (no stream of a run that is gone is written to); and `Gapless` (socket
and queue, one after the other, count on from the last event read).  The lemmas about sequences
whose numbers count on (`CountedAppend`, `CountedTail`, `CountedConcat`) do the arithmetic.
`WindowTypeCorrect` rests on `StreamInv` for the replay (a history is no longer than what was
published) and has one lemma per group of steps: `PublishBounded`, `AttachBounded`,
`ForwardBounded`, `ReadBounded`, `LivesBounded`, `FollowerBounded`, `SlotsBounded`.

`EditingProofs` proves, for every set of names, addresses, importers and listings and any number
of records:

| theorem | property |
|---|---|
| `EditingTypeCorrect` | `EditingTypeOK` |
| `BackendsAlwaysAgree` | `BackendsAgree` |
| `EditsImplementRecords` | `EditsAreRecordEdits`: every step is one `DomainRecords` allows, or a stutter |
| `FailuresAlwaysTold` | `FailuresAreTold` |

They share `EditingInv`.  Its parts: the list (`GoodList`: usable, normalised names, ids that
are unique and no greater than the last one issued); the view (rows with ids that were issued);
and the window (`WindowInv`).  `EditingTypeOK` is not inductive.  What a request does depends on what it is
made of, so `MayAsk` says for each kind of dialog what the tab may have left to ask: names the
route would not rewrite (`NormaliseTwice`), no switch on creation, no name the dialog refuses.
From it `SoundAgrees` gives `BackendsAgree`, and the exception in `EditsAreRecordEdits` its
bound: only the dialog renames, and only to a name that was not in the list it was opened over.
For `FailuresAreTold` the last part of `WindowInv` is needed: of the records to be deleted, one
that is still there has failed or is still to come.  That a record, once gone, does not come
back under its id rests on the ids of the list being issued ones.

The steps.  `CreateDoes`, `UpdateDoes`, `ToggleDoes` and `DeleteDoes` say what each operation
makes of a good list: the list afterwards is good, its records are what `DomainRecords` makes of
them (`EditOf`), and what was asked for is there (`Met`); `CallDoes` adds the backends and the
lost answers.  `Reconciling` describes a list after a pass of an importer by what was kept
(`KeptIs`) and what is new (`FreshIs`); `ReconcileDoes` shows that its records are
`DomainRecords`' `Reconciled`.  `EditingStep` puts them together, one step per action.

Every safety property that a passing run checks is the property of a theorem.  Only
model-checked: the liveness properties, which are out of the prover's reach (`OwnedRunEnds`,
`EditIsServed` and `ServedGetsClaimed` of `RunnerFair`, `LockComesBack` and `EveryCallReturns`
of `DomainStore`, `TraefikIsFollowed` and `StreamComesBack` of `Discovery`,
`EveryQueryIsAnswered` of `Resolver`, `WindowSettles` and `OfflineIsAdmitted` of `Window`); and
the violated properties, which are counterexamples.

## 5. Not modelled

* *Settings*: one file, one writer, no reader that waits for it.  What is wrong with the handler
  is said in section 3.  Authorisation and the framing of requests keep no state.
* *The bytes*: DNS messages, their truncation for a datagram (which cuts at 4096 without the
  flag that says so), DNS over HTTPS, HTTP, punycode, the rules of Traefik's routers.  They are
  functions from strings to strings; a model of them would be the code again.
* *The machine*: probes, paths, elevation, the DNS cache of the system, the installation of a
  service.  Each is one call without state of the program's own.
* *What draws*: the tray, the other tabs, translations, the console's menus.
* *Listeners that wait for their clients* (`server.py:269`, `api.py:143`): whether they do depends
  on the version of the library, so the models take the call as one that returns.

## 6. Plan

1. The settings handler, with the loops that read what it changes, as a module beside `Editing`.
2. The fault `read` of the NRPT in a run of its own.
3. The Windows service, whose stop may arrive before the loop exists.
4. Proofs: `RulesAreListed` without the assumption that the store never empties; the two
   refinements joined, `Editing`'s operations as the `Effect` of `DomainStore`.
