------------------------------- MODULE Window -------------------------------
(***************************************************************************)
(* The window beside the daemon: the event bus of a run and the stream the *)
(* control API makes of it (src/core/events.py, src/daemon/api.py), the    *)
(* thread that follows that stream (src/ui/bridge.py), and the main window *)
(* with its list, its notices and its attempts to start a resolver         *)
(* (src/ui/main_window.py).                                                *)
(*                                                                         *)
(* A step of the daemon is what runs between two awaits, a step of the     *)
(* window one slot of its event loop, a step of the worker one call that   *)
(* may block.  The list of domains is its version: the number of edits so  *)
(* far.  A bridge is the run whose API it talks to, or Local for the store *)
(* on disk.                                                                *)
(***************************************************************************)
EXTENDS Integers, SequencesExt

CONSTANTS
    QueueSize,      \* QUEUE_SIZE
    HistorySize,    \* HISTORY_SIZE
    WireSize,       \* events drain() lets lie unread in the socket
    MaxEdits,       \* edits of the list a behaviour makes
    MaxRuns,        \* runs of the daemon a behaviour has
    MaxEvents,      \* events one run publishes
    MaxSignals      \* signals queued for the window

ASSUME WindowAssumption ==
    /\ {QueueSize, HistorySize, WireSize, MaxSignals} \subseteq Nat \ {0}
    /\ {MaxEdits, MaxRuns, MaxEvents} \subseteq Nat

VARIABLES
    store,      \* the version of the list on disk
    run,        \* [id, phase]: the daemon, "down", "up" or "stopping"
    bus,        \* [count, history]: events published, and the last of them
    stream,     \* [phase, queue, wire, got]: the worker's subscription, the
                \* number of the last event it read (0 once it has ended)
    worker,     \* [at, bridge, since]: BridgeWorker, and how much was published
                \* when it found its daemon (0 once its stream is attached)
    signals,    \* what the worker emitted and no slot has handled yet
    window      \* [bridge, shown, notices, starting, ready]: MainWindow

vars == <<store, run, bus, stream, worker, signals, window>>

Local == 0
Kinds == {"domains", "log"}
Event(number, kind) == [number |-> number, kind |-> kind]

(* The None that tells a handler to end its stream.                        *)
Closing == Event(0, "none")

NoStream == [phase |-> "none", queue |-> <<>>, wire |-> <<>>, got |-> 0]

\* Mutant: the history grows without end.
LastOfAll(events) == events

(* What is kept of the events: deque(maxlen=HISTORY_SIZE).                 *)
LastOf(events) ==
    IF Len(events) > HistorySize THEN Tail(events) ELSE events

(* Whether a call to the run a bridge talks to is answered.  A run that is *)
(* stopping may have closed its port or not; one that is gone leaves its   *)
(* connection details behind when it crashed, and no call is answered.     *)
Answered(bridge) ==
    CASE bridge = Local -> {TRUE}
      [] bridge = run.id /\ run.phase = "up" -> {TRUE}
      [] bridge = run.id /\ run.phase = "stopping" -> BOOLEAN
      [] OTHER -> {FALSE}

(* Bridge.connect: the run that answers, or the store.                     *)
Found == {IF up THEN run.id ELSE Local :
             up \in IF run.id = Local THEN {FALSE} ELSE Answered(run.id)}

-----------------------------------------------------------------------------
(* The event bus and the stream of the run.                                *)

\* Mutant: a full queue loses its oldest event and keeps its subscriber.
EnqueueLossy(sub, event) ==
    IF sub.phase # "live" THEN sub
    ELSE IF Len(sub.queue) < QueueSize
         THEN [sub EXCEPT !.queue = Append(@, event)]
         ELSE [sub EXCEPT !.queue = Append(Tail(@), event)]

(* Bus.publish, for one subscriber: one whose queue is full is detached,   *)
(* and its oldest event makes room for the word that wakes it.             *)
Enqueue(sub, event) ==
    IF sub.phase # "live" THEN sub
    ELSE IF Len(sub.queue) < QueueSize
         THEN [sub EXCEPT !.queue = Append(@, event)]
         ELSE [sub EXCEPT !.queue = Append(Tail(@), Closing), !.phase = "dropped"]

(* The bound on a burst: between the check that found a daemon and the     *)
(* attachment of the stream, no more is published than the history keeps.  *)
FitsHistory ==
    worker.bridge = run.id /\ (worker.at = "open" \/ stream.phase = "asked")
        => bus.count - worker.since < HistorySize

publish(kind) ==
    LET event == Event(bus.count + 1, kind)
    IN  /\ bus.count < MaxEvents /\ FitsHistory
        /\ bus' = [count |-> bus.count + 1,
                   history |-> LastOf(Append(bus.history, event))]
        /\ stream' = Enqueue(stream, event)

(* _stream_events up to its loop: attached and replayed in one piece, so   *)
(* that no event falls between.  The replay is written without waiting.    *)
Attach ==
    /\ stream.phase = "asked"
    /\ run.phase \in {"up", "stopping"}
    /\ stream' = [phase |-> "live", queue |-> <<>>, wire |-> bus.history,
                  got |-> bus.count - Len(bus.history)]
    /\ worker' = [worker EXCEPT !.since = 0]
    /\ UNCHANGED <<store, run, bus, signals, window>>

(* One round of that loop: the next event to the socket, or the end.       *)
Forward ==
    /\ stream.phase \in {"live", "dropped"}
    /\ stream.queue # <<>>
    /\ \/ /\ Head(stream.queue) = Closing
          /\ stream' = [stream EXCEPT !.phase = "ended", !.queue = <<>>, !.got = 0]
       \/ /\ Head(stream.queue) # Closing
          /\ Len(stream.wire) < WireSize
          /\ stream' = [stream EXCEPT !.wire = Append(@, Head(stream.queue)),
                                      !.queue = Tail(@)]
    /\ UNCHANGED <<store, run, bus, worker, signals, window>>

(* A line of the log, which every run publishes as well.                   *)
PublishLog ==
    /\ run.phase = "up"
    /\ publish("log")
    /\ UNCHANGED <<store, run, worker, signals, window>>

(* An edit the window did not make: a sync pass of the daemon, announced   *)
(* by _announce, or a change through the API, by _after_change.            *)
EditElsewhere ==
    /\ run.phase # "down"
    /\ store < MaxEdits
    /\ store' = store + 1
    /\ publish("domains")
    /\ UNCHANGED <<run, worker, signals, window>>

-----------------------------------------------------------------------------
(* The life of the daemon.                                                 *)

(* A new run: another token and port, an empty bus.                        *)
DaemonStarts ==
    /\ run.phase = "down" /\ run.id < MaxRuns
    /\ run' = [id |-> run.id + 1, phase |-> "up"]
    /\ bus' = [count |-> 0, history |-> <<>>]
    /\ UNCHANGED <<store, stream, worker, signals, window>>

(* ControlApi.stop up to the close of the port: the bus lets go of its     *)
(* subscribers and every registered stream is cancelled.  A request that   *)
(* is read after this still gets a stream.                                 *)
DaemonStops ==
    /\ run.phase = "up"
    /\ run' = [run EXCEPT !.phase = "stopping"]
    /\ stream' = IF stream.phase \in {"live", "dropped"}
                 THEN [stream EXCEPT !.phase = "ended", !.queue = <<>>, !.got = 0]
                 ELSE stream
    /\ UNCHANGED <<store, bus, worker, signals, window>>

(* The process is gone, after a stop or without one; what lay in the       *)
(* socket may be lost with it.                                             *)
DaemonEnds ==
    /\ run.phase # "down"
    /\ run' = [run EXCEPT !.phase = "down"]
    /\ \E unread \in {stream.wire, <<>>} :
           stream' = IF stream.phase \in {"asked", "live", "dropped"}
                     THEN [NoStream EXCEPT !.phase = "ended", !.wire = unread]
                     ELSE stream
    /\ UNCHANGED <<store, bus, worker, signals, window>>

-----------------------------------------------------------------------------
(* The worker: BridgeWorker.run.                                           *)

emit(signal) ==
    /\ Len(signals) < MaxSignals
    /\ signals' = Append(signals, signal)

(* Look for a daemon and say what was found; between two attempts lies a   *)
(* pause, which is any delay of this step.                                 *)
Connect ==
    /\ worker.at = "connect"
    /\ \E bridge \in Found :
           /\ worker' = [at |-> IF bridge = Local THEN "connect" ELSE "open",
                         bridge |-> bridge,
                         since |-> IF bridge = Local THEN 0 ELSE bus.count]
           /\ emit(IF bridge = Local THEN "offline" ELSE "online")
    /\ UNCHANGED <<store, run, bus, stream, window>>

(* HttpBackend.stream: ask for the stream.  Where nobody listens, it ends  *)
(* before it began.                                                        *)
OpenStream ==
    /\ worker.at = "open"
    /\ \E answered \in Answered(worker.bridge) :
           \/ /\ answered
              /\ stream' = [NoStream EXCEPT !.phase = "asked"]
              /\ worker' = [worker EXCEPT !.at = "read"]
              /\ UNCHANGED signals
           \/ /\ ~ answered
              /\ emit("offline")
              /\ worker' = [worker EXCEPT !.at = "connect", !.since = 0]
              /\ UNCHANGED stream
    /\ UNCHANGED <<store, run, bus, window>>

(* The next event, of which the window handles those about domains.        *)
ReadEvent ==
    /\ worker.at = "read" /\ stream.wire # <<>>
    /\ stream' = [stream EXCEPT !.wire = Tail(@), 
                                 !.got = IF stream.phase = "ended" THEN 0
                                         ELSE Head(stream.wire).number]
    /\ IF Head(stream.wire).kind = "domains" THEN emit("domains") ELSE UNCHANGED signals
    /\ UNCHANGED <<store, run, bus, worker, window>>

(* The daemon ended the stream.                                            *)
ReadEnd ==
    /\ worker.at = "read" /\ stream.wire = <<>> /\ stream.phase = "ended"
    /\ stream' = NoStream
    /\ emit("offline")
    /\ worker' = [worker EXCEPT !.at = "connect"]
    /\ UNCHANGED <<store, run, bus, window>>

-----------------------------------------------------------------------------
(* The window, one slot at a time.                                         *)

(* DomainsTab.refresh: without an answer the list stays as it was.         *)
Refreshed(w, answered, version) ==
    IF answered THEN [w EXCEPT !.shown = version] ELSE w

(* refresh_status and _show_offline: no notice while a start is tried, and *)
(* none when the daemon of the bridge does not answer.                     *)
StatusShown(w, answered) ==
    IF ~ answered \/ (w.bridge = Local /\ w.starting) THEN w
    ELSE IF w.bridge = Local THEN [w EXCEPT !.notices = @ \union {"offline"}]
    ELSE [w EXCEPT !.notices = @ \ {"offline"}]

Statuses(w) == {StatusShown(w, answered) : answered \in Answered(w.bridge)}

(* Both, each with a call of its own to the daemon.                        *)
Redrawn(w, version) ==
    UNION {Statuses(Refreshed(w, answered, version)) : answered \in Answered(w.bridge)}

\* Mutant: the window keeps the bridge it has.
FollowNothing(w, online) ==
    [w EXCEPT !.notices = IF online THEN @ \ {"resolver"} ELSE @]

(* _on_connection takes the bridge the worker holds by now.                *)
Follow(w, online) ==
    [w EXCEPT !.notices = IF online THEN @ \ {"resolver"} ELSE @,
              !.bridge = worker.bridge]

(* A queued signal: _on_event or _on_connection.                           *)
Deliver ==
    /\ signals # <<>>
    /\ signals' = Tail(signals)
    /\ window' \in Redrawn(IF Head(signals) = "domains" THEN window
                           ELSE Follow(window, Head(signals) = "online"), store)
    /\ UNCHANGED <<store, run, bus, stream, worker>>

(* _start_resolver: the user refuses, it fails, or it is under way.        *)
StartTried(w) ==
    LET asked == [w EXCEPT !.notices = {}]
    IN  {[asked EXCEPT !.starting = TRUE]}
            \union Statuses(asked)
            \union Statuses([asked EXCEPT !.notices = {"resolver"}])

(* _on_ready, once: a window without a daemon asks for one.                *)
Ready ==
    /\ ~ window.ready
    /\ window' \in IF window.bridge = Local
                   THEN StartTried([window EXCEPT !.ready = TRUE])
                   ELSE {[window EXCEPT !.ready = TRUE]}
    /\ UNCHANGED <<store, run, bus, stream, worker, signals>>

(* The button of the notice.                                               *)
PressStart ==
    /\ "offline" \in window.notices /\ ~ window.starting
    /\ window' \in StartTried(window)
    /\ UNCHANGED <<store, run, bus, stream, worker, signals>>

\* Mutant: an attempt that times out is never over.
GaveUpStarting(w) == [w EXCEPT !.notices = @ \union {"resolver"}]

GaveUp(w) == [w EXCEPT !.starting = FALSE, !.notices = @ \union {"resolver"}]

(* _poll_for_resolver, when it ends the attempt: a daemon answers, or none *)
(* does and the deadline is over.                                          *)
PollEnds ==
    /\ window.starting
    /\ \E bridge \in Found :
           window' \in IF bridge = Local
                      THEN Statuses(GaveUp(window))
                      ELSE Redrawn([window EXCEPT !.bridge = bridge,
                                                  !.starting = FALSE], store)
    /\ UNCHANGED <<store, run, bus, stream, worker, signals>>

(* The cross of a notice.                                                  *)
Dismiss(key) ==
    /\ key \in window.notices
    /\ window' = [window EXCEPT !.notices = @ \ {key}]
    /\ UNCHANGED <<store, run, bus, stream, worker, signals>>

(* An edit on the tab: through the daemon, which announces it, or straight *)
(* to the store, which nobody announces.                                   *)
EditHere ==
    /\ store < MaxEdits
    /\ \/ /\ window.bridge = Local
          /\ UNCHANGED <<bus, stream>>
       \/ /\ window.bridge # Local /\ TRUE \in Answered(window.bridge)
          /\ publish("domains")
    /\ store' = store + 1
    /\ window' \in Redrawn(window, store + 1)
    /\ UNCHANGED <<run, worker, signals>>

-----------------------------------------------------------------------------
(* The window opens with the bridge main() connected and reads the list.   *)
Init ==
    /\ store = 0
    /\ run \in {[id |-> 0, phase |-> "down"], [id |-> 1, phase |-> "up"]}
    /\ run.id <= MaxRuns
    /\ bus = [count |-> 0, history |-> <<>>]
    /\ stream = NoStream
    /\ worker = [at |-> "connect", bridge |-> Local, since |-> 0]
    /\ signals = <<>>
    /\ window = [bridge |-> run.id, shown |-> store,
                 notices |-> IF run.id = Local THEN {"offline"} ELSE {},
                 starting |-> FALSE, ready |-> FALSE]

Daemon == Attach \/ Forward \/ PublishLog \/ EditElsewhere
              \/ DaemonStarts \/ DaemonStops \/ DaemonEnds

Follower == Connect \/ OpenStream \/ ReadEvent \/ ReadEnd

Slot == Deliver \/ Ready \/ PressStart \/ PollEnds \/ EditHere
            \/ \E key \in {"offline", "resolver"} : Dismiss(key)

Next == Daemon \/ Follower \/ Slot

(* Loops and timers run: the daemon's handler, the worker's thread, the    *)
(* event loop of the window with its queued signals and its poll.  Nobody  *)
(* has to edit, press a button, start a daemon or stop one.                *)
Fairness ==
    /\ WF_vars(Attach) /\ WF_vars(Forward)
    /\ WF_vars(Follower)
    /\ WF_vars(Deliver) /\ WF_vars(Ready) /\ WF_vars(PollEnds)

Spec == Init /\ [][Next]_vars
FairSpec == Spec /\ Fairness

-----------------------------------------------------------------------------
(* Type correctness.                                                       *)

Events == [number : 1..MaxEvents, kind : Kinds]
Bridges == Local..MaxRuns

(* Types of the state, with every queue within its bound: the queue of a   *)
(* subscriber, the history of the bus, what a socket holds unread (a whole *)
(* replay or what drain() allows).                                         *)
WindowTypeOK ==
    /\ store \in 0..MaxEdits
    /\ run \in [id : Bridges, phase : {"down", "up", "stopping"}]
    /\ bus.count \in 0..MaxEvents
    /\ bus.history \in Seq(Events) /\ Len(bus.history) <= HistorySize
    /\ stream.phase \in {"none", "asked", "live", "dropped", "ended"}
    /\ stream.queue \in Seq(Events \union {Closing}) /\ Len(stream.queue) <= QueueSize
    /\ stream.wire \in Seq(Events)
    /\ Len(stream.wire) <= WireSize \/ Len(stream.wire) <= HistorySize
    /\ stream.got \in 0..MaxEvents
    /\ worker \in [at : {"connect", "open", "read"}, bridge : Bridges,
                   since : 0..MaxEvents]
    /\ signals \in Seq({"online", "offline", "domains"}) /\ Len(signals) <= MaxSignals
    /\ window \in [bridge : Bridges, shown : 0..MaxEdits, starting : BOOLEAN,
                   notices : SUBSET {"offline", "resolver"}, ready : BOOLEAN]

-----------------------------------------------------------------------------
(* Safety.                                                                 *)

(* What lies between the bus and the worker, in the socket and in the      *)
(* queue, is every event after the last one read, once and in order, for   *)
(* as long as the bus still holds the subscriber: whatever is published    *)
(* around the attachment and the replay, and whichever side is slow.  A    *)
(* stream that lost something is one the bus let go of (events.py, api.py).*)
StreamIsGapless ==
    stream.phase = "live" =>
        LET unread == stream.wire \o stream.queue
        IN  /\ stream.got + Len(unread) = bus.count
            /\ \A i \in DOMAIN unread : unread[i].number = stream.got + i

-----------------------------------------------------------------------------
(* Liveness.                                                               *)

(* Once a daemon is up for good, the window ends up with its bridge to it, *)
(* the list as it is in the store and no notice left, whatever connections *)
(* broke before, whatever is in the signal queue and however late a start  *)
(* was given up (main_window.py, ui/bridge.py).                            *)
Settled == /\ window.bridge = run.id
           /\ window.shown = store
           /\ window.notices = {}
           /\ ~ window.starting

WindowSettles == <>[](run.phase = "up") => <>[]Settled

(* Once no daemon comes back, the window keeps saying so: the notice that  *)
(* offers to start one is up again and again, however often it is pressed  *)
(* or dismissed and however each attempt ends.                             *)
OfflineIsAdmitted == <>[](run.phase = "down") => []<>("offline" \in window.notices)
=============================================================================
