------------------------------- MODULE Repair -------------------------------
(***************************************************************************)
(* `hostbridge --repair' (daemon/repair.py) beside the runs of Runner: a   *)
(* separate process that undoes what the record names, then whatever       *)
(* carries our marker, then forgets both files.  It looks at no process:   *)
(* RepairAnytime lets it run beside a live daemon, otherwise it is what    *)
(* the service manager does after a stop and before the next start.        *)
(***************************************************************************)
EXTENDS Runner

CONSTANTS
    RepairAnytime,   \* whether it may run while a daemon is alive
    Reboots          \* whether the machine may restart

ASSUME RepairAssumption == RepairAnytime \in BOOLEAN /\ Reboots \in BOOLEAN

VARIABLES
    repairing,   \* the call repair() is about to make, or its last exit code
    wanted,      \* the PolicyState built from the record
    failures,    \* whether any removal raised
    undisturbed  \* whether no daemon has lived since it began

repairVars == <<repairing, wanted, failures, undisturbed>>
allVars == <<vars, repairVars>>

InRepair == {"remove", "remove_all", "clear", "unlink"}

RepairTypeOK ==
    /\ TypeOK
    /\ repairing \in {"idle", "exit 0", "exit 5"} \cup InRepair
    /\ wanted \in PolicyState
    /\ failures \in BOOLEAN
    /\ undisturbed \in BOOLEAN

RepairInit ==
    /\ Init
    /\ repairing = "idle"
    /\ wanted = NothingApplied
    /\ failures = FALSE
    /\ undisturbed = FALSE

NoneAlive == \A d \in Daemons : ~Alive(d)

-----------------------------------------------------------------------------
(* repair(). *)

\* An empty record is as good as none: the scan follows in either case.
NamedInRecord ==
    IF netstate = None THEN NothingApplied
    ELSE [namespaces |-> netstate.confirmed \cup netstate.intent, links |-> netstate.links]

\* Mutant: the record is cleared as soon as it has been read.
ReadRecordForgetting ==
    /\ repairing \notin InRepair
    /\ RepairAnytime \/ NoneAlive
    /\ wanted' = NamedInRecord
    /\ repairing' = IF NamedInRecord = NothingApplied THEN "remove_all" ELSE "remove"
    /\ failures' = FALSE
    /\ undisturbed' = NoneAlive
    /\ netstate' = None
    /\ UNCHANGED <<os, port, daemonFile, store, owner, pc, memory>>

ReadRecord ==
    /\ repairing \notin InRepair
    /\ RepairAnytime \/ NoneAlive
    /\ wanted' = NamedInRecord
    /\ repairing' = IF NamedInRecord = NothingApplied THEN "remove_all" ELSE "remove"
    /\ failures' = FALSE
    /\ undisturbed' = NoneAlive
    /\ UNCHANGED vars

RemoveRecorded ==
    /\ repairing = "remove"
    /\ \E o \in RemoveOutcomes(os, wanted) : os' = o.table /\ failures' = ~o.ok
    /\ repairing' = "remove_all"
    /\ UNCHANGED <<port, netstate, daemonFile, store, owner, pc, memory,
                   wanted, undisturbed>>

\* Mutant: what the record names is taken for all there is.
RemoveMarkedSkipped ==
    /\ repairing = "remove_all"
    /\ repairing' = "clear"
    /\ UNCHANGED <<vars, wanted, failures, undisturbed>>

RemoveMarked ==
    /\ repairing = "remove_all"
    /\ \E o \in RemoveAllOutcomes(os) :
            os' = o.table /\ failures' = (failures \/ ~o.ok)
    /\ repairing' = "clear"
    /\ UNCHANGED <<port, netstate, daemonFile, store, owner, pc, memory,
                   wanted, undisturbed>>

\* Whatever failed, the record goes.
ClearRecord ==
    /\ repairing = "clear"
    /\ netstate' = None
    /\ repairing' = "unlink"
    /\ UNCHANGED <<os, port, daemonFile, store, owner, pc, memory,
                   wanted, failures, undisturbed>>

UnlinkDaemonFile ==
    /\ repairing = "unlink"
    /\ daemonFile' = None
    /\ repairing' = IF failures THEN "exit 5" ELSE "exit 0"
    /\ UNCHANGED <<os, port, netstate, store, owner, pc, memory,
                   wanted, failures, undisturbed>>

RepairStep == ReadRecord \/ RemoveRecorded \/ RemoveMarked \/ ClearRecord \/ UnlinkDaemonFile

\* The terminal is closed on it.
RepairKilled ==
    /\ repairing \in InRepair
    /\ os' \in CASE repairing = "remove" -> RemovePartway(os, wanted)
                 [] repairing = "remove_all" -> RemoveAllPartway(os)
                 [] OTHER -> {os}
    /\ repairing' = "idle"
    /\ wanted' = NothingApplied
    /\ failures' = FALSE
    /\ undisturbed' = FALSE
    /\ UNCHANGED <<port, netstate, daemonFile, store, owner, pc, memory>>

-----------------------------------------------------------------------------
(* The rest of the machine. *)

\* The runs move as in Runner, except that a service manager runs the two in turn.
RunnerMoves ==
    /\ Next
    /\ \A d \in Daemons :
          pc[d] = "new" /\ pc'[d] # "new" => RepairAnytime \/ repairing \notin InRepair
    /\ undisturbed' = (undisturbed /\ \A d \in Daemons : pc'[d] \notin Running)
    /\ UNCHANGED <<repairing, wanted, failures>>

\* Everything running dies.  The NRPT and the files are on disk; a dummy link is not.
Reboot ==
    /\ Reboots
    /\ os' = IF Mechanism = "systemd-resolved" THEN NoRules ELSE os
    /\ port' = None
    /\ pc' = [d \in Daemons |-> IF Alive(d) THEN "killed" ELSE pc[d]]
    /\ zone' = [d \in Daemons |-> {}]
    /\ draft' = [d \in Daemons |-> Fresh(d, {})]
    /\ applied' = [d \in Daemons |-> NothingApplied]
    /\ policyError' = [d \in Daemons |-> FALSE]
    /\ resume' = [d \in Daemons |-> "publish"]
    /\ stop' = [d \in Daemons |-> FALSE]
    /\ seen' = [d \in Daemons |-> TRUE]
    /\ repairing' = "idle"
    /\ wanted' = NothingApplied
    /\ failures' = FALSE
    /\ undisturbed' = FALSE
    /\ UNCHANGED <<netstate, daemonFile, store, owner>>

RepairNext == RepairStep \/ RepairKilled \/ RunnerMoves \/ Reboot

RepairSpec == RepairInit /\ [][RepairNext]_allVars

-----------------------------------------------------------------------------
(* Properties. *)

\* A repair that reports success, with no daemon about, leaves nothing of ours behind:
\* no rule, no link, no record a later start would act on, no file a client would follow.
RepairedIsClean ==
    repairing = "exit 0" /\ undisturbed =>
        os = NoRules /\ netstate = None /\ daemonFile = None
=============================================================================
