---------------------------- MODULE DomainStore ----------------------------
(***************************************************************************)
(* domains.json and the one way to change it: DomainStore.mutate           *)
(* (src/core/store.py), which takes a lock, reads the file again under it, *)
(* applies the change and replaces the file.  Clients are calls of mutate  *)
(* under way at once, in the daemon's threads and in other processes: each *)
(* opens the lock file itself, so the lock excludes all of them alike.     *)
(*                                                                         *)
(* What a change does to the list is a parameter: Effect and Refuses stand *)
(* for the closures add, update, toggle, delete and reconcile hand to      *)
(* mutate.                                                                 *)
(***************************************************************************)
EXTENDS Naturals, FiniteSets

CONSTANTS
    Clients, NoClient,
    Changes, NoChange,
    Contents, Empty,    \* the lists of domains, and the list of none
    Effect(_, _),       \* Effect(c, d): the list d after the change c
    Refuses(_, _),      \* Refuses(c, d): c raises when it is given d
    BackupKeep,         \* BACKUP_KEEP
    MaxSecond,          \* bound on the clock the backups are stamped from
    Faults              \* what may go wrong: see FaultKinds

(* "read": read_json cannot read a file that is there.  "backup": the copy  *)
(* fails.  "write": write_json_atomic raises.  "clock": local time, which   *)
(* the stamps are made of, is put back.                                     *)
FaultKinds == {"read", "backup", "write", "clock"}

ASSUME StoreAssumption ==
    /\ NoClient \notin Clients
    /\ NoChange \notin Changes
    /\ Empty \in Contents
    /\ \A c \in Changes, d \in Contents :
           Effect(c, d) \in Contents /\ Refuses(c, d) \in BOOLEAN
    /\ BackupKeep \in Nat \ {0}
    /\ MaxSecond \in Nat
    /\ Faults \subseteq FaultKinds

VARIABLES
    file,       \* domains.json
    backups,    \* the .bak files beside it
    lock,       \* who holds the lock on domains.json.lock
    now,        \* the second on the wall clock
    pc,         \* where each call of mutate is
    change,     \* what it was asked to do
    snapshot,   \* the list it is about to write
    stamp,      \* the second its backup is named after
    outcome     \* how the client's last call ended

vars == <<file, backups, lock, now, pc, change, snapshot, stamp, outcome>>

Schemas == {"missing", "old", "current", "newer"}
Files == [schema : Schemas, domains : Contents]
Backups == [second : 0 .. MaxSecond, file : Files]
Holding == {"load", "rotate", "replace", "unlock"}
Steps == {"idle", "lock"} \union Holding

Blank == [schema |-> "missing", domains |-> Empty]

StoreTypeOK ==
    /\ file \in Files
    /\ backups \subseteq Backups
    /\ lock \in Clients \union {NoClient}
    /\ now \in 0 .. MaxSecond
    /\ pc \in [Clients -> Steps]
    /\ change \in [Clients -> Changes \union {NoChange}]
    /\ snapshot \in [Clients -> Contents]
    /\ stamp \in [Clients -> 0 .. MaxSecond]
    /\ outcome \in [Clients -> {"none", "done", "refused"}]

Init ==
    /\ file \in {Blank} \union [schema : Schemas \ {"missing"}, domains : Contents]
    /\ backups = {}
    /\ lock = NoClient
    /\ now = 0
    /\ pc = [p \in Clients |-> "idle"]
    /\ change = [p \in Clients |-> NoChange]
    /\ snapshot = [p \in Clients |-> Empty]
    /\ stamp = [p \in Clients |-> 0]
    /\ outcome = [p \in Clients |-> "none"]

-----------------------------------------------------------------------------
(* Taking the lock.                                                        *)

Begin(p, c) ==
    /\ pc[p] = "idle"
    /\ pc' = [pc EXCEPT ![p] = "lock"]
    /\ change' = [change EXCEPT ![p] = c]
    /\ outcome' = [outcome EXCEPT ![p] = "none"]
    /\ UNCHANGED <<file, backups, lock, now, snapshot, stamp>>

(* The locals of a call go with it.                                        *)
Return(p) ==
    /\ pc' = [pc EXCEPT ![p] = "idle"]
    /\ change' = [change EXCEPT ![p] = NoChange]
    /\ snapshot' = [snapshot EXCEPT ![p] = Empty]
    /\ stamp' = [stamp EXCEPT ![p] = 0]

\* Mutant: the lock is shared, so it is never found held.
AcquireShared(p) ==
    /\ pc[p] = "lock"
    /\ lock' = p
    /\ pc' = [pc EXCEPT ![p] = "load"]
    /\ UNCHANGED <<file, backups, now, change, snapshot, stamp, outcome>>

Acquire(p) ==
    /\ pc[p] = "lock"
    /\ lock = NoClient
    /\ lock' = p
    /\ pc' = [pc EXCEPT ![p] = "load"]
    /\ UNCHANGED <<file, backups, now, change, snapshot, stamp, outcome>>

\* Mutant: the wait for the lock has no deadline.
GiveUpNever(p) == FALSE

(* LOCK_TIMEOUT has passed and somebody else still has it: StoreLocked.    *)
GiveUp(p) ==
    /\ pc[p] = "lock"
    /\ lock # NoClient
    /\ outcome' = [outcome EXCEPT ![p] = "refused"]
    /\ Return(p)
    /\ UNCHANGED <<file, backups, lock, now>>

-----------------------------------------------------------------------------
(* Under the lock.                                                         *)

(* What load may make of the file: a file that cannot be read is no file.  *)
Loaded == {file} \union (IF "read" \in Faults THEN {Blank} ELSE {})

TooNew(seen) == seen.schema = "newer"
Migrated(seen) == seen.schema = "old"

Ends(p, how) ==
    /\ pc' = [pc EXCEPT ![p] = "unlock"]
    /\ outcome' = [outcome EXCEPT ![p] = how]

Goes(p, to) ==
    /\ pc' = [pc EXCEPT ![p] = to]
    /\ UNCHANGED outcome

(* StoreReadOnly, or what the change itself raises: ValueError,            *)
(* StoreManaged.                                                           *)
ChangeRefused(p) ==
    /\ pc[p] = "load"
    /\ \E seen \in Loaded : TooNew(seen) \/ Refuses(change[p], seen.domains)
    /\ Ends(p, "refused")
    /\ UNCHANGED <<file, backups, lock, now, change, snapshot, stamp>>

Differs(c, seen) == Effect(c, seen.domains) # seen.domains \/ Migrated(seen)

(* A change that changes nothing writes nothing.                           *)
ChangeNothing(p) ==
    /\ pc[p] = "load"
    /\ \E seen \in Loaded :
           /\ ~ TooNew(seen)
           /\ ~ Refuses(change[p], seen.domains)
           /\ ~ Differs(change[p], seen)
    /\ Ends(p, "done")
    /\ UNCHANGED <<file, backups, lock, now, change, snapshot, stamp>>

\* Mutant: mutate does not look at read_only.
ChangeSomethingAnySchema(p) ==
    /\ pc[p] = "load"
    /\ \E seen \in Loaded :
           /\ ~ Refuses(change[p], seen.domains)
           /\ Differs(change[p], seen)
           /\ snapshot' = [snapshot EXCEPT ![p] = Effect(change[p], seen.domains)]
    /\ Goes(p, "rotate")
    /\ UNCHANGED <<file, backups, lock, now, change, stamp>>

ChangeSomething(p) ==
    /\ pc[p] = "load"
    /\ \E seen \in Loaded :
           /\ ~ TooNew(seen)
           /\ ~ Refuses(change[p], seen.domains)
           /\ Differs(change[p], seen)
           /\ snapshot' = [snapshot EXCEPT ![p] = Effect(change[p], seen.domains)]
    /\ Goes(p, "rotate")
    /\ UNCHANGED <<file, backups, lock, now, change, stamp>>

(* The second's first copy stays; a second one of the same name is not     *)
(* made.                                                                   *)
WithCopy(at) ==
    IF \E b \in backups : b.second = at THEN backups
    ELSE backups \union {[second |-> at, file |-> file]}

\* Mutant: existing[BACKUP_KEEP:] go.
PrunedNewest(copies) ==
    {b \in copies : Cardinality({c \in copies : c.second < b.second}) < BackupKeep}

(* existing[:-BACKUP_KEEP] go: the names sort as the seconds do.           *)
Pruned(copies) ==
    {b \in copies : Cardinality({c \in copies : c.second > b.second}) < BackupKeep}

Rotated == {Pruned(WithCopy(now))}
             \union (IF "backup" \in Faults THEN {backups} ELSE {})

Rotate(p) ==
    /\ pc[p] = "rotate"
    /\ stamp' = [stamp EXCEPT ![p] = now]
    /\ backups' \in IF file.schema = "missing" THEN {backups} ELSE Rotated
    /\ Goes(p, "replace")
    /\ UNCHANGED <<file, lock, now, change, snapshot>>

\* Mutant: the payload is written without its schema.
ReplaceUnversioned(p) ==
    /\ pc[p] = "replace"
    /\ file' = [domains |-> snapshot[p]]
    /\ Ends(p, "done")
    /\ UNCHANGED <<backups, lock, now, change, snapshot, stamp>>

Replace(p) ==
    /\ pc[p] = "replace"
    /\ file' = [schema |-> "current", domains |-> snapshot[p]]
    /\ Ends(p, "done")
    /\ UNCHANGED <<backups, lock, now, change, snapshot, stamp>>

\* Mutant: the file is opened for writing in place, and truncated.
ReplaceFailsTruncated(p) ==
    /\ pc[p] = "replace"
    /\ "write" \in Faults
    /\ file' = Blank
    /\ Ends(p, "refused")
    /\ UNCHANGED <<backups, lock, now, change, snapshot, stamp>>

(* write_json_atomic raises: the file is as it was.                        *)
ReplaceFails(p) ==
    /\ pc[p] = "replace"
    /\ "write" \in Faults
    /\ Ends(p, "refused")
    /\ UNCHANGED <<file, backups, lock, now, change, snapshot, stamp>>

\* Mutant: the lock is given back on a return only, not in a finally.
UnlockOnReturn(p) ==
    /\ pc[p] = "unlock"
    /\ lock' = IF outcome[p] = "done" THEN NoClient ELSE lock
    /\ Return(p)
    /\ UNCHANGED <<file, backups, now, outcome>>

Unlock(p) ==
    /\ pc[p] = "unlock"
    /\ lock' = NoClient
    /\ Return(p)
    /\ UNCHANGED <<file, backups, now, outcome>>

-----------------------------------------------------------------------------
(* What happens around the calls.                                          *)

(* The process dies wherever it is; the operating system drops its lock.   *)
Kill(p) ==
    /\ pc[p] # "idle"
    /\ lock' = IF lock = p THEN NoClient ELSE lock
    /\ Return(p)
    /\ UNCHANGED <<file, backups, now, outcome>>

Seconds == {s \in 0 .. MaxSecond : s = now + 1 \/ ("clock" \in Faults /\ s < now)}

Tick ==
    /\ now' \in Seconds
    /\ UNCHANGED <<file, backups, lock, pc, change, snapshot, stamp, outcome>>

(* A newer build takes the file over, under the same lock, and migrates it *)
(* to a schema this one does not know.                                     *)
NewerBuild ==
    /\ lock = NoClient
    /\ file.schema \in {"old", "current"}
    /\ file' = [file EXCEPT !.schema = "newer"]
    /\ UNCHANGED <<backups, lock, now, pc, change, snapshot, stamp, outcome>>

CallStep(p) ==
    \/ Acquire(p) \/ GiveUp(p)
    \/ ChangeRefused(p) \/ ChangeNothing(p) \/ ChangeSomething(p)
    \/ Rotate(p) \/ Replace(p) \/ ReplaceFails(p) \/ Unlock(p)

Next ==
    \/ \E p \in Clients :
           \/ \E c \in Changes : Begin(p, c)
           \/ CallStep(p)
           \/ Kill(p)
    \/ Tick
    \/ NewerBuild

Spec == Init /\ [][Next]_vars

(* A call that is under way goes on: it waits for nothing but the lock,    *)
(* and for that only until LOCK_TIMEOUT.  Nobody is obliged to begin a     *)
(* call, to die or to upgrade.                                             *)
FairSpec == Spec /\ \A p \in Clients : WF_vars(CallStep(p))

-----------------------------------------------------------------------------
(* What the store promises.                                                *)

(* What the callers wait for: the calls that have not taken effect.        *)
Pending ==
    [p \in Clients |->
        IF pc[p] \in {"lock", "load", "rotate", "replace"} THEN change[p] ELSE NoChange]

Atomic == INSTANCE AtomicStore WITH contents <- file.domains, pending <- Pending

(* Every edit is applied whole and once to the list as it is when it takes *)
(* effect, or not at all, whoever else edits and wherever a process dies:  *)
(* no edit is lost under another (store.py:1-10).  It needs a readable     *)
(* file: load takes one it cannot read for an empty one.                   *)
EditsAreAtomic == Atomic!Spec

(* A file written by a newer HostBridge is never rewritten                 *)
(* (core/migrate.py:7): not even by a call that was already waiting for    *)
(* the lock when the newer build took the file over.                       *)
NewerIsKept == [][TooNew(file) => file' = file]_vars

(* Whatever a write replaces can be had back (store.py:_rotate_backup):    *)
(* when the file changes there is a backup of it, or one made earlier in   *)
(* the second the write's own backup would be named after, of what the     *)
(* file held then.                                                         *)
UndoIsThere ==
    [][\A p \in Clients :
           Replace(p) /\ file.schema # "missing"
               => \E b \in backups' : b.second = stamp[p] \/ b.file = file]_vars

(* Two calls never hold the lock at once, and one that holds it has not    *)
(* been overtaken: what it will write is its change applied to the file    *)
(* that is still there.                                                    *)
SnapshotIsFresh ==
    \A p \in Clients :
        pc[p] \in {"rotate", "replace"} =>
            snapshot[p] = Effect(change[p], file.domains) /\ ~ TooNew(file)

(* The lock is given back on every way out of a call: a return, an         *)
(* exception, a death.                                                     *)
LockComesBack == lock # NoClient ~> lock = NoClient

(* Every call ends, however many others want the lock: "a wedged lock must *)
(* not take the resolver down with it" (store.py:10-13).                   *)
EveryCallReturns == \A p \in Clients : pc[p] # "idle" ~> pc[p] = "idle"
=============================================================================
