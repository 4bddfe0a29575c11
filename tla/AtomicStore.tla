---------------------------- MODULE AtomicStore ----------------------------
(***************************************************************************)
(* What DomainStore.mutate promises the surfaces that call it              *)
(* (src/core/store.py, the module docstring): an edit is applied, whole    *)
(* and once, to the list as it is at that moment, or it is refused and     *)
(* leaves the list alone.  Nothing is said of locks, files or backups.     *)
(***************************************************************************)
CONSTANTS
    Clients,        \* the calls that may be under way at once
    Changes,        \* the edits they may ask for
    NoChange,       \* asks for nothing
    Contents,       \* the lists of domains
    Effect(_, _)    \* Effect(c, d): the list d after the edit c

VARIABLES
    contents,       \* the list of domains
    pending,        \* what each client has asked for and has no answer to
    outcome         \* how each client's last edit ended

vars == <<contents, pending, outcome>>

Init ==
    /\ contents \in Contents
    /\ pending = [p \in Clients |-> NoChange]
    /\ outcome = [p \in Clients |-> "none"]

Ask(p, c) ==
    /\ pending[p] = NoChange
    /\ pending' = [pending EXCEPT ![p] = c]
    /\ outcome' = [outcome EXCEPT ![p] = "none"]
    /\ UNCHANGED contents

(* The edit takes effect: on the list of this moment, not an earlier one.  *)
Take(p) ==
    /\ pending[p] # NoChange
    /\ contents' = Effect(pending[p], contents)
    /\ pending' = [pending EXCEPT ![p] = NoChange]
    /\ outcome' = [outcome EXCEPT ![p] = "done"]

Refuse(p) ==
    /\ pending[p] # NoChange
    /\ pending' = [pending EXCEPT ![p] = NoChange]
    /\ outcome' = [outcome EXCEPT ![p] = "refused"]
    /\ UNCHANGED contents

(* A client that dies before its edit took effect leaves no trace of it.   *)
Die(p) ==
    /\ pending[p] # NoChange
    /\ pending' = [pending EXCEPT ![p] = NoChange]
    /\ UNCHANGED <<contents, outcome>>

Next == \E p \in Clients :
    \/ \E c \in Changes : Ask(p, c)
    \/ Take(p) \/ Refuse(p) \/ Die(p)

Spec == Init /\ [][Next]_vars
=============================================================================
