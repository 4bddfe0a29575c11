--------------------------- MODULE DomainRecords ---------------------------
(***************************************************************************)
(* The records of the domain store and what its operations do to them      *)
(* (src/core/store.py:260-400).  An operation is one step on the whole     *)
(* list: DomainStore, which implements AtomicStore, is why it may be.      *)
(*                                                                         *)
(* A record is where it came from, what tells it apart and its name.  A    *)
(* manual record is told apart by its id.  A discovered one is by its      *)
(* owner, which the importers derive from the name (host:<name>), so there *)
(* the name stands for both.  The fields no operation here decides on are  *)
(* left out: enabled, address, note, the times.                            *)
(***************************************************************************)
CONSTANTS
    Names,  \* normalised host names
    Ids     \* ids of manual records

Discovering == {"docker", "traefik"}
Sources == {"manual"} \union Discovering

ASSUME RecordsAssumption == Ids \intersect Names = {}

Record == [source : Sources, id : Ids \union Names, name : Names]

Manual(i, n) == [source |-> "manual", id |-> i, name |-> n]
Discovered(s, n) == [source |-> s, id |-> n, name |-> n]

Of(records, s) == {r \in records : r.source = s}
NamesIn(records) == {r.name : r \in records}

-----------------------------------------------------------------------------
(* What a user may do.                                                     *)

MayAdd(records, i, n) ==
    /\ n \notin NamesIn(records)
    /\ \A r \in records : r.id # i

Added(records, i, n) == records \union {Manual(i, n)}

(* update and delete refuse a discovered record: StoreManaged.             *)
Editable(records) == Of(records, "manual")

(* update does not look whether the name is taken.                         *)
Renamed(records, r, n) == (records \ {r}) \union {[r EXCEPT !.name = n]}

-----------------------------------------------------------------------------
(* What a sync pass does.                                                  *)

\* Mutant: only a name that was typed by hand wins a collision.
ClashesManualOnly(records, s, n) ==
    \E r \in records : r.name = n /\ r.source = "manual"

(* The name belongs to another source: the pass leaves it to that one.     *)
(* by_name finds the first record of the name; where the pass has a record *)
(* of that name too there is nothing to add either way.                    *)
Clashes(records, s, n) == \E r \in records : r.name = n /\ r.source # s

Missing(records, s, listed) ==
    {n \in listed : ~ Clashes(records, s, n) /\ Discovered(s, n) \notin records}

\* Mutant: an empty listing removes nothing.
StaleUnlessEmpty(records, s, listed) ==
    {r \in Of(records, s) : listed # {} /\ r.id \notin listed}

Stale(records, s, listed) == {r \in Of(records, s) : r.id \notin listed}

Reconciled(records, s, listed) ==
    (records \ Stale(records, s, listed))
        \union {Discovered(s, n) : n \in Missing(records, s, listed)}
=============================================================================
