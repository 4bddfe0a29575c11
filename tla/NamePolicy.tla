----------------------------- MODULE NamePolicy -----------------------------
(***************************************************************************)
(* What the two name-resolution policies do to the machine.                *)
(*                                                                         *)
(* daemon/policy.py gives the runner one seam - apply, remove, remove_all - *)
(* over two mechanisms:                                                    *)
(*                                                                         *)
(*  "nrpt"      one rule per namespace in the Windows NRPT, found again by *)
(*              the marker stamped on every rule (system/nrpt_win.py);     *)
(*  "systemd-resolved"  one dummy link that carries every namespace as a   *)
(*              routing domain (system/resolved_linux.py).                 *)
(*                                                                         *)
(* A command runs outside the daemon, may be refused, and may have done    *)
(* part of its work when it is.  Every operation is therefore the set of   *)
(* its possible outcomes: the table it leaves and whether it raised.       *)
(***************************************************************************)
EXTENDS FiniteSets

CONSTANTS
    Namespaces,   \* the namespaces a zone may claim
    Daemons,      \* the daemon runs; a process is launched at most once
    Mechanism,    \* Policy.name: "nrpt" or "systemd-resolved"
    Faults        \* what may go wrong in this instance, a subset of FaultKinds

FaultKinds == {"read", "apply", "remove", "save", "bind", "pid"}

ASSUME PolicyAssumption ==
    /\ Mechanism \in {"nrpt", "systemd-resolved"}
    /\ Faults \subseteq FaultKinds

-----------------------------------------------------------------------------
(* The machine's table: our rules, and our link where the mechanism has one. *)

\* One rule of ours.  `by' is the run whose name servers the rule carries.
Rule == [ns : Namespaces, by : Daemons]

Table == [rules : SUBSET Rule, link : BOOLEAN]

NoRules == [rules |-> {}, link |-> FALSE]

NamespacesOf(rules) == {r.ns : r \in rules}

RulesFor(names, d) == [ns : names, by : {d}]

Without(rules, names) == {r \in rules : r.ns \notin names}

\* PolicyState: what the runner remembers of its last successful apply.
PolicyState == [namespaces : SUBSET Namespaces, links : BOOLEAN]

NothingApplied == [namespaces |-> {}, links |-> FALSE]

AppliedTo(names) == [namespaces |-> names, links |-> Mechanism = "systemd-resolved"]

Outcome(ok, table) == [ok |-> ok, table |-> table]

-----------------------------------------------------------------------------
(* The NRPT. *)

\* read_present: the namespaces our marker is found on; a query that failed is
\* logged and answered with the empty list.
ReadPresent(table) ==
    {NamespacesOf(table.rules)} \cup (IF "read" \in Faults THEN {{}} ELSE {})

\* The removals of a script that take effect.  Remove-DnsClientNrptRule is told to continue
\* silently, so one that fails stops nothing and is not reported.
TakenAway(drop) == IF "remove" \in Faults THEN SUBSET drop ELSE {drop}

\* What is on the machine part-way through the script of plan_apply: the removals
\* come first, so nothing has been added before the last of them is done.
NrptPartway(table, names, d, present) ==
    LET drop == present \ names
        add  == names \ present
    IN  {[table EXCEPT !.rules = Without(@, gone)] : gone \in SUBSET drop} \cup
        UNION {{[table EXCEPT !.rules = Without(@, gone) \cup RulesFor(got, d)] :
                   got \in SUBSET add} : gone \in TakenAway(drop)}

\* Mutant: the plan adds what is missing and never removes what is stale.
NrptAddedOnly(table, names, d, present) ==
    {[table EXCEPT !.rules = @ \cup RulesFor(names \ present, d)]}

NrptApplied(table, names, d, present) ==
    {[table EXCEPT !.rules = Without(@, gone) \cup RulesFor(names \ present, d)] :
        gone \in TakenAway(present \ names)}

\* Statements of plan_remove removing `names', cut short anywhere.
NrptRemovedPartway(table, names) ==
    {[table EXCEPT !.rules = Without(@, gone)] : gone \in SUBSET names}

-----------------------------------------------------------------------------
(* systemd-resolved. *)

\* Each command of plan_apply in turn: the link, its servers, its domains.  The servers
\* are the link's, so the domains it already had are sent to this run from then on.
ResolvedPartway(table, names, d) ==
    {table,
     [table EXCEPT !.link = TRUE],
     [rules |-> RulesFor(NamespacesOf(table.rules), d), link |-> TRUE],
     [rules |-> RulesFor(names, d), link |-> TRUE]}

\* `resolvectl revert' and then `ip link del'.
ResolvedRemovedPartway(table) == {table, [table EXCEPT !.rules = {}]}

-----------------------------------------------------------------------------
(* The three operations of the seam. *)

\* The tables a killed or refused apply can leave behind.
ApplyPartway(table, names, d) ==
    IF Mechanism = "nrpt"
    THEN UNION {NrptPartway(table, names, d, present) : present \in ReadPresent(table)}
    ELSE ResolvedPartway(table, names, d)

\* An empty plan runs nothing, so nothing can refuse it.
ApplyRefused(table, names, d) ==
    IF Mechanism = "nrpt"
    THEN UNION {NrptPartway(table, names, d, present) :
                    present \in ReadPresent(table) \ {names}}
    ELSE ResolvedPartway(table, names, d)

ApplyOutcomes(table, names, d) ==
    {Outcome(TRUE, done) :
        done \in IF Mechanism = "nrpt"
                 THEN UNION {NrptApplied(table, names, d, present) :
                                 present \in ReadPresent(table)}
                 ELSE {[rules |-> RulesFor(names, d), link |-> TRUE]}} \cup
    (IF "apply" \in Faults
     THEN {Outcome(FALSE, left) : left \in ApplyRefused(table, names, d)}
     ELSE {})

RemovePartway(table, state) ==
    IF Mechanism = "nrpt" THEN NrptRemovedPartway(table, state.namespaces)
    ELSE IF state.links /\ table.link THEN ResolvedRemovedPartway(table)
    ELSE {table}

\* A rule PowerShell could not remove is reported only when its statement is the script's
\* last one; resolvectl and ip stop at the first refusal.
RemovalReports == IF Mechanism = "nrpt" THEN BOOLEAN ELSE {FALSE}

\* ResolvedPolicy.remove has nothing to do without a recorded link; reverting a
\* link that is not there is a refusal nothing tolerates.
RemoveOutcomes(table, state) ==
    (IF Mechanism = "nrpt"
     THEN {Outcome(TRUE, [table EXCEPT !.rules = Without(@, state.namespaces)])}
     ELSE IF ~state.links THEN {Outcome(TRUE, table)}
     ELSE IF ~table.link THEN {Outcome(FALSE, table)}
     ELSE {Outcome(TRUE, NoRules)}) \cup
    (IF "remove" \in Faults
     THEN UNION {{Outcome(ok, left) : left \in RemovePartway(table, state)} :
                     ok \in RemovalReports}
     ELSE {})

\* By the marker, or by the link's name.  On Windows a failure is logged and
\* swallowed: the caller is told nothing.
RemoveAllOutcomes(table) ==
    IF Mechanism = "nrpt"
    THEN {Outcome(TRUE, [table EXCEPT !.rules = {}])} \cup
         (IF "remove" \in Faults
          THEN {Outcome(TRUE, left) : left \in NrptRemovedPartway(table, Namespaces)}
          ELSE {})
    ELSE IF table.link
    THEN RemoveOutcomes(table, [namespaces |-> {}, links |-> TRUE])
    ELSE {Outcome(TRUE, table)}

RemoveAllPartway(table) ==
    IF Mechanism = "nrpt" THEN NrptRemovedPartway(table, Namespaces)
    ELSE IF table.link THEN ResolvedRemovedPartway(table)
    ELSE {table}
=============================================================================
