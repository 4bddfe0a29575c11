---------------------------- MODULE RunnerProofs ----------------------------
(***************************************************************************)
(* Proofs about Runner, for every set of namespaces and runs, both         *)
(* mechanisms and, unless a theorem says otherwise, every fault.           *)
(***************************************************************************)
EXTENDS Runner, TLAPS

-----------------------------------------------------------------------------
(* What the policies may do to the table. *)

LEMMA RulesForTyped ==
    ASSUME NEW names \in SUBSET Namespaces, NEW d \in Daemons
    PROVE  /\ RulesFor(names, d) \in SUBSET Rule
           /\ \A r \in RulesFor(names, d) : r.ns \in names /\ r.by = d
           /\ NamespacesOf(RulesFor(names, d)) = names
<1>1. RulesFor(names, d) \in SUBSET Rule
  BY DEF RulesFor, Rule
<1>2. \A r \in RulesFor(names, d) : r.ns \in names /\ r.by = d
  BY DEF RulesFor
<1>3. ASSUME NEW n \in names
      PROVE  n \in NamespacesOf(RulesFor(names, d))
  <2>1. [ns |-> n, by |-> d] \in RulesFor(names, d) /\ [ns |-> n, by |-> d].ns = n
    BY DEF RulesFor
  <2>2. QED
    BY <2>1 DEF NamespacesOf
<1>4. NamespacesOf(RulesFor(names, d)) = names
  BY <1>2, <1>3 DEF NamespacesOf
<1>5. QED
  BY <1>1, <1>2, <1>4

LEMMA TableWithRules ==
    ASSUME NEW table \in Table, NEW rules \in SUBSET Rule
    PROVE  LET after == [table EXCEPT !.rules = rules]
           IN  after \in Table /\ after.rules = rules /\ after.link = table.link
BY DEF Table

LEMMA TableOf ==
    ASSUME NEW rules \in SUBSET Rule, NEW link \in BOOLEAN
    PROVE  LET table == [rules |-> rules, link |-> link]
           IN  table \in Table /\ table.rules = rules /\ table.link = link
BY DEF Table

LEMMA TableParts ==
    ASSUME NEW table \in Table
    PROVE  table.rules \in SUBSET Rule /\ table.link \in BOOLEAN
BY DEF Table

\* `names' are the only namespaces a table gains, and what changes in it points at d.
Gains(before, after, names, d) ==
    \A r \in after.rules \ before.rules :
        r.ns \in names \cup NamespacesOf(before.rules) /\ r.by = d

\* An apply, finished or cut short, adds rules of this run for what it was asked only.
LEMMA ApplyPartwayGains ==
    ASSUME NEW table \in Table, NEW names \in SUBSET Namespaces, NEW d \in Daemons,
           NEW left \in ApplyPartway(table, names, d)
    PROVE  left \in Table /\ Gains(table, left, names, d)
<1>. table.rules \in SUBSET Rule
  BY TableParts
<1>1. CASE Mechanism = "nrpt"
  <2>1. PICK present \in ReadPresent(table) : left \in NrptPartway(table, names, d, present)
    BY <1>1 DEF ApplyPartway
  <2>2. ASSUME NEW gone, left = [table EXCEPT !.rules = Without(@, gone)]
        PROVE  left \in Table /\ Gains(table, left, names, d)
    <3>1. Without(table.rules, gone) \in SUBSET Rule
      BY DEF Without
    <3>2. left \in Table /\ left.rules = Without(table.rules, gone)
      BY <2>2, <3>1, TableWithRules
    <3>3. QED
      BY <3>2 DEF Without, Gains
  <2>3. ASSUME NEW got \in SUBSET names, NEW gone,
               left = [table EXCEPT !.rules = Without(@, gone) \cup RulesFor(got, d)]
        PROVE  left \in Table /\ Gains(table, left, names, d)
    <3>1. Without(table.rules, gone) \cup RulesFor(got, d) \in SUBSET Rule
      BY RulesForTyped DEF Without
    <3>2. left \in Table /\ left.rules = Without(table.rules, gone) \cup RulesFor(got, d)
      BY <2>3, <3>1, TableWithRules
    <3>3. QED
      BY <3>2, RulesForTyped DEF Without, Gains
  <2>4. QED
    BY <2>1, <2>2, <2>3 DEF NrptPartway
<1>2. CASE Mechanism # "nrpt"
  <2>1. CASE left = [rules |-> RulesFor(names, d), link |-> TRUE]
    BY <2>1, RulesForTyped, TableOf DEF Gains
  <2>2. CASE left = table \/ left = [table EXCEPT !.link = TRUE]
    BY <2>2 DEF Table, Gains
  <2>3. CASE left = [rules |-> RulesFor(NamespacesOf(table.rules), d), link |-> TRUE]
    <3>1. NamespacesOf(table.rules) \in SUBSET Namespaces
      BY DEF NamespacesOf, Rule
    <3>2. left \in Table /\ left.rules = RulesFor(NamespacesOf(table.rules), d)
      BY <2>3, <3>1, RulesForTyped, TableOf
    <3>3. QED
      BY <3>1, <3>2, RulesForTyped DEF Gains
  <2>4. QED
    BY <1>2, <2>1, <2>2, <2>3 DEF ApplyPartway, ResolvedPartway
<1>3. QED
  BY <1>1, <1>2

\* What a successful apply leaves is also a place it could have been killed at.
LEMMA AppliedIsPartway ==
    ASSUME NEW table \in Table, NEW names \in SUBSET Namespaces, NEW d \in Daemons,
           NEW o \in ApplyOutcomes(table, names, d)
    PROVE  o.ok \in BOOLEAN /\ o.table \in ApplyPartway(table, names, d)
<1>1. ASSUME NEW left \in ApplyRefused(table, names, d), o = Outcome(FALSE, left)
      PROVE  o.ok \in BOOLEAN /\ o.table \in ApplyPartway(table, names, d)
  BY <1>1 DEF ApplyRefused, ApplyPartway, Outcome
<1>2. ASSUME Mechanism = "nrpt", NEW present \in ReadPresent(table),
             NEW left \in NrptApplied(table, names, d, present), o = Outcome(TRUE, left)
      PROVE  o.ok \in BOOLEAN /\ o.table \in ApplyPartway(table, names, d)
  <2>1. left \in NrptPartway(table, names, d, present)
    <3>1. PICK gone \in TakenAway(present \ names) :
              left = [table EXCEPT !.rules =
                          Without(@, gone) \cup RulesFor(names \ present, d)]
      BY <1>2 DEF NrptApplied
    <3>2. names \ present \in SUBSET (names \ present)
      OBVIOUS
    <3>3. left \in {[table EXCEPT !.rules = Without(@, gone) \cup RulesFor(got, d)] :
                        got \in SUBSET (names \ present)}
      BY <3>1, <3>2
    <3>4. QED
      BY <3>3 DEF NrptPartway
  <2>2. QED
    BY <1>2, <2>1 DEF ApplyPartway, Outcome
<1>3. ASSUME Mechanism # "nrpt",
             o = Outcome(TRUE, [rules |-> RulesFor(names, d), link |-> TRUE])
      PROVE  o.ok \in BOOLEAN /\ o.table \in ApplyPartway(table, names, d)
  BY <1>3 DEF ApplyPartway, ResolvedPartway, Outcome
<1>4. QED
  BY <1>1, <1>2, <1>3 DEF ApplyOutcomes

Shrinks(before, after) == after \in Table /\ after.rules \subseteq before.rules

LEMMA TakingRulesShrinks ==
    ASSUME NEW table \in Table
    PROVE  /\ \A names : Shrinks(table, [table EXCEPT !.rules = Without(@, names)])
           /\ Shrinks(table, table)
           /\ Shrinks(table, NoRules)
           /\ Shrinks(table, [table EXCEPT !.rules = {}])
<1>1. ASSUME NEW names
      PROVE  Shrinks(table, [table EXCEPT !.rules = Without(@, names)])
  <2>1. Without(table.rules, names) \in SUBSET Rule
    BY TableParts DEF Without
  <2>2. QED
    BY <2>1, TableWithRules DEF Without, Shrinks
<1>2. Shrinks(table, NoRules)
  BY DEF Shrinks, NoRules, Table
<1>3. Shrinks(table, [table EXCEPT !.rules = {}])
  BY DEF Shrinks, Table
<1>4. QED
  BY <1>1, <1>2, <1>3 DEF Shrinks

\* A removal, finished or cut short, only ever takes rules away.
LEMMA RemoveShrinks ==
    ASSUME NEW table \in Table, NEW state
    PROVE  /\ \A left \in RemovePartway(table, state) : Shrinks(table, left)
           /\ \A o \in RemoveOutcomes(table, state) :
                  o.ok \in BOOLEAN /\ Shrinks(table, o.table)
<1>1. \A left \in RemovePartway(table, state) : Shrinks(table, left)
  BY TakingRulesShrinks DEF RemovePartway, NrptRemovedPartway, ResolvedRemovedPartway
<1>2. ASSUME NEW o \in RemoveOutcomes(table, state)
      PROVE  o.ok \in BOOLEAN /\ Shrinks(table, o.table)
  <2>1. ASSUME NEW ok \in BOOLEAN, NEW left, o = Outcome(ok, left), Shrinks(table, left)
        PROVE  o.ok \in BOOLEAN /\ Shrinks(table, o.table)
    BY <2>1 DEF Outcome
  <2>2. ASSUME NEW ok \in RemovalReports,
               o \in {Outcome(ok, left) : left \in RemovePartway(table, state)}
        PROVE  o.ok \in BOOLEAN /\ Shrinks(table, o.table)
    <3>1. PICK left \in RemovePartway(table, state) : o = Outcome(ok, left)
      BY <2>2
    <3>2. ok \in BOOLEAN
      BY DEF RemovalReports
    <3>3. QED
      BY <1>1, <2>1, <3>1, <3>2
  <2>3. CASE \A ok \in RemovalReports :
                 o \notin {Outcome(ok, left) : left \in RemovePartway(table, state)}
    <3>1. \/ o = Outcome(TRUE, [table EXCEPT !.rules = Without(@, state.namespaces)])
          \/ o = Outcome(TRUE, table)
          \/ o = Outcome(FALSE, table)
          \/ o = Outcome(TRUE, NoRules)
      BY <1>2, <2>3 DEF RemoveOutcomes
    <3>2. QED
      BY <2>1, <3>1, TakingRulesShrinks
  <2>4. QED
    BY <2>2, <2>3
<1>3. QED
  BY <1>1, <1>2

LEMMA RemoveAllShrinks ==
    ASSUME NEW table \in Table
    PROVE  /\ \A left \in RemoveAllPartway(table) : Shrinks(table, left)
           /\ \A o \in RemoveAllOutcomes(table) : Shrinks(table, o.table)
<1>1. \A left \in RemoveAllPartway(table) : Shrinks(table, left)
  BY TakingRulesShrinks DEF RemoveAllPartway, NrptRemovedPartway, ResolvedRemovedPartway
<1>2. ASSUME NEW o \in RemoveAllOutcomes(table)
      PROVE  Shrinks(table, o.table)
  <2>1. ASSUME NEW ok, NEW left, o = Outcome(ok, left), Shrinks(table, left)
        PROVE  Shrinks(table, o.table)
    BY <2>1 DEF Outcome
  <2>2. CASE o \in RemoveOutcomes(table, [namespaces |-> {}, links |-> TRUE])
    BY <2>2, RemoveShrinks
  <2>3. CASE o \notin RemoveOutcomes(table, [namespaces |-> {}, links |-> TRUE])
    BY <1>2, <2>1, <2>3, TakingRulesShrinks DEF RemoveAllOutcomes, NrptRemovedPartway
  <2>4. QED
    BY <2>2, <2>3
<1>3. QED
  BY <1>1, <1>2

-----------------------------------------------------------------------------
(* Types. *)

LEMMA FreshTyped ==
    ASSUME NEW d \in Daemons, NEW intent \in SUBSET Namespaces
    PROVE  Fresh(d, intent) \in NetState
BY DEF Fresh, NetState

\* What each write does to a record, field by field.
LEMMA RecordEdits ==
    ASSUME NEW rec \in NetState, NEW names \in SUBSET Namespaces, NEW links \in BOOLEAN
    PROVE  /\ LET after == [rec EXCEPT !.confirmed = names]
              IN  /\ after \in NetState
                  /\ after.confirmed = names
                  /\ after.intent = rec.intent
           /\ LET after == [rec EXCEPT !.confirmed = names, !.links = links]
              IN  /\ after \in NetState
                  /\ after.confirmed = names
                  /\ after.intent = rec.intent
           /\ LET after == [rec EXCEPT !.intent = @ \cup names]
              IN  /\ after \in NetState
                  /\ after.confirmed = rec.confirmed
                  /\ after.intent = rec.intent \cup names
           /\ LET after == [rec EXCEPT !.clean = TRUE, !.confirmed = {}]
              IN  after \in NetState /\ after.confirmed = {}
BY DEF NetState

LEMMA InitTyped == Init => TypeOK
<1>. SUFFICES ASSUME Init PROVE TypeOK
  OBVIOUS
<1>1. os \in Table
  BY DEF Init, NoRules, Table
<1>2. draft \in [Daemons -> NetState]
  BY FreshTyped DEF Init
<1>3. applied \in [Daemons -> PolicyState]
  BY DEF Init, NothingApplied, PolicyState
<1>4. QED
  BY <1>1, <1>2, <1>3 DEF Init, TypeOK

\* The end of a process, by itself or not.
LEMMA ForgottenTyped ==
    ASSUME TypeOK, NEW d \in Daemons, Forgotten(d)
    PROVE  /\ zone' \in [Daemons -> SUBSET Namespaces]
           /\ draft' \in [Daemons -> NetState]
           /\ applied' \in [Daemons -> PolicyState]
           /\ policyError' \in [Daemons -> BOOLEAN]
           /\ resume' \in [Daemons -> {"publish", "serving", "unpublish"}]
           /\ stop' \in [Daemons -> BOOLEAN]
           /\ seen' \in [Daemons -> BOOLEAN]
<1>1. Fresh(d, {}) \in NetState
  BY FreshTyped
<1>2. NothingApplied \in PolicyState
  BY DEF NothingApplied, PolicyState
<1>3. QED
  BY <1>1, <1>2 DEF TypeOK, Forgotten

\* The record reload() starts from, with the new intent in it.
LEMMA RecompileTyped ==
    ASSUME TypeOK, NEW d \in Daemons, pc[d] \in {"serving", "unpublish"}, Recompile(d)
    PROVE  /\ zone' \in [Daemons -> SUBSET Namespaces]
           /\ draft' \in [Daemons -> NetState]
           /\ resume' \in [Daemons -> {"publish", "serving", "unpublish"}]
           /\ pc' \in [Daemons -> {"new"} \cup Running \cup Ended]
<1>1. store \in SUBSET Namespaces
  BY RunnerAssumption DEF TypeOK
<1>2. Recorded(d) \in NetState
  BY FreshTyped DEF TypeOK, Recorded
<1>3. [Recorded(d) EXCEPT !.intent = @ \cup store] \in NetState
  BY <1>1, <1>2 DEF NetState
<1>4. QED
  BY <1>1, <1>3 DEF TypeOK, Recompile, Running, Applying

\* The table, whoever changed it and however much of the change was made.
LEMMA TableTyped ==
    ASSUME TypeOK, NEW d \in Daemons
    PROVE  /\ \A o \in ApplyOutcomes(os, zone[d], d) : o.ok \in BOOLEAN /\ o.table \in Table
           /\ \A o \in RemoveOutcomes(os, applied[d]) : o.ok \in BOOLEAN /\ o.table \in Table
           /\ \A o \in RemoveAllOutcomes(os) : o.table \in Table
           /\ \A left \in LeftByDeath(d) : left \in Table
<1>1. os \in Table /\ zone[d] \in SUBSET Namespaces
  BY DEF TypeOK
<1>2. \A o \in ApplyOutcomes(os, zone[d], d) : o.ok \in BOOLEAN /\ o.table \in Table
  BY <1>1, AppliedIsPartway, ApplyPartwayGains
<1>3. \A o \in RemoveOutcomes(os, applied[d]) : o.ok \in BOOLEAN /\ o.table \in Table
  BY <1>1, RemoveShrinks DEF Shrinks
<1>4. \A o \in RemoveAllOutcomes(os) : o.table \in Table
  BY <1>1, RemoveAllShrinks DEF Shrinks
<1>5. \A left \in LeftByDeath(d) : left \in Table
  <2>1. \A left \in ApplyPartway(os, zone[d], d) : left \in Table
    BY <1>1, ApplyPartwayGains
  <2>2. \A left \in RemovePartway(os, applied[d]) : left \in Table
    BY <1>1, RemoveShrinks DEF Shrinks
  <2>3. \A left \in RemoveAllPartway(os) : left \in Table
    BY <1>1, RemoveAllShrinks DEF Shrinks
  <2>4. QED
    BY <1>1, <2>1, <2>2, <2>3 DEF LeftByDeath
<1>6. QED
  BY <1>2, <1>3, <1>4, <1>5

LEMMA StepTyped ==
    ASSUME TypeOK, NEW d \in Daemons, Step(d)
    PROVE  TypeOK'
<1>. USE DEF Goto, machine, memory, Running, Starting, Applying, Stopping, Ended
<1>1. CASE Launch(d)
  BY <1>1 DEF TypeOK, Launch
<1>2. CASE ReadLeftovers(d)
  BY <1>2 DEF TypeOK, ReadLeftovers
<1>3. CASE SweepLeftovers(d)
  <2>1. os' \in Table
    BY <1>3, TableTyped DEF SweepLeftovers
  <2>2. QED
    BY <1>3, <2>1 DEF TypeOK, SweepLeftovers
<1>4. CASE ForgetLeftovers(d)
  BY <1>4 DEF TypeOK, ForgetLeftovers
<1>5. CASE BuildZone(d)
  BY <1>5, RunnerAssumption DEF TypeOK, BuildZone
<1>6. CASE BindSockets(d) \/ BindRefused(d)
  BY <1>6 DEF TypeOK, BindSockets, BindRefused
<1>7. CASE WriteIntent(d)
  <2>1. Fresh(d, zone[d]) \in NetState
    BY FreshTyped DEF TypeOK
  <2>2. QED
    BY <1>7, <2>1 DEF TypeOK, WriteIntent
<1>8. CASE ApplyNothing(d)
  <2>1. [draft[d] EXCEPT !.confirmed = {}] \in NetState
    <3>1. draft[d] \in NetState
      BY DEF TypeOK
    <3>2. QED
      BY <3>1, RecordEdits
  <2>2. draft' = [draft EXCEPT ![d] = [draft[d] EXCEPT !.confirmed = {}]]
    BY <1>8 DEF ApplyNothing
  <2>3. NothingApplied \in PolicyState
    BY DEF NothingApplied, PolicyState
  <2>4. QED
    BY <1>8, <2>1, <2>2, <2>3 DEF TypeOK, ApplyNothing
<1>9. CASE ApplyZone(d)
  <2>1. PICK o \in ApplyOutcomes(os, zone[d], d) :
            /\ os' = o.table
            /\ policyError' = [policyError EXCEPT ![d] = ~o.ok]
            /\ applied' = [applied EXCEPT
                              ![d] = IF o.ok THEN AppliedTo(zone[d]) ELSE NothingApplied]
    BY <1>9 DEF ApplyZone
  <2>2. AppliedTo(zone[d]) \in PolicyState /\ NothingApplied \in PolicyState
    BY DEF TypeOK, AppliedTo, NothingApplied, PolicyState
  <2>3. os' \in Table
    BY <2>1, TableTyped
  <2>4. policyError' \in [Daemons -> BOOLEAN]
    <3>1. (~o.ok) \in BOOLEAN
      OBVIOUS
    <3>2. QED
      BY <2>1, <3>1 DEF TypeOK
  <2>5. applied' \in [Daemons -> PolicyState]
    BY <2>1, <2>2 DEF TypeOK
  <2>6. QED
    BY <1>9, <2>3, <2>4, <2>5 DEF TypeOK, ApplyZone
<1>10. CASE WriteConfirmed(d)
  <2>1. Confirmed(d) \in NetState
    <3>1. /\ draft[d] \in NetState
          /\ applied[d].namespaces \in SUBSET Namespaces
          /\ applied[d].links \in BOOLEAN
      BY DEF TypeOK, PolicyState
    <3>2. QED
      BY <3>1, RecordEdits DEF Confirmed
  <2>2. QED
    BY <1>10, <2>1 DEF TypeOK, WriteConfirmed
<1>11. CASE Publish(d)
  BY <1>11 DEF TypeOK, Publish
<1>12. CASE Reload(d)
  BY <1>12, RecompileTyped DEF TypeOK, Reload
<1>13. CASE WatchStore(d)
  BY <1>13, RecompileTyped DEF TypeOK, WatchStore
<1>14. CASE RewriteIntent(d)
  BY <1>14 DEF TypeOK, RewriteIntent
<1>15. CASE SaveRefused(d)
  <2>1. NothingApplied \in PolicyState
    BY DEF NothingApplied, PolicyState
  <2>2. applied' \in [Daemons -> PolicyState]
    BY <1>15, <2>1 DEF TypeOK, SaveRefused
  <2>3. QED
    BY <1>15, <2>2 DEF TypeOK, SaveRefused
<1>16. CASE RequestStop(d) \/ WatchOwner(d) \/ BeginStop(d)
  BY <1>16 DEF TypeOK, RequestStop, WatchOwner, BeginStop
<1>17. CASE Unpublish(d) \/ CloseSockets(d)
  BY <1>17 DEF TypeOK, Unpublish, CloseSockets
<1>18. CASE RemovePolicy(d)
  <2>1. os' \in Table
    BY <1>18, TableTyped DEF RemovePolicy, TypeOK
  <2>2. NothingApplied \in PolicyState
    BY DEF NothingApplied, PolicyState
  <2>3. applied' \in [Daemons -> PolicyState]
    BY <1>18, <2>2 DEF TypeOK, RemovePolicy
  <2>4. QED
    BY <1>18, <2>1, <2>3 DEF TypeOK, RemovePolicy
<1>19. CASE MarkClean(d)
  <2>1. netstate' \in NetState \cup {None}
    BY <1>19 DEF TypeOK, MarkClean, NetState
  <2>2. QED
    BY <1>19, <2>1 DEF TypeOK, MarkClean
<1>20. CASE ClearState(d)
  BY <1>20, ForgottenTyped DEF TypeOK, ClearState
<1>21. CASE Kill(d)
  BY <1>21, ForgottenTyped, TableTyped DEF TypeOK, Kill
<1>22. QED
  BY <1>1, <1>2, <1>3, <1>4, <1>5, <1>6, <1>7, <1>8, <1>9, <1>10, <1>11, <1>12, <1>13,
     <1>14, <1>15, <1>16, <1>17, <1>18, <1>19, <1>20, <1>21
     DEF Step, Proceed

\* Type correctness: whatever runs, edits and deaths follow each other, every file and
\* every process of daemon/runner.py keeps a value its code can hold.
THEOREM TypeCorrect == Spec => []TypeOK
<1>1. TypeOK /\ [Next]_vars => TypeOK'
  <2>. SUFFICES ASSUME TypeOK, [Next]_vars PROVE TypeOK'
    OBVIOUS
  <2>1. CASE \E d \in Daemons : Step(d)
    BY <2>1, StepTyped
  <2>2. CASE EditStore
    BY <2>2 DEF TypeOK, EditStore
  <2>3. CASE OwnerDies
    BY <2>3 DEF TypeOK, OwnerDies, memory
  <2>4. CASE UNCHANGED vars
    BY <2>4 DEF TypeOK, vars, machine, memory
  <2>5. QED
    BY <2>1, <2>2, <2>3, <2>4 DEF Next
<1>2. QED
  BY InitTyped, <1>1, PTL DEF Spec

-----------------------------------------------------------------------------
(* The record. *)

\* IntentCoversConfirmed, strengthened with what a run holds in memory while it is
\* between the two writes of the record.
IntentInv ==
    /\ IntentCoversConfirmed
    /\ \A d \in Daemons :
        /\ draft[d].confirmed \subseteq draft[d].intent
        /\ pc[d] \in Applying => zone[d] \subseteq draft[d].intent
        /\ pc[d] = "write_confirmed" => applied[d].namespaces \subseteq zone[d]

\* A new record claims nothing yet.
LEMMA FreshCovers ==
    ASSUME NEW d \in Daemons, NEW intent
    PROVE  Fresh(d, intent).confirmed = {} /\ Fresh(d, intent).intent = intent
BY DEF Fresh

LEMMA RecompileCovers ==
    ASSUME TypeOK, IntentInv, NEW d \in Daemons, Recompile(d)
    PROVE  /\ draft'[d].confirmed \subseteq draft'[d].intent
           /\ zone'[d] \subseteq draft'[d].intent
           /\ pc'[d] = "rewrite_intent"
<1>1. Recorded(d) \in NetState /\ Recorded(d).confirmed \subseteq Recorded(d).intent
  BY FreshTyped, FreshCovers DEF TypeOK, Recorded, IntentInv, IntentCoversConfirmed
<1>2. store \in SUBSET Namespaces
  BY RunnerAssumption DEF TypeOK
<1>3. draft'[d] = [Recorded(d) EXCEPT !.intent = @ \cup store]
  BY DEF TypeOK, Recompile
<1>4. /\ draft'[d].confirmed = Recorded(d).confirmed
      /\ draft'[d].intent = Recorded(d).intent \cup store
  BY <1>1, <1>3 DEF NetState
<1>5. QED
  BY <1>1, <1>4 DEF TypeOK, Recompile

LEMMA StepCovers ==
    ASSUME TypeOK, TypeOK', IntentInv, NEW d \in Daemons, Step(d)
    PROVE  IntentInv'
<1>. USE DEF Goto, machine, memory, Applying
<1>1. CASE \/ Launch(d) \/ ReadLeftovers(d) \/ BindRefused(d) \/ SaveRefused(d)
           \/ BeginStop(d) \/ RequestStop(d) \/ WatchOwner(d)
  <2>1. pc'[d] \in Applying => pc'[d] = pc[d]
    BY <1>1 DEF TypeOK, Launch, ReadLeftovers, BindRefused, SaveRefused, BeginStop,
                RequestStop, WatchOwner
  <2>2. \A e \in Daemons \ {d} : pc'[e] = pc[e]
    BY <1>1 DEF TypeOK, Launch, ReadLeftovers, BindRefused, SaveRefused, BeginStop,
                RequestStop, WatchOwner
  <2>3. QED
    BY <1>1, <2>1, <2>2 DEF TypeOK, IntentInv, IntentCoversConfirmed, Launch, ReadLeftovers,
                BindRefused, SaveRefused, BeginStop, RequestStop, WatchOwner
<1>2. CASE SweepLeftovers(d) \/ ForgetLeftovers(d)
  BY <1>2 DEF TypeOK, IntentInv, IntentCoversConfirmed, SweepLeftovers, ForgetLeftovers
<1>3. CASE BuildZone(d) \/ BindSockets(d)
  BY <1>3 DEF TypeOK, IntentInv, IntentCoversConfirmed, BuildZone, BindSockets
<1>4. CASE WriteIntent(d)
  BY <1>4, FreshCovers DEF TypeOK, IntentInv, IntentCoversConfirmed, WriteIntent
<1>5. CASE ApplyNothing(d)
  <2>1. draft'[d] = [draft[d] EXCEPT !.confirmed = {}] /\ netstate' = draft'[d]
    BY <1>5 DEF TypeOK, ApplyNothing
  <2>2. draft'[d].confirmed = {} /\ draft'[d].intent = draft[d].intent
    <3>1. draft[d] \in NetState
      BY DEF TypeOK
    <3>2. QED
      BY <2>1, <3>1 DEF NetState
  <2>3. \A e \in Daemons \ {d} : draft'[e] = draft[e] /\ applied'[e] = applied[e] /\ pc'[e] = pc[e]
    BY <1>5 DEF TypeOK, ApplyNothing
  <2>4. zone' = zone /\ pc'[d] # "write_confirmed"
    BY <1>5 DEF TypeOK, ApplyNothing
  <2>5. zone[d] \subseteq draft[d].intent
    BY <1>5 DEF ApplyNothing, IntentInv
  <2>6. QED
    BY <2>1, <2>2, <2>3, <2>4, <2>5 DEF IntentInv, IntentCoversConfirmed
<1>6. CASE ApplyZone(d)
  <2>1. applied'[d].namespaces \subseteq zone[d]
    BY <1>6 DEF TypeOK, ApplyZone, AppliedTo, NothingApplied
  <2>2. QED
    BY <1>6, <2>1 DEF TypeOK, IntentInv, IntentCoversConfirmed, ApplyZone
<1>7. CASE WriteConfirmed(d)
  <2>1. draft'[d] = Confirmed(d) /\ netstate' = Confirmed(d)
    BY <1>7 DEF TypeOK, WriteConfirmed
  <2>2. Confirmed(d).confirmed = applied[d].namespaces /\ Confirmed(d).intent = draft[d].intent
    <3>1. draft[d] \in NetState
      BY DEF TypeOK
    <3>2. QED
      BY <3>1 DEF Confirmed, NetState
  <2>3. applied[d].namespaces \subseteq draft[d].intent
    BY <1>7 DEF WriteConfirmed, IntentInv
  <2>4. \A e \in Daemons \ {d} : draft'[e] = draft[e] /\ pc'[e] = pc[e]
    BY <1>7 DEF TypeOK, WriteConfirmed
  <2>5. zone' = zone /\ applied' = applied /\ pc'[d] \notin Applying
    BY <1>7 DEF TypeOK, WriteConfirmed
  <2>6. QED
    BY <2>1, <2>2, <2>3, <2>4, <2>5 DEF IntentInv, IntentCoversConfirmed
<1>8. CASE Publish(d) \/ Unpublish(d) \/ CloseSockets(d)
  BY <1>8 DEF TypeOK, IntentInv, IntentCoversConfirmed, Publish, Unpublish, CloseSockets
<1>9. CASE Reload(d) \/ (WatchStore(d) /\ zone[d] # store)
  <2>1. Recompile(d) /\ netstate' = netstate /\ applied' = applied
    BY <1>9 DEF Reload, WatchStore
  <2>2. \A e \in Daemons \ {d} : draft'[e] = draft[e] /\ zone'[e] = zone[e] /\ pc'[e] = pc[e]
    BY <2>1 DEF TypeOK, Recompile
  <2>3. QED
    BY <2>1, <2>2, RecompileCovers DEF IntentInv, IntentCoversConfirmed
<1>10. CASE WatchStore(d) /\ zone[d] = store
  BY <1>10 DEF TypeOK, IntentInv, IntentCoversConfirmed, WatchStore
<1>11. CASE RewriteIntent(d)
  BY <1>11 DEF TypeOK, IntentInv, IntentCoversConfirmed, RewriteIntent
<1>12. CASE RemovePolicy(d)
  <2>1. \A e \in Daemons \ {d} : applied'[e] = applied[e]
    BY <1>12 DEF TypeOK, RemovePolicy
  <2>2. QED
    BY <1>12, <2>1 DEF TypeOK, IntentInv, IntentCoversConfirmed, RemovePolicy
<1>13. CASE MarkClean(d)
  <2>1. IntentCoversConfirmed'
    BY <1>13, RecordEdits DEF TypeOK, MarkClean, IntentCoversConfirmed
  <2>2. QED
    BY <1>13, <2>1 DEF TypeOK, IntentInv, MarkClean
<1>14. CASE ClearState(d) \/ Kill(d)
  <2>1. /\ Forgotten(d)
        /\ netstate' = None \/ netstate' = netstate
        /\ pc' = [pc EXCEPT ![d] = "stopped"] \/ pc' = [pc EXCEPT ![d] = "killed"]
    BY <1>14 DEF ClearState, Kill
  <2>2. /\ pc'[d] \notin Applying
        /\ draft'[d] = Fresh(d, {})
        /\ \A e \in Daemons \ {d} :
               draft'[e] = draft[e] /\ zone'[e] = zone[e] /\ applied'[e] = applied[e] /\ pc'[e] = pc[e]
    BY <2>1 DEF TypeOK, Forgotten
  <2>3. QED
    BY <2>1, <2>2, FreshCovers DEF IntentInv, IntentCoversConfirmed
<1>15. QED
  BY <1>1, <1>2, <1>3, <1>4, <1>5, <1>6, <1>7, <1>8, <1>9, <1>10, <1>11, <1>12, <1>13, <1>14
     DEF Step, Proceed

\* netstate.json never claims a namespace it did not first announce, for any number of
\* runs, overlapping or not, killed anywhere, with any command or write refused.
THEOREM IntentAlwaysCovers == Spec => []IntentCoversConfirmed
<1>1. Init => IntentInv
  BY FreshCovers DEF Init, IntentInv, IntentCoversConfirmed, Applying
<1>2. TypeOK /\ TypeOK' /\ IntentInv /\ [Next]_vars => IntentInv'
  <2>. SUFFICES ASSUME TypeOK, TypeOK', IntentInv, [Next]_vars PROVE IntentInv'
    OBVIOUS
  <2>1. CASE \E d \in Daemons : Step(d)
    BY <2>1, StepCovers
  <2>2. CASE EditStore
    BY <2>2 DEF IntentInv, IntentCoversConfirmed, EditStore
  <2>3. CASE OwnerDies
    BY <2>3 DEF IntentInv, IntentCoversConfirmed, OwnerDies, memory
  <2>4. CASE UNCHANGED vars
    BY <2>4 DEF IntentInv, IntentCoversConfirmed, vars, machine, memory
  <2>5. QED
    BY <2>1, <2>2, <2>3, <2>4 DEF Next
<1>3. IntentInv => IntentCoversConfirmed
  BY DEF IntentInv
<1>4. QED
  BY <1>1, <1>2, <1>3, TypeCorrect, PTL DEF Spec

-----------------------------------------------------------------------------
(* The sockets. *)

\* From the bind to the close the sockets are this run's.
Holding == {"write_intent", "publish", "serving", "unpublish", "close_sockets"} \cup Applying

PortInv == \A d \in Daemons : pc[d] \in Holding => port = d

LEMMA StepMovesOne ==
    ASSUME TypeOK, NEW d \in Daemons, Step(d)
    PROVE  \A e \in Daemons \ {d} : pc'[e] = pc[e]
BY DEF TypeOK, Step, Proceed, Launch, ReadLeftovers, SweepLeftovers, ForgetLeftovers,
       BuildZone, BindSockets, BindRefused, WriteIntent, ApplyNothing, ApplyZone,
       WriteConfirmed, Publish, Reload, WatchStore, Recompile, RewriteIntent, SaveRefused,
       RequestStop, WatchOwner, BeginStop, Unpublish, CloseSockets, RemovePolicy,
       MarkClean, ClearState, Kill, Goto, machine, memory

LEMMA StepHolds ==
    ASSUME TypeOK, PortInv, NEW d \in Daemons, Step(d)
    PROVE  PortInv'
<1>. USE DEF Goto, machine, memory, Applying, Holding
<1>1. \A e \in Daemons \ {d} : pc'[e] = pc[e]
  BY StepMovesOne
<1>2. CASE BindSockets(d)
  <2>1. \A e \in Daemons : pc[e] \notin Holding
    BY <1>2, RunnerAssumption DEF PortInv, BindSockets
  <2>2. QED
    BY <1>1, <1>2, <2>1 DEF PortInv, BindSockets
<1>3. CASE CloseSockets(d)
  <2>1. \A e \in Daemons \ {d} : pc[e] \notin Holding
    BY <1>3 DEF PortInv, CloseSockets
  <2>2. QED
    BY <1>1, <1>3, <2>1 DEF TypeOK, PortInv, CloseSockets
<1>4. CASE Kill(d)
  BY <1>1, <1>4 DEF TypeOK, PortInv, Kill
<1>5. CASE port' = port /\ (pc'[d] \in Holding => pc[d] \in Holding)
  BY <1>1, <1>5 DEF PortInv
<1>6. ASSUME ~BindSockets(d), ~CloseSockets(d), ~Kill(d)
      PROVE  port' = port /\ (pc'[d] \in Holding => pc[d] \in Holding)
  BY <1>6 DEF TypeOK, Step, Proceed, Launch, ReadLeftovers, SweepLeftovers, ForgetLeftovers,
         BuildZone, BindRefused, WriteIntent, ApplyNothing, ApplyZone,
         WriteConfirmed, Publish, Reload, WatchStore, Recompile, RewriteIntent, SaveRefused,
         RequestStop, WatchOwner, BeginStop, Unpublish, RemovePolicy,
         MarkClean, ClearState
<1>7. QED
  BY <1>2, <1>3, <1>4, <1>5, <1>6

\* A rule appears only by an apply: of this run, and for its zone.
LEMMA StepGains ==
    ASSUME TypeOK, NEW d \in Daemons, Step(d)
    PROVE  \/ os'.rules \subseteq os.rules
           \/ pc[d] = "apply_policy" /\ Gains(os, os', zone[d], d)
<1>. USE DEF Goto
<1>0. os \in Table /\ zone[d] \in SUBSET Namespaces
  BY DEF TypeOK
<1>1. CASE pc[d] = "apply_policy" /\ os' \in ApplyPartway(os, zone[d], d)
  BY <1>0, <1>1, ApplyPartwayGains
<1>2. CASE SweepLeftovers(d)
  BY <1>0, <1>2, RemoveAllShrinks DEF SweepLeftovers, Shrinks
<1>3. CASE ApplyZone(d)
  BY <1>0, <1>1, <1>3, AppliedIsPartway DEF ApplyZone
<1>4. CASE RemovePolicy(d)
  BY <1>0, <1>4, RemoveShrinks DEF RemovePolicy, Shrinks
<1>5. CASE Kill(d)
  <2>1. os' \in LeftByDeath(d)
    BY <1>5 DEF Kill
  <2>2. \/ pc[d] = "apply_policy" /\ os' \in ApplyPartway(os, zone[d], d)
        \/ os' \in RemovePartway(os, applied[d])
        \/ os' \in RemoveAllPartway(os)
        \/ os' = os
    BY <2>1 DEF LeftByDeath
  <2>3. QED
    BY <1>0, <1>1, <2>2, RemoveShrinks, RemoveAllShrinks DEF Shrinks
<1>6. ASSUME ~SweepLeftovers(d), ~ApplyZone(d), ~RemovePolicy(d), ~Kill(d)
      PROVE  os' = os
  BY <1>6 DEF Step, Proceed, Launch, ReadLeftovers, ForgetLeftovers,
         BuildZone, BindSockets, BindRefused, WriteIntent, ApplyNothing,
         WriteConfirmed, Publish, Reload, WatchStore, RewriteIntent, SaveRefused,
         RequestStop, WatchOwner, BeginStop, Unpublish, CloseSockets, MarkClean, ClearState,
         machine
<1>7. QED
  BY <1>2, <1>3, <1>4, <1>5, <1>6

LEMMA PortHolds ==
    /\ Init => PortInv
    /\ TypeOK /\ PortInv /\ [Next]_vars => PortInv'
<1>1. Init => PortInv
  BY DEF Init, PortInv, Holding, Applying
<1>2. TypeOK /\ PortInv /\ [Next]_vars => PortInv'
  <2>. SUFFICES ASSUME TypeOK, PortInv, [Next]_vars PROVE PortInv'
    OBVIOUS
  <2>1. CASE \E d \in Daemons : Step(d)
    BY <2>1, StepHolds
  <2>2. CASE EditStore \/ OwnerDies \/ UNCHANGED vars
    BY <2>2 DEF PortInv, EditStore, OwnerDies, vars, machine
  <2>3. QED
    BY <2>1, <2>2 DEF Next
<1>3. QED
  BY <1>1, <1>2

\* Bind first: no name is ever sent to a listener nobody holds by a step that claims it,
\* however many runs are alive, and whether the command finishes, is refused or dies.
THEOREM ClaimsAreBound == Spec => BindBeforeClaim
<1>1. TypeOK /\ PortInv /\ [Next]_vars => [\A r \in os'.rules \ os.rules : port = r.by]_vars
  <2>. SUFFICES ASSUME TypeOK, PortInv, [Next]_vars
                PROVE  \A r \in os'.rules \ os.rules : port = r.by
    OBVIOUS
  <2>1. ASSUME NEW d \in Daemons, Step(d)
        PROVE  \A r \in os'.rules \ os.rules : port = r.by
    <3>1. pc[d] = "apply_policy" => port = d
      BY DEF PortInv, Holding, Applying
    <3>2. QED
      BY <2>1, <3>1, StepGains DEF Gains
  <2>2. CASE EditStore \/ OwnerDies \/ UNCHANGED vars
    BY <2>2 DEF EditStore, OwnerDies, vars, machine
  <2>3. QED
    BY <2>1, <2>2 DEF Next
<1>2. QED
  BY <1>1, PortHolds, TypeCorrect, PTL DEF Spec, BindBeforeClaim

\* A run that serves, or that reloads while it serves, is the one in daemon.json.
PublishInv ==
    \A d \in Daemons :
        pc[d] = "serving" \/ (pc[d] \in Applying /\ resume[d] = "serving") => daemonFile = d

LEMMA StepPublishes ==
    ASSUME TypeOK, PortInv, PublishInv, NEW d \in Daemons, Step(d)
    PROVE  PublishInv'
<1>. DEFINE Shows(e) == pc[e] = "serving" \/ (pc[e] \in Applying /\ resume[e] = "serving")
            Shows2(e) == pc'[e] = "serving" \/ (pc'[e] \in Applying /\ resume'[e] = "serving")
<1>1. \A e \in Daemons \ {d} : pc'[e] = pc[e]
  BY StepMovesOne
<1>2. \A e \in Daemons \ {d} : resume'[e] = resume[e]
  BY DEF TypeOK, Step, Proceed, Launch, ReadLeftovers, SweepLeftovers, ForgetLeftovers,
         BuildZone, BindSockets, BindRefused, WriteIntent, ApplyNothing, ApplyZone,
         WriteConfirmed, Publish, Reload, WatchStore, Recompile, RewriteIntent, SaveRefused,
         RequestStop, WatchOwner, BeginStop, Unpublish, CloseSockets, RemovePolicy,
         MarkClean, ClearState, Kill, Forgotten, Goto, machine, memory
<1>3. \A e \in Daemons \ {d} : Shows2(e) => Shows(e)
  BY <1>1, <1>2
<1>4. CASE Publish(d) \/ Unpublish(d)
  <2>1. pc[d] \in {"publish", "unpublish"}
    BY <1>4 DEF Publish, Unpublish, Goto
  <2>2. port = d
    BY <2>1 DEF PortInv, Holding
  <2>3. \A e \in Daemons \ {d} : ~ Shows(e)
    BY <2>2 DEF PortInv, Holding
  <2>4. Shows2(d) => daemonFile' = d
    BY <1>4 DEF TypeOK, Publish, Unpublish, Goto, Applying
  <2>5. QED
    BY <1>3, <2>3, <2>4 DEF PublishInv
<1>5. CASE ~ Publish(d) /\ ~ Unpublish(d)
  <2>1. daemonFile' = daemonFile
    BY <1>5 DEF Step, Proceed, Launch, ReadLeftovers, SweepLeftovers, ForgetLeftovers,
         BuildZone, BindSockets, BindRefused, WriteIntent, ApplyNothing, ApplyZone,
         WriteConfirmed, Reload, WatchStore, RewriteIntent, SaveRefused,
         RequestStop, WatchOwner, BeginStop, CloseSockets, RemovePolicy,
         MarkClean, ClearState, Kill, machine
  <2>2. Shows2(d) => Shows(d)
    BY <1>5 DEF TypeOK, Step, Proceed, Launch, ReadLeftovers, SweepLeftovers, ForgetLeftovers,
         BuildZone, BindSockets, BindRefused, WriteIntent, ApplyNothing, ApplyZone,
         WriteConfirmed, Reload, WatchStore, Recompile, RewriteIntent, SaveRefused,
         RequestStop, WatchOwner, BeginStop, CloseSockets, RemovePolicy,
         MarkClean, ClearState, Kill, Forgotten, Goto, machine, memory, Applying
  <2>3. QED
    BY <1>3, <2>1, <2>2 DEF PublishInv
<1>6. QED
  BY <1>4, <1>5

\* No client is led to another run than the one that serves, however runs overlap: the
\* sockets, which one run at a time can hold, order what they do to the file.
THEOREM ServingIsAlwaysPublished == Spec => []ServingIsPublished
<1>1. Init => PublishInv
  BY DEF Init, PublishInv, Applying
<1>2. TypeOK /\ PortInv /\ PublishInv /\ [Next]_vars => PublishInv'
  <2>. SUFFICES ASSUME TypeOK, PortInv, PublishInv, [Next]_vars PROVE PublishInv'
    OBVIOUS
  <2>1. CASE \E d \in Daemons : Step(d)
    BY <2>1, StepPublishes
  <2>2. CASE EditStore \/ OwnerDies \/ UNCHANGED vars
    BY <2>2 DEF PublishInv, EditStore, OwnerDies, vars, machine, memory
  <2>3. QED
    BY <2>1, <2>2 DEF Next
<1>3. PublishInv => ServingIsPublished
  BY DEF PublishInv, ServingIsPublished
<1>4. QED
  BY <1>1, <1>2, <1>3, PortHolds, TypeCorrect, PTL DEF Spec

-----------------------------------------------------------------------------
(* One run after another. *)

\* Commands that are never refused, a store that never empties, one run at a time.
OneByOne == Faults = {} /\ {} \notin Zones /\ ~Overlap

Wiped == {"clear", "build_zone", "bind_sockets", "write_intent", "mark_clean", "clear_state"}
Zoned == {"bind_sockets", "write_intent", "rewrite_intent", "apply_policy"}
Held == {"publish", "serving", "unpublish", "close_sockets", "policy_remove"}

Sole == \A d, e \in Daemons : Alive(d) /\ Alive(e) => d = e

\* Only one of the mechanisms has a link, and there every rule is on it.
LinkOk(table) == IF Mechanism = "nrpt" THEN ~table.link ELSE table.rules = {} \/ table.link

\* A record that is absent or marked clean is believed by the next start.
CleanIsClean == netstate = None \/ netstate.clean => os = NoRules

\* What a run has done to the machine, seen from where it is.
RunInv(d) ==
    /\ pc[d] \in Wiped => os = NoRules
    /\ pc[d] \in Zoned \cup Held \cup {"write_confirmed"} => zone[d] # {}
    /\ pc[d] = "rewrite_intent" => NamespacesOf(os.rules) \subseteq draft[d].intent
    /\ pc[d] \in {"rewrite_intent", "apply_policy"} => zone[d] \subseteq draft[d].intent
    /\ pc[d] \in Applying => ~draft[d].clean
    /\ pc[d] \in {"apply_policy", "write_confirmed"} => netstate = draft[d]
    /\ pc[d] \in Held \cup {"write_confirmed"} =>
           /\ NamespacesOf(os.rules) = zone[d]
           /\ os.link = (Mechanism = "systemd-resolved")
           /\ applied[d] = AppliedTo(zone[d])
    /\ pc[d] \in Held => netstate # None /\ ~netstate.clean
    /\ pc[d] = "stopped" => \A r \in os.rules : r.by # d

\* The machine, the record and the runs, between any two calls.
RestartInv ==
    /\ Sole
    /\ LinkOk(os)
    /\ CleanIsClean
    /\ RulesAreListed
    /\ \A d \in Daemons : RunInv(d)

LEMMA NamesOfRules ==
    ASSUME NEW rules, NEW others, NEW names
    PROVE  /\ NamespacesOf(rules \cup others) = NamespacesOf(rules) \cup NamespacesOf(others)
           /\ NamespacesOf(Without(rules, names)) = NamespacesOf(rules) \ names
           /\ rules \subseteq others => NamespacesOf(rules) \subseteq NamespacesOf(others)
           /\ NamespacesOf(rules) = {} => rules = {}
BY DEF NamespacesOf, Without

LEMMA EmptyTable ==
    ASSUME NEW table \in Table
    PROVE  table = NoRules <=> table.rules = {} /\ ~table.link
BY DEF Table, NoRules

\* An apply nothing refuses leaves exactly the namespaces it was asked for.
LEMMA QuietApply ==
    ASSUME Faults = {}, NEW table \in Table, LinkOk(table),
           NEW names \in SUBSET Namespaces, NEW d \in Daemons,
           NEW o \in ApplyOutcomes(table, names, d)
    PROVE  /\ o.ok
           /\ NamespacesOf(o.table.rules) = names
           /\ o.table.link = (Mechanism = "systemd-resolved")
<1>. DEFINE present == NamespacesOf(table.rules)
            kept == Without(table.rules, present \ names)
            added == RulesFor(names \ present, d)
<1>1. CASE Mechanism = "nrpt"
  <2>1. PICK done \in NrptApplied(table, names, d, present) : o = Outcome(TRUE, done)
    BY <1>1 DEF ApplyOutcomes, ReadPresent
  <2>2. kept \cup added \in SUBSET Rule
    BY TableParts, RulesForTyped DEF Without
  <2>3. done = [table EXCEPT !.rules = kept \cup added]
    BY DEF NrptApplied, TakenAway
  <2>4. o.ok /\ o.table.rules = kept \cup added /\ o.table.link = table.link
    <3>1. o.ok /\ o.table = [table EXCEPT !.rules = kept \cup added]
      BY <2>1, <2>3 DEF Outcome
    <3>2. QED
      BY <2>2, <3>1, TableWithRules
  <2>5. NamespacesOf(kept) = present \ (present \ names) /\ NamespacesOf(added) = names \ present
    BY NamesOfRules, RulesForTyped
  <2>6. NamespacesOf(kept \cup added) = names
    <3>. HIDE DEF present, kept, added
    <3>1. NamespacesOf(kept \cup added) = NamespacesOf(kept) \cup NamespacesOf(added)
      BY NamesOfRules
    <3>2. QED
      BY <2>5, <3>1
  <2>7. QED
    BY <1>1, <2>4, <2>6, TableParts DEF LinkOk
<1>2. CASE Mechanism # "nrpt"
  <2>1. o = Outcome(TRUE, [rules |-> RulesFor(names, d), link |-> TRUE])
    BY <1>2 DEF ApplyOutcomes
  <2>2. Mechanism = "systemd-resolved"
    BY <1>2, PolicyAssumption
  <2>3. QED
    BY <2>1, <2>2, RulesForTyped DEF Outcome
<1>3. QED
  BY <1>1, <1>2

\* Whatever is interrupted, the link stays what its rules need.
LEMMA LinkKept ==
    ASSUME NEW table \in Table, LinkOk(table)
    PROVE  /\ \A names \in SUBSET Namespaces, d \in Daemons :
                  \A left \in ApplyPartway(table, names, d) : LinkOk(left)
           /\ \A state : \A left \in RemovePartway(table, state) : LinkOk(left)
           /\ \A left \in RemoveAllPartway(table) : LinkOk(left)
<1>0. table.rules \in SUBSET Rule /\ table.link \in BOOLEAN
  BY TableParts
<1>1. ASSUME NEW names \in SUBSET Namespaces, NEW d \in Daemons,
             NEW left \in ApplyPartway(table, names, d)
      PROVE  LinkOk(left)
  <2>1. CASE Mechanism = "nrpt"
    <3>1. ASSUME NEW rules \in SUBSET Rule, left = [table EXCEPT !.rules = rules]
          PROVE  LinkOk(left)
      BY <2>1, <3>1, TableWithRules DEF LinkOk
    <3>2. \A gone : Without(table.rules, gone) \in SUBSET Rule
      BY <1>0 DEF Without
    <3>3. \A gone : \A got \in SUBSET names :
              Without(table.rules, gone) \cup RulesFor(got, d) \in SUBSET Rule
      BY <3>2, RulesForTyped
    <3>4. PICK present \in ReadPresent(table) : left \in NrptPartway(table, names, d, present)
      BY <1>1, <2>1 DEF ApplyPartway
    <3>5. QED
      BY <3>1, <3>2, <3>3, <3>4 DEF NrptPartway
  <2>2. CASE Mechanism # "nrpt"
    <3>1. left \in ResolvedPartway(table, names, d)
      BY <1>1, <2>2 DEF ApplyPartway
    <3>2. QED
      BY <2>2, <3>1 DEF ResolvedPartway, LinkOk, Table
  <2>3. QED
    BY <2>1, <2>2
<1>2. \A names : LinkOk([table EXCEPT !.rules = Without(@, names)])
  BY DEF LinkOk, Table, Without
<1>3. LinkOk([table EXCEPT !.rules = {}])
  BY DEF LinkOk, Table
<1>4. QED
  BY <1>1, <1>2, <1>3
     DEF RemovePartway, RemoveAllPartway, NrptRemovedPartway, ResolvedRemovedPartway

\* A removal nothing refuses, of exactly what is there, leaves nothing.
LEMMA QuietRemove ==
    ASSUME Faults = {}, NEW table \in Table, NEW names,
           NamespacesOf(table.rules) = names, table.link = (Mechanism = "systemd-resolved"),
           NEW o \in RemoveOutcomes(table, AppliedTo(names))
    PROVE  o.ok /\ o.table = NoRules
<1>. DEFINE state == AppliedTo(names)
<1>0. state.namespaces = names /\ state.links = (Mechanism = "systemd-resolved")
  BY DEF AppliedTo
<1>1. CASE Mechanism = "nrpt"
  <2>1. o = Outcome(TRUE, [table EXCEPT !.rules = Without(@, names)])
    BY <1>0, <1>1 DEF RemoveOutcomes
  <2>2. Without(table.rules, names) = {}
    BY DEF Without, NamespacesOf
  <2>3. [table EXCEPT !.rules = Without(@, names)] = NoRules
    <3>1. ~table.link
      BY <1>1
    <3>2. LET after == [table EXCEPT !.rules = {}]
          IN  after \in Table /\ after.rules = {} /\ after.link = table.link
      BY TableWithRules
    <3>3. QED
      BY <2>2, <3>1, <3>2, EmptyTable
  <2>4. QED
    BY <2>1, <2>3 DEF Outcome
<1>2. CASE Mechanism = "systemd-resolved"
  <2>1. o = Outcome(TRUE, NoRules)
    <3>1. "remove" \notin Faults /\ "systemd-resolved" # "nrpt" /\ state.links /\ table.link
      BY <1>0, <1>2
    <3>2. QED
      BY <1>2, <3>1 DEF RemoveOutcomes
  <2>2. QED
    BY <2>1 DEF Outcome
<1>3. QED
  BY <1>1, <1>2, PolicyAssumption

LEMMA QuietRemoveAll ==
    ASSUME "remove" \notin Faults, NEW table \in Table, LinkOk(table),
           NEW o \in RemoveAllOutcomes(table)
    PROVE  o.table = NoRules
<1>1. CASE Mechanism = "nrpt"
  <2>1. o = Outcome(TRUE, [table EXCEPT !.rules = {}])
    BY <1>1 DEF RemoveAllOutcomes
  <2>2. QED
    BY <1>1, <2>1 DEF Outcome, LinkOk, Table, NoRules
<1>2. CASE Mechanism = "systemd-resolved" /\ table.link
  BY <1>2 DEF RemoveAllOutcomes, RemoveOutcomes, Outcome
<1>3. CASE Mechanism = "systemd-resolved" /\ ~table.link
  BY <1>3, EmptyTable DEF RemoveAllOutcomes, LinkOk, Outcome
<1>4. QED
  BY <1>1, <1>2, <1>3, PolicyAssumption

\* While one run moves, no other is alive, and what is known of the others stays so.
LEMMA StepOthers ==
    ASSUME TypeOK, OneByOne, RestartInv, NEW d \in Daemons, Step(d)
    PROVE  Sole' /\ \A e \in Daemons \ {d} : RunInv(e)'
<1>. USE DEF Running, Starting, Applying, Stopping, Ended
<1>1. \A e \in Daemons \ {d} : pc'[e] = pc[e]
  BY StepMovesOne
<1>2. \A e \in Daemons \ {d} : pc[e] \notin Running
  <2>1. CASE Launch(d)
    BY <2>1 DEF OneByOne, Launch, Alive
  <2>2. CASE ~Launch(d)
    <3>1. pc[d] \in Running
      BY <2>2 DEF Step, Proceed, ReadLeftovers, SweepLeftovers, ForgetLeftovers,
         BuildZone, BindSockets, BindRefused, WriteIntent, ApplyNothing, ApplyZone,
         WriteConfirmed, Publish, Reload, WatchStore, RewriteIntent, SaveRefused,
         RequestStop, WatchOwner, BeginStop, Unpublish, CloseSockets, RemovePolicy,
         MarkClean, ClearState, Kill, Goto, Alive
    <3>2. QED
      BY <3>1 DEF RestartInv, Sole, Alive
  <2>3. QED
    BY <2>1, <2>2
<1>3. Sole'
  BY <1>1, <1>2 DEF Sole, Alive
<1>4. ASSUME NEW e \in Daemons \ {d}
      PROVE  RunInv(e)'
  <2>1. \A r \in os'.rules : r \in os.rules \/ r.by = d
    BY StepGains DEF Gains
  <2>2. pc[e] = "stopped" => \A r \in os.rules : r.by # e
    BY DEF RestartInv, RunInv
  <2>3. pc'[e] = pc[e] /\ pc[e] \notin Running
    BY <1>1, <1>2
  <2>4. QED
    BY <2>1, <2>2, <2>3 DEF RunInv, Wiped, Zoned, Held
<1>5. QED
  BY <1>3, <1>4

LEMMA StepRestarts ==
    ASSUME TypeOK, TypeOK', OneByOne, RestartInv, NEW d \in Daemons, Step(d)
    PROVE  LinkOk(os') /\ CleanIsClean' /\ RulesAreListed' /\ RunInv(d)'
<1>. USE DEF Goto, machine, memory, Wiped, Zoned, Held, Applying
<1>0. /\ os \in Table
      /\ LinkOk(os)
      /\ CleanIsClean
      /\ RulesAreListed
      /\ RunInv(d)
      /\ zone[d] \in SUBSET Namespaces
      /\ draft[d] \in NetState
      /\ Faults = {}
  BY DEF TypeOK, RestartInv, OneByOne
<1>a. NoRules.rules = {} /\ NamespacesOf(NoRules.rules) = {} /\ LinkOk(NoRules)
  BY DEF NoRules, NamespacesOf, LinkOk
<1>1. CASE Launch(d)
  BY <1>0, <1>1 DEF TypeOK, Launch, CleanIsClean, RulesAreListed, Listed, RunInv
<1>2. CASE ReadLeftovers(d)
  <2>1. pc'[d] \in {"build_zone", "clear"} => os = NoRules
    <3>1. CASE netstate = None \/ netstate.clean
      BY <1>0, <3>1 DEF CleanIsClean
    <3>2. CASE ~(netstate = None \/ netstate.clean) /\ pc'[d] \in {"build_zone", "clear"}
      <4>1. netstate.pid # d /\ PidAlive(netstate.pid)
        BY <1>2, <3>2 DEF ReadLeftovers, TypeOK
      <4>2. Alive(netstate.pid) /\ Alive(d) /\ netstate.pid \in Daemons
        BY <1>0, <1>2, <3>2, <4>1
           DEF PidAlive, ReadLeftovers, Alive, Running, Starting, TypeOK, NetState
      <4>3. QED
        BY <4>1, <4>2 DEF RestartInv, Sole
    <3>3. QED
      BY <3>1, <3>2
  <2>2. pc'[d] \in {"build_zone", "clear", "remove_all"}
    BY <1>2 DEF ReadLeftovers, TypeOK
  <2>3. QED
    BY <1>0, <1>2, <2>1, <2>2 DEF ReadLeftovers, CleanIsClean, RulesAreListed, Listed, RunInv
<1>3. CASE SweepLeftovers(d)
  <2>1. os' = NoRules
    BY <1>0, <1>3, QuietRemoveAll DEF SweepLeftovers
  <2>2. QED
    BY <1>3, <1>a, <2>1 DEF TypeOK, SweepLeftovers, CleanIsClean, RulesAreListed, RunInv
<1>4. CASE ForgetLeftovers(d) \/ BuildZone(d) \/ BindSockets(d) \/ BindRefused(d)
  <2>1. os = NoRules /\ os' = os
    BY <1>0, <1>4 DEF RunInv, ForgetLeftovers, BuildZone, BindSockets, BindRefused
  <2>2. CleanIsClean' /\ RulesAreListed' /\ LinkOk(os')
    BY <1>a, <2>1 DEF CleanIsClean, RulesAreListed
  <2>3. store # {}
    BY DEF TypeOK, OneByOne
  <2>4. QED
    BY <1>0, <1>4, <2>1, <2>2, <2>3
       DEF TypeOK, RunInv, ForgetLeftovers, BuildZone, BindSockets, BindRefused
<1>5. CASE WriteIntent(d)
  <2>1. os = NoRules /\ os' = os /\ zone[d] # {}
    BY <1>0, <1>5 DEF RunInv, WriteIntent
  <2>2. /\ netstate' = Fresh(d, zone[d]) /\ draft'[d] = Fresh(d, zone[d])
        /\ pc'[d] = "apply_policy" /\ zone' = zone
    BY <1>5 DEF TypeOK, WriteIntent
  <2>3. ~Fresh(d, zone[d]).clean /\ Fresh(d, zone[d]).intent = zone[d]
    BY DEF Fresh
  <2>4. QED
    BY <1>a, <2>1, <2>2, <2>3 DEF CleanIsClean, RulesAreListed, RunInv
<1>6. CASE ApplyNothing(d)
  BY <1>0, <1>6 DEF ApplyNothing, RunInv
<1>7. CASE ApplyZone(d)
  <2>1. PICK o \in ApplyOutcomes(os, zone[d], d) :
            /\ os' = o.table
            /\ applied' = [applied EXCEPT
                              ![d] = IF o.ok THEN AppliedTo(zone[d]) ELSE NothingApplied]
    BY <1>7 DEF ApplyZone
  <2>2. /\ o.ok
        /\ NamespacesOf(os'.rules) = zone[d]
        /\ os'.link = (Mechanism = "systemd-resolved")
    BY <1>0, <2>1, QuietApply
  <2>3. applied'[d] = AppliedTo(zone[d])
    BY <2>1, <2>2 DEF TypeOK
  <2>4. /\ netstate' = netstate /\ netstate = draft[d] /\ draft' = draft /\ zone' = zone
        /\ pc'[d] = "write_confirmed" /\ zone[d] # {}
        /\ zone[d] \subseteq draft[d].intent /\ ~draft[d].clean
    BY <1>0, <1>7 DEF TypeOK, ApplyZone, RunInv
  <2>5. LinkOk(os')
    BY <2>2, PolicyAssumption DEF LinkOk
  <2>6. QED
    BY <1>0, <2>2, <2>3, <2>4, <2>5, NoneAssumption
       DEF CleanIsClean, RulesAreListed, Listed, RunInv
<1>8. CASE WriteConfirmed(d)
  <2>1. /\ netstate' = Confirmed(d) /\ os' = os /\ zone' = zone /\ applied' = applied
        /\ netstate = draft[d] /\ ~draft[d].clean
        /\ pc'[d] \in {"publish", "serving", "unpublish"}
    BY <1>0, <1>8 DEF TypeOK, WriteConfirmed, RunInv
  <2>2. Confirmed(d).intent = draft[d].intent /\ ~Confirmed(d).clean
    BY <1>0, <2>1 DEF Confirmed, NetState
  <2>3. Confirmed(d) # None
    <3>1. Confirmed(d) \in NetState
      <4>1. applied[d].namespaces \in SUBSET Namespaces /\ applied[d].links \in BOOLEAN
        BY DEF TypeOK, PolicyState
      <4>2. QED
        BY <1>0, <4>1, RecordEdits DEF Confirmed
    <3>2. QED
      BY <3>1, NoneAssumption
  <2>4. draft[d] # None
    BY <1>0, NoneAssumption
  <2>5. QED
    BY <1>0, <1>8, <2>1, <2>2, <2>3, <2>4
       DEF CleanIsClean, RulesAreListed, Listed, RunInv, WriteConfirmed
<1>9. CASE \/ Publish(d) \/ RequestStop(d) \/ WatchOwner(d) \/ BeginStop(d)
           \/ Unpublish(d) \/ CloseSockets(d) \/ (WatchStore(d) /\ zone[d] = store)
  <2>1. /\ os' = os /\ netstate' = netstate /\ zone' = zone /\ applied' = applied
        /\ draft' = draft
        /\ pc'[d] = pc[d] \/ (pc[d] \in Held /\ pc'[d] \in Held)
    BY <1>9 DEF TypeOK, Publish, RequestStop, WatchOwner, BeginStop, Unpublish,
                CloseSockets, WatchStore
  <2>2. QED
    BY <1>0, <2>1 DEF CleanIsClean, RulesAreListed, Listed, RunInv
<1>10. CASE Reload(d) \/ (WatchStore(d) /\ zone[d] # store)
  <2>1. /\ os' = os /\ netstate' = netstate /\ Recompile(d)
        /\ pc[d] \in Held
    BY <1>10 DEF Reload, WatchStore
  <2>2. /\ pc'[d] = "rewrite_intent" /\ zone'[d] = store
        /\ draft'[d] = [Recorded(d) EXCEPT !.intent = @ \cup store]
    BY <2>1 DEF TypeOK, Recompile
  <2>3. netstate # None /\ ~netstate.clean /\ Recorded(d) = netstate /\ netstate \in NetState
    BY <1>0, <2>1 DEF RunInv, Recorded, TypeOK
  <2>4. draft'[d].intent = netstate.intent \cup store /\ ~draft'[d].clean
    BY <2>2, <2>3 DEF NetState
  <2>5. NamespacesOf(os.rules) \subseteq netstate.intent
    BY <1>0, <2>3 DEF RulesAreListed, Listed
  <2>6. store # {}
    BY DEF TypeOK, OneByOne
  <2>7. QED
    BY <1>0, <2>1, <2>2, <2>4, <2>5, <2>6 DEF CleanIsClean, RulesAreListed, Listed, RunInv
<1>11. CASE RewriteIntent(d)
  <2>1. /\ netstate' = draft[d] /\ os' = os /\ zone' = zone /\ draft' = draft
        /\ pc[d] = "rewrite_intent" /\ pc'[d] = "apply_policy"
    BY <1>11 DEF TypeOK, RewriteIntent
  <2>2. draft[d] # None
    BY <1>0, NoneAssumption
  <2>3. QED
    BY <1>0, <2>1, <2>2 DEF CleanIsClean, RulesAreListed, Listed, RunInv
<1>12. CASE SaveRefused(d)
  BY <1>0, <1>12 DEF SaveRefused
<1>13. CASE RemovePolicy(d)
  <2>1. /\ applied[d] = AppliedTo(zone[d]) /\ zone[d] # {}
        /\ NamespacesOf(os.rules) = zone[d] /\ os.link = (Mechanism = "systemd-resolved")
    BY <1>0, <1>13 DEF RunInv, RemovePolicy
  <2>2. applied[d] # NothingApplied
    BY <2>1 DEF AppliedTo, NothingApplied
  <2>3. os' = NoRules
    BY <1>0, <1>13, <2>1, <2>2, QuietRemove DEF RemovePolicy
  <2>4. pc'[d] = "mark_clean"
    BY <1>13 DEF TypeOK, RemovePolicy
  <2>5. QED
    BY <1>a, <2>3, <2>4 DEF CleanIsClean, RulesAreListed, RunInv
<1>14. CASE MarkClean(d) \/ ClearState(d)
  <2>1. os = NoRules /\ os' = os /\ pc'[d] \in {"clear_state", "stopped"}
    BY <1>0, <1>14 DEF TypeOK, RunInv, MarkClean, ClearState
  <2>2. QED
    BY <1>a, <2>1 DEF CleanIsClean, RulesAreListed, RunInv
<1>15. CASE Kill(d)
  <2>1. os' \in LeftByDeath(d) /\ netstate' = netstate /\ pc'[d] = "killed"
    BY <1>15 DEF TypeOK, Kill
  <2>2. \/ os' \in ApplyPartway(os, zone[d], d)
        \/ os' \in RemovePartway(os, applied[d])
        \/ os' \in RemoveAllPartway(os)
        \/ os' = os
    BY <2>1 DEF LeftByDeath
  <2>3. LinkOk(os')
    BY <1>0, <2>2, LinkKept
  <2>4. NamespacesOf(os'.rules) \subseteq Listed
    <3>1. CASE os'.rules \subseteq os.rules
      BY <1>0, <3>1, NamesOfRules DEF RulesAreListed
    <3>2. CASE pc[d] = "apply_policy" /\ Gains(os, os', zone[d], d)
      <4>1. netstate = draft[d] /\ zone[d] \subseteq netstate.intent
        BY <1>0, <3>2 DEF RunInv
      <4>2. Listed = netstate.intent
        BY <1>0, <4>1, NoneAssumption DEF Listed
      <4>3. \A r \in os'.rules : r.ns \in Listed
        BY <1>0, <3>2, <4>1, <4>2 DEF Gains, RulesAreListed, NamespacesOf
      <4>4. QED
        BY <4>3 DEF NamespacesOf
    <3>3. QED
      BY <3>1, <3>2, StepGains
  <2>5. ASSUME netstate = None \/ netstate.clean
        PROVE  os' = NoRules
    <3>1. os = NoRules
      BY <1>0, <2>5 DEF CleanIsClean
    <3>2. ~(pc[d] = "apply_policy")
      BY <1>0, <2>5, NoneAssumption DEF RunInv
    <3>3. os'.rules = {}
      BY <1>a, <3>1, <3>2, StepGains
    <3>4. ~os.link
      BY <3>1 DEF NoRules
    <3>5. pc[d] # "policy_remove"
      BY <1>0, <2>5 DEF RunInv
    <3>6. os' \in RemoveAllPartway(os) \/ os' = os
      BY <2>1, <3>2, <3>5 DEF LeftByDeath
    <3>7. os' = NoRules
      <4>1. CASE os' = os
        BY <3>1, <4>1
      <4>2. CASE os' \in RemoveAllPartway(os)
        <5>1. os'.link = os.link /\ os' \in Table
          BY <1>0, <4>2, RemoveAllShrinks
             DEF RemoveAllPartway, NrptRemovedPartway, ResolvedRemovedPartway, Table, Shrinks
        <5>2. QED
          BY <3>3, <3>4, <5>1, EmptyTable
      <4>3. QED
        BY <3>6, <4>1, <4>2
    <3>8. QED
      BY <3>7
  <2>6. QED
    BY <2>1, <2>3, <2>4, <2>5 DEF CleanIsClean, RulesAreListed, Listed, RunInv
<1>16. QED
  BY <1>1, <1>2, <1>3, <1>4, <1>5, <1>6, <1>7, <1>8, <1>9, <1>10, <1>11, <1>12, <1>13,
     <1>14, <1>15
     DEF Step, Proceed

LEMMA RestartInvariant ==
    ASSUME OneByOne PROVE Spec => []RestartInv
<1>. USE DEF Running, Starting, Applying, Stopping, Ended, Wiped, Zoned, Held
<1>1. Init => RestartInv
  <2>1. NamespacesOf({}) = {}
    BY DEF NamespacesOf
  <2>2. QED
    BY <2>1 DEF Init, RestartInv, Sole, LinkOk, CleanIsClean, RulesAreListed, Listed, RunInv,
                Alive, NoRules
<1>2. TypeOK /\ TypeOK' /\ RestartInv /\ [Next]_vars => RestartInv'
  <2>. SUFFICES ASSUME TypeOK, TypeOK', RestartInv, [Next]_vars PROVE RestartInv'
    OBVIOUS
  <2>1. CASE \E d \in Daemons : Step(d)
    BY <2>1, StepOthers, StepRestarts DEF RestartInv
  <2>2. CASE EditStore \/ OwnerDies \/ UNCHANGED vars
    <3>1. /\ os' = os /\ netstate' = netstate /\ pc' = pc /\ zone' = zone
          /\ draft' = draft /\ applied' = applied
      BY <2>2 DEF EditStore, OwnerDies, vars, machine, memory
    <3>2. QED
      BY <3>1 DEF RestartInv, Sole, CleanIsClean, RulesAreListed, Listed, RunInv, Alive
  <2>3. QED
    BY <2>1, <2>2 DEF Next
<1>3. QED
  BY <1>1, <1>2, TypeCorrect, PTL DEF Spec

\* With one run at a time, the record names every namespace a rule of ours exists for,
\* at every moment a crash can come, for any number of runs and any set of names.
THEOREM RecordNamesEveryRule ==
    ASSUME OneByOne PROVE Spec => []RulesAreListed
<1>1. RestartInv => RulesAreListed
  BY DEF RestartInv
<1>2. QED
  BY <1>1, RestartInvariant, PTL

\* Whatever the runs before it left, and wherever they died, a run that goes on to build
\* its zone and bind starts from a machine with nothing of ours on it.
THEOREM EveryStartIsClean ==
    ASSUME OneByOne PROVE Spec => []StartsClean
<1>1. RestartInv => StartsClean
  BY DEF RestartInv, RunInv, StartsClean, Wiped
<1>2. QED
  BY <1>1, RestartInvariant, PTL

\* stop() puts the machine back, and no later run brings a rule of a stopped one to life.
THEOREM StopAlwaysPutsBack ==
    ASSUME OneByOne PROVE Spec => []StopPutsBack
<1>1. RestartInv => StopPutsBack
  BY DEF RestartInv, RunInv, StopPutsBack
<1>2. QED
  BY <1>1, RestartInvariant, PTL

\* What a serving run resolves is what the machine sends to it: no name less, none more.
THEOREM ServedIsAlwaysClaimed ==
    ASSUME OneByOne PROVE Spec => []ServedIsClaimed
<1>1. RestartInv => ServedIsClaimed
  BY DEF RestartInv, RunInv, ServedIsClaimed, Held
<1>2. QED
  BY <1>1, RestartInvariant, PTL
=============================================================================
