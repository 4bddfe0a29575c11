---------------------------- MODULE RepairProofs ----------------------------
(***************************************************************************)
(* Proofs about Repair, for every set of namespaces and runs, both         *)
(* mechanisms, with or without overlap and reboots, whatever the store     *)
(* compiles to, and for every fault that a theorem does not exclude.       *)
(***************************************************************************)
EXTENDS Repair, RunnerProofs

-----------------------------------------------------------------------------
(* Types. *)

LEMMA NamedTyped == ASSUME TypeOK PROVE NamedInRecord \in PolicyState
<1>1. CASE netstate = None
  BY <1>1 DEF NamedInRecord, NothingApplied, PolicyState
<1>2. CASE netstate # None
  <2>1. netstate \in NetState
    BY <1>2 DEF TypeOK
  <2>2. netstate.confirmed \cup netstate.intent \in SUBSET Namespaces /\ netstate.links \in BOOLEAN
    BY <2>1 DEF NetState
  <2>3. QED
    BY <1>2, <2>2 DEF NamedInRecord, PolicyState
<1>3. QED
  BY <1>1, <1>2

\* Every table a removal of repair() can leave.
LEMMA RemovalsTyped ==
    ASSUME TypeOK
    PROVE  /\ \A o \in RemoveOutcomes(os, wanted) : o.ok \in BOOLEAN /\ o.table \in Table
           /\ \A o \in RemoveAllOutcomes(os) : o.ok \in BOOLEAN /\ o.table \in Table
           /\ \A left \in RemovePartway(os, wanted) : left \in Table
           /\ \A left \in RemoveAllPartway(os) : left \in Table
<1>1. os \in Table
  BY DEF TypeOK
<1>2. \A o \in RemoveAllOutcomes(os) : o.ok \in BOOLEAN
  <2>1. \A o \in RemoveOutcomes(os, [namespaces |-> {}, links |-> TRUE]) : o.ok \in BOOLEAN
    BY <1>1, RemoveShrinks
  <2>2. ASSUME NEW o, NEW left, o = Outcome(TRUE, left) PROVE o.ok \in BOOLEAN
    BY <2>2 DEF Outcome
  <2>3. QED
    BY <2>1, <2>2 DEF RemoveAllOutcomes
<1>3. QED
  BY <1>1, <1>2, RemoveShrinks, RemoveAllShrinks DEF Shrinks

\* The steps of repair() and what cuts it short.
LEMMA RepairStepTyped ==
    ASSUME RepairTypeOK, RepairStep \/ RepairKilled
    PROVE  RepairTypeOK'
<1>. USE DEF InRepair, memory
<1>0. TypeOK /\ NothingApplied \in PolicyState
  BY DEF RepairTypeOK, NothingApplied, PolicyState
<1>1. CASE ReadRecord
  <2>1. NamedInRecord \in PolicyState
    BY <1>0, NamedTyped
  <2>2. NoneAlive \in BOOLEAN
    BY DEF NoneAlive
  <2>3. TypeOK'
    BY <1>0, <1>1 DEF ReadRecord, TypeOK, vars, machine
  <2>4. QED
    BY <1>1, <2>1, <2>2, <2>3 DEF RepairTypeOK, ReadRecord
<1>2. CASE RemoveRecorded
  <2>1. PICK o \in RemoveOutcomes(os, wanted) : os' = o.table /\ failures' = ~o.ok
    BY <1>2 DEF RemoveRecorded
  <2>2. os' \in Table
    BY <1>0, <2>1, RemovalsTyped
  <2>3. TypeOK'
    BY <1>0, <1>2, <2>2 DEF RemoveRecorded, TypeOK
  <2>4. QED
    BY <1>2, <2>1, <2>3 DEF RepairTypeOK, RemoveRecorded
<1>3. CASE RemoveMarked
  <2>1. PICK o \in RemoveAllOutcomes(os) : os' = o.table /\ failures' = (failures \/ ~o.ok)
    BY <1>3 DEF RemoveMarked
  <2>2. os' \in Table
    BY <1>0, <2>1, RemovalsTyped
  <2>3. TypeOK'
    BY <1>0, <1>3, <2>2 DEF RemoveMarked, TypeOK
  <2>4. QED
    BY <1>3, <2>1, <2>3 DEF RepairTypeOK, RemoveMarked
<1>4. CASE ClearRecord
  <2>1. TypeOK'
    BY <1>0, <1>4 DEF ClearRecord, TypeOK
  <2>2. QED
    BY <1>4, <2>1 DEF RepairTypeOK, ClearRecord
<1>5. CASE UnlinkDaemonFile
  <2>1. TypeOK'
    BY <1>0, <1>5 DEF UnlinkDaemonFile, TypeOK
  <2>2. QED
    BY <1>5, <2>1 DEF RepairTypeOK, UnlinkDaemonFile
<1>6. CASE RepairKilled
  <2>1. os' \in Table
    <3>1. os \in Table
      BY <1>0 DEF TypeOK
    <3>2. QED
      BY <1>0, <1>6, <3>1, RemovalsTyped DEF RepairKilled
  <2>2. TypeOK'
    BY <1>0, <1>6, <2>1 DEF RepairKilled, TypeOK
  <2>3. QED
    BY <1>0, <1>6, <2>2 DEF RepairTypeOK, RepairKilled
<1>7. QED
  BY <1>1, <1>2, <1>3, <1>4, <1>5, <1>6 DEF RepairStep

LEMMA RebootTyped ==
    ASSUME RepairTypeOK, Reboot
    PROVE  RepairTypeOK'
<1>0. NothingApplied \in PolicyState /\ NoRules \in Table
  BY DEF NothingApplied, PolicyState, NoRules, Table
<1>1. \A d \in Daemons : Fresh(d, {}) \in NetState
  BY FreshTyped
<1>2. TypeOK'
  <2>1. os' \in Table
    BY <1>0 DEF Reboot, RepairTypeOK, TypeOK
  <2>2. pc' \in [Daemons -> {"new"} \cup Running \cup Ended]
    BY DEF Reboot, RepairTypeOK, TypeOK, Ended
  <2>3. draft' \in [Daemons -> NetState]
    BY <1>1 DEF Reboot
  <2>4. /\ zone' \in [Daemons -> SUBSET Namespaces]
        /\ applied' \in [Daemons -> PolicyState]
        /\ policyError' \in [Daemons -> BOOLEAN]
        /\ resume' \in [Daemons -> {"publish", "serving", "unpublish"}]
        /\ stop' \in [Daemons -> BOOLEAN]
        /\ seen' \in [Daemons -> BOOLEAN]
    BY <1>0 DEF Reboot
  <2>5. QED
    BY <2>1, <2>2, <2>3, <2>4 DEF Reboot, RepairTypeOK, TypeOK
<1>3. QED
  BY <1>0, <1>2 DEF Reboot, RepairTypeOK

\* Repair, too, keeps every file and every process at a value the code can hold.
THEOREM RepairTypeCorrect == RepairSpec => []RepairTypeOK
<1>1. RepairInit => RepairTypeOK
  <2>1. NothingApplied \in PolicyState
    BY DEF NothingApplied, PolicyState
  <2>2. QED
    BY <2>1, InitTyped DEF RepairInit, RepairTypeOK
<1>2. RepairTypeOK /\ [RepairNext]_allVars => RepairTypeOK'
  <2>. SUFFICES ASSUME RepairTypeOK, [RepairNext]_allVars PROVE RepairTypeOK'
    OBVIOUS
  <2>1. CASE RepairStep \/ RepairKilled
    BY <2>1, RepairStepTyped
  <2>2. CASE RunnerMoves
    <3>1. TypeOK'
      <4>1. CASE \E d \in Daemons : Step(d)
        BY <4>1, StepTyped DEF RepairTypeOK
      <4>2. CASE EditStore
        BY <4>2 DEF RepairTypeOK, TypeOK, EditStore
      <4>3. CASE OwnerDies
        BY <4>3 DEF RepairTypeOK, TypeOK, OwnerDies, memory
      <4>4. QED
        BY <2>2, <4>1, <4>2, <4>3 DEF RunnerMoves, Next
    <3>2. QED
      BY <2>2, <3>1 DEF RunnerMoves, RepairTypeOK
  <2>3. CASE Reboot
    BY <2>3, RebootTyped
  <2>4. CASE UNCHANGED allVars
    BY <2>4 DEF allVars, repairVars, vars, machine, memory, RepairTypeOK, TypeOK
  <2>5. QED
    BY <2>1, <2>2, <2>3, <2>4 DEF RepairNext
<1>3. QED
  BY <1>1, <1>2, PTL DEF RepairSpec

-----------------------------------------------------------------------------
(* A repair that succeeds. *)

\* What reporting success rests on: whatever was interrupted before, the link is what the
\* rules need, so the removal by marker finds all of them; and from there on, while no
\* daemon lives, nothing brings back what has been undone.
CleaningInv ==
    /\ LinkOk(os)
    /\ undisturbed =>
          /\ NoneAlive
          /\ repairing \in {"clear", "unlink", "exit 0"} => os = NoRules
          /\ repairing \in {"unlink", "exit 0"} => netstate = None
          /\ repairing = "exit 0" => daemonFile = None

\* Only a living process takes a step, or one that is launched by it.
LEMMA StepAlive ==
    ASSUME NEW d \in Daemons, Step(d), TypeOK
    PROVE  pc[d] \in Running \/ pc'[d] \in Running
<1>. USE DEF Running, Starting, Applying, Stopping, Goto
<1>1. CASE Launch(d)
  BY <1>1 DEF Launch, TypeOK
<1>2. CASE ~Launch(d)
  BY <1>2 DEF Step, Proceed, ReadLeftovers, SweepLeftovers, ForgetLeftovers,
     BuildZone, BindSockets, BindRefused, WriteIntent, ApplyNothing, ApplyZone,
     WriteConfirmed, Publish, Reload, WatchStore, RewriteIntent, SaveRefused,
     RequestStop, WatchOwner, BeginStop, Unpublish, CloseSockets, RemovePolicy,
     MarkClean, ClearState, Kill, Alive
<1>3. QED
  BY <1>1, <1>2

\* A removal that ends, well or not, leaves the link what the rules need.
LEMMA RemovedLinkOk ==
    ASSUME NEW table \in Table, LinkOk(table)
    PROVE  /\ \A state : \A o \in RemoveOutcomes(table, state) : LinkOk(o.table)
           /\ \A o \in RemoveAllOutcomes(table) : LinkOk(o.table)
<1>1. ASSUME NEW ok, NEW left, NEW o, o = Outcome(ok, left), LinkOk(left)
      PROVE  LinkOk(o.table)
  BY <1>1 DEF Outcome
<1>2. LinkOk(NoRules)
  BY DEF LinkOk, NoRules
<1>3. \A names : LinkOk([table EXCEPT !.rules = Without(@, names)])
  BY DEF LinkOk, Table, Without
<1>4. LinkOk([table EXCEPT !.rules = {}])
  BY DEF LinkOk, Table
<1>5. ASSUME NEW state, NEW o \in RemoveOutcomes(table, state)
      PROVE  LinkOk(o.table)
  <2>1. \A left \in RemovePartway(table, state) : LinkOk(left)
    BY LinkKept
  <2>2. CASE \E ok \in RemovalReports :
                 o \in {Outcome(ok, left) : left \in RemovePartway(table, state)}
    BY <1>1, <2>1, <2>2
  <2>3. CASE \A ok \in RemovalReports :
                 o \notin {Outcome(ok, left) : left \in RemovePartway(table, state)}
    <3>1. \/ o = Outcome(TRUE, [table EXCEPT !.rules = Without(@, state.namespaces)])
          \/ o = Outcome(TRUE, table)
          \/ o = Outcome(FALSE, table)
          \/ o = Outcome(TRUE, NoRules)
      BY <1>5, <2>3 DEF RemoveOutcomes
    <3>2. PICK ok, left : o = Outcome(ok, left) /\ LinkOk(left)
      BY <1>2, <1>3, <3>1
    <3>3. QED
      BY <1>1, <3>2
  <2>4. QED
    BY <2>2, <2>3
<1>6. ASSUME NEW o \in RemoveAllOutcomes(table)
      PROVE  LinkOk(o.table)
  <2>1. CASE o \in RemoveOutcomes(table, [namespaces |-> {}, links |-> TRUE])
    BY <1>5, <2>1
  <2>2. CASE o \notin RemoveOutcomes(table, [namespaces |-> {}, links |-> TRUE])
    <3>1. \A left \in NrptRemovedPartway(table, Namespaces) : LinkOk(left)
      BY <1>3 DEF NrptRemovedPartway
    <3>2. QED
      BY <1>1, <1>4, <1>6, <2>2, <3>1 DEF RemoveAllOutcomes
  <2>3. QED
    BY <2>1, <2>2
<1>7. QED
  BY <1>5, <1>6

\* No step of a run leaves rules without the link that carries them.
LEMMA StepKeepsLink ==
    ASSUME TypeOK, LinkOk(os), NEW d \in Daemons, Step(d)
    PROVE  LinkOk(os')
<1>0. os \in Table /\ zone[d] \in SUBSET Namespaces
  BY DEF TypeOK
<1>1. CASE SweepLeftovers(d)
  BY <1>0, <1>1, RemovedLinkOk DEF SweepLeftovers
<1>2. CASE ApplyZone(d)
  BY <1>0, <1>2, AppliedIsPartway, LinkKept DEF ApplyZone
<1>3. CASE RemovePolicy(d)
  BY <1>0, <1>3, RemovedLinkOk DEF RemovePolicy
<1>4. CASE Kill(d)
  BY <1>0, <1>4, LinkKept DEF Kill, LeftByDeath
<1>5. ASSUME ~SweepLeftovers(d), ~ApplyZone(d), ~RemovePolicy(d), ~Kill(d)
      PROVE  os' = os
  BY <1>5 DEF Step, Proceed, Launch, ReadLeftovers, ForgetLeftovers,
         BuildZone, BindSockets, BindRefused, WriteIntent, ApplyNothing,
         WriteConfirmed, Publish, Reload, WatchStore, RewriteIntent, SaveRefused,
         RequestStop, WatchOwner, BeginStop, Unpublish, CloseSockets, MarkClean, ClearState,
         machine
<1>6. QED
  BY <1>1, <1>2, <1>3, <1>4, <1>5

LEMMA RunnerMovesClean ==
    ASSUME RepairTypeOK, CleaningInv, RunnerMoves
    PROVE  CleaningInv'
<1>1. CASE \E d \in Daemons : Step(d)
  <2>1. PICK d \in Daemons : Step(d)
    BY <1>1
  <2>2. LinkOk(os')
    BY <2>1, StepKeepsLink DEF RepairTypeOK, CleaningInv
  <2>3. ~undisturbed'
    <3>1. undisturbed => pc[d] \notin Running
      BY DEF CleaningInv, NoneAlive, Alive
    <3>2. pc'[d] \in Running \/ pc[d] \in Running
      BY <2>1, StepAlive DEF RepairTypeOK
    <3>3. QED
      BY <3>1, <3>2 DEF RunnerMoves
  <2>4. QED
    BY <2>2, <2>3 DEF CleaningInv, LinkOk
<1>2. CASE EditStore \/ OwnerDies
  BY <1>2 DEF EditStore, OwnerDies, RunnerMoves, CleaningInv, NoneAlive, Alive, LinkOk
<1>3. QED
  BY <1>1, <1>2 DEF RunnerMoves, Next

\* A repair that reports success while no daemon has lived since it began has left
\* nothing of ours, whatever was killed, refused, overtaken or rebooted before it, as
\* long as removals do what they report: the one fault under which it is not so.
THEOREM RepairAlwaysCleans ==
    ASSUME "remove" \notin Faults
    PROVE  RepairSpec => []RepairedIsClean
<1>1. RepairInit => CleaningInv
  BY DEF RepairInit, Init, CleaningInv, LinkOk, NoRules
<1>2. RepairTypeOK /\ CleaningInv /\ [RepairNext]_allVars => CleaningInv'
  <2>. SUFFICES ASSUME RepairTypeOK, CleaningInv, [RepairNext]_allVars
                PROVE  CleaningInv'
    OBVIOUS
  <2>0. os \in Table /\ LinkOk(os)
    BY DEF RepairTypeOK, TypeOK, CleaningInv
  <2>1. CASE ReadRecord
    BY <2>1 DEF ReadRecord, CleaningInv, NoneAlive, Alive, LinkOk, vars, machine
  <2>2. CASE RemoveRecorded
    <3>1. LinkOk(os')
      BY <2>0, <2>2, RemovedLinkOk DEF RemoveRecorded
    <3>2. QED
      BY <2>2, <3>1 DEF RemoveRecorded, CleaningInv, NoneAlive, Alive, LinkOk
  <2>3. CASE RemoveMarked
    <3>1. os' = NoRules
      BY <2>0, <2>3, QuietRemoveAll DEF RemoveMarked
    <3>2. QED
      BY <2>3, <3>1 DEF RemoveMarked, CleaningInv, NoneAlive, Alive, LinkOk, NoRules
  <2>4. CASE ClearRecord
    BY <2>4 DEF ClearRecord, CleaningInv, NoneAlive, Alive, LinkOk
  <2>5. CASE UnlinkDaemonFile
    BY <2>5 DEF UnlinkDaemonFile, CleaningInv, NoneAlive, Alive, LinkOk
  <2>6. CASE RepairKilled
    <3>1. LinkOk(os')
      BY <2>0, <2>6, LinkKept DEF RepairKilled
    <3>2. QED
      BY <2>6, <3>1 DEF RepairKilled, CleaningInv, LinkOk
  <2>7. CASE RunnerMoves
    BY <2>7, RunnerMovesClean
  <2>8. CASE Reboot
    BY <2>0, <2>8 DEF Reboot, CleaningInv, LinkOk, NoRules
  <2>9. CASE UNCHANGED allVars
    BY <2>9 DEF allVars, repairVars, vars, machine, CleaningInv, NoneAlive, Alive, LinkOk
  <2>10. QED
    BY <2>1, <2>2, <2>3, <2>4, <2>5, <2>6, <2>7, <2>8, <2>9 DEF RepairNext, RepairStep
<1>3. CleaningInv => RepairedIsClean
  BY DEF CleaningInv, RepairedIsClean
<1>4. QED
  BY <1>1, <1>2, <1>3, RepairTypeCorrect, PTL DEF RepairSpec
=============================================================================
