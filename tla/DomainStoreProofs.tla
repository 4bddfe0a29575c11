------------------------- MODULE DomainStoreProofs -------------------------
(***************************************************************************)
(* Proofs about DomainStore, for every set of clients, changes and lists   *)
(* of domains, every effect a change may have, and every bound.            *)
(***************************************************************************)
EXTENDS DomainStore, FiniteSetTheorems, TLAPS

USE StoreAssumption

-----------------------------------------------------------------------------
(* Types. *)

LEMMA FileParts ==
    ASSUME NEW f \in Files
    PROVE  /\ f.schema \in Schemas
           /\ f.domains \in Contents
           /\ [f EXCEPT !.schema = "newer"] \in Files
           /\ [f EXCEPT !.schema = "newer"].schema = "newer"
           /\ [f EXCEPT !.schema = "newer"].domains = f.domains
BY DEF Files, Schemas

LEMMA FileOf ==
    ASSUME NEW s \in Schemas, NEW d \in Contents
    PROVE  LET f == [schema |-> s, domains |-> d]
           IN  f \in Files /\ f.schema = s /\ f.domains = d
BY DEF Files

LEMMA LoadedTyped ==
    ASSUME file \in Files, NEW seen \in Loaded
    PROVE  /\ seen \in Files
           /\ seen.domains \in Contents
           /\ "read" \notin Faults => seen = file
<1>1. Blank \in Files
  BY FileOf DEF Blank, Schemas
<1>2. seen \in Files
  BY <1>1 DEF Loaded
<1>3. QED
  BY <1>2, FileParts DEF Loaded

LEMMA RotatedTyped ==
    ASSUME StoreTypeOK, NEW after \in Rotated
    PROVE  after \subseteq Backups
<1>1. [second |-> now, file |-> file] \in Backups
  BY DEF StoreTypeOK, Backups
<1>2. WithCopy(now) \subseteq Backups
  BY <1>1 DEF WithCopy, StoreTypeOK
<1>3. Pruned(WithCopy(now)) \subseteq Backups
  BY <1>2 DEF Pruned
<1>4. QED
  BY <1>3 DEF Rotated, StoreTypeOK

LEMMA ReturnTyped ==
    ASSUME StoreTypeOK, NEW p \in Clients, Return(p)
    PROVE  /\ pc' \in [Clients -> Steps]
           /\ change' \in [Clients -> Changes \union {NoChange}]
           /\ snapshot' \in [Clients -> Contents]
           /\ stamp' \in [Clients -> 0 .. MaxSecond]
BY DEF StoreTypeOK, Return, Steps

LEMMA StoreTypeInit == Init => StoreTypeOK
<1>1. Blank \in Files
  BY FileOf DEF Blank, Schemas
<1>2. Init => file \in Files
  BY <1>1 DEF Init, Files
<1>3. QED
  BY <1>2 DEF Init, StoreTypeOK, Steps

\* A call under way knows what it was asked; a call that has ended does not.
Asked ==
    \A p \in Clients :
        IF pc[p] = "idle" THEN change[p] = NoChange ELSE change[p] \in Changes

LEMMA StoreTypeStep ==
    ASSUME StoreTypeOK, Asked, [Next]_vars
    PROVE  StoreTypeOK'
<1>. USE DEF StoreTypeOK
<1>1. ASSUME NEW p \in Clients, NEW c \in Changes, Begin(p, c)
      PROVE  StoreTypeOK'
  BY <1>1 DEF Begin, Steps
<1>2. ASSUME NEW p \in Clients, Acquire(p)
      PROVE  StoreTypeOK'
  BY <1>2 DEF Acquire, Steps, Holding
<1>3. ASSUME NEW p \in Clients, GiveUp(p)
      PROVE  StoreTypeOK'
  BY <1>3, ReturnTyped DEF GiveUp
<1>4. ASSUME NEW p \in Clients, ChangeRefused(p) \/ ChangeNothing(p) \/ ReplaceFails(p)
      PROVE  StoreTypeOK'
  BY <1>4 DEF ChangeRefused, ChangeNothing, ReplaceFails, Ends, Steps, Holding
<1>5. ASSUME NEW p \in Clients, ChangeSomething(p)
      PROVE  StoreTypeOK'
  <2>0. change[p] \in Changes
    BY <1>5 DEF ChangeSomething, Asked
  <2>1. snapshot' \in [Clients -> Contents]
    BY <1>5, <2>0, LoadedTyped DEF ChangeSomething
  <2>2. pc' \in [Clients -> Steps]
    BY <1>5 DEF ChangeSomething, Goes, Steps, Holding
  <2>3. QED
    BY <1>5, <2>1, <2>2 DEF ChangeSomething, Goes
<1>6. ASSUME NEW p \in Clients, Rotate(p)
      PROVE  StoreTypeOK'
  <2>1. backups' \subseteq Backups
    BY <1>6, RotatedTyped DEF Rotate
  <2>2. pc' \in [Clients -> Steps] /\ stamp' \in [Clients -> 0 .. MaxSecond]
    BY <1>6 DEF Rotate, Goes, Steps, Holding
  <2>3. QED
    BY <1>6, <2>1, <2>2 DEF Rotate, Goes
<1>7. ASSUME NEW p \in Clients, Replace(p)
      PROVE  StoreTypeOK'
  <2>1. file' \in Files
    BY <1>7, FileOf DEF Replace, Schemas
  <2>2. QED
    BY <1>7, <2>1 DEF Replace, Ends, Steps, Holding
<1>8. ASSUME NEW p \in Clients, Unlock(p) \/ Kill(p)
      PROVE  StoreTypeOK'
  BY <1>8, ReturnTyped DEF Unlock, Kill
<1>9. CASE Tick
  BY <1>9 DEF Tick, Seconds
<1>10. CASE NewerBuild
  BY <1>10, FileParts DEF NewerBuild
<1>11. CASE UNCHANGED vars
  BY <1>11 DEF vars
<1>12. QED
  BY <1>1, <1>2, <1>3, <1>4, <1>5, <1>6, <1>7, <1>8, <1>9, <1>10, <1>11
     DEF Next, CallStep
-----------------------------------------------------------------------------
(* Whoever is past the lock has it, and nobody else does. *)

OneHolder == \A p \in Clients : pc[p] \in Holding <=> lock = p

LEMMA AskedStep ==
    ASSUME StoreTypeOK, Asked, [Next]_vars
    PROVE  Asked'
<1>. USE DEF StoreTypeOK, Asked
<1>1. ASSUME NEW p \in Clients, NEW c \in Changes, Begin(p, c)
      PROVE  Asked'
  BY <1>1 DEF Begin
<1>2. ASSUME NEW p \in Clients, CallStep(p)
      PROVE  Asked'
  <2>1. CASE GiveUp(p) \/ Unlock(p)
    BY <2>1 DEF GiveUp, Unlock, Return
  <2>2. CASE Acquire(p)
    BY <2>2 DEF Acquire
  <2>3. CASE ChangeRefused(p) \/ ChangeNothing(p) \/ ChangeSomething(p)
    BY <2>3 DEF ChangeRefused, ChangeNothing, ChangeSomething, Ends, Goes
  <2>4. CASE Rotate(p) \/ Replace(p) \/ ReplaceFails(p)
    BY <2>4 DEF Rotate, Replace, ReplaceFails, Ends, Goes
  <2>5. QED
    BY <1>2, <2>1, <2>2, <2>3, <2>4 DEF CallStep
<1>3. ASSUME NEW p \in Clients, Kill(p)
      PROVE  Asked'
  BY <1>3 DEF Kill, Return
<1>4. CASE Tick \/ NewerBuild \/ UNCHANGED vars
  BY <1>4 DEF Tick, NewerBuild, vars
<1>5. QED
  BY <1>1, <1>2, <1>3, <1>4 DEF Next

LEMMA OneHolderStep ==
    ASSUME StoreTypeOK, OneHolder, [Next]_vars
    PROVE  OneHolder'
<1>. USE DEF StoreTypeOK, OneHolder, Holding
<1>1. ASSUME NEW p \in Clients, NEW c \in Changes, Begin(p, c)
      PROVE  OneHolder'
  BY <1>1 DEF Begin
<1>2. ASSUME NEW p \in Clients, CallStep(p)
      PROVE  OneHolder'
  <2>1. CASE GiveUp(p)
    BY <2>1 DEF GiveUp, Return
  <2>2. CASE Unlock(p)
    BY <2>2 DEF Unlock, Return
  <2>3. CASE Acquire(p)
    BY <2>3 DEF Acquire
  <2>4. CASE ChangeRefused(p) \/ ChangeNothing(p) \/ ChangeSomething(p)
    BY <2>4 DEF ChangeRefused, ChangeNothing, ChangeSomething, Ends, Goes
  <2>5. CASE Rotate(p) \/ Replace(p) \/ ReplaceFails(p)
    BY <2>5 DEF Rotate, Replace, ReplaceFails, Ends, Goes
  <2>6. QED
    BY <1>2, <2>1, <2>2, <2>3, <2>4, <2>5 DEF CallStep
<1>3. ASSUME NEW p \in Clients, Kill(p)
      PROVE  OneHolder'
  BY <1>3 DEF Kill, Return
<1>4. CASE Tick \/ NewerBuild \/ UNCHANGED vars
  BY <1>4 DEF Tick, NewerBuild, vars
<1>5. QED
  BY <1>1, <1>2, <1>3, <1>4 DEF Next

(* The part of the inductive invariant that holds whatever goes wrong. *)
LockInv == StoreTypeOK /\ Asked /\ OneHolder

LEMMA LockInvariant == Spec => []LockInv
<1>1. Init => LockInv
  BY StoreTypeInit DEF Init, LockInv, Asked, OneHolder, Holding
<1>2. LockInv /\ [Next]_vars => LockInv'
  BY StoreTypeStep, AskedStep, OneHolderStep DEF LockInv
<1>3. QED
  BY <1>1, <1>2, PTL DEF Spec

(* Every variable of the store keeps its type, whatever fails and whoever  *)
(* dies (store.py:DomainStore.mutate).                                     *)
THEOREM StoreTypeCorrect == Spec => []StoreTypeOK
BY LockInvariant, PTL DEF LockInv

-----------------------------------------------------------------------------
(* What is about to be written is fresh: nobody can have changed the file  *)
(* since it was read, because nobody else is past the lock. *)

LEMMA SnapshotStep ==
    ASSUME LockInv, "read" \notin Faults, SnapshotIsFresh, [Next]_vars
    PROVE  SnapshotIsFresh'
<1>. USE DEF LockInv, StoreTypeOK, SnapshotIsFresh
<1>1. ASSUME NEW p \in Clients, NEW c \in Changes, Begin(p, c)
      PROVE  SnapshotIsFresh'
  BY <1>1 DEF Begin
<1>2. ASSUME NEW p \in Clients, CallStep(p)
      PROVE  SnapshotIsFresh'
  <2>1. CASE GiveUp(p) \/ Unlock(p)
    BY <2>1 DEF GiveUp, Unlock, Return
  <2>2. CASE Acquire(p)
    BY <2>2 DEF Acquire
  <2>3. CASE ChangeRefused(p) \/ ChangeNothing(p) \/ ReplaceFails(p)
    BY <2>3 DEF ChangeRefused, ChangeNothing, ReplaceFails, Ends
  <2>4. CASE ChangeSomething(p)
    BY <2>4, LoadedTyped DEF ChangeSomething, Goes
  <2>5. CASE Rotate(p)
    BY <2>5 DEF Rotate, Goes
  <2>6. CASE Replace(p)
    <3>1. \A q \in Clients : pc[q] \in Holding => q = p
      BY <2>6 DEF Replace, OneHolder, Holding
    <3>2. \A q \in Clients : pc'[q] \notin {"rotate", "replace"}
      BY <2>6, <3>1 DEF Replace, Ends, Holding
    <3>3. QED
      BY <3>2
  <2>7. QED
    BY <1>2, <2>1, <2>2, <2>3, <2>4, <2>5, <2>6 DEF CallStep
<1>3. ASSUME NEW p \in Clients, Kill(p)
      PROVE  SnapshotIsFresh'
  BY <1>3 DEF Kill, Return
<1>4. CASE NewerBuild
  <2>1. \A q \in Clients : pc[q] \notin Holding
    BY <1>4 DEF NewerBuild, OneHolder
  <2>2. QED
    BY <1>4, <2>1 DEF NewerBuild, Holding
<1>5. CASE Tick \/ UNCHANGED vars
  BY <1>5 DEF Tick, vars
<1>6. QED
  BY <1>1, <1>2, <1>3, <1>4, <1>5 DEF Next

(* What a call is about to write is its change applied to the file that is *)
(* still there, as long as the file can be read (store.py:1-10).           *)
THEOREM SnapshotStaysFresh ==
    ASSUME "read" \notin Faults
    PROVE  Spec => []SnapshotIsFresh
<1>1. Init => SnapshotIsFresh
  BY DEF Init, SnapshotIsFresh
<1>2. LockInv /\ SnapshotIsFresh /\ [Next]_vars => SnapshotIsFresh'
  BY SnapshotStep
<1>3. QED
  BY <1>1, <1>2, LockInvariant, PTL DEF Spec

LEMMA NewerStep ==
    ASSUME SnapshotIsFresh, [Next]_vars, TooNew(file)
    PROVE  file' = file
<1>1. ASSUME NEW p \in Clients, NEW c \in Changes, Begin(p, c)
      PROVE  file' = file
  BY <1>1 DEF Begin
<1>2. ASSUME NEW p \in Clients, CallStep(p)
      PROVE  file' = file
  <2>1. ~ Replace(p)
    BY DEF Replace, SnapshotIsFresh
  <2>2. QED
    BY <1>2, <2>1 DEF CallStep, Acquire, GiveUp, ChangeRefused, ChangeNothing,
                      ChangeSomething, Rotate, ReplaceFails, Unlock
<1>3. ASSUME NEW p \in Clients, Kill(p)
      PROVE  file' = file
  BY <1>3 DEF Kill
<1>4. CASE NewerBuild
  BY <1>4 DEF NewerBuild, TooNew
<1>5. CASE Tick \/ UNCHANGED vars
  BY <1>5 DEF Tick, vars
<1>6. QED
  BY <1>1, <1>2, <1>3, <1>4, <1>5 DEF Next

(* A file of a newer build is never rewritten, as long as the file can be  *)
(* read (core/migrate.py:7).                                               *)
THEOREM NewerIsAlwaysKept ==
    ASSUME "read" \notin Faults
    PROVE  Spec => NewerIsKept
<1>1. SnapshotIsFresh /\ [Next]_vars => [TooNew(file) => file' = file]_vars
  BY NewerStep
<1>2. QED
  BY <1>1, SnapshotStaysFresh, PTL DEF Spec, NewerIsKept

-----------------------------------------------------------------------------
(* The backup of what is about to be replaced is the newest there is, so   *)
(* the pruning spares it, and it is still there when the file is replaced. *)

BackupsInOrder ==
    /\ \A b \in backups : b.second <= now
    /\ \A p \in Clients :
           pc[p] = "replace" /\ file.schema # "missing"
               => \E b \in backups : b.second = stamp[p] \/ b.file = file

LEMMA NewestSurvives ==
    ASSUME NEW copies \in SUBSET Backups, NEW b \in copies,
           \A c \in copies : c.second <= b.second
    PROVE  b \in Pruned(copies)
<1>1. \A c \in copies : c.second \in Nat
  BY DEF Backups
<1>2. {c \in copies : c.second > b.second} = {}
  BY <1>1
<1>3. Cardinality({c \in copies : c.second > b.second}) < BackupKeep
  BY <1>2, FS_EmptySet
<1>4. QED
  BY <1>3 DEF Pruned

LEMMA RotatedKeeps ==
    ASSUME StoreTypeOK, \A b \in backups : b.second <= now,
           "backup" \notin Faults, NEW after \in Rotated
    PROVE  /\ \A b \in after : b.second <= now
           /\ \E b \in after : b.second = now
<1>. DEFINE copies == WithCopy(now)
            made == [second |-> now, file |-> file]
<1>1. made \in Backups /\ made.second = now
  BY DEF StoreTypeOK, Backups
<1>2. copies \subseteq Backups
  BY <1>1 DEF WithCopy, StoreTypeOK
<1>3. now \in Nat
  BY DEF StoreTypeOK
<1>4. \A b \in copies : b.second <= now
  BY <1>1, <1>3 DEF WithCopy
<1>5. \E b \in copies : b.second = now
  BY <1>1 DEF WithCopy
<1>6. PICK b \in copies : b.second = now
  BY <1>5
<1>. HIDE DEF copies
<1>7. b \in Pruned(copies)
  BY <1>2, <1>4, <1>6, NewestSurvives
<1>8. after = Pruned(copies)
  BY DEF Rotated, copies
<1>9. \A c \in after : c \in copies
  BY <1>8 DEF Pruned
<1>10. QED
  BY <1>4, <1>6, <1>7, <1>8, <1>9

LEMMA BackupsStep ==
    ASSUME LockInv, "backup" \notin Faults, "clock" \notin Faults,
           BackupsInOrder, [Next]_vars
    PROVE  BackupsInOrder'
<1>. USE DEF LockInv, StoreTypeOK, BackupsInOrder
<1>1. ASSUME NEW p \in Clients, NEW c \in Changes, Begin(p, c)
      PROVE  BackupsInOrder'
  BY <1>1 DEF Begin
<1>2. ASSUME NEW p \in Clients, CallStep(p)
      PROVE  BackupsInOrder'
  <2>1. CASE GiveUp(p) \/ Unlock(p)
    BY <2>1 DEF GiveUp, Unlock, Return
  <2>2. CASE Acquire(p)
    BY <2>2 DEF Acquire
  <2>3. CASE ChangeRefused(p) \/ ChangeNothing(p) \/ ReplaceFails(p)
    BY <2>3 DEF ChangeRefused, ChangeNothing, ReplaceFails, Ends
  <2>4. CASE ChangeSomething(p)
    BY <2>4 DEF ChangeSomething, Goes
  <2>5. CASE Rotate(p)
    <3>1. \A q \in Clients : pc'[q] = "replace" => q = p
      BY <2>5 DEF Rotate, Goes, OneHolder, Holding
    <3>2. CASE file.schema = "missing"
      BY <2>5, <3>1, <3>2 DEF Rotate
    <3>3. CASE file.schema # "missing"
      <4>1. backups' \in Rotated /\ stamp'[p] = now /\ now' = now
        BY <2>5, <3>3 DEF Rotate
      <4>2. /\ \A b \in backups' : b.second <= now
            /\ \E b \in backups' : b.second = now
        BY <4>1, RotatedKeeps
      <4>3. QED
        BY <3>1, <4>1, <4>2
    <3>4. QED
      BY <3>2, <3>3
  <2>6. CASE Replace(p)
    <3>1. \A q \in Clients : pc'[q] # "replace"
      BY <2>6 DEF Replace, Ends, OneHolder, Holding
    <3>2. QED
      BY <2>6, <3>1 DEF Replace
  <2>7. QED
    BY <1>2, <2>1, <2>2, <2>3, <2>4, <2>5, <2>6 DEF CallStep
<1>3. ASSUME NEW p \in Clients, Kill(p)
      PROVE  BackupsInOrder'
  BY <1>3 DEF Kill, Return
<1>4. CASE NewerBuild
  <2>1. \A q \in Clients : pc[q] # "replace"
    BY <1>4 DEF NewerBuild, OneHolder, Holding
  <2>2. QED
    BY <1>4, <2>1 DEF NewerBuild
<1>5. CASE Tick
  <2>1. now' = now + 1 /\ now \in Nat
    BY <1>5 DEF Tick, Seconds
  <2>2. \A b \in backups : b.second \in Nat
    BY DEF Backups
  <2>3. QED
    BY <1>5, <2>1, <2>2 DEF Tick
<1>6. CASE UNCHANGED vars
  BY <1>6 DEF vars
<1>7. QED
  BY <1>1, <1>2, <1>3, <1>4, <1>5, <1>6 DEF Next

(* What a write replaces can be had back, as long as copying works and the *)
(* clock is not put back (store.py:_rotate_backup).                        *)
THEOREM UndoIsAlwaysThere ==
    ASSUME "backup" \notin Faults, "clock" \notin Faults
    PROVE  Spec => UndoIsThere
<1>. DEFINE Undo ==
        \A p \in Clients :
           Replace(p) /\ file.schema # "missing"
               => \E b \in backups' : b.second = stamp[p] \/ b.file = file
<1>1. Init => BackupsInOrder
  BY DEF Init, BackupsInOrder
<1>2. LockInv /\ BackupsInOrder /\ [Next]_vars => BackupsInOrder'
  BY BackupsStep
<1>3. BackupsInOrder => Undo
  BY DEF BackupsInOrder, Replace
<1>4. BackupsInOrder /\ [Next]_vars => [Undo]_vars
  BY <1>3
<1>5. QED
  BY <1>1, <1>2, <1>4, LockInvariant, PTL DEF Spec, UndoIsThere

-----------------------------------------------------------------------------
(* The store implements AtomicStore. *)

LEMMA NotPending ==
    ASSUME NEW p \in Clients, pc[p] \notin {"lock", "load", "rotate", "replace"}
    PROVE  Pending[p] = NoChange
BY DEF Pending

LEMMA IsPending ==
    ASSUME Asked, NEW p \in Clients, pc[p] \in {"lock", "load", "rotate", "replace"}
    PROVE  Pending[p] = change[p] /\ change[p] \in Changes /\ Pending[p] # NoChange
BY DEF Pending, Asked

\* An answer to p, or its death, takes its edit from those that wait.
LEMMA PendingAnswered ==
    ASSUME StoreTypeOK, NEW p \in Clients,
           \/ \E how \in {"done", "refused"} : Ends(p, how) /\ UNCHANGED change
           \/ Return(p)
    PROVE  Pending' = [Pending EXCEPT ![p] = NoChange]
BY DEF StoreTypeOK, Pending, Ends, Return

\* A step of p from one waiting place to another changes nothing that waits.
LEMMA PendingStays ==
    ASSUME StoreTypeOK, NEW p \in Clients, UNCHANGED change,
           NEW to \in {"load", "rotate", "replace"},
           pc[p] \in {"lock", "load", "rotate", "replace"}, pc' = [pc EXCEPT ![p] = to]
    PROVE  Pending' = Pending
BY DEF StoreTypeOK, Pending

LEMMA RefuseStep ==
    ASSUME LockInv, NEW p \in Clients,
           pc[p] \in {"lock", "load", "rotate", "replace"},
           Pending' = [Pending EXCEPT ![p] = NoChange],
           outcome' = [outcome EXCEPT ![p] = "refused"],
           UNCHANGED file
    PROVE  Atomic!Refuse(p)
BY IsPending DEF LockInv, Atomic!Refuse

LEMMA TakeStep ==
    ASSUME LockInv, NEW p \in Clients,
           pc[p] \in {"lock", "load", "rotate", "replace"},
           Pending' = [Pending EXCEPT ![p] = NoChange],
           outcome' = [outcome EXCEPT ![p] = "done"],
           file'.domains = Effect(change[p], file.domains)
    PROVE  Atomic!Take(p)
BY IsPending DEF LockInv, Atomic!Take

LEMMA CallStepImplements ==
    ASSUME LockInv, SnapshotIsFresh, "read" \notin Faults,
           NEW p \in Clients, CallStep(p)
    PROVE  Atomic!Take(p) \/ Atomic!Refuse(p) \/ UNCHANGED Atomic!vars
<1>. USE DEF LockInv
<1>1. CASE Acquire(p)
  <2>1. Pending' = Pending
    BY <1>1, PendingStays DEF Acquire
  <2>2. QED
    BY <1>1, <2>1 DEF Acquire, Atomic!vars
<1>2. CASE GiveUp(p)
  BY <1>2, PendingAnswered, RefuseStep DEF GiveUp
<1>3. CASE ChangeRefused(p) \/ ReplaceFails(p)
  BY <1>3, PendingAnswered, RefuseStep DEF ChangeRefused, ReplaceFails, Ends
<1>4. CASE ChangeNothing(p)
  <2>1. Effect(change[p], file.domains) = file.domains
    BY <1>4, LoadedTyped DEF ChangeNothing, Differs, StoreTypeOK
  <2>2. Pending' = [Pending EXCEPT ![p] = NoChange]
    BY <1>4, PendingAnswered DEF ChangeNothing
  <2>3. QED
    BY <1>4, <2>1, <2>2, TakeStep DEF ChangeNothing, Ends
<1>5. CASE ChangeSomething(p) \/ Rotate(p)
  <2>1. Pending' = Pending
    BY <1>5, PendingStays DEF ChangeSomething, Rotate, Goes
  <2>2. QED
    BY <1>5, <2>1 DEF ChangeSomething, Rotate, Goes, Atomic!vars
<1>6. CASE Replace(p)
  <2>1. file'.domains = Effect(change[p], file.domains)
    BY <1>6 DEF Replace, SnapshotIsFresh
  <2>2. Pending' = [Pending EXCEPT ![p] = NoChange]
    BY <1>6, PendingAnswered DEF Replace
  <2>3. QED
    BY <1>6, <2>1, <2>2, TakeStep DEF Replace, Ends
<1>7. CASE Unlock(p)
  <2>1. Pending' = [Pending EXCEPT ![p] = NoChange]
    BY <1>7, PendingAnswered DEF Unlock
  <2>2. Pending[p] = NoChange
    BY <1>7, NotPending DEF Unlock
  <2>3. Pending' = Pending
    BY <2>1, <2>2 DEF Pending
  <2>4. QED
    BY <1>7, <2>3 DEF Unlock, Atomic!vars
<1>8. QED
  BY <1>1, <1>2, <1>3, <1>4, <1>5, <1>6, <1>7 DEF CallStep

LEMMA StepImplements ==
    ASSUME LockInv, SnapshotIsFresh, "read" \notin Faults, [Next]_vars
    PROVE  [Atomic!Next]_(Atomic!vars)
<1>. USE DEF LockInv
<1>1. ASSUME NEW p \in Clients, NEW c \in Changes, Begin(p, c)
      PROVE  Atomic!Ask(p, c)
  <2>1. Pending[p] = NoChange
    BY <1>1, NotPending DEF Begin
  <2>2. Pending' = [Pending EXCEPT ![p] = c]
    BY <1>1 DEF Begin, Pending, StoreTypeOK
  <2>3. QED
    BY <1>1, <2>1, <2>2 DEF Begin, Atomic!Ask
<1>2. ASSUME NEW p \in Clients, Kill(p)
      PROVE  Atomic!Die(p) \/ UNCHANGED Atomic!vars
  <2>1. Pending' = [Pending EXCEPT ![p] = NoChange]
    BY <1>2, PendingAnswered DEF Kill
  <2>2. CASE Pending[p] = NoChange
    <3>1. Pending' = Pending
      BY <2>1, <2>2 DEF Pending
    <3>2. QED
      BY <1>2, <3>1 DEF Kill, Atomic!vars
  <2>3. CASE Pending[p] # NoChange
    BY <1>2, <2>1, <2>3 DEF Kill, Atomic!Die
  <2>4. QED
    BY <2>2, <2>3
<1>3. CASE NewerBuild
  <2>1. file'.domains = file.domains
    BY <1>3, FileParts DEF NewerBuild, StoreTypeOK
  <2>2. QED
    BY <1>3, <2>1 DEF NewerBuild, Pending, Atomic!vars
<1>4. CASE Tick \/ UNCHANGED vars
  BY <1>4 DEF Tick, vars, Pending, Atomic!vars
<1>5. QED
  BY <1>1, <1>2, <1>3, <1>4, CallStepImplements DEF Next, Atomic!Next

LEMMA InitImplements == Init => Atomic!Init
<1>1. Blank \in Files
  BY FileOf DEF Blank, Schemas
<1>2. Init => file.domains \in Contents
  BY <1>1, FileParts DEF Init, Files
<1>3. QED
  BY <1>2 DEF Init, Pending, Atomic!Init

(* Every edit takes effect whole and once on the list of that moment, or   *)
(* not at all, as long as the file can be read (store.py:1-10).            *)
THEOREM EditsAreAlwaysAtomic ==
    ASSUME "read" \notin Faults
    PROVE  Spec => EditsAreAtomic
<1>1. LockInv /\ SnapshotIsFresh /\ [Next]_vars => [Atomic!Next]_(Atomic!vars)
  BY StepImplements
<1>2. QED
  BY <1>1, InitImplements, LockInvariant, SnapshotStaysFresh, PTL
     DEF Spec, EditsAreAtomic, Atomic!Spec
=============================================================================
