------------------------ MODULE RemoteReplaceProofs ------------------------
(***************************************************************************)
(* The staged replace is safe for every set of object names, every old and *)
(* new dataset and every size of the copy pool.                            *)
(***************************************************************************)
EXTENDS RemoteReplace, TLAPS

-----------------------------------------------------------------------------
(* The inductive invariant *)

\* What the inventory found under a name.
Kept(n) == IF n \in Old THEN OldObj ELSE ForeignObj

\* dest is as the inventory found it, but for foreign objects put since.
Intact ==
  /\ \A n \in Old : dest[n] = OldObj
  /\ \A n \in Names \ Old : dest[n] \in {Absent, ForeignObj}
  /\ \A n \in inventory : dest[n] = Kept(n)

BackedUp ==
  /\ Old \subseteq inventory
  /\ \A n \in inventory : backup[n] = Kept(n)

Installed ==
  /\ \A n \in New : dest[n] = NewObj
  /\ \A n \in Old \ New : dest[n] = Absent

\* Names whose copy the pool has not brought to a good end.
Owed == pool.queued \cup pool.running \cup pool.failed

Undamaged == {"writing", "inventory", "backing_up", "preparing"}
Damaging == {"clearing", "promoting", "rolling_back", "unclearing", "restoring"}

\* The flags and the outcome follow the statements executed.
IFlags ==
  /\ pc \in Undamaged => ~destination_mutated
  /\ pc \in Damaging => destination_mutated /\ ~promotion_complete /\ ~rollback_complete
  /\ pc \in Undamaged \cup Damaging => outcome = "running"
  /\ promotion_complete => destination_mutated /\ ~rollback_complete
  /\ rollback_complete => destination_mutated
  /\ outcome = "returned" => promotion_complete
  /\ outcome = "raised" => (~destination_mutated \/ rollback_complete)

\* Where no damage was done, or all of it was undone, dest is intact; where it
\* stands, the backup is whole.
IContents ==
  /\ ~destination_mutated \/ rollback_complete => Intact
  /\ destination_mutated /\ ~promotion_complete /\ ~rollback_complete => BackedUp
  /\ promotion_complete => Installed

IBackup ==
  /\ pc = "writing" \/ pc = "inventory" => inventory = {}
  /\ pc = "backing_up" =>
       /\ Old \subseteq inventory
       /\ pool.queued \cup pool.running \subseteq inventory
       /\ pool.abort = "no" => \A n \in inventory : n \in Owed \/ backup[n] = Kept(n)
  /\ pc = "preparing" => BackedUp

\* What has been cleared stays cleared, but for foreign objects.
IClear ==
  pc \in ClearPhases =>
    \A n \in Names \ listing :
      /\ n \in Old => dest[n] = Absent
      /\ n \notin Old => dest[n] \in {Absent, ForeignObj}

IStage ==
  pc \in {"inventory", "backing_up", "preparing", "clearing", "promoting"} =>
    \A n \in New : stage[n] = NewObj

IPromote ==
  pc = "promoting" =>
    /\ pool.queued \cup pool.running \subseteq New
    /\ \A n \in Old \ New : dest[n] = Absent
    /\ pool.abort = "no" => \A n \in New : n \in Owed \/ dest[n] = NewObj

IRestore ==
  pc = "restoring" =>
    /\ pool.queued \cup pool.running \subseteq inventory
    /\ pool.abort = "no" => \A n \in Names \ pool.failed :
         /\ n \in inventory \ Owed => dest[n] = Kept(n)
         /\ n \notin Old => dest[n] \in {Absent, ForeignObj}

IInv == TypeOK /\ IFlags /\ IContents /\ IBackup /\ IClear /\ IStage /\ IPromote /\ IRestore
-----------------------------------------------------------------------------
(* Typing *)

\* The call starts with every variable in its type.
LEMMA InitTyping == Init => TypeOK
<1> USE DEF TypeOK, Content, Phases, CopyPhases, ClearPhases, NoPool, PoolOf, Present, Empty
<1> SUFFICES ASSUME Init PROVE TypeOK
  OBVIOUS
<1>1. dest \in [Names -> Content] /\ stage \in [Names -> Content] /\ backup \in [Names -> Content]
  BY DEF Init
<1>2. pool \in [queued : SUBSET Names, running : SUBSET Names, failed : SUBSET Names,
                abort : {"no", "exception", "interrupt"}]
  BY DEF Init
<1>3. QED BY <1>1, <1>2 DEF Init

\* No step of the call or of another program leaves the types.
LEMMA StepTyping == TypeOK /\ [Next]_vars => TypeOK'
<1> USE DEF TypeOK, Content, Phases, CopyPhases, ClearPhases, NoPool, PoolOf, Present, Empty
<1> SUFFICES ASSUME TypeOK, [Next]_vars
             PROVE  TypeOK'
  OBVIOUS
<1> USE NamesAssumption DEF store, flags
<1>1. ASSUME NEW n \in Names, StageObject(n) PROVE TypeOK'
  BY <1>1 DEF StageObject
<1>2. ASSUME NEW n \in Names, DeleteListed(n) PROVE TypeOK'
  BY <1>2 DEF DeleteListed
<1>3. ASSUME NEW n \in Names, CopyStart(n) PROVE TypeOK'
  BY <1>3 DEF CopyStart
<1>4. ASSUME NEW n \in Names, CopyOk(n) PROVE TypeOK'
  BY <1>4 DEF CopyOk, Put, CopySource
<1>5. ASSUME NEW n \in Names, CopyFail(n) PROVE TypeOK'
  BY <1>5 DEF CopyFail, Put
<1>6. ASSUME NEW n \in Names, ForeignPut(n) PROVE TypeOK'
  BY <1>6 DEF ForeignPut
<1>7. CASE StageComplete
  BY <1>7 DEF StageComplete
<1>8. CASE TakeInventory
  BY <1>8 DEF TakeInventory
<1>9. CASE PrepareDestination
  BY <1>9 DEF PrepareDestination
<1>10. CASE ClearDone
  BY <1>10 DEF ClearDone
<1>11. CASE CopyNotice
  BY <1>11 DEF CopyNotice
<1>12. CASE CopyDone
  BY <1>12 DEF CopyDone, Settled
<1>13. CASE CopyAborts
  BY <1>13 DEF CopyAborts, Settled, HandleException
<1>14. CASE StepFails
  BY <1>14 DEF StepFails, HandleException
<1>15. CASE StartRollback
  BY <1>15 DEF StartRollback
<1>16. CASE DropStage
  BY <1>16 DEF DropStage
<1>17. CASE DropBackup
  BY <1>17 DEF DropBackup, BackupDisposable
<1>18. CASE Interrupt
  BY <1>18 DEF Interrupt
<1>19. CASE Kill
  BY <1>19 DEF Kill
<1>20. CASE UNCHANGED vars
  BY <1>20 DEF vars
<1>21. QED
  BY <1>1, <1>2, <1>3, <1>4, <1>5, <1>6, <1>7, <1>8, <1>9, <1>10, <1>11, <1>12, <1>13, <1>14, <1>15, <1>16, <1>17, <1>18, <1>19, <1>20 DEF Next, Call, Environment

\* Every variable keeps its type, whatever the call, its pool and the other
\* programs do.
THEOREM TypeCorrect == Spec => []TypeOK
BY InitTyping, StepTyping, PTL DEF Spec

-----------------------------------------------------------------------------
(* The invariant is inductive *)

\* The phase invariant holds when the call starts.
LEMMA InvInit == Init => IInv
<1> USE NamesAssumption, ContentsAssumption
    DEF IInv, IFlags, IContents, IBackup, IClear, IStage, IPromote, IRestore,
        Intact, BackedUp, Installed, Owed, Kept, Undamaged, Damaging, CopyPhases, ClearPhases
<1> SUFFICES ASSUME Init PROVE IInv
  OBVIOUS
<1>1. TypeOK
  BY InitTyping
<1>2. QED
  BY <1>1 DEF Init, NoPool

\* Each step keeps the phase invariant: one case per action.
LEMMA InvStep == IInv /\ [Next]_vars => IInv'
<1> USE NamesAssumption, ContentsAssumption
    DEF IInv, IFlags, IContents, IBackup, IClear, IStage, IPromote, IRestore,
        Intact, BackedUp, Installed, Owed, Kept, Undamaged, Damaging, CopyPhases, ClearPhases
<1> SUFFICES ASSUME IInv, [Next]_vars
             PROVE  IInv'
  OBVIOUS
<1> TypeOK' BY StepTyping
<1> USE DEF TypeOK, Content, store, flags
<1>1. ASSUME NEW n \in Names, StageObject(n) PROVE IInv'
  BY <1>1 DEF StageObject
<1>2. ASSUME NEW n \in Names, DeleteListed(n) PROVE IInv'
  BY <1>2 DEF DeleteListed
<1>3. ASSUME NEW n \in Names, CopyStart(n) PROVE IInv'
  BY <1>3 DEF CopyStart
<1>4. ASSUME NEW n \in Names, CopyOk(n) PROVE IInv'
  BY <1>4 DEF CopyOk, Put, CopySource
<1>5. ASSUME NEW n \in Names, CopyFail(n) PROVE IInv'
  BY <1>5 DEF CopyFail, Put
<1>6. ASSUME NEW n \in Names, ForeignPut(n) PROVE IInv'
  BY <1>6 DEF ForeignPut
<1>7. CASE StageComplete
  BY <1>7 DEF StageComplete
<1>8. CASE TakeInventory
  BY <1>8 DEF TakeInventory, PoolOf, NoPool, Present
<1>9. CASE PrepareDestination
  BY <1>9 DEF PrepareDestination, Present
<1>10. CASE ClearDone
  BY <1>10 DEF ClearDone, PoolOf, NoPool
<1>11. CASE CopyNotice
  BY <1>11 DEF CopyNotice
<1>12. CASE CopyDone
  BY <1>12 DEF CopyDone, Settled, NoPool
<1>13. CASE CopyAborts
  BY <1>13 DEF CopyAborts, Settled, NoPool, HandleException
<1>14. CASE StepFails
  BY <1>14 DEF StepFails, HandleException
<1>15. CASE StartRollback
  BY <1>15 DEF StartRollback, Present
<1>16. CASE DropStage
  BY <1>16 DEF DropStage
<1>17. CASE DropBackup
  BY <1>17 DEF DropBackup, BackupDisposable, Present
<1>18. CASE Interrupt
  <2>1. CASE /\ pool' = [pool EXCEPT !.queued = {}, !.abort = "interrupt"] /\ pool.abort = "no"
             /\ pc \in CopyPhases /\ UNCHANGED <<store, pc, listing, inventory, flags, outcome>>
    BY <2>1
  <2>2. CASE pc \in {"drop_stage", "drop_backup"}
    BY <1>18, <2>2 DEF Interrupt
  <2>3. CASE pc \notin {"drop_stage", "drop_backup"} /\ UNCHANGED pool
    BY <1>18, <2>3 DEF Interrupt
  <2>4. QED BY <1>18, <2>1, <2>2, <2>3 DEF Interrupt
<1>19. CASE Kill
  BY <1>19 DEF Kill
<1>20. CASE UNCHANGED vars
  BY <1>20 DEF vars
<1>21. QED
  BY <1>1, <1>2, <1>3, <1>4, <1>5, <1>6, <1>7, <1>8, <1>9, <1>10, <1>11, <1>12, <1>13, <1>14, <1>15, <1>16, <1>17, <1>18, <1>19, <1>20 DEF Next, Call, Environment

\* The strengthened invariant: what each phase of the call has achieved so far.
THEOREM Invariance == Spec => []IInv
BY InvInit, InvStep, PTL DEF Spec

-----------------------------------------------------------------------------
(* What it implies *)

\* No old object is ever lost before the new dataset is whole, for any number
\* of objects and any interleaving of failing copies, an interrupt and a kill.
THEOREM RecoverableThm == Spec => []Recoverable
<1>1. IInv => Recoverable
  BY DEF IInv, IContents, Intact, BackedUp, Kept, Recoverable
<1>2. QED BY <1>1, Invariance, PTL

\* "backup retained" is true of the whole dataset whenever the call leaves dest
\* neither replaced nor restored.
THEOREM BackupWholeThm == Spec => []BackupWhole
<1>1. IInv => BackupWhole
  BY DEF IInv, IContents, BackedUp, Kept, BackupWhole
<1>2. QED BY <1>1, Invariance, PTL

\* The caller is told "written" only of the whole new dataset, and gets the
\* original error only with the whole old one.
THEOREM AllOrNothingThm == Spec => []AllOrNothing
<1>1. IInv => AllOrNothing
  <2> SUFFICES ASSUME IInv PROVE AllOrNothing
    OBVIOUS
  <2>1. outcome = "returned" => Installed
    BY DEF IInv, IFlags, IContents
  <2>2. outcome = "raised" => Intact
    BY DEF IInv, IFlags, IContents
  <2>3. Intact => HoldsOld /\ \A n \in inventory \ Old : dest[n] = ForeignObj
    BY NamesAssumption, ContentsAssumption DEF Intact, HoldsOld, Kept
  <2>4. QED
    BY <2>1, <2>2, <2>3 DEF Installed, AllOrNothing
<1>2. QED BY <1>1, Invariance, PTL

-----------------------------------------------------------------------------
(* The implementation of the contract *)

\* Each step of the call is a step of the contract or changes nothing it sees.
LEMMA StepImplements ==
  IInv /\ IInv' /\ [Next]_vars => [Contract!Next]_(Contract!vars)
<1> SUFFICES ASSUME IInv, IInv', [Next]_vars
             PROVE  [Contract!Next]_(Contract!vars)
  OBVIOUS
<1> USE NamesAssumption, ContentsAssumption
    DEF IInv, IFlags, IContents, Intact, BackedUp, Kept, Undamaged, Damaging, CopyPhases, ClearPhases,
        TypeOK, Content, store, flags, HoldsOld,
        Contract!Next, Contract!vars, Contract!Backup, Contract!Alter, Contract!Commit,
        Contract!Refuse, Contract!Abandon
<1>1. ASSUME NEW n \in Names, StageObject(n) PROVE [Contract!Next]_(Contract!vars)
  BY <1>1 DEF StageObject
<1>2. ASSUME NEW n \in Names, DeleteListed(n) PROVE [Contract!Next]_(Contract!vars)
  BY <1>2 DEF DeleteListed
<1>3. ASSUME NEW n \in Names, CopyStart(n) PROVE [Contract!Next]_(Contract!vars)
  BY <1>3 DEF CopyStart
<1>4. ASSUME NEW n \in Names, CopyOk(n) PROVE [Contract!Next]_(Contract!vars)
  BY <1>4 DEF CopyOk, Put, CopySource
<1>5. ASSUME NEW n \in Names, CopyFail(n) PROVE [Contract!Next]_(Contract!vars)
  BY <1>5 DEF CopyFail, Put
<1>6. ASSUME NEW n \in Names, ForeignPut(n) PROVE [Contract!Next]_(Contract!vars)
  BY <1>6 DEF ForeignPut
<1>7. CASE StageComplete
  BY <1>7 DEF StageComplete
<1>8. CASE TakeInventory
  BY <1>8 DEF TakeInventory, PoolOf, NoPool, Present
<1>9. CASE PrepareDestination
  BY <1>9 DEF PrepareDestination, Present
<1>10. CASE ClearDone
  BY <1>10 DEF ClearDone, PoolOf, NoPool
<1>11. CASE CopyNotice
  BY <1>11 DEF CopyNotice
<1>12. CASE CopyDone
  BY <1>12 DEF CopyDone, Settled, NoPool
<1>13. CASE CopyAborts
  BY <1>13 DEF CopyAborts, Settled, NoPool, HandleException
<1>14. CASE StepFails
  BY <1>14 DEF StepFails, HandleException
<1>15. CASE StartRollback
  BY <1>15 DEF StartRollback, Present
<1>16. CASE DropStage
  BY <1>16 DEF DropStage
<1>17. CASE DropBackup
  BY <1>17 DEF DropBackup, BackupDisposable, Present
<1>18. CASE Interrupt
  <2>1. CASE pc \in CopyPhases /\ UNCHANGED <<store, pc, listing, inventory, flags, outcome>>
    BY <1>18, <2>1 DEF Interrupt
  <2>2. CASE pc \in {"drop_stage", "drop_backup"}
    BY <1>18, <2>2 DEF Interrupt
  <2>3. CASE pc \notin {"drop_stage", "drop_backup"} /\ UNCHANGED pool
    BY <1>18, <2>3 DEF Interrupt
  <2>4. QED BY <1>18, <2>1, <2>2, <2>3 DEF Interrupt
<1>19. CASE Kill
  BY <1>19 DEF Kill
<1>20. CASE UNCHANGED vars
  BY <1>20 DEF vars
<1>21. QED
  BY <1>1, <1>2, <1>3, <1>4, <1>5, <1>6, <1>7, <1>8, <1>9, <1>10, <1>11, <1>12, <1>13, <1>14, <1>15, <1>16, <1>17, <1>18, <1>19, <1>20 DEF Next, Call, Environment

\* The staged replace implements the atomic replacement with a safety copy.
THEOREM Refinement == Spec => ImplementsContract
<1>1. Init => Contract!Init
  BY NamesAssumption, ContentsAssumption DEF Init, Contract!Init, HoldsOld
<1>2. QED BY <1>1, Invariance, StepImplements, PTL DEF Spec, ImplementsContract, Contract!Spec

=============================================================================
