--------------------------- MODULE RemoteReplace ---------------------------
(***************************************************************************)
(* write(dataset, dest, mode="replace") on an object store:                *)
(* writers._write_remote_staged_replace with the helpers it calls          *)
(* (_copy_resource_pairs, _remote_files, _prepare_destination and          *)
(* _io.copy_resource, remove_tree).                                        *)
(*                                                                         *)
(* The call writes the dataset below a private staging prefix, copies the  *)
(* objects of dest to a private backup prefix, clears dest, copies the     *)
(* staged objects into it and, when one of these steps raises after the    *)
(* clear began, puts the backup back.  Objects are put one at a time, and  *)
(* copies run on a thread pool; the call may be interrupted from the       *)
(* keyboard or killed between any two puts.                                *)
(*                                                                         *)
(* An object is its content: OldObj what dest held, NewObj what the writer *)
(* produced, Torn a put that failed half way and could not be removed,     *)
(* and ForeignObj an object some other program put below dest.             *)
(***************************************************************************)
EXTENDS Naturals, FiniteSets

CONSTANTS
  Names,        \* object names relative to dest, stage or backup
  Old,          \* the names dest holds when the call starts
  New,          \* the names of the files the writer returns
  Foreign,      \* the names another program may create below dest meanwhile
  CopyWorkers,  \* threads of the copy pool: min(8, len(pairs)) in the code
  Absent, OldObj, NewObj, Torn, ForeignObj

ASSUME NamesAssumption ==
  /\ IsFiniteSet(Names)
  /\ Old \subseteq Names /\ New \subseteq Names /\ Foreign \subseteq Names
  /\ Old \cap Foreign = {}

ASSUME WorkersAssumption == CopyWorkers \in Nat \ {0}

ASSUME ContentsAssumption ==
  /\ Absent \notin {OldObj, NewObj, Torn, ForeignObj}
  /\ OldObj \notin {NewObj, Torn, ForeignObj}
  /\ NewObj \notin {Torn, ForeignObj}
  /\ Torn # ForeignObj

Content == {Absent, OldObj, NewObj, Torn, ForeignObj}

VARIABLES
  dest, stage, backup,  \* the three prefixes: Names -> Content
  pc,                   \* the statement the call is at
  pool,                 \* the copy pool of the current _copy_resource_pairs
  listing,              \* what remove_tree has listed and not yet deleted
  inventory,            \* backup_files: the names copied to the backup
  destination_mutated, promotion_complete, rollback_complete,
  outcome               \* how the call ends

store == <<dest, stage, backup>>
flags == <<destination_mutated, promotion_complete, rollback_complete>>
vars == <<dest, stage, backup, pc, pool, listing, inventory,
          destination_mutated, promotion_complete, rollback_complete, outcome>>

Phases == {"writing", "inventory", "backing_up", "preparing", "clearing", "promoting",
           "rolling_back", "unclearing", "restoring",
           "drop_stage", "drop_backup", "done", "killed"}
CopyPhases == {"backing_up", "promoting", "restoring"}
ClearPhases == {"clearing", "unclearing"}

NoPool == [queued |-> {}, running |-> {}, failed |-> {}, abort |-> "no"]
PoolOf(S) == [NoPool EXCEPT !.queued = S]
Present(prefix) == {n \in Names : prefix[n] # Absent}
Empty == [n \in Names |-> Absent]

Init ==
  /\ dest = [n \in Names |-> IF n \in Old THEN OldObj ELSE Absent]
  /\ stage = Empty /\ backup = Empty
  /\ pc = "writing"
  /\ pool = NoPool
  /\ listing = {} /\ inventory = {}
  /\ destination_mutated = FALSE
  /\ promotion_complete = FALSE
  /\ rollback_complete = FALSE
  /\ outcome = "running"

-----------------------------------------------------------------------------
(* The try block *)

\* writer.write(dataset, stage): objects appear below the staging prefix one by one.
StageObject(n) ==
  /\ pc = "writing" /\ n \in New /\ stage[n] = Absent
  /\ stage' = [stage EXCEPT ![n] = NewObj]
  /\ UNCHANGED <<dest, backup, pc, pool, listing, inventory, flags, outcome>>

StageComplete ==
  /\ pc = "writing" /\ \A n \in New : stage[n] = NewObj
  /\ pc' = "inventory"
  /\ UNCHANGED <<store, pool, listing, inventory, flags, outcome>>

\* _remote_files(dest): one find call, then the backup copies are submitted.
TakeInventory ==
  /\ pc = "inventory"
  /\ inventory' = Present(dest)
  /\ pool' = PoolOf(Present(dest))
  /\ pc' = "backing_up"
  /\ UNCHANGED <<store, listing, flags, outcome>>

\* Faulty variant: the flag is set only once dest has been cleared.
PrepareDestination_LateFlag ==
  /\ pc = "preparing"
  /\ listing' = Present(dest)
  /\ pc' = "clearing"
  /\ UNCHANGED <<store, pool, inventory, flags, outcome>>

\* destination_mutated = True, then _prepare_destination lists dest and, when
\* their turn comes, its directories: a name in one of them that another program
\* creates in time goes too.
PrepareDestination ==
  /\ pc = "preparing"
  /\ destination_mutated' = TRUE
  /\ \E late \in SUBSET Foreign :
       listing' = IF Present(dest) = {} THEN {} ELSE Present(dest) \cup late
  /\ pc' = "clearing"
  /\ UNCHANGED <<store, pool, inventory, promotion_complete, rollback_complete, outcome>>

-----------------------------------------------------------------------------
(* remove_tree: the listed names, deleted in any order *)

DeleteListed(n) ==
  /\ pc \in ClearPhases /\ n \in listing
  /\ dest' = [dest EXCEPT ![n] = Absent]
  /\ listing' = listing \ {n}
  /\ UNCHANGED <<stage, backup, pc, pool, inventory, flags, outcome>>

ClearDone ==
  /\ pc \in ClearPhases /\ listing = {}
  /\ \/ pc = "clearing" /\ pc' = "promoting" /\ pool' = PoolOf(New)
     \/ pc = "unclearing" /\ pc' = "restoring" /\ pool' = PoolOf(inventory)
  /\ UNCHANGED <<store, listing, inventory, flags, outcome>>

-----------------------------------------------------------------------------
(* _copy_resource_pairs: a thread pool copies independent objects *)

CopyStart(n) ==
  /\ pc \in CopyPhases /\ n \in pool.queued
  /\ Cardinality(pool.running) < CopyWorkers
  /\ pool' = [pool EXCEPT !.queued = @ \ {n}, !.running = @ \cup {n}]
  /\ UNCHANGED <<store, pc, listing, inventory, flags, outcome>>

\* What one copy puts where: the phase decides the two prefixes.
Put(n, obj) ==
  \/ pc = "backing_up" /\ backup' = [backup EXCEPT ![n] = obj] /\ UNCHANGED <<dest, stage>>
  \/ pc \in {"promoting", "restoring"} /\ dest' = [dest EXCEPT ![n] = obj]
     /\ UNCHANGED <<backup, stage>>

\* Faulty variant: the copy reads a handle, not the object it stands for.
CopySource_Handle(n) == <<pc, n>>

CopySource(n) ==
  CASE pc = "backing_up" -> dest[n]
    [] pc = "promoting"  -> stage[n]
    [] OTHER             -> backup[n]

CopyOk(n) ==
  /\ pc \in CopyPhases /\ n \in pool.running
  /\ CopySource(n) # Absent
  /\ Put(n, CopySource(n))
  /\ pool' = [pool EXCEPT !.running = @ \ {n}]
  /\ UNCHANGED <<pc, listing, inventory, flags, outcome>>

\* cp_file failed and so did the stream: copy_resource removes what it wrote,
\* or leaves it torn when the removal fails too (its error is suppressed), or
\* the stream never opened and nothing was written.
CopyFail(n) ==
  /\ pc \in CopyPhases /\ n \in pool.running
  /\ \/ Put(n, Absent) \/ Put(n, Torn) \/ UNCHANGED store
  /\ pool' = [pool EXCEPT !.running = @ \ {n}, !.failed = @ \cup {n}]
  /\ UNCHANGED <<pc, listing, inventory, flags, outcome>>

\* Faulty variant: a failed copy is retried without limit.
CopyNotice_RetryForever ==
  /\ pc \in CopyPhases /\ pool.failed # {} /\ pool.abort = "no"
  /\ pool' = [pool EXCEPT !.queued = @ \cup pool.failed, !.failed = {}]
  /\ UNCHANGED <<store, pc, listing, inventory, flags, outcome>>

\* list(executor.map(...)) meets a failed future: the copies not yet started
\* are cancelled, the running ones settle before the exception leaves the pool.
CopyNotice ==
  /\ pc \in CopyPhases /\ pool.failed # {} /\ pool.abort = "no"
  /\ pool' = [pool EXCEPT !.queued = {}, !.abort = "exception"]
  /\ UNCHANGED <<store, pc, listing, inventory, flags, outcome>>

Settled == pool.queued = {} /\ pool.running = {}

CopyDone ==
  /\ pc \in CopyPhases /\ Settled /\ pool.failed = {} /\ pool.abort = "no"
  /\ pool' = NoPool
  /\ \/ /\ pc = "backing_up" /\ pc' = "preparing"
        /\ UNCHANGED <<promotion_complete, rollback_complete, outcome>>
     \/ /\ pc = "promoting" /\ pc' = "drop_stage"
        /\ promotion_complete' = TRUE /\ outcome' = "returned"
        /\ UNCHANGED rollback_complete
     \/ /\ pc = "restoring" /\ pc' = "drop_stage"
        /\ rollback_complete' = TRUE /\ outcome' = "raised"
        /\ UNCHANGED promotion_complete
  /\ UNCHANGED <<store, listing, inventory, destination_mutated>>

-----------------------------------------------------------------------------
(* The except and finally clauses *)

\* Faulty variant: the exception propagates from wherever it was raised.
HandleException_NoRollback ==
  /\ pc' = "drop_stage" /\ outcome' = "raised"

\* An exception of the try block: before the mutation it propagates, after it
\* the rollback runs.  An exception of the rollback is the RuntimeError that
\* says the backup is retained.
HandleException ==
  \/ /\ pc \in {"writing", "inventory", "backing_up"}
     /\ pc' = "drop_stage" /\ outcome' = "raised"
  \/ /\ pc \in {"clearing", "promoting"}
     /\ pc' = "rolling_back" /\ UNCHANGED outcome
  \/ /\ pc \in {"rolling_back", "unclearing", "restoring"}
     /\ pc' = "drop_stage" /\ outcome' = "rollback_failed"

\* A failing store call or writer, in the phases that copy nothing.
StepFails ==
  /\ pc \in {"writing", "inventory", "clearing", "rolling_back", "unclearing"}
  /\ HandleException
  /\ listing' = {}
  /\ UNCHANGED <<store, pool, inventory, flags>>

CopyAborts ==
  /\ pc \in CopyPhases /\ Settled /\ pool.abort # "no"
  /\ pool' = NoPool
  /\ \/ pool.abort = "exception" /\ HandleException
     \/ pool.abort = "interrupt" /\ pc' = "drop_stage" /\ outcome' = "interrupted"
  /\ UNCHANGED <<store, listing, inventory, flags>>

\* Faulty variant: the backup is copied over whatever the promotion left.
StartRollback_WithoutClear ==
  /\ pc = "rolling_back"
  /\ listing' = {}
  /\ pc' = "unclearing"
  /\ UNCHANGED <<store, pool, inventory, flags, outcome>>

\* if dest.exists(): remove_tree(dest)
StartRollback ==
  /\ pc = "rolling_back"
  /\ listing' = Present(dest)
  /\ pc' = "unclearing"
  /\ UNCHANGED <<store, pool, inventory, flags, outcome>>

\* KeyboardInterrupt is no Exception: the rollback is skipped, finally runs.
\* In a copy phase the pool is left only after its running copies settle.
Interrupt ==
  \/ /\ pc \in {"writing", "inventory", "preparing", "clearing", "rolling_back", "unclearing"}
     /\ pc' = "drop_stage" /\ outcome' = "interrupted" /\ listing' = {}
     /\ UNCHANGED <<store, pool, inventory, flags>>
  \/ /\ pc \in CopyPhases /\ pool.abort = "no"
     /\ pool' = [pool EXCEPT !.queued = {}, !.abort = "interrupt"]
     /\ UNCHANGED <<store, pc, listing, inventory, flags, outcome>>
  \/ /\ pc \in {"drop_stage", "drop_backup"}
     /\ pc' = "done" /\ outcome' = "interrupted"
     /\ UNCHANGED <<store, pool, listing, inventory, flags>>

\* The process is killed: no clause of the call runs any more.
Kill ==
  /\ pc \notin {"done", "killed"}
  /\ pc' = "killed"
  /\ UNCHANGED <<store, pool, listing, inventory, flags, outcome>>

\* finally: remove_tree(stage), its OSError suppressed: some staged objects
\* may stay behind.
DropStage ==
  /\ pc = "drop_stage"
  /\ \E left \in SUBSET Present(stage) :
       stage' = [n \in Names |-> IF n \in left THEN stage[n] ELSE Absent]
  /\ pc' = "drop_backup"
  /\ UNCHANGED <<dest, backup, pool, listing, inventory, flags, outcome>>

\* Faulty variant: the finally clause tidies up both prefixes alike.
BackupDisposable_Always == TRUE

BackupDisposable ==
  ~destination_mutated \/ promotion_complete \/ rollback_complete

DropBackup ==
  /\ pc = "drop_backup"
  /\ \E left \in SUBSET Present(backup) :
       /\ ~BackupDisposable => left = Present(backup)
       /\ backup' = [n \in Names |-> IF n \in left THEN backup[n] ELSE Absent]
  /\ pc' = "done"
  /\ UNCHANGED <<dest, stage, pool, listing, inventory, flags, outcome>>

-----------------------------------------------------------------------------
(* Another program puts an object of its own below dest *)

ForeignPut(n) ==
  /\ n \in Foreign /\ dest[n] = Absent
  /\ pc \notin {"done", "killed"}
  /\ dest' = [dest EXCEPT ![n] = ForeignObj]
  /\ UNCHANGED <<stage, backup, pc, pool, listing, inventory, flags, outcome>>

Call ==
  \/ \E n \in Names : StageObject(n) \/ DeleteListed(n)
                      \/ CopyStart(n) \/ CopyOk(n) \/ CopyFail(n)
  \/ StageComplete \/ TakeInventory \/ PrepareDestination \/ ClearDone
  \/ CopyNotice \/ CopyDone \/ CopyAborts
  \/ StepFails \/ StartRollback \/ DropStage \/ DropBackup

Environment == Interrupt \/ Kill \/ \E n \in Names : ForeignPut(n)

Next == Call \/ Environment

Spec == Init /\ [][Next]_vars

\* The calling thread and the pool's threads are scheduled: while the process
\* lives, a call that can take a step takes one.
FairSpec == Spec /\ WF_vars(Call)

-----------------------------------------------------------------------------
(* Properties *)

TypeOK ==
  /\ dest \in [Names -> Content]
  /\ stage \in [Names -> Content]
  /\ backup \in [Names -> Content]
  /\ pc \in Phases
  /\ pool \in [queued : SUBSET Names, running : SUBSET Names, failed : SUBSET Names,
               abort : {"no", "exception", "interrupt"}]
  /\ listing \subseteq Names /\ inventory \subseteq Names
  /\ destination_mutated \in BOOLEAN
  /\ promotion_complete \in BOOLEAN
  /\ rollback_complete \in BOOLEAN
  /\ outcome \in {"running", "returned", "raised", "rollback_failed", "interrupted"}

\* Until the promotion is complete every object dest held is intact in dest or
\* in the backup, whatever failed, was interrupted or was killed so far
\* (_write_remote_staged_replace retains a rollback copy until promotion succeeds).
Recoverable ==
  ~promotion_complete => \A n \in Old : dest[n] = OldObj \/ backup[n] = OldObj

\* A call that ended with dest neither replaced nor restored leaves a backup
\* that holds every old object: what "backup retained at ..." promises, and
\* what an interrupted user restores from.
BackupWhole ==
  /\ pc \in {"done", "killed"} /\ destination_mutated
  /\ ~promotion_complete /\ ~rollback_complete
  => \A n \in Old : backup[n] = OldObj

\* dest holds the old dataset, whole and unmixed.
HoldsOld ==
  /\ \A n \in Old : dest[n] = OldObj
  /\ \A n \in Names : dest[n] \notin {NewObj, Torn}

\* The call returns only with the new dataset whole and nothing of the old one
\* below dest, and raises the original error only with dest as the inventory
\* found it: each old object, each foreign one inventoried, and no new one.
AllOrNothing ==
  /\ outcome = "returned" =>
       /\ \A n \in New : dest[n] = NewObj
       /\ \A n \in Old \ New : dest[n] = Absent
  /\ outcome = "raised" =>
       /\ HoldsOld
       /\ \A n \in inventory \ Old : dest[n] = ForeignObj

\* A call whose process lives ends: every failure path reaches the end of the
\* finally clause, with no copy of the pool left waiting.
Terminates == <>(pc \in {"done", "killed"})

-----------------------------------------------------------------------------
(* What the call promises its caller, and how this module implements it *)

Contract == INSTANCE ReplaceContract WITH
  content <- IF promotion_complete THEN "new" ELSE IF HoldsOld THEN "old" ELSE "mixed",
  saved <- \A n \in Old : backup[n] = OldObj,
  result <- CASE outcome = "running" -> "pending"
              [] outcome \in {"returned", "raised"} -> outcome
              [] OTHER -> "abandoned"

\* The call, seen from dest, the backup and what it tells its caller, is a
\* behaviour of the contract: dest is taken apart only while the backup is
\* whole, "returned" means new and "raised" means old.
ImplementsContract == Contract!Spec
=============================================================================
