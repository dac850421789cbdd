---------------------------- MODULE RemoteError ----------------------------
(***************************************************************************)
(* write(dataset, dest, mode="error") on an object store, by several       *)
(* programs at once: writers._write_remote_error.                          *)
(*                                                                         *)
(* A call checks that dest is empty, writes the dataset below a private    *)
(* staging prefix, checks again, then copies the staged objects into dest  *)
(* on a thread pool.  When that raises it deletes every name it meant to   *)
(* promote.  Nothing locks dest: calls on one dest interleave freely, and  *)
(* each may fail, be interrupted or be killed between any two puts.        *)
(*                                                                         *)
(* An object is named by the call that put it.                             *)
(***************************************************************************)
EXTENDS Naturals, FiniteSets

CONSTANTS
  Writers,      \* the concurrent calls
  Names,        \* object names relative to dest
  Files,        \* Writers -> the names of the files the writer returns
  CopyWorkers,  \* threads of a copy pool: min(8, len(pairs)) in the code
  Absent

ASSUME FilesAssumption == Files \in [Writers -> SUBSET Names]
ASSUME WorkersAssumption == CopyWorkers \in Nat \ {0}
ASSUME AbsentAssumption == Absent \notin Writers

VARIABLES
  dest,      \* Names -> the call whose object is there, whole or torn, or Absent
  pc,        \* per call: the statement it is at
  pool,      \* per call: the pool of its _copy_resource_pairs
  promoted,  \* per call: the names the except clause has still to remove
  staged,    \* per call: does the staging prefix hold objects?
  outcome,   \* per call: how it ended
  unremoved  \* per call: the names whose removal raised a suppressed OSError

vars == <<dest, pc, pool, promoted, staged, outcome, unremoved>>

NoPool == [queued |-> {}, running |-> {}, failed |-> {}, abort |-> "no"]
DestEmpty == \A n \in Names : dest[n] = Absent
Goto(w, label) == pc' = [pc EXCEPT ![w] = label]
End(w, how) == outcome' = [outcome EXCEPT ![w] = how]

\* dest is empty, or holds the whole dataset of a call that ended earlier.
Init ==
  /\ \E before \in Writers \cup {Absent} :
       /\ dest = [n \in Names |-> IF before \in Writers /\ n \in Files[before]
                                  THEN before ELSE Absent]
       /\ pc = [w \in Writers |-> IF w = before THEN "done" ELSE "check"]
       /\ outcome = [w \in Writers |-> IF w = before THEN "returned" ELSE "running"]
  /\ pool = [w \in Writers |-> NoPool]
  /\ promoted = [w \in Writers |-> {}]
  /\ staged = [w \in Writers |-> FALSE]
  /\ unremoved = [w \in Writers |-> {}]

-----------------------------------------------------------------------------
(* The try block *)

\* _check_destination(dest, "error"), before anything is written.
FirstCheck(w) ==
  /\ pc[w] = "check"
  /\ IF DestEmpty
     THEN Goto(w, "writing") /\ UNCHANGED outcome
     ELSE Goto(w, "done") /\ End(w, "refused")
  /\ UNCHANGED <<dest, pool, promoted, staged, unremoved>>

\* writer.write(dataset, stage): it may raise having written some of it.
WriteStage(w) ==
  /\ pc[w] = "writing"
  /\ \/ Goto(w, "recheck") /\ UNCHANGED outcome
     \/ Goto(w, "drop_stage") /\ End(w, "raised")
  /\ staged' = [staged EXCEPT ![w] = TRUE]
  /\ UNCHANGED <<dest, pool, promoted, unremoved>>

\* Faulty variant: the check before the staging is taken for good.
SecondCheck_Trusting(w) ==
  /\ pc[w] = "recheck"
  /\ Goto(w, "promoting")
  /\ promoted' = [promoted EXCEPT ![w] = Files[w]]
  /\ pool' = [pool EXCEPT ![w] = [NoPool EXCEPT !.queued = Files[w]]]
  /\ UNCHANGED <<dest, staged, outcome, unremoved>>

\* _check_destination(dest, "error") again; promoted lists every final name
\* before the first copy starts.
SecondCheck(w) ==
  /\ pc[w] = "recheck"
  /\ IF DestEmpty
     THEN /\ Goto(w, "promoting")
          /\ promoted' = [promoted EXCEPT ![w] = Files[w]]
          /\ pool' = [pool EXCEPT ![w] = [NoPool EXCEPT !.queued = Files[w]]]
          /\ UNCHANGED outcome
     ELSE Goto(w, "drop_stage") /\ End(w, "refused") /\ UNCHANGED <<promoted, pool>>
  /\ UNCHANGED <<dest, staged, unremoved>>

CopyStart(w, n) ==
  /\ pc[w] = "promoting" /\ n \in pool[w].queued
  /\ Cardinality(pool[w].running) < CopyWorkers
  /\ pool' = [pool EXCEPT ![w].queued = @ \ {n}, ![w].running = @ \cup {n}]
  /\ UNCHANGED <<dest, pc, promoted, staged, outcome, unremoved>>

\* The threads of the pool run whatever statement the call is at.
CopyOk(w, n) ==
  /\ pc[w] # "killed" /\ n \in pool[w].running
  /\ dest' = [dest EXCEPT ![n] = w]
  /\ pool' = [pool EXCEPT ![w].running = @ \ {n}]
  /\ UNCHANGED <<pc, promoted, staged, outcome, unremoved>>

\* copy_resource failed: the name is untouched, removed, or left torn.
CopyFail(w, n) ==
  /\ pc[w] # "killed" /\ n \in pool[w].running
  /\ \E left \in {dest[n], Absent, w} : dest' = [dest EXCEPT ![n] = left]
  /\ pool' = [pool EXCEPT ![w].running = @ \ {n}, ![w].failed = @ \cup {n}]
  /\ UNCHANGED <<pc, promoted, staged, outcome, unremoved>>

\* Faulty variant: the abort is recorded as a kind CopyAborts does not know.
CopyNotice_Unnamed(w) ==
  /\ pc[w] = "promoting" /\ pool[w].failed # {} /\ pool[w].abort = "no"
  /\ pool' = [pool EXCEPT ![w].queued = {}, ![w].abort = "failure"]
  /\ UNCHANGED <<dest, pc, promoted, staged, outcome, unremoved>>

\* list(executor.map(...)) meets the failed copy: the queued ones are cancelled.
CopyNotice(w) ==
  /\ pc[w] = "promoting" /\ pool[w].failed # {} /\ pool[w].abort = "no"
  /\ pool' = [pool EXCEPT ![w].queued = {}, ![w].abort = "exception"]
  /\ UNCHANGED <<dest, pc, promoted, staged, outcome, unremoved>>

\* Faulty variant: the exception leaves the pool while copies still run.
Settled_NotAwaited(w) == pool[w].queued = {}

Settled(w) == pool[w].queued = {} /\ pool[w].running = {}

CopyDone(w) ==
  /\ pc[w] = "promoting" /\ Settled(w) /\ pool[w].failed = {} /\ pool[w].abort = "no"
  /\ Goto(w, "drop_stage") /\ End(w, "returned")
  /\ UNCHANGED <<dest, pool, promoted, staged, unremoved>>

-----------------------------------------------------------------------------
(* The except and finally clauses *)

CopyAborts(w) ==
  /\ pc[w] = "promoting" /\ Settled(w) /\ pool[w].abort # "no"
  /\ IF pool[w].abort = "exception"
     THEN Goto(w, "undoing") /\ UNCHANGED outcome
     ELSE Goto(w, "drop_stage") /\ End(w, "interrupted")
  /\ UNCHANGED <<dest, pool, promoted, staged, unremoved>>

\* remove_resource(path, missing_ok=True), any OSError suppressed.
UndoOne(w, n) ==
  /\ pc[w] = "undoing" /\ n \in promoted[w]
  /\ promoted' = [promoted EXCEPT ![w] = @ \ {n}]
  /\ \/ dest' = [dest EXCEPT ![n] = Absent] /\ UNCHANGED unremoved
     \/ unremoved' = [unremoved EXCEPT ![w] = @ \cup {n}] /\ UNCHANGED dest
  /\ UNCHANGED <<pc, pool, staged, outcome>>

\* Faulty variant: an object that cannot be removed is tried again for ever.
UndoDone_AllGone(w) ==
  /\ pc[w] = "undoing" /\ promoted[w] = {} /\ unremoved[w] = {}
  /\ Goto(w, "drop_stage") /\ End(w, "raised")
  /\ UNCHANGED <<dest, pool, promoted, staged, unremoved>>

UndoDone(w) ==
  /\ pc[w] = "undoing" /\ promoted[w] = {}
  /\ Goto(w, "drop_stage") /\ End(w, "raised")
  /\ UNCHANGED <<dest, pool, promoted, staged, unremoved>>

\* finally: remove_tree(stage), its OSError suppressed.
DropStage(w) ==
  /\ pc[w] = "drop_stage"
  /\ \E left \in BOOLEAN : staged' = [staged EXCEPT ![w] = left /\ @]
  /\ Goto(w, "done")
  /\ UNCHANGED <<dest, pool, promoted, outcome, unremoved>>

\* KeyboardInterrupt: the except clause is skipped, finally runs.  It may also
\* break off the removals, or the finally clause itself.
Interrupt(w) ==
  \/ /\ pc[w] \in {"writing", "recheck", "undoing"}
     /\ Goto(w, "drop_stage") /\ End(w, "interrupted")
     /\ UNCHANGED <<dest, pool, promoted, staged, unremoved>>
  \/ /\ pc[w] \in {"check", "drop_stage"}
     /\ Goto(w, "done") /\ End(w, "interrupted")
     /\ UNCHANGED <<dest, pool, promoted, staged, unremoved>>
  \/ /\ pc[w] = "promoting" /\ pool[w].abort = "no"
     /\ pool' = [pool EXCEPT ![w].queued = {}, ![w].abort = "interrupt"]
     /\ UNCHANGED <<dest, pc, promoted, staged, outcome, unremoved>>

Kill(w) ==
  /\ pc[w] \notin {"done", "killed"}
  /\ Goto(w, "killed")
  /\ UNCHANGED <<dest, pool, promoted, staged, outcome, unremoved>>

Call(w) ==
  \/ FirstCheck(w) \/ WriteStage(w) \/ SecondCheck(w)
  \/ \E n \in Names : CopyStart(w, n) \/ CopyOk(w, n) \/ CopyFail(w, n) \/ UndoOne(w, n)
  \/ CopyNotice(w) \/ CopyDone(w) \/ CopyAborts(w) \/ UndoDone(w) \/ DropStage(w)

Next == \E w \in Writers : Call(w) \/ Interrupt(w) \/ Kill(w)

Spec == Init /\ [][Next]_vars

\* Each program is scheduled until it ends or is killed.
FairSpec == Spec /\ \A w \in Writers : WF_vars(Call(w))

-----------------------------------------------------------------------------
(* Properties *)

TypeOK ==
  /\ dest \in [Names -> Writers \cup {Absent}]
  /\ pc \in [Writers -> {"check", "writing", "recheck", "promoting", "undoing",
                         "drop_stage", "done", "killed"}]
  /\ pool \in [Writers -> [queued : SUBSET Names, running : SUBSET Names, failed : SUBSET Names,
                           abort : {"no", "exception", "interrupt"}]]
  /\ promoted \in [Writers -> SUBSET Names]
  /\ staged \in [Writers -> BOOLEAN]
  /\ outcome \in [Writers -> {"running", "returned", "raised", "refused", "interrupted"}]
  /\ unremoved \in [Writers -> SUBSET Names]

Whole(w) == \A n \in Files[w] : dest[n] = w
BeforePromotion(w) == pc[w] \in {"check", "writing", "recheck"}
CompletedAlone(w) == /\ outcome[w] = "returned" /\ Files[w] # {}
                     /\ \A v \in Writers \ {w} : BeforePromotion(v) \/ outcome[v] = "refused"

\* A dataset that one error-mode write has completed stays whole, whatever the
\* calls that had not begun to promote by then go on to do: the check that
\* follows the staging refuses them (mode="error" of _check_destination).
CompletedSurvives == \A w \in Writers : [](CompletedAlone(w) => []Whole(w))

\* A call that raised has taken back what it had promoted, also the copies that
\* were still running when the first one failed, but for the names whose
\* removal failed as well.
RaisedLeavesNothing ==
  \A w \in Writers : outcome[w] = "raised" =>
    \A n \in Names : dest[n] = w => n \in unremoved[w]

\* A call whose process lives ends.
Terminates == \A w \in Writers : <>(pc[w] \in {"done", "killed"})

\* "without deleting unrelated final objects" (the docstring of
\* _write_remote_error): a call removes no object that another call put.
KeepsUnrelated ==
  [][\A w \in Writers, n \in Names :
       (pc[w] = "undoing" /\ n \in promoted[w] \ promoted'[w] /\ dest'[n] = Absent)
       => dest[n] \in {w, Absent}]_vars
=============================================================================
