--------------------------- MODULE ValidationRun ---------------------------
(***************************************************************************)
(* validation._validate_hmie over the batches of a `datamaite validate`    *)
(* command, with its result cache: _validate_pairs_cached looks every pair *)
(* up, _validate_and_yield sends the others to a pool of worker processes  *)
(* (or validates them in line), and results are accumulated and stored as  *)
(* they complete.  Several commands run at once on one database.           *)
(*                                                                         *)
(* Discovery, the findings themselves and their cap are other modules; a   *)
(* result here is the contents it was computed from (see ValidationCache). *)
(***************************************************************************)
EXTENDS ValidationCache

CONSTANTS
  Plan,             \* Procs -> the batches of its command, sequences of pairs
  Workers,          \* the --workers of every command
  EditsDuringRuns,  \* may files change while a command runs?
  MaxRuns,          \* bound: commands a process runs, one after the other
  MaxFaults         \* bound: crashes, kills, interrupts and corrupted rows

ASSUME WorkersAssumption == Workers \in Nat \ {0}
ASSUME BoundsAssumption == MaxFaults \in Nat /\ MaxRuns \in Nat

\* A command has a batch at least, and discovery yields each pair once.
ASSUME PlanAssumption ==
  /\ Plan \in [Procs -> Seq(Seq(Pairs)) \ {<<>>}]
  /\ \A p \in Procs : \A k, l \in DOMAIN Plan[p] :
       \A i \in DOMAIN Plan[p][k], j \in DOMAIN Plan[p][l] :
         Plan[p][k][i] = Plan[p][l][j] => k = l /\ i = j

VARIABLES
  run,     \* Procs -> the state of the command
  edits,   \* file edits so far, the next content version
  faults   \* faults so far

vars == <<file, disk, db, run, edits, faults>>

NoTask == [x \in Pairs |-> "none"]
Idle == [pc |-> "idle", check_video |-> FALSE, use_cache |-> FALSE, batch |-> 0,
         todo |-> <<>>, uncached |-> <<>>, unsubmitted |-> <<>>, broken |-> FALSE,
         task |-> NoTask, got |-> [x \in Pairs |-> Crash],
         answers |-> [x \in Pairs |-> <<>>], reports |-> <<>>, runs |-> 0]

\* How a process ends that runs no more of its code.
Deaths == {"killed", "terminated"}
Active(p) == run[p].pc \notin {"idle", "done", "escaped", "interrupted"} \cup Deaths
Become(p, r) == run' = [run EXCEPT ![p] = r]
Fault == faults < MaxFaults /\ faults' = faults + 1
Tasks(p, state) == {x \in Pairs : run[p].task[x] = state}

Init ==
  /\ file = [x \in Pairs |-> [ann |-> 0, vid |-> 0]]
  /\ disk = NoRows
  /\ db = [p \in Procs |-> Closed]
  /\ run = [p \in Procs |-> Idle]
  /\ edits = 0 /\ faults = 0

-----------------------------------------------------------------------------
(* _cmd_validate, and _validate_hmie of one batch after the other *)

Batch(r, k, p) ==
  [r EXCEPT !.pc = "lookup", !.batch = k, !.broken = FALSE, !.task = NoTask,
            !.todo = IF r.use_cache THEN Plan[p][k] ELSE <<>>,
            !.uncached = IF r.use_cache THEN <<>> ELSE Plan[p][k],
            !.unsubmitted = <<>>]

Start(p) ==
  /\ ~Active(p) /\ run[p].runs < MaxRuns
  /\ \E check_video, use_cache, clean \in BOOLEAN :
       /\ Become(p, Batch([Idle EXCEPT !.check_video = check_video, !.use_cache = use_cache,
                                       !.runs = run[p].runs + 1], 1, p))
       /\ IF use_cache THEN OpenCache(p, clean) ELSE UNCHANGED <<disk, db>>
  /\ UNCHANGED <<file, edits, faults>>

\* Phase 1: look up the pairs in order; a hit contributes its stored result.
LookUp(p) ==
  LET r == run[p]
      x == Head(r.todo)
      rest == [r EXCEPT !.todo = Tail(@)]
  IN /\ r.pc = "lookup" /\ r.todo # <<>>
     /\ \/ /\ LookupHit(p, x, r.check_video)
           /\ Become(p, [rest EXCEPT !.answers[x] = Append(@, View(p)[x].result)])
        \/ /\ LookupMiss(p, x, r.check_video) \/ LookupEvict(p, x, r.check_video)
           /\ Become(p, [rest EXCEPT !.uncached = Append(@, x)])
     /\ UNCHANGED <<file, edits, faults>>

\* Phase 2: nothing to do, in line (one pair or one worker), or a pool.
Dispatch(p) ==
  LET r == run[p]
  IN /\ r.pc = "lookup" /\ r.todo = <<>>
     /\ Become(p, IF Len(r.uncached) <= 1 \/ Workers = 1
                  THEN [r EXCEPT !.pc = "serial"]
                  ELSE [r EXCEPT !.pc = "submit", !.unsubmitted = r.uncached])
     /\ UNCHANGED <<file, disk, db, edits, faults>>

\* pool.submit for one pair after the other, before any result is taken.
Submit(p) ==
  LET r == run[p]
  IN /\ r.pc = "submit" /\ ~r.broken
     /\ Become(p, IF r.unsubmitted = <<>> THEN [r EXCEPT !.pc = "collect"]
                  ELSE [r EXCEPT !.unsubmitted = Tail(@), !.task[Head(r.unsubmitted)] = "queued"])
     /\ UNCHANGED <<file, disk, db, edits, faults>>

\* The command goes on to its next batch, or to the end of _cmd_validate.
NextBatch(p, r) ==
  IF r.batch < Len(Plan[p]) THEN Batch(r, r.batch + 1, p) ELSE [r EXCEPT !.pc = "closing"]

\* submit on a broken pool raises: no result of the batch survives.  Among
\* several batches _run_batches reports validate_crash and goes on; a single
\* one ends the command with the exception.
SubmitRaises(p) ==
  LET r == run[p]
  IN /\ r.pc = "submit" /\ r.broken /\ r.unsubmitted # <<>>
     /\ IF Len(Plan[p]) = 1
        THEN Become(p, [r EXCEPT !.pc = "escaping"])
        ELSE Become(p, NextBatch(p, [r EXCEPT
               !.reports = Append(@, [kind |-> "validate_crash", hits |-> 0, misses |-> 0])]))
     /\ UNCHANGED <<file, disk, db, edits, faults>>

\* The pool broke after the last submit.
SubmitEnds(p) ==
  /\ run[p].pc = "submit" /\ run[p].broken /\ run[p].unsubmitted = <<>>
  /\ Become(p, [run[p] EXCEPT !.pc = "collect"])
  /\ UNCHANGED <<file, disk, db, edits, faults>>

-----------------------------------------------------------------------------
(* _validate_pair in a worker (or in line) *)

\* In line, the next pair is validated only after the last one was delivered.
Ready(p, x) ==
  LET r == run[p]
  IN \/ r.task[x] = "queued" /\ ~r.broken /\ Cardinality(Tasks(p, "running")) < Workers
     \/ /\ r.pc = "serial" /\ r.task[x] = "none"
        /\ \E i \in DOMAIN r.uncached :
             r.uncached[i] = x /\ \A j \in 1..(i - 1) : r.task[r.uncached[j]] = "delivered"

\* check_annotation_schema reads the annotation; without video checks that is all.
ReadAnnotation(p, x) ==
  LET r == run[p]
  IN /\ Active(p) /\ Ready(p, x)
     /\ Become(p, [r EXCEPT !.got[x] = [ann |-> file[x].ann, vid |-> Unread],
                            !.task[x] = IF r.check_video THEN "running" ELSE "finished"])
     /\ UNCHANGED <<file, disk, db, edits, faults>>

\* video_path.exists(), probe_video and the consistency checks.
ReadVideo(p, x) ==
  /\ Active(p) /\ run[p].task[x] = "running"
  /\ Become(p, [run[p] EXCEPT !.got[x].vid = file[x].vid, !.task[x] = "finished"])
  /\ UNCHANGED <<file, disk, db, edits, faults>>

\* _safe_validate_pair turns an exception into a worker_crash finding.
WorkerRaises(p, x) ==
  /\ Active(p) /\ (run[p].task[x] = "running" \/ Ready(p, x)) /\ Fault
  /\ Become(p, [run[p] EXCEPT !.got[x] = Crash, !.task[x] = "finished"])
  /\ UNCHANGED <<file, disk, db, edits>>

\* Faulty variant: only the pairs in a worker get an answer.
PoolBreaks_Queued(p) ==
  LET r == run[p]
      hurt == Tasks(p, "running")
  IN /\ r.pc \in {"submit", "collect"} /\ hurt # {} /\ Fault
     /\ Become(p, [r EXCEPT
          !.broken = TRUE,
          !.task = [x \in Pairs |-> IF x \in hurt THEN "finished" ELSE r.task[x]],
          !.got = [x \in Pairs |-> IF x \in hurt THEN Crash ELSE r.got[x]]])
     /\ UNCHANGED <<file, disk, db, edits>>

\* A worker process dies: every future without a result raises BrokenProcessPool.
PoolBreaks(p) ==
  LET r == run[p]
      hurt == Tasks(p, "queued") \cup Tasks(p, "running")
  IN /\ r.pc \in {"submit", "collect"} /\ Tasks(p, "running") # {} /\ Fault
     /\ Become(p, [r EXCEPT
          !.broken = TRUE,
          !.task = [x \in Pairs |-> IF x \in hurt THEN "finished" ELSE r.task[x]],
          !.got = [x \in Pairs |-> IF x \in hurt THEN Crash ELSE r.got[x]]])
     /\ UNCHANGED <<file, disk, db, edits>>

\* Faulty variant: a worker_crash result is memoized like any other.
Cacheable_Any(result) == TRUE

\* No result with a worker_crash finding is stored.
Cacheable(result) == result # Crash

\* Phase 3: in completion order, accumulate the result and store it.
Deliver(p, x) ==
  LET r == run[p]
  IN /\ r.pc \in {"serial", "collect"} /\ r.task[x] = "finished"
     /\ Become(p, [r EXCEPT !.task[x] = "delivered", !.answers[x] = Append(@, r.got[x])])
     /\ IF r.use_cache /\ Cacheable(r.got[x])
        THEN Store(p, x, r.got[x], r.check_video) ELSE UNCHANGED <<disk, db>>
     /\ UNCHANGED <<file, edits, faults>>

\* Faulty variant: a broken pool ends the batch with what it has.
FinishBatch_Broken(p) ==
  LET r == run[p]
  IN /\ r.pc \in {"serial", "collect"}
     /\ r.broken \/ \A i \in DOMAIN r.uncached : r.task[r.uncached[i]] = "delivered"
     /\ Become(p, NextBatch(p, [r EXCEPT
          !.reports = Append(@, [kind |-> "result", hits |-> db[p].hits, misses |-> db[p].misses])]))
     /\ UNCHANGED <<file, disk, db, edits, faults>>

\* _build_result: the counters are those of the cache object.
FinishBatch(p) ==
  LET r == run[p]
  IN /\ r.pc \in {"serial", "collect"}
     /\ \A i \in DOMAIN r.uncached : r.task[r.uncached[i]] = "delivered"
     /\ Become(p, NextBatch(p, [r EXCEPT
          !.reports = Append(@, [kind |-> "result", hits |-> db[p].hits, misses |-> db[p].misses])]))
     /\ UNCHANGED <<file, disk, db, edits, faults>>

\* finally: cache.close()
Finish(p) ==
  /\ run[p].pc \in {"closing", "escaping"}
  /\ Become(p, [run[p] EXCEPT !.pc = IF @ = "closing" THEN "done" ELSE "escaped"])
  /\ Close(p)
  /\ UNCHANGED <<file, edits, faults>>

-----------------------------------------------------------------------------
(* The environment *)

\* Ctrl-C: _on_sigint flushes and closes the cache, then KeyboardInterrupt
\* unwinds the command.
Interrupt(p) ==
  /\ Active(p) /\ Fault
  /\ Become(p, [run[p] EXCEPT !.pc = "interrupted"])
  /\ Close(p)
  /\ UNCHANGED <<file, edits>>

\* No finally clause, no handler and nothing registered with atexit runs.
Die(p, death) ==
  /\ Active(p)
  /\ Become(p, [run[p] EXCEPT !.pc = death])
  /\ Abandon(p)
  /\ UNCHANGED <<file, edits>>

Kill(p) == Fault /\ Die(p, "killed")

\* SIGTERM has no handler (_install_sigint_flush installs one for SIGINT only),
\* and its default action ends the interpreter at once.
Terminate(p) == Fault /\ Die(p, "terminated")

Corrupt(x) ==
  /\ Fault /\ CorruptRow(x)
  /\ UNCHANGED <<run, edits>>

\* A file is rewritten (a new version) or becomes unreadable.
Edit(x) ==
  /\ edits < MaxVersion /\ (EditsDuringRuns \/ \A p \in Procs : ~Active(p))
  /\ edits' = edits + 1
  /\ \E v \in {edits + 1, Gone} :
       file' = [file EXCEPT ![x].ann = v] \/ file' = [file EXCEPT ![x].vid = v]
  /\ UNCHANGED <<disk, db, run, faults>>

Command(p) ==
  \/ LookUp(p) \/ Dispatch(p) \/ Submit(p) \/ SubmitRaises(p) \/ SubmitEnds(p)
  \/ (\E x \in Pairs : ReadAnnotation(p, x) \/ ReadVideo(p, x) \/ Deliver(p, x))
  \/ FinishBatch(p) \/ Finish(p)

Next ==
  \/ \E p \in Procs : \/ Start(p) \/ Command(p) \/ PoolBreaks(p)
                     \/ Interrupt(p) \/ Kill(p) \/ Terminate(p)
  \/ \E p \in Procs, x \in Pairs : WorkerRaises(p, x)
  \/ \E x \in Pairs : Edit(x) \/ Corrupt(x)

Spec == Init /\ [][Next]_vars

\* A started command, its workers included, is scheduled until it ends; a
\* store waits at most the timeout for the lock.
FairSpec == Spec /\ \A p \in Procs : WF_vars(Command(p))

-----------------------------------------------------------------------------
(* Properties *)

TypeOK ==
  /\ file \in [Pairs -> [ann : Contents, vid : Contents]]
  /\ disk \in [Pairs -> Row \cup {NoRow}]
  /\ db \in [Procs -> [open : BOOLEAN, tx : {"none", "begun", "pinned", "stale", "writing"},
                      snap : [Pairs -> Row \cup {NoRow}], pending : [Pairs -> Row \cup {NoRow}],
                      writes : Nat, hits : Nat, misses : Nat]]
  /\ \A p \in Procs :
       /\ run[p].pc \in {"idle", "lookup", "serial", "submit", "collect", "closing", "escaping",
                         "done", "escaped", "interrupted"} \cup Deaths
       /\ run[p].task \in [Pairs -> {"none", "queued", "running", "finished", "delivered"}]
       /\ run[p].got \in [Pairs -> Result \cup {Crash}]
       /\ \A x \in Pairs : run[p].answers[x] \in Seq(Result \cup {Crash})
  /\ edits \in 0..MaxVersion /\ faults \in 0..MaxFaults

\* A pair never contributes twice to a command's findings, and each pair of a
\* reported batch contributed, whichever mix of hits, evicted rows, crashes and
\* completion orders it went through.
EachPairOnce ==
  \A p \in Procs :
    /\ \A x \in Pairs : Len(run[p].answers[x]) <= 1
    /\ \A k \in DOMAIN run[p].reports : run[p].reports[k].kind = "result" =>
         \A i \in DOMAIN Plan[p][k] : run[p].answers[Plan[p][k][i]] # <<>>

\* What validating the pair now would return.
Fresh(x, check_video) ==
  [ann |-> file[x].ann, vid |-> IF check_video THEN file[x].vid ELSE Unread]

\* With files at rest while commands run, a result a command accumulates is
\* the one a validation without cache would return, or a crash of this very
\* command; a lookup without video checks may get the result with them.  (An
\* unreadable video is the exception: see UnreadableIsMiss.)
ResultsAreFresh ==
  \A p \in Procs : Active(p) =>
    \A x \in Pairs : \A i \in DOMAIN run[p].answers[x] :
      LET result == run[p].answers[x][i]
      IN \/ result \in {Crash, Fresh(x, run[p].check_video)}
         \/ ~run[p].check_video /\ result = Fresh(x, TRUE)
         \/ file[x].vid = Gone /\ result.ann = file[x].ann

\* With files at rest while commands run, a row describes the contents whose
\* fingerprints it holds, and never a crash: what makes it safe to serve
\* to every later command ("must not be persisted as cache hits").
RowsDescribeFiles ==
  LET Honest(row) == row = NoRow \/
        row.result \in {Garbage, [ann |-> row.ann, vid |-> IF row.checked THEN row.vid ELSE Unread]}
  IN \A x \in Pairs : Honest(disk[x]) /\ \A p \in Procs : Honest(db[p].pending[x])

\* An uncommitted row is committed as it is, by the batch limit, an eviction,
\* the end of the command or its SIGINT handler, unless the process dies.
OnlyDeathLoses ==
  [][\A p \in Procs, x \in Pairs :
       db[p].pending[x] # NoRow /\ db'[p].pending[x] = NoRow
       => disk'[x] = db[p].pending[x] \/ run'[p].pc \in Deaths]_vars

\* What the flush registered with atexit is there for (ValidationCache.__init__):
\* "so Ctrl-C / SIGTERM don't lose up to 49 pending writes".
OnlyKillLoses ==
  [][\A p \in Procs, x \in Pairs :
       db[p].pending[x] # NoRow /\ db'[p].pending[x] = NoRow
       => disk'[x] = db[p].pending[x] \/ run'[p].pc = "killed"]_vars

\* A death loses fewer than BatchSize rows ("up to 49 pending writes").
UncommittedBounded ==
  \A p \in Procs : Cardinality({x \in Pairs : db[p].pending[x] # NoRow}) < BatchSize

\* A started command ends, so a process is without one again and again: no crash
\* of a worker, broken pool or lock of another process leaves it waiting.
Terminates == \A p \in Procs : []<>~Active(p)

\* "A fingerprint failure is a cache miss" (fingerprint_file): with video checks,
\* a video that cannot be read any more is no hit on a row of when it could.
UnreadableIsMiss ==
  [][\A p \in Procs : db'[p].hits > db[p].hits /\ run[p].check_video =>
       LET x == Head(run[p].todo) IN file[x].vid = Gone => View(p)[x].vid = Gone]_vars

\* A dead worker yields worker_crash findings and never ends the command
\* (_validate_and_yield and _safe_validate_pair: "not run-killers").
WorkersNeverKillRun == \A p \in Procs : run[p].pc # "escaped"
=============================================================================
