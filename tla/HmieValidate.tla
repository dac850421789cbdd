---------------------------- MODULE HmieValidate ----------------------------
(***************************************************************************)
(* The validate command on a directory tree: whether it validates the tree *)
(* as a whole or one batch after the other, what the discovery of each     *)
(* batch turns into findings, how the findings are counted and capped, and *)
(* the exit code.  How a discovered pair is validated is ValidationRun's   *)
(* matter; here its findings are any.                                      *)
(***************************************************************************)
EXTENDS Discovery

CONSTANTS
  Trees,  \* the trees the command is run on: records of dirs, files, flaw
  Caps    \* --max-findings-per-check: naturals, or Unlimited

Unlimited == 1000

ASSUME RunAssumption ==
  /\ Caps \subseteq Nat
  /\ \A t \in Trees : /\ Root \in t.dirs /\ t.dirs \subseteq Dirs
                      /\ t.files \subseteq Videos \cup Jsons /\ t.flaw \in [Dirs -> Flaws]
                      /\ \A d \in t.dirs \ {Root} : Parent[d] \in t.dirs
                      /\ \A f \in t.files : Holder[f] \in t.dirs

VARIABLES
  cap,
  mode,      \* "single" or "multi", once the batches are known
  todo,      \* the batches not validated yet
  counts,    \* the accumulator: check -> findings
  kept,      \* check -> findings kept for the report
  hasError,
  results,   \* what each batch came to
  exit

accVars == <<counts, kept, hasError>>
vars == <<treeVars, walkVars, base, pc, found, cap, mode, todo, accVars, results, exit>>

Severity ==
  [discovery |-> "error", no_annotations |-> "error", orphan_annotation |-> "error",
   pair_error |-> "error", pair_warning |-> "warning",
   orphan_video |-> "warning", multiple_videos |-> "warning"]
Checks == DOMAIN Severity
NoFindings == [c \in Checks |-> 0]

Init ==
  /\ \E t \in Trees : dirs = t.dirs /\ files = t.files /\ flaw = t.flaw
  /\ base = Root /\ pc = "scan" /\ found = Nothing
  /\ frontier = {} /\ snippets = {} /\ scales = {} /\ annotationDirs = {}
  /\ annotations = {} /\ videos = {}
  /\ cap \in Caps
  /\ mode = "single" /\ todo = {} /\ results = {} /\ exit = "running"
  /\ counts = NoFindings /\ kept = NoFindings /\ hasError = FALSE

\* _cmd_validate: two batches or more are validated one by one, else the tree.
FindBatches ==
  /\ pc = "scan"
  /\ \/ /\ BatchScanMayReturn
        /\ IF Cardinality(BatchRoots) <= 1
           THEN StartWalk(Root) /\ mode' = "single" /\ todo' = {}
           ELSE StartWalk(Least(BatchRoots)) /\ mode' = "multi"
                /\ todo' = BatchRoots \ {Least(BatchRoots)}
        /\ UNCHANGED exit
     \/ /\ BatchScanMayRaise
        /\ pc' = "done" /\ exit' = "raised"
        /\ UNCHANGED <<base, walkVars, mode, todo>>
  /\ UNCHANGED <<treeVars, found, cap, accVars, results>>

-----------------------------------------------------------------------------
(* _FindingAccumulator *)

\* Faulty variant: a finding that is not kept is not an error either.
ErrorSeen_Kept(found0) ==
  hasError \/ \E c \in Checks : Severity[c] = "error" /\ found0[c] > 0 /\ cap > 0

ErrorSeen(found0) == hasError \/ \E c \in Checks : Severity[c] = "error" /\ found0[c] > 0

\* found0: how many findings of each check are added.
AddAll(found0) ==
  /\ counts' = [c \in Checks |-> counts[c] + found0[c]]
  /\ kept' = [c \in Checks |-> Min({cap, counts[c] + found0[c]})]
  /\ hasError' = ErrorSeen(found0)

DiscoveryFindings ==
  [NoFindings EXCEPT
     !["discovery"] = IF found.error = "discovery" THEN 1 ELSE 0,
     !["no_annotations"] = IF found.error = "no_annotations" THEN 1 ELSE 0,
     !["orphan_annotation"] = Cardinality(OrphanAnnotations),
     !["orphan_video"] = Cardinality(found.orphanVideos),
     !["multiple_videos"] = Cardinality(found.multi)]

AddDiscoveryFindings ==
  /\ pc = "report"
  /\ AddAll(DiscoveryFindings)
  /\ pc' = IF found.pairs = {} THEN "result" ELSE "pairs"
  /\ UNCHANGED <<treeVars, walkVars, base, found, cap, mode, todo, results, exit>>

ValidatePairs ==
  /\ pc = "pairs"
  /\ \E errors, warnings \in 0..Min({1, Cardinality(found.pairs)}) :
       AddAll([NoFindings EXCEPT !["pair_error"] = errors, !["pair_warning"] = warnings])
  /\ pc' = "result"
  /\ UNCHANGED <<treeVars, walkVars, base, found, cap, mode, todo, results, exit>>

\* _build_result; then the next batch, or the end.
FinishBatch ==
  /\ pc = "result"
  /\ results' = results \cup
       {[batch |-> base, passed |-> ~hasError, counts |-> counts,
         shown |-> \E c \in Checks : kept[c] > 0,
         pairs |-> found.pairs]}
  /\ counts' = NoFindings /\ kept' = NoFindings /\ hasError' = FALSE
  /\ IF todo = {}
     THEN pc' = "exit" /\ UNCHANGED <<base, walkVars, todo>>
     ELSE StartWalk(Least(todo)) /\ todo' = todo \ {Least(todo)}
  /\ UNCHANGED <<treeVars, found, cap, mode, exit>>

\* Faulty variant: the last batch decides.
ExitCode_Last ==
  LET last == CHOOSE r \in results : \A s \in results : s.batch <= r.batch
  IN IF ~last.passed THEN "errors" ELSE IF last.shown THEN "warnings" ELSE "pass"

\* _validate_single and _multi_exit_code: 2, 1 and 0.
ExitCode ==
  IF \E r \in results : ~r.passed THEN "errors"
  ELSE IF \E r \in results : r.shown THEN "warnings" ELSE "pass"

Exit ==
  /\ pc = "exit"
  /\ exit' = ExitCode /\ pc' = "done"
  /\ UNCHANGED <<treeVars, walkVars, base, found, cap, mode, todo, accVars, results>>

Walk == (SkipUnreadable \/ Visit \/ Pair) /\ UNCHANGED <<cap, mode, todo, accVars, results, exit>>

Next ==
  \/ FindBatches \/ Walk \/ AddDiscoveryFindings \/ ValidatePairs \/ FinishBatch \/ Exit

Spec == Init /\ [][Next]_vars

-----------------------------------------------------------------------------
(* Properties *)

TypeOK ==
  /\ dirs \subseteq Dirs /\ files \subseteq Videos \cup Jsons
  /\ flaw \in [Dirs -> Flaws] /\ base \in dirs
  /\ pc \in {"scan", "walk", "report", "pairs", "result", "exit", "done"}
  /\ frontier \cup snippets \cup scales \cup annotationDirs \subseteq dirs
  /\ annotations \subseteq Jsons /\ videos \subseteq Videos
  /\ found.error \in {"none", "discovery", "no_annotations"}
  /\ \A p \in found.pairs : p.ann \in Jsons /\ p.video \in Videos \cup {None}
  /\ cap \in Caps /\ mode \in {"single", "multi"} /\ todo \subseteq dirs
  /\ counts \in [Checks -> Nat] /\ kept \in [Checks -> Nat] /\ hasError \in BOOLEAN
  /\ exit \in {"running", "raised", "pass", "warnings", "errors"}

Reported == UNION {{[batch |-> r.batch, pair |-> p] : p \in r.pairs} : r \in results}

\* The directories that a walk of b owes its caller: those it can get to without
\* passing a metadata directory, a link or a directory it cannot list.
Reachable(b, d) ==
  b \in Above[d] /\ \A e \in Above[d] \ Above[b] : Kind[e] # "metadata" /\ flaw[e] = "none"

\* No annotation is validated twice, whichever of the two ways of pairing and
\* however many batches come across it (the per-snippet and the batch-level
\* path "merge", discover_hmie_pairs).
EachAnnotationOnce ==
  \A x, y \in Reported : x.pair.ann = y.pair.ann => x = y

\* The walk finds what is there: one annotation for each readable JSON that
\* lies in a directory of a snippet, and all videos of readable seq_* directories.
WalkIsComplete ==
  pc = "report" /\ flaw[base] \in {"none", "symlink"} =>
    /\ videos = {v \in Videos \cap files : IsSeq(Holder[v]) /\ Reachable(base, Holder[v])}
    /\ annotations =
         {j \in Jsons \cap files :
            /\ Holder[j] # base /\ Reachable(base, Holder[j]) /\ ~IsSeq(Holder[j])
            /\ \E c \in Children(Parent[Holder[j]]) : IsSeq(c) /\ flaw[c] # "nostat"}

\* A video is taken for an annotation only from the directory that holds both
\* ("within that batch"), and a batch-level annotation only when no other video
\* there has an equally good claim ("an arbitrary pick is worse than an orphan").
PairedWithinBatch ==
  \A x \in Reported : x.pair.video # None =>
    /\ Parent[Holder[x.pair.ann]] \in Above[Holder[x.pair.video]]
    /\ x.pair.via = "batch" =>
         \A v \in Videos \cap files :
           /\ IsSeq(Holder[v]) /\ Reachable(x.batch, Holder[v])
           /\ Parent[Holder[x.pair.ann]] \in Above[Holder[v]] /\ Name[v] = Name[x.pair.video]
           => v = x.pair.video

\* "an annotation without a video is not ML-usable, so the dataset should
\* fail": whatever the cap, in whichever batch.
OrphanFails ==
  exit \in {"pass", "warnings"} => \A x \in Reported : x.pair.video # None

\* "0 = pass, 1 = warnings only, 2 = errors present": over all batches, when
\* at least one finding of a kind is kept.
ExitCodeTells ==
  exit \in {"pass", "warnings", "errors"} /\ cap > 0 =>
    LET seen(s) == \E r \in results, c \in Checks : Severity[c] = s /\ r.counts[c] > 0
    IN exit = IF seen("error") THEN "errors" ELSE IF seen("warning") THEN "warnings" ELSE "pass"

\* find_batch_roots and the walk agree on what a snippet is ("a single source
\* of truth"), but for links and metadata directories, which only the walk
\* passes over: a batch in which it finds no snippet has one of these.
BatchesAgree ==
  pc = "report" /\ mode = "multi" /\ snippets = {} =>
    \E c \in Children(base) :
      (flaw[c] = "symlink" \/ Kind[c] = "metadata") /\ \E g \in Children(c) : IsSeq(g)
=============================================================================
