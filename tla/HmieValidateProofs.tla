------------------------- MODULE HmieValidateProofs --------------------------
(***************************************************************************)
(* What `datamaite validate` says of an HMIE tree, proved for every tree of *)
(* finitely many directories and files, every way in which a directory     *)
(* fails to be read, and every cap.  First the exit code and the orphans;  *)
(* then the walk: it finds what is there, whatever of it was skipped, and  *)
(* each annotation is paired once, with a video of its batch.              *)
(***************************************************************************)
EXTENDS HmieValidate, FiniteSetTheorems, FunctionTheorems, WellFoundedInduction, TLAPS

-----------------------------------------------------------------------------
(* Sets of numbers *)

\* The first of a sorted list is on the list.
LEMMA LeastIn ==
  ASSUME NEW S, S \subseteq Nat, S # {}
  PROVE  Least(S) \in S
<1>1. \E x \in S : \A y \in S : ~(<<y, x>> \in OpToRel(<, Nat))
  BY NatLessThanWellFounded, WFMin
<1>2. PICK x \in S : \A y \in S : ~(y < x)
  BY <1>1 DEF OpToRel
<1>3. \A y \in S : x <= y
  BY <1>2
<1>4. QED BY <1>3 DEF Least, Min

\* The number of findings kept.
LEMMA MinOfTwo ==
  ASSUME NEW a \in Nat, NEW b \in Nat
  PROVE  Min({a, b}) \in Nat /\ (a > 0 => (Min({a, b}) > 0 <=> b > 0))
<1>1. \E x \in {a, b} : \A y \in {a, b} : x <= y
  <2>1. a <= b \/ b <= a
    OBVIOUS
  <2>2. QED BY <2>1
<1>2. Min({a, b}) \in {a, b} /\ \A y \in {a, b} : Min({a, b}) <= y
  BY <1>1 DEF Min
<1>3. QED BY <1>2

\* A list made of a finite one is finite.
LEMMA ImageFinite ==
  ASSUME NEW S, IsFiniteSet(S), NEW f
  PROVE  IsFiniteSet({f[x] : x \in S})
<1> DEFINE T == {f[x] : x \in S}
           g == [x \in S |-> f[x]]
<1>1. g \in Surjection(S, T)
  BY Fun_IsSurj
<1>2. QED BY <1>1, FS_Surjection

-----------------------------------------------------------------------------
(* The inductive invariant *)

\* Findings of an error check, and findings at all.
Errors(n) == \E c \in Checks : Severity[c] = "error" /\ n[c] > 0
Any(n) == \E c \in Checks : n[c] > 0

\* The discovery of a batch, of which there are finitely many pairs.
FoundOK ==
  /\ IsFiniteSet(found.pairs) /\ IsFiniteSet(found.orphanVideos) /\ IsFiniteSet(found.multi)
  /\ pc = "report" /\ found.error = "none" => found.orphanVideos = videos \ {p.video : p \in found.pairs}

\* What the accumulator knows of the findings it has not kept.
AccOK == /\ hasError <=> Errors(counts)
         /\ cap > 0 => \A c \in Checks : kept[c] > 0 <=> counts[c] > 0

\* A batch whose discovery has been reported has failed when it has an orphan.
OrphanOK == pc \in {"pairs", "result"} /\ ~hasError => OrphanAnnotations = {}

\* What the result of a batch says of its findings.
ResultsOK ==
  \A r \in results :
    /\ r.passed <=> ~Errors(r.counts)
    /\ cap > 0 => (r.shown <=> Any(r.counts))
    /\ r.passed => \A p \in r.pairs : p.video # None

ExitOK == /\ pc # "done" => exit = "running"
          /\ exit \in {"pass", "warnings", "errors"} => exit = ExitCode

IInv == /\ TypeOK /\ Root \in dirs /\ dirs \subseteq Dirs
        /\ FoundOK /\ AccOK /\ OrphanOK /\ ResultsOK /\ ExitOK

\* Before the walk there are no findings.
LEMMA InitInv == Init => IInv
<1> SUFFICES ASSUME Init PROVE IInv
  OBVIOUS
<1>1. /\ Root \in dirs /\ dirs \subseteq Dirs /\ files \subseteq Videos \cup Jsons
      /\ flaw \in [Dirs -> Flaws] /\ cap \in Caps
  BY RunAssumption DEF Init
<1>2. TypeOK
  BY <1>1 DEF Init, TypeOK, Nothing, NoFindings
<1>3. FoundOK
  BY FS_EmptySet DEF Init, FoundOK, Nothing
<1>4. AccOK /\ OrphanOK /\ ResultsOK /\ ExitOK
  BY DEF Init, AccOK, OrphanOK, ResultsOK, ExitOK, NoFindings, Errors
<1>5. QED BY <1>1, <1>2, <1>3, <1>4 DEF IInv

-----------------------------------------------------------------------------
(* The batches and the walk *)

\* A walk starts with nothing found.
LEMMA StartTyping ==
  ASSUME IInv, NEW d \in dirs, StartWalk(d), UNCHANGED <<treeVars, found, cap>>,
         mode' \in {"single", "multi"}, todo' \subseteq dirs, exit' = "running",
         counts' \in [Checks -> Nat], kept' \in [Checks -> Nat], hasError' \in BOOLEAN,
         AccOK', ResultsOK'
  PROVE  IInv'
<1>1. TypeOK'
  BY DEF IInv, TypeOK, StartWalk, treeVars
<1>2. FoundOK' /\ OrphanOK' /\ ExitOK'
  BY DEF IInv, FoundOK, OrphanOK, ExitOK, StartWalk
<1>3. QED BY <1>1, <1>2 DEF IInv, treeVars

\* The choice between one walk and one per batch starts every walk from its initial state.
LEMMA FindBatchesInv == ASSUME IInv, FindBatches PROVE IInv'
<1>1. AccOK' /\ ResultsOK'
  BY DEF IInv, AccOK, ResultsOK, FindBatches, accVars
<1>2. BatchRoots \subseteq dirs /\ dirs \subseteq Nat
  BY TreeAssumption DEF IInv, BatchRoots, Children
<1>3. CASE StartWalk(Root) /\ mode' = "single" /\ todo' = {} /\ UNCHANGED exit
  <2>1. exit = "running"
    BY DEF FindBatches, IInv, ExitOK
  <2>2. QED BY <1>1, <1>3, <2>1, StartTyping DEF FindBatches, IInv, TypeOK, accVars
<1>4. CASE /\ Cardinality(BatchRoots) > 1 /\ StartWalk(Least(BatchRoots)) /\ mode' = "multi"
           /\ todo' = BatchRoots \ {Least(BatchRoots)} /\ UNCHANGED exit
  <2>1. BatchRoots # {}
    BY <1>4, FS_EmptySet
  <2>2. Least(BatchRoots) \in dirs /\ todo' \subseteq dirs
    BY <1>2, <1>4, <2>1, LeastIn
  <2>3. exit = "running"
    BY DEF FindBatches, IInv, ExitOK
  <2>4. QED BY <1>1, <1>4, <2>2, <2>3, StartTyping DEF FindBatches, IInv, TypeOK, accVars
<1>5. CASE pc' = "done" /\ exit' = "raised" /\ UNCHANGED <<base, walkVars, mode, todo>>
  <2>1. UNCHANGED <<treeVars, found, cap, accVars, results>>
    BY DEF FindBatches
  <2>2. TypeOK'
    BY <1>5, <2>1 DEF IInv, TypeOK, treeVars, walkVars, accVars
  <2>3. FoundOK' /\ OrphanOK' /\ ExitOK'
    BY <1>5, <2>1 DEF IInv, FoundOK, OrphanOK, ExitOK
  <2>4. QED BY <1>1, <2>1, <2>2, <2>3 DEF IInv, treeVars
<1>6. Cardinality(BatchRoots) \in Nat
  <2>1. IsFiniteSet(BatchRoots)
    BY <1>2, TreeAssumption, FS_Subset DEF IInv
  <2>2. QED BY <2>1, FS_CardinalityType
<1>7. QED BY <1>3, <1>4, <1>5, <1>6 DEF FindBatches

\* The walk reads directories that exist, and leaves the findings alone.
LEMMA WalkInv ==
  ASSUME IInv, SkipUnreadable \/ Visit, UNCHANGED <<cap, mode, todo, accVars, results, exit>>
  PROVE  IInv'
<1>1. pc = "walk" /\ UNCHANGED <<treeVars, base, pc, found>>
  BY DEF SkipUnreadable, Visit
<1>2. FoundOK' /\ AccOK' /\ OrphanOK' /\ ResultsOK' /\ ExitOK'
  <2>1. FoundOK' /\ AccOK' /\ OrphanOK'
    BY <1>1 DEF IInv, FoundOK, AccOK, OrphanOK, accVars
  <2>2. ResultsOK' /\ ExitOK'
    BY <1>1 DEF IInv, ResultsOK, ExitOK, ExitCode
  <2>3. QED BY <2>1, <2>2
<1>3. frontier' \cup snippets' \cup scales' \cup annotationDirs' \subseteq dirs
      /\ annotations' \subseteq Jsons /\ videos' \subseteq Videos
  <2>1. CASE SkipUnreadable
    BY <2>1 DEF SkipUnreadable, IInv, TypeOK
  <2>2. CASE Visit
    <3> DEFINE d == Least(frontier)
    <3>1. d \in dirs
      BY <2>2, LeastIn, TreeAssumption DEF Visit, IInv, TypeOK
    <3>2. Descend(d) \subseteq dirs /\ AnnotationDirsOf(d) \subseteq dirs
      BY DEF Descend, AnnotationDirsOf, Dirnames, Children
    <3>3. FilesIn(d, Videos) \subseteq Videos /\ FilesIn(d, Jsons) \subseteq Jsons
      BY DEF FilesIn
    <3> HIDE DEF d
    <3>4. QED BY <2>2, <3>1, <3>2, <3>3 DEF Visit, IInv, TypeOK, d
  <2>3. QED BY <2>1, <2>2
<1>4. TypeOK'
  BY <1>1, <1>3 DEF IInv, TypeOK, treeVars, accVars
<1>5. QED BY <1>1, <1>2, <1>4 DEF IInv, treeVars

-----------------------------------------------------------------------------
(* Pairing *)

\* The video a snippet or a name gives is one of those found.
LEMMA PairTyping ==
  ASSUME IInv
  PROVE  /\ \A s : BestVideo(s) \in Videos \cup {None}
         /\ \A a, d : Match(a, BatchVideos(d)) \in Videos \cup {None}
<1>1. videos \subseteq Videos /\ Videos \subseteq Nat
  BY TreeAssumption DEF IInv, TypeOK
<1>2. ASSUME NEW s, SeqDirsOf(s) # {} PROVE BestVideo(s) \in Videos
  <2> DEFINE mp4 == {d \in SeqDirsOf(s) : Kind[d] = "seq_mp4"}
             here == {v \in videos : Holder[v] = ChosenSeq(s)}
  <2>1. SeqDirsOf(s) \subseteq Nat /\ mp4 \subseteq Nat
    BY <1>1, TreeAssumption DEF SeqDirsOf
  <2>2. ChosenSeq(s) \in SeqDirsOf(s)
    BY <1>2, <2>1, LeastIn DEF ChosenSeq
  <2>3. here # {} /\ here \subseteq Nat
    BY <1>1, <2>2 DEF SeqDirsOf
  <2>4. Least(here) \in here
    BY <2>3, LeastIn
  <2>5. QED BY <1>1, <1>2, <2>4 DEF BestVideo
<1>3. ASSUME NEW a, NEW d PROVE Match(a, BatchVideos(d)) \in Videos \cup {None}
  <2> DEFINE candidates == BatchVideos(d)
             matches == {v \in candidates : Name[v] \in Embeds[a]}
             best == {v \in matches : \A w \in matches : Length[Name[w]] <= Length[Name[v]]}
  <2>1. best \subseteq Videos
    BY <1>1 DEF BatchVideos
  <2>2. Match(a, candidates) = IF Cardinality(best) = 1 THEN Least(best) ELSE None
    BY DEF Match
  <2> HIDE DEF best
  <2>3. Cardinality(best) = 1 => best # {}
    BY FS_EmptySet
  <2>4. Cardinality(best) = 1 => Least(best) \in Videos
    BY <1>1, <2>1, <2>3, LeastIn
  <2>5. QED BY <2>2, <2>4
<1>4. QED BY <1>2, <1>3 DEF BestVideo

\* The pairs of a batch are finitely many, and of the files that are there.
LEMMA PairsFinite ==
  ASSUME IInv
  PROVE  /\ IsFiniteSet(SnippetPairs \cup BatchPairs) /\ IsFiniteSet(MultiVideoDirs)
         /\ \A p \in SnippetPairs \cup BatchPairs : p.ann \in Jsons /\ p.video \in Videos \cup {None}
<1>1. /\ IsFiniteSet(annotations) /\ IsFiniteSet(videos) /\ annotations \subseteq Jsons
  BY TreeAssumption, FS_Subset DEF IInv, TypeOK
<1> DEFINE J == {j \in Jsons \cap files \cap LooksScale : Holder[j] \in BatchScales}
           f == [a \in annotations |->
                  [ann |-> a, video |-> BestVideo(Parent[Holder[a]]), snippet |-> Parent[Holder[a]],
                   via |-> "snippet"]]
           g == [a \in J |->
                  [ann |-> a, video |-> Match(a, BatchVideos(Holder[a])), via |-> "batch",
                   snippet |-> LET v == Match(a, BatchVideos(Holder[a]))
                               IN IF v = None THEN None ELSE Parent[Holder[v]]]]
           h == [v \in videos |-> ChosenSeq(Parent[Holder[v]])]
<1>2. IsFiniteSet(J)
  BY TreeAssumption, FS_Subset
<1>3. SnippetPairs = {f[a] : a \in annotations}
  BY DEF SnippetPairs
<1>4. BatchPairs = {g[a] : a \in J}
  BY DEF BatchPairs
<1>5. MultiVideoDirs \subseteq {h[v] : v \in videos}
  BY DEF MultiVideoDirs
<1>6. \A p \in SnippetPairs \cup BatchPairs : p.ann \in Jsons /\ p.video \in Videos \cup {None}
  BY <1>1, PairTyping DEF SnippetPairs, BatchPairs
<1> HIDE DEF J, f, g, h
<1>7. IsFiniteSet(SnippetPairs) /\ IsFiniteSet(BatchPairs) /\ IsFiniteSet({h[v] : v \in videos})
  BY <1>1, <1>2, <1>3, <1>4, ImageFinite
<1>8. IsFiniteSet(SnippetPairs \cup BatchPairs)
  BY <1>7, FS_Union
<1>9. IsFiniteSet(MultiVideoDirs)
  BY <1>5, <1>7, FS_Subset
<1>10. QED BY <1>6, <1>8, <1>9

\* Pairing leaves finite sets of pairs and orphans, the latter being the videos no pair uses.
LEMMA PairInv ==
  ASSUME IInv, Pair, UNCHANGED <<cap, mode, todo, accVars, results, exit>> PROVE IInv'
<1> DEFINE all == SnippetPairs \cup BatchPairs
           done == [error |-> "none", pairs |-> all, orphanVideos |-> videos \ Matched,
                    multi |-> MultiVideoDirs]
<1>1. /\ pc = "walk" /\ pc' = "report" /\ UNCHANGED <<treeVars, base, walkVars>>
      /\ found' \in {Failure("discovery"), Failure("no_annotations"), done}
  BY DEF Pair
<1>2. IsFiniteSet(videos \ Matched)
  <2>1. IsFiniteSet(videos)
    BY TreeAssumption, FS_Subset DEF IInv, TypeOK
  <2>2. QED BY <2>1, FS_Subset
<1>3. /\ IsFiniteSet(found'.pairs) /\ IsFiniteSet(found'.orphanVideos) /\ IsFiniteSet(found'.multi)
      /\ found'.error \in {"none", "discovery", "no_annotations"}
      /\ \A p \in found'.pairs : p.ann \in Jsons /\ p.video \in Videos \cup {None}
      /\ found'.error = "none" => found'.orphanVideos = videos \ {p.video : p \in found'.pairs}
  <2>1. CASE found' \in {Failure("discovery"), Failure("no_annotations")}
    BY <2>1, FS_EmptySet DEF Failure, Nothing
  <2>2. CASE found' = done
    BY <1>2, <2>2, PairsFinite DEF Matched
  <2>3. QED BY <1>1, <2>1, <2>2
<1>4. TypeOK'
  BY <1>1, <1>3 DEF IInv, TypeOK, treeVars, walkVars, accVars
<1>5. FoundOK' /\ AccOK' /\ OrphanOK'
  BY <1>1, <1>3 DEF IInv, FoundOK, AccOK, OrphanOK, accVars, walkVars
<1>6. ResultsOK' /\ ExitOK'
  BY <1>1 DEF IInv, ResultsOK, ExitOK
<1>7. QED BY <1>1, <1>4, <1>5, <1>6 DEF IInv, treeVars

-----------------------------------------------------------------------------
(* The findings *)

\* The accumulator counts what it is given, kept or not.
LEMMA AddTyping ==
  ASSUME IInv, NEW n \in [Checks -> Nat], AddAll(n), UNCHANGED cap
  PROVE  /\ counts' \in [Checks -> Nat] /\ kept' \in [Checks -> Nat] /\ hasError' \in BOOLEAN
         /\ AccOK' /\ (hasError \/ Errors(n) <=> hasError')
<1>1. /\ counts \in [Checks -> Nat] /\ cap \in Nat /\ hasError \in BOOLEAN
      /\ hasError <=> Errors(counts)
  BY RunAssumption DEF IInv, TypeOK, AccOK
<1>2. \A c \in Checks : counts[c] + n[c] \in Nat
  BY <1>1
<1>3. \A c \in Checks : /\ Min({cap, counts[c] + n[c]}) \in Nat
                        /\ cap > 0 => (Min({cap, counts[c] + n[c]}) > 0 <=> counts[c] + n[c] > 0)
  BY <1>1, <1>2, MinOfTwo
<1>4. counts' \in [Checks -> Nat] /\ kept' \in [Checks -> Nat]
      /\ \A c \in Checks : counts'[c] = counts[c] + n[c] /\ kept'[c] = Min({cap, counts[c] + n[c]})
  BY <1>2, <1>3 DEF AddAll
<1>5. hasError' <=> hasError \/ Errors(n)
  BY DEF AddAll, ErrorSeen, Errors
<1>6. ASSUME NEW c \in Checks PROVE counts'[c] > 0 <=> counts[c] > 0 \/ n[c] > 0
  <2>1. counts[c] \in Nat /\ n[c] \in Nat /\ counts'[c] = counts[c] + n[c]
    BY <1>1, <1>4
  <2>2. QED BY <2>1
<1>7. Errors(counts') <=> Errors(counts) \/ Errors(n)
  BY <1>6 DEF Errors
<1>8. hasError' \in BOOLEAN
  BY DEF AddAll, ErrorSeen
<1>9. AccOK'
  BY <1>1, <1>3, <1>4, <1>5, <1>7 DEF AccOK, Errors
<1>10. QED BY <1>4, <1>5, <1>8, <1>9

\* What discovery reports enters the accumulator: an orphan annotation makes it hold an error.
LEMMA AddDiscoveryFindingsInv == ASSUME IInv, AddDiscoveryFindings PROVE IInv'
<1>1. /\ pc = "report" /\ AddAll(DiscoveryFindings)
      /\ pc' \in {"pairs", "result"}
      /\ UNCHANGED <<treeVars, walkVars, base, found, cap, mode, todo, results, exit>>
  BY DEF AddDiscoveryFindings
<1>2. IsFiniteSet(OrphanAnnotations)
  BY FS_Subset DEF IInv, FoundOK, OrphanAnnotations
<1>3. /\ Cardinality(OrphanAnnotations) \in Nat /\ Cardinality(found.orphanVideos) \in Nat
      /\ Cardinality(found.multi) \in Nat
      /\ Cardinality(OrphanAnnotations) = 0 <=> OrphanAnnotations = {}
  BY <1>2, FS_CardinalityType, FS_EmptySet DEF IInv, FoundOK
<1>4. DiscoveryFindings \in [Checks -> Nat]
      /\ DiscoveryFindings["orphan_annotation"] = Cardinality(OrphanAnnotations)
  BY <1>3 DEF DiscoveryFindings, NoFindings, Checks, Severity
<1>5. OrphanAnnotations # {} => Errors(DiscoveryFindings)
  <2>1. "orphan_annotation" \in Checks /\ Severity["orphan_annotation"] = "error"
    BY DEF Checks, Severity
  <2>2. OrphanAnnotations # {} => DiscoveryFindings["orphan_annotation"] > 0
    BY <1>3, <1>4
  <2>3. QED BY <2>1, <2>2 DEF Errors
<1> HIDE DEF DiscoveryFindings
<1>6. /\ counts' \in [Checks -> Nat] /\ kept' \in [Checks -> Nat] /\ hasError' \in BOOLEAN
      /\ AccOK' /\ (Errors(DiscoveryFindings) => hasError')
  BY <1>1, <1>4, AddTyping
<1>7. TypeOK'
  BY <1>1, <1>6 DEF IInv, TypeOK, treeVars, walkVars
<1>8. FoundOK' /\ OrphanOK'
  BY <1>1, <1>5, <1>6 DEF IInv, FoundOK, OrphanOK, OrphanAnnotations
<1>9. ResultsOK' /\ ExitOK'
  BY <1>1 DEF IInv, ResultsOK, ExitOK
<1>10. QED BY <1>1, <1>6, <1>7, <1>8, <1>9 DEF IInv, treeVars

\* The findings of the pairs enter the accumulator, whichever they are.
LEMMA ValidatePairsInv == ASSUME IInv, ValidatePairs PROVE IInv'
<1>1. /\ pc = "pairs" /\ pc' = "result"
      /\ UNCHANGED <<treeVars, walkVars, base, found, cap, mode, todo, results, exit>>
  BY DEF ValidatePairs
<1>2. PICK errors \in 0..Min({1, Cardinality(found.pairs)}), warnings \in 0..Min({1, Cardinality(found.pairs)}) :
        AddAll([NoFindings EXCEPT !["pair_error"] = errors, !["pair_warning"] = warnings])
  BY DEF ValidatePairs
<1> DEFINE n == [NoFindings EXCEPT !["pair_error"] = errors, !["pair_warning"] = warnings]
<1>3. n \in [Checks -> Nat]
  <2>1. Min({1, Cardinality(found.pairs)}) \in Nat
    BY MinOfTwo, FS_CardinalityType DEF IInv, FoundOK
  <2>2. errors \in Nat /\ warnings \in Nat
    BY <2>1
  <2>3. QED BY <2>2 DEF NoFindings
<1> HIDE DEF n
<1>4. /\ counts' \in [Checks -> Nat] /\ kept' \in [Checks -> Nat] /\ hasError' \in BOOLEAN
      /\ AccOK' /\ (hasError => hasError')
  BY <1>1, <1>2, <1>3, AddTyping DEF n
<1>5. TypeOK'
  BY <1>1, <1>4 DEF IInv, TypeOK, treeVars, walkVars
<1>6. FoundOK' /\ OrphanOK'
  BY <1>1, <1>4 DEF IInv, FoundOK, OrphanOK, OrphanAnnotations
<1>7. ResultsOK' /\ ExitOK'
  BY <1>1 DEF IInv, ResultsOK, ExitOK
<1>8. QED BY <1>1, <1>4, <1>5, <1>6, <1>7 DEF IInv, treeVars

-----------------------------------------------------------------------------
(* The results *)

\* A batch's result is what its accumulator knows.
LEMMA FinishBatchInv == ASSUME IInv, FinishBatch PROVE IInv'
<1> DEFINE r == [batch |-> base, passed |-> ~hasError, counts |-> counts,
                 shown |-> \E c \in Checks : kept[c] > 0, pairs |-> found.pairs]
<1>1. /\ pc = "result" /\ results' = results \cup {r}
      /\ counts' = NoFindings /\ kept' = NoFindings /\ hasError' = FALSE
      /\ UNCHANGED <<treeVars, found, cap, mode, exit>>
  BY DEF FinishBatch
<1>2. r.counts = counts /\ r.pairs = found.pairs /\ (r.passed <=> ~hasError)
      /\ (r.shown <=> \E c \in Checks : kept[c] > 0)
  OBVIOUS
<1> HIDE DEF r
<1>3. /\ r.passed <=> ~Errors(r.counts)
      /\ cap > 0 => (r.shown <=> Any(r.counts))
      /\ r.passed => \A p \in r.pairs : p.video # None
  BY <1>1, <1>2 DEF IInv, AccOK, OrphanOK, OrphanAnnotations, Any
<1>4. ResultsOK'
  BY <1>1, <1>3 DEF IInv, ResultsOK
<1>5. /\ NoFindings \in [Checks -> Nat]
      /\ AccOK'
  BY <1>1 DEF NoFindings, AccOK, Errors
<1>6. exit = "running"
  BY <1>1 DEF IInv, ExitOK
<1>7. CASE todo = {}
  <2>1. pc' = "exit" /\ UNCHANGED <<base, walkVars, todo>>
    BY <1>7 DEF FinishBatch
  <2>2. TypeOK'
    BY <1>1, <1>5, <2>1 DEF IInv, TypeOK, treeVars, walkVars
  <2>3. FoundOK' /\ OrphanOK' /\ ExitOK'
    BY <1>1, <1>6, <2>1 DEF IInv, FoundOK, OrphanOK, ExitOK
  <2>4. QED BY <1>1, <1>4, <1>5, <2>2, <2>3 DEF IInv, treeVars
<1>8. CASE todo # {}
  <2>1. StartWalk(Least(todo)) /\ todo' = todo \ {Least(todo)}
    BY <1>8 DEF FinishBatch
  <2>2. todo \subseteq dirs /\ dirs \subseteq Nat
    BY TreeAssumption DEF IInv, TypeOK
  <2>3. Least(todo) \in todo
    BY <1>8, <2>2, LeastIn
  <2>4. QED BY <1>1, <1>4, <1>5, <1>6, <2>1, <2>2, <2>3, StartTyping DEF IInv, TypeOK
<1>9. QED BY <1>7, <1>8

\* The exit code is computed from the reports collected.
LEMMA ExitInv == ASSUME IInv, Exit PROVE IInv'
<1>1. /\ pc = "exit" /\ pc' = "done" /\ exit' = ExitCode
      /\ UNCHANGED <<treeVars, walkVars, base, found, cap, mode, todo, accVars, results>>
  BY DEF Exit
<1>2. ExitCode \in {"errors", "warnings", "pass"} /\ ExitCode' = ExitCode
  BY <1>1 DEF ExitCode
<1>3. TypeOK'
  BY <1>1, <1>2 DEF IInv, TypeOK, treeVars, walkVars, accVars
<1>4. FoundOK' /\ AccOK' /\ OrphanOK'
  BY <1>1 DEF IInv, FoundOK, AccOK, OrphanOK, accVars
<1>5. ResultsOK' /\ ExitOK'
  BY <1>1, <1>2 DEF IInv, ResultsOK, ExitOK
<1>6. QED BY <1>1, <1>3, <1>4, <1>5 DEF IInv, treeVars

-----------------------------------------------------------------------------
(* The theorems *)

\* The inductive invariant: what the accumulator and the results know of the findings.
THEOREM Invariance == Spec => []IInv
<1>1. IInv /\ [Next]_vars => IInv'
  <2> SUFFICES ASSUME IInv, [Next]_vars PROVE IInv'
    OBVIOUS
  <2>1. CASE UNCHANGED vars
    <3>1. TypeOK'
      BY <2>1 DEF IInv, TypeOK, vars, treeVars, walkVars, accVars
    <3>2. FoundOK' /\ AccOK' /\ OrphanOK'
      BY <2>1 DEF IInv, FoundOK, AccOK, OrphanOK, OrphanAnnotations, vars, accVars, walkVars
    <3>3. ResultsOK' /\ ExitOK'
      BY <2>1 DEF IInv, ResultsOK, ExitOK, ExitCode, vars
    <3>4. QED BY <2>1, <3>1, <3>2, <3>3 DEF IInv, vars, treeVars
  <2>2. QED BY <2>1, FindBatchesInv, WalkInv, PairInv, AddDiscoveryFindingsInv, ValidatePairsInv,
               FinishBatchInv, ExitInv DEF Next, Walk
<1>2. QED BY <1>1, InitInv, PTL DEF Spec

\* Every variable of the discovery, the accumulator and the command keeps its type.
THEOREM TypeCorrect == Spec => []TypeOK
<1>1. IInv => TypeOK
  BY DEF IInv
<1>2. QED BY <1>1, Invariance, PTL

\* "an annotation without a video is not ML-usable, so the dataset should fail": whatever the cap,
\* in whichever batch.
THEOREM OrphanFailsHolds == Spec => []OrphanFails
<1>1. IInv => OrphanFails
  <2>1. ASSUME IInv, exit \in {"pass", "warnings"}, NEW x \in Reported PROVE x.pair.video # None
    <3>1. PICK r \in results : \E p \in r.pairs : x = [batch |-> r.batch, pair |-> p]
      BY <2>1 DEF Reported
    <3>2. exit = ExitCode
      BY <2>1 DEF IInv, ExitOK
    <3>3. r.passed
      BY <2>1, <3>2 DEF ExitCode
    <3>4. \A p \in r.pairs : p.video # None
      BY <2>1, <3>3 DEF IInv, ResultsOK
    <3>5. QED BY <3>1, <3>4
  <2>2. QED BY <2>1 DEF OrphanFails
<1>2. QED BY <1>1, Invariance, PTL

\* "0 = pass, 1 = warnings only, 2 = errors present": over all batches, when at least one finding
\* of a kind is kept.
THEOREM ExitCodeTellsHolds == Spec => []ExitCodeTells
<1>1. IInv => ExitCodeTells
  <2> SUFFICES ASSUME IInv, exit \in {"pass", "warnings", "errors"}, cap > 0
               PROVE  LET seen(s) == \E r \in results, c \in Checks : Severity[c] = s /\ r.counts[c] > 0
                      IN exit = IF seen("error") THEN "errors"
                                ELSE IF seen("warning") THEN "warnings" ELSE "pass"
    BY DEF ExitCodeTells
  <2> DEFINE seen(s) == \E r \in results, c \in Checks : Severity[c] = s /\ r.counts[c] > 0
  <2>1. exit = ExitCode
    BY DEF IInv, ExitOK
  <2>2. \A r \in results : (r.passed <=> ~Errors(r.counts)) /\ (r.shown <=> Any(r.counts))
    BY DEF IInv, ResultsOK
  <2>3. seen("error") <=> \E r \in results : ~r.passed
    BY <2>2 DEF Errors
  <2>4. seen("error") \/ seen("warning") <=> \E r \in results : r.shown
    <3>1. \A c \in Checks : Severity[c] \in {"error", "warning"}
      BY DEF Checks, Severity
    <3>2. QED BY <2>2, <3>1 DEF Any
  <2> HIDE DEF seen
  <2>5. QED BY <2>1, <2>3, <2>4 DEF ExitCode, seen
<1>2. QED BY <1>1, Invariance, PTL

-----------------------------------------------------------------------------
(* Directories and those above them *)

\* Of some directories one comes first.
LEMMA FirstDir ==
  ASSUME NEW S, S \subseteq Dirs, S # {}
  PROVE  \E d \in S : \A e \in S : ~(e < d)
<1>1. S \subseteq Nat
  BY TreeAssumption
<1>2. \E d \in S : \A e \in S : ~(<<e, d>> \in OpToRel(<, Nat))
  BY <1>1, NatLessThanWellFounded, WFMin
<1>3. QED BY <1>1, <1>2 DEF OpToRel

\* A directory and its parent, which comes before it.
LEMMA ParentFirst ==
  ASSUME NEW d \in Dirs
  PROVE  /\ d \in Nat
         /\ d = Root => Above[d] = {Root}
         /\ d # Root => Parent[d] \in Dirs /\ Parent[d] < d /\ Above[d] = {d} \cup Above[Parent[d]]
BY TreeAssumption

\* Those above a directory come before it.
LEMMA AboveTyping ==
  \A d \in Dirs : d \in Above[d] /\ Above[d] \subseteq Dirs /\ \A e \in Above[d] : e <= d
<1> DEFINE S == {d \in Dirs : ~(d \in Above[d] /\ Above[d] \subseteq Dirs /\ \A e \in Above[d] : e <= d)}
<1> SUFFICES ASSUME S # {} PROVE FALSE
  OBVIOUS
<1>1. PICK d \in S : \A e \in S : ~(e < d)
  BY FirstDir
<1>2. d = Root => FALSE
  BY ParentFirst
<1>3. d # Root => FALSE
  <2> SUFFICES ASSUME d # Root PROVE FALSE
    OBVIOUS
  <2>1. Parent[d] \in Dirs /\ Parent[d] < d /\ Above[d] = {d} \cup Above[Parent[d]]
    BY ParentFirst
  <2>2. Above[Parent[d]] \subseteq Dirs /\ \A e \in Above[Parent[d]] : e <= Parent[d]
    BY <1>1, <2>1
  <2>3. \A e \in Above[d] : e \in Dirs /\ e <= d
    <3> TAKE e \in Above[d]
    <3>1. CASE e = d
      BY <3>1, ParentFirst
    <3>2. CASE e \in Above[Parent[d]]
      <4>1. e \in Dirs /\ e <= Parent[d]
        BY <2>2, <3>2
      <4>2. e \in Nat /\ d \in Nat /\ Parent[d] \in Nat
        BY <2>1, <4>1, ParentFirst
      <4>3. QED BY <2>1, <4>1, <4>2
    <3>3. QED BY <2>1, <3>1, <3>2
  <2>4. QED BY <2>1, <2>3
<1>4. QED BY <1>2, <1>3

\* What is above one that is above is above.
LEMMA AboveTransitive == \A d \in Dirs : \A e \in Above[d] : Above[e] \subseteq Above[d]
<1> DEFINE S == {d \in Dirs : ~ \A e \in Above[d] : Above[e] \subseteq Above[d]}
<1> SUFFICES ASSUME S # {} PROVE FALSE
  OBVIOUS
<1>1. PICK d \in S : \A e \in S : ~(e < d)
  BY FirstDir
<1>2. d # Root
  BY ParentFirst
<1>3. Parent[d] \in Dirs /\ Parent[d] < d /\ Above[d] = {d} \cup Above[Parent[d]]
  BY <1>2, ParentFirst
<1>4. \A e \in Above[Parent[d]] : Above[e] \subseteq Above[Parent[d]]
  BY <1>1, <1>3
<1>5. QED BY <1>3, <1>4

\* On the way from a directory to one below it there is a child.
LEMMA AboveChild ==
  \A e \in Dirs : \A d \in Above[e] \ {e} : \E c \in Above[e] \ {Root} : Parent[c] = d
<1> DEFINE S == {e \in Dirs : ~ \A d \in Above[e] \ {e} : \E c \in Above[e] \ {Root} : Parent[c] = d}
<1> SUFFICES ASSUME S # {} PROVE FALSE
  OBVIOUS
<1>1. PICK e \in S : \A f \in S : ~(f < e)
  BY FirstDir
<1>2. e # Root
  BY ParentFirst
<1>3. Parent[e] \in Dirs /\ Parent[e] < e /\ Above[e] = {e} \cup Above[Parent[e]]
  BY <1>2, ParentFirst
<1>4. \A d \in Above[Parent[e]] \ {Parent[e]} : \E c \in Above[Parent[e]] \ {Root} : Parent[c] = d
  BY <1>1, <1>3
<1>5. QED BY <1>2, <1>3, <1>4

\* A directory lies below at most one child of the root.
LEMMA OneTop ==
  ASSUME NEW d \in Dirs, NEW a \in Above[d] \ {Root}, NEW b \in Above[d] \ {Root},
         Parent[a] = Root, Parent[b] = Root
  PROVE  a = b
<1> DEFINE Tops(e) == {c \in Above[e] \ {Root} : Parent[c] = Root}
           S == {e \in Dirs : ~ \A x, y \in Tops(e) : x = y}
<1> SUFFICES ASSUME S # {} PROVE FALSE
  OBVIOUS
<1>1. PICK e \in S : \A f \in S : ~(f < e)
  BY FirstDir
<1>2. e # Root
  BY ParentFirst
<1>3. Parent[e] \in Dirs /\ Parent[e] < e /\ Above[e] = {e} \cup Above[Parent[e]]
  BY <1>2, ParentFirst
<1>4. \A x, y \in Tops(Parent[e]) : x = y
  BY <1>1, <1>3
<1>5. Parent[e] = Root => Tops(Parent[e]) = {}
  BY ParentFirst, TreeAssumption
<1>6. QED BY <1>3, <1>4, <1>5

-----------------------------------------------------------------------------
(* The inductive invariant *)

\* Trees have no gaps.
Closed == /\ \A d \in dirs \ {Root} : Parent[d] \in dirs
          /\ \A f \in files : Holder[f] \in dirs

Listed == flaw[base] \notin {"unreadable", "throttled"}
Owed(d) == d \in dirs /\ Reachable(base, d) /\ Listed
Ahead(d) == \E f \in frontier : f \in Above[d]
Seen(d) == Owed(d) /\ ~Ahead(d)
HasSeq(d) == \E c \in Dirnames(d) : IsSeq(c)

\* What is on the stack: one directory at most on every path, and none that is not owed but for
\* those that will turn out to be unreadable.
Stack ==
  \A f \in frontier :
    /\ f \in dirs /\ base \in Above[f]
    /\ f # base => Owed(Parent[f]) /\ f \in Descend(Parent[f])
    /\ \A g \in frontier : f \in Above[g] => f = g

\* The walk has collected what is in the directories seen, not more and not less.
Collected ==
  /\ videos = {v \in Videos \cap files : IsSeq(Holder[v]) /\ Seen(Holder[v])}
  /\ annotations = {j \in Jsons \cap files : /\ Holder[j] # base /\ Seen(Holder[j]) /\ ~IsSeq(Holder[j])
                                             /\ HasSeq(Parent[Holder[j]])}
  /\ snippets = {d \in dirs : Seen(d) /\ HasSeq(d)}
  /\ scales = {d \in dirs : Seen(d) /\ Kind[d] = "scale"}
  /\ annotationDirs = {d \in dirs \ {Root} : Seen(Parent[d]) /\ d \in AnnotationDirsOf(Parent[d])}

Walking == /\ pc = "walk" => Stack /\ Collected
           /\ pc = "report" => frontier = {} /\ Collected

\* What is promised of the pair of an annotation in a batch.
PairOK(b, p) ==
  /\ p.ann \in Jsons \cap files /\ b \in Above[Holder[p.ann]]
  /\ p.video # None => Parent[Holder[p.ann]] \in Above[Holder[p.video]]
  /\ p.video # None /\ p.via = "batch" =>
       \A v \in Videos \cap files :
         /\ IsSeq(Holder[v]) /\ Reachable(b, Holder[v])
         /\ Parent[Holder[p.ann]] \in Above[Holder[v]] /\ Name[v] = Name[p.video]
         => v = p.video
Paired(b, pairs) == /\ \A p \in pairs : PairOK(b, p)
                    /\ \A p, q \in pairs : p.ann = q.ann => p = q

PairsOK == /\ pc \in {"report", "pairs", "result"} => Paired(base, found.pairs)
           /\ \A r \in results : Paired(r.batch, r.pairs)

\* Each batch has its turn once; several are children of the root.
BatchesOK ==
  /\ pc = "scan" => results = {}
  /\ \A r \in results : r.batch \notin todo /\ (pc \in {"walk", "report", "pairs", "result"} => r.batch # base)
  /\ base \notin todo
  /\ \A r, s \in results : r.batch = s.batch => r = s
  /\ mode = "single" => todo = {} /\ base = Root /\ \A r \in results : r.batch = Root
  /\ mode = "multi" => /\ ~HasSnippetChildren(Root) /\ base \in BatchRoots /\ todo \subseteq BatchRoots
                       /\ \A r \in results : r.batch \in BatchRoots

DInv == Closed /\ Walking /\ PairsOK /\ BatchesOK

-----------------------------------------------------------------------------
(* The walk *)

\* The directories above one that exists exist.
LEMMA AboveExists == ASSUME IInv, Closed PROVE \A d \in dirs : Above[d] \subseteq dirs
<1> DEFINE S == {d \in dirs : ~(Above[d] \subseteq dirs)}
<1> SUFFICES ASSUME S # {} PROVE FALSE
  OBVIOUS
<1>1. dirs \subseteq Dirs
  BY DEF IInv
<1>2. PICK d \in S : \A e \in S : ~(e < d)
  BY <1>1, FirstDir
<1>3. d # Root
  BY <1>1, <1>2, ParentFirst
<1>4. Parent[d] \in dirs /\ Parent[d] < d /\ Above[d] = {d} \cup Above[Parent[d]]
  BY <1>1, <1>2, <1>3, ParentFirst DEF Closed
<1>5. QED BY <1>2, <1>4

\* No directory is above those that come before it.
LEMMA NoneBefore ==
  ASSUME NEW d \in Dirs, NEW e \in Dirs, d \in Above[e]
  PROVE  d \in Nat /\ e \in Nat /\ d <= e /\ (e \in Above[d] => d = e)
<1>1. d \in Nat /\ e \in Nat /\ d <= e /\ (e \in Above[d] => e <= d)
  BY AboveTyping, ParentFirst
<1>2. QED BY <1>1

\* What is owed was found by its parent.
LEMMA OwedParent ==
  ASSUME IInv, Closed, NEW d, Owed(d), d # base
  PROVE  d # Root /\ Owed(Parent[d]) /\ d \in Descend(Parent[d]) /\ flaw[d] = "none"
<1>1. d \in Dirs /\ base \in Dirs /\ base \in Above[d]
  BY DEF IInv, TypeOK, Owed, Reachable
<1>2. d # Root
  BY <1>1, ParentFirst
<1>3. Above[d] = {d} \cup Above[Parent[d]] /\ Parent[d] \in dirs
  BY <1>1, <1>2, ParentFirst DEF Closed, Owed
<1>4. Owed(Parent[d])
  BY <1>1, <1>3 DEF Owed, Reachable
<1>5. d \in Above[d] \ Above[base]
  BY <1>1, NoneBefore, AboveTyping
<1>6. flaw[d] = "none" /\ Kind[d] # "metadata"
  BY <1>5 DEF Owed, Reachable
<1>7. d \in Descend(Parent[d])
  BY <1>2, <1>6 DEF Descend, Dirnames, Children, Owed
<1>8. QED BY <1>2, <1>4, <1>6, <1>7

\* What its parent found is owed when it can be listed.
LEMMA OwedChild ==
  ASSUME IInv, NEW p, Owed(p), NEW d \in Descend(p), flaw[d] \notin {"unreadable", "throttled"}
  PROVE  Owed(d)
<1>1. d \in dirs /\ d \in Dirs /\ d # Root /\ Parent[d] = p
  BY DEF IInv, Descend, Dirnames, Children
<1>2. Above[d] = {d} \cup Above[p]
  BY <1>1, ParentFirst
<1>3. Kind[d] # "metadata" /\ flaw[d] = "none"
  BY <1>1 DEF IInv, TypeOK, Flaws, Descend, Dirnames
<1>4. QED BY <1>1, <1>2, <1>3 DEF Owed, Reachable

\* A directory that is next and can be listed is owed.
LEMMA NextOwed ==
  ASSUME IInv, Stack, NEW d \in frontier, flaw[d] \notin {"unreadable", "throttled"}
  PROVE  Owed(d)
<1>1. CASE d = base
  BY <1>1, AboveTyping DEF Stack, Owed, Reachable, Listed
<1>2. CASE d # base
  <2>1. Owed(Parent[d]) /\ d \in Descend(Parent[d])
    BY <1>2 DEF Stack
  <2>2. QED BY <2>1, OwedChild
<1>3. QED BY <1>1, <1>2

\* The children of a directory that is visited take its place on the stack.
LEMMA VisitStack ==
  ASSUME IInv, Stack, NEW d \in frontier, flaw[d] \notin {"unreadable", "throttled"},
         frontier' = (frontier \ {d}) \cup Descend(d), UNCHANGED <<treeVars, base>>
  PROVE  Stack'
<1>1. /\ dirs' = dirs /\ flaw' = flaw /\ base' = base /\ frontier \subseteq dirs /\ dirs \subseteq Dirs
      /\ \A p : Owed(p)' <=> Owed(p)
      /\ \A p : Descend(p)' = Descend(p)
  BY DEF treeVars, Stack, IInv, Owed, Reachable, Listed, Descend, Dirnames, Children
<1>2. Owed(d) /\ d \in Dirs
  BY <1>1, NextOwed
<1>3. ASSUME NEW c \in Descend(d)
      PROVE  c \in dirs /\ c \in Dirs /\ Parent[c] = d /\ d < c /\ Above[c] = {c} \cup Above[d]
  BY <1>1, ParentFirst DEF Descend, Dirnames, Children
<1>4. ASSUME NEW f \in frontier' PROVE f \in dirs /\ base \in Above[f]
  <2>1. CASE f \in frontier
    BY <2>1 DEF Stack
  <2>2. CASE f \in Descend(d)
    BY <1>2, <1>3, <2>2 DEF Owed, Reachable
  <2>3. QED BY <2>1, <2>2
<1>5. ASSUME NEW f \in frontier', f # base PROVE Owed(Parent[f]) /\ f \in Descend(Parent[f])
  <2>1. CASE f \in frontier
    BY <1>5, <2>1 DEF Stack
  <2>2. CASE f \in Descend(d)
    BY <1>2, <1>3, <2>2
  <2>3. QED BY <2>1, <2>2
<1>6. ASSUME NEW f \in frontier', NEW g \in frontier', f \in Above[g] PROVE f = g
  <2>1. CASE f \in frontier \ {d} /\ g \in frontier \ {d}
    BY <1>6, <2>1 DEF Stack
  <2>2. CASE f \in frontier \ {d} /\ g \in Descend(d)
    <3>1. f \in Above[d] => f = d
      BY <2>2 DEF Stack
    <3>2. QED BY <1>3, <1>6, <2>2, <3>1
  <2>3. CASE f \in Descend(d) /\ g \in frontier \ {d}
    <3>1. d \in Above[f]
      BY <1>2, <1>3, <2>3, AboveTyping
    <3>2. d \in Above[g]
      BY <1>1, <1>6, <2>3, <3>1, AboveTransitive
    <3>3. QED BY <2>3, <3>2 DEF Stack
  <2>4. CASE f \in Descend(d) /\ g \in Descend(d)
    <3>1. f \notin Above[d]
      BY <1>2, <1>3, <2>4, NoneBefore
    <3>2. QED BY <1>3, <1>6, <2>4, <3>1
  <2>5. QED BY <2>1, <2>2, <2>3, <2>4
<1>7. QED BY <1>1, <1>4, <1>5, <1>6 DEF Stack

\* A visit makes one directory more seen.
LEMMA VisitSeen ==
  ASSUME IInv, Closed, Stack, NEW d \in frontier, flaw[d] \notin {"unreadable", "throttled"},
         frontier' = (frontier \ {d}) \cup Descend(d), UNCHANGED <<treeVars, base>>
  PROVE  \A e : Seen(e)' <=> Seen(e) \/ e = d
<1>1. /\ frontier \subseteq dirs /\ dirs \subseteq Dirs /\ base \in Dirs
      /\ \A p : Owed(p)' <=> Owed(p)
  BY DEF treeVars, Stack, IInv, TypeOK, Owed, Reachable, Listed
<1>2. Owed(d) /\ d \in Dirs /\ base \in Above[d]
  BY <1>1, NextOwed DEF Owed, Reachable
<1>3. ASSUME NEW c \in Descend(d)
      PROVE  c \in Dirs /\ c \notin Above[d] /\ d \in Above[c]
  <2>1. c \in Dirs /\ c # Root /\ Parent[c] = d
    BY <1>1 DEF Descend, Dirnames, Children
  <2>2. d < c /\ Above[c] = {c} \cup Above[d]
    BY <2>1, ParentFirst
  <2>3. QED BY <1>2, <2>1, <2>2, NoneBefore, AboveTyping
<1> TAKE e
<1>4. ASSUME Seen(e) PROVE Seen(e)'
  <2>1. e \in Dirs
    BY <1>1, <1>4 DEF Seen, Owed
  <2>2. \A c \in Descend(d) : c \notin Above[e]
    BY <1>3, <1>4, <2>1, AboveTransitive DEF Seen, Ahead
  <2>3. QED BY <1>1, <1>4, <2>2 DEF Seen, Ahead
<1>5. Seen(d)'
  <2>1. \A f \in frontier \ {d} : f \notin Above[d]
    BY DEF Stack
  <2>2. QED BY <1>1, <1>2, <1>3, <2>1 DEF Seen, Ahead
<1>6. ASSUME Seen(e)', ~Seen(e), e # d PROVE FALSE
  <2>1. Owed(e) /\ Ahead(e) /\ e \in dirs /\ e \in Dirs
    BY <1>1, <1>6 DEF Seen, Owed
  <2>2. d \in Above[e]
    BY <1>6, <2>1 DEF Seen, Ahead
  <2>3. PICK c \in Above[e] \ {Root} : Parent[c] = d
    BY <1>6, <2>1, <2>2, AboveChild
  <2>4. c \in dirs /\ c \in Dirs /\ d < c
    BY <1>1, <2>1, <2>3, AboveExists, ParentFirst
  <2>5. c \notin Above[base]
    <3>1. SUFFICES ASSUME c \in Above[base] PROVE FALSE
      OBVIOUS
    <3>2. c <= base /\ base <= d /\ c \in Nat /\ base \in Nat /\ d \in Nat
      BY <1>1, <1>2, <2>4, <3>1, NoneBefore
    <3>3. QED BY <2>4, <3>2
  <2>6. Kind[c] # "metadata" /\ flaw[c] = "none"
    BY <2>1, <2>3, <2>5 DEF Owed, Reachable
  <2>7. c \in Descend(d)
    BY <2>3, <2>4, <2>6 DEF Descend, Dirnames, Children
  <2>8. QED BY <1>6, <2>3, <2>7 DEF Seen, Ahead
<1>7. QED BY <1>4, <1>5, <1>6

\* A visit collects what is in the directory, its annotations included: whether it is a directory for
\* them was decided when its parent was visited.
LEMMA VisitCollected ==
  ASSUME IInv, Closed, Stack, Collected, Visit
  PROVE  Stack' /\ Collected'
<1> DEFINE d == Least(frontier)
<1>1. /\ frontier # {} /\ flaw[d] \notin {"unreadable", "throttled"}
      /\ frontier' = (frontier \ {d}) \cup Descend(d) /\ UNCHANGED <<treeVars, base>>
      /\ scales' = scales \cup (IF Kind[d] = "scale" THEN {d} ELSE {})
      /\ snippets' = snippets \cup (IF \E c \in Dirnames(d) : IsSeq(c) THEN {d} ELSE {})
      /\ annotationDirs' = annotationDirs \cup AnnotationDirsOf(d)
      /\ videos' = videos \cup (IF IsSeq(d) THEN FilesIn(d, Videos) ELSE {})
      /\ annotations' = annotations \cup (IF d \in annotationDirs' THEN FilesIn(d, Jsons) ELSE {})
  BY DEF Visit
<1>2. d \in frontier /\ d \in dirs /\ dirs \subseteq Dirs /\ base \in Dirs
  <2>1. frontier \subseteq Nat
    BY TreeAssumption DEF IInv, TypeOK
  <2>2. QED BY <1>1, <2>1, LeastIn DEF Stack, IInv, TypeOK
<1> HIDE DEF d
<1>3. Stack'
  BY <1>1, <1>2, VisitStack
<1> DEFINE Now(e) == Seen(e) \/ e = d
<1>4. \A e : Seen(e)' <=> Now(e)
  BY <1>1, <1>2, VisitSeen
<1>5. /\ dirs' = dirs /\ files' = files /\ base' = base
      /\ \A e : Dirnames(e)' = Dirnames(e)
      /\ \A e : HasSeq(e)' <=> HasSeq(e)
      /\ \A e : AnnotationDirsOf(e)' = AnnotationDirsOf(e)
  BY <1>1 DEF treeVars, Dirnames, Children, HasSeq, AnnotationDirsOf
<1>6. videos' = {v \in Videos \cap files : IsSeq(Holder[v]) /\ Now(Holder[v])}
  BY <1>1, <1>4 DEF Collected, FilesIn
<1>7. /\ snippets' = {e \in dirs : Now(e) /\ HasSeq(e)}
      /\ scales' = {e \in dirs : Now(e) /\ Kind[e] = "scale"}
  BY <1>1, <1>2, <1>4 DEF Collected, HasSeq
<1>8. annotationDirs' = {e \in dirs \ {Root} : Now(Parent[e]) /\ e \in AnnotationDirsOf(Parent[e])}
  <2>1. \A e \in AnnotationDirsOf(d) : e \in dirs \ {Root} /\ Parent[e] = d
    BY DEF AnnotationDirsOf, Dirnames, Children
  <2>2. QED BY <1>1, <1>4, <2>1 DEF Collected
<1>9. d \in annotationDirs' <=> d # base /\ ~IsSeq(d) /\ HasSeq(Parent[d])
  <2>1. ASSUME d \in annotationDirs' PROVE d # base /\ ~IsSeq(d) /\ HasSeq(Parent[d])
    <3>1. d # Root /\ Now(Parent[d]) /\ d \in AnnotationDirsOf(Parent[d])
      BY <1>8, <2>1
    <3>2. Parent[d] \in Dirs /\ Parent[d] < d
      BY <1>2, <3>1, ParentFirst
    <3>3. Owed(Parent[d])
      BY <1>2, <1>4, <3>1, <3>2, NextOwed, <1>1 DEF Seen
    <3>4. base \in Above[Parent[d]]
      BY <3>3 DEF Owed, Reachable
    <3>5. d # base
      <4>1. base <= Parent[d] /\ base \in Nat /\ Parent[d] \in Nat
        BY <1>2, <3>2, <3>4, NoneBefore
      <4>2. QED BY <3>2, <4>1
    <3>6. QED BY <3>1, <3>5 DEF AnnotationDirsOf, HasSeq
  <2>2. ASSUME d # base, ~IsSeq(d), HasSeq(Parent[d]) PROVE d \in annotationDirs'
    <3>1. Owed(Parent[d]) /\ d \in Descend(Parent[d])
      BY <1>2, <2>2 DEF Stack
    <3>2. d # Root /\ d \in AnnotationDirsOf(Parent[d])
      BY <2>2, <3>1 DEF AnnotationDirsOf, HasSeq, Descend, Dirnames, Children
    <3>3. ~Ahead(Parent[d])
      <4>1. SUFFICES ASSUME NEW f \in frontier, f \in Above[Parent[d]] PROVE FALSE
        BY DEF Ahead
      <4>2. Parent[d] \in Dirs /\ Parent[d] < d /\ Above[d] = {d} \cup Above[Parent[d]]
        BY <1>2, <3>2, ParentFirst
      <4>3. f = d
        BY <1>2, <4>1, <4>2 DEF Stack
      <4>4. d <= Parent[d] /\ d \in Nat /\ Parent[d] \in Nat
        BY <1>2, <4>1, <4>2, <4>3, NoneBefore
      <4>5. QED BY <4>2, <4>4
    <3>4. Now(Parent[d])
      BY <1>4, <3>1, <3>3 DEF Seen
    <3>5. QED BY <1>2, <1>8, <3>2, <3>4
  <2>3. QED BY <2>1, <2>2
<1>10. annotations' = {j \in Jsons \cap files : /\ Holder[j] # base /\ Now(Holder[j]) /\ ~IsSeq(Holder[j])
                                                /\ HasSeq(Parent[Holder[j]])}
  BY <1>1, <1>4, <1>9 DEF Collected, FilesIn
<1> HIDE DEF Now
<1>11. Collected'
  <2>1. videos' = {v \in Videos \cap files : IsSeq(Holder[v]) /\ Seen(Holder[v])}'
    BY <1>4, <1>5, <1>6
  <2>2. snippets' = {e \in dirs : Seen(e) /\ HasSeq(e)}' /\ scales' = {e \in dirs : Seen(e) /\ Kind[e] = "scale"}'
    BY <1>4, <1>5, <1>7
  <2>3. annotationDirs' = {e \in dirs \ {Root} : Seen(Parent[e]) /\ e \in AnnotationDirsOf(Parent[e])}'
    BY <1>4, <1>5, <1>8
  <2>4. annotations' = {j \in Jsons \cap files : /\ Holder[j] # base /\ Seen(Holder[j]) /\ ~IsSeq(Holder[j])
                                                /\ HasSeq(Parent[Holder[j]])}'
    BY <1>4, <1>5, <1>10
  <2>5. QED BY <2>1, <2>2, <2>3, <2>4 DEF Collected
<1>12. QED BY <1>3, <1>11

\* A directory that cannot be listed is not owed, nor is what lies below it.
LEMMA SkipCollected ==
  ASSUME IInv, Stack, Collected, SkipUnreadable
  PROVE  Stack' /\ Collected'
<1> DEFINE d == Least(frontier)
<1>1. /\ frontier # {} /\ flaw[d] \in {"unreadable", "throttled"} /\ frontier' = frontier \ {d}
      /\ UNCHANGED <<treeVars, base, snippets, scales, annotationDirs, annotations, videos>>
  BY DEF SkipUnreadable
<1>2. d \in frontier /\ d \in Dirs /\ base \in Dirs /\ dirs \subseteq Dirs
  <2>1. frontier \subseteq Nat
    BY TreeAssumption DEF IInv, TypeOK
  <2>2. QED BY <1>1, <2>1, LeastIn DEF Stack, IInv, TypeOK
<1> HIDE DEF d
<1>3. /\ dirs' = dirs /\ files' = files /\ base' = base
      /\ \A e : Owed(e)' <=> Owed(e)
      /\ \A e : Descend(e)' = Descend(e) /\ (HasSeq(e)' <=> HasSeq(e)) /\ AnnotationDirsOf(e)' = AnnotationDirsOf(e)
  BY <1>1 DEF treeVars, Owed, Reachable, Listed, Descend, Dirnames, Children, HasSeq, AnnotationDirsOf
<1>4. Stack'
  BY <1>1, <1>3 DEF Stack
<1>5. ASSUME NEW e, Owed(e), d \in Above[e] PROVE FALSE
  <2>1. d # base
    BY <1>1, <1>5 DEF Owed, Listed
  <2>2. d \notin Above[base]
    BY <1>2, <2>1, NoneBefore DEF Stack
  <2>3. flaw[d] = "none"
    BY <1>5, <2>2 DEF Owed, Reachable
  <2>4. QED BY <1>1, <2>3
<1>6. \A e : Seen(e)' <=> Seen(e)
  BY <1>1, <1>3, <1>5 DEF Seen, Ahead
<1>7. Collected'
  BY <1>1, <1>3, <1>6 DEF Collected
<1>8. QED BY <1>4, <1>7

\* Before its first step the walk has seen nothing and owes everything.
LEMMA StartCollected ==
  ASSUME IInv, NEW b \in dirs, StartWalk(b), UNCHANGED treeVars
  PROVE  Stack' /\ Collected'
<1>1. /\ base' = b /\ frontier' = {b} /\ dirs' = dirs
      /\ snippets' = {} /\ scales' = {} /\ annotationDirs' = {} /\ annotations' = {} /\ videos' = {}
  BY DEF StartWalk, treeVars
<1>2. \A e : ~Seen(e)'
  BY <1>1 DEF Seen, Ahead, Owed, Reachable
<1>3. Stack'
  BY <1>1, AboveTyping DEF Stack, IInv
<1>4. QED BY <1>1, <1>2, <1>3 DEF Collected

-----------------------------------------------------------------------------
(* Pairing *)

\* The video of a snippet lies in one of its seq_* directories.
LEMMA BestVideoOwn ==
  ASSUME IInv, NEW s, BestVideo(s) # None
  PROVE  BestVideo(s) \in videos /\ Parent[Holder[BestVideo(s)]] = s
<1> DEFINE mp4 == {d \in SeqDirsOf(s) : Kind[d] = "seq_mp4"}
           here == {v \in videos : Holder[v] = ChosenSeq(s)}
<1>1. SeqDirsOf(s) # {} /\ BestVideo(s) = Least(here)
  BY DEF BestVideo
<1>2. videos \subseteq Nat /\ SeqDirsOf(s) \subseteq Nat
  BY TreeAssumption DEF IInv, TypeOK, SeqDirsOf
<1>3. ChosenSeq(s) \in SeqDirsOf(s)
  BY <1>1, <1>2, LeastIn DEF ChosenSeq
<1>4. here # {} /\ here \subseteq Nat
  BY <1>2, <1>3 DEF SeqDirsOf
<1>5. BestVideo(s) \in here
  BY <1>1, <1>4, LeastIn
<1>6. QED BY <1>3, <1>5 DEF SeqDirsOf

\* A match is a candidate, and no other candidate has its name.
LEMMA MatchUnique ==
  ASSUME IInv, NEW a, NEW d, Match(a, BatchVideos(d)) # None
  PROVE  /\ Match(a, BatchVideos(d)) \in BatchVideos(d)
         /\ \A w \in BatchVideos(d) : Name[w] = Name[Match(a, BatchVideos(d))] => w = Match(a, BatchVideos(d))
<1> DEFINE matches == {v \in BatchVideos(d) : Name[v] \in Embeds[a]}
           best == {v \in matches : \A w \in matches : Length[Name[w]] <= Length[Name[v]]}
<1>1. Cardinality(best) = 1 /\ Match(a, BatchVideos(d)) = Least(best)
  BY DEF Match
<1>2. best \subseteq Videos /\ best \subseteq Nat
  BY TreeAssumption DEF IInv, TypeOK, BatchVideos
<1>3. IsFiniteSet(best)
  BY <1>2, TreeAssumption, FS_Subset
<1> HIDE DEF best
<1>4. PICK m : best = {m}
  BY <1>1, <1>3, FS_Singleton
<1>5. Match(a, BatchVideos(d)) = m /\ m \in best
  BY <1>1, <1>2, <1>4, LeastIn
<1>6. \A w \in BatchVideos(d) : Name[w] = Name[m] => w \in best
  BY <1>5 DEF best
<1>7. QED BY <1>4, <1>5, <1>6 DEF best

\* When the walk is over, everything owed has been seen.
LEMMA OwedSeen == ASSUME frontier = {}, NEW d PROVE Seen(d) <=> Owed(d)
BY DEF Seen, Ahead

\* The pairs found by the place of the annotation and those found by its name, and that no annotation
\* is paired in both ways: a scale directory is that of a snippet or of a batch.
LEMMA PairsPaired ==
  ASSUME IInv, Closed, Collected, frontier = {}
  PROVE  Paired(base, SnippetPairs \cup BatchPairs)
<1>1. videos \subseteq Videos \cap files /\ \A v \in videos : IsSeq(Holder[v]) /\ Holder[v] \in Dirs \ {Root}
  <2>1. \A v \in Videos : Holder[v] \in Dirs
    BY TreeAssumption
  <2>2. ~IsSeq(Root)
    BY TreeAssumption DEF IsSeq
  <2>3. QED BY <2>1, <2>2 DEF Collected
<1>2. ASSUME NEW a \in annotations
      PROVE  /\ a \in Jsons \cap files /\ Owed(Holder[a]) /\ Owed(Parent[Holder[a]])
             /\ Parent[Holder[a]] \in snippets
  <2>1. a \in Jsons \cap files /\ Holder[a] # base /\ Owed(Holder[a]) /\ HasSeq(Parent[Holder[a]])
    BY <1>2, OwedSeen DEF Collected
  <2>2. Owed(Parent[Holder[a]])
    BY <2>1, OwedParent
  <2>3. QED BY <2>1, <2>2, OwedSeen DEF Collected, Owed
<1>3. ASSUME NEW p \in SnippetPairs PROVE PairOK(base, p)
  <2>1. PICK a \in annotations :
          p = [ann |-> a, video |-> BestVideo(Parent[Holder[a]]), snippet |-> Parent[Holder[a]], via |-> "snippet"]
    BY DEF SnippetPairs
  <2>2. p.ann = a /\ p.video = BestVideo(Parent[Holder[a]]) /\ p.via # "batch"
    BY <2>1
  <2>3. a \in Jsons \cap files /\ base \in Above[Holder[a]]
    BY <1>2 DEF Owed, Reachable
  <2>4. ASSUME p.video # None PROVE Parent[Holder[a]] \in Above[Holder[p.video]]
    <3>1. p.video \in videos /\ Parent[Holder[p.video]] = Parent[Holder[a]]
      BY <2>2, <2>4, BestVideoOwn
    <3>2. QED BY <1>1, <3>1, ParentFirst, AboveTyping
  <2>5. QED BY <2>2, <2>3, <2>4 DEF PairOK
<1> DEFINE J == {j \in Jsons \cap files \cap LooksScale : Holder[j] \in BatchScales}
<1>4. ASSUME NEW a \in J
      PROVE  a \in Jsons \cap files /\ Owed(Holder[a]) /\ Parent[Holder[a]] \notin snippets
  BY <1>4, OwedSeen DEF BatchScales, Collected
<1>5. ASSUME NEW p \in BatchPairs PROVE PairOK(base, p)
  <2>1. PICK a \in J : p.ann = a /\ p.video = Match(a, BatchVideos(Holder[a])) /\ p.via = "batch"
    BY DEF BatchPairs
  <2>2. a \in Jsons \cap files /\ base \in Above[Holder[a]] /\ Listed
    BY <1>4 DEF Owed, Reachable
  <2>3. ASSUME p.video # None PROVE Parent[Holder[a]] \in Above[Holder[p.video]]
    BY <2>1, <2>3, MatchUnique DEF BatchVideos
  <2>4. ASSUME p.video # None, NEW v \in Videos \cap files, IsSeq(Holder[v]), Reachable(base, Holder[v]),
               Parent[Holder[a]] \in Above[Holder[v]], Name[v] = Name[p.video]
        PROVE  v = p.video
    <3>1. Owed(Holder[v])
      BY <2>2, <2>4 DEF Owed, Closed
    <3>2. v \in BatchVideos(Holder[a])
      BY <2>4, <3>1, OwedSeen DEF Collected, BatchVideos
    <3>3. QED BY <2>1, <2>4, <3>2, MatchUnique
  <2>5. QED BY <2>1, <2>2, <2>3, <2>4 DEF PairOK
<1>6. ASSUME NEW p \in SnippetPairs \cup BatchPairs, NEW q \in SnippetPairs \cup BatchPairs, p.ann = q.ann
      PROVE  p = q
  <2>1. \A r \in SnippetPairs : r.ann \in annotations
    BY DEF SnippetPairs
  <2>2. \A r \in BatchPairs : r.ann \in J
    BY DEF BatchPairs
  <2>3. CASE p \in SnippetPairs /\ q \in SnippetPairs
    BY <1>6, <2>3 DEF SnippetPairs
  <2>4. CASE p \in BatchPairs /\ q \in BatchPairs
    BY <1>6, <2>4 DEF BatchPairs
  <2>5. CASE p.ann \in annotations /\ p.ann \in J
    BY <1>2, <1>4, <2>5
  <2> HIDE DEF J
  <2>6. QED BY <1>6, <2>1, <2>2, <2>3, <2>4, <2>5
<1>7. QED BY <1>3, <1>5, <1>6 DEF Paired

\* What is promised of pairs depends on the tree alone.
LEMMA PairedStable ==
  ASSUME UNCHANGED treeVars, NEW b, NEW pairs
  PROVE  Paired(b, pairs) => Paired(b, pairs)'
BY DEF treeVars, Paired, PairOK, Reachable

\* So is which directories are batches.
LEMMA BatchRootsStable ==
  ASSUME UNCHANGED treeVars
  PROVE  BatchRoots' = BatchRoots /\ (HasSnippetChildren(Root)' <=> HasSnippetChildren(Root))
<1>1. HasSnippetChildren(Root)' <=> HasSnippetChildren(Root)
  BY DEF treeVars, HasSnippetChildren, Children, Listable
<1>2. {d \in Children(Root) : HasSnippetChildren(d)}' = {d \in Children(Root) : HasSnippetChildren(d)}
  BY DEF treeVars, HasSnippetChildren, Children, Listable
<1>3. QED BY <1>1, <1>2 DEF BatchRoots

-----------------------------------------------------------------------------
(* The steps *)

\* Nothing is known yet.
LEMMA InitDInv == Init => DInv
<1> SUFFICES ASSUME Init PROVE DInv
  OBVIOUS
<1>1. Closed
  BY RunAssumption DEF Init, Closed
<1>2. Walking /\ PairsOK /\ BatchesOK
  BY DEF Init, Walking, PairsOK, BatchesOK
<1>3. QED BY <1>1, <1>2 DEF DInv

\* Two batches or more are children of the root.
LEMMA FindBatchesDInv == ASSUME IInv, DInv, FindBatches PROVE DInv'
<1>1. pc = "scan" /\ results = {} /\ UNCHANGED <<treeVars, found, results>> /\ Closed'
  BY DEF FindBatches, DInv, BatchesOK, Closed, treeVars
<1>2. BatchRoots \subseteq dirs /\ dirs \subseteq Nat
  BY TreeAssumption DEF IInv, BatchRoots, Children
<1>3. CASE StartWalk(Root) /\ mode' = "single" /\ todo' = {}
  <2>1. Walking'
    BY <1>1, <1>3, StartCollected DEF StartWalk, Walking, IInv
  <2>2. PairsOK' /\ BatchesOK'
    BY <1>1, <1>3 DEF StartWalk, PairsOK, BatchesOK
  <2>3. QED BY <1>1, <2>1, <2>2 DEF DInv
<1>4. CASE /\ ~(Cardinality(BatchRoots) <= 1) /\ StartWalk(Least(BatchRoots)) /\ mode' = "multi"
           /\ todo' = BatchRoots \ {Least(BatchRoots)}
  <2>1. BatchRoots # {} /\ ~HasSnippetChildren(Root)
    <3>1. HasSnippetChildren(Root) => BatchRoots = {Root}
      BY DEF BatchRoots
    <3>2. Cardinality({Root}) = 1 /\ Cardinality({}) = 0
      BY FS_EmptySet, FS_Singleton
    <3>3. QED BY <1>4, <3>1, <3>2
  <2>2. Least(BatchRoots) \in BatchRoots
    BY <1>2, <2>1, LeastIn
  <2>3. BatchRoots' = BatchRoots /\ ~HasSnippetChildren(Root)'
    BY <1>1, <2>1, BatchRootsStable
  <2>4. Walking'
    BY <1>1, <1>2, <1>4, <2>2, StartCollected DEF StartWalk, Walking
  <2>5. PairsOK' /\ BatchesOK'
    BY <1>1, <1>4, <2>2, <2>3 DEF StartWalk, PairsOK, BatchesOK
  <2>6. QED BY <1>1, <2>4, <2>5 DEF DInv
<1>5. CASE pc' = "done" /\ UNCHANGED <<base, walkVars, mode, todo>>
  <2>1. Walking' /\ PairsOK'
    BY <1>1, <1>5 DEF Walking, PairsOK
  <2>2. BatchesOK'
    BY <1>1, <1>5, BatchRootsStable DEF DInv, BatchesOK
  <2>3. QED BY <1>1, <2>1, <2>2 DEF DInv
<1>6. QED BY <1>3, <1>4, <1>5 DEF FindBatches

\* A step that keeps the tree, the results and the turn of the batch.
AtWork == pc \in {"walk", "report", "pairs", "result"}
LEMMA KeepsBatches ==
  ASSUME DInv, UNCHANGED <<treeVars, base, mode, todo, results>>, pc' # "scan", AtWork' => AtWork
  PROVE  Closed' /\ BatchesOK' /\ \A r \in results' : Paired(r.batch, r.pairs)'
<1>1. Closed'
  BY DEF DInv, Closed, treeVars
<1>2. BatchesOK'
  BY BatchRootsStable DEF DInv, BatchesOK, AtWork
<1>3. ASSUME NEW r \in results PROVE Paired(r.batch, r.pairs)'
  BY <1>3 DEF DInv, PairsOK, Paired, PairOK, Reachable, treeVars
<1>4. QED BY <1>1, <1>2, <1>3

\* The walk: what was skipped was not owed, what was visited is collected, and the pairs are made of it.
LEMMA WalkDInv == ASSUME IInv, DInv, Walk PROVE DInv'
<1>1. pc = "walk" /\ pc' \in {"walk", "report"} /\ UNCHANGED <<treeVars, base, mode, todo, results>>
  BY DEF Walk, SkipUnreadable, Visit, Pair
<1>2. Closed' /\ BatchesOK' /\ \A r \in results' : Paired(r.batch, r.pairs)'
  BY <1>1, KeepsBatches DEF AtWork
<1>3. CASE SkipUnreadable \/ Visit
  <2>1. pc' = "walk"
    BY <1>1, <1>3 DEF SkipUnreadable, Visit
  <2>2. Stack' /\ Collected'
    BY <1>1, <1>3, SkipCollected, VisitCollected DEF DInv, Walking
  <2>3. QED BY <1>2, <2>1, <2>2 DEF DInv, Walking, PairsOK
<1>4. CASE Pair
  <2>1. frontier = {} /\ Collected /\ pc' = "report" /\ UNCHANGED walkVars
    BY <1>1, <1>4 DEF Pair, DInv, Walking
  <2>2. Collected'
    BY <1>1, <2>1 DEF Collected, Seen, Owed, Ahead, Reachable, Listed, HasSeq, AnnotationDirsOf, Dirnames, Children,
                      treeVars, walkVars
  <2>3. found'.pairs = SnippetPairs \cup BatchPairs \/ found'.pairs = {}
    BY <1>4 DEF Pair, Failure, Nothing
  <2>4. Paired(base, found'.pairs)
    <3>1. Paired(base, {})
      BY DEF Paired
    <3>2. Paired(base, SnippetPairs \cup BatchPairs)
      BY <2>1, PairsPaired DEF DInv
    <3>3. QED BY <2>3, <3>1, <3>2
  <2>5. Paired(base, found.pairs)'
    BY <1>1, <2>4 DEF Paired, PairOK, Reachable, treeVars
  <2>6. Walking'
    BY <2>1, <2>2 DEF Walking, walkVars
  <2>7. QED BY <1>2, <2>1, <2>5, <2>6 DEF DInv, PairsOK
<1>5. QED BY <1>3, <1>4 DEF Walk

\* The findings and the exit code leave the discovery alone.
LEMMA OtherDInv ==
  ASSUME IInv, DInv, AddDiscoveryFindings \/ ValidatePairs \/ Exit \/ UNCHANGED vars
  PROVE  DInv'
<1>1. /\ UNCHANGED <<treeVars, walkVars, base, found, mode, todo, results>>
      /\ pc' # "scan" \/ pc' = pc
      /\ AtWork' => AtWork
      /\ pc' = pc \/ pc' \notin {"walk", "report"}
      /\ pc' \in {"report", "pairs", "result"} => pc \in {"report", "pairs", "result"}
  BY DEF AddDiscoveryFindings, ValidatePairs, Exit, AtWork, vars
<1>2. Walking'
  BY <1>1 DEF DInv, Walking, Stack, Collected, Seen, Owed, Ahead, Reachable, Listed, HasSeq, AnnotationDirsOf,
              Descend, Dirnames, Children, treeVars, walkVars
<1>3. PairsOK'
  BY <1>1 DEF DInv, PairsOK, Paired, PairOK, Reachable, treeVars, AtWork
<1>4. Closed' /\ BatchesOK'
  <2>1. CASE pc' # "scan"
    BY <1>1, <2>1, KeepsBatches
  <2>2. CASE pc' = pc
    BY <1>1, <2>2, BatchRootsStable DEF DInv, BatchesOK, Closed, treeVars
  <2>3. QED BY <1>1, <2>1, <2>2
<1>5. QED BY <1>2, <1>3, <1>4 DEF DInv

\* The result of a batch holds the pairs of its discovery; the next batch is another one.
LEMMA FinishBatchDInv == ASSUME IInv, DInv, FinishBatch PROVE DInv'
<1> DEFINE r == [batch |-> base, passed |-> ~hasError, counts |-> counts,
                 shown |-> \E c \in Checks : kept[c] > 0, pairs |-> found.pairs]
<1>1. /\ pc = "result" /\ results' = results \cup {r} /\ UNCHANGED <<treeVars, found, mode>>
      /\ r.batch = base /\ r.pairs = found.pairs
  BY DEF FinishBatch
<1> HIDE DEF r
<1>2. Closed' /\ BatchRoots' = BatchRoots /\ (HasSnippetChildren(Root)' <=> HasSnippetChildren(Root))
  BY <1>1, BatchRootsStable DEF DInv, Closed, treeVars
<1>3. \A s \in results' : Paired(s.batch, s.pairs)
  BY <1>1 DEF DInv, PairsOK
<1>4. \A s \in results' : Paired(s.batch, s.pairs)'
  BY <1>1, <1>3 DEF Paired, PairOK, Reachable, treeVars
<1>5. /\ \A s \in results' : s.batch = base \/ s \in results
      /\ \A s, t \in results' : s.batch = t.batch => s = t
      /\ \A s \in results' : s.batch \notin todo
  BY <1>1 DEF DInv, BatchesOK
<1>6. CASE todo = {}
  <2>1. pc' = "exit" /\ UNCHANGED <<base, walkVars, todo>>
    BY <1>6 DEF FinishBatch
  <2>2. Walking' /\ PairsOK'
    BY <1>4, <2>1 DEF Walking, PairsOK
  <2>3. BatchesOK'
    BY <1>1, <1>2, <1>5, <2>1 DEF DInv, BatchesOK
  <2>4. QED BY <1>2, <2>2, <2>3 DEF DInv
<1>7. CASE todo # {}
  <2>1. StartWalk(Least(todo)) /\ todo' = todo \ {Least(todo)}
    BY <1>7 DEF FinishBatch
  <2>2. Least(todo) \in todo /\ todo \subseteq dirs
    <3>1. todo \subseteq dirs /\ todo \subseteq Nat
      BY TreeAssumption DEF IInv, TypeOK
    <3>2. QED BY <1>7, <3>1, LeastIn
  <2>3. Walking'
    BY <1>1, <2>1, <2>2, StartCollected DEF StartWalk, Walking
  <2>4. PairsOK'
    BY <1>4, <2>1 DEF StartWalk, PairsOK
  <2>5. BatchesOK'
    BY <1>1, <1>2, <1>5, <2>1, <2>2 DEF DInv, BatchesOK, StartWalk
  <2>6. QED BY <1>2, <2>3, <2>4, <2>5 DEF DInv
<1>8. QED BY <1>6, <1>7

-----------------------------------------------------------------------------
(* The theorems *)

\* The inductive invariant: what the walk has collected at each point, and what is known of the pairs
\* of the batches that have had their turn.
THEOREM DiscoveryInvariance == Spec => []DInv
<1>1. IInv /\ DInv /\ [Next]_vars => DInv'
  BY FindBatchesDInv, WalkDInv, OtherDInv, FinishBatchDInv DEF Next
<1>2. QED BY <1>1, InitDInv, Invariance, PTL DEF Spec

\* The walk finds what is there: one annotation for each readable JSON that lies in a directory of a
\* snippet, and all videos of readable seq_* directories, whatever the order of its stack and
\* whatever it has skipped.
THEOREM WalkIsCompleteHolds == Spec => []WalkIsComplete
<1>1. IInv /\ DInv => WalkIsComplete
  <2> SUFFICES ASSUME IInv, DInv, pc = "report", flaw[base] \in {"none", "symlink"} PROVE
        /\ videos = {v \in Videos \cap files : IsSeq(Holder[v]) /\ Reachable(base, Holder[v])}
        /\ annotations =
             {j \in Jsons \cap files :
                /\ Holder[j] # base /\ Reachable(base, Holder[j]) /\ ~IsSeq(Holder[j])
                /\ \E c \in Children(Parent[Holder[j]]) : IsSeq(c) /\ flaw[c] # "nostat"}
    BY DEF WalkIsComplete
  <2>1. Collected /\ frontier = {} /\ Closed
    BY DEF DInv, Walking
  <2>2. \A f \in files : Seen(Holder[f]) <=> Reachable(base, Holder[f])
    BY <2>1, OwedSeen DEF Owed, Listed, Closed
  <2>3. \A d : HasSeq(d) <=> \E c \in Children(d) : IsSeq(c) /\ flaw[c] # "nostat"
    BY DEF HasSeq, Dirnames, IsSeq
  <2>4. QED BY <2>1, <2>2, <2>3 DEF Collected
<1>2. QED BY <1>1, Invariance, DiscoveryInvariance, PTL

\* No annotation is validated twice, whichever of the two ways of pairing and however many batches
\* come across it.
THEOREM EachAnnotationOnceHolds == Spec => []EachAnnotationOnce
<1>1. IInv /\ DInv => EachAnnotationOnce
  <2> SUFFICES ASSUME IInv, DInv, NEW x \in Reported, NEW y \in Reported, x.pair.ann = y.pair.ann PROVE x = y
    BY DEF EachAnnotationOnce
  <2>1. PICK r \in results : \E p \in r.pairs : x = [batch |-> r.batch, pair |-> p]
    BY DEF Reported
  <2>2. PICK s \in results : \E p \in s.pairs : y = [batch |-> s.batch, pair |-> p]
    BY DEF Reported
  <2>3. x.batch = r.batch /\ x.pair \in r.pairs /\ y.batch = s.batch /\ y.pair \in s.pairs
    BY <2>1, <2>2
  <2>4. r.batch = s.batch
    <3>1. r.batch \in Above[Holder[x.pair.ann]] /\ s.batch \in Above[Holder[x.pair.ann]]
          /\ Holder[x.pair.ann] \in Dirs
      BY <2>3, TreeAssumption DEF DInv, PairsOK, Paired, PairOK
    <3>2. CASE mode = "single"
      BY <3>2 DEF DInv, BatchesOK
    <3>3. CASE mode = "multi"
      <4>1. \A b \in BatchRoots : b # Root /\ Parent[b] = Root
        BY <3>3 DEF DInv, BatchesOK, BatchRoots, Children
      <4>2. QED BY <3>1, <3>3, <4>1, OneTop DEF DInv, BatchesOK
    <3>4. QED BY <3>2, <3>3 DEF IInv, TypeOK
  <2>5. r = s
    BY <2>4 DEF DInv, BatchesOK
  <2>6. x.pair = y.pair
    BY <2>3, <2>5 DEF DInv, PairsOK, Paired
  <2>7. QED BY <2>1, <2>2, <2>4, <2>6
<1>2. QED BY <1>1, Invariance, DiscoveryInvariance, PTL

\* A video is taken for an annotation only from the directory that holds both ("within that batch"),
\* and a batch-level annotation only when no other video that the walk owes has an equally good claim.
THEOREM PairedWithinBatchHolds == Spec => []PairedWithinBatch
<1>1. DInv => PairedWithinBatch
  <2> SUFFICES ASSUME DInv, NEW x \in Reported, x.pair.video # None PROVE
        /\ Parent[Holder[x.pair.ann]] \in Above[Holder[x.pair.video]]
        /\ x.pair.via = "batch" =>
             \A v \in Videos \cap files :
               /\ IsSeq(Holder[v]) /\ Reachable(x.batch, Holder[v])
               /\ Parent[Holder[x.pair.ann]] \in Above[Holder[v]] /\ Name[v] = Name[x.pair.video]
               => v = x.pair.video
    BY DEF PairedWithinBatch
  <2>1. PICK r \in results : \E p \in r.pairs : x = [batch |-> r.batch, pair |-> p]
    BY DEF Reported
  <2>2. PairOK(x.batch, x.pair)
    BY <2>1 DEF DInv, PairsOK, Paired
  <2>3. QED BY <2>2 DEF PairOK
<1>2. QED BY <1>1, DiscoveryInvariance, PTL

\* find_batch_roots and the walk agree on what a snippet is ("a single source of truth"), but for links
\* and metadata directories, which only the walk passes over.
THEOREM BatchesAgreeHolds == Spec => []BatchesAgree
<1>1. IInv /\ DInv => BatchesAgree
  <2> SUFFICES ASSUME IInv, DInv, pc = "report", mode = "multi", snippets = {},
                      \A c \in Children(base) :
                        (flaw[c] = "symlink" \/ Kind[c] = "metadata") => \A g \in Children(c) : ~IsSeq(g)
               PROVE  FALSE
    BY DEF BatchesAgree
  <2>1. HasSnippetChildren(base)
    BY DEF DInv, BatchesOK, BatchRoots
  <2>2. PICK c \in Children(base) : Listable(c) /\ \E g \in Children(c) : IsSeq(g) /\ flaw[g] # "nostat"
    BY <2>1 DEF HasSnippetChildren
  <2>3. Owed(base)
    BY <2>1, AboveTyping DEF HasSnippetChildren, Listable, Owed, Reachable, Listed, IInv, TypeOK
  <2>4. c \in Descend(base) /\ flaw[c] = "none"
    BY <2>2 DEF Listable, Descend, Dirnames
  <2>5. Owed(c)
    BY <2>3, <2>4, OwedChild
  <2>6. HasSeq(c)
    BY <2>2 DEF HasSeq, Dirnames, IsSeq
  <2>7. c \in snippets
    BY <2>5, <2>6, OwedSeen DEF DInv, Walking, Collected, Owed
  <2>8. QED BY <2>7
<1>2. QED BY <1>1, Invariance, DiscoveryInvariance, PTL
==============================================================================
