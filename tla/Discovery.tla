----------------------------- MODULE Discovery -----------------------------
(***************************************************************************)
(* discover_hmie_pairs: one walk of a directory tree that finds the        *)
(* snippets, their videos and their annotations, and the pairing of each   *)
(* annotation with a video, by its snippet or, for a scale directory that  *)
(* serves a whole batch, by the video name its own name embeds.            *)
(* find_batch_roots, which looks for batches before the walk, is here too. *)
(*                                                                         *)
(* Directories and files are numbers in the order of their paths, so that  *)
(* the least of a set is the first of the sorted list.                     *)
(***************************************************************************)
EXTENDS FiniteSetsExt, Naturals

CONSTANTS
  Dirs, Videos, Jsons,
  Root,
  Parent,   \* Dirs \ {Root} -> Dirs
  Above,    \* Dirs -> the directory and those that hold it
  Kind,     \* Dirs -> what its name makes of it
  Holder,   \* Videos \cup Jsons -> Dirs
  Name,     \* Videos -> the file name
  Length,   \* names -> length
  Embeds,   \* Jsons -> the video names its own name embeds, anchored
  LooksScale, \* the Jsons with a video extension somewhere in their name
  None

Kinds == {"seq_mp4", "seq_ts", "scale", "labeler", "metadata", "plain"}
Flaws == {"none", "unreadable", "throttled", "nostat", "symlink"}

ASSUME TreeAssumption ==
  /\ Root \in Dirs /\ Dirs \cup Videos \cup Jsons \subseteq Nat /\ None \notin Nat
  /\ IsFiniteSet(Dirs) /\ IsFiniteSet(Videos) /\ IsFiniteSet(Jsons)
  /\ Parent \in [Dirs \ {Root} -> Dirs] /\ Holder \in [Videos \cup Jsons -> Dirs]
  /\ \A d \in Dirs \ {Root} : Parent[d] < d
  /\ Kind \in [Dirs -> Kinds] /\ Kind[Root] = "plain"
  /\ \A d \in Dirs : Above[d] = {d} \cup (IF d = Root THEN {} ELSE Above[Parent[d]])

VARIABLES
  dirs, files,  \* the directories and files that exist
  flaw,         \* dirs -> what goes wrong when it is read
  base,         \* the directory whose pairs are being discovered
  pc,
  frontier,     \* the stack of _walk
  snippets, scales, annotationDirs, annotations, videos,
  found         \* the DiscoveryResult

treeVars == <<dirs, files, flaw>>
walkVars == <<frontier, snippets, scales, annotationDirs, annotations, videos>>

IsSeq(d) == Kind[d] \in {"seq_mp4", "seq_ts"}
Children(d) == {c \in dirs \ {Root} : Parent[c] = d}
FilesIn(d, S) == {f \in S \cap files : Holder[f] = d}
Least(S) == Min(S)

-----------------------------------------------------------------------------
(* find_batch_roots *)

Listable(d) == flaw[d] \in {"none", "symlink"}

\* Faulty variant: an unreadable child counts as a snippet.
HasSnippetChildren_Unread(d) ==
  Listable(d) /\ \E c \in Children(d) : \E g \in Children(c) : IsSeq(g) /\ flaw[g] # "nostat"

HasSnippetChildren(d) ==
  Listable(d) /\ \E c \in Children(d) : Listable(c) /\ \E g \in Children(c) : IsSeq(g) /\ flaw[g] # "nostat"

\* An unreadable directory counts as one without snippets.  A status or a
\* listing that fails otherwise raises, unless a snippet was found before.
ScanMayRaise(d) ==
  \/ flaw[d] \in {"throttled", "nostat"}
  \/ /\ Listable(d)
     /\ \E c \in Children(d) :
          \/ flaw[c] \in {"nostat", "throttled"}
          \/ Listable(c) /\ \E g \in Children(c) : flaw[g] = "nostat"

ScanMayReturn(d) == HasSnippetChildren(d) \/ ~ScanMayRaise(d)

BatchRoots ==
  IF HasSnippetChildren(Root) THEN {Root} ELSE {d \in Children(Root) : HasSnippetChildren(d)}

BatchScanMayRaise ==
  \/ ScanMayRaise(Root)
  \/ ~HasSnippetChildren(Root) /\ flaw[Root] = "unreadable"
  \/ ~HasSnippetChildren(Root) /\ \E d \in Children(Root) : ScanMayRaise(d)

BatchScanMayReturn ==
  \/ HasSnippetChildren(Root)
  \/ /\ ~ScanMayRaise(Root) /\ flaw[Root] # "unreadable"
     /\ \A d \in Children(Root) : ScanMayReturn(d)

-----------------------------------------------------------------------------
(* _walk and _collect_files *)

StartWalk(d) ==
  /\ base' = d /\ frontier' = {d} /\ pc' = "walk"
  /\ snippets' = {} /\ scales' = {} /\ annotationDirs' = {}
  /\ annotations' = {} /\ videos' = {}

\* Entries whose status fails count as files; metadata directories are pruned.
Dirnames(d) == {c \in Children(d) : flaw[c] # "nostat" /\ Kind[c] # "metadata"}

\* Faulty variant: links are followed.
Descend_Links(d) == Dirnames(d)

Descend(d) == {c \in Dirnames(d) : flaw[c] # "symlink"}

\* The annotation directories of a snippet, one that has a seq_* child.
AnnotationDirsOf(d) ==
  IF \E c \in Dirnames(d) : IsSeq(c) THEN {c \in Dirnames(d) : ~IsSeq(c)} ELSE {}

SkipUnreadable ==
  /\ pc = "walk" /\ frontier # {}
  /\ flaw[Least(frontier)] \in {"unreadable", "throttled"}
  /\ frontier' = frontier \ {Least(frontier)}
  /\ UNCHANGED <<treeVars, base, pc, snippets, scales, annotationDirs, annotations, videos, found>>

Visit ==
  /\ pc = "walk" /\ frontier # {}
  /\ LET d == Least(frontier) IN
     /\ flaw[d] \notin {"unreadable", "throttled"}
     /\ frontier' = (frontier \ {d}) \cup Descend(d)
     /\ scales' = scales \cup (IF Kind[d] = "scale" THEN {d} ELSE {})
     /\ snippets' = snippets \cup (IF \E c \in Dirnames(d) : IsSeq(c) THEN {d} ELSE {})
     /\ annotationDirs' = annotationDirs \cup AnnotationDirsOf(d)
     /\ videos' = videos \cup (IF IsSeq(d) THEN FilesIn(d, Videos) ELSE {})
     /\ annotations' = annotations
                       \cup (IF d \in annotationDirs' THEN FilesIn(d, Jsons) ELSE {})
  /\ UNCHANGED <<treeVars, base, pc, found>>

-----------------------------------------------------------------------------
(* Pairing *)

\* The seq_* directory a snippet's video comes from: seq_mp4, or the first.
SeqDirsOf(s) == {Holder[v] : v \in {w \in videos : Parent[Holder[w]] = s}}
ChosenSeq(s) ==
  LET mp4 == {d \in SeqDirsOf(s) : Kind[d] = "seq_mp4"}
  IN IF mp4 # {} THEN Least(mp4) ELSE Least(SeqDirsOf(s))

\* Faulty variant: the directory in place of its first video.
BestVideo_Dir(s) == IF SeqDirsOf(s) = {} THEN None ELSE ChosenSeq(s)

BestVideo(s) ==
  IF SeqDirsOf(s) = {} THEN None
  ELSE Least({v \in videos : Holder[v] = ChosenSeq(s)})

MultiVideoDirs ==
  {ChosenSeq(s) : s \in {t \in {Parent[Holder[v]] : v \in videos} :
                           Cardinality({v \in videos : Holder[v] = ChosenSeq(t)}) > 1}}

SnippetPairs ==
  {[ann |-> a, video |-> BestVideo(Parent[Holder[a]]), snippet |-> Parent[Holder[a]],
    via |-> "snippet"] : a \in annotations}

\* Faulty variant: of several videos of that name the first is taken.
Match_First(a, candidates) ==
  LET matches == {v \in candidates : Name[v] \in Embeds[a]}
      best == {v \in matches : \A w \in matches : Length[Name[w]] <= Length[Name[v]]}
  IN IF best # {} THEN Least(best) ELSE None

\* match_annotation_to_video: the longest embedded name wins, a tie is no match.
Match(a, candidates) ==
  LET matches == {v \in candidates : Name[v] \in Embeds[a]}
      best == {v \in matches : \A w \in matches : Length[Name[w]] <= Length[Name[v]]}
  IN IF Cardinality(best) = 1 THEN Least(best) ELSE None

\* Faulty variant: every scale directory serves its batch.
BatchScales_All == scales

BatchScales == {d \in scales : Parent[d] \notin snippets}

BatchVideos(d) == {v \in videos : Parent[d] \in Above[Holder[v]]}

BatchPairs ==
  {[ann |-> a, video |-> Match(a, BatchVideos(Holder[a])), via |-> "batch",
    snippet |-> LET v == Match(a, BatchVideos(Holder[a]))
                IN IF v = None THEN None ELSE Parent[Holder[v]]] :
     a \in {j \in Jsons \cap files \cap LooksScale : Holder[j] \in BatchScales}}

Nothing == [error |-> "none", pairs |-> {}, orphanVideos |-> {}, multi |-> {}]
Failure(kind) == [Nothing EXCEPT !.error = kind]

Matched == {p.video : p \in SnippetPairs \cup BatchPairs}

Pair ==
  /\ pc = "walk" /\ frontier = {}
  /\ pc' = "report"
  /\ found' =
       IF snippets = {} /\ BatchScales = {} THEN Failure("discovery")
       ELSE IF SnippetPairs \cup BatchPairs = {} THEN Failure("no_annotations")
       ELSE [error |-> "none", pairs |-> SnippetPairs \cup BatchPairs,
             orphanVideos |-> videos \ Matched, multi |-> MultiVideoDirs]
  /\ UNCHANGED <<treeVars, base, walkVars>>

OrphanAnnotations == {p \in found.pairs : p.video = None}
=============================================================================
