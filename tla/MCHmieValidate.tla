--------------------------- MODULE MCHmieValidate ---------------------------
(***************************************************************************)
(* Two batches below a root.  Batch 1 has a snippet with a labeler, two    *)
(* videos and a second seq_* directory, a snippet with a scale directory   *)
(* of its own, one in a metadata directory, and annotations of the batch,  *)
(* one of whose names embeds two video names.  Batch 12 has one snippet    *)
(* whose video shares its name with videos of batch 1.  A video lies       *)
(* outside any seq_* directory.                                            *)
(***************************************************************************)
EXTENDS HmieValidate

MCDirs == 0..16
MCParent == [d \in 1..16 |->
  CASE d \in {1, 12} -> 0
    [] d \in {2, 6, 9, 11} -> 1
    [] d \in {3, 4, 5} -> 2
    [] d \in {7, 8} -> 6
    [] d = 10 -> 9
    [] d \in {13, 16} -> 12
    [] d \in {14, 15} -> 13]
MCAbove == [d \in MCDirs |->
  {d, 0} \cup (IF d \in 2..11 THEN {1} ELSE {}) \cup (IF d \in 13..16 THEN {12} ELSE {})
         \cup (IF d \in {3, 4, 5} THEN {2} ELSE {}) \cup (IF d \in {7, 8} THEN {6} ELSE {})
         \cup (IF d = 10 THEN {9} ELSE {}) \cup (IF d \in {14, 15} THEN {13} ELSE {})]
MCKind == [d \in MCDirs |->
  CASE d \in {4, 8, 10, 15} -> "seq_mp4"
    [] d = 5 -> "seq_ts"
    [] d \in {7, 11, 16} -> "scale"
    [] d \in {3, 14} -> "labeler"
    [] d = 9 -> "metadata"
    [] OTHER -> "plain"]

\* Files are named after the directory that holds them.
MCVideos == {40, 41, 50, 80, 100, 119, 150}
MCJsons == {30, 70, 110, 111, 112, 140, 160}
MCHolder == [f \in MCVideos \cup MCJsons |-> f \div 10]
MCName == [v \in MCVideos |-> IF v = 41 THEN "clip_a" ELSE IF v = 50 THEN "ts" ELSE "a"]
MCLength == [a |-> 1, ts |-> 2, clip_a |-> 6]
MCEmbeds == [j \in MCJsons |->
  CASE j \in {30, 140} -> {"ts"} [] j = 111 -> {"clip_a", "a"} [] j = 112 -> {} [] OTHER -> {"a"}]
MCLooksScale == MCJsons \ {112}

Optional == {3, 5, 6, 9, 11, 12, 14}
Flawed == {1, 2, 3, 4, 8, 11, 13}

\* The tree without some directories, and at most one directory that cannot
\* be read like the others.
MCTrees ==
  {[dirs |-> MCDirs \ {d \in MCDirs : MCAbove[d] \cap gone # {}},
    files |-> {f \in MCVideos \cup MCJsons : MCAbove[MCHolder[f]] \cap gone = {}},
    flaw |-> [d \in MCDirs |-> IF d = where THEN what ELSE "none"]] :
   gone \in SUBSET Optional, where \in Flawed, what \in Flaws}
=============================================================================
