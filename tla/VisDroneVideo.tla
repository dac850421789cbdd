----------------------------- MODULE VisDroneVideo ----------------------------
(***************************************************************************)
(* VisDrone video: a directory per variant and split, VisDrone2019-VID-val *)
(* say, with the frames of each sequence and a file of rows for it.  A     *)
(* root maps <<variant, split, sequence>> to the frames and to the rows,   *)
(* <<>> when there is no file of rows.                                     *)
(***************************************************************************)
EXTENDS VideoData

VisEmptyRoot == <<>>
VisVariants == {"vid", "mot"}
VisClassNames == (0 :> "ignored_region") @@ (1 :> "pedestrian") @@ (2 :> "people")
                 @@ (3 :> "bicycle") @@ (4 :> "car")
\* The splits a loader tells apart, in its order.
VisSplitOrder == <<"train", "val", "test-dev", "test-challenge", "test">>
VisSplitAliases == [training |-> "train", valid |-> "val", validation |-> "val",
                    test_dev |-> "test-dev", test_challenge |-> "test-challenge"]
VisUnsafeSplits == {"", "a/b"}

------------------------------------------------------------------------------
(* The writer. *)

VisVariant(seq, variant) ==
    IF variant # "auto" THEN variant ELSE IF seq.variant \in VisVariants THEN seq.variant ELSE "vid"
VisSplit(seq, fallback, preserve) ==
    IF ~preserve \/ seq.split \in VisUnsafeSplits THEN fallback
    ELSE IF seq.split \in DOMAIN VisSplitAliases THEN VisSplitAliases[seq.split] ELSE seq.split

\* A name that no class has stops the whole call, unless the source or a map gives the class.
VisRefused(ds, classMap) ==
    classMap = <<>> /\ \E i \in DOMAIN ds.seqs : \E j \in DOMAIN ds.seqs[i].boxes :
        LET box == ds.seqs[i].boxes[j]
        IN  /\ "visdrone_category_id" \notin DOMAIN box.attrs
            /\ box.name # "" /\ ClassByName(VisClassNames, box.name) = {}

\* Ground truth needs a positive target, except in a region or a row that is ignored.
VisRow(box, source, classMap) ==
    LET target == Attr(box, "visdrone_target_id", box.track)
        score == FirstAttr(box, <<"visdrone_score", "score", "confidence">>, 1)
    IN  InOrder({[frame |-> box.frame, id |-> target, bbox |-> box.bbox, score |-> score, class |-> c.id] :
            c \in {c \in ResolveClass(box, "visdrone_category_id", classMap, VisClassNames) :
                     /\ c.id >= 0
                     /\ \/ source = "det" \/ target > 0 \/ score <= 0
                        \/ c.id = 0 /\ ~c.guessed}})

\* A sequence none of whose frames could be written is skipped, its name taken.
VisWriteSequence(acc, seq, variant, fallback, preserve, source, classMap) ==
    LET home == <<VisVariant(seq, variant), VisSplit(seq, fallback, preserve)>>
        name == UniqueSequenceName(seq, {n[3] : n \in {m \in acc.used : <<m[1], m[2]>> = home}})
        at == Append(home, name)
        before == IF at \in DOMAIN acc.root THEN acc.root[at].frames ELSE <<>>
        frames == MaterializeFrames(seq)
        rows == RowsOfBoxes(seq, LAMBDA box : VisRow(box, source, classMap))
    IN  [used |-> acc.used \cup {at},
         root |-> IF frames = <<>> THEN acc.root
                  ELSE Put(acc.root, at, [frames |-> Over(frames, before), rows |-> <<rows>>])]
VisWrite(ds, existing, variant, fallback, preserve, source, classMap) ==
    IF VisRefused(ds, classMap) THEN existing
    ELSE FoldLeft(LAMBDA acc, seq : VisWriteSequence(acc, seq, variant, fallback, preserve, source, classMap),
                  [used |-> {}, root |-> existing], ds.seqs).root

------------------------------------------------------------------------------
(* The loader. *)

\* A directory that names none of the splits is a split of its own, by its whole name.
VisInferSplit(at) == IF at[2] \in ToSet(VisSplitOrder) THEN at[2]
                     ELSE "VisDrone2019-" \o at[1] \o "-" \o at[2]
VisSplitRank(split) ==
    IF split \in ToSet(VisSplitOrder) THEN CHOOSE i \in DOMAIN VisSplitOrder : VisSplitOrder[i] = split
    ELSE Len(VisSplitOrder) + 1
VisUri(class) == <<"visdrone_video", IF class \in DOMAIN VisClassNames THEN VisClassNames[class]
                                     ELSE "class_" \o ToString(class)>>

VisIgnored(row, source) == row.class = 0 \/ (source = "gt" /\ row.score <= 0)
VisKept(row, source, ignored, classes) ==
    /\ row.frame >= 0 /\ Positive(row.bbox) /\ row.class >= 0
    /\ VisIgnored(row, source) => ignored
    /\ classes = {} \/ row.class \in classes
    /\ source = "gt" /\ row.id <= 0 => VisIgnored(row, source)
VisAttributes(row, source) ==
    ("visdrone_target_id" :> row.id) @@ ("visdrone_category_id" :> row.class)
    @@ ("visdrone_score" :> row.score) @@ ((IF source = "gt" THEN "confidence" ELSE "score") :> row.score)
\* The uuid of a track names its split, not its variant.
VisBox(at, row, line, source) ==
    LET track == IF row.id > 0 THEN row.id ELSE -line
    IN  [uuid |-> <<VisInferSplit(at), at[3], source, track>>, track |-> track, cat |-> row.class,
         uri |-> VisUri(row.class), name |-> NameOf(VisUri(row.class)), frame |-> row.frame,
         bbox |-> row.bbox,
         attrs |-> VisAttributes(row, source)]
VisBoxes(at, rows, source, ignored, classes) ==
    FlattenSeq([line \in DOMAIN rows |->
        IF VisKept(rows[line], source, ignored, classes) THEN <<VisBox(at, rows[line], line, source)>> ELSE <<>>])

\* The length is the number of frame files, not one more than the last of them.
VisSequence(at, dir, vid, variant, source, ignored, classes) ==
    LET boxes == VisBoxes(at, dir.rows[1], source, ignored, classes)
        counted == Cardinality(DOMAIN dir.frames)
    IN  [vid |-> vid, label |-> at[3], split |-> VisInferSplit(at),
         variant |-> IF variant = "auto" THEN at[1] ELSE variant,
         format |-> "visdrone_video", source |-> -1, status |-> "", fps |-> 0, kind |-> "pattern", video |-> <<>>,
         frames |-> dir.frames, names |-> <<>>, boxes |-> boxes,
         num |-> IF counted > 0 THEN counted ELSE BoundOf(boxes), exact |-> counted > 0]

\* The sequences that have a file of rows, split by split, MOT before VID.
VisLoad(root, variant, source, ignored, classes) ==
    LET ranked == [k \in 1 .. Len(VisSplitOrder) + 1 |->
                      {at \in DOMAIN root : root[at].rows # <<>> /\ VisSplitRank(at[2]) = k}]
        Of(v, k) == InOrder({at \in ranked[k] : at[1] = v})
        ats == FlattenSeq([k \in DOMAIN ranked |-> Of("mot", k) \o Of("vid", k)])
        seqs == [i \in DOMAIN ats |-> VisSequence(ats[i], root[ats[i]], i - 1, variant, source, ignored, classes)]
        boxes == FlattenSeq([i \in DOMAIN seqs |-> seqs[i].boxes])
        ClassOfUri(uri) == LET i == CHOOSE i \in DOMAIN boxes : boxes[i].uri = uri IN boxes[i].cat
    IN  Tracks(seqs, Listed([i \in DOMAIN boxes |-> boxes[i].uri], ClassOfUri))
==============================================================================
