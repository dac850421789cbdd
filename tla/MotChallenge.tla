------------------------------ MODULE MotChallenge ----------------------------
(***************************************************************************)
(* MOTChallenge: a directory per sequence below train or test, with frames *)
(* numbered from 1, a file of rows (ground truth or detections) and a      *)
(* seqinfo.ini.  A root maps <<split, directory>> to those; the frames are *)
(* numbered from 0 here.                                                   *)
(***************************************************************************)
EXTENDS VideoData

MotEmptyRoot == <<>>
MotSplits == {"train", "test"}
MotClassNames == (1 :> "pedestrian") @@ (3 :> "car") @@ (4 :> "bicycle")
NoSequence == [frames |-> <<>>, gt |-> <<>>, det |-> <<>>, info |-> <<>>]

------------------------------------------------------------------------------
(* The writer. *)

MotSplit(seq, fallback, preserve) ==
    IF preserve /\ seq.split \in MotSplits THEN seq.split ELSE fallback
MotTrack(box) == Attr(box, "mot_track_id", box.track)

\* Ground truth needs a positive track and a positive class; a detection has no class.
MotGtRow(box, classMap) ==
    {[frame |-> box.frame, id |-> MotTrack(box), bbox |-> box.bbox,
      conf |-> Attr(box, "confidence", 1), class |-> c.id] :
        c \in {c \in ResolveClass(box, "mot_class_id", classMap, <<>>) : c.id > 0 /\ MotTrack(box) > 0}}
MotDetRow(box) ==
    {[frame |-> box.frame, id |-> MotTrack(box), bbox |-> box.bbox,
      conf |-> FirstAttr(box, <<"score", "confidence">>, 1), class |-> 0]}
MotRow(box, source, classMap) ==
    InOrder(IF source = "gt" THEN MotGtRow(box, classMap) ELSE MotDetRow(box))

\* A sequence none of whose frames could be written is skipped, its name taken.
MotWriteSequence(acc, seq, fallback, preserve, source, classMap) ==
    LET split == MotSplit(seq, fallback, preserve)
        name == UniqueSequenceName(seq, {n[2] : n \in {m \in acc.used : m[1] = split}})
        at == <<split, name>>
        before == IF at \in DOMAIN acc.root THEN acc.root[at] ELSE NoSequence
        frames == MaterializeFrames(seq)
        rows == RowsOfBoxes(seq, LAMBDA box : MotRow(box, source, classMap))
        after == [before EXCEPT !.frames = Over(frames, @), ![source] = <<rows>>,
                                !.info = <<[name |-> name, length |-> Max(DOMAIN frames) + 1, rate |-> seq.fps]>>]
    IN  [used |-> acc.used \cup {at},
         root |-> IF frames = <<>> THEN acc.root ELSE Put(acc.root, at, after)]
MotWrite(ds, existing, fallback, preserve, source, classMap) ==
    FoldLeft(LAMBDA acc, seq : MotWriteSequence(acc, seq, fallback, preserve, source, classMap),
             [used |-> {}, root |-> existing], ds.seqs).root

------------------------------------------------------------------------------
(* The loader. *)

MotUri(class) == IF class = 0 THEN <<>>
                 ELSE <<"motchallenge", IF class \in DOMAIN MotClassNames THEN MotClassNames[class]
                                        ELSE "class_" \o ToString(class)>>

\* Ground truth that is marked as ignored, of an unwanted class or without a track is left out.
MotKept(row, source, ignored, classes) ==
    /\ row.frame >= 0 /\ Positive(row.bbox)
    /\ source = "gt" => /\ row.id > 0
                        /\ ignored \/ row.conf > 0
                        /\ classes = {} \/ row.class \in classes
MotAttributes(row, source, class) ==
    ("mot_track_id" :> row.id) @@ ((IF source = "gt" THEN "confidence" ELSE "score") :> row.conf)
    @@ (IF class = 0 THEN <<>> ELSE "mot_class_id" :> class)
\* A detection of no track gets one of its own, by its line.
MotBox(at, row, line, source) ==
    LET track == IF row.id > 0 THEN row.id ELSE -line
        class == IF source = "gt" THEN row.class ELSE 0
    IN  [uuid |-> <<at, source, track>>, track |-> track, cat |-> IF class = 0 THEN -1 ELSE class,
         uri |-> MotUri(class), name |-> NameOf(MotUri(class)), frame |-> row.frame, bbox |-> row.bbox,
         attrs |-> MotAttributes(row, source, class)]
MotBoxes(at, rows, source, ignored, classes) ==
    FlattenSeq([line \in DOMAIN rows |->
        IF MotKept(rows[line], source, ignored, classes) THEN <<MotBox(at, rows[line], line, source)>> ELSE <<>>])

\* The length is that of seqinfo.ini, else the number of frame files, else a bound.
MotSequence(at, dir, vid, source, ignored, classes) ==
    LET boxes == MotBoxes(at, dir[source][1], source, ignored, classes)
        counted == Cardinality(DOMAIN dir.frames)
        length == IF dir.info = <<>> THEN 0 ELSE dir.info[1].length
    IN  [vid |-> vid, label |-> IF dir.info = <<>> THEN at[2] ELSE dir.info[1].name,
         split |-> at[1], variant |-> "", format |-> "motchallenge", source |-> -1, status |-> "",
         fps |-> IF dir.info = <<>> THEN 0 ELSE dir.info[1].rate,
         kind |-> "pattern", video |-> <<>>, frames |-> dir.frames, names |-> <<>>, boxes |-> boxes,
         num |-> IF length > 0 THEN length ELSE IF counted > 0 THEN counted ELSE BoundOf(boxes),
         exact |-> length > 0 \/ counted > 0]

\* The sequences of train, then of test, that have a file of the rows asked for.
MotLoad(root, source, ignored, classes) ==
    LET with(split) == InOrder({at \in DOMAIN root : at[1] = split /\ root[at][source] # <<>>})
        ats == with("train") \o with("test")
        seqs == [i \in DOMAIN ats |-> MotSequence(ats[i], root[ats[i]], i - 1, source, ignored, classes)]
        boxes == FlattenSeq([i \in DOMAIN seqs |-> seqs[i].boxes])
        uris == Collect(boxes, LAMBDA box : IF box.uri = <<>> THEN <<>> ELSE <<box.uri>>)
        ClassOfUri(uri) == LET i == CHOOSE i \in DOMAIN boxes : boxes[i].uri = uri IN boxes[i].cat
    IN  Tracks(seqs, Listed(uris, ClassOfUri))
==============================================================================
