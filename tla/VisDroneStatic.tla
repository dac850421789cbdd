---------------------------- MODULE VisDroneStatic ---------------------------
(***************************************************************************)
(* VisDrone still images: a root per split, each with its images and one   *)
(* file of rows per image, whose classes are those of a fixed table.       *)
(* A flat directory of images is the degenerate case, with no labels.      *)
(***************************************************************************)
EXTENDS HfVision

VdEmptyRoot == [images |-> <<>>, rows |-> <<>>]
VdReadable == {"png", "jpg"}          \* IMAGE_EXTENSIONS: TIFF and BMP too, WebP not

Classes == <<"ignored regions", "pedestrian", "people", "bicycle", "car", "van", "truck", "tricycle",
             "awning-tricycle", "bus", "motor", "others">>
ClassIds == 0 .. Len(Classes) - 1
ClassOf(name) == {n \in ClassIds : Classes[n + 1] = Lower(name)}

VdSplitOf == [train |-> "train", training |-> "train", validation |-> "val", valid |-> "val",
              val |-> "val", test |-> "test"] @@ ("test-dev" :> "test-dev") @@ ("test-challenge" :> "test-challenge")
VdSplit(s, fallback) == IF s \in DOMAIN VdSplitOf THEN VdSplitOf[s] ELSE fallback

------------------------------------------------------------------------------
(* The class of a label in the fixed table. *)

\* A map of names and ids decides alone; else the class the label was read with, its name, its number.
Resolved(label, classMap) ==
    LET number == IF IsInt(SourceIdOf(label)) THEN SourceIdOf(label)[2] ELSE -1
        named == IF label.name = "" THEN {} ELSE ClassOf(label.name)
        key == IF StrId(label.name) \in DOMAIN classMap THEN StrId(label.name) ELSE IntId(number)
        id == IF classMap # <<>> THEN IF key \in DOMAIN classMap THEN classMap[key] ELSE -1
              ELSE IF label.fixed # None THEN label.fixed[2]
              ELSE IF named # {} THEN CHOOSE n \in named : TRUE ELSE number
        guessed == classMap = <<>> /\ label.fixed = None /\ named = {}
    IN  IF id \notin ClassIds \/ (id = 0 /\ guessed) THEN <<>> ELSE <<id>>

\* Without a map a name the table does not have refuses the whole write.
Unmatched(labels, classMap) ==
    classMap = <<>> /\ \E l \in labels : l.name # "" /\ l.fixed = None /\ ClassOf(l.name) = {}
DetsOf(ds) == UNION {ToSet(ds.samples[i].dets) : i \in DOMAIN ds.samples}
FirstLabels(ds) == {ds.samples[i].labels[1] : i \in {j \in DOMAIN ds.samples : ds.samples[j].labels # <<>>}}

------------------------------------------------------------------------------
(* The writers. *)

\* One image below its split root, under a stem no other image there has.
WriteImage(acc, sample, split) ==
    LET raw == HfFileName(sample)
        name == [raw EXCEPT !.ext = IF @ = "" THEN "jpg" ELSE @]
        target == Below(<<split, "images">>,
                        FirstFree(name, LAMBDA c : <<split, c.stem, c.count>> \notin acc.stems))
    IN  IF sample.image = None \/ raw = NoName \/ name.ext \notin VdReadable
        THEN [acc EXCEPT !.last = NoName]
        ELSE [acc EXCEPT !.images = Put(@, target, sample.image), !.last = target,
                         !.stems = @ \cup {<<split, target.stem, target.count>>}]
RowsPath(target) == WithSuffix([target EXCEPT !.dir = <<@[1], "annotations">>], "txt")
AddRows(acc, rows) ==
    LET path == RowsPath(acc.last)
        before == IF path \in acc.opened THEN acc.rows[path] ELSE <<>>
    IN  IF acc.last = NoName THEN acc
        ELSE [acc EXCEPT !.rows = Put(@, path, before \o rows), !.opened = @ \cup {path}]
VdStart(existing) == [images |-> existing.images, rows |-> existing.rows, opened |-> {},
                      stems |-> {}, last |-> NoName, bySource |-> <<>>]
VdRoot(acc) == [images |-> acc.images, rows |-> acc.rows]
VdRow(label, box, classMap) ==
    IF ~Area(box) THEN <<>>
    ELSE LET class == Resolved(label, classMap)
         IN  IF class = <<>> THEN <<>> ELSE <<[class |-> class[1], box |-> box]>>

VdWriteOd(ds, existing, fallback, preserve, classMap) ==
    LET Split(s) == IF preserve THEN VdSplit(s.split, fallback) ELSE fallback
        One(acc, s) == AddRows(WriteImage(acc, s, Split(s)),
                               Collect(s.dets, LAMBDA d : VdRow(d, d.box, classMap)))
    IN  IF Unmatched(DetsOf(ds), classMap) THEN existing
        ELSE VdRoot(FoldLeft(One, VdStart(existing), ds.samples))

\* A crop is a row of its source image, which is copied once per split.
VdWriteIc(ds, existing, fallback, preserve, classMap) ==
    LET Split(s) == IF preserve THEN VdSplit(s.split, fallback) ELSE fallback
        Source(s) == <<Split(s), s.path>>
        Boxes(s) == IF s.region THEN <<s.box>>
                    ELSE IF SampleDims(s) THEN <<[l |-> 0, r |-> Extent]>> ELSE <<>>
        Rows(s) == IF s.labels = <<>> \/ Boxes(s) = <<>> THEN <<>>
                   ELSE VdRow(s.labels[1], Boxes(s)[1], classMap)
        Image(acc, s) == IF s.path # NoName /\ Source(s) \in DOMAIN acc.bySource
                         THEN [acc EXCEPT !.last = acc.bySource[Source(s)]]
                         ELSE LET next == WriteImage(acc, s, Split(s))
                              IN  IF s.path = NoName THEN next
                                  ELSE [next EXCEPT !.bySource = Put(@, Source(s), next.last)]
        One(acc, s) == IF Rows(s) = <<>> THEN acc ELSE AddRows(Image(acc, s), Rows(s))
    IN  IF Unmatched(FirstLabels(ds), classMap) THEN existing
        ELSE VdRoot(FoldLeft(One, VdStart(existing), ds.samples))

------------------------------------------------------------------------------
(* The loaders. *)

\* The directories with images and annotations, in the order of their splits.
VdSplitRoots(root) ==
    {s \in {p.dir[1] : p \in DOMAIN root.images} : \E p \in DOMAIN root.rows : p.dir[1] = s}
VdSplitOrder == <<"train", "val", "test-dev", "test-challenge", "test">>
VdImages(root, s) == {p \in DOMAIN root.images : p.dir = <<s, "images">> /\ p.ext \in VdReadable}
Stem(p) == [NoName EXCEPT !.stem = p.stem, !.count = p.count]

\* The id of an image is its stem, with the name of its root where a stem there is repeated.
VdId(root, p) ==
    LET stems(s) == {Stem(q) : q \in VdImages(root, s)}
        repeated(s) == \E t \in VdSplitRoots(root) \ {s} : stems(s) \cap stems(t) # {}
    IN  IF repeated(p.dir[1]) THEN <<p.dir[1], Stem(p)>> ELSE <<"", Stem(p)>>

FixedEntries(ids) == Keep([i \in DOMAIN Classes |-> [id |-> IntId(i - 1), name |-> Classes[i]]],
                          LAMBDA e : e.id[2] \in ids)
VdLabels(rows) == Keep(rows, LAMBDA r : Area(r.box) /\ r.class \in ClassIds)
VdDetection(row) == [id |-> None, cat |-> IntId(row.class), src |-> IntId(row.class), score |-> FALSE,
                     name |-> Classes[row.class + 1], box |-> row.box, fixed |-> IntId(row.class)]
VdRowsOf(root, p) == IF RowsPath(p) \in DOMAIN root.rows THEN VdLabels(root.rows[RowsPath(p)]) ELSE <<>>
VdPaths(root) == FlattenSeq([k \in DOMAIN VdSplitOrder |->
                    IF VdSplitOrder[k] \in VdSplitRoots(root)
                    THEN InOrder(VdImages(root, VdSplitOrder[k])) ELSE <<>>])

VdLoadOd(root) ==
    LET Sample(p) == [id |-> StrId(VdId(root, p)), name |-> BaseName(p), path |-> Below(<<"vd">>, p),
                      image |-> root.images[p], dims |-> FALSE, split |-> p.dir[1],
                      dets |-> LET rows == VdRowsOf(root, p)
                               IN  [i \in DOMAIN rows |-> VdDetection(rows[i])]]
        paths == VdPaths(root)
    IN  IF paths = <<>> THEN EmptyDataset("od")
        ELSE Dataset("od", [i \in DOMAIN paths |-> Sample(paths[i])], FixedEntries(ClassIds), TRUE,
                     VdSplitRoots(root))

\* Faulty variant: the rows are detections of their image.
VdLoadIc_Detections(root, ignored) == VdLoadOd(root)

\* A sample for each row: the crop of its box, but not the ignored regions.
VdLoadIc(root, ignored) ==
    LET Crop(p, rows, i) ==
            [id |-> StrId(<<VdId(root, p), i>>), name |-> BaseName(p), path |-> Below(<<"vd">>, p),
             image |-> root.images[p], dims |-> TRUE, split |-> p.dir[1], region |-> TRUE,
             box |-> rows[i].box,
             labels |-> <<[cat |-> IntId(rows[i].class), src |-> IntId(rows[i].class),
                           name |-> Classes[rows[i].class + 1], fixed |-> IntId(rows[i].class)]>>]
        Crops(p) == LET rows == VdRowsOf(root, p)
                    IN  Collect([i \in DOMAIN rows |-> i],
                                LAMBDA i : IF rows[i].class = 0 /\ ~ignored THEN <<>> ELSE <<Crop(p, rows, i)>>)
        samples == Collect(VdPaths(root), Crops)
    IN  IF samples = <<>> THEN EmptyDataset("ic")
        ELSE Dataset("ic", samples, FixedEntries(IF ignored THEN ClassIds ELSE ClassIds \ {0}), ignored,
                     VdSplitRoots(root))

------------------------------------------------------------------------------
(* A flat directory of images. *)

FlatExtensions == {"png", "jpg"}

\* The name of an image is free if none written in this call has it.
FlatWriteSample(acc, sample) ==
    LET raw == HfFileName(sample)
        target == FirstFree(raw, LAMBDA c : c \notin acc.used)
    IN  IF raw = NoName \/ sample.image = None THEN acc
        ELSE [used |-> acc.used \cup {target}, images |-> Put(acc.images, target, sample.image)]
FlatWrite(ds, existing) ==
    LET done == FoldLeft(FlatWriteSample, [used |-> {}, images |-> existing.images], ds.samples)
    IN  [images |-> done.images]

\* Only the immediate children, and only if the contents are what the suffix says.
FlatLoad(root) ==
    LET paths == InOrder({p \in DOMAIN root.images : p.dir = <<>> /\ p.ext \in FlatExtensions
                                                      /\ root.images[p][2] = p.ext})
        Sample(p) == [id |-> StrId(p), name |-> p, path |-> Below(<<"flat">>, p), image |-> root.images[p],
                      dims |-> FALSE, split |-> "", dets |-> <<>>]
    IN  Dataset("od", [i \in DOMAIN paths |-> Sample(paths[i])], <<>>, FALSE, {})
==============================================================================
