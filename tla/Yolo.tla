--------------------------------- MODULE Yolo --------------------------------
(***************************************************************************)
(* YOLO object detection and image classification: what the writers put    *)
(* into a root and what the loaders make of it.  A root is the data.yaml   *)
(* (a task, the splits it declares, the names of the classes), the images  *)
(* and the label files by path, the class directories and the markers of   *)
(* those that hold no object in an object store.                           *)
(***************************************************************************)
EXTENDS ImageData

ImageExtensions == {"png", "jpg", "webp"}
SizeReadable == {"png", "jpg"}                  \* _read_image_size
DeclaredSplits == {"train", "val", "test"}      \* _OD_SPLIT_KEYS
EmptyRoot == [yaml |-> [task |-> "", splits |-> {}, names |-> <<>>],
              images |-> <<>>, labels |-> <<>>, dirs |-> {}, markers |-> {}]

UnsafeParts == {"", "..", "a/b"}
SafePart(text) == text \notin UnsafeParts

\* The path without its first directory when that is one of these.
DropFirst(name, dirs) == IF name.dir # <<>> /\ Head(name.dir) \in dirs
                         THEN [name EXCEPT !.dir = Tail(@)] ELSE name
SplitAliases(split) == {s \in DOMAIN SplitOf : SplitOf[s] = split}

------------------------------------------------------------------------------
(* The object detection writer. *)

\* Dense class ids: the position of the entry with the id, else of that with the name.
DiscoveredIds(ds) ==
    LET dets == FlattenSeq([i \in DOMAIN ds.samples |-> ds.samples[i].dets])
        ids == {SourceIdOf(dets[i]) : i \in DOMAIN dets} \ {None}
        ints == {id[2] : id \in {i \in ids : IsInt(i)}}
        NameOf(id) == LET i == CHOOSE i \in DOMAIN dets :
                                 /\ SourceIdOf(dets[i]) = id
                                 /\ \A j \in 1 .. i - 1 : SourceIdOf(dets[j]) # id
                      IN  IF dets[i].name # "" THEN dets[i].name ELSE "id"
        ordered == [k \in 1 .. Cardinality(ints) |-> IntId(Ascending(ints)[k])]
                   \o InOrder({id \in ids : ~IsInt(id)})
    IN  [k \in DOMAIN ordered |-> [id |-> ordered[k], name |-> NameOf(ordered[k])]]
Projection(ds) == IF ds.entries # <<>> THEN ds.entries ELSE DiscoveredIds(ds)
\* Faulty variant: an integer id is taken for the class.
Resolve_Raw(entries, det) == IF IsInt(SourceIdOf(det)) THEN SourceIdOf(det)[2] ELSE -1

Resolve(entries, det) ==
    LET position == BySourceId(entries, SourceIdOf(det))
        named == IF det.name = "" THEN 0 ELSE ByName(entries, det.name)
    IN  IF position # 0 THEN position - 1 ELSE named - 1

\* The path of an image below its split: a prefix that names the split is dropped.
OdImageRel(sample, split) ==
    LET raw == IF sample.name # NoName THEN sample.name
               ELSE IF sample.path # NoName THEN BaseName(sample.path)
               ELSE [NoName EXCEPT !.stem = sample.id[2], !.ext = "jpg"]
    IN  DropFirst(DropFirst(DropFirst(raw, {"images"}), SplitAliases(split)), {"images"})
OdRelSafe(rel) == Safe(rel) /\ (rel.dir = <<>> \/ Head(rel.dir) # "labels")

ImagePath(split, rel) == Below(<<"images", split>>, rel)
LabelPath(split, rel) == Below(<<"labels", split>>, WithSuffix(rel, "txt"))

\* Faulty variant: only the image needs a free name.
UniqueOdTarget_Labels(root, split, rel, include) ==
    FirstFree(rel, LAMBDA c : include => ImagePath(split, c) \notin DOMAIN root.images)
\* Faulty variant: the name is taken as it is.
UniqueOdTarget_Overwrite(root, split, rel, include) == rel

\* An image and its label file take a name that is free for both.
UniqueOdTarget(root, split, rel, include) ==
    FirstFree(rel, LAMBDA c : /\ include => ImagePath(split, c) \notin DOMAIN root.images
                              /\ LabelPath(split, c) \notin DOMAIN root.labels)

\* The rows of a label file: a class, and a box that has an area within the image.
OdLabelLines(sample, entries, scores) ==
    IF ~SampleDims(sample) THEN <<>>
    ELSE Collect(sample.dets, LAMBDA det :
           LET box == ClampToImage(det.box) IN
           IF Resolve(entries, det) >= 0 /\ Area(det.box) /\ Area(box)
           THEN <<[class |-> Resolve(entries, det), box |-> ToYolo(box), score |-> scores /\ det.score]>>
           ELSE <<>>)

\* The directory of the label file counts as the split, also where it is one below that.
OdWriteSample(acc, sample, entries, include, scores) ==
    LET split == IF sample.split = "" THEN "train" ELSE sample.split
        rel == OdImageRel(sample, split)
        target == UniqueOdTarget(acc.root, split, rel, include)
    IN  IF ~SafePart(split) \/ ~OdRelSafe(rel) \/ (include /\ sample.image = None) THEN acc
        ELSE [splits |-> acc.splits \cup {Last(LabelPath(split, target).dir)},
              root |-> [acc.root EXCEPT
                !.images = IF include THEN Put(@, ImagePath(split, target), sample.image) ELSE @,
                !.labels = Put(@, LabelPath(split, target), OdLabelLines(sample, entries, scores))]]

YoloWriteOd(ds, existing, include, scores) ==
    LET entries == Projection(ds)
        done == FoldLeft(LAMBDA acc, s : OdWriteSample(acc, s, entries, include, scores),
                         [root |-> existing, splits |-> {}], ds.samples)
        splits == IF done.splits # {} \/ entries = <<>> THEN done.splits
                  ELSE IF ds.splits # {} THEN ds.splits ELSE {"train"}
    IN  [done.root EXCEPT !.yaml = [task |-> "od", splits |-> splits \cap DeclaredSplits,
                                    names |-> [i \in DOMAIN entries |-> entries[i].name]]]

------------------------------------------------------------------------------
(* The object detection loader. *)

\* The images below a directory, without those that are hidden or no images.
IterImages(root, dirs) ==
    {p \in DOMAIN root.images : IsPrefix(dirs, p.dir) /\ p.ext \in ImageExtensions
        /\ ~Hidden([p EXCEPT !.dir = SubSeq(p.dir, Len(dirs) + 1, Len(p.dir))])}
RelativeTo(path, dirs) == [path EXCEPT !.dir = SubSeq(@, Len(dirs) + 1, Len(@))]

\* A record of the loader: an image, its split and its name below the source.
Record(path, split, name) == [path |-> path, split |-> split, name |-> name]
YamlRecords(root, selected) ==
    UNION {{Record(p, split, RelativeTo(p, <<"images", split>>)) :
               p \in IterImages(root, <<"images", split>>)} : split \in root.yaml.splits \cap selected}
HasDir(files, dirs) == \E p \in DOMAIN files : IsPrefix(dirs, p.dir)
StandardRecords(root, selected, annDir) ==
    LET SplitDir(p) == IF Len(p.dir) > 1 THEN InferSplit(p.dir[2]) ELSE ""
        tree == IF annDir \/ HasDir(root.labels, <<"labels">>)
                THEN {Record(p, SplitDir(p), RelativeTo(p, IF SplitDir(p) = "" THEN <<"images">>
                                                           ELSE SubSeq(p.dir, 1, 2))) :
                        p \in IterImages(root, <<"images">>)} ELSE {}
        Below2(s) == IF annDir \/ HasDir(root.labels, <<s, "labels">>)
                     THEN {Record(p, SplitOf[s], RelativeTo(p, <<s, "images">>)) :
                             p \in IterImages(root, <<s, "images">>)} ELSE {}
    IN  {r \in tree \cup UNION {Below2(s) : s \in DOMAIN SplitOf} : r.split \in selected}
OdRecords(root, selected, annDir) ==
    IF YamlRecords(root, selected) # {} THEN YamlRecords(root, selected)
    ELSE StandardRecords(root, selected, annDir)

\* The label file of an image: labels in the place of the first images directory.
InferLabelPath(path) ==
    LET at == {i \in DOMAIN path.dir : path.dir[i] = "images"}
    IN  WithSuffix(IF at = {} THEN Below(<<"labels">>, path)
                   ELSE [path EXCEPT !.dir[Min(at)] = "labels"], "txt")

\* With ann_dir: the path mirrored below it, else its name alone, if one image claims it.
AnnMirror(path) == WithSuffix([path EXCEPT !.dir = <<"ann">> \o SelectSeq(@, LAMBDA d : d # "images")], "txt")
AnnClaim(root, path) ==
    IF AnnMirror(path) \in DOMAIN root.labels THEN AnnMirror(path)
    ELSE WithSuffix([path EXCEPT !.dir = <<"ann">>], "txt")
Ambiguous(root, records, r) ==
    \E other \in records : other.path # r.path /\ AnnClaim(root, other.path) = AnnClaim(root, r.path)
LabelRows(root, records, r, annDir) ==
    LET path == IF annDir THEN AnnClaim(root, r.path) ELSE InferLabelPath(r.path) IN
    IF path \notin DOMAIN root.labels \/ (annDir /\ Ambiguous(root, records, r))
    THEN <<>> ELSE root.labels[path]

ParsedRow(row, entries) ==
    IF row.box.w > 0 /\ row.box.c \in 0 .. Extent /\ row.box.w <= Extent
    THEN LET i == BySourceId(entries, IntId(row.class))
         IN <<[id |-> None, cat |-> IntId(row.class), src |-> IntId(row.class),
               name |-> IF i = 0 THEN "" ELSE entries[i].name,
               box |-> FromYolo(row.box), score |-> row.score, fixed |-> None]>>
    ELSE <<>>

\* The names of data.yaml; without any, the classes the label files use.
OdTaxonomy(root, rowsOf) ==
    LET used == UNION {{rows[i].class : i \in DOMAIN rows} : rows \in rowsOf}
        ids == Ascending(used)
    IN  IF root.yaml.names # <<>>
        THEN Keep(NamedEntries(root.yaml.names), LAMBDA e : e.name # "")
        ELSE [i \in DOMAIN ids |-> [id |-> IntId(ids[i]), name |-> "id"]]

YoloLoadOd(root, selected, annDir) ==
    LET records == OdRecords(root, selected, annDir)
        Rows(r) == LabelRows(root, records, r, annDir)
        entries == OdTaxonomy(root, {Rows(r) : r \in records})
        Readable(r) == root.images[r.path][2] \in SizeReadable
        Sample(r) == [id |-> StrId(r.path), name |-> r.name, path |-> Below(<<"yolo">>, r.path),
                      image |-> root.images[r.path], dims |-> Readable(r), split |-> r.split,
                      dets |-> IF Readable(r) THEN Collect(Rows(r), LAMBDA row : ParsedRow(row, entries))
                               ELSE <<>>]
        ordered == InOrder(records)
    IN  Dataset("od", [i \in DOMAIN ordered |-> Sample(ordered[i])], entries,
                \A i \in DOMAIN entries : entries[i].id = IntId(i - 1),
                IF records = {} THEN IF entries = <<>> THEN {} ELSE root.yaml.splits \cap selected
                ELSE {r.split : r \in records} \ {""})

------------------------------------------------------------------------------
(* The image classification writer and loader. *)

ClassName(label, ds) ==
    LET id == SourceIdOf(label)
        position == BySourceId(ds.entries, id)
        named == IF label.name = "" THEN 0 ELSE ByName(ds.entries, label.name)
    IN  IF position # 0 THEN ds.entries[position].name
        ELSE IF ds.dense /\ IsInt(id) /\ id[2] \in 0 .. Len(ds.entries) - 1
        THEN ds.entries[id[2] + 1].name
        ELSE IF named # 0 THEN ds.entries[named].name ELSE label.name

\* One label per image, in a directory of its own; a crop cannot be written.
IcWriteSample(acc, sample, ds) ==
    LET split == IF sample.split = "" THEN "train" ELSE sample.split
        class == ClassName(sample.labels[1], ds)
        raw == IF sample.name # NoName THEN sample.name ELSE sample.path
        seed == [raw EXCEPT !.dir = <<split, class>>]
        target == FirstFree(seed, LAMBDA c : c \notin DOMAIN acc.images)
    IN  IF \/ sample.region \/ sample.labels = <<>> \/ sample.image = None
           \/ ~SafePart(class) \/ ~SafePart(split)
        THEN acc
        ELSE [acc EXCEPT !.images = Put(@, target, sample.image), !.dirs = @ \cup {target.dir}]

\* A directory for every class of the taxonomy; in an object store a marker.
ClassDirs(written, ds) ==
    LET splits == {d[1] : d \in written.dirs}
        all == IF splits # {} THEN splits ELSE IF ds.splits # {} THEN ds.splits ELSE {"train"}
    IN  {<<s, ds.entries[i].name>> : s \in all, i \in DOMAIN ds.entries}

\* A class or a split whose name cannot be a directory ends the write at its turn.
IcWritten(ds, existing) ==
    FoldLeft(LAMBDA acc, s : IcWriteSample(acc, s, ds), [existing EXCEPT !.dirs = {}], ds.samples)
IcRaises(ds, existing) ==
    \E d \in ClassDirs(IcWritten(ds, existing), ds) : ~SafePart(d[1]) \/ ~SafePart(d[2])
\* The data.yaml tells of this call alone, the directories are those of every call.
YoloWriteIc(ds, existing, remote) ==
    LET written == IcWritten(ds, existing)
        dirs == ClassDirs(written, ds)
        kept == IF remote \/ written.images # existing.images THEN dirs ELSE {}
        seen == written.dirs \cup dirs
    IN  IF IcRaises(ds, existing) THEN [written EXCEPT !.dirs = @ \cup existing.dirs]
        ELSE [written EXCEPT !.dirs = @ \cup existing.dirs \cup kept,
                             !.markers = IF remote THEN @ \cup (dirs \ written.dirs) ELSE @,
                             !.yaml = [task |-> "ic", splits |-> {d[1] : d \in seen} \cap DeclaredSplits,
                                       names |-> InOrder({d[2] : d \in seen})]]

\* What a listing leaves out: a directory whose name begins with a dot.
Visible(part) == part # ".hidden"
\* A split directory is named like one and holds a class with an image below it.
IsDeepSplitDir(root, s) ==
    s \in DOMAIN SplitOf /\ \E d \in root.dirs : /\ d[1] = s /\ Visible(d[2])
                                                 /\ IterImages(root, d) # {} \/ d \in root.markers

\* The class directories, each with its split, of the layout the root is read as.
ClassDirsOf(root, selected) ==
    IF \E d \in root.dirs : IsDeepSplitDir(root, d[1])
    THEN {[at |-> d, split |-> SplitOf[d[1]], class |-> d[2]] :
            d \in {e \in root.dirs : e[1] \in DOMAIN SplitOf /\ Visible(e[2]) /\ SplitOf[e[1]] \in selected}}
    ELSE IF "" \notin selected THEN {}
    ELSE {[at |-> <<d[1]>>, split |-> "", class |-> d[1]] : d \in {e \in root.dirs : Visible(e[1])}}

YoloLoadIc(root, selected) ==
    LET dirs == ClassDirsOf(root, selected)
        classes == IF dirs = {} THEN root.yaml.names ELSE InOrder({d.class : d \in dirs})
        entries == NamedEntries(classes)
        Sample(d, p) == [id |-> StrId(p), name |-> p, path |-> Below(<<"yolo">>, p),
                         image |-> root.images[p], dims |-> FALSE, split |-> d.split, region |-> FALSE,
                         labels |-> <<[cat |-> IntId(ByName(entries, d.class) - 1),
                                       src |-> IntId(ByName(entries, d.class) - 1), name |-> d.class, fixed |-> None]>>]
        samples == InOrder(UNION {{Sample(d, p) : p \in IterImages(root, d.at)} : d \in dirs})
    IN  Dataset("ic", samples, entries, TRUE,
                IF samples # <<>> THEN SplitsOf(samples)
                ELSE IF dirs = {} THEN root.yaml.splits \cap selected ELSE {d.split : d \in dirs} \ {""})
==============================================================================
