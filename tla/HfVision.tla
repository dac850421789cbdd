------------------------------- MODULE HfVision ------------------------------
(***************************************************************************)
(* Hugging Face vision repositories: image classification as class         *)
(* folders, object detection as images with a metadata file per directory. *)
(* A root is its images by path and its metadata files by directory: the   *)
(* rows, the table of a ClassLabel feature when there is one, and whether  *)
(* the file is in the format that can carry it (parquet).                  *)
(***************************************************************************)
EXTENDS Yolo

HfEmptyRoot == [images |-> <<>>, metadata |-> <<>>]

\* The names a split may have, and the one it is known by; no name is none of them.
HfSplitOf == [train |-> "train", training |-> "train", val |-> "validation", dev |-> "validation",
              valid |-> "validation", validation |-> "validation", test |-> "test",
              testing |-> "test", eval |-> "test", evaluation |-> "test"]
\* Faulty variant: only the names that are written are known.
HfSplit_Aliases(s) == IF s \in DOMAIN HfSplitOf /\ HfSplitOf[s] = s THEN s ELSE ""
HfSplit(s) == IF s \in DOMAIN HfSplitOf THEN HfSplitOf[s] ELSE ""
HfSplitOfDirs(dirs) == IF dirs = <<>> THEN "" ELSE HfSplit(Head(dirs))

\* The last part of the name of a sample, of its path, or one made of its id.
HfFileName(sample) ==
    BaseName(IF sample.name # NoName THEN sample.name
             ELSE IF sample.path # NoName THEN sample.path
             ELSE [NoName EXCEPT !.stem = "id", !.ext = "jpg"])

------------------------------------------------------------------------------
(* The writers. *)

\* One label per image, in a directory below a split the loader will know.
HfIcWriteSample(acc, sample, ds, fallback) ==
    LET class == ClassName(sample.labels[1], ds)
        split == IF HfSplit(sample.split) # "" THEN HfSplit(sample.split) ELSE fallback
        target == FirstFree(Below(<<split, class>>, HfFileName(sample)),
                            LAMBDA c : c \notin DOMAIN acc.images)
    IN  IF \/ sample.region \/ sample.labels = <<>> \/ sample.image = None
           \/ ~SafePart(class) \/ HfFileName(sample) = NoName
        THEN acc
        ELSE [acc EXCEPT !.images = Put(@, target, sample.image)]
HfWriteIc(ds, existing, fallback) ==
    FoldLeft(LAMBDA acc, s : HfIcWriteSample(acc, s, ds, fallback), existing, ds.samples)

\* What stands for a category: its name if there is one, else the id it had.
CategoryValue(det, ds) ==
    LET id == SourceIdOf(det)
        position == BySourceId(ds.entries, id)
    IN  IF det.name # "" THEN StrId(det.name)
        ELSE IF position # 0 THEN StrId(ds.entries[position].name)
        ELSE IF ds.dense /\ IsInt(id) /\ id[2] \in 0 .. Len(ds.entries) - 1
        THEN StrId(ds.entries[id[2] + 1].name)
        ELSE id

\* One sample: its image below its split (or data), and a row in that directory's file.  An image
\* that is itself the target is written beside it, as a "-copy", which a count of 0 stands for.
HfOdWriteSample(acc, sample, ds, fallback, preserve) ==
    LET own == HfSplit(sample.split)
        split == IF preserve /\ own # "" THEN own ELSE fallback
        dir == IF split = "" THEN "data" ELSE split
        slug == [HfFileName(sample) EXCEPT !.stem = IF @ = ".hidden" THEN "hidden" ELSE @]
        first == FirstFree(Below(<<dir>>, slug), LAMBDA c : c \notin acc.used)
        copy == FirstFree(Candidate(Below(<<dir>>, slug), 0), LAMBDA c : c \notin acc.used \cup {first})
        target == IF sample.path = Below(<<"dest">>, first) THEN copy ELSE first
        row == [file |-> BaseName(target), dims |-> sample.dims, label |-> None,
                boxes |-> [i \in DOMAIN sample.dets |-> sample.dets[i].box],
                categories |-> [i \in DOMAIN sample.dets |-> CategoryValue(sample.dets[i], ds)],
                ids |-> [i \in DOMAIN sample.dets |-> sample.dets[i].id]]
    IN  IF sample.image = None \/ HfFileName(sample) = NoName THEN acc
        ELSE [used |-> acc.used \cup {first, target},
              images |-> Put(acc.images, target, sample.image),
              rows |-> Put(acc.rows, dir, (IF dir \in DOMAIN acc.rows THEN acc.rows[dir] ELSE <<>>)
                                          \o <<row>>)]

\* The files replace those an earlier write left; without an image there is one empty file.
HfWriteOd(ds, existing, fallback, preserve) ==
    LET done == FoldLeft(LAMBDA acc, s : HfOdWriteSample(acc, s, ds, fallback, preserve),
                         [used |-> {}, images |-> existing.images, rows |-> <<>>], ds.samples)
        file(dir) == [rows |-> IF dir = <<>> THEN <<>> ELSE done.rows[dir[1]],
                      table |-> <<>>, parquet |-> FALSE]
        dirs == IF done.rows = <<>> THEN {<<>>} ELSE {<<d>> : d \in DOMAIN done.rows}
    IN  [images |-> done.images,
         metadata |-> [d \in DOMAIN existing.metadata \cup dirs |->
                         IF d \in dirs THEN file(d) ELSE existing.metadata[d]]]

------------------------------------------------------------------------------
(* The rows of a root. *)

\* The metadata files: those of the root, else those of the directories below it.
MetadataFiles(root) == IF <<>> \in DOMAIN root.metadata THEN {<<>>} ELSE DOMAIN root.metadata

\* A file name is relative to its metadata file, or to the root if it repeats the split.
MetadataBase(dir, name) ==
    IF HfSplitOfDirs(dir) # "" /\ HfSplitOfDirs(name.dir) = HfSplitOfDirs(dir) THEN <<>> ELSE dir

\* A label: the name an integer has in the table, the integer itself, or the text.
LabelFromMetadata(value, table) ==
    IF value = None THEN ""
    ELSE IF ~IsInt(value) THEN value[2]
    ELSE IF value[2] \in 0 .. Len(table) - 1 THEN table[value[2] + 1] ELSE ToString(value[2])
RowFromMetadata(dir, row, table) ==
    IF ~Safe(row.file) \/ row.file.ext \notin ImageExtensions THEN <<>>
    ELSE <<[path |-> Below(MetadataBase(dir, row.file), row.file),
            split |-> IF HfSplitOfDirs(dir) # "" THEN HfSplitOfDirs(dir) ELSE HfSplitOfDirs(row.file.dir),
            label |-> LabelFromMetadata(row.label, table), boxes |-> row.boxes, dims |-> row.dims,
            categories |-> row.categories, ids |-> row.ids]>>
RowsFromMetadata(root) ==
    Collect(InOrder(MetadataFiles(root)), LAMBDA dir :
        Collect(root.metadata[dir].rows, LAMBDA row : RowFromMetadata(dir, row, root.metadata[dir].table)))

\* The directories at the top are splits if all are named so, or those that are have classes.
IsSplitLayout(root) ==
    LET below == {p \in DOMAIN root.images : p.dir # <<>>}
        splits == {p.dir[1] : p \in below} \cap DOMAIN HfSplitOf
    IN  /\ splits # {}
        /\ \/ \A p \in below : p.dir[1] \in splits
           \/ \A s \in splits : \E p \in below : p.dir[1] = s /\ Len(p.dir) > 1

\* The first directory below the split is the label of an image.
RowsFromFolders(root) ==
    LET splits == IsSplitLayout(root)
        Inside(p) == ~splits \/ (p.dir # <<>> /\ p.dir[1] \in DOMAIN HfSplitOf)
        Classes(p) == IF splits THEN Tail(p.dir) ELSE p.dir
        Row(p) == [path |-> p, split |-> IF splits THEN HfSplitOf[p.dir[1]] ELSE "", dims |-> FALSE,
                   label |-> IF Classes(p) = <<>> THEN "" ELSE Head(Classes(p)),
                   boxes |-> <<>>, categories |-> <<>>, ids |-> <<>>]
        inside == InOrder({p \in DOMAIN root.images : p.ext \in ImageExtensions /\ Inside(p)})
    IN  [i \in DOMAIN inside |-> Row(inside[i])]

\* Metadata files without a row say nothing; for classification only if all are of the one format.
Silent(root, fallback) ==
    /\ RowsFromMetadata(root) = <<>>
    /\ fallback => \A d \in MetadataFiles(root) : root.metadata[d].parquet
\* Folders count only for classification, and only where no metadata file speaks.
DiscoverRows(root, fallback) ==
    IF fallback /\ Silent(root, fallback) THEN RowsFromFolders(root) ELSE RowsFromMetadata(root)
\* The first table, unless the metadata are silent.
TableOf(root, fallback) ==
    LET tables == Collect(InOrder(MetadataFiles(root)), LAMBDA dir :
                      IF root.metadata[dir].table = <<>> THEN <<>> ELSE <<root.metadata[dir].table>>)
    IN  IF Silent(root, fallback) \/ tables = <<>> THEN <<>> ELSE tables[1]

\* Rows of files that are there, one per file, by their splits; within one in a fixed order.
OncePerFile(rows) ==
    FoldLeft(LAMBDA acc, r : IF \E i \in DOMAIN acc : acc[i].path = r.path THEN acc ELSE Append(acc, r), <<>>, rows)
BySplit(rows) ==
    LET Of(split) == InOrder({r \in ToSet(rows) : r.split = split})
    IN  Of("train") \o Of("validation") \o Of("test") \o Of("")
KeptRows(root, fallback) ==
    BySplit(OncePerFile(Keep(DiscoverRows(root, fallback), LAMBDA r : r.path \in DOMAIN root.images)))

------------------------------------------------------------------------------
(* The loaders. *)

Numeric == [n \in 0 .. 9 |-> ToString(n)]
IntegerValue(label) == CHOOSE n \in DOMAIN Numeric : Numeric[n] = label
IsNumeric(label) == \E n \in DOMAIN Numeric : Numeric[n] = label
Sparse(ids) == \E i \in DOMAIN ids : ids[i] # IntId(i - 1)

\* The table of the labels, or their own integers, or their places in an order.
HfIcEntries(labels, table) ==
    LET ints == Ascending({IntegerValue(l) : l \in labels})
    IN  IF table # <<>> THEN NamedEntries(table \o InOrder(labels \ ToSet(table)))
        ELSE IF \A l \in labels : IsNumeric(l)
        THEN [i \in DOMAIN ints |-> [id |-> IntId(ints[i]), name |-> Numeric[ints[i]]]]
        ELSE NamedEntries(InOrder(labels))
IsDense(entries) == ~Sparse([i \in DOMAIN entries |-> entries[i].id])

HfIcDataset(root, rows, table) ==
    LET entries == HfIcEntries({rows[i].label : i \in DOMAIN rows} \ {""}, table)
        IdOf(label) == entries[ByName(entries, label)].id
        Sample(r) == [id |-> StrId(r.path), name |-> r.path, path |-> Below(<<"hf">>, r.path),
                      image |-> root.images[r.path], dims |-> r.dims, split |-> r.split, region |-> FALSE,
                      labels |-> IF r.label = "" THEN <<>>
                                 ELSE <<[cat |-> IdOf(r.label), src |-> IdOf(r.label),
                                         name |-> r.label, fixed |-> None]>>]
        samples == [i \in DOMAIN rows |-> Sample(rows[i])]
    IN  Dataset("ic", samples, entries, entries # <<>> /\ IsDense(entries), SplitsOf(samples))
HfLoadIc(root) == HfIcDataset(root, KeptRows(root, TRUE), TableOf(root, TRUE))

\* A box with an area and the category at its place: an id with its name, or a name; an empty
\* name is no category.
ParseObjects(row, table) ==
    Collect([i \in DOMAIN row.boxes |-> i], LAMBDA i :
        LET value == IF i \in DOMAIN row.categories /\ row.categories[i] # StrId("")
                     THEN row.categories[i] ELSE None
            named == IsInt(value) /\ value[2] \in 0 .. Len(table) - 1
        IN  IF ~Area(row.boxes[i]) THEN <<>>
            ELSE <<[id |-> IF i \in DOMAIN row.ids THEN row.ids[i] ELSE None, box |-> row.boxes[i],
                    cat |-> IF IsInt(value) THEN value ELSE None, src |-> value, score |-> FALSE,
                    name |-> IF named THEN table[value[2] + 1]
                             ELSE IF value # None /\ ~IsInt(value) THEN value[2] ELSE "",
                    fixed |-> None]>>)

\* Names without an id get the place they have in the table, else one after every id in use in
\* all the detections of the root.
AssignIds(dets, all, table) ==
    LET unnumbered == {d \in all : d.cat = None /\ d.name # ""}
        listed == [i \in 1 .. Len(table) |-> table[i]]
        others == InOrder({d.name : d \in unnumbered} \ ToSet(table))
        used == (0 .. Len(table) - 1) \cup {d.cat[2] : d \in {e \in all : IsInt(e.cat)}}
        IdOf(name) == IF name \in ToSet(listed) THEN IntId(Max({i \in DOMAIN listed : listed[i] = name}) - 1)
                      ELSE LET i == CHOOSE i \in DOMAIN others : others[i] = name
                           IN  IntId(Max(used \cup {-1}) + i)
    IN  [i \in DOMAIN dets |-> IF dets[i] \in unnumbered
                               THEN [dets[i] EXCEPT !.cat = IdOf(dets[i].name), !.src = IdOf(dets[i].name)]
                               ELSE dets[i]]

\* The table, then the categories of the detections: the first name of each id, in order.
HfOdEntries(dets, table) ==
    LET seen == {SourceIdOf(d) : d \in ToSet(dets)} \ {None}
        new == {id \in seen : BySourceId(NamedEntries(table), id) = 0}
        NameOf(id) == LET first == Min({i \in DOMAIN dets : SourceIdOf(dets[i]) = id})
                      IN  IF dets[first].name # "" THEN dets[first].name ELSE ToString(id[2])
        ordered == Ascending({id[2] : id \in new})
    IN  NamedEntries(table) \o [i \in DOMAIN ordered |-> [id |-> IntId(ordered[i]), name |-> NameOf(IntId(ordered[i]))]]

HfOdDataset(root, rows, table) ==
    LET parsed == [i \in DOMAIN rows |-> ParseObjects(rows[i], table)]
        all == ToSet(FlattenSeq(parsed))
        numbered == [i \in DOMAIN rows |-> AssignIds(parsed[i], all, table)]
        entries == HfOdEntries(FlattenSeq(numbered), table)
        Sample(i) == [id |-> StrId(rows[i].path), name |-> rows[i].path, path |-> Below(<<"hf">>, rows[i].path),
                      image |-> root.images[rows[i].path], dims |-> rows[i].dims, split |-> rows[i].split,
                      dets |-> numbered[i]]
        samples == [i \in DOMAIN rows |-> Sample(i)]
    IN  Dataset("od", samples, entries, entries # <<>> /\ IsDense(entries), SplitsOf(samples))
HfLoadOd(root) == HfOdDataset(root, KeptRows(root, FALSE), TableOf(root, FALSE))
==============================================================================
