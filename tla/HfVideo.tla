-------------------------------- MODULE HfVideo -------------------------------
(***************************************************************************)
(* Hugging Face video classification: videos in folders, with the rows of  *)
(* metadata files of several kinds, at the root or per split.  A root maps *)
(* the paths of the videos to them, and <<directory, kind>> to the rows;   *)
(* a path is its directories, the parts of its stem and its extension; a   *)
(* sample has the path of its video, below the root it was loaded from.    *)
(***************************************************************************)
EXTENDS VideoData

HfvEmptyRoot == [files |-> <<>>, metas |-> <<>>]
HfvExtensions == {"mp4", "avi"}
HfvSplitOf == [train |-> "train", training |-> "train", val |-> "validation", valid |-> "validation",
               validation |-> "validation", test |-> "test"]
HfvInferSplit(dir) == IF dir \in DOMAIN HfvSplitOf THEN HfvSplitOf[dir] ELSE ""
HfvUnsafeSplits == {"a/b"}
HfvPath(dir, stem, ext) == [dir |-> dir, stem |-> stem, ext |-> ext]
HfvBelow(root, path) == [path EXCEPT !.dir = <<root>> \o @]
HfvKinds == <<"csv", "jsonl", "parquet">>

Clips(samples, categories) == [task |-> "vc", samples |-> samples, cats |-> categories]
NoClips == Clips(<<>>, <<>>)

------------------------------------------------------------------------------
(* The writer. *)

\* The split of a sample; any safe name is kept, a sample without one goes to data.
HfvSplit(sample, fallback, preserve) ==
    IF ~preserve \/ sample.split = "" \/ sample.split \in HfvUnsafeSplits THEN fallback
    ELSE IF HfvInferSplit(sample.split) # "" THEN HfvInferSplit(sample.split) ELSE sample.split
HfvPrefix(split) == IF split = "" THEN "data" ELSE split
\* The stem of the name, counted from 1 when this call has used the path.
HfvUniquePath(prefix, stem, ext, used) ==
    LET Counted(k) == HfvPath(<<prefix>>, IF k = 0 THEN stem ELSE Append(stem, ToString(k)), ext)
    IN  Counted(Min({k \in 0 .. Cardinality(used) : Counted(k) \notin used}))

\* A video that is itself the target is written beside it, as a "-copy".
HfvWriteSample(acc, sample, fallback, preserve) ==
    LET media == sample.video[1]
        ext == IF media.ext \in HfvExtensions THEN media.ext ELSE "mp4"
        stem == IF sample.stem = <<>> THEN media.name ELSE sample.stem
        prefix == HfvPrefix(HfvSplit(sample, fallback, preserve))
        first == HfvUniquePath(prefix, stem, ext, acc.used)
        path == IF sample.at = HfvBelow("dest", first)
                THEN HfvUniquePath(prefix, Append(stem, "copy"), ext, acc.used \cup {first}) ELSE first
    IN  IF sample.video = <<>> THEN acc
        ELSE [used |-> acc.used \cup {first, path}, rows |-> Append(acc.rows, [file |-> path, label |-> sample.label]),
              files |-> (path :> [media EXCEPT !.ext = ext, !.name = path.stem]) @@ acc.files]
\* The rows replace those of an earlier file of the same kind; other kinds stay.
HfvWrite(ds, existing, fallback, preserve, kind) ==
    LET written == FoldLeft(LAMBDA acc, sample : HfvWriteSample(acc, sample, fallback, preserve),
                            [used |-> {}, rows |-> <<>>, files |-> existing.files], ds.samples)
    IN  [files |-> written.files, metas |-> (<<<<>>, kind>> :> written.rows) @@ existing.metas]

------------------------------------------------------------------------------
(* The loader. *)

\* The metadata files of the root, else those of the split directories.
HfvMetadataFiles(root) ==
    LET In(dir) == SelectSeq([i \in DOMAIN HfvKinds |-> <<dir, HfvKinds[i]>>], LAMBDA m : m \in DOMAIN root.metas)
        dirs == SetToSeq({m[1] : m \in DOMAIN root.metas} \ {<<>>})
        splits == SelectSeq(dirs, LAMBDA dir : HfvInferSplit(dir[1]) # "")
    IN  IF In(<<>>) # <<>> THEN In(<<>>) ELSE FlattenSeq([i \in DOMAIN splits |-> In(splits[i])])

\* The first directory of a path that names no split is a label.
HfvLabelFromParts(dir) ==
    LET rest == IF dir # <<>> /\ HfvInferSplit(dir[1]) # "" THEN Tail(dir) ELSE dir
    IN  IF rest = <<>> THEN "" ELSE rest[1]
HfvSplitOfDir(dir) == IF dir = <<>> THEN "" ELSE HfvInferSplit(dir[1])

\* The file of a row is below the directory of the metadata, unless it names the split again.
HfvRecord(meta, row) ==
    LET split == HfvSplitOfDir(meta[1])
        repeated == split # "" /\ HfvSplitOfDir(row.file.dir) = split
        path == [row.file EXCEPT !.dir = IF repeated THEN @ ELSE meta[1] \o @]
    IN  IF ".." \in ToSet(row.file.dir) \/ row.file.ext \notin HfvExtensions THEN <<>>
        ELSE <<[path |-> path, split |-> IF split # "" THEN split ELSE HfvSplitOfDir(row.file.dir),
                label |-> IF row.label # "" THEN row.label ELSE HfvLabelFromParts(row.file.dir)]>>
HfvFromMetadata(root, metas) ==
    FlattenSeq([i \in DOMAIN metas |->
        IF metas[i][2] = "parquet" THEN <<>>        \* no reader is installed
        ELSE FlattenSeq([j \in DOMAIN root.metas[metas[i]] |-> HfvRecord(metas[i], root.metas[metas[i]][j])])])

\* Without metadata the folders tell: those of the splits if there are any, else all.
HfvFromFolders(root) ==
    LET videos == {p \in DOMAIN root.files : p.ext \in HfvExtensions}
        InSplit(p) == p.dir # <<>> /\ HfvInferSplit(p.dir[1]) # ""
        chosen == IF \E p \in DOMAIN root.files : InSplit(p) THEN {p \in videos : InSplit(p)} ELSE videos
        Record(p) == LET below == IF InSplit(p) THEN Tail(p.dir) ELSE p.dir
                     IN  [path |-> p, split |-> HfvSplitOfDir(p.dir), label |-> HfvLabelFromParts(below)]
    IN  SetToSeq({Record(p) : p \in chosen})

\* Records of files that exist, one per file, by their splits; within one in a fixed order.
HfvKept(root, records) ==
    LET once == FoldLeft(LAMBDA acc, r : IF \/ r.path \notin DOMAIN root.files
                                            \/ \E i \in DOMAIN acc : acc[i].path = r.path
                                         THEN acc ELSE Append(acc, r), <<>>, records)
        Of(split) == SetToSeq({r \in ToSet(once) : r.split = split})
    IN  Of("train") \o Of("validation") \o Of("test") \o Of("")

\* The labels in order are numbered from 0.
HfvLoad(root) ==
    LET metas == HfvMetadataFiles(root)
        rows == HfvFromMetadata(root, metas)
        onlyParquet == \A i \in DOMAIN metas : metas[i][2] = "parquet"
        records == HfvKept(root, IF rows = <<>> /\ onlyParquet THEN HfvFromFolders(root) ELSE rows)
        labels == SetToSeq({records[i].label : i \in DOMAIN records} \ {""})
        Sample(r) == [video |-> <<root.files[r.path]>>, at |-> HfvBelow("hfv", r.path),
                      stem |-> r.path.stem, label |-> r.label, split |-> r.split]
    IN  Clips([i \in DOMAIN records |-> Sample(records[i])],
              [l \in ToSet(labels) |-> (CHOOSE i \in DOMAIN labels : labels[i] = l) - 1])
==============================================================================
