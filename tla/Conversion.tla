------------------------------ MODULE Conversion ------------------------------
(***************************************************************************)
(* Conversion: a dataset in memory is written in a format of its task, the *)
(* root is loaded again, and so on.  A way is a format with the options of *)
(* its writer; the loaders read with options that leave nothing out.  What *)
(* a dataset says is a set of facts: which class is where in which image.  *)
(***************************************************************************)
EXTENDS DatasetFacts, HmieChecks

CONSTANTS Datasets,   \* the datasets that programs build
          Foreign,    \* [format, root]: the roots that other tools made
          Ways,       \* the formats with the options they are written with
          MaxHops,    \* the writes of one behaviour into an empty destination
          MaxAdds     \* those that add to a root

ASSUME BoundsAssumption == MaxHops \in Nat \ {0} /\ MaxAdds \in Nat

VARIABLES data,       \* the dataset in memory, <<>> before the first load
          disk,       \* [format, root]: the root written or found last
          at,         \* "memory" or "disk": which of them is the newer
          hops,       \* the ways of the writes so far
          adds,       \* the number of writes that added to a root
          origin,     \* the facts of every dataset that went into the chain
          expected,   \* those that the root on the disk can hold
          tracks,     \* those of the expected facts that make a track, as a set of sets
          before,     \* the facts in memory at the last write
          mixed       \* a data.yaml of the chain did not describe all the writes of its root

vars == <<data, disk, at, hops, adds, origin, expected, tracks, before, mixed>>

NoDisk == [format |-> "", root |-> <<>>]
TaskOf == [coco |-> "od", yolo_od |-> "od", hf_od |-> "od", visdrone_od |-> "od", flat_images |-> "od",
           yolo_ic |-> "ic", hf_ic |-> "ic", visdrone_ic |-> "ic",
           mot |-> "mot", visdrone_video |-> "mot", tao |-> "mot", hmie |-> "mot", flat_mp4 |-> "mot",
           hf_video |-> "vc"]

\* Datasets and roots have the types that the loaders and the writers of their formats expect.
ASSUME DataAssumption == /\ \A ds \in Datasets : DatasetOK(ds)
                         /\ \A found \in Foreign : RootOK(found.format, found.root)
ASSUME FormatsAssumption ==
    /\ \A way \in Ways : /\ way.format \in DOMAIN TaskOf
                         /\ way.format = "mot" => way.source \in {"gt", "det"}
    /\ \A found \in Foreign : /\ found.format \in DOMAIN TaskOf
                             /\ found = [format |-> found.format, root |-> found.root]

------------------------------------------------------------------------------
(* The registries. *)

EmptyOf(format) ==
    CASE format = "coco" -> CocoEmptyRoot
      [] format \in {"mot", "visdrone_video", "hmie", "flat_mp4"} -> <<>>
      [] format \in {"yolo_od", "yolo_ic"} -> EmptyRoot
      [] format \in {"hf_od", "hf_ic"} -> HfEmptyRoot
      [] format \in {"visdrone_od", "visdrone_ic"} -> VdEmptyRoot
      [] format = "flat_images" -> [images |-> <<>>]
      [] format = "tao" -> TaoEmptyRoot
      [] format = "hf_video" -> HfvEmptyRoot

\* get_writer: the writer of the task and the format.
Written(way, ds, root, append) ==
    CASE way.format = "coco" -> CocoWrite(ds, root, way.include)
      [] way.format = "yolo_od" -> YoloWriteOd(ds, root, way.include, TRUE)
      [] way.format = "yolo_ic" -> YoloWriteIc(ds, root, way.remote)
      [] way.format = "hf_od" -> HfWriteOd(ds, root, way.split, way.preserve)
      [] way.format = "hf_ic" -> HfWriteIc(ds, root, way.split)
      [] way.format = "visdrone_od" -> VdWriteOd(ds, root, way.split, way.preserve, <<>>)
      [] way.format = "visdrone_ic" -> VdWriteIc(ds, root, way.split, way.preserve, <<>>)
      [] way.format = "flat_images" -> FlatWrite(ds, root)
      [] way.format = "mot" -> MotWrite(ds, root, way.split, way.preserve, way.source, <<>>)
      [] way.format = "visdrone_video" ->
            VisWrite(ds, root, way.variant, way.split, way.preserve, way.source, <<>>)
      [] way.format = "tao" -> TaoWrite(ds, root, way.split, way.preserve)
      [] way.format = "hmie" -> HmieWrite(ds, root, append)
      [] way.format = "flat_mp4" -> FlatMp4Write(ds, root)
      [] way.format = "hf_video" -> HfvWrite(ds, root, way.split, way.preserve, way.kind)

\* The writers that raise instead: a class outside a fixed table, one that names no directory.
Refused(way, ds, root) ==
    CASE way.format = "visdrone_od" -> Unmatched(DetsOf(ds), <<>>)
      [] way.format = "visdrone_ic" -> Unmatched(FirstLabels(ds), <<>>)
      [] way.format = "visdrone_video" -> VisRefused(ds, <<>>)
      [] way.format = "yolo_ic" -> IcRaises(ds, root)
      [] OTHER -> FALSE

\* get_loader: the loader of the task and the format.
AllSplits == {"", "train", "val", "test"}
Loaded(format, root, source) ==
    CASE format = "coco" -> CocoLoad(root)
      [] format = "yolo_od" -> YoloLoadOd(root, AllSplits, FALSE)
      [] format = "yolo_ic" -> YoloLoadIc(root, AllSplits)
      [] format = "hf_od" -> HfLoadOd(root)
      [] format = "hf_ic" -> HfLoadIc(root)
      [] format = "visdrone_od" -> VdLoadOd(root)
      [] format = "visdrone_ic" -> VdLoadIc(root, TRUE)
      [] format = "flat_images" -> FlatLoad(root)
      [] format = "mot" -> MotLoad(root, source, TRUE, {})
      [] format = "visdrone_video" -> VisLoad(root, "auto", source, TRUE, {})
      [] format = "tao" -> TaoLoad(root)
      [] format = "hmie" -> HmieLoad(root, TRUE, FALSE)
      [] format = "flat_mp4" -> FlatMp4Load(root)
      [] format = "hf_video" -> HfvLoad(root)

------------------------------------------------------------------------------
(* The actions. *)

\* A data.yaml tells of one write; it describes an earlier one that used the same names and splits.
Describes(yaml, earlier) == yaml.names = earlier.names /\ earlier.splits \subseteq yaml.splits

Init ==
    /\ \/ /\ data \in Datasets /\ disk = NoDisk /\ at = "memory"
          /\ origin = Facts(data)
       \/ /\ data = <<>> /\ disk \in Foreign /\ at = "disk"
          /\ origin = {}
    /\ hops = <<>> /\ adds = 0 /\ expected = {} /\ tracks = {} /\ before = {} /\ mixed = FALSE

\* write(): the writer of the dataset's task, into an empty destination.
Write(way) ==
    /\ at = "memory" /\ Len(hops) < MaxHops
    /\ TaskOf[way.format] = data.task
    /\ ~Refused(way, data, EmptyOf(way.format))
    /\ disk' = [format |-> way.format, root |-> Written(way, data, EmptyOf(way.format), FALSE)]
    /\ at' = "disk"
    /\ hops' = Append(hops, way)
    /\ expected' = Holds(way, data) \cup HoldsSplits(way, data)
    /\ tracks' = HoldsTracks(way, data)
    /\ before' = Facts(data)
    /\ UNCHANGED <<data, adds, origin, mixed>>

\* Another dataset is added to the root: mode append.  What is claimed of the root after that is
\* claimed of the formats whose writers look at the files that are there.
Looking == {"yolo_od", "yolo_ic", "hf_ic"}
AddTo(ds) ==
    LET way == Last(hops) IN
    /\ at = "disk" /\ hops # <<>> /\ adds < MaxAdds
    /\ ds.task = data.task /\ Facts(ds) \cap origin = {}
    /\ ~Refused(way, ds, disk.root)
    /\ disk' = [disk EXCEPT !.root = Written(way, ds, @, TRUE)]
    /\ origin' = origin \cup Facts(ds)
    /\ expected' = expected \cup Holds(way, ds) \cup HoldsSplits(way, ds)
    /\ before' = {}
    /\ adds' = adds + 1
    /\ mixed' = \/ mixed \/ way.format \notin Looking
                \/ way.format = "yolo_od" /\ ~Describes(disk'.root.yaml, disk.root.yaml)
    /\ UNCHANGED <<data, at, hops, tracks>>

\* load(): everything that is in the root.
Load ==
    /\ at = "disk"
    /\ data' = Loaded(disk.format, disk.root, IF hops # <<>> /\ "source" \in DOMAIN Last(hops) THEN Last(hops).source ELSE "gt")
    /\ at' = "memory"
    /\ origin' = IF hops = <<>> THEN Facts(data') ELSE origin
    /\ UNCHANGED <<disk, hops, adds, expected, tracks, before, mixed>>

Next == \/ \E way \in Ways : Write(way)
        \/ \E ds \in Datasets : AddTo(ds)
        \/ Load

Spec == Init /\ [][Next]_vars

------------------------------------------------------------------------------
(* The properties. *)

Reloaded == at = "memory" /\ hops # <<>>
Renumbered == \E i \in DOMAIN hops : hops[i].format = "mot"

\* The same fact but for the last digit of a label row; MOTChallenge keeps the number of a class
\* where its name is, which then says nothing or the name of another table.
Near(f, g) ==
    /\ f.where = g.where
    /\ f.class \in {"", g.class} \/ Renumbered
    /\ Len(f.box) = Len(g.box)
    /\ IF Len(f.box) = 2 THEN \A i \in 1 .. 2 : f.box[i] - g.box[i] \in -Step .. Step ELSE f.box = g.box
Found(f, facts) == \E g \in facts : Near(f, g)
OfSplit(fact) == fact.box = <<"split">>

\* The state is one of the program: a root is of the format that was written last and has what its
\* loader expects, and the dataset that is loaded is one the next writer can read.
TypeOK ==
    /\ at \in {"memory", "disk"} /\ mixed \in BOOLEAN
    /\ hops \in Seq(Ways) /\ Len(hops) <= MaxHops /\ adds \in 0 .. MaxAdds
    /\ hops # <<>> => disk.format = Last(hops).format
    /\ at = "memory" /\ disk # NoDisk => data.task = TaskOf[disk.format]
    /\ disk = NoDisk => data \in Datasets
    /\ at = "memory" => DatasetOK(data)
    /\ at = "disk" => RootOK(disk.format, disk.root)

\* What a format can hold of a dataset is there when the root is loaded again: no image, label or
\* box is lost or changed on the way through the writer and the loader, whatever the chain before.
NothingLost ==
    Reloaded /\ ~mixed => \A f \in expected : ~OfSplit(f) => Found(f, Facts(data))

\* So is the split of each image, in the formats that know it.
SplitsKept ==
    Reloaded /\ ~mixed => {f \in expected : OfSplit(f)} \subseteq SplitFacts(data)

\* A dataset that is loaded says nothing that no dataset of the chain said: no class moves to the
\* image of a file with the same name, or to the box of another category with the same id.
NothingInvented ==
    Reloaded /\ ~mixed => \A f \in Facts(data) : \E g \in origin : Near(g, f)

\* The boxes of one track stay one track, apart from those of every other track of the dataset,
\* although each format numbers the tracks in its own way.
TracksPreserved ==
    Reloaded /\ ~mixed =>
        \A T \in tracks : \E U \in TracksIn(data) :
            /\ \A f \in T : Found(f, U)
            /\ \A g \in U : \E f \in T : Near(g, f) \/ Near(f, g)

\* The document of a COCO root resolves, whatever chain of formats and writes it is the end of: ids
\* are unique, annotations are of images of the document, names of copies differ in more than case.
\* Of categories nothing is said: _annotation_object writes an id that no entry declares as well.
CocoDocumentsResolve ==
    hops # <<>> /\ disk.format = "coco" => CocoResolves(disk.root, Last(hops).include)

\* So do the documents of a TAO root, whose annotations are of images and of tracks of one video and
\* have the category of their track.
TaoDocumentsResolve ==
    hops # <<>> /\ disk.format = "tao" => \A split \in DOMAIN disk.root.docs : TaoResolves(disk.root.docs[split])

\* Both: every annotation finds its image, and in TAO its track and its category.
DocumentsResolve == CocoDocumentsResolve /\ TaoDocumentsResolve

\* The taxonomy of a dataset that is loaded has one entry per id, from 0 on if it says that it is
\* dense, and a label that refers to an entry has the name of that entry.
LabelsOf(ds) == UNION {ToSet(IF ds.task = "od" THEN s.dets ELSE s.labels) : s \in ToSet(ds.samples)}
TaxonomyConsistent ==
    at = "memory" /\ disk # NoDisk /\ data.task \in {"od", "ic"} =>
        /\ Distinct(data.entries, LAMBDA e : e.id)
        /\ data.dense => \A i \in DOMAIN data.entries : data.entries[i].id = IntId(i - 1)
        /\ \A l \in LabelsOf(data) :
              LET entry == BySourceId(data.entries, l.cat)
              IN  l.name # "" /\ entry # 0 => data.entries[entry].name = l.name

\* To write what was loaded from a format in the same way again changes nothing: the rounding and
\* the renaming of the first time are not repeated.
RoundTripStable ==
    LET n == Len(hops) IN
    Reloaded /\ ~mixed /\ n > 1 /\ before # {} =>
        (hops[n] = hops[n - 1] /\ ("include" \in DOMAIN hops[n] => hops[n].include) => Facts(data) = before)

\* The HMIE writer and the validator agree: of a sequence with the rate of its video the written
\* snippet has no finding but those of the video, exactly if its boxes are labelled, have an area and
\* lie in the video.
SoundSequence(seq, media) ==
    /\ seq.boxes # <<>> /\ seq.status \in KnownStatuses \cup {""}
    /\ \A b \in ToSet(seq.boxes) :
          b.uri # <<>> /\ b.bbox \notin {"flat", "negative", "beyond"} /\ b.frame < media.length
WrittenValidates ==
    at = "disk" /\ hops # <<>> /\ adds = 0 /\ disk.format = "hmie" =>
        \A seq \in ToSet(data.seqs) :
            LET snippet == disk.root[seq.vid]
                media == snippet.video[1]
            IN  HmiePaired(snippet) /\ media.length > 0 /\ media.rate > 0 /\ seq.fps = media.rate =>
                    (ValidatePair(snippet, snippet.video, TRUE) = VideoFindings(media) <=> SoundSequence(seq, media))

\* The validator and the HMIE loader agree: a snippet without a finding, whose rates can be used, is
\* loaded when videos are required, with every box that has numbers, and all of them on its frames.
CleanRootLoads ==
    at = "disk" /\ disk.format = "hmie" =>
        LET loaded == HmieLoad(disk.root, FALSE, TRUE).seqs IN
        \A id \in DOMAIN disk.root :
            LET snippet == disk.root[id]
                Numbered(frames) == Those(frames, {k \in DOMAIN frames : frames[k].bbox # "nan"})
                keyed == FlattenSeq([n \in DOMAIN snippet.tracks |-> Numbered(snippet.tracks[n].frames)])
            IN  HmiePaired(snippet) /\ snippet.afr > 0 /\ ValidatePair(snippet, snippet.video, TRUE) = {} =>
                    \E seq \in ToSet(loaded) :
                        /\ seq.video[1].name = <<"out", ToString(id)>>
                        /\ Len(seq.boxes) = Len(keyed)
                        /\ \A b \in ToSet(seq.boxes) : b.frame \in DOMAIN seq.frames

\* Adding to a root leaves the images that are in it.
AppendKeepsFiles ==
    [][at = "disk" /\ at' = "disk" /\ disk.format \in Looking =>
         \A file \in DOMAIN disk.root.images :
             file \in DOMAIN disk'.root.images /\ disk'.root.images[file] = disk.root.images[file]]_vars
==============================================================================
