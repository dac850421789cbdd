----------------------------- MODULE DatasetFacts -----------------------------
(***************************************************************************)
(* What a dataset says, as a set of facts that mean the same in every      *)
(* format: this class is there in this image, this image is in that split. *)
(* And which of the facts of a dataset a format can hold.  The facts are   *)
(* those of the dataset, whichever of its frames and boxes a writer goes   *)
(* over; where a limit of a format depends on how a name, a number or a    *)
(* class is put into it, the operator of the format says how that is.      *)
(***************************************************************************)
EXTENDS Coco, VisDroneStatic, MotChallenge, VisDroneVideo, Tao, HmieVideo, HfVideo

\* A class at a place in an image; an image; the split of an image.
Fact(where, class, box) == [where |-> where, class |-> class, box |-> box]
Picture(image) == Fact(image, "", <<>>)
Whole == <<0, Extent>>
CanonicalSplit == SplitOf @@ [dev |-> "val", testing |-> "test", eval |-> "test", evaluation |-> "test"]
Canonical(split) == IF split \in DOMAIN CanonicalSplit THEN CanonicalSplit[split] ELSE split
InSplit(where, split) == Fact(where, Canonical(split), <<"split">>)

\* A class of a detection without a name is known by its number, or by nothing; names have no case.
Nameless == {"", "id"} \cup {ToString(n) : n \in 0 .. 9}
NameIn(ds, label) ==
    LET declared == BySourceId(ds.entries, SourceIdOf(label))
        name == IF label.name # "" \/ declared = 0 THEN label.name ELSE ds.entries[declared].name
    IN  IF ds.task = "od" /\ name \in Nameless THEN "" ELSE Lower(name)
DetFact(ds, s, det) == Fact(s.image, NameIn(ds, det), <<det.box.l, det.box.r>>)
LabelFact(ds, s, label) ==
    Fact(s.image, NameIn(ds, label), IF s.region THEN <<s.box.l, s.box.r>> ELSE Whole)
BoxFact(seq, box) ==
    Fact(seq.frames[box.frame], IF box.name # "" THEN box.name ELSE NameOf(box.uri), <<box.bbox>>)
\* A clip without a label takes the name of the directory that it is put into.
ClipFact(s) == Fact(s.video[1].id, IF s.label \in {"data", "extra"} THEN "" ELSE s.label, <<>>)

Pictured(ds) == {s \in ToSet(ds.samples) : s.image # None}
Filmed(ds) == {s \in ToSet(ds.samples) : s.video # <<>>}
Seen(seq) == {i \in DOMAIN seq.boxes : seq.boxes[i].frame \in DOMAIN seq.frames /\ Positive(seq.boxes[i].bbox)}

Facts(ds) ==
    CASE ds.task = "od" ->
            UNION {{Picture(s.image)} \cup {DetFact(ds, s, d) : d \in ToSet(s.dets)} : s \in Pictured(ds)}
      [] ds.task = "ic" -> UNION {{LabelFact(ds, s, l) : l \in ToSet(s.labels)} : s \in Pictured(ds)}
      [] ds.task = "mot" ->
            UNION {{Picture(image) : image \in Range(seq.frames)} \cup {BoxFact(seq, seq.boxes[i]) : i \in Seen(seq)} :
                   seq \in ToSet(ds.seqs)}
      [] ds.task = "vc" -> {ClipFact(s) : s \in Filmed(ds)}
SplitFacts(ds) ==
    CASE ds.task \in {"od", "ic"} -> {InSplit(s.image, s.split) : s \in Pictured(ds)}
      [] ds.task = "mot" -> UNION {{InSplit(image, seq.split) : image \in Range(seq.frames)} : seq \in ToSet(ds.seqs)}
      [] ds.task = "vc" -> {InSplit(s.video[1].id, s.split) : s \in Filmed(ds)}
\* The tracks, each as the set of its facts.
TracksBy(seq, held, Key(_)) ==
    {{BoxFact(seq, seq.boxes[j]) : j \in {k \in held : Key(seq.boxes[k]) = Key(seq.boxes[i])}} : i \in held}
TracksIn(ds) == UNION {TracksBy(seq, Seen(seq), LAMBDA box : box.uuid) : seq \in ToSet(ds.seqs)}

------------------------------------------------------------------------------
(* What a format can hold of a still image. *)

Ext(sample) == HfFileName(sample).ext
HoldsImage(way, s) ==
    CASE way.format = "coco" -> way.include /\ Safe(OwnName(s))
      [] way.format = "yolo_od" ->     \* a split the data.yaml declares, and the image directly in it
            /\ way.include /\ s.split \in DeclaredSplits \cup {""} /\ Ext(s) \in ImageExtensions
            /\ OdImageRel(s, s.split).dir = <<>> /\ ~Hidden(OdImageRel(s, s.split))
      [] way.format = "yolo_ic" -> /\ ~s.region /\ s.split \in DOMAIN SplitOf \cup {""}
                                   /\ Ext(s) \in ImageExtensions /\ ~Hidden(BaseName(HfFileName(s)))
      [] way.format = "hf_ic" -> ~s.region /\ Ext(s) \in ImageExtensions
      [] way.format = "hf_od" -> Ext(s) \in ImageExtensions
      [] way.format \in {"visdrone_od", "visdrone_ic"} -> Ext(s) \in VdReadable
      [] way.format = "flat_images" -> Ext(s) \in FlatExtensions /\ s.image[2] = Ext(s)
\* A label row of YOLO keeps what is not rounded away, of an image whose size can be read.
HoldsBox(way, ds, s, d) ==
    CASE way.format = "coco" -> Area(d.box) /\ IsInt(SourceIdOf(d)) /\ BySourceId(ds.entries, SourceIdOf(d)) # 0
      [] way.format = "yolo_od" -> /\ SourceIdOf(d) # None /\ BySourceId(Projection(ds), SourceIdOf(d)) # 0
                                   /\ s.image[2] \in SizeReadable
                                   /\ Area(d.box) /\ ToYolo(ClampToImage(d.box)).w > 0
      [] way.format = "hf_od" -> Area(d.box)
      [] way.format = "visdrone_od" -> Area(d.box) /\ Resolved(d, <<>>) # <<>>
      [] way.format = "flat_images" -> FALSE
HoldsLabel(way, ds, s) ==
    /\ s.labels # <<>> /\ SafePart(ClassName(s.labels[1], ds))
    /\ way.format = "yolo_ic" => Visible(ClassName(s.labels[1], ds))
    /\ way.format = "visdrone_ic" => /\ IF s.region THEN Area(s.box) ELSE SampleDims(s)
                                     /\ Resolved(s.labels[1], <<>>) # <<>>

(* What a format can hold of a video. *)

HoldsSequence(way, seq) ==
    /\ way.format = "hmie" => seq.video # <<>> /\ seq.video[1].ext \in HmieExtensions
    /\ way.format = "flat_mp4" => seq.video # <<>> /\ seq.video[1].ext = "mp4"
\* Ground truth is of a track and of a class, each by its number.
HoldsTrackBox(way, b) ==
    CASE way.format = "mot" -> way.source = "det" \/ (MotTrack(b) > 0 /\ Attr(b, "mot_class_id", b.cat) > 0)
      [] way.format = "visdrone_video" ->
            /\ \A c \in ResolveClass(b, "visdrone_category_id", <<>>, VisClassNames) : c.id >= 0
            /\ way.source = "det" \/ Attr(b, "visdrone_target_id", b.track) > 0
      [] way.format \in {"tao", "hmie"} -> TRUE
      [] way.format = "flat_mp4" -> FALSE
\* Every frame that can be read, and every box on one, whichever of the frames a writer goes over.
HeldBoxes(way, seq) == {i \in Seen(seq) : HoldsTrackBox(way, seq.boxes[i])}
\* Rows know a track by its number, documents by its identity; a detection of no track stands alone.
TrackKeyOf(way, box) ==
    CASE way.format = "mot" -> <<MotTrack(box)>>
      [] way.format = "visdrone_video" -> <<Attr(box, "visdrone_target_id", box.track)>>
      [] OTHER -> box.uuid
Tracked(way, box) == way.format \in {"tao", "hmie"} \/ TrackKeyOf(way, box)[1] > 0

------------------------------------------------------------------------------
(* The facts of a dataset that a way of writing it can hold. *)

HeldSequences(way, ds) == {seq \in ToSet(ds.seqs) : HoldsSequence(way, seq)}
HeldImages(way, ds) == {s \in Pictured(ds) : HoldsImage(way, s)}
Holds(way, ds) ==
    CASE ds.task = "od" ->
            UNION {{Picture(s.image)} \cup {DetFact(ds, s, d) : d \in {x \in ToSet(s.dets) : HoldsBox(way, ds, s, x)}} :
                   s \in HeldImages(way, ds)}
      [] ds.task = "ic" ->
            {LabelFact(ds, s, s.labels[1]) : s \in {x \in HeldImages(way, ds) : HoldsLabel(way, ds, x)}}
      [] ds.task = "mot" ->
            UNION {{Picture(image) : image \in Range(seq.frames)}
                   \cup {BoxFact(seq, seq.boxes[i]) : i \in HeldBoxes(way, seq)} : seq \in HeldSequences(way, ds)}
      [] ds.task = "vc" -> Facts(ds)

\* The splits that a format knows, where it is not told to put all into one.
SplitsHeld(way) ==
    CASE way.format \in {"coco", "flat_images", "hmie", "flat_mp4"} -> {}
      [] way.format = "yolo_od" -> DeclaredSplits
      [] way.format = "yolo_ic" -> DOMAIN SplitOf
      [] way.format = "hf_ic" -> DOMAIN HfSplitOf
      [] ~way.preserve -> {}
      [] way.format = "hf_od" -> DOMAIN HfSplitOf
      [] way.format \in {"visdrone_od", "visdrone_ic"} -> DOMAIN VdSplitOf
      [] way.format = "mot" -> MotSplits
      [] way.format = "visdrone_video" -> DOMAIN VisSplitAliases \cup ToSet(VisSplitOrder)
      [] way.format = "tao" -> ToSet(TaoSplits)
      [] way.format = "hf_video" -> DOMAIN HfvSplitOf
HoldsSplits(way, ds) ==
    CASE ds.task \in {"od", "ic"} ->
            {InSplit(s.image, s.split) : s \in {x \in HeldImages(way, ds) :
                x.split \in SplitsHeld(way) /\ (ds.task = "ic" => HoldsLabel(way, ds, x))}}
      [] ds.task = "mot" ->
            UNION {{InSplit(image, seq.split) : image \in Range(seq.frames)} :
                   seq \in {x \in HeldSequences(way, ds) : x.split \in SplitsHeld(way)}}
      [] ds.task = "vc" -> {InSplit(s.video[1].id, s.split) : s \in {x \in Filmed(ds) : x.split \in SplitsHeld(way)}}
HoldsTracks(way, ds) ==
    IF ds.task # "mot" THEN {} ELSE
    UNION {TracksBy(seq, {i \in HeldBoxes(way, seq) : Tracked(way, seq.boxes[i])}, LAMBDA box : TrackKeyOf(way, box)) :
           seq \in HeldSequences(way, ds)}

------------------------------------------------------------------------------
(* The types of datasets and roots: what a program can build, and what can *)
(* be in a directory.                                                      *)

IsSequence(s) == s \in Seq({s[i] : i \in DOMAIN s})
IsName(name) == /\ name = [dir |-> name.dir, stem |-> name.stem, count |-> name.count, ext |-> name.ext]
                /\ IsSequence(name.count)
IsId(id) == IsInt(id) => id[2] \in Int /\ id = IntId(id[2])
IsCategory(id) == id = None \/ (IsInt(id) /\ id[2] \in Int /\ id = IntId(id[2])) \/ id = StrId(id[2])

\* Samples are a list, of which each has names; so is a taxonomy; detections have ids and categories.
IsDataset(ds) ==
    /\ IsSequence(ds.samples) /\ IsSequence(ds.entries) /\ IsFiniteSet(ds.splits)
    /\ \A i \in DOMAIN ds.samples : IsName(ds.samples[i].name) /\ IsName(ds.samples[i].path)
IsDetections(dets) ==
    IsSequence(dets) /\ \A i \in DOMAIN dets : IsId(dets[i].id) /\ IsCategory(dets[i].cat) /\ IsCategory(dets[i].src)
\* A video file; frames and boxes have the indices of frames.
IsMedia(media) == /\ media = Media(media.id, media.ext, media.length, media.name, media.rate, media.faults)
                  /\ media.length \in Nat /\ media.rate \in Int
IsFilm(video) == video = <<>> \/ (video = <<video[1]>> /\ IsMedia(video[1]))
IsFrames(frames) == IsFiniteSet(DOMAIN frames) /\ DOMAIN frames \subseteq Nat
IsTrackSequence(seq) ==
    /\ seq.vid \in Nat /\ seq.fps \in Int /\ IsFilm(seq.video) /\ IsFrames(seq.frames)
    /\ IsSequence(seq.boxes) /\ \A i \in DOMAIN seq.boxes : seq.boxes[i].frame \in Nat
DatasetOK(ds) ==
    /\ ds.task = "mot" => IsSequence(ds.seqs) /\ \A i \in DOMAIN ds.seqs : IsTrackSequence(ds.seqs[i])
    /\ ds.task \in {"od", "ic"} => IsDataset(ds)
    /\ ds.task = "od" => \A i \in DOMAIN ds.samples : IsId(ds.samples[i].id) /\ IsDetections(ds.samples[i].dets)

\* Finitely many files with names; files of rows; the arrays of a document.
IsImages(images) == IsFiniteSet(DOMAIN images) /\ \A file \in DOMAIN images : IsName(file)
IsLabels(labels) == \A file \in DOMAIN labels : IsSequence(labels[file])
IsMetadataFile(file) ==
    /\ IsSequence(file.table) /\ IsSequence(file.rows)
    /\ \A i \in DOMAIN file.rows :
          /\ IsSequence(file.rows[i].boxes)
          /\ \A j \in DOMAIN file.rows[i].ids : IsId(file.rows[i].ids[j])
          /\ \A j \in DOMAIN file.rows[i].categories : IsCategory(file.rows[i].categories[j])
IsCocoRoot(root) ==
    /\ IsSequence(root.categories) /\ IsSequence(root.images)
    /\ \A i \in DOMAIN root.images : IsName(root.images[i].name) /\ IsId(root.images[i].id)
    /\ IsSequence(root.annotations)
    /\ \A i \in DOMAIN root.annotations : IsId(root.annotations[i].id) /\ IsCategory(root.annotations[i].cat)
IsYoloRoot(root) ==
    /\ {"yaml", "images", "labels", "dirs", "markers"} \subseteq DOMAIN root
    /\ IsImages(root.images) /\ IsFiniteSet(DOMAIN root.labels) /\ IsLabels(root.labels)
    /\ \A file \in DOMAIN root.labels : \A i \in DOMAIN root.labels[file] : root.labels[file][i].class \in Int
    /\ IsFiniteSet(root.dirs) /\ IsFiniteSet(root.yaml.splits) /\ IsSequence(root.yaml.names)
IsHfRoot(root) ==
    /\ {"images", "metadata"} \subseteq DOMAIN root
    /\ IsImages(root.images) /\ IsFiniteSet(DOMAIN root.metadata)
    /\ \A dir \in DOMAIN root.metadata : IsMetadataFile(root.metadata[dir])
\* A file of rows, if there is one; its rows name any frame, but a key of HMIE is an index.
IsRowFile(file) ==
    \/ file = <<>>
    \/ file = <<file[1]>> /\ IsSequence(file[1]) /\ \A i \in DOMAIN file[1] : file[1][i].frame \in Int
IsMotRoot(root) ==
    /\ IsFiniteSet(DOMAIN root)
    /\ \A at \in DOMAIN root :
          LET dir == root[at]
          IN  /\ dir = [frames |-> dir.frames, gt |-> dir.gt, det |-> dir.det, info |-> dir.info]
              /\ IsFrames(dir.frames) /\ IsRowFile(dir.gt) /\ IsRowFile(dir.det)
              /\ dir.info # <<>> => dir.info[1].rate \in Int
IsVisRoot(root) ==
    /\ IsFiniteSet(DOMAIN root)
    /\ \A at \in DOMAIN root : IsFrames(root[at].frames) /\ IsRowFile(root[at].rows)
IsTaoDocument(doc) ==
    /\ IsSequence(doc.videos) /\ \A i \in DOMAIN doc.videos : doc.videos[i].fps \in Int
    /\ IsSequence(doc.images) /\ \A i \in DOMAIN doc.images : doc.images[i].index \in Int
    /\ IsSequence(doc.annotations)
IsTaoRoot(root) == \A split \in DOMAIN root.docs : IsTaoDocument(root.docs[split])
IsSnippet(snippet) ==
    /\ DOMAIN snippet = {"video", "form", "status", "tracks", "fps", "afr"}
    /\ IsFilm(snippet.video) /\ snippet.fps \in Int /\ snippet.afr \in Int /\ IsSequence(snippet.tracks)
    /\ \A n \in DOMAIN snippet.tracks :
          LET frames == snippet.tracks[n].frames
          IN  IsSequence(frames) /\ \A k \in DOMAIN frames : frames[k].key \in Nat
IsHmieRoot(root) ==
    IsFiniteSet(DOMAIN root) /\ DOMAIN root \subseteq Nat /\ \A id \in DOMAIN root : IsSnippet(root[id])
IsMp4Root(root) == IsFiniteSet(DOMAIN root) /\ \A name \in DOMAIN root : IsMedia(root[name])
RootOK(format, root) ==
    CASE format = "coco" -> IsCocoRoot(root)
      [] format \in {"yolo_od", "yolo_ic"} -> IsYoloRoot(root)
      [] format \in {"hf_od", "hf_ic"} -> IsHfRoot(root)
      [] format \in {"visdrone_od", "visdrone_ic"} -> IsImages(root.images) /\ IsLabels(root.rows)
      [] format = "flat_images" -> IsImages(root.images)
      [] format = "mot" -> IsMotRoot(root)
      [] format = "visdrone_video" -> IsVisRoot(root)
      [] format = "tao" -> IsTaoRoot(root)
      [] format = "hmie" -> IsHmieRoot(root)
      [] format = "flat_mp4" -> IsMp4Root(root)
      [] OTHER -> TRUE

------------------------------------------------------------------------------
(* What a document must satisfy: its ids are unique, its annotations refer *)
(* to what is in it, and the files that are copied have names of their own.*)
(* In a COCO document that is the image: the category of a detection is    *)
(* written whether the taxonomy declares it or not.                        *)

Distinct(rows, Key(_)) == \A i, j \in DOMAIN rows : Key(rows[i]) = Key(rows[j]) => i = j
IdsOf(rows) == {rows[i].id : i \in DOMAIN rows}
CocoResolves(doc, included) ==
    /\ Distinct(doc.images, LAMBDA r : r.id) /\ Distinct(doc.annotations, LAMBDA r : r.id)
    /\ \A a \in ToSet(doc.annotations) : a.image \in IdsOf(doc.images)
    /\ included => Distinct(doc.images, LAMBDA r : Casefold(r.name))
TaoResolves(doc) ==
    /\ \A array \in {"videos", "categories", "images", "annotations", "tracks"} : Distinct(doc[array], LAMBDA r : r.id)
    /\ Distinct(doc.images, LAMBDA r : r.file)
    /\ \A a \in ToSet(doc.annotations) :
          \E im \in ToSet(doc.images), t \in ToSet(doc.tracks) :
              /\ im.id = a.image /\ t.id = a.track /\ im.video = t.video
              /\ a.category = t.category /\ a.category \in IdsOf(doc.categories)
    /\ \A r \in ToSet(doc.images) \cup ToSet(doc.tracks) : r.video \in IdsOf(doc.videos)
==============================================================================
