---------------------------------- MODULE Tao ---------------------------------
(***************************************************************************)
(* TAO: one document per split, with arrays of videos, images, tracks,     *)
(* categories and annotations that refer to each other by id, and the      *)
(* frames by file name.  A root is the documents by split (an array of     *)
(* test_without_annotations.json is one of "test" here) and the frames; a  *)
(* file name is its directories and the number of its frame.               *)
(***************************************************************************)
EXTENDS VideoData, IdAllocator

TaoSplits == <<"train", "validation", "test">>
TaoEmptyRoot == [docs |-> <<>>, frames |-> <<>>]
TaoFile(dir, n) == [dir |-> dir, n |-> n]
TaoSafe(file) == file.dir # <<>> /\ ".." \notin ToSet(file.dir)
ById(records) == SortedBy(records, [i \in DOMAIN records |-> records[i].id])

------------------------------------------------------------------------------
(* The writer: the categories. *)

CategoryKey(uri, id, name) ==
    IF uri # <<>> THEN uri
    ELSE IF id >= 0 THEN <<"generated", "category_id", ToString(id), name>>
    ELSE IF name # "" THEN <<"generated", "name", name>> ELSE <<"generated", "unlabeled">>
CategoryName(uri, id, name) ==
    IF name # "" THEN name ELSE IF uri # <<>> THEN NameOf(uri)
    ELSE IF id >= 0 THEN "category_" \o ToString(id) ELSE "unlabeled"

\* The categories of the dataset, then of its boxes; the first use of a key counts.
Candidates(ds) ==
    LET declared == Collect(InOrder(DOMAIN ds.cats), LAMBDA uri : <<<<uri, ds.cats[uri], "">>>>)
        used == FlattenSeq([i \in DOMAIN ds.seqs |->
                    [j \in DOMAIN ds.seqs[i].boxes |->
                        LET box == ds.seqs[i].boxes[j] IN <<box.uri, box.cat, box.name>>]])
    IN  FoldLeft(LAMBDA acc, c :
            LET key == CategoryKey(c[1], c[2], c[3]) IN
            IF key \in DOMAIN acc THEN acc
            ELSE Put(acc, key, [id |-> c[2], name |-> CategoryName(c[1], c[2], c[3])]),
            <<>>, declared \o used)
\* Ids are handed out in the order of the ids preferred, those without one last.
CategoryIds(candidates) ==
    LET preferred == {candidates[k].id : k \in DOMAIN candidates}
        With(id) == InOrder({k \in DOMAIN candidates : candidates[k].id = id})
        known == Ascending({id \in preferred : id >= 0})
        keys == FlattenSeq([i \in DOMAIN known |-> With(known[i])])
                \o FlattenSeq(InOrder({With(id) : id \in {p \in preferred : p < 0}}))
    IN  FoldLeft(LAMBDA acc, key :
            LET taken == Allocate(acc.ids, candidates[key].id)
            IN  [ids |-> taken, of |-> Put(acc.of, key, taken.id)],
            [ids |-> Allocator({}), of |-> <<>>], keys).of
CategoryRecords(candidates, ids) ==
    ById(InOrder({[id |-> ids[k], name |-> candidates[k].name] : k \in DOMAIN candidates}))

------------------------------------------------------------------------------
(* The writer: the sequences. *)

TaoSplit(seq, fallback, preserve) ==
    LET split == IF seq.split = "test_without_annotations" THEN "test" ELSE seq.split
    IN  IF preserve /\ split \in ToSet(TaoSplits) THEN split ELSE fallback
TaoLabel(seq) == SafeLabel([seq EXCEPT !.video = <<>>])
\* A frame of a TAO source keeps its name unless that names another split.
FrameFile(seq, split, video, f) ==
    IF seq.format = "tao" /\ f \in DOMAIN seq.names /\ TaoSafe(seq.names[f])
       /\ (Head(seq.names[f].dir) \in ToSet(TaoSplits) => Head(seq.names[f].dir) = split)
    THEN seq.names[f]
    ELSE TaoFile(<<split, ToString(video)>> \o TaoLabel(seq), f)
\* The id an image had, if the boxes of its frame agree on it.
PreferredImage(seq, f) ==
    LET ids == {Attr(seq.boxes[i], "tao_image_id", NoId) :
                   i \in {j \in DOMAIN seq.boxes : seq.boxes[j].frame = f}} \ {NoId}
    IN  IF Cardinality(ids) = 1 THEN CHOOSE id \in ids : TRUE ELSE NoId
TaoInternal == {"tao_image_id", "tao_video_id", "tao_track_id", "tao_frame_index", "tao_annotation_id"}
Carried(attrs) == [key \in DOMAIN attrs \ TaoInternal |-> attrs[key]]

NewBuilder == [videos |-> <<>>, images |-> <<>>, tracks |-> <<>>, annotations |-> <<>>, keys |-> <<>>,
               videoIds |-> Allocator({}), imageIds |-> Allocator({}),
               trackIds |-> Allocator({}), annotationIds |-> Allocator({})]
AddImage(acc, seq, split, video, f) ==
    LET taken == Allocate(acc.builder.imageIds, PreferredImage(seq, f))
        file == FrameFile(seq, split, video, f)
    IN  [builder |-> [acc.builder EXCEPT !.imageIds = taken,
                        !.images = Append(@, [id |-> taken.id, video |-> video, file |-> file, index |-> f])],
         images |-> Put(acc.images, f, taken.id),
         frames |-> Put(acc.frames, file, MaterializeFrames(seq)[f])]

\* The tracks of a sequence are its own; the first annotation of one decides its category.
TrackKey(number, box) == <<number, IF box.uuid # <<>> THEN box.uuid ELSE <<box.track>>>>
\* Faulty variant: every annotation starts a track.
TrackTaken_Anew(builder, number, box) == Allocate(builder.trackIds, box.track)
TrackTaken(builder, number, box) ==
    IF TrackKey(number, box) \in DOMAIN builder.keys
    THEN [builder.trackIds EXCEPT !.id = builder.keys[TrackKey(number, box)]]
    ELSE Allocate(builder.trackIds, IF Attr(box, "tao_track_id", NoId) >= 0
                                    THEN box.attrs["tao_track_id"] ELSE box.track)
AddAnnotation(builder, number, box, video, images, categories) ==
    LET category == categories[CategoryKey(box.uri, box.cat, box.name)]
        track == TrackTaken(builder, number, box)
        taken == Allocate(builder.annotationIds, Attr(box, "tao_annotation_id", NoId))
        known == \E i \in DOMAIN builder.tracks : builder.tracks[i].id = track.id
    IN  IF box.frame \notin DOMAIN images \/ ~Positive(box.bbox) THEN builder
        ELSE [builder EXCEPT
                !.keys = Put(@, TrackKey(number, box), track.id), !.trackIds = track,
                !.tracks = IF known THEN @
                           ELSE Append(@, [id |-> track.id, video |-> video, category |-> category]),
                !.annotationIds = taken,
                !.annotations = Append(@, [id |-> taken.id, image |-> images[box.frame], track |-> track.id,
                                           category |-> category, bbox |-> box.bbox,
                                           attrs |-> Carried(box.attrs)])]

\* A sequence whose frames cannot be written leaves only its id behind.
TaoWriteSequence(acc, seq, number, fallback, preserve, categories) ==
    LET split == TaoSplit(seq, fallback, preserve)
        builder == IF split \in DOMAIN acc.builders THEN acc.builders[split] ELSE NewBuilder
        taken == Allocate(builder.videoIds, IF seq.source >= 0 THEN seq.source ELSE seq.vid)
        named == [builder EXCEPT !.videoIds = taken,
                    !.videos = Append(@, [id |-> taken.id, fps |-> seq.fps,
                        name |-> IF seq.label = <<>> THEN TaoLabel(seq) ELSE seq.label])]
        pictured == FoldLeft(LAMBDA a, f : AddImage(a, seq, split, taken.id, f),
                             [builder |-> named, images |-> <<>>, frames |-> acc.frames],
                             Ascending(DOMAIN MaterializeFrames(seq)))
        annotated == FoldLeft(LAMBDA b, box : AddAnnotation(b, number, box, taken.id, pictured.images, categories),
                              pictured.builder, RowOrder(seq.boxes))
        skipped == MaterializeFrames(seq) = <<>>
    IN  [builders |-> Put(acc.builders, split, IF skipped THEN [builder EXCEPT !.videoIds = taken] ELSE annotated),
         frames |-> IF skipped THEN acc.frames ELSE pictured.frames]

\* The documents are replaced, the frames of earlier writes stay.
TaoWrite(ds, existing, fallback, preserve) ==
    LET candidates == Candidates(ds)
        ids == CategoryIds(candidates)
        Document(b) == [videos |-> ById(b.videos), images |-> b.images, tracks |-> ById(b.tracks),
                        categories |-> CategoryRecords(candidates, ids), annotations |-> ById(b.annotations)]
        built == FoldLeft(LAMBDA acc, i : TaoWriteSequence(acc, ds.seqs[i], i, fallback, preserve, ids),
                          [builders |-> <<>>, frames |-> existing.frames], [i \in DOMAIN ds.seqs |-> i])
        builders == IF ds.seqs = <<>> THEN [split \in {fallback} |-> NewBuilder] ELSE built.builders
    IN  [docs |-> [split \in DOMAIN builders |-> Document(builders[split])], frames |-> built.frames]

------------------------------------------------------------------------------
(* The loader. *)

TaoUri(id, name) == <<"tao", "category_id", ToString(id), name>>
\* The names of the categories: over all documents, the first for an id counts.
AddNames(names, doc) ==
    FoldLeft(LAMBDA acc, c : IF c.id \in DOMAIN acc \/ c.name = "" THEN acc ELSE Put(acc, c.id, c.name),
             names, doc.categories)

\* The images of a video, as places in the document.
TaoImages(doc, video) == {i \in DOMAIN doc.images : doc.images[i].video = video /\ TaoSafe(doc.images[i].file)}
\* Tuples of numbers in the order of their first difference.
Precedes(key, other) == \E c \in DOMAIN key : key[c] < other[c] /\ \A d \in 1 .. c - 1 : key[d] = other[d]
PlaceIn(seq, x) == CHOOSE d \in DOMAIN seq : seq[d] = x
\* By the file name (its directories in an order that is fixed, then the frame), then by id.
NameKey(doc, i) ==
    <<PlaceIn(InOrder({doc.images[k].file.dir : k \in DOMAIN doc.images}), doc.images[i].file.dir),
      doc.images[i].file.n, doc.images[i].id, i>>
NameBefore(doc, i, j) == Precedes(NameKey(doc, i), NameKey(doc, j))
\* The frames of a video: as declared if every image says so, else in the order of the names.
FrameOfImage(doc, images) ==
    LET declared == \A i \in images : doc.images[i].index >= 0
    IN  [i \in images |-> IF declared THEN doc.images[i].index
                          ELSE Cardinality({j \in images : NameBefore(doc, j, i)})]
\* Of the images of one frame the first by name gives the file.
FirstOf(doc, places) == CHOOSE i \in places : \A j \in places : j = i \/ NameBefore(doc, i, j)
FilesAt(doc, at) == [f \in Range(at) |-> doc.images[FirstOf(doc, {i \in DOMAIN at : at[i] = f})].file]
FrameTable(doc, images) == FilesAt(doc, FrameOfImage(doc, images))
\* Of the images of one id the last record counts, on the frame that was noted last:
\* the highest in the video that comes last, by its first image.
ImagesWith(doc, id) == {i \in DOMAIN doc.images : doc.images[i].id = id /\ TaoSafe(doc.images[i].file)}
ImageFrame(doc, id) ==
    LET firsts == {Min(TaoImages(doc, doc.images[i].video)) : i \in ImagesWith(doc, id)}
        images == TaoImages(doc, doc.images[Max(firsts)].video)
    IN  Max({FrameOfImage(doc, images)[i] : i \in images \cap ImagesWith(doc, id)})

\* The category of an annotation, else that of its track.
CategoryOf(a, doc) ==
    LET tracks == {i \in DOMAIN doc.tracks : doc.tracks[i].id = a.track}
    IN  IF a.category # NoId \/ tracks = {} THEN a.category
        ELSE doc.tracks[Max(tracks)].category
TaoAttributes(a, image) ==
    ("tao_image_id" :> image.id) @@ ("tao_video_id" :> image.video) @@ ("tao_track_id" :> a.track)
    @@ (IF image.index >= 0 THEN "tao_frame_index" :> image.index ELSE <<>>)
    @@ ("tao_annotation_id" :> a.id) @@ a.attrs
TaoBox(split, a, image, frame, names, doc) ==
    LET category == CategoryOf(a, doc)
        name == IF category = NoId THEN "" ELSE IF category \in DOMAIN names THEN names[category]
                ELSE "category_" \o ToString(category)
    IN  [uuid |-> <<split, ToString(image.video), ToString(a.track)>>, track |-> a.track, cat |-> category,
         uri |-> IF category = NoId THEN <<>> ELSE TaoUri(category, name), name |-> name,
         frame |-> frame, bbox |-> a.bbox,
         attrs |-> TaoAttributes(a, image)]

TaoSequenceOf(split, at, vid, doc, names, files, images, table) ==
    LET Box(a) == IF ImagesWith(doc, a.image) = {} \/ a.track = NoId \/ ~Positive(a.bbox)
                     \/ Max(ImagesWith(doc, a.image)) \notin images
                  THEN <<>>
                  ELSE <<TaoBox(split, a, doc.images[Max(ImagesWith(doc, a.image))],
                                ImageFrame(doc, a.image), names, doc)>>
        last == Max(DOMAIN table)
    IN  [vid |-> vid, label |-> at.name, split |-> split, variant |-> "", format |-> "tao", source |-> at.id,
         status |-> "", fps |-> at.fps,
         kind |-> "table", video |-> <<>>, names |-> table, num |-> last + 1,
         exact |-> DOMAIN table = 0 .. last,
         frames |-> [f \in {g \in DOMAIN table : table[g] \in DOMAIN files} |-> files[table[f]]],
         boxes |-> FlattenSeq([i \in DOMAIN doc.annotations |-> Box(doc.annotations[i])])]

TaoSequence(split, at, vid, doc, names, files) ==
    LET images == TaoImages(doc, at.id)
    IN  TaoSequenceOf(split, at, vid, doc, names, files, images, FrameTable(doc, images))

\* The videos that have images, in the order of the document, then those it does not list.
VideosOf(doc) ==
    LET with == {v \in {doc.images[i].video : i \in DOMAIN doc.images} : TaoImages(doc, v) # {}}
        listed == Those(doc.videos, {i \in DOMAIN doc.videos : doc.videos[i].id \in with})
        extra == Ascending(with \ {listed[i].id : i \in DOMAIN listed})
    IN  listed \o [i \in DOMAIN extra |-> [id |-> extra[i], name |-> <<ToString(extra[i])>>, fps |-> 0]]

TaoLoadDocument(acc, split, root) ==
    LET doc == root.docs[split]
        names == AddNames(acc.names, doc)
        videos == VideosOf(doc)
    IN  [names |-> names,
         seqs |-> acc.seqs \o [i \in DOMAIN videos |-> TaoSequence(split, videos[i],
                                    Len(acc.seqs) + i - 1, doc, names, root.frames)]]
TaoLoad(root) ==
    LET splits == Those(TaoSplits, {i \in DOMAIN TaoSplits : TaoSplits[i] \in DOMAIN root.docs})
        loaded == FoldLeft(LAMBDA acc, split : TaoLoadDocument(acc, split, root),
                           [names |-> <<>>, seqs |-> <<>>], splits)
        declared == {<<TaoUri(id, loaded.names[id]), id>> : id \in DOMAIN loaded.names}
        used == {<<box.uri, box.cat>> : box \in {b \in UNION {ToSet(loaded.seqs[i].boxes) :
                     i \in DOMAIN loaded.seqs} : b.uri # <<>>}}
    IN  Tracks(loaded.seqs, [uri \in {c[1] : c \in declared \cup used} |->
                                (CHOOSE c \in declared \cup used : c[1] = uri)[2]])
==============================================================================
