--------------------------------- MODULE Coco --------------------------------
(***************************************************************************)
(* COCO object detection: what the writer puts into a root and what the    *)
(* loader makes of it.  A root is the document with its three arrays, and  *)
(* the image files by name.                                                *)
(***************************************************************************)
EXTENDS ImageData, IdAllocator

------------------------------------------------------------------------------
(* The loader. *)

\* Faulty variant: an id may be declared twice.
Categories_Twice(cats) == SelectSeq(cats, LAMBDA c : IsInt(c.id) /\ c.name # "")

\* The categories of the document: a usable id and name each, the first per id.
Categories(cats) ==
    FoldLeft(LAMBDA acc, c : IF IsInt(c.id) /\ c.name # "" /\ BySourceId(acc, c.id) = 0
                             THEN Append(acc, c) ELSE acc,
             <<>>, cats)

\* A box and the id of an image make an annotation; a category need not be declared.
AnnotationsOf(image, anns, entries) ==
    Collect(anns, LAMBDA a :
        IF a.image = image /\ Area(a.box)
        THEN LET cat == IF IsInt(a.cat) THEN a.cat ELSE None
                 declared == BySourceId(entries, cat)
             IN <<[id |-> a.id, cat |-> cat, src |-> cat, box |-> a.box, score |-> FALSE,
                   name |-> IF declared = 0 THEN "" ELSE entries[declared].name, fixed |-> None]>>
        ELSE <<>>)

\* The file a name stands for, if the name stays below the directory of the images.
ImageAt(name, files) == IF Safe(name) /\ name \in DOMAIN files THEN files[name] ELSE None

\* The images of the document: a usable id and name each, the first per id.
Samples(root, entries) ==
    LET usable == Keep(root.images, LAMBDA im : IsInt(im.id) /\ im.name # NoName)
        First(i) == \A j \in 1 .. i - 1 : usable[j].id # usable[i].id
        Sample(im) == [id |-> im.id, name |-> im.name, split |-> "", dims |-> im.dims,
                       path |-> IF Safe(im.name) THEN Below(<<"coco">>, im.name) ELSE NoName,
                       image |-> ImageAt(im.name, root.files),
                       dets |-> AnnotationsOf(im.id, root.annotations, entries)]
    IN  FlattenSeq([i \in DOMAIN usable |-> IF First(i) THEN <<Sample(usable[i])>> ELSE <<>>])

CocoLoad(root) == LET entries == Categories(root.categories)
                  IN  Dataset("od", Samples(root, entries), entries, FALSE, {})

------------------------------------------------------------------------------
(* The writer. *)

\* Ids keep their value where they can; one that is no integer is no preference.
Reserve(ids, preferred) == Allocate(ids, IF IsInt(preferred) THEN preferred[2] ELSE NoId)

OwnName(sample) == IF sample.name # NoName THEN sample.name
                   ELSE IF sample.path # NoName THEN BaseName(sample.path) ELSE NoName

\* The directory a name is relative to in the path of its source, if it is.
SourceDirectory(sample) ==
    LET name == OwnName(sample) IN
    IF /\ sample.path # NoName /\ name # NoName
       /\ BaseName(name) = BaseName(sample.path) /\ IsSuffix(name.dir, sample.path.dir)
    THEN {SubSeq(sample.path.dir, 1, Len(sample.path.dir) - Len(name.dir))} ELSE {}
SourceDirectories(samples) == UNION {SourceDirectory(samples[i]) : i \in DOMAIN samples}
CommonPrefix(dirs) ==
    LET d == CHOOSE d \in dirs : TRUE
        shared == {n \in 0 .. Len(d) : \A e \in dirs : IsPrefix(SubSeq(d, 1, n), e)}
    IN  SubSeq(d, 1, Max(shared))

\* Images that are not copied are named relative to the parent they share.
FileNames(samples, include) ==
    LET bases == SourceDirectories(samples)
        above == Len(CommonPrefix(bases))
        Relative(base, name) == Below(SubSeq(base, above + 1, Len(base)), name)
        Named(s) == LET rel == {Relative(base, OwnName(s)) : base \in SourceDirectory(s)}
                        safe == {name \in rel : Safe(name)}
                    IN IF safe = {} THEN OwnName(s) ELSE CHOOSE name \in safe : TRUE
    IN  [i \in DOMAIN samples |-> IF include \/ Cardinality(bases) < 2
                                  THEN OwnName(samples[i]) ELSE Named(samples[i])]

\* One copy per name: names are told apart without regard to case.
UniqueFileName(name, used) == FirstFree(name, LAMBDA c : Casefold(c) \notin used)

\* A detection needs an integer category and a box with an area.
AnnotationObject(det, image, ids) ==
    LET cat == IF IsInt(det.cat) THEN det.cat ELSE det.src
        row == Reserve(ids, det.id)
    IN  IF IsInt(cat) /\ Area(det.box)
        THEN [ids |-> row, row |-> <<[id |-> IntId(row.id), image |-> image,
                                      cat |-> cat, box |-> det.box]>>]
        ELSE [ids |-> ids, row |-> <<>>]
AnnotationObjects(acc, dets, image) ==
    FoldLeft(LAMBDA a, det : LET one == AnnotationObject(det, image, a.ids)
                             IN [a EXCEPT !.ids = one.ids, !.annotations = @ \o one.row],
             acc, dets)

\* One sample: its id, its name, its rows and its copy.
WriteSample(acc, sample, fileName, include) ==
    LET fresh == Reserve(acc.assigned, None)
        id == IF IsInt(sample.id) THEN sample.id ELSE IntId(fresh.id)
        name == IF include THEN UniqueFileName(fileName, acc.names) ELSE fileName
        rows == AnnotationObjects(acc, sample.dets, id)
    IN  IF sample.id \in acc.seen \/ ~Safe(fileName) THEN acc
        ELSE [rows EXCEPT
                !.seen = @ \cup {sample.id},
                !.assigned = IF IsInt(sample.id) THEN @ ELSE fresh,
                !.names = @ \cup {Casefold(name)},
                !.images = Append(@, [id |-> id, name |-> name, dims |-> SampleDims(sample)]),
                !.files = IF include /\ sample.image # None
                          THEN Put(@, name, sample.image) ELSE @]

CategoryObjects(entries) == Keep(entries, LAMBDA e : IsInt(e.id))

\* The document replaces an earlier one; the files of that stay.
CocoEmptyRoot == [categories |-> <<>>, images |-> <<>>, annotations |-> <<>>, files |-> <<>>]
CocoWrite(ds, existing, include) ==
    LET names == FileNames(ds.samples, include)
        start == [seen |-> {}, names |-> {}, images |-> <<>>, annotations |-> <<>>, files |-> existing.files,
                  ids |-> Allocator({}),
                  assigned |-> Allocator({ds.samples[i].id[2] :
                      i \in {j \in DOMAIN ds.samples : IsInt(ds.samples[j].id)}})]
        done == FoldLeft(LAMBDA acc, i : WriteSample(acc, ds.samples[i], names[i], include),
                         start, [i \in DOMAIN ds.samples |-> i])
    IN  [categories |-> CategoryObjects(ds.entries), images |-> done.images,
         annotations |-> done.annotations, files |-> done.files]
==============================================================================
