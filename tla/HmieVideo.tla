------------------------------- MODULE HmieVideo ------------------------------
(***************************************************************************)
(* The loader and the writer of HMIE, and those of flat folders of MP4.    *)
(*                                                                         *)
(* An HMIE root maps the id of a snippet to its video, if it has one, and  *)
(* its annotation: tracks with a label, a geometry and keyed frames, a     *)
(* status, the rate of the video and that of the annotation.  Its form is  *)
(* a "task", one that has a key "twice", only the "tracks" of one, or      *)
(* "broken".  A flat root maps the name of a file to the video.            *)
(***************************************************************************)
EXTENDS VideoData, FrameMapping

HmieEmptyRoot == <<>>
HmieExtensions == {"mp4", "ts"}

------------------------------------------------------------------------------
(* The writer of HMIE. *)

\* Faulty variant: the boxes in the order of the dataset.
HmieTrack_Unsorted(boxes) ==
    [uuid |-> boxes[1].uuid, label |-> boxes[1].uri, geometry |-> "box",
     frames |-> [i \in DOMAIN boxes |-> [key |-> boxes[i].frame, bbox |-> boxes[i].bbox, attrs |-> boxes[i].attrs]]]

\* The boxes of a track, its label that of the first of them; a key is the index of its frame.
HmieTrack(boxes) ==
    LET ordered == FrameOrder(boxes)
    IN  [uuid |-> boxes[1].uuid, label |-> ordered[1].uri, geometry |-> "box",
         frames |-> [i \in DOMAIN ordered |->
             [key |-> ordered[i].frame, bbox |-> ordered[i].bbox, attrs |-> ordered[i].attrs]]]
\* One track per uuid, in the order of the numbers of the tracks.
HmieTracks(boxes) ==
    LET Of(uuid) == Those(boxes, {i \in DOMAIN boxes : boxes[i].uuid = uuid})
        uuids == InOrder({boxes[i].uuid : i \in DOMAIN boxes})
        ordered == SortedBy(uuids, [i \in DOMAIN uuids |-> Of(uuids[i])[1].track])
    IN  [i \in DOMAIN ordered |-> HmieTrack(Of(ordered[i]))]

\* The annotation states the same rate for the video and for its labels, one frame per second if unknown.
HmieWriteSequence(root, seq) ==
    LET before == IF seq.vid \in DOMAIN root THEN root[seq.vid].video ELSE <<>>
        rate == IF seq.fps > 0 THEN seq.fps ELSE 2
    IN  Put(root, seq.vid, [video |-> IF seq.video # <<>> THEN seq.video ELSE before, form |-> "task",
                            status |-> IF seq.status = "" THEN "completed" ELSE seq.status,
                            tracks |-> HmieTracks(seq.boxes), fps |-> rate, afr |-> rate])
\* Unless it adds to a root, a write removes the snippets of an earlier one.
HmieWrite(ds, existing, append) ==
    FoldLeft(HmieWriteSequence, IF append THEN existing ELSE HmieEmptyRoot, ds.seqs)

------------------------------------------------------------------------------
(* The loader of HMIE. *)

\* Tracks without a task around them have no status and no rates.
Envelope(snippet) ==
    IF snippet.form # "tracks" THEN snippet ELSE [snippet EXCEPT !.status = "", !.fps = NoRate, !.afr = NoRate]
HmieUsable(bbox) == bbox \notin {"missing", "nan"}

\* The boxes of a snippet: a track is numbered by its place among all of them.
HmieBoxes(snippet, cats, fps) ==
    LET Track(n) == snippet.tracks[n]
        Box(n, frame) ==
            [uuid |-> Track(n).uuid, track |-> n, uri |-> Track(n).label, name |-> NameOf(Track(n).label),
             cat |-> IF Track(n).label = <<>> THEN -1 ELSE cats[Track(n).label],
             frame |-> FrameOfKey(frame.key, fps, snippet.afr), bbox |-> frame.bbox,
             attrs |-> frame.attrs]
        Boxes(n) == LET usable == Those(Track(n).frames, {k \in DOMAIN Track(n).frames : HmieUsable(Track(n).frames[k].bbox)})
                    IN  IF Track(n).geometry # "box" THEN <<>>
                        ELSE [i \in DOMAIN usable |-> Box(n, usable[i])]
    IN  FlattenSeq([n \in DOMAIN snippet.tracks |-> Boxes(n)])

\* Every box track with a label counts for the categories, numbered as they are met.
HmieCategories(cats, snippet) ==
    FoldLeft(LAMBDA acc, track : IF track.geometry # "box" \/ track.label = <<>> THEN acc
                                 ELSE AddCategory(acc, track.label, Cardinality(DOMAIN acc) + 1),
             cats, snippet.tracks)

\* Discovery pairs annotations with videos; flat directories need no video; a probe needs one that opens.
HmiePaired(snippet) == snippet.video # <<>> /\ snippet.video[1].ext \in HmieExtensions
HmieFound(root, flat) == Ascending({id \in DOMAIN root : flat \/ HmiePaired(root[id])})
\* Faulty variant: the declared rate, although the video was probed.
HmieRate_Declared(snippet, media, probed) == Larger(snippet.fps, 0)

\* The rate that the probe measures, else the one the annotation declares.
HmieRate(snippet, media, probed) ==
    IF probed /\ media[1].rate > 0 THEN media[1].rate ELSE Larger(snippet.fps, 0)

\* A snippet that cannot be read, or whose video cannot when it is required, is skipped.
HmieLoadSnippet(acc, id, file, require) ==
    LET snippet == Envelope(file)
        paired == IF HmiePaired(snippet) THEN snippet.video ELSE <<>>
        media == [i \in DOMAIN paired |-> [paired[i] EXCEPT !.name = <<"out", ToString(id)>>]]
        probed == require /\ media # <<>> /\ media[1].length > 0
        cats == HmieCategories(acc.cats, snippet)
        fps == HmieRate(snippet, media, probed)
        boxes == HmieBoxes(snippet, cats, fps)
        seq == VideoSequence(Len(acc.seqs), media, "hmie", boxes,
                             IF probed THEN media[1].length ELSE BoundOf(boxes), probed, fps)
    IN  IF snippet.form = "broken" \/ (require /\ ~probed) THEN acc
        ELSE [cats |-> cats, seqs |-> Append(acc.seqs, [seq EXCEPT !.status = snippet.status])]
HmieLoad(root, flat, require) ==
    LET loaded == FoldLeft(LAMBDA acc, id : HmieLoadSnippet(acc, id, root[id], require),
                           [cats |-> <<>>, seqs |-> <<>>], HmieFound(root, flat))
    IN  Tracks(loaded.seqs, loaded.cats)

------------------------------------------------------------------------------
(* Flat folders of MP4. *)

\* The name of the video; one that this call has used is counted.
FlatMp4Name(name, used) ==
    LET Counted(k) == IF k = 1 THEN name ELSE Append(name, ToString(k))
    IN  Counted(Min({k \in 1 .. Cardinality(used) + 1 : Counted(k) \notin used}))
\* Only sequences of an MP4 file are written, without their boxes.
FlatMp4WriteSequence(acc, seq) ==
    LET name == FlatMp4Name(seq.video[1].name, acc.used)
    IN  IF seq.video = <<>> \/ seq.video[1].ext # "mp4" THEN acc
        ELSE [used |-> acc.used \cup {name},
              root |-> Put(acc.root, name, [seq.video[1] EXCEPT !.name = name])]
FlatMp4Write(ds, existing) ==
    FoldLeft(FlatMp4WriteSequence, [used |-> {}, root |-> existing], ds.seqs).root

\* A file that the probe rejects is skipped.
FlatMp4Load(root) ==
    LET names == InOrder({n \in DOMAIN root : root[n].ext = "mp4" /\ root[n].length > 0})
    IN  Tracks([i \in DOMAIN names |->
            VideoSequence(i - 1, <<root[names[i]]>>, "flat_mp4", <<>>, root[names[i]].length, TRUE,
                          root[names[i]].rate)], <<>>)
==============================================================================
