------------------------------- MODULE VideoData ------------------------------
(***************************************************************************)
(* What the video formats share: the sequences of model.py, their boxes,   *)
(* and the parts of the writers that are the same in every format.         *)
(*                                                                         *)
(* A sequence has its frames as a table (a path per index, with gaps), as  *)
(* a numbered pattern, in a video file, or not at all; `frames` maps the   *)
(* index of each frame that can be read to its image.  `num` is the number *)
(* of frames, 0 if unknown, and `exact` whether that is more than a bound  *)
(* from the boxes.  A name is the tuple of its parts: <<"a", "1">> is a-1.   *)
(* A rate, 0 if unknown, is a number of half frames per second.            *)
(***************************************************************************)
EXTENDS Collections, TLC

\* A video file: which one it is, how it is wrapped, its frames (none if it cannot be read), its name,
\* its rate and the frames at which a seek finds a "flat" picture or none ("lost").
Media(id, ext, length, name, rate, faults) ==
    [id |-> id, ext |-> ext, length |-> length, name |-> name, rate |-> rate, faults |-> faults]
Decoded(media) == [f \in 0 .. media.length - 1 |-> <<media.id, f>>]
\* The sequence of a video file has its frames; `video` is a sequence of at most one.
VideoSequence(vid, media, format, boxes, num, exact, fps) ==
    [vid |-> vid, label |-> <<>>, split |-> "", variant |-> "", format |-> format, source |-> -1, status |-> "",
     fps |-> fps,
     kind |-> IF media = <<>> THEN "none" ELSE "video", video |-> media, names |-> <<>>, boxes |-> boxes,
     frames |-> IF media = <<>> THEN <<>> ELSE Decoded(media[1]), num |-> num, exact |-> exact]

\* A box: its track, its category, its frame, its extent and what its source said of it.
Positive(bbox) == bbox # "flat"
Attr(box, key, otherwise) == IF key \in DOMAIN box.attrs THEN box.attrs[key] ELSE otherwise
FirstAttr(box, keys, otherwise) ==
    IF \E i \in DOMAIN keys : keys[i] \in DOMAIN box.attrs
    THEN box.attrs[keys[Min({i \in DOMAIN keys : keys[i] \in DOMAIN box.attrs})]] ELSE otherwise
NameOf(uri) == IF uri = <<>> THEN "" ELSE uri[Len(uri)]

Tracks(sequences, categories) == [task |-> "mot", seqs |-> sequences, cats |-> categories]
NoTracks == Tracks(<<>>, <<>>)
FramesOfBoxes(boxes) == {boxes[i].frame : i \in DOMAIN boxes}
\* The lower bound of a length: one more than the last frame with a box.
BoundOf(boxes) == Max({f + 1 : f \in FramesOfBoxes(boxes)} \cup {0})

\* The first use of a category decides its id.
AddCategory(cats, uri, id) == IF uri \in DOMAIN cats THEN cats ELSE Put(cats, uri, id)
Listed(uris, id(_)) == FoldLeft(LAMBDA cats, uri : AddCategory(cats, uri, id(uri)), <<>>, uris)

------------------------------------------------------------------------------
(* The writers. *)

\* The frames a writer copies: those of the table, of the count, or of the boxes.
FrameIndices(seq) ==
    CASE seq.kind \in {"table", "video"} -> DOMAIN seq.frames
      [] seq.kind = "pattern" -> IF seq.exact THEN 0 .. seq.num - 1
                                 ELSE {f \in FramesOfBoxes(seq.boxes) : f >= 0}
      [] seq.kind = "none" -> {}
\* Frames that cannot be read are skipped; of a video every frame is extracted.
MaterializeFrames(seq) ==
    [f \in FrameIndices(seq) \cap DOMAIN seq.frames |-> seq.frames[f]]

\* The boxes in the order of their frames; in the order of the rows, by frame, then by track.
FrameOrder(boxes) == SortedBy(boxes, [i \in DOMAIN boxes |-> boxes[i].frame])
RowOrder(boxes) == FrameOrder(SortedBy(boxes, [i \in DOMAIN boxes |-> boxes[i].track]))

\* The label of a sequence, where every character that is not safe becomes a dash.
\* Without a label it is the name of the video, else the id of the sequence.
SafeLabel(seq) == IF seq.label = <<"a b">> THEN <<"a", "b">>
                  ELSE IF seq.label # <<>> THEN seq.label
                  ELSE IF seq.video # <<>> THEN seq.video[1].name
                  ELSE <<"sequence", ToString(seq.vid)>>
\* It is made unique by the id of the sequence, then by a count.
UniqueSequenceName(seq, used) ==
    LET base == SafeLabel(seq)
        Counted(k) == IF k = 1 THEN Append(base, ToString(seq.vid)) ELSE base \o <<ToString(seq.vid), ToString(k)>>
        free == {k \in 1 .. Cardinality(used) + 1 : Counted(k) \notin used}
    IN  IF base \notin used THEN base ELSE Counted(Min(free))

\* The class of a box: by the map, by what the source said, by the name in a table, by its id.
ClassByName(table, name) == {n \in DOMAIN table : table[n] = name}
ResolveClass(box, attribute, classMap, table) ==
    LET Known(id) == [id |-> id, guessed |-> FALSE]
        named == IF box.name = "" THEN {} ELSE ClassByName(table, box.name)
    IN  IF classMap # <<>>
        THEN IF box.name \in DOMAIN classMap THEN {Known(classMap[box.name])} ELSE {}
        ELSE IF attribute \in DOMAIN box.attrs THEN {Known(box.attrs[attribute])}
        ELSE IF named # {} THEN {Known(CHOOSE n \in named : TRUE)}
        ELSE {[id |-> box.cat, guessed |-> TRUE]}

\* The boxes of a sequence as rows, those that the format can hold.
RowsOfBoxes(seq, RowsOf(_)) ==
    LET ordered == RowOrder(seq.boxes)
    IN  FlattenSeq([i \in DOMAIN ordered |->
            IF ordered[i].frame \in DOMAIN MaterializeFrames(seq) /\ Positive(ordered[i].bbox)
            THEN RowsOf(ordered[i]) ELSE <<>>])
==============================================================================
