------------------------------ MODULE HmieChecks ------------------------------
(***************************************************************************)
(* The checks of HMIE on one snippet: of its annotation, of its video, and *)
(* of the one against the other.  A finding is a check with the track it   *)
(* is about, <<>> if it is about the file.  A video that opens says how    *)
(* long and how large it is.                                               *)
(***************************************************************************)
EXTENDS HmieVideo

\* The checks of a table that are not passed.
Failing(fails, on) == {<<check, on>> : check \in {c \in DOMAIN fails : fails[c]}}

------------------------------------------------------------------------------
(* The annotation. *)

KnownStatuses == {"completed", "pending", "canceled", "error", "expired", "unassigned", "submitted"}
MetadataFindings(snippet) ==
    LET task == Envelope(snippet)
    IN  Failing([annotation_unwrapped |-> snippet.form = "tracks",
                 annotation_duplicate_keys |-> snippet.form = "twice",
                 annotation_missing_status |-> task.status = "",
                 annotation_status |-> task.status \notin KnownStatuses \cup {""},
                 annotation_empty |-> task.tracks = <<>>,
                 annotation_missing_afr |-> task.afr = NoRate,
                 annotation_missing_fps |-> task.fps = NoRate], <<>>)

Keys(track) == [i \in DOMAIN track.frames |-> track.frames[i].key]
SomeFrame(track, kind) == \E i \in DOMAIN track.frames : track.frames[i].bbox = kind
\* Coordinates are looked at in box tracks only.
TrackFindings(track) ==
    LET boxes == track.geometry = "box"
    IN  Failing([annotation_label_empty |-> track.label = <<>>,
                 annotation_empty_track |-> track.frames = <<>>,
                 annotation_key_order |-> \E i, j \in DOMAIN track.frames : i < j /\ Keys(track)[i] > Keys(track)[j],
                 annotation_geometry_pending_support |-> ~boxes /\ track.frames # <<>>,
                 annotation_box_missing_fields |-> boxes /\ SomeFrame(track, "missing"),
                 annotation_bbox_size |-> boxes /\ SomeFrame(track, "flat"),
                 annotation_bbox_negative |-> boxes /\ SomeFrame(track, "negative")], track.uuid)
TracksOf(snippet) == {snippet.tracks[i] : i \in DOMAIN snippet.tracks}
AnnotationFindings(snippet) ==
    IF snippet.form = "broken" THEN {<<"annotation_schema", <<>>>>}
    ELSE MetadataFindings(snippet) \cup UNION {TrackFindings(track) : track \in TracksOf(snippet)}

------------------------------------------------------------------------------
(* The video. *)

MaxRate == 480
At(media, frame) == IF media.rate <= 0 THEN "lost"
                    ELSE IF frame \in DOMAIN media.faults THEN media.faults[frame] ELSE "picture"
\* More than half of the samples that a seek finds show nothing.
MostlyFlat(media) ==
    LET found == {f \in SampleIndices(media.length) : At(media, f) # "lost"}
    IN  2 * Cardinality({f \in found : At(media, f) = "flat"}) > Cardinality(found)
VideoFindings(media) ==
    LET long == media.length > 1
    IN  IF media.length = 0 THEN {<<"video_open", <<>>>>}
        ELSE Failing([video_fps |-> media.rate \notin 1 .. MaxRate,
                      video_flat_frames |-> long /\ MostlyFlat(media),
                      video_mid_frame |-> long /\ At(media, media.length \div 2) = "lost",
                      video_last_frame |-> long /\ At(media, media.length - 1) = "lost"], <<>>)

------------------------------------------------------------------------------
(* The annotation against the video. *)

FpsTolerance == 1
FpsConsistent(task, media) == task.fps = NoRate \/ media.rate - task.fps \in -FpsTolerance .. FpsTolerance
\* The last key is mapped by the rate that the video has, not by the one the annotation declares.
BeyondVideo(track, task, media) ==
    /\ track.frames # <<>> /\ Mappable(media.rate, task.afr)
    /\ FrameOfKey(Max(ToSet(Keys(track))), media.rate, task.afr) >= media.length
ConsistencyFindings(snippet, media) ==
    LET task == Envelope(snippet)
        Of(track) == Failing([consistency_frame_bounds |-> BeyondVideo(track, task, media),
                              consistency_bbox_bounds |-> track.geometry = "box" /\ SomeFrame(track, "beyond")],
                             track.uuid)
    IN  Failing([consistency_fps |-> ~FpsConsistent(task, media)], <<>>)
        \cup UNION {Of(track) : track \in TracksOf(task)}

\* A video that does not open, or an annotation that cannot be read, is not compared.
ValidatePair(snippet, video, check_video) ==
    AnnotationFindings(snippet)
    \cup (IF video = <<>> \/ ~check_video THEN {} ELSE VideoFindings(video[1]))
    \cup (IF video = <<>> \/ ~check_video \/ snippet.form = "broken" THEN {}
          ELSE IF video[1].length = 0 THEN {} ELSE ConsistencyFindings(snippet, video[1]))
==============================================================================
