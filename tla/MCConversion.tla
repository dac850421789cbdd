----------------------------- MODULE MCConversion -----------------------------
(* Small datasets and roots with the clashes that the formats must survive. *)
EXTENDS Conversion

Name(dir, stem, ext) == [dir |-> dir, stem |-> stem, count |-> <<>>, ext |-> ext]
Box(l, r) == [l |-> l, r |-> r]
Det(cat, name, box) == [id |-> None, cat |-> cat, src |-> cat, name |-> name, box |-> box, score |-> FALSE, fixed |-> None]
Entry(n, name) == [id |-> IntId(n), name |-> name]
OdSample(id, name, path, image, dims, split, dets) ==
    [id |-> id, name |-> name, path |-> Below(path, name), image |-> image, dims |-> dims, split |-> split, dets |-> dets]
Traffic == <<Entry(7, "car"), Entry(3, "pedestrian")>>

\* Three images, two of one name and one that differs in case, with sparse ids.
Street == Dataset("od",
    <<OdSample(IntId(4), Name(<<>>, "a", "png"), <<"src", "x">>, <<1, "png">>, TRUE, "train",
               <<Det(IntId(7), "car", Box(0, 3)), Det(IntId(3), "pedestrian", Box(5, 9))>>),
      OdSample(StrId("q"), Name(<<>>, "A", "png"), <<"src", "y">>, <<2, "jpg">>, TRUE, "val",
               <<Det(IntId(7), "car", Box(-1, 1))>>),
      OdSample(IntId(1), Name(<<>>, "a", "png"), <<"src", "y">>, <<3, "png">>, FALSE, "train",
               <<Det(IntId(3), "pedestrian", Box(13, 17))>>)>>,
    Traffic, FALSE, {"train", "val"})
\* The same names for other images.
Avenue == Dataset("od",
    <<OdSample(IntId(1), Name(<<>>, "a", "png"), <<"src", "z">>, <<5, "png">>, TRUE, "train",
               <<Det(IntId(3), "pedestrian", Box(1, 2))>>)>>,
    Traffic, FALSE, {"train"})
\* No taxonomy, an image that is not there, a box of no width, one that a label would lose.
Bare == Dataset("od",
    <<OdSample(IntId(1), Name(<<"d">>, "a", "jpg"), <<"src">>, <<6, "jpg">>, TRUE, "",
               <<Det(IntId(2), "", Box(4, 8)), Det(StrId("car"), "car", Box(8, 12)), Det(IntId(2), "", Box(3, 3))>>),
      OdSample(IntId(2), Name(<<>>, "b", "jpg"), <<"src">>, None, TRUE, "", <<Det(IntId(2), "", Box(4, 8))>>)>>,
    <<>>, FALSE, {})
\* An image in a directory of its own below its split, two whose names differ in the extension.
Nested == Dataset("od",
    <<OdSample(IntId(1), Name(<<>>, "a", "png"), <<"src">>, <<7, "png">>, TRUE, "train", <<Det(IntId(7), "car", Box(2, 6))>>),
      OdSample(IntId(2), Name(<<"d">>, "b", "png"), <<"src">>, <<8, "png">>, TRUE, "val", <<Det(IntId(7), "car", Box(2, 6))>>),
      OdSample(IntId(3), Name(<<>>, "a", "jpg"), <<"src">>, <<9, "jpg">>, TRUE, "train", <<Det(IntId(3), "pedestrian", Box(9, 12))>>)>>,
    Traffic, FALSE, {"train", "val"})

IcSample(name, image, split, cat, class) ==
    [id |-> StrId(name), name |-> name, path |-> Below(<<"src">>, name), image |-> image, dims |-> FALSE, split |-> split,
     region |-> FALSE, labels |-> <<[cat |-> IntId(cat), src |-> IntId(cat), name |-> class, fixed |-> None]>>]
Vehicles == NamedEntries(<<"car", "bus">>)
Labels == Dataset("ic",
    <<IcSample(Name(<<"x">>, "a", "png"), <<1, "png">>, "train", 0, "car"),
      IcSample(Name(<<"y">>, "a", "png"), <<2, "png">>, "train", 0, "car"),
      IcSample(Name(<<"y">>, "a", "jpg"), <<3, "jpg">>, "val", 1, "bus")>>,
    Vehicles, TRUE, {"train", "val"})
MoreLabels == Dataset("ic", <<IcSample(Name(<<"x">>, "a", "png"), <<4, "png">>, "train", 0, "car")>>, Vehicles, TRUE, {"train"})
OtherLabels == Dataset("ic",
    <<IcSample(Name(<<>>, "a", "png"), <<5, "png">>, "", 0, "van"),
      [IcSample(Name(<<>>, "b", "png"), <<6, "png">>, "", 0, "van") EXCEPT !.region = TRUE] @@ [box |-> Box(2, 6)]>>,
    NamedEntries(<<"van">>), TRUE, {})

TrackBox(uuid, track, cat, class, frame, bbox) ==
    [uuid |-> uuid, track |-> track, cat |-> cat, uri |-> <<"u", class>>, name |-> class, frame |-> frame,
     bbox |-> bbox, attrs |-> <<>>]
Footage(v, n) == [f \in 0 .. n - 1 |-> <<v, f>>]
Sequence(vid, label, split, frames, boxes) ==
    [vid |-> vid, label |-> label, split |-> split, variant |-> "", format |-> "memory", source |-> -1,
     kind |-> "pattern", video |-> <<>>, frames |-> frames, names |-> <<>>, boxes |-> boxes,
     num |-> Cardinality(DOMAIN frames), exact |-> TRUE, status |-> "", fps |-> 4]
Walk == Tracks(
    <<Sequence(0, <<"a b">>, "train", Footage("v", 2),
               <<TrackBox(<<"p">>, 2, 1, "pedestrian", 0, "b1"), TrackBox(<<"q">>, 1, 4, "car", 0, "b2"),
                 TrackBox(<<"p">>, 2, 1, "pedestrian", 1, "b3")>>),
      Sequence(1, <<"a", "b">>, "train", Footage("w", 2),
               <<TrackBox(<<"r">>, 1, 4, "car", 1, "b4"), TrackBox(<<"s">>, 2, 4, "car", 1, "flat")>>)>>,
    (<<"u", "pedestrian">> :> 1) @@ (<<"u", "car">> :> 4))
\* Boxes out of order, the last of them at a given frame.
Film(ext, last) == Tracks(
    <<VideoSequence(3, <<Media("m", ext, 2, <<"clip">>, 4, <<>>)>>, "memory",
                    <<TrackBox(<<"p">>, 1, 4, "car", 0, "b1"), TrackBox(<<"q">>, 2, 1, "pedestrian", 1, "b2"),
                      TrackBox(<<"q">>, 2, 1, "pedestrian", last, "b3")>>, 2, TRUE, 4)>>,
    (<<"u", "pedestrian">> :> 1) @@ (<<"u", "car">> :> 4))

Clip(id, ext, stem, label, split) ==
    [video |-> <<Media(id, ext, 3, stem, 4, <<>>)>>, at |-> HfvPath(<<"src">>, stem, ext), stem |-> stem, label |-> label, split |-> split]
Reel == Clips(<<Clip("m", "mp4", <<"c">>, "run", "train"), Clip("n", "mp4", <<"c">>, "jump", "train"),
                Clip("o", "avi", <<"c">>, "", ""), Clip("p", "mp4", <<"c">>, "run", "extra")>>,
              ("jump" :> 0) @@ ("run" :> 1))

MCDatasets == {Street, Avenue, Bare, Nested, Labels, MoreLabels, OtherLabels, Walk, Film("mp4", 5), Film("ts", 0), Reel}

MCWays ==
    [format : {"coco"}, include : BOOLEAN] \cup [format : {"yolo_od"}, include : BOOLEAN]
    \cup [format : {"yolo_ic"}, remote : BOOLEAN]
    \cup {[format |-> "hf_od", split |-> "", preserve |-> TRUE], [format |-> "hf_od", split |-> "test", preserve |-> FALSE],
          [format |-> "hf_ic", split |-> "train"],
          [format |-> "visdrone_od", split |-> "val", preserve |-> TRUE],
          [format |-> "visdrone_ic", split |-> "val", preserve |-> TRUE],
          [format |-> "flat_images"], [format |-> "hmie"], [format |-> "flat_mp4"],
          [format |-> "tao", split |-> "train", preserve |-> TRUE], [format |-> "tao", split |-> "test", preserve |-> FALSE],
          [format |-> "hf_video", split |-> "", preserve |-> TRUE, kind |-> "csv"],
          [format |-> "hf_video", split |-> "train", preserve |-> FALSE, kind |-> "jsonl"]}
    \cup [format : {"mot"}, split : {"train"}, preserve : {TRUE}, source : {"gt", "det"}]
    \cup [format : {"visdrone_video"}, variant : {"auto"}, split : {"train"}, preserve : {TRUE}, source : {"gt", "det"}]

\* Roots of other tools: ids twice, references to nothing, tables and splits that disagree.
Other(format, root) == [format |-> format, root |-> root]
OtherCoco ==
    LET Image(n, name) == [id |-> IntId(n), name |-> name, dims |-> TRUE]
        Row(id, image, cat, box) == [id |-> IntId(id), image |-> IntId(image), cat |-> IntId(cat), box |-> box]
        a == Name(<<"x">>, "a", "png")
        b == Name(<<"y">>, "a", "png")
    IN  [images |-> <<Image(2, a), Image(2, b), Image(7, b)>>,
         categories |-> <<Entry(5, "car"), Entry(5, "bus"), Entry(2, "van"), [id |-> StrId("x"), name |-> "y"]>>,
         annotations |-> <<Row(1, 2, 5, Box(0, 4)), Row(1, 7, 2, Box(2, 6)), Row(3, 7, 9, Box(1, 4)), Row(4, 8, 5, Box(0, 2))>>,
         files |-> (a :> <<1, "png">>) @@ (b :> <<2, "png">>)]
OtherYolo ==
    [EmptyRoot EXCEPT
       !.images = (Name(<<"images", "train">>, "a", "png") :> <<1, "png">>) @@ (Name(<<"images">>, "b", "jpg") :> <<2, "jpg">>)
                  @@ (Name(<<"images">>, "c", "webp") :> <<3, "webp">>),
       !.labels = (Name(<<"labels", "train">>, "a", "txt") :> <<[class |-> 4, box |-> [c |-> 6, w |-> 4], score |-> FALSE]>>)
                  @@ (Name(<<"labels">>, "c", "txt") :> <<[class |-> 2, box |-> [c |-> 6, w |-> 4], score |-> FALSE]>>)]
OtherYoloIc ==
    [EmptyRoot EXCEPT !.dirs = {<<"training", "car">>, <<"val", "car">>, <<"val", "bus">>},
       !.images = (Name(<<"training", "car">>, "a", "png") :> <<1, "png">>) @@ (Name(<<"val", "car">>, "a", "png") :> <<2, "png">>)]
OtherHf ==
    LET Row(file, boxes, categories) ==
            [file |-> file, dims |-> FALSE, label |-> None, boxes |-> boxes, categories |-> categories, ids |-> <<>>]
    IN  [images |-> (Name(<<"train">>, "a", "png") :> <<1, "png">>) @@ (Name(<<"train">>, "b", "png") :> <<2, "png">>),
         metadata |-> <<"train">> :>
            [parquet |-> TRUE, table |-> <<"car", "bus">>,
             rows |-> <<Row(Name(<<>>, "a", "png"), <<Box(0, 4), Box(4, 8), Box(8, 8)>>, <<IntId(1), StrId("tram"), IntId(0)>>),
                        Row(Name(<<"train">>, "b", "png"), <<Box(2, 4), Box(6, 8)>>, <<IntId(5), StrId("bus")>>),
                        Row(Name(<<>>, "gone", "png"), <<Box(2, 4)>>, <<IntId(0)>>)>>]]
OtherHfIc ==
    [images |-> (Name(<<"train", "3">>, "a", "png") :> <<1, "png">>) @@ (Name(<<"dev", "7">>, "a", "png") :> <<2, "png">>),
     metadata |-> <<>>]
OtherTao ==
    LET File(v, n) == TaoFile(<<v>>, n)
        Image(id, v, n, index) == [id |-> id, video |-> v, file |-> File(ToString(v), n), index |-> index]
        Row(id, image, track, cat, bbox) == [id |-> id, image |-> image, track |-> track, category |-> cat, bbox |-> bbox, attrs |-> <<>>]
        twice == [Image(2, 2, 1, -1) EXCEPT !.file.dir = <<"more">>]    \* an id that another image has
        Doc(v, rows) == [videos |-> <<[id |-> 1, name |-> <<"one">>, fps |-> 4]>>, categories |-> <<[id |-> 2, name |-> "car"]>>,
                         images |-> <<Image(1, v, 0, -1), Image(2, v, 3, -1)>> \o (IF v = 2 THEN <<twice>> ELSE <<>>),
                         annotations |-> rows,
                         tracks |-> <<[id |-> 1, video |-> v, category |-> 2]>>]
    IN  [docs |-> [train |-> Doc(1, <<Row(1, 1, 1, 2, "b1"), Row(2, 2, 1, NoId, "b2")>>),
                   validation |-> Doc(2, <<Row(1, 1, 1, 8, "b3"), Row(2, 2, 5, 2, "b4"), Row(3, 9, 1, 2, "b5")>>)],
         frames |-> (File("1", 0) :> <<"v", 0>>) @@ (File("1", 3) :> <<"v", 3>>)
                    @@ (File("2", 0) :> <<"w", 0>>) @@ (File("2", 3) :> <<"w", 3>>)
                    @@ (twice.file :> <<"w", 1>>)]
OtherMot ==
    LET Row(frame, id, bbox, conf, class) == [frame |-> frame, id |-> id, bbox |-> bbox, conf |-> conf, class |-> class]
    IN  (<<"test", <<"s", "1">>>> :>
            [frames |-> Footage("v", 2), info |-> <<>>, det |-> <<<<Row(0, -1, "b1", 1, 0), Row(0, -1, "b2", 1, 0)>>>>,
             gt |-> <<<<Row(0, 1, "b1", 0, 3), Row(1, 1, "b2", 1, 3), Row(1, 0, "b3", 1, 3), Row(0, 2, "b4", 1, 9)>>>>])
OtherVis ==
    LET Row(frame, id, bbox, score, class) == [frame |-> frame, id |-> id, bbox |-> bbox, score |-> score, class |-> class]
        Dir(v, rows) == [frames |-> Footage(v, 2), rows |-> <<rows>>]
    IN  (<<"vid", "val", <<"s">>>> :> Dir("v", <<Row(0, 1, "b1", 1, 4), Row(1, -1, "b2", 0, 0), Row(1, 1, "b3", 1, 4)>>))
        @@ (<<"mot", "val", <<"s">>>> :> Dir("w", <<Row(0, 1, "b4", 1, 7)>>))
OtherHmie ==
    LET Track(uuid, label, geometry, frames) == [uuid |-> <<uuid>>, label |-> label, geometry |-> geometry, frames |-> frames]
        Key(key, bbox) == [key |-> key, bbox |-> bbox, attrs |-> <<>>]
        Video(id, ext, length, rate, faults) == <<Media(id, ext, length, <<"out", id>>, rate, faults)>>
        Task(video, fps, afr, labels) ==
            [video |-> video, form |-> "task", status |-> "completed", fps |-> fps, afr |-> afr, tracks |-> labels]
        car(keys) == <<Track("p", <<"u", "car">>, "box", keys)>>
    IN  (5 :> Task(Video("5", "mp4", 4, 4, <<>>), 4, 2,
                   <<Track("p", <<"u", "car">>, "box", <<Key(0, "b1"), Key(1, "b2"), Key(2, "b3")>>),
                     Track("q", <<"u", "van">>, "point", <<Key(0, "missing")>>),
                     Track("r", <<>>, "box", <<Key(1, "b4"), Key(0, "nan")>>)>>))
        \* Sound, at rates that differ within the tolerance.
        @@ (6 :> Task(Video("6", "ts", 4, 3, (1 :> "flat")), 4, 2, car(<<Key(0, "b1"), Key(2, "b2"), Key(2, "nan")>>)))
        \* Sound but for the last key, which means the frame after the last one.
        @@ (7 :> Task(Video("7", "mp4", 2, 2, <<>>), 2, 1, car(<<Key(0, "b5"), Key(1, "b6")>>)))
        \* Tracks without a task, boxes beyond the picture, a video that shows nothing and ends early.
        @@ (8 :> [Task(Video("8", "mp4", 3, 4, (1 :> "flat") @@ (2 :> "lost")), NoRate, NoRate,
                       car(<<Key(0, "negative"), Key(1, "beyond")>>)) EXCEPT !.form = "tracks", !.status = ""])
        @@ (9 :> [Task(Video("9", "mp4", 2, 4, <<>>), 4, 4, car(<<Key(0, "b7")>>)) EXCEPT !.form = "broken"])
        \* A rate of zero, so that keys stay what they are.
        @@ (10 :> [Task(Video("10", "mp4", 2, 4, <<>>), 4, 0, car(<<Key(0, "b8")>>)) EXCEPT !.status = "odd"])
OtherHfv ==
    LET Row(dir, stem, label) == [file |-> HfvPath(dir, stem, "mp4"), label |-> label]
    IN  [files |-> (HfvPath(<<"train", "run">>, <<"a">>, "mp4") :> Media("m", "mp4", 2, <<"a">>, 4, <<>>))
                   @@ (HfvPath(<<"train">>, <<"b">>, "mp4") :> Media("n", "mp4", 2, <<"b">>, 4, <<>>)),
         metas |-> <<<<"train">>, "csv">> :> <<Row(<<"run">>, <<"a">>, ""), Row(<<"train">>, <<"b">>, "hop"), Row(<<>>, <<"c">>, "hop")>>]
OtherFlat == [images |-> (Name(<<>>, "a", "png") :> <<1, "png">>) @@ (Name(<<>>, "b", "png") :> <<2, "jpg">>)]

MCForeign == {Other("coco", OtherCoco), Other("yolo_od", OtherYolo), Other("yolo_ic", OtherYoloIc), Other("hf_od", OtherHf),
              Other("hf_ic", OtherHfIc), Other("tao", OtherTao), Other("mot", OtherMot), Other("visdrone_video", OtherVis),
              Other("hmie", OtherHmie), Other("hf_video", OtherHfv), Other("flat_images", OtherFlat)}

\* A VisDrone sequence whose second frame file is missing, with a box on the last.
GappedVis ==
    LET Row(frame, bbox) == [frame |-> frame, id |-> 1, bbox |-> bbox, score |-> 1, class |-> 4]
    IN  <<"vid", "val", <<"s">>>> :>
            [frames |-> (0 :> <<"v", 0>>) @@ (2 :> <<"v", 2>>), rows |-> <<<<Row(0, "b1"), Row(2, "b2")>>>>]
NoDatasets == {}
MCGapped == {Other("visdrone_video", GappedVis)}
VisWays == {way \in MCWays : way.format = "visdrone_video" /\ way.source = "gt"}
==============================================================================
