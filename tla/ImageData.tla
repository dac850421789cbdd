------------------------------ MODULE ImageData ------------------------------
(***************************************************************************)
(* What the still-image formats share: the records of records.py, the      *)
(* taxonomy, the geometry of the boxes and the names of the files.         *)
(*                                                                         *)
(* An image file is a pair <<i, kind>> of which image it is and how it is  *)
(* encoded.  A file name is a record of its directories, its stem, the     *)
(* counters appended to tell it apart and its extension.  A box has one    *)
(* dimension: its two edges, in units of which Step make the smallest      *)
(* difference the text of a label keeps and Extent the size of an image.   *)
(***************************************************************************)
EXTENDS Collections, TLC

CONSTANTS Extent,   \* the size of every image, in units
          Step      \* the units in the last digit a label file keeps

ASSUME GridAssumption == /\ Step \in {2 * n : n \in 1 .. Extent}
                         /\ Extent \in {Step * n : n \in 1 .. Extent}

\* Identifiers are integers, strings or missing; they carry which.
None == <<"none">>
IntId(n) == <<"int", n>>
StrId(s) == <<"str", s>>
IsInt(id) == id[1] = "int"

------------------------------------------------------------------------------
(* Names. *)

NoName == [dir |-> <<>>, stem |-> "", count |-> <<>>, ext |-> ""]
LowerOf == [A |-> "a", Car |-> "car"]
Lower(s) == IF s \in DOMAIN LowerOf THEN LowerOf[s] ELSE s
Casefold(name) == [name EXCEPT !.stem = Lower(@)]
WithSuffix(name, ext) == [name EXCEPT !.ext = ext]
BaseName(name) == [name EXCEPT !.dir = <<>>]
Below(dirs, name) == [name EXCEPT !.dir = dirs \o @]
Safe(name) == name # NoName /\ ".." \notin ToSet(name.dir)
Hidden(name) == name.stem = ".hidden" \/ ".hidden" \in ToSet(name.dir)

\* The name and its counted forms: a, a_2, a_3, ... ; the first one that is free.
Candidate(name, k) == IF k = 1 THEN name ELSE [name EXCEPT !.count = Append(@, k)]
FirstFree(name, Free(_)) ==
    LET found[k \in Nat] == IF Free(Candidate(name, k)) THEN Candidate(name, k) ELSE found[k + 1]
    IN  found[1]

SplitOf == [train |-> "train", training |-> "train", val |-> "val", valid |-> "val",
            validation |-> "val", test |-> "test"]
InferSplit(s) == IF s \in DOMAIN SplitOf THEN SplitOf[s] ELSE ""

------------------------------------------------------------------------------
(* Boxes. *)

Area(box) == box.r > box.l
Cut(x) == IF x < 0 THEN 0 ELSE IF x > Extent THEN Extent ELSE x
ClampToImage(box) == [l |-> Cut(box.l), r |-> Cut(box.r)]

\* Faulty variant: the digits that are not kept are cut off.
Rounded_Cut(twice) == Step * (twice \div (2 * Step))
\* A label row holds the centre and the width, rounded to the digits it keeps.
Rounded(twice) == Step * ((twice + Step) \div (2 * Step))
ToYolo(box) == [c |-> Rounded(box.l + box.r), w |-> Rounded(2 * (box.r - box.l))]
FromYolo(row) == [l |-> row.c - row.w \div 2, r |-> row.c + row.w \div 2]

------------------------------------------------------------------------------
(* Images, categories and datasets. *)

Probeable == {"png", "jpg", "webp"}       \* _encoded_image_dimensions
SampleDims(sample) == IF sample.dims THEN TRUE
                      ELSE sample.image # None /\ sample.image[2] \in Probeable

\* The first entry of a taxonomy with a field of that value, 0 if there is none.
EntryWith(entries, field, value) ==
    IF \E i \in DOMAIN entries : entries[i][field] = value
    THEN Min({i \in DOMAIN entries : entries[i][field] = value})
    ELSE 0
BySourceId(entries, id) == EntryWith(entries, "id", id)
ByName(entries, name) == EntryWith(entries, "name", name)

\* A dataset: its samples, its taxonomy, whether the ids of that are dense, its splits.
Dataset(task, samples, entries, dense, splits) ==
    [task |-> task, samples |-> samples, entries |-> entries, dense |-> dense, splits |-> splits]
EmptyDataset(task) == Dataset(task, <<>>, <<>>, FALSE, {})
SplitsOf(samples) == {samples[i].split : i \in DOMAIN samples} \ {""}
NamedEntries(names) == [i \in DOMAIN names |-> [id |-> IntId(i - 1), name |-> names[i]]]

\* The id a label or a detection had in its source, else the one it has.
SourceIdOf(label) == IF label.src # None THEN label.src ELSE label.cat
==============================================================================
