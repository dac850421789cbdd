--------------------------- MODULE ConversionProofs --------------------------
(***************************************************************************)
(* What holds of every chain of writes and loads, of any datasets and in   *)
(* any of the formats; before it, what the loaders and the writers of      *)
(* VisDrone, of TAO and of HMIE make, what the loader of COCO makes, and   *)
(* that what the HMIE validator passes the HMIE loader loads.              *)
(***************************************************************************)
EXTENDS Conversion, FormatProofs

-----------------------------------------------------------------------------
(* VisDrone directories. *)

IsVdRoot(root) == IsImages(root.images) /\ IsLabels(root.rows)
VdAcc(acc) ==
  /\ {"images", "rows", "opened", "stems", "last", "bySource"} \subseteq DOMAIN acc
  /\ IsVdRoot(acc) /\ IsFiniteSet(acc.stems) /\ acc.opened \subseteq DOMAIN acc.rows

VdFree(c, split, stems, r) == <<split, c.stem, c.count>> \notin stems
VdNames == INSTANCE Loops WITH Body <- NoTurn, Inv <- Always, Free <- VdFree, Counted <- Candidate

\* The writer finds a stem that no image of the split has.
VdTarget(name, split, stems) == FirstFree(name, LAMBDA c : <<split, c.stem, c.count>> \notin stems)
LEMMA VdTargetFacts ==
  ASSUME NEW name, IsName(name), NEW split, NEW stems, IsFiniteSet(stems)
  PROVE  LET target == VdTarget(name, split, stems)
         IN  IsName(target) /\ VdFree(target, split, stems, 0)
<1> DEFINE count == [x \in stems |-> x[3]]
           counts == {count[x] : x \in stems}
           target == VdTarget(name, split, stems)
<1>1. IsFiniteSet(counts)
  <2> HIDE DEF count
  <2>1. QED BY FiniteImage
<1>2. PICK some \in Nat : some >= 1 /\ Candidate(name, some).count \notin counts
  <2> HIDE DEF counts
  <2>1. QED BY <1>1, SomeCount
<1>3. VdFree(Candidate(name, some), split, stems, 0)
  <2> DEFINE c == Candidate(name, some)
             x == <<split, c.stem, c.count>>
  <2>1. x \in stems => count[x] = c.count
    OBVIOUS
  <2> HIDE DEF count
  <2>2. QED BY <1>2, <2>1 DEF VdFree
<1>4. target = VdNames!Search(name, split, stems, 0)
  BY DEF VdTarget, FirstFree, VdNames!Search, VdFree
<1> HIDE DEF target
<1>5. PICK m \in Nat : m >= 1 /\ target = Candidate(name, m) /\ VdFree(Candidate(name, m), split, stems, 0)
  BY <1>2, <1>3, <1>4, VdNames!SearchFinds
<1>6. IsName(target) /\ VdFree(target, split, stems, 0)
  BY <1>5, CandidateFacts
<1>7. QED BY <1>6 DEF target

LEMMA WriteImageFacts ==
  ASSUME NEW acc, VdAcc(acc), NEW s, IsName(s.name), IsName(s.path), NEW split
  PROVE  VdAcc(WriteImage(acc, s, split))
<1> DEFINE raw == HfFileName(s)
           ext == IF raw.ext = "" THEN "jpg" ELSE raw.ext
           name == [raw EXCEPT !.ext = ext]
           free == VdTarget(name, split, acc.stems)
           target == Below(<<split, "images">>, free)
           more == Put(acc.images, target, s.image)
           stems == acc.stems \cup {<<split, target.stem, target.count>>}
           none == [acc EXCEPT !.last = NoName]
           some == [acc EXCEPT !.images = more, !.last = target, !.stems = stems]
           next == WriteImage(acc, s, split)
<1>1. next \in {none, some}
  <2>1. name = [raw EXCEPT !.ext = IF @ = "" THEN "jpg" ELSE @]
    OBVIOUS
  <2> HIDE DEF name
  <2>2. QED BY <2>1 DEF WriteImage, VdTarget
<1>2. IsName(name)
  <2> HIDE DEF ext, raw
  <2>1. IsName(raw)
    BY HfFileNameFacts DEF raw
  <2>2. QED BY <2>1, NameWithSuffix
<1> HIDE DEF name
<1>3. IsName(free)
  BY <1>2, VdTargetFacts DEF VdAcc
<1> HIDE DEF free
<1>4. IsName(target)
  BY <1>3, BelowFacts
<1> HIDE DEF target
<1>5. IsImages(more) /\ IsFiniteSet(stems)
  BY <1>4, ImagesPut, FS_AddElement DEF VdAcc, IsVdRoot
<1> HIDE DEF more, stems
<1>6. VdAcc(none) /\ VdAcc(some)
  BY <1>5 DEF VdAcc, IsVdRoot
<1> HIDE DEF none, some, next
<1>7. VdAcc(next)
  BY <1>1, <1>6
<1>8. QED BY <1>7 DEF next

LEMMA AddRowsFacts ==
  ASSUME NEW acc, VdAcc(acc), NEW rows, IsSequence(rows)
  PROVE  VdAcc(AddRows(acc, rows))
<1> DEFINE path == RowsPath(acc.last)
           had == IF path \in acc.opened THEN acc.rows[path] ELSE <<>>
           all == had \o rows
           more == Put(acc.rows, path, all)
           opened == acc.opened \cup {path}
           some == [acc EXCEPT !.rows = more, !.opened = opened]
           next == AddRows(acc, rows)
<1>1. next \in {acc, some}
  BY DEF AddRows
<1> HIDE DEF path
<1>2. IsSequence(had)
  BY EmptyFacts DEF VdAcc, IsVdRoot, IsLabels
<1> HIDE DEF had
<1>3. IsSequence(all)
  BY <1>2, ConcatFacts
<1> HIDE DEF all
<1>4. DOMAIN more = DOMAIN acc.rows \cup {path} /\ IsLabels(more)
  BY <1>3 DEF Put, VdAcc, IsVdRoot, IsLabels
<1> HIDE DEF more
<1>5. opened \subseteq DOMAIN more
  BY <1>4 DEF VdAcc
<1> HIDE DEF opened
<1>6. VdAcc(some)
  BY <1>4, <1>5 DEF VdAcc, IsVdRoot
<1> HIDE DEF some, next
<1>7. VdAcc(next)
  BY <1>1, <1>6
<1>8. QED BY <1>7 DEF next

LEMMA VdRowFacts ==
  ASSUME NEW label, NEW box, NEW classMap
  PROVE  \E row : VdRow(label, box, classMap) = <<>> \/ VdRow(label, box, classMap) = <<row>>
<1> DEFINE class == Resolved(label, classMap)
           row == [class |-> class[1], box |-> box]
<1>1. VdRow(label, box, classMap) = <<>> \/ VdRow(label, box, classMap) = <<row>>
  BY DEF VdRow
<1> HIDE DEF row
<1>2. QED BY <1>1

LEMMA VdStartFacts ==
  ASSUME NEW existing, IsVdRoot(existing)
  PROVE  VdAcc(VdStart(existing))
BY FS_EmptySet DEF VdStart, VdAcc, IsVdRoot

VdOdTurn(a, s, fallback, preserve, classMap, t) ==
  AddRows(WriteImage(a, s, IF preserve THEN VdSplit(s.split, fallback) ELSE fallback),
          Collect(s.dets, LAMBDA d : VdRow(d, d.box, classMap)))
VdInv(k, a, fallback, preserve, classMap, t) == VdAcc(a)
VdOdLoop == INSTANCE Loops WITH Body <- VdOdTurn, Inv <- VdInv, Free <- NotIn, Counted <- Candidate

LEMMA VdOdTurnFacts ==
  ASSUME NEW a, VdAcc(a), NEW s, IsName(s.name), IsName(s.path), IsSequence(s.dets),
         NEW fallback, NEW preserve, NEW classMap
  PROVE  VdAcc(VdOdTurn(a, s, fallback, preserve, classMap, 0))
<1> DEFINE split == IF preserve THEN VdSplit(s.split, fallback) ELSE fallback
           next == WriteImage(a, s, split)
           dets == s.dets
           parts == [i \in DOMAIN dets |-> VdRow(dets[i], dets[i].box, classMap)]
           Item(i) == CHOOSE row : parts[i] = <<>> \/ parts[i] = <<row>>
           item == [i \in DOMAIN dets |-> Item(i)]
           rows == FlattenSeq(parts)
<1>1. VdOdTurn(a, s, fallback, preserve, classMap, 0) = AddRows(next, rows)
  BY DEF VdOdTurn, Collect
<1>2. VdAcc(next)
  <2> HIDE DEF split
  <2>1. QED BY WriteImageFacts
<1> HIDE DEF next
<1>3. parts = [i \in DOMAIN dets |-> parts[i]]
  OBVIOUS
<1>4. \A i \in DOMAIN dets : \E row : parts[i] = <<>> \/ parts[i] = <<row>>
  BY VdRowFacts
<1>5. IsSequence(dets)
  OBVIOUS
<1> HIDE DEF parts, dets
<1>6. \A i \in DOMAIN dets : parts[i] = <<>> \/ parts[i] = <<Item(i)>>
  BY <1>4
<1>7. \A i \in DOMAIN dets : parts[i] = <<>> \/ parts[i] = <<item[i]>>
  <2> HIDE DEF Item
  <2>1. QED BY <1>6
<1> HIDE DEF item
<1>8. IsSequence(rows)
  BY <1>3, <1>5, <1>7, CollectFacts
<1> HIDE DEF rows
<1>9. QED BY <1>1, <1>2, <1>8, AddRowsFacts

LEMMA VdWriteOdFacts ==
  ASSUME NEW ds, ds.task = "od", DatasetOK(ds), NEW existing, IsVdRoot(existing),
         NEW fallback, NEW preserve, NEW classMap
  PROVE  IsVdRoot(VdWriteOd(ds, existing, fallback, preserve, classMap))
<1> DEFINE start == VdStart(existing)
           done == VdOdLoop!Loop(start, ds.samples, fallback, preserve, classMap, 0)
           n == Len(ds.samples)
<1>1. n \in Nat /\ DOMAIN ds.samples = 1 .. n
  BY SequenceFacts DEF DatasetOK, IsDataset
<1> HIDE DEF n
<1>2. VdInv(0, start, fallback, preserve, classMap, 0)
  BY VdStartFacts DEF VdInv
<1>3. VdWriteOd(ds, existing, fallback, preserve, classMap) \in {existing, VdRoot(done)}
  BY DEF VdWriteOd, VdOdTurn, VdOdLoop!Loop, FoldLeft, MapThenFoldSet,
         VdOdLoop!FoldLeft, VdOdLoop!MapThenFoldSet, Max, VdOdLoop!Max
<1> HIDE DEF start
<1>4. VdOdLoop!Keeps(ds.samples, fallback, preserve, classMap, 0)
  <2>1. ASSUME NEW a, NEW i \in DOMAIN ds.samples, VdInv(i - 1, a, fallback, preserve, classMap, 0)
        PROVE  VdInv(i, VdOdTurn(a, ds.samples[i], fallback, preserve, classMap, 0), fallback, preserve, classMap, 0)
    <3>1. IsName(ds.samples[i].name) /\ IsName(ds.samples[i].path) /\ IsSequence(ds.samples[i].dets)
      BY DEF DatasetOK, IsDataset, IsDetections
    <3>2. VdAcc(a)
      BY <2>1 DEF VdInv
    <3>3. QED BY <3>1, <3>2, VdOdTurnFacts DEF VdInv
  <2>2. QED BY <2>1 DEF VdOdLoop!Keeps
<1>5. VdInv(n, done, fallback, preserve, classMap, 0)
  BY <1>1, <1>2, <1>4, VdOdLoop!LoopInvariant
<1> HIDE DEF done
<1>6. IsVdRoot(VdRoot(done))
  BY <1>5 DEF VdInv, VdAcc, IsVdRoot, VdRoot
<1>7. QED BY <1>3, <1>6

VdBoxes(s) == IF s.region THEN <<s.box>> ELSE IF SampleDims(s) THEN <<[l |-> 0, r |-> Extent]>> ELSE <<>>
VdIcRows(s, classMap) ==
  IF s.labels = <<>> \/ VdBoxes(s) = <<>> THEN <<>> ELSE VdRow(s.labels[1], VdBoxes(s)[1], classMap)
VdIcImage(a, s, split) ==
  IF s.path # NoName /\ <<split, s.path>> \in DOMAIN a.bySource THEN [a EXCEPT !.last = a.bySource[<<split, s.path>>]]
  ELSE LET next == WriteImage(a, s, split)
       IN  IF s.path = NoName THEN next ELSE [next EXCEPT !.bySource = Put(@, <<split, s.path>>, next.last)]
VdIcTurn(a, s, fallback, preserve, classMap, t) ==
  IF VdIcRows(s, classMap) = <<>> THEN a
  ELSE AddRows(VdIcImage(a, s, IF preserve THEN VdSplit(s.split, fallback) ELSE fallback), VdIcRows(s, classMap))
VdIcLoop == INSTANCE Loops WITH Body <- VdIcTurn, Inv <- VdInv, Free <- NotIn, Counted <- Candidate

LEMMA VdIcTurnFacts ==
  ASSUME NEW a, VdAcc(a), NEW s, IsName(s.name), IsName(s.path), NEW fallback, NEW preserve, NEW classMap
  PROVE  VdAcc(VdIcTurn(a, s, fallback, preserve, classMap, 0))
<1> DEFINE split == IF preserve THEN VdSplit(s.split, fallback) ELSE fallback
           written == WriteImage(a, s, split)
           next == VdIcImage(a, s, split)
           rows == VdIcRows(s, classMap)
           last == a.bySource[<<split, s.path>>]
           bySource == Put(written.bySource, <<split, s.path>>, written.last)
<1>1. VdIcTurn(a, s, fallback, preserve, classMap, 0) \in {a, AddRows(next, rows)}
  BY DEF VdIcTurn
<1> HIDE DEF split
<1>2. VdAcc(written)
  BY WriteImageFacts
<1>3. next \in {[a EXCEPT !.last = last], written, [written EXCEPT !.bySource = bySource]}
  BY DEF VdIcImage
<1> HIDE DEF written, next, last, bySource
<1>4. VdAcc([a EXCEPT !.last = last]) /\ VdAcc([written EXCEPT !.bySource = bySource])
  BY <1>2 DEF VdAcc, IsVdRoot
<1>5. VdAcc(next)
  BY <1>2, <1>3, <1>4
<1>6. IsSequence(rows)
  <2>1. \E row : rows = <<>> \/ rows = <<row>>
    BY VdRowFacts DEF VdIcRows
  <2> HIDE DEF rows
  <2>2. PICK row : rows = <<>> \/ rows = <<row>>
    BY <2>1
  <2>3. QED BY <2>2, EmptyFacts, SingleFacts
<1> HIDE DEF rows
<1>7. VdAcc(AddRows(next, rows))
  BY <1>5, <1>6, AddRowsFacts
<1>8. QED BY <1>1, <1>7

LEMMA VdWriteIcFacts ==
  ASSUME NEW ds, IsDataset(ds), NEW existing, IsVdRoot(existing), NEW fallback, NEW preserve, NEW classMap
  PROVE  IsVdRoot(VdWriteIc(ds, existing, fallback, preserve, classMap))
<1> DEFINE start == VdStart(existing)
           done == VdIcLoop!Loop(start, ds.samples, fallback, preserve, classMap, 0)
           n == Len(ds.samples)
<1>1. n \in Nat /\ DOMAIN ds.samples = 1 .. n
  BY SequenceFacts DEF IsDataset
<1> HIDE DEF n
<1>2. VdInv(0, start, fallback, preserve, classMap, 0)
  BY VdStartFacts DEF VdInv
<1>3. VdWriteIc(ds, existing, fallback, preserve, classMap) \in {existing, VdRoot(done)}
  BY DEF VdWriteIc, VdIcTurn, VdIcImage, VdIcRows, VdBoxes, VdIcLoop!Loop, FoldLeft, MapThenFoldSet,
         VdIcLoop!FoldLeft, VdIcLoop!MapThenFoldSet, Max, VdIcLoop!Max
<1> HIDE DEF start
<1>4. VdIcLoop!Keeps(ds.samples, fallback, preserve, classMap, 0)
  <2>1. ASSUME NEW a, NEW i \in DOMAIN ds.samples, VdInv(i - 1, a, fallback, preserve, classMap, 0)
        PROVE  VdInv(i, VdIcTurn(a, ds.samples[i], fallback, preserve, classMap, 0), fallback, preserve, classMap, 0)
    <3>1. IsName(ds.samples[i].name) /\ IsName(ds.samples[i].path)
      BY DEF IsDataset
    <3>2. VdAcc(a)
      BY <2>1 DEF VdInv
    <3>3. QED BY <3>1, <3>2, VdIcTurnFacts DEF VdInv
  <2>2. QED BY <2>1 DEF VdIcLoop!Keeps
<1>5. VdInv(n, done, fallback, preserve, classMap, 0)
  BY <1>1, <1>2, <1>4, VdIcLoop!LoopInvariant
<1> HIDE DEF done
<1>6. IsVdRoot(VdRoot(done))
  BY <1>5 DEF VdInv, VdAcc, IsVdRoot, VdRoot
<1>7. QED BY <1>3, <1>6

-----------------------------------------------------------------------------
(* What the loaders make of a VisDrone directory. *)

\* The entries of the fixed table: every id once, and all of them in their places if none is left out;
\* the label that a row is read as has the name of its entry.
LabelOf(class, l) == class \in ClassIds /\ l.cat = IntId(class) /\ l.name = Classes[class + 1]
LEMMA FixedEntryFacts ==
  ASSUME NEW ids
  PROVE  LET entries == FixedEntries(ids)
         IN  /\ IsSequence(entries) /\ DistinctIds(entries)
             /\ ClassIds \subseteq ids => \A i \in DOMAIN entries : entries[i].id = IntId(i - 1)
             /\ \A class, l : LabelOf(class, l) => Fits(entries, l)
<1> DEFINE n == Len(Classes)
           table == NamedEntries(Classes)
           parts == [i \in DOMAIN table |-> IF table[i].id[2] \in ids THEN <<table[i]>> ELSE <<>>]
           entries == FixedEntries(ids)
<1>1. entries = FlattenSeq(parts)
  BY DEF FixedEntries, NamedEntries, Keep, Collect
<1>2. IsSequence(Classes) /\ n \in Nat /\ DOMAIN Classes = 1 .. n /\ ClassIds = 0 .. n - 1
  <2>1. n \in Nat /\ DOMAIN Classes = 1 .. n /\ Classes = [i \in 1 .. n |-> Classes[i]]
    BY DEF Classes
  <2>2. ClassIds = 0 .. n - 1
    BY DEF ClassIds
  <2> HIDE DEF n
  <2>3. Classes \in Seq({Classes[i] : i \in DOMAIN Classes})
    BY <2>1
  <2>4. QED BY <2>1, <2>2, <2>3 DEF IsSequence
<1> HIDE DEF n
<1>3. /\ IsSequence(table) /\ DOMAIN table = 1 .. n /\ DistinctIds(table)
      /\ \A i \in 1 .. n : table[i].id = IntId(i - 1) /\ table[i].name = Classes[i]
  BY <1>2, NamedEntryFacts
<1> HIDE DEF table, entries
<1>4. /\ parts = [i \in DOMAIN table |-> parts[i]]
      /\ \A i \in DOMAIN table : parts[i] = <<>> \/ parts[i] = <<table[i]>>
  OBVIOUS
<1>5. ASSUME ClassIds \subseteq ids, NEW i \in DOMAIN table PROVE parts[i] = <<table[i]>>
  <2>1. i - 1 \in ClassIds /\ i - 1 \in Int
    BY <1>2, <1>3
  <2>2. table[i].id[2] = i - 1
    BY <1>3, <2>1, CategoryFacts
  <2>3. QED BY <1>5, <2>1, <2>2
<1> HIDE DEF parts
<1>6. IsSequence(entries) /\ DistinctIds(entries)
  BY <1>1, <1>3, <1>4, KeptEntryFacts
<1>7. \A j \in DOMAIN entries : \E i \in DOMAIN table : entries[j] = table[i]
  <2>1. \A j \in DOMAIN FlattenSeq(parts) : \E i \in DOMAIN table : FlattenSeq(parts)[j] = table[i] /\ parts[i] # <<>>
    <3>1. IsSequence(table)
      BY <1>3
    <3>2. QED BY <1>4, <3>1, CollectFacts, SMTT(30)
  <2>2. QED BY <1>1, <2>1
<1>8. ASSUME ClassIds \subseteq ids PROVE \A i \in DOMAIN entries : entries[i].id = IntId(i - 1)
  <2>1. \A i \in DOMAIN table : parts[i] = <<table[i]>>
    BY <1>5, <1>8
  <2>2. DOMAIN FlattenSeq(parts) = DOMAIN table /\ \A i \in DOMAIN table : FlattenSeq(parts)[i] = table[i]
    <3>1. IsSequence(table)
      BY <1>3
    <3>2. QED BY <1>4, <2>1, <3>1, CollectedFacts, SMTT(30)
  <2>3. QED BY <1>1, <1>3, <2>2
<1>9. ASSUME NEW class, NEW l, LabelOf(class, l) PROVE Fits(entries, l)
  <2>1. class \in Int
    BY <1>2, <1>9 DEF LabelOf
  <2>2. ASSUME NEW k \in DOMAIN entries, entries[k].id = l.cat PROVE entries[k].name = l.name
    <3>1. PICK i \in DOMAIN table : entries[k] = table[i]
      BY <1>7
    <3>2. IntId(i - 1) = IntId(class)
      BY <1>3, <1>9, <2>2, <3>1 DEF LabelOf
    <3>3. i - 1 = class
      BY <3>2, CategoryFacts
    <3>4. class + 1 = i
      BY <1>3, <2>1, <3>3
    <3>5. QED BY <1>3, <1>9, <3>1, <3>4 DEF LabelOf
  <2>3. QED BY <1>6, <2>2, FitsAll
<1>10. /\ IsSequence(entries) /\ DistinctIds(entries)
       /\ ClassIds \subseteq ids => \A i \in DOMAIN entries : entries[i].id = IntId(i - 1)
       /\ \A class, l : LabelOf(class, l) => Fits(entries, l)
  BY <1>6, <1>8, <1>9
<1>11. QED BY <1>10 DEF entries

LEMMA ClassIdFacts == \A class \in ClassIds : class \in Int /\ IsCategory(IntId(class))
<1>1. ClassIds \subseteq Int
  BY DEF ClassIds, Classes
<1>2. QED BY <1>1, CategoryFacts

LEMMA VdRowsOfFacts ==
  ASSUME NEW root, IsVdRoot(root), NEW p
  PROVE  /\ IsSequence(VdRowsOf(root, p))
         /\ \A i \in DOMAIN VdRowsOf(root, p) : VdRowsOf(root, p)[i].class \in ClassIds
<1> DEFINE rows == root.rows[RowsPath(p)]
           parts == [i \in DOMAIN rows |-> IF Area(rows[i].box) /\ rows[i].class \in ClassIds THEN <<rows[i]>> ELSE <<>>]
           item == [i \in DOMAIN rows |-> rows[i]]
           kept == FlattenSeq(parts)
           there == VdRowsOf(root, p)
<1>1. there = <<>> \/ (RowsPath(p) \in DOMAIN root.rows /\ there = kept)
  BY DEF VdRowsOf, VdLabels, Keep, Collect
<1>2. RowsPath(p) \in DOMAIN root.rows => IsSequence(rows)
  BY DEF IsVdRoot, IsLabels
<1> HIDE DEF rows, there
<1>3. /\ parts = [i \in DOMAIN rows |-> parts[i]]
      /\ \A i \in DOMAIN rows : parts[i] = <<>> \/ parts[i] = <<item[i]>>
      /\ \A i \in DOMAIN rows : parts[i] # <<>> => item[i].class \in ClassIds
  OBVIOUS
<1> HIDE DEF parts, item
<1>4. ASSUME IsSequence(rows)
      PROVE  IsSequence(kept) /\ \A j \in DOMAIN kept : \E i \in DOMAIN rows : kept[j] = item[i] /\ parts[i] # <<>>
  BY <1>3, <1>4, CollectFacts
<1> HIDE DEF kept
<1>5. IsSequence(rows) => IsSequence(kept) /\ \A j \in DOMAIN kept : kept[j].class \in ClassIds
  BY <1>3, <1>4
<1>6. IsSequence(there) /\ \A i \in DOMAIN there : there[i].class \in ClassIds
  BY <1>1, <1>2, <1>5, EmptyFacts
<1>7. QED BY <1>6 DEF there

LEMMA VdSplitsFinite ==
  ASSUME NEW root, IsVdRoot(root)
  PROVE  IsFiniteSet(VdSplitRoots(root))
<1> DEFINE first == [p \in DOMAIN root.images |-> p.dir[1]]
           all == {first[p] : p \in DOMAIN root.images}
<1>1. VdSplitRoots(root) \subseteq all
  BY DEF VdSplitRoots
<1>2. IsFiniteSet(all)
  <2> HIDE DEF first
  <2>1. QED BY FiniteImage DEF IsVdRoot, IsImages
<1> HIDE DEF all
<1>3. QED BY <1>1, <1>2, FS_Subset

LEMMA VdPathFacts ==
  ASSUME NEW root, IsVdRoot(root)
  PROVE  IsSequence(VdPaths(root)) /\ \A i \in DOMAIN VdPaths(root) : IsName(VdPaths(root)[i])
<1> DEFINE order == VdSplitOrder
           parts == [k \in DOMAIN order |-> IF order[k] \in VdSplitRoots(root) THEN InOrder(VdImages(root, order[k])) ELSE <<>>]
           paths == VdPaths(root)
<1>1. paths = FlattenSeq(parts)
  BY DEF VdPaths
<1>2. IsSequence(parts) /\ DOMAIN parts = DOMAIN order
  <2> DEFINE n == Len(order)
  <2>1. n \in Nat /\ DOMAIN order = 1 .. n
    BY DEF VdSplitOrder
  <2>2. parts = [k \in 1 .. n |-> parts[k]]
    BY <2>1
  <2> HIDE DEF parts, n, order
  <2>3. parts \in Seq({parts[i] : i \in DOMAIN parts})
    BY <2>1, <2>2
  <2>4. QED BY <2>1, <2>2, <2>3 DEF IsSequence
<1>3. \A k \in DOMAIN order : IsSequence(parts[k]) /\ \A m \in DOMAIN parts[k] : IsName(parts[k][m])
  <2>1. \A s : IsFiniteSet(VdImages(root, s)) /\ VdImages(root, s) \subseteq DOMAIN root.images
    BY FS_Subset DEF VdImages, IsVdRoot, IsImages
  <2>2. \A s : IsSequence(InOrder(VdImages(root, s))) /\ \A m \in DOMAIN InOrder(VdImages(root, s)) : IsName(InOrder(VdImages(root, s))[m])
    BY <2>1, InOrderFacts DEF IsVdRoot, IsImages
  <2>3. \A k \in DOMAIN order : parts[k] = <<>> \/ parts[k] = InOrder(VdImages(root, order[k]))
    OBVIOUS
  <2> HIDE DEF parts, order
  <2>4. QED BY <2>2, <2>3, EmptyFacts
<1> HIDE DEF parts, order, paths
<1>4. Concatenates(paths, parts)
  BY <1>1, <1>2, <1>3, FlattenFacts
<1>5. IsSequence(paths) /\ \A i \in DOMAIN paths : IsName(paths[i])
  BY <1>2, <1>3, <1>4 DEF Concatenates
<1>6. QED BY <1>5 DEF paths

AllFit(entries, labels) == \A i \in DOMAIN labels : Fits(entries, labels[i])

LEMMA EmptyDatasetFacts ==
  ASSUME NEW task, task # "mot"
  PROVE  DatasetOK(EmptyDataset(task)) /\ EmptyDataset(task).task = task /\ TaxonomyOK(EmptyDataset(task))
<1> DEFINE ds == EmptyDataset(task)
<1>1. ds.task = task /\ ds.samples = <<>> /\ ds.entries = <<>> /\ ds.splits = {} /\ ds.dense = FALSE
  BY DEF EmptyDataset, Dataset
<1> HIDE DEF ds
<1>2. IsDataset(ds) /\ DOMAIN ds.samples = {}
  BY <1>1, EmptyFacts, FS_EmptySet DEF IsDataset
<1>3. DatasetOK(ds)
  BY <1>1, <1>2 DEF DatasetOK
<1>4. TaxonomyOK(ds)
  BY <1>1, EmptyFacts DEF TaxonomyOK, DistinctIds
<1>5. QED BY <1>1, <1>3, <1>4 DEF ds

LEMMA VdLoadOdFacts ==
  ASSUME NEW root, IsVdRoot(root)
  PROVE  DatasetOK(VdLoadOd(root)) /\ TaxonomyOK(VdLoadOd(root))
<1> DEFINE Dets(p) == [i \in DOMAIN VdRowsOf(root, p) |-> VdDetection(VdRowsOf(root, p)[i])]
           Sample(p) == [id |-> StrId(VdId(root, p)), name |-> BaseName(p), path |-> Below(<<"vd">>, p),
                         image |-> root.images[p], dims |-> FALSE, split |-> p.dir[1], dets |-> Dets(p)]
           paths == VdPaths(root)
           samples == [i \in DOMAIN paths |-> Sample(paths[i])]
           ds == Dataset("od", samples, FixedEntries(ClassIds), TRUE, VdSplitRoots(root))
           loaded == VdLoadOd(root)
<1>1. loaded \in {EmptyDataset("od"), ds}
  BY DEF VdLoadOd
<1>2. IsSequence(paths) /\ \A i \in DOMAIN paths : IsName(paths[i])
  BY VdPathFacts
<1> HIDE DEF loaded, paths
<1>3. \A p : IsDetections(Dets(p)) /\ AllFit(FixedEntries(ClassIds), Dets(p))
  <2>1. ASSUME NEW p PROVE IsDetections(Dets(p)) /\ AllFit(FixedEntries(ClassIds), Dets(p))
    <3> DEFINE rows == VdRowsOf(root, p)
               dets == Dets(p)
    <3>1. IsSequence(rows) /\ \A i \in DOMAIN rows : rows[i].class \in ClassIds
      BY VdRowsOfFacts
    <3>2. /\ dets = [i \in DOMAIN rows |-> dets[i]]
          /\ \A i \in DOMAIN rows : /\ dets[i].id = None /\ dets[i].cat = IntId(rows[i].class)
                                    /\ dets[i].src = IntId(rows[i].class) /\ dets[i].name = Classes[rows[i].class + 1]
      BY DEF VdDetection
    <3>3. IsId(None)
      BY DEF IsId, IsInt, None
    <3> HIDE DEF rows, dets
    <3>4. IsSequence(dets) /\ DOMAIN dets = DOMAIN rows
      BY <3>1, <3>2, MapFacts
    <3>5. IsDetections(dets)
      BY <3>1, <3>2, <3>3, <3>4, ClassIdFacts DEF IsDetections
    <3>6. \A i \in DOMAIN rows : LabelOf(rows[i].class, dets[i])
      BY <3>1, <3>2 DEF LabelOf
    <3>7. AllFit(FixedEntries(ClassIds), dets)
      BY <3>4, <3>6, FixedEntryFacts DEF AllFit
    <3>8. QED BY <3>5, <3>7 DEF dets
  <2>2. QED BY <2>1
<1> HIDE DEF Dets
<1>4. /\ samples = [i \in DOMAIN paths |-> samples[i]]
      /\ \A i \in DOMAIN paths :
            /\ samples[i].id = StrId(VdId(root, paths[i])) /\ samples[i].name = BaseName(paths[i])
            /\ samples[i].path = Below(<<"vd">>, paths[i]) /\ samples[i].dets = Dets(paths[i])
  OBVIOUS
<1> HIDE DEF samples
<1>5. IsSequence(samples) /\ DOMAIN samples = DOMAIN paths
  BY <1>2, <1>4, MapFacts
<1>6. /\ ds.task = "od" /\ ds.samples = samples /\ ds.entries = FixedEntries(ClassIds)
      /\ ds.splits = VdSplitRoots(root)
  BY DEF Dataset
<1> HIDE DEF ds
<1>7. \A i \in DOMAIN paths : IsName(BaseName(paths[i])) /\ IsName(Below(<<"vd">>, paths[i]))
  BY <1>2, BaseNameFacts, BelowFacts
<1>8. IsSequence(ds.entries) /\ IsFiniteSet(ds.splits)
  BY <1>6, FixedEntryFacts, VdSplitsFinite
<1>9. \A x : IsId(StrId(x))
  BY DEF IsId, IsInt, StrId
<1>10. IsDataset(ds)
  BY <1>4, <1>5, <1>6, <1>7, <1>8 DEF IsDataset
<1>11. \A i \in DOMAIN ds.samples : IsId(ds.samples[i].id) /\ IsDetections(ds.samples[i].dets)
  BY <1>3, <1>4, <1>5, <1>6, <1>9
<1>12. DatasetOK(ds)
  BY <1>6, <1>10, <1>11 DEF DatasetOK
<1>13. TaxonomyOK(ds)
  <2>1. DistinctIds(ds.entries) /\ \A i \in DOMAIN ds.entries : ds.entries[i].id = IntId(i - 1)
    BY <1>6, FixedEntryFacts
  <2>2. \A i \in DOMAIN ds.samples : AllFit(ds.entries, ds.samples[i].dets)
    BY <1>3, <1>4, <1>5, <1>6
  <2>3. QED BY <1>6, <2>1, <2>2 DEF TaxonomyOK, AllFit
<1>14. DatasetOK(loaded) /\ TaxonomyOK(loaded)
  BY <1>1, <1>12, <1>13, EmptyDatasetFacts
<1>15. QED BY <1>14 DEF loaded

LEMMA VdLoadIcFacts ==
  ASSUME NEW root, IsVdRoot(root), NEW ignored
  PROVE  DatasetOK(VdLoadIc(root, ignored)) /\ TaxonomyOK(VdLoadIc(root, ignored))
<1> DEFINE Rows(p) == VdRowsOf(root, p)
           Crop(p, i) ==
             [id |-> StrId(<<VdId(root, p), i>>), name |-> BaseName(p), path |-> Below(<<"vd">>, p),
              image |-> root.images[p], dims |-> TRUE, split |-> p.dir[1], region |-> TRUE,
              box |-> Rows(p)[i].box,
              labels |-> <<[cat |-> IntId(Rows(p)[i].class), src |-> IntId(Rows(p)[i].class),
                            name |-> Classes[Rows(p)[i].class + 1], fixed |-> IntId(Rows(p)[i].class)]>>]
           Places(p) == [i \in DOMAIN Rows(p) |-> i]
           Part(p, i) == IF Rows(p)[i].class = 0 /\ ~ignored THEN <<>> ELSE <<Crop(p, i)>>
           Crops(p) == Collect(Places(p), LAMBDA i : Part(p, i))
           paths == VdPaths(root)
           parts == [k \in DOMAIN paths |-> Crops(paths[k])]
           samples == FlattenSeq(parts)
           ids == IF ignored THEN ClassIds ELSE ClassIds \ {0}
           ds == Dataset("ic", samples, FixedEntries(ids), ignored, VdSplitRoots(root))
           loaded == VdLoadIc(root, ignored)
<1>1. loaded \in {EmptyDataset("ic"), ds}
  <2>1. samples = Collect(paths, Crops)
    BY DEF Collect
  <2> HIDE DEF samples
  <2>2. QED BY <2>1 DEF VdLoadIc
<1>2. IsSequence(paths) /\ \A i \in DOMAIN paths : IsName(paths[i])
  BY VdPathFacts
<1> HIDE DEF loaded, paths
<1>3. ASSUME NEW p, IsName(p)
      PROVE  /\ IsSequence(Crops(p))
             /\ \A m \in DOMAIN Crops(p) : /\ IsName(Crops(p)[m].name) /\ IsName(Crops(p)[m].path)
                                           /\ AllFit(FixedEntries(ids), Crops(p)[m].labels)
  <2> DEFINE places == Places(p)
             some == [i \in DOMAIN places |-> Part(p, places[i])]
             item == [i \in DOMAIN places |-> Crop(p, places[i])]
             crops == Crops(p)
  <2>1. crops = FlattenSeq(some)
    <3> HIDE DEF Part, Places
    <3>1. QED BY DEF Collect
  <2>2. IsSequence(places)
    <3> DEFINE rows == Rows(p)
    <3>1. IsSequence(rows)
      BY VdRowsOfFacts
    <3>2. places = [i \in DOMAIN rows |-> places[i]]
      OBVIOUS
    <3> HIDE DEF rows, places
    <3>3. QED BY <3>1, <3>2, MapFacts
  <2>3. /\ some = [i \in DOMAIN places |-> some[i]]
        /\ \A i \in DOMAIN places : some[i] = <<>> \/ some[i] = <<item[i]>>
    <3> HIDE DEF Crop, places
    <3>1. QED OBVIOUS
  <2>4. \A i \in DOMAIN places : item[i].name = BaseName(p) /\ item[i].path = Below(<<"vd">>, p)
    <3> HIDE DEF places
    <3>1. QED OBVIOUS
  <2> DEFINE class == [i \in DOMAIN places |-> Rows(p)[i].class]
             label == [i \in DOMAIN places |-> [cat |-> IntId(class[i]), src |-> IntId(class[i]),
                                                name |-> Classes[class[i] + 1], fixed |-> IntId(class[i])]]
  <2>5. ASSUME NEW i \in DOMAIN places PROVE AllFit(FixedEntries(ids), item[i].labels)
    <3> DEFINE l == label[i]
               one == <<l>>
    <3>1. item[i].labels = one /\ l.cat = IntId(class[i]) /\ l.name = Classes[class[i] + 1] /\ class[i] = Rows(p)[i].class
      OBVIOUS
    <3>2. i \in DOMAIN Rows(p)
      OBVIOUS
    <3>3. class[i] \in ClassIds
      <4> HIDE DEF class
      <4>1. QED BY <3>1, <3>2, VdRowsOfFacts
    <3> HIDE DEF item, label, class, l, ids
    <3>4. Fits(FixedEntries(ids), l)
      BY <3>1, <3>3, FixedEntryFacts DEF LabelOf
    <3>5. \A j \in DOMAIN one : one[j] = l
      BY SingleFacts
    <3> HIDE DEF one
    <3>6. AllFit(FixedEntries(ids), one)
      BY <3>4, <3>5 DEF AllFit
    <3>7. QED BY <3>1, <3>6
  <2> HIDE DEF crops, some, item, places, ids
  <2>6. IsSequence(crops) /\ \A m \in DOMAIN crops : \E i \in DOMAIN places : crops[m] = item[i]
    BY <2>1, <2>2, <2>3, CollectFacts
  <2>7. IsName(BaseName(p)) /\ IsName(Below(<<"vd">>, p))
    BY <1>3, BaseNameFacts, BelowFacts
  <2>8. \A m \in DOMAIN crops : /\ IsName(crops[m].name) /\ IsName(crops[m].path)
                                 /\ AllFit(FixedEntries(ids), crops[m].labels)
    BY <2>4, <2>5, <2>6, <2>7
  <2>9. QED BY <2>6, <2>8 DEF crops
<1> HIDE DEF Crops, ids
<1>4. IsSequence(parts) /\ DOMAIN parts = DOMAIN paths /\ \A k \in DOMAIN paths : parts[k] = Crops(paths[k])
  <2>1. parts = [k \in DOMAIN paths |-> parts[k]] /\ \A k \in DOMAIN paths : parts[k] = Crops(paths[k])
    OBVIOUS
  <2> HIDE DEF parts
  <2>2. QED BY <1>2, <2>1, MapFacts
<1> HIDE DEF parts, samples
<1>5. Concatenates(samples, parts)
  BY <1>2, <1>3, <1>4, FlattenFacts DEF samples
<1>6. /\ IsSequence(samples)
      /\ \A i \in DOMAIN samples : /\ IsName(samples[i].name) /\ IsName(samples[i].path)
                                   /\ AllFit(FixedEntries(ids), samples[i].labels)
  BY <1>2, <1>3, <1>4, <1>5 DEF Concatenates
<1>7. /\ ds.task = "ic" /\ ds.samples = samples /\ ds.entries = FixedEntries(ids)
      /\ ds.splits = VdSplitRoots(root) /\ ds.dense = ignored
  BY DEF Dataset
<1>8. ignored => ClassIds \subseteq ids
  BY DEF ids
<1> HIDE DEF ds
<1>9. IsDataset(ds)
  BY <1>6, <1>7, FixedEntryFacts, VdSplitsFinite DEF IsDataset
<1>10. DatasetOK(ds)
  BY <1>7, <1>9 DEF DatasetOK
<1>11. TaxonomyOK(ds)
  <2>1. DistinctIds(ds.entries) /\ (ignored => \A i \in DOMAIN ds.entries : ds.entries[i].id = IntId(i - 1))
    BY <1>7, <1>8, FixedEntryFacts
  <2>2. \A i \in DOMAIN ds.samples : AllFit(ds.entries, ds.samples[i].labels)
    BY <1>6, <1>7
  <2>3. QED BY <1>7, <2>1, <2>2 DEF TaxonomyOK, AllFit
<1>12. DatasetOK(loaded) /\ TaxonomyOK(loaded)
  BY <1>1, <1>10, <1>11, EmptyDatasetFacts
<1>13. QED BY <1>12 DEF loaded

\* The loader of COCO: the categories are a list with one per id, an annotation has the id it has in
\* the document and the name of its category.
CategoriesTurn(acc, c, p, q, r, t) ==
  IF IsInt(c.id) /\ c.name # "" /\ BySourceId(acc, c.id) = 0 THEN Append(acc, c) ELSE acc
CategoriesInv(k, a, p, q, r, t) == IsSequence(a) /\ DistinctIds(a)
CategoriesLoop == INSTANCE Loops WITH Body <- CategoriesTurn, Inv <- CategoriesInv, Free <- NotIn, Counted <- Candidate

LEMMA CategoryAdded ==
  ASSUME NEW a, IsSequence(a), DistinctIds(a), NEW c
  PROVE  CategoriesInv(0, CategoriesTurn(a, c, 0, 0, 0, 0), 0, 0, 0, 0)
<1> DEFINE all == Append(a, c)
           n == Len(a)
<1>1. CASE BySourceId(a, c.id) = 0
  <2>1. \A k \in DOMAIN a : a[k].id # c.id
    BY <1>1, SourceEntryFacts
  <2>2. n \in Nat /\ DOMAIN a = 1 .. n
    BY SequenceFacts
  <2>3. IsSequence(all) /\ DOMAIN all = 1 .. n + 1 /\ all[n + 1] = c /\ \A k \in 1 .. n : all[k] = a[k]
    BY AppendFacts
  <2> HIDE DEF all, n
  <2>4. \A k \in DOMAIN all : k # n + 1 => k \in DOMAIN a /\ all[k] = a[k]
    BY <2>2, <2>3
  <2>5. ASSUME NEW j \in DOMAIN all, NEW k \in DOMAIN all, all[j].id = all[k].id PROVE j = k
    BY <2>1, <2>3, <2>4, <2>5 DEF DistinctIds
  <2>6. DistinctIds(all)
    BY <2>5 DEF DistinctIds
  <2>7. CategoriesTurn(a, c, 0, 0, 0, 0) \in {a, all}
    BY DEF CategoriesTurn, all
  <2>8. QED BY <2>3, <2>6, <2>7 DEF CategoriesInv
<1>2. CASE BySourceId(a, c.id) # 0
  BY <1>2 DEF CategoriesTurn, CategoriesInv
<1>3. QED BY <1>1, <1>2

LEMMA CategoriesFacts ==
  ASSUME NEW cats, IsSequence(cats)
  PROVE  IsSequence(Categories(cats)) /\ DistinctIds(Categories(cats))
<1> DEFINE done == CategoriesLoop!Loop(<<>>, cats, 0, 0, 0, 0)
           n == Len(cats)
<1>1. n \in Nat /\ DOMAIN cats = 1 .. n
  BY SequenceFacts
<1>2. Categories(cats) = done
  BY DEF Categories, CategoriesTurn, CategoriesLoop!Loop, FoldLeft, MapThenFoldSet,
         CategoriesLoop!FoldLeft, CategoriesLoop!MapThenFoldSet, Max, CategoriesLoop!Max
<1>3. CategoriesLoop!Keeps(cats, 0, 0, 0, 0)
  <2>1. QED BY CategoryAdded DEF CategoriesLoop!Keeps, CategoriesInv
<1>4. CategoriesInv(0, <<>>, 0, 0, 0, 0)
  BY EmptyFacts DEF CategoriesInv, DistinctIds
<1> HIDE DEF n
<1>5. CategoriesInv(n, CategoriesLoop!Loop(<<>>, cats, 0, 0, 0, 0), 0, 0, 0, 0)
  BY <1>1, <1>3, <1>4, CategoriesLoop!LoopInvariant
<1>6. QED BY <1>2, <1>5 DEF CategoriesInv

AreAnnotations(anns) == IsSequence(anns) /\ \A i \in DOMAIN anns : IsId(anns[i].id) /\ IsCategory(anns[i].cat)

LEMMA AnnotationsOfFacts ==
  ASSUME NEW image, NEW anns, AreAnnotations(anns), NEW entries
  PROVE  IsDetections(AnnotationsOf(image, anns, entries)) /\ AllFit(entries, AnnotationsOf(image, anns, entries))
<1> DEFINE Cat(a) == IF IsInt(a.cat) THEN a.cat ELSE None
           Declared(a) == BySourceId(entries, Cat(a))
           Det(a) == [id |-> a.id, cat |-> Cat(a), src |-> Cat(a), box |-> a.box, score |-> FALSE,
                      name |-> IF Declared(a) = 0 THEN "" ELSE entries[Declared(a)].name, fixed |-> None]
           Part(a) == IF a.image = image /\ Area(a.box) THEN <<Det(a)>> ELSE <<>>
           parts == [i \in DOMAIN anns |-> Part(anns[i])]
           item == [i \in DOMAIN anns |-> Det(anns[i])]
           dets == AnnotationsOf(image, anns, entries)
<1>1. dets = FlattenSeq(parts)
  BY DEF AnnotationsOf, Collect
<1>2. /\ parts = [i \in DOMAIN anns |-> parts[i]]
      /\ \A i \in DOMAIN anns : parts[i] = <<>> \/ parts[i] = <<item[i]>>
  <2> HIDE DEF Det
  <2>1. QED OBVIOUS
<1>3. ASSUME NEW i \in DOMAIN anns
      PROVE  /\ IsId(item[i].id) /\ IsCategory(item[i].cat) /\ IsCategory(item[i].src)
             /\ Fits(entries, item[i])
  <2> DEFINE cat == Cat(anns[i])
             declared == BySourceId(entries, cat)
  <2>1. IsCategory(cat)
    BY CategoryFacts DEF AreAnnotations
  <2>2. /\ item[i].id = anns[i].id /\ item[i].cat = cat /\ item[i].src = cat
        /\ declared # 0 => item[i].name = entries[declared].name
    OBVIOUS
  <2>3. IsId(anns[i].id)
    BY DEF AreAnnotations
  <2> HIDE DEF item, cat
  <2>4. Fits(entries, item[i])
    BY <2>2 DEF Fits
  <2>5. QED BY <2>1, <2>2, <2>3, <2>4
<1>4. IsSequence(anns)
  BY DEF AreAnnotations
<1> HIDE DEF parts, item, dets
<1>5. IsSequence(dets) /\ \A m \in DOMAIN dets : \E i \in DOMAIN anns : dets[m] = item[i]
  <2>1. parts = [i \in DOMAIN anns |-> parts[i]]
    BY <1>2
  <2>2. \A i \in DOMAIN anns : parts[i] = <<>> \/ parts[i] = <<item[i]>>
    BY <1>2
  <2>3. /\ IsSequence(FlattenSeq(parts))
        /\ \A m \in DOMAIN FlattenSeq(parts) :
              \E i \in DOMAIN anns : FlattenSeq(parts)[m] = item[i] /\ parts[i] # <<>>
    BY <1>4, <2>1, <2>2, CollectFacts, SMTT(60)
  <2>4. QED BY <1>1, <2>3
<1>6. IsDetections(dets) /\ AllFit(entries, dets)
  BY <1>3, <1>5 DEF IsDetections, AllFit
<1>7. QED BY <1>6 DEF dets

LEMMA SampleFacts ==
  ASSUME NEW root, IsCocoRoot(root), NEW entries, NEW samples, samples = Samples(root, entries)
  PROVE  /\ IsSequence(samples)
         /\ \A i \in DOMAIN samples : /\ IsName(samples[i].name) /\ IsName(samples[i].path)
                                      /\ IsId(samples[i].id) /\ IsDetections(samples[i].dets)
                                      /\ AllFit(entries, samples[i].dets)
<1> DEFINE images == root.images
           some == [i \in DOMAIN images |-> IF IsInt(images[i].id) /\ images[i].name # NoName THEN <<images[i]>> ELSE <<>>]
           usable == FlattenSeq(some)
           First(i) == \A j \in 1 .. i - 1 : usable[j].id # usable[i].id
           Sample(im) == [id |-> im.id, name |-> im.name, split |-> "", dims |-> im.dims,
                          path |-> IF Safe(im.name) THEN Below(<<"coco">>, im.name) ELSE NoName,
                          image |-> ImageAt(im.name, root.files),
                          dets |-> AnnotationsOf(im.id, root.annotations, entries)]
           parts == [i \in DOMAIN usable |-> IF First(i) THEN <<Sample(usable[i])>> ELSE <<>>]
           item == [i \in DOMAIN usable |-> Sample(usable[i])]
<1>1. samples = FlattenSeq(parts)
  BY DEF Samples, Keep, Collect
<1>2. IsSequence(images) /\ \A i \in DOMAIN images : IsName(images[i].name) /\ IsId(images[i].id)
  BY DEF IsCocoRoot
<1> HIDE DEF images
<1>3. /\ some = [i \in DOMAIN images |-> some[i]]
      /\ \A i \in DOMAIN images : some[i] = <<>> \/ some[i] = <<images[i]>>
  OBVIOUS
<1> HIDE DEF some
<1>4. IsSequence(usable) /\ \A m \in DOMAIN usable : \E i \in DOMAIN images : usable[m] = images[i]
  <2> HIDE DEF usable
  <2>1. QED BY <1>2, <1>3, CollectFacts DEF usable
<1> HIDE DEF usable
<1>5. \A i \in DOMAIN usable : IsName(usable[i].name) /\ IsId(usable[i].id)
  BY <1>2, <1>4
<1>6. /\ parts = [i \in DOMAIN usable |-> parts[i]]
      /\ \A i \in DOMAIN usable : parts[i] = <<>> \/ parts[i] = <<item[i]>>
  <2> HIDE DEF Sample, First
  <2>1. QED OBVIOUS
<1>7. ASSUME NEW i \in DOMAIN usable
      PROVE  /\ IsName(item[i].name) /\ IsName(item[i].path) /\ IsId(item[i].id)
             /\ IsDetections(item[i].dets) /\ AllFit(entries, item[i].dets)
  <2> DEFINE dets == AnnotationsOf(usable[i].id, root.annotations, entries)
  <2>1. IsDetections(dets) /\ AllFit(entries, dets) /\ item[i].dets = dets
    BY AnnotationsOfFacts DEF IsCocoRoot, AreAnnotations
  <2>2. item[i].path \in {Below(<<"coco">>, usable[i].name), NoName}
    OBVIOUS
  <2>3. IsName(item[i].path)
    <3> HIDE DEF item
    <3>1. QED BY <1>5, <2>2, BelowFacts, NoNameFacts
  <2>4. QED BY <1>5, <2>1, <2>3
<1> HIDE DEF parts, item
<1>8. IsSequence(samples) /\ \A m \in DOMAIN samples : \E i \in DOMAIN usable : samples[m] = item[i]
  BY <1>1, <1>4, <1>6, CollectFacts
<1>9. QED BY <1>7, <1>8

LEMMA CocoLoadFacts ==
  ASSUME NEW root, IsCocoRoot(root)
  PROVE  DatasetOK(CocoLoad(root)) /\ TaxonomyOK(CocoLoad(root))
<1> DEFINE entries == Categories(root.categories)
           samples == Samples(root, entries)
           ds == CocoLoad(root)
<1>1. ds = Dataset("od", samples, entries, FALSE, {})
  BY DEF CocoLoad
<1>2. IsSequence(entries) /\ DistinctIds(entries)
  BY CategoriesFacts DEF IsCocoRoot
<1> HIDE DEF ds, entries, samples
<1>3. ds.task = "od" /\ ds.samples = samples /\ ds.entries = entries /\ ds.splits = {} /\ ds.dense = FALSE
  BY <1>1 DEF Dataset
<1>4. /\ IsSequence(samples)
      /\ \A i \in DOMAIN samples : /\ IsName(samples[i].name) /\ IsName(samples[i].path)
                                   /\ IsId(samples[i].id) /\ IsDetections(samples[i].dets)
                                   /\ AllFit(entries, samples[i].dets)
  BY SampleFacts DEF samples
<1>5. DatasetOK(ds)
  BY <1>2, <1>3, <1>4, FS_EmptySet DEF DatasetOK, IsDataset
<1>6. TaxonomyOK(ds)
  BY <1>2, <1>3, <1>4 DEF TaxonomyOK, AllFit
<1>7. QED BY <1>5, <1>6 DEF ds

-----------------------------------------------------------------------------
(* TAO. *)

\* The document that is being built.
BuilderFields == {"videos", "images", "tracks", "annotations", "keys", "videoIds", "imageIds", "trackIds", "annotationIds"}
BuilderOK(b) ==
  /\ BuilderFields \subseteq DOMAIN b
  /\ IsSequence(b.videos) /\ \A i \in DOMAIN b.videos : b.videos[i].fps \in Int
  /\ IsSequence(b.images) /\ \A i \in DOMAIN b.images : b.images[i].index \in Int
  /\ IsSequence(b.annotations)

LEMMA NewBuilderFacts == BuilderOK(NewBuilder)
BY EmptyFacts DEF BuilderOK, BuilderFields, NewBuilder

LEMMA OneMore ==
  ASSUME NEW s, IsSequence(s), NEW v
  PROVE  /\ IsSequence(Append(s, v))
         /\ \A i \in DOMAIN Append(s, v) : (i \in DOMAIN s /\ Append(s, v)[i] = s[i]) \/ Append(s, v)[i] = v
<1> DEFINE n == Len(s)
           t == Append(s, v)
<1>1. /\ IsSequence(t) /\ DOMAIN t = 1 .. n + 1 /\ t[n + 1] = v
      /\ n \in Nat /\ DOMAIN s = 1 .. n /\ \A i \in 1 .. n : t[i] = s[i]
  BY AppendFacts, SequenceFacts
<1> HIDE DEF n, t
<1>2. \A i \in DOMAIN t : i = n + 1 \/ i \in 1 .. n
  BY <1>1
<1>3. IsSequence(t) /\ \A i \in DOMAIN t : (i \in DOMAIN s /\ t[i] = s[i]) \/ t[i] = v
  BY <1>1, <1>2
<1>4. QED BY <1>3 DEF t

LEMMA BuilderWith ==
  ASSUME NEW b, BuilderOK(b), NEW c, DOMAIN c = DOMAIN b,
         c.videos = b.videos \/ \E v : c.videos = Append(b.videos, v) /\ v.fps \in Int,
         c.images = b.images \/ \E v : c.images = Append(b.images, v) /\ v.index \in Int,
         c.annotations = b.annotations \/ \E v : c.annotations = Append(b.annotations, v)
  PROVE  BuilderOK(c)
<1>1. IsSequence(c.videos) /\ \A i \in DOMAIN c.videos : c.videos[i].fps \in Int
  <2> DEFINE s == b.videos
             t == c.videos
  <2>1. IsSequence(s) /\ \A i \in DOMAIN s : s[i].fps \in Int
    BY DEF BuilderOK
  <2>2. t = s \/ \E v : t = Append(s, v) /\ v.fps \in Int
    OBVIOUS
  <2> HIDE DEF s, t
  <2>3. IsSequence(t) /\ \A i \in DOMAIN t : t[i].fps \in Int
    <3>1. CASE t = s
      BY <2>1, <3>1
    <3>2. ASSUME NEW v, t = Append(s, v), v.fps \in Int PROVE IsSequence(t) /\ \A i \in DOMAIN t : t[i].fps \in Int
      <4> DEFINE more == Append(s, v)
      <4>1. IsSequence(more) /\ \A i \in DOMAIN more : (i \in DOMAIN s /\ more[i] = s[i]) \/ more[i] = v
        BY <2>1, OneMore
      <4> HIDE DEF more
      <4>2. t = more
        BY <3>2 DEF more
      <4>3. QED BY <2>1, <3>2, <4>1, <4>2
    <3>3. QED BY <2>2, <3>1, <3>2
  <2>4. QED BY <2>3 DEF t
<1>2. IsSequence(c.images) /\ \A i \in DOMAIN c.images : c.images[i].index \in Int
  <2> DEFINE s == b.images
             t == c.images
  <2>1. IsSequence(s) /\ \A i \in DOMAIN s : s[i].index \in Int
    BY DEF BuilderOK
  <2>2. t = s \/ \E v : t = Append(s, v) /\ v.index \in Int
    OBVIOUS
  <2> HIDE DEF s, t
  <2>3. IsSequence(t) /\ \A i \in DOMAIN t : t[i].index \in Int
    <3>1. CASE t = s
      BY <2>1, <3>1
    <3>2. ASSUME NEW v, t = Append(s, v), v.index \in Int PROVE IsSequence(t) /\ \A i \in DOMAIN t : t[i].index \in Int
      <4> DEFINE more == Append(s, v)
      <4>1. IsSequence(more) /\ \A i \in DOMAIN more : (i \in DOMAIN s /\ more[i] = s[i]) \/ more[i] = v
        BY <2>1, OneMore
      <4> HIDE DEF more
      <4>2. t = more
        BY <3>2 DEF more
      <4>3. QED BY <2>1, <3>2, <4>1, <4>2
    <3>3. QED BY <2>2, <3>1, <3>2
  <2>4. QED BY <2>3 DEF t
<1>3. IsSequence(c.annotations)
  <2> DEFINE s == b.annotations
             t == c.annotations
  <2>1. IsSequence(s) /\ (t = s \/ \E v : t = Append(s, v))
    BY DEF BuilderOK
  <2> HIDE DEF s, t
  <2>2. \A v : IsSequence(Append(s, v))
    BY <2>1, OneMore
  <2>3. IsSequence(t)
    BY <2>1, <2>2
  <2>4. QED BY <2>3 DEF t
<1>4. QED BY <1>1, <1>2, <1>3 DEF BuilderOK

ImageTurn(a, f, seq, split, video, t) == AddImage(a, seq, split, video, f)
ImageInv(k, a, p, q, r, t) == BuilderOK(a.builder)
ImageLoop == INSTANCE Loops WITH Body <- ImageTurn, Inv <- ImageInv, Free <- NotIn, Counted <- Candidate

LEMMA ImageTurnFacts ==
  ASSUME NEW a, BuilderOK(a.builder), NEW f \in Int, NEW seq, NEW split, NEW video
  PROVE  BuilderOK(AddImage(a, seq, split, video, f).builder)
<1> DEFINE b == a.builder
           taken == Allocate(b.imageIds, PreferredImage(seq, f))
           file == FrameFile(seq, split, video, f)
           row == [id |-> taken.id, video |-> video, file |-> file, index |-> f]
           c == [b EXCEPT !.imageIds = taken, !.images = Append(@, row)]
<1>1. AddImage(a, seq, split, video, f).builder = c
  BY DEF AddImage
<1>2. row.index = f
  OBVIOUS
<1> HIDE DEF taken, row
<1>3. DOMAIN c = DOMAIN b /\ c.videos = b.videos /\ c.images = Append(b.images, row) /\ c.annotations = b.annotations
  BY DEF BuilderOK, BuilderFields
<1> HIDE DEF c, b
<1>4. BuilderOK(b)
  BY DEF b
<1>5. QED BY <1>1, <1>2, <1>3, <1>4, BuilderWith

TaoAnnotationTurn(b, box, number, video, images, categories) == AddAnnotation(b, number, box, video, images, categories)
TaoAnnotationInv(k, b, p, q, r, t) == BuilderOK(b)
TaoAnnotationLoop == INSTANCE Loops WITH Body <- TaoAnnotationTurn, Inv <- TaoAnnotationInv, Free <- NotIn, Counted <- Candidate

LEMMA AnnotationTurnFacts ==
  ASSUME NEW b, BuilderOK(b), NEW box, NEW number, NEW video, NEW images, NEW categories
  PROVE  BuilderOK(AddAnnotation(b, number, box, video, images, categories))
<1> DEFINE category == categories[CategoryKey(box.uri, box.cat, box.name)]
           track == TrackTaken(b, number, box)
           taken == Allocate(b.annotationIds, Attr(box, "tao_annotation_id", NoId))
           known == \E i \in DOMAIN b.tracks : b.tracks[i].id = track.id
           keys == Put(b.keys, TrackKey(number, box), track.id)
           row == [id |-> taken.id, image |-> images[box.frame], track |-> track.id,
                   category |-> category, bbox |-> box.bbox, attrs |-> Carried(box.attrs)]
           trackRow == [id |-> track.id, video |-> video, category |-> category]
           c == [b EXCEPT !.keys = keys, !.trackIds = track,
                          !.tracks = IF known THEN @ ELSE Append(@, trackRow),
                          !.annotationIds = taken, !.annotations = Append(@, row)]
           done == AddAnnotation(b, number, box, video, images, categories)
<1>1. done = b \/ done = c
  <2>1. c = [b EXCEPT !.keys = Put(@, TrackKey(number, box), track.id), !.trackIds = track,
                      !.tracks = IF known THEN @ ELSE Append(@, trackRow),
                      !.annotationIds = taken, !.annotations = Append(@, row)]
    OBVIOUS
  <2> HIDE DEF c
  <2>2. QED BY <2>1 DEF AddAnnotation
<1> HIDE DEF track, taken, known, keys, row, trackRow, category, done
<1>2. DOMAIN c = DOMAIN b /\ c.videos = b.videos /\ c.images = b.images /\ c.annotations = Append(b.annotations, row)
  BY DEF BuilderOK, BuilderFields
<1> HIDE DEF c
<1>3. BuilderOK(c)
  BY <1>2, BuilderWith
<1>4. BuilderOK(done)
  BY <1>1, <1>3
<1>5. QED BY <1>4 DEF done

\* Each split has a document that is being built.
TaoTurn(a, i, seqs, fallback, preserve, ids) == TaoWriteSequence(a, seqs[i], i, fallback, preserve, ids)
TaoInv(k, a, p, q, r, t) == \A split \in DOMAIN a.builders : BuilderOK(a.builders[split])
TaoLoop == INSTANCE Loops WITH Body <- TaoTurn, Inv <- TaoInv, Free <- NotIn, Counted <- Candidate

LEMMA TaoTurnFacts ==
  ASSUME NEW acc, TaoInv(0, acc, 0, 0, 0, 0), NEW seq, IsTrackSequence(seq), NEW number,
         NEW fallback, NEW preserve, NEW categories
  PROVE  TaoInv(0, TaoWriteSequence(acc, seq, number, fallback, preserve, categories), 0, 0, 0, 0)
<1> DEFINE split == TaoSplit(seq, fallback, preserve)
           builder == IF split \in DOMAIN acc.builders THEN acc.builders[split] ELSE NewBuilder
           taken == Allocate(builder.videoIds, IF seq.source >= 0 THEN seq.source ELSE seq.vid)
           row == [id |-> taken.id, fps |-> seq.fps, name |-> IF seq.label = <<>> THEN TaoLabel(seq) ELSE seq.label]
           named == [builder EXCEPT !.videoIds = taken, !.videos = Append(@, row)]
           bare == [builder EXCEPT !.videoIds = taken]
           start == [builder |-> named, images |-> <<>>, frames |-> acc.frames]
           places == Ascending(DOMAIN MaterializeFrames(seq))
           pictured == ImageLoop!Loop(start, places, seq, split, taken.id, 0)
           boxes == RowOrder(seq.boxes)
           annotated == TaoAnnotationLoop!Loop(pictured.builder, boxes, number, taken.id, pictured.images, categories)
           done == TaoWriteSequence(acc, seq, number, fallback, preserve, categories)
           after == done.builders
<1>1. after = Put(acc.builders, split, bare) \/ after = Put(acc.builders, split, annotated)
  BY DEF TaoWriteSequence, ImageTurn, ImageLoop!Loop, FoldLeft, MapThenFoldSet,
         ImageLoop!FoldLeft, ImageLoop!MapThenFoldSet, Max, ImageLoop!Max,
         TaoAnnotationTurn, TaoAnnotationLoop!Loop, TaoAnnotationLoop!FoldLeft, TaoAnnotationLoop!MapThenFoldSet, TaoAnnotationLoop!Max
<1>2. row.fps \in Int
  BY DEF IsTrackSequence
<1> HIDE DEF split
<1>3. BuilderOK(builder)
  BY NewBuilderFacts DEF TaoInv
<1> HIDE DEF builder, row, taken
<1>4. BuilderOK(bare)
  <2>1. DOMAIN bare = DOMAIN builder /\ bare.videos = builder.videos /\ bare.images = builder.images
        /\ bare.annotations = builder.annotations
    BY <1>3 DEF BuilderOK, BuilderFields
  <2> HIDE DEF bare
  <2>2. QED BY <1>3, <2>1, BuilderWith
<1>5. BuilderOK(named)
  <2>1. DOMAIN named = DOMAIN builder /\ named.videos = Append(builder.videos, row) /\ named.images = builder.images
        /\ named.annotations = builder.annotations
    BY <1>3 DEF BuilderOK, BuilderFields
  <2> HIDE DEF named
  <2>2. QED BY <1>2, <1>3, <2>1, BuilderWith
<1> HIDE DEF named, bare
<1>6. BuilderOK(pictured.builder)
  <2> DEFINE S == DOMAIN MaterializeFrames(seq)
             n == Len(places)
  <2>1. IsFiniteSet(S) /\ S \subseteq Nat
    <3>1. S \subseteq DOMAIN seq.frames
      BY DEF MaterializeFrames
    <3> HIDE DEF S
    <3>2. QED BY <3>1, FS_Subset DEF IsTrackSequence, IsFrames
  <2>2. S \in SUBSET Int
    BY <2>1
  <2> HIDE DEF S
  <2>3. IsSequence(places) /\ \A k \in DOMAIN places : places[k] \in S
    BY <2>1, <2>2, AscendingFacts, AscendingNumbers DEF S
  <2> HIDE DEF places
  <2>4. n \in Nat /\ DOMAIN places = 1 .. n
    BY <2>3, SequenceFacts
  <2>5. ImageInv(0, start, seq, split, taken.id, 0)
    BY <1>5 DEF ImageInv
  <2>6. ImageLoop!Keeps(places, seq, split, taken.id, 0)
    BY <2>2, <2>3, ImageTurnFacts DEF ImageLoop!Keeps, ImageInv, ImageTurn
  <2> HIDE DEF start, n
  <2>7. ImageInv(n, pictured, seq, split, taken.id, 0)
    BY <2>4, <2>5, <2>6, ImageLoop!LoopInvariant
  <2>8. QED BY <2>7 DEF ImageInv
<1> HIDE DEF pictured
<1>7. BuilderOK(annotated)
  <2> DEFINE n == Len(boxes)
             sorted == SortedBy(seq.boxes, [i \in DOMAIN seq.boxes |-> seq.boxes[i].track])
  <2>1. IsSequence(boxes)
    <3>1. IsSequence(sorted)
      BY SortedFacts DEF IsTrackSequence
    <3>2. boxes = FrameOrder(sorted)
      BY DEF RowOrder
    <3> HIDE DEF sorted, boxes
    <3>3. QED BY <3>1, <3>2, SortedFacts DEF FrameOrder
  <2> HIDE DEF boxes
  <2>2. n \in Nat /\ DOMAIN boxes = 1 .. n
    BY <2>1, SequenceFacts
  <2>3. TaoAnnotationInv(0, pictured.builder, number, taken.id, pictured.images, categories)
    BY <1>6 DEF TaoAnnotationInv
  <2>4. TaoAnnotationLoop!Keeps(boxes, number, taken.id, pictured.images, categories)
    BY AnnotationTurnFacts DEF TaoAnnotationLoop!Keeps, TaoAnnotationInv, TaoAnnotationTurn
  <2> HIDE DEF n
  <2>5. TaoAnnotationInv(n, annotated, number, taken.id, pictured.images, categories)
    BY <2>2, <2>3, <2>4, TaoAnnotationLoop!LoopInvariant
  <2>6. QED BY <2>5 DEF TaoAnnotationInv
<1> HIDE DEF annotated, done
<1>8. ASSUME NEW b, BuilderOK(b), after = Put(acc.builders, split, b), NEW x \in DOMAIN after PROVE BuilderOK(after[x])
  BY <1>8 DEF Put, TaoInv
<1>9. \A x \in DOMAIN after : BuilderOK(after[x])
  <2> HIDE DEF after
  <2>1. QED BY <1>1, <1>4, <1>7, <1>8
<1>10. QED BY <1>9 DEF TaoInv, done

LEMMA TaoDocumentFacts ==
  ASSUME NEW b, BuilderOK(b), NEW doc,
         doc.videos = ById(b.videos), doc.images = b.images, doc.annotations = ById(b.annotations)
  PROVE  IsTaoDocument(doc)
<1> DEFINE videos == b.videos
           ids == [i \in DOMAIN videos |-> videos[i].id]
           sorted == SortedBy(videos, ids)
<1>1. IsSequence(videos) /\ \A i \in DOMAIN videos : videos[i].fps \in Int
  BY DEF BuilderOK
<1>2. doc.videos = sorted
  BY DEF ById
<1> HIDE DEF videos, ids
<1>3. IsSequence(sorted) /\ \A j \in DOMAIN sorted : \E i \in DOMAIN videos : sorted[j] = videos[i]
  BY <1>1, SortedFacts
<1> HIDE DEF sorted
<1>4. IsSequence(doc.videos) /\ \A i \in DOMAIN doc.videos : doc.videos[i].fps \in Int
  BY <1>1, <1>2, <1>3
<1>5. IsSequence(doc.annotations)
  <2>1. IsSequence(b.annotations)
    BY DEF BuilderOK
  <2>2. QED BY <2>1, SortedFacts DEF ById
<1>6. QED BY <1>4, <1>5 DEF IsTaoDocument, BuilderOK

LEMMA TaoWriteFacts ==
  ASSUME NEW ds, ds.task = "mot", DatasetOK(ds), NEW existing, NEW fallback, NEW preserve
  PROVE  IsTaoRoot(TaoWrite(ds, existing, fallback, preserve))
<1> DEFINE candidates == Candidates(ds)
           ids == CategoryIds(candidates)
           records == CategoryRecords(candidates, ids)
           Document(b) == [videos |-> ById(b.videos), images |-> b.images, tracks |-> ById(b.tracks),
                           categories |-> records, annotations |-> ById(b.annotations)]
           start == [builders |-> <<>>, frames |-> existing.frames]
           places == Indices(ds.seqs)
           built == TaoLoop!Loop(start, places, ds.seqs, fallback, preserve, ids)
           builders == IF ds.seqs = <<>> THEN [split \in {fallback} |-> NewBuilder] ELSE built.builders
           docs == [split \in DOMAIN builders |-> Document(builders[split])]
           done == TaoWrite(ds, existing, fallback, preserve)
           n == Len(ds.seqs)
<1>1. /\ n \in Nat /\ DOMAIN ds.seqs = 1 .. n
      /\ \A i \in DOMAIN ds.seqs : IsTrackSequence(ds.seqs[i])
  BY SequenceFacts DEF DatasetOK
<1>2. done.docs = docs
  BY DEF TaoWrite, TaoTurn, Indices, TaoLoop!Loop, FoldLeft, MapThenFoldSet,
         TaoLoop!FoldLeft, TaoLoop!MapThenFoldSet, Max, TaoLoop!Max
<1> HIDE DEF ids, records, candidates
<1>3. DOMAIN places = 1 .. n /\ \A i \in DOMAIN places : places[i] = i
  BY <1>1 DEF Indices
<1>4. TaoInv(0, start, ds.seqs, fallback, preserve, ids)
  <2>1. DOMAIN start.builders = {}
    BY EmptyFacts
  <2> HIDE DEF start
  <2>2. QED BY <2>1 DEF TaoInv
<1> HIDE DEF start, n, places
<1>5. TaoLoop!Keeps(places, ds.seqs, fallback, preserve, ids)
  <2>1. ASSUME NEW a, NEW i \in DOMAIN places, TaoInv(i - 1, a, ds.seqs, fallback, preserve, ids)
        PROVE  TaoInv(i, TaoTurn(a, places[i], ds.seqs, fallback, preserve, ids), ds.seqs, fallback, preserve, ids)
    <3>1. TaoInv(0, a, 0, 0, 0, 0)
      BY <2>1 DEF TaoInv
    <3>2. places[i] = i /\ IsTrackSequence(ds.seqs[i])
      BY <1>1, <1>3
    <3>3. TaoInv(0, TaoWriteSequence(a, ds.seqs[i], i, fallback, preserve, ids), 0, 0, 0, 0)
      BY <3>1, <3>2, TaoTurnFacts
    <3>4. QED BY <3>2, <3>3 DEF TaoTurn, TaoInv
  <2>2. QED BY <2>1 DEF TaoLoop!Keeps
<1>6. TaoInv(n, built, ds.seqs, fallback, preserve, ids)
  BY <1>1, <1>3, <1>4, <1>5, TaoLoop!LoopInvariant
<1> HIDE DEF built
<1>7. \A split \in DOMAIN builders : BuilderOK(builders[split])
  BY <1>6, NewBuilderFacts DEF TaoInv
<1> HIDE DEF builders
<1>8. DOMAIN docs = DOMAIN builders /\ \A split \in DOMAIN builders : docs[split] = Document(builders[split])
  OBVIOUS
<1>9. ASSUME NEW split \in DOMAIN builders PROVE IsTaoDocument(docs[split])
  <2> DEFINE b == builders[split]
             doc == docs[split]
  <2>1. doc.videos = ById(b.videos) /\ doc.images = b.images /\ doc.annotations = ById(b.annotations)
    BY <1>8
  <2>2. BuilderOK(b)
    BY <1>7
  <2> HIDE DEF b, doc
  <2>3. IsTaoDocument(doc)
    BY <2>1, <2>2, TaoDocumentFacts
  <2>4. QED BY <2>3 DEF doc
<1> HIDE DEF docs, done
<1>10. IsTaoRoot(done)
  BY <1>2, <1>8, <1>9 DEF IsTaoRoot
<1>11. QED BY <1>10 DEF done

\* The loader: the images of a video, the frames they are on, the videos of a document.
LEMMA TaoPlaces ==
  ASSUME NEW doc, IsTaoDocument(doc)
  PROVE  /\ \A video : TaoImages(doc, video) \subseteq Nat /\ IsFiniteSet(TaoImages(doc, video))
         /\ \A id : ImagesWith(doc, id) \subseteq Nat /\ IsFiniteSet(ImagesWith(doc, id))
<1>1. IsSequence(doc.images)
  BY DEF IsTaoDocument
<1>2. IsFiniteSet(DOMAIN doc.images) /\ DOMAIN doc.images \subseteq Nat
  BY <1>1, FiniteDomain, SequenceFacts
<1>3. \A video : TaoImages(doc, video) \subseteq DOMAIN doc.images
  BY DEF TaoImages
<1>4. \A id : ImagesWith(doc, id) \subseteq DOMAIN doc.images
  BY DEF ImagesWith
<1>5. QED BY <1>2, <1>3, <1>4, FS_Subset

LEMMA TaoImageFacts ==
  ASSUME NEW doc, IsTaoDocument(doc), NEW video
  PROVE  LET images == TaoImages(doc, video)
         IN  /\ IsFiniteSet(images) /\ DOMAIN FrameOfImage(doc, images) = images
             /\ \A i \in images : FrameOfImage(doc, images)[i] \in Nat
<1> DEFINE images == TaoImages(doc, video)
           declared == \A i \in images : doc.images[i].index >= 0
           Earlier(i) == {j \in images : NameBefore(doc, j, i)}
           of == FrameOfImage(doc, images)
<1>1. of = [i \in images |-> IF declared THEN doc.images[i].index ELSE Cardinality(Earlier(i))]
  BY DEF FrameOfImage
<1>2. IsFiniteSet(images)
  BY TaoPlaces
<1>3. \A i \in images : doc.images[i].index \in Int
  BY DEF TaoImages, IsTaoDocument
<1> HIDE DEF images
<1>4. \A i \in images : Cardinality(Earlier(i)) \in Nat
  BY <1>2, FS_Subset, FS_CardinalityType
<1> HIDE DEF Earlier, of
<1>5. DOMAIN of = images /\ \A i \in images : of[i] \in Nat
  BY <1>1, <1>3, <1>4
<1>6. QED BY <1>2, <1>5 DEF of, images

\* An id that some image has is on a frame.
LEMMA ImageFrameFacts ==
  ASSUME NEW doc, IsTaoDocument(doc), NEW id, ImagesWith(doc, id) # {}
  PROVE  ImageFrame(doc, id) \in Nat
<1> DEFINE those == ImagesWith(doc, id)
           first == [i \in those |-> Min(TaoImages(doc, doc.images[i].video))]
           firsts == {first[i] : i \in those}
           images == TaoImages(doc, doc.images[Max(firsts)].video)
           of == FrameOfImage(doc, images)
           both == images \cap those
           frames == {of[i] : i \in both}
<1>1. ImageFrame(doc, id) = Max(frames)
  <2>1. firsts = {Min(TaoImages(doc, doc.images[i].video)) : i \in those}
    OBVIOUS
  <2> HIDE DEF firsts
  <2>2. QED BY <2>1 DEF ImageFrame
<1>2. \A i \in those : i \in TaoImages(doc, doc.images[i].video)
  BY DEF ImagesWith, TaoImages
<1>3. IsFiniteSet(those) /\ those # {}
  BY TaoPlaces
<1>4. \A i \in those : first[i] \in TaoImages(doc, doc.images[i].video) /\ first[i] \in Nat
  BY <1>2, TaoPlaces, SmallestFacts
<1> HIDE DEF those, first
<1>5. IsFiniteSet(firsts) /\ firsts # {} /\ firsts \in SUBSET Int
  BY <1>3, <1>4, FiniteImage
<1>6. Max(firsts) \in firsts
  <2> HIDE DEF firsts
  <2>1. QED BY <1>5, LargestFacts
<1>7. PICK i \in those : Max(firsts) = first[i]
  BY <1>6
<1> HIDE DEF firsts
<1>8. images = TaoImages(doc, doc.images[i].video)
  BY <1>4, <1>7 DEF TaoImages
<1>9. i \in both
  BY <1>2, <1>7, <1>8
<1>10. IsFiniteSet(images) /\ \A k \in images : of[k] \in Nat
  BY TaoImageFacts
<1> HIDE DEF images, of
<1>11. IsFiniteSet(both) /\ \A k \in both : of[k] \in Nat
  BY <1>10, FS_Subset
<1> HIDE DEF both
<1>12. IsFiniteSet(frames) /\ frames # {} /\ frames \in SUBSET Int /\ frames \subseteq Nat
  BY <1>9, <1>11, FiniteImage
<1> HIDE DEF frames
<1>13. Max(frames) \in frames
  BY <1>12, LargestFacts
<1>14. QED BY <1>1, <1>12, <1>13

LEMMA TaoBoxesFacts ==
  ASSUME NEW rows, IsSequence(rows), NEW parts, parts = [i \in DOMAIN rows |-> parts[i]],
         NEW item, \A i \in DOMAIN rows : parts[i] = <<>> \/ parts[i] = <<item[i]>>,
         \A i \in DOMAIN rows : parts[i] # <<>> => item[i].frame \in Nat
  PROVE  AreBoxes(FlattenSeq(parts))
<1> DEFINE boxes == FlattenSeq(parts)
<1>1. IsSequence(boxes) /\ \A j \in DOMAIN boxes : \E i \in DOMAIN rows : boxes[j] = item[i] /\ parts[i] # <<>>
  BY CollectFacts, SMTT(60)
<1> HIDE DEF boxes
<1>2. AreBoxes(boxes)
  BY <1>1 DEF AreBoxes
<1>3. QED BY <1>2 DEF boxes

LEMMA TaoSequenceFacts ==
  ASSUME NEW split, NEW entry, entry.fps \in Int, NEW vid \in Nat, NEW doc, IsTaoDocument(doc), NEW names, NEW files
  PROVE  IsTrackSequence(TaoSequence(split, entry, vid, doc, names, files))
<1> DEFINE video == entry.id
           images == TaoImages(doc, video)
           table == FrameTable(doc, images)
           rows == doc.annotations
           Left(a) == ImagesWith(doc, a.image) = {} \/ a.track = NoId \/ ~Positive(a.bbox)
                        \/ Max(ImagesWith(doc, a.image)) \notin images
           Item(a) == TaoBox(split, a, doc.images[Max(ImagesWith(doc, a.image))], ImageFrame(doc, a.image), names, doc)
           item == [i \in DOMAIN rows |-> Item(rows[i])]
           parts == [i \in DOMAIN rows |-> IF Left(rows[i]) THEN <<>> ELSE <<Item(rows[i])>>]
           seq == TaoSequence(split, entry, vid, doc, names, files)
           readable == {g \in DOMAIN table : table[g] \in DOMAIN files}
<1>1. /\ seq.vid = vid /\ seq.fps = entry.fps /\ seq.video = <<>>
      /\ DOMAIN seq.frames = readable
  BY DEF TaoSequence, TaoSequenceOf
<1>2. seq.boxes = FlattenSeq(parts)
  BY DEF TaoSequence, TaoSequenceOf
<1>3. IsFiniteSet(images) /\ DOMAIN FrameOfImage(doc, images) = images /\ \A i \in images : FrameOfImage(doc, images)[i] \in Nat
  BY TaoImageFacts
<1>4. IsSequence(rows)
  BY DEF IsTaoDocument
<1>5. /\ parts = [i \in DOMAIN rows |-> parts[i]]
      /\ \A i \in DOMAIN rows : parts[i] = <<>> \/ (parts[i] = <<item[i]>> /\ ~Left(rows[i]))
  <2> HIDE DEF Left, Item, rows
  <2>1. QED OBVIOUS
<1>6. DOMAIN table = {FrameOfImage(doc, images)[im] : im \in images}
  BY <1>3 DEF FrameTable, FilesAt, Range
<1> HIDE DEF seq, table, rows, images
<1>7. \A a : ~Left(a) => ImageFrame(doc, a.image) \in Nat
  BY ImageFrameFacts
<1>8. \A i \in DOMAIN rows : item[i].frame = ImageFrame(doc, rows[i].image)
  BY DEF TaoBox
<1> HIDE DEF item, parts, Left, Item
<1>9. /\ \A i \in DOMAIN rows : parts[i] = <<>> \/ parts[i] = <<item[i]>>
      /\ \A i \in DOMAIN rows : parts[i] # <<>> => item[i].frame \in Nat
  BY <1>3, <1>5, <1>7, <1>8
<1>10. AreBoxes(seq.boxes)
  <2>1. parts = [i \in DOMAIN rows |-> parts[i]]
    BY <1>5
  <2>2. AreBoxes(FlattenSeq(parts))
    BY <1>4, <1>9, <2>1, TaoBoxesFacts
  <2>3. QED BY <1>2, <2>2
<1>11. IsFrames(seq.frames)
  <2> DEFINE frame == FrameOfImage(doc, images)
  <2>1. readable \subseteq DOMAIN table
    OBVIOUS
  <2> HIDE DEF readable, frame
  <2>2. DOMAIN table = {frame[im] : im \in images} /\ \A im \in images : frame[im] \in Nat
    BY <1>3, <1>6 DEF frame
  <2>3. IsFiniteSet(DOMAIN table) /\ DOMAIN table \subseteq Nat
    BY <1>3, <2>2, FiniteImage
  <2>4. QED BY <1>1, <2>1, <2>3, FS_Subset DEF IsFrames
<1>12. IsTrackSequence(seq)
  BY <1>1, <1>10, <1>11 DEF IsTrackSequence, AreBoxes, IsFilm
<1>13. QED BY <1>12 DEF seq

LEMMA TaoVideoFacts ==
  ASSUME NEW doc, IsTaoDocument(doc)
  PROVE  IsSequence(VideosOf(doc)) /\ \A i \in DOMAIN VideosOf(doc) : VideosOf(doc)[i].fps \in Int
<1> DEFINE of == [i \in DOMAIN doc.images |-> doc.images[i].video]
           all == {of[i] : i \in DOMAIN doc.images}
           with == {v \in all : TaoImages(doc, v) # {}}
           wanted == {i \in DOMAIN doc.videos : doc.videos[i].id \in with}
           listed == Those(doc.videos, wanted)
           rest == with \ {listed[i].id : i \in DOMAIN listed}
           extra == Ascending(rest)
           more == [i \in DOMAIN extra |-> [id |-> extra[i], name |-> <<ToString(extra[i])>>, fps |-> 0]]
           S == {listed[i] : i \in DOMAIN listed} \cup {more[i] : i \in DOMAIN more}
           videos == VideosOf(doc)
<1>1. all = {doc.images[i].video : i \in DOMAIN doc.images}
  OBVIOUS
<1>2. videos = listed \o more
  <2> HIDE DEF all
  <2>1. QED BY <1>1 DEF VideosOf
<1>3. IsSequence(doc.images) /\ IsSequence(doc.videos) /\ \A i \in DOMAIN doc.videos : doc.videos[i].fps \in Int
  BY DEF IsTaoDocument
<1>4. IsFiniteSet(all)
  <2> HIDE DEF of
  <2>1. QED BY <1>3, FiniteDomain, FiniteImage
<1>5. IsFiniteSet(rest)
  <2>1. rest \subseteq all
    OBVIOUS
  <2> HIDE DEF rest, all
  <2>2. QED BY <1>4, <2>1, FS_Subset
<1> HIDE DEF wanted, rest, with, all
<1>6. IsSequence(listed) /\ \A j \in DOMAIN listed : listed[j].fps \in Int
  BY <1>3, ThoseFacts
<1>7. IsSequence(extra)
  BY <1>5, AscendingFacts
<1> HIDE DEF listed, extra
<1>8. more = [i \in DOMAIN extra |-> more[i]] /\ \A i \in DOMAIN extra : more[i].fps = 0
  OBVIOUS
<1> HIDE DEF more
<1>9. IsSequence(more) /\ DOMAIN more = DOMAIN extra
  BY <1>7, <1>8, MapFacts
<1>10. \A x \in S : x.fps \in Int
  BY <1>6, <1>8, <1>9
<1>11. (\A i \in DOMAIN listed : listed[i] \in S) /\ \A i \in DOMAIN more : more[i] \in S
  OBVIOUS
<1> HIDE DEF S, videos
<1>12. IsSequence(videos) /\ \A i \in DOMAIN videos : videos[i] \in S
  BY <1>2, <1>6, <1>9, <1>11, BothFacts
<1>13. QED BY <1>10, <1>12 DEF videos

TaoLoadTurn(a, split, root, q, r, t) == TaoLoadDocument(a, split, root)
TaoLoadInv(k, a, p, q, r, t) == IsSequence(a.seqs) /\ \A i \in DOMAIN a.seqs : IsTrackSequence(a.seqs[i])
TaoLoadLoop == INSTANCE Loops WITH Body <- TaoLoadTurn, Inv <- TaoLoadInv, Free <- NotIn, Counted <- Candidate

LEMMA TaoLoadTurnFacts ==
  ASSUME NEW a, TaoLoadInv(0, a, 0, 0, 0, 0), NEW root, IsTaoRoot(root), NEW split \in DOMAIN root.docs
  PROVE  TaoLoadInv(0, TaoLoadDocument(a, split, root), 0, 0, 0, 0)
<1> DEFINE doc == root.docs[split]
           names == AddNames(a.names, doc)
           videos == VideosOf(doc)
           had == a.seqs
           Sequence(i) == TaoSequence(split, videos[i], Len(had) + i - 1, doc, names, root.frames)
           more == [i \in DOMAIN videos |-> Sequence(i)]
           S == {had[i] : i \in DOMAIN had} \cup {more[i] : i \in DOMAIN more}
           done == TaoLoadDocument(a, split, root)
<1>1. done.seqs = had \o more
  BY DEF TaoLoadDocument
<1>2. IsTaoDocument(doc) /\ IsSequence(had) /\ \A i \in DOMAIN had : IsTrackSequence(had[i])
  BY DEF TaoLoadInv, IsTaoRoot
<1> HIDE DEF doc, names, had, done
<1>3. IsSequence(videos) /\ \A i \in DOMAIN videos : videos[i].fps \in Int
  BY <1>2, TaoVideoFacts
<1> HIDE DEF videos
<1>4. ASSUME NEW i \in DOMAIN videos PROVE IsTrackSequence(Sequence(i))
  <2> DEFINE vid == Len(had) + i - 1
             at_ == videos[i]
  <2>1. vid \in Nat /\ at_.fps \in Int
    BY <1>2, <1>3, SequenceFacts
  <2> HIDE DEF vid, at_
  <2>2. IsTrackSequence(TaoSequence(split, at_, vid, doc, names, root.frames))
    BY <1>2, <2>1, TaoSequenceFacts
  <2>3. QED BY <2>2 DEF vid, at_
<1>5. more = [i \in DOMAIN videos |-> more[i]] /\ \A i \in DOMAIN videos : more[i] = Sequence(i)
  OBVIOUS
<1> HIDE DEF more, Sequence
<1>6. IsSequence(more) /\ DOMAIN more = DOMAIN videos
  BY <1>3, <1>5, MapFacts
<1>7. \A x \in S : IsTrackSequence(x)
  BY <1>2, <1>4, <1>5, <1>6
<1>8. (\A i \in DOMAIN had : had[i] \in S) /\ \A i \in DOMAIN more : more[i] \in S
  OBVIOUS
<1> HIDE DEF S
<1> DEFINE both == had \o more
<1>9. IsSequence(both) /\ \A i \in DOMAIN both : both[i] \in S
  BY <1>2, <1>6, <1>8, BothFacts
<1> HIDE DEF both
<1>10. TaoLoadInv(0, done, 0, 0, 0, 0)
  BY <1>1, <1>7, <1>9 DEF TaoLoadInv, both
<1>11. QED BY <1>10 DEF done

LEMMA TaoLoadFacts ==
  ASSUME NEW root, IsTaoRoot(root)
  PROVE  DatasetOK(TaoLoad(root))
<1> DEFINE places == {i \in DOMAIN TaoSplits : TaoSplits[i] \in DOMAIN root.docs}
           splits == Those(TaoSplits, places)
           start == [names |-> <<>>, seqs |-> <<>>]
           done == TaoLoadLoop!Loop(start, splits, root, 0, 0, 0)
           n == Len(splits)
           ds == TaoLoad(root)
<1>1. ds.task = "mot" /\ ds.seqs = done.seqs
  BY DEF TaoLoad, Tracks, TaoLoadTurn, TaoLoadLoop!Loop, FoldLeft, MapThenFoldSet,
         TaoLoadLoop!FoldLeft, TaoLoadLoop!MapThenFoldSet, Max, TaoLoadLoop!Max
<1>2. IsSequence(TaoSplits)
  <2> DEFINE m == Len(TaoSplits)
  <2>1. m \in Nat /\ DOMAIN TaoSplits = 1 .. m /\ TaoSplits = [i \in 1 .. m |-> TaoSplits[i]]
    BY DEF TaoSplits
  <2> HIDE DEF m
  <2>2. TaoSplits \in Seq({TaoSplits[i] : i \in DOMAIN TaoSplits})
    BY <2>1
  <2>3. QED BY <2>2 DEF IsSequence
<1>3. \A i \in places : TaoSplits[i] \in DOMAIN root.docs
  OBVIOUS
<1> HIDE DEF places, ds
<1>4. IsSequence(splits) /\ \A j \in DOMAIN splits : splits[j] \in DOMAIN root.docs
  BY <1>2, <1>3, ThoseFacts
<1> HIDE DEF splits
<1>5. n \in Nat /\ DOMAIN splits = 1 .. n
  BY <1>4, SequenceFacts
<1>6. TaoLoadInv(0, start, root, 0, 0, 0)
  <2>1. start.seqs = <<>>
    OBVIOUS
  <2> HIDE DEF start
  <2>2. QED BY <2>1, EmptyFacts DEF TaoLoadInv
<1> HIDE DEF start, n
<1>7. TaoLoadLoop!Keeps(splits, root, 0, 0, 0)
  <2>1. ASSUME NEW a, NEW i \in DOMAIN splits, TaoLoadInv(i - 1, a, root, 0, 0, 0)
        PROVE  TaoLoadInv(i, TaoLoadTurn(a, splits[i], root, 0, 0, 0), root, 0, 0, 0)
    <3>1. TaoLoadInv(0, a, 0, 0, 0, 0) /\ splits[i] \in DOMAIN root.docs
      BY <1>4, <2>1 DEF TaoLoadInv
    <3>2. TaoLoadInv(0, TaoLoadDocument(a, splits[i], root), 0, 0, 0, 0)
      BY <3>1, TaoLoadTurnFacts
    <3>3. QED BY <3>2 DEF TaoLoadTurn, TaoLoadInv
  <2>2. QED BY <2>1 DEF TaoLoadLoop!Keeps
<1>8. TaoLoadInv(n, done, root, 0, 0, 0)
  BY <1>5, <1>6, <1>7, TaoLoadLoop!LoopInvariant
<1> HIDE DEF done
<1>9. DatasetOK(ds)
  BY <1>1, <1>8 DEF TaoLoadInv, DatasetOK
<1>10. QED BY <1>9 DEF ds

-----------------------------------------------------------------------------
(* HMIE. *)

AreTracks(snippets) ==
  /\ IsSequence(snippets)
  /\ \A n \in DOMAIN snippets :
        LET frames == snippets[n].frames
        IN  IsSequence(frames) /\ \A k \in DOMAIN frames : frames[k].key \in Nat

LEMMA HmieTrackFacts ==
  ASSUME NEW boxes, AreBoxes(boxes)
  PROVE  LET frames == HmieTrack(boxes).frames
         IN  IsSequence(frames) /\ \A k \in DOMAIN frames : frames[k].key \in Nat
<1> DEFINE ordered == FrameOrder(boxes)
           frames == HmieTrack(boxes).frames
<1>1. AreBoxes(ordered)
  BY OrderFacts
<1>2. frames = [i \in DOMAIN ordered |-> frames[i]] /\ \A i \in DOMAIN ordered : frames[i].key = ordered[i].frame
  <2> HIDE DEF ordered
  <2>1. frames = [i \in DOMAIN ordered |-> [key |-> ordered[i].frame, bbox |-> ordered[i].bbox, attrs |-> ordered[i].attrs]]
    BY DEF HmieTrack, ordered
  <2> HIDE DEF frames
  <2>2. QED BY <2>1
<1> HIDE DEF ordered, frames
<1>3. IsSequence(frames) /\ DOMAIN frames = DOMAIN ordered
  BY <1>1, <1>2, MapFacts DEF AreBoxes
<1>4. IsSequence(frames) /\ \A k \in DOMAIN frames : frames[k].key \in Nat
  BY <1>1, <1>2, <1>3 DEF AreBoxes
<1>5. QED BY <1>4 DEF frames

LEMMA HmieTracksFacts ==
  ASSUME NEW boxes, AreBoxes(boxes)
  PROVE  AreTracks(HmieTracks(boxes))
<1> DEFINE places == [uuid \in {boxes[i].uuid : i \in DOMAIN boxes} |-> {i \in DOMAIN boxes : boxes[i].uuid = uuid}]
           Of(uuid) == Those(boxes, {i \in DOMAIN boxes : boxes[i].uuid = uuid})
           uuid == [i \in DOMAIN boxes |-> boxes[i].uuid]
           used == {uuid[i] : i \in DOMAIN boxes}
           uuids == InOrder(used)
           keys == [i \in DOMAIN uuids |-> Of(uuids[i])[1].track]
           ordered == SortedBy(uuids, keys)
           made == HmieTracks(boxes)
<1>1. IsSequence(boxes)
  BY DEF AreBoxes
<1>2. IsFiniteSet(used)
  <2> HIDE DEF uuid
  <2>1. QED BY <1>1, FiniteDomain, FiniteImage
<1>3. used = {boxes[i].uuid : i \in DOMAIN boxes}
  OBVIOUS
<1>4. made = [i \in DOMAIN ordered |-> HmieTrack(Of(ordered[i]))]
  BY <1>3 DEF HmieTracks
<1> HIDE DEF used, made
<1>5. IsSequence(ordered)
  <2>1. IsSequence(uuids)
    BY <1>2, InOrderFacts
  <2> HIDE DEF keys, uuids
  <2>2. QED BY <2>1, SortedFacts
<1> HIDE DEF ordered
<1>6. \A x : AreBoxes(Of(x))
  <2> SUFFICES ASSUME NEW x PROVE AreBoxes(Of(x))
    OBVIOUS
  <2> DEFINE some == {i \in DOMAIN boxes : boxes[i].uuid = x}
  <2> HIDE DEF some
  <2>1. AreBoxes(Those(boxes, some))
    BY <1>1, ThoseFacts DEF AreBoxes
  <2>2. QED BY <2>1 DEF some
<1> HIDE DEF Of
<1>7. made = [i \in DOMAIN ordered |-> made[i]] /\ \A i \in DOMAIN ordered : made[i] = HmieTrack(Of(ordered[i]))
  BY <1>4
<1>8. IsSequence(made) /\ DOMAIN made = DOMAIN ordered
  BY <1>5, <1>7, MapFacts
<1>9. \A n \in DOMAIN made :
         LET frames == made[n].frames
         IN  IsSequence(frames) /\ \A k \in DOMAIN frames : frames[k].key \in Nat
  BY <1>6, <1>7, <1>8, HmieTrackFacts
<1>10. QED BY <1>8, <1>9 DEF AreTracks, made

HmieTurn(a, seq, p, q, r, t) == HmieWriteSequence(a, seq)
HmieInv(k, a, p, q, r, t) == IsHmieRoot(a)
HmieLoop == INSTANCE Loops WITH Body <- HmieTurn, Inv <- HmieInv, Free <- NotIn, Counted <- Candidate

LEMMA HmieTurnFacts ==
  ASSUME NEW root, IsHmieRoot(root), NEW seq, IsTrackSequence(seq)
  PROVE  IsHmieRoot(HmieWriteSequence(root, seq))
<1> DEFINE earlier == IF seq.vid \in DOMAIN root THEN root[seq.vid].video ELSE <<>>
           rate == IF seq.fps > 0 THEN seq.fps ELSE 2
           film == IF seq.video # <<>> THEN seq.video ELSE earlier
           status == IF seq.status = "" THEN "completed" ELSE seq.status
           snippets == HmieTracks(seq.boxes)
           after == [video |-> film, form |-> "task", status |-> status, tracks |-> snippets, fps |-> rate, afr |-> rate]
           more == Put(root, seq.vid, after)
<1>1. HmieWriteSequence(root, seq) = more
  BY DEF HmieWriteSequence
<1>2. IsFilm(film)
  BY DEF IsHmieRoot, IsSnippet, IsTrackSequence, IsFilm
<1>3. AreTracks(snippets)
  BY HmieTracksFacts DEF IsTrackSequence, AreBoxes
<1>4. rate \in Int /\ seq.vid \in Nat
  BY DEF IsTrackSequence
<1> HIDE DEF film, rate, status, snippets
<1>5. IsSnippet(after)
  <2>1. /\ after.video = film /\ after.tracks = snippets /\ after.fps = rate /\ after.afr = rate
        /\ DOMAIN after = {"video", "form", "status", "tracks", "fps", "afr"}
    OBVIOUS
  <2> HIDE DEF after
  <2>2. QED BY <1>2, <1>3, <1>4, <2>1 DEF IsSnippet, AreTracks
<1> HIDE DEF after
<1>6. DOMAIN more = DOMAIN root \cup {seq.vid} /\ more[seq.vid] = after /\ \A x \in DOMAIN root : x # seq.vid => more[x] = root[x]
  BY DEF Put
<1> HIDE DEF more
<1>7. IsFiniteSet(DOMAIN more) /\ DOMAIN more \subseteq Nat
  BY <1>4, <1>6, FS_AddElement DEF IsHmieRoot
<1>8. \A x \in DOMAIN more : IsSnippet(more[x])
  BY <1>5, <1>6 DEF IsHmieRoot
<1>9. IsHmieRoot(more)
  BY <1>7, <1>8 DEF IsHmieRoot
<1>10. QED BY <1>1, <1>9

LEMMA HmieWriteFacts ==
  ASSUME NEW ds, ds.task = "mot", DatasetOK(ds), NEW existing, IsHmieRoot(existing), NEW append
  PROVE  IsHmieRoot(HmieWrite(ds, existing, append))
<1> DEFINE start == IF append THEN existing ELSE HmieEmptyRoot
           done == HmieLoop!Loop(start, ds.seqs, 0, 0, 0, 0)
           n == Len(ds.seqs)
<1>1. /\ n \in Nat /\ DOMAIN ds.seqs = 1 .. n
      /\ \A i \in DOMAIN ds.seqs : IsTrackSequence(ds.seqs[i])
  BY SequenceFacts DEF DatasetOK
<1>2. HmieWrite(ds, existing, append) = done
  BY DEF HmieWrite, HmieTurn, HmieLoop!Loop, FoldLeft, MapThenFoldSet,
         HmieLoop!FoldLeft, HmieLoop!MapThenFoldSet, Max, HmieLoop!Max
<1>3. HmieInv(0, start, 0, 0, 0, 0)
  <2>1. IsHmieRoot(<<>>)
    BY EmptyFacts, FS_EmptySet DEF IsHmieRoot
  <2>2. QED BY <2>1 DEF HmieInv, HmieEmptyRoot
<1>4. HmieLoop!Keeps(ds.seqs, 0, 0, 0, 0)
  BY <1>1, HmieTurnFacts DEF HmieLoop!Keeps, HmieInv, HmieTurn
<1> HIDE DEF start, n
<1>5. HmieInv(n, done, 0, 0, 0, 0)
  BY <1>1, <1>3, <1>4, HmieLoop!LoopInvariant
<1>6. QED BY <1>2, <1>5 DEF HmieInv

\* The boxes that are loaded are on the frames that keys of the annotation mean; of an annotation of
\* boxes that have all their fields it is those that have numbers, every one of them.
Numbered(frames) == Those(frames, {k \in DOMAIN frames : frames[k].bbox # "nan"})
LEMMA HmieBoxesFacts ==
  ASSUME NEW snippet, AreTracks(snippet.tracks), snippet.afr \in Int, NEW cats, NEW fps \in Int
  PROVE  /\ AreBoxes(HmieBoxes(snippet, cats, fps))
         /\ \A j \in DOMAIN HmieBoxes(snippet, cats, fps) :
               \E n \in DOMAIN snippet.tracks : \E k \in DOMAIN snippet.tracks[n].frames :
                   HmieBoxes(snippet, cats, fps)[j].frame = FrameOfKey(snippet.tracks[n].frames[k].key, fps, snippet.afr)
         /\ (\A n \in DOMAIN snippet.tracks :
                snippet.tracks[n].geometry = "box" /\ ~SomeFrame(snippet.tracks[n], "missing")) =>
               Len(HmieBoxes(snippet, cats, fps)) =
                   Len(FlattenSeq([n \in DOMAIN snippet.tracks |-> Numbered(snippet.tracks[n].frames)]))
<1> DEFINE listed == snippet.tracks
           Box(n, frame) ==
             [uuid |-> listed[n].uuid, track |-> n, uri |-> listed[n].label, name |-> NameOf(listed[n].label),
              cat |-> IF listed[n].label = <<>> THEN -1 ELSE cats[listed[n].label],
              frame |-> FrameOfKey(frame.key, fps, snippet.afr), bbox |-> frame.bbox, attrs |-> frame.attrs]
           usable == [n \in DOMAIN listed |->
                        Those(listed[n].frames, {k \in DOMAIN listed[n].frames : HmieUsable(listed[n].frames[k].bbox)})]
           Boxes(n) == IF listed[n].geometry # "box" THEN <<>> ELSE [i \in DOMAIN usable[n] |-> Box(n, usable[n][i])]
           parts == [n \in DOMAIN listed |-> Boxes(n)]
           others == [n \in DOMAIN listed |-> Numbered(listed[n].frames)]
           boxes == HmieBoxes(snippet, cats, fps)
<1>1. boxes = FlattenSeq(parts)
  BY DEF HmieBoxes
<1>2. /\ IsSequence(listed)
      /\ \A n \in DOMAIN listed : /\ IsSequence(listed[n].frames)
                                  /\ \A k \in DOMAIN listed[n].frames : listed[n].frames[k].key \in Nat
  BY DEF AreTracks
<1>3. /\ parts = [n \in DOMAIN listed |-> parts[n]] /\ \A n \in DOMAIN listed : parts[n] = Boxes(n)
      /\ others = [n \in DOMAIN listed |-> others[n]] /\ \A n \in DOMAIN listed : others[n] = Numbered(listed[n].frames)
  OBVIOUS
<1> HIDE DEF listed, parts, others, boxes
<1>4. ASSUME NEW n \in DOMAIN listed
      PROVE  /\ IsSequence(usable[n])
             /\ \A i \in DOMAIN usable[n] : \E k \in DOMAIN listed[n].frames : usable[n][i] = listed[n].frames[k]
  <2> DEFINE places == {k \in DOMAIN listed[n].frames : HmieUsable(listed[n].frames[k].bbox)}
  <2>1. usable[n] = Those(listed[n].frames, places)
    OBVIOUS
  <2> HIDE DEF usable, places
  <2>2. QED BY <1>2, <2>1, ThoseFacts
<1>5. ASSUME NEW n \in DOMAIN listed
      PROVE  /\ IsSequence(parts[n])
             /\ \A m \in DOMAIN parts[n] : \E k \in DOMAIN listed[n].frames :
                    parts[n][m].frame = FrameOfKey(listed[n].frames[k].key, fps, snippet.afr)
             /\ listed[n].geometry = "box" => Len(parts[n]) = Len(usable[n])
  <2>1. CASE listed[n].geometry # "box"
    BY <1>3, <2>1, EmptyFacts
  <2>2. CASE listed[n].geometry = "box"
    <3> DEFINE list == usable[n]
               part == parts[n]
    <3>1. part = [i \in DOMAIN list |-> part[i]]
          /\ \A i \in DOMAIN list : part[i].frame = FrameOfKey(list[i].key, fps, snippet.afr)
      <4> DEFINE made == [i \in DOMAIN list |-> Box(n, list[i])]
      <4>1. part = made
        BY <1>3, <2>2
      <4> HIDE DEF usable, part, list
      <4>2. made = [i \in DOMAIN list |-> made[i]] /\ \A i \in DOMAIN list : made[i].frame = FrameOfKey(list[i].key, fps, snippet.afr)
        OBVIOUS
      <4> HIDE DEF made
      <4>3. QED BY <4>1, <4>2
    <3>2. IsSequence(list) /\ \A i \in DOMAIN list : \E k \in DOMAIN listed[n].frames : list[i] = listed[n].frames[k]
      BY <1>4
    <3> HIDE DEF usable, part, list
    <3>3. IsSequence(part) /\ DOMAIN part = DOMAIN list /\ Len(part) = Len(list)
      BY <3>1, <3>2, MapFacts
    <3>4. \A m \in DOMAIN part : \E k \in DOMAIN listed[n].frames :
              part[m].frame = FrameOfKey(listed[n].frames[k].key, fps, snippet.afr)
      <4> SUFFICES ASSUME NEW m \in DOMAIN part
                   PROVE  \E k \in DOMAIN listed[n].frames :
                              part[m].frame = FrameOfKey(listed[n].frames[k].key, fps, snippet.afr)
        OBVIOUS
      <4>1. PICK k \in DOMAIN listed[n].frames : list[m] = listed[n].frames[k]
        BY <3>2, <3>3
      <4>2. part[m].frame = FrameOfKey(listed[n].frames[k].key, fps, snippet.afr)
        BY <3>1, <3>3, <4>1
      <4>3. QED BY <4>2
    <3>5. QED BY <3>3, <3>4 DEF part, list
  <2>3. QED BY <2>1, <2>2
<1> HIDE DEF Boxes, usable
<1>6. IsSequence(parts) /\ DOMAIN parts = DOMAIN listed /\ Len(parts) = Len(listed)
      /\ IsSequence(others) /\ DOMAIN others = DOMAIN listed /\ Len(others) = Len(listed)
  BY <1>2, <1>3, MapFacts
<1>7. Concatenates(boxes, parts)
  BY <1>1, <1>5, <1>6, FlattenFacts
<1>8. ASSUME NEW j \in DOMAIN boxes
      PROVE  \E n \in DOMAIN listed : \E k \in DOMAIN listed[n].frames :
                 boxes[j].frame = FrameOfKey(listed[n].frames[k].key, fps, snippet.afr)
  <2>1. PICK n \in DOMAIN parts : \E m \in DOMAIN parts[n] : boxes[j] = parts[n][m]
    BY <1>7 DEF Concatenates
  <2>2. QED BY <1>5, <1>6, <2>1
<1>9. ASSUME NEW j \in DOMAIN boxes PROVE boxes[j].frame \in Nat
  <2>1. PICK n \in DOMAIN listed : \E k \in DOMAIN listed[n].frames :
                 boxes[j].frame = FrameOfKey(listed[n].frames[k].key, fps, snippet.afr)
    BY <1>8
  <2>2. PICK k \in DOMAIN listed[n].frames : boxes[j].frame = FrameOfKey(listed[n].frames[k].key, fps, snippet.afr)
    BY <2>1
  <2> DEFINE key == listed[n].frames[k].key
  <2>3. key \in Nat /\ key <= key
    BY <1>2
  <2> HIDE DEF key
  <2>4. QED BY <2>2, <2>3, FrameMonotone DEF key
<1>10. AreBoxes(boxes)
  BY <1>7, <1>9 DEF AreBoxes, Concatenates
<1>11. ASSUME \A n \in DOMAIN listed : listed[n].geometry = "box" /\ ~SomeFrame(listed[n], "missing")
       PROVE  Len(boxes) = Len(FlattenSeq(others))
  <2>1. ASSUME NEW n \in DOMAIN listed PROVE IsSequence(others[n]) /\ Len(parts[n]) = Len(others[n])
    <3> DEFINE frames == listed[n].frames
               some == {k \in DOMAIN frames : HmieUsable(frames[k].bbox)}
               many == {k \in DOMAIN frames : frames[k].bbox # "nan"}
    <3>1. some = many
      BY <1>11 DEF SomeFrame, HmieUsable
    <3>2. usable[n] = Those(frames, some) /\ others[n] = Those(frames, many)
      BY <1>3 DEF usable, Numbered
    <3> HIDE DEF some, many
    <3>3. IsSequence(frames)
      BY <1>2
    <3> HIDE DEF frames
    <3>4. QED BY <1>5, <1>11, <3>1, <3>2, <3>3, ThoseFacts
  <2>2. \A n \in DOMAIN others : IsSequence(others[n]) /\ IsSequence(parts[n]) /\ Len(parts[n]) = Len(others[n])
    BY <1>5, <1>6, <2>1
  <2>3. Len(FlattenSeq(parts)) = Len(FlattenSeq(others))
    BY <1>6, <2>2, EqualLengths
  <2>4. QED BY <1>1, <2>3
<1>12. QED BY <1>8, <1>10, <1>11 DEF listed, boxes, others

\* What the loader makes of a snippet that the validator passes, when it requires videos.
Ready(file) == file.form \notin {"broken", "tracks"} /\ HmiePaired(file) /\ file.video[1].length > 0
Shows(seq, id, file) ==
  /\ seq.video[1].name = <<"out", ToString(id)>>
  /\ DOMAIN seq.frames = 0 .. file.video[1].length - 1
  /\ \E cats : seq.boxes = HmieBoxes(file, cats, HmieRate(file, file.video, TRUE))

LEMMA EnvelopeFacts ==
  ASSUME NEW file, IsSnippet(file)
  PROVE  /\ IsSnippet(Envelope(file)) /\ Envelope(file).video = file.video
         /\ file.form # "tracks" => Envelope(file) = file
<1> DEFINE bare == [file EXCEPT !.status = "", !.fps = NoRate, !.afr = NoRate]
<1>1. Envelope(file) = IF file.form # "tracks" THEN file ELSE bare
  BY DEF Envelope
<1>2. /\ bare.video = file.video /\ bare.tracks = file.tracks /\ bare.fps = NoRate /\ bare.afr = NoRate
      /\ DOMAIN bare = {"video", "form", "status", "tracks", "fps", "afr"}
  BY DEF IsSnippet
<1> HIDE DEF bare
<1>3. IsSnippet(bare)
  BY <1>2 DEF IsSnippet, NoRate
<1>4. QED BY <1>1, <1>2, <1>3

LEMMA HmieSnippetFacts ==
  ASSUME NEW acc, NEW id, NEW file, IsSnippet(file), NEW require \in BOOLEAN, IsSequence(acc.seqs)
  PROVE  LET done == HmieLoadSnippet(acc, id, file, require)
         IN  \E seq : /\ IsTrackSequence(seq)
                      /\ done = acc \/ done.seqs = Append(acc.seqs, seq)
                      /\ require /\ Ready(file) => done.seqs = Append(acc.seqs, seq) /\ Shows(seq, id, file)
<1> DEFINE done == HmieLoadSnippet(acc, id, file, require)
           snippet == Envelope(file)
           paired == IF HmiePaired(snippet) THEN snippet.video ELSE <<>>
           media == [i \in DOMAIN paired |-> [paired[i] EXCEPT !.name = <<"out", ToString(id)>>]]
           probed == require /\ media # <<>> /\ media[1].length > 0
           cats == HmieCategories(acc.cats, snippet)
           fps == HmieRate(snippet, media, probed)
           boxes == HmieBoxes(snippet, cats, fps)
           bare == VideoSequence(Len(acc.seqs), media, "hmie", boxes,
                                 IF probed THEN media[1].length ELSE BoundOf(boxes), probed, fps)
           seq == [bare EXCEPT !.status = snippet.status]
<1>1. done = IF snippet.form = "broken" \/ (require /\ ~probed) THEN acc
             ELSE [cats |-> cats, seqs |-> Append(acc.seqs, seq)]
  BY DEF HmieLoadSnippet
<1>2. /\ seq.vid = Len(acc.seqs) /\ seq.fps = fps /\ seq.video = media /\ seq.boxes = boxes
      /\ seq.frames = IF media = <<>> THEN <<>> ELSE Decoded(media[1])
  BY DEF VideoSequence
<1> HIDE DEF seq, bare, done
<1>3. IsSnippet(snippet) /\ snippet.video = file.video
  BY EnvelopeFacts
<1>4. /\ media = <<>> \/ (media = <<media[1]>> /\ IsMedia(media[1]))
      /\ HmiePaired(snippet) => /\ media # <<>> /\ media[1].name = <<"out", ToString(id)>>
                                /\ media[1].length = file.video[1].length /\ media[1].rate = file.video[1].rate
  <2> HIDE DEF snippet
  <2>1. CASE ~HmiePaired(snippet)
    BY <2>1
  <2>2. CASE HmiePaired(snippet)
    <3> DEFINE film == file.video
               one == [film[1] EXCEPT !.name = <<"out", ToString(id)>>]
    <3>1. paired = film /\ film = <<film[1]>> /\ IsMedia(film[1])
      BY <1>3, <2>2 DEF HmiePaired, IsSnippet, IsFilm
    <3>2. media = <<one>>
      <4>1. DOMAIN film = {1} /\ DOMAIN film = 1 .. 1
        BY <3>1
      <4>2. media = [i \in 1 .. 1 |-> one]
        BY <3>1, <4>1
      <4> HIDE DEF one, media
      <4>3. QED BY <4>2
    <3>3. IsMedia(one) /\ one.name = <<"out", ToString(id)>> /\ one.length = film[1].length /\ one.rate = film[1].rate
      <4> DEFINE first == film[1]
                 label == <<"out", ToString(id)>>
      <4>1. IsMedia(first)
        BY <3>1
      <4> HIDE DEF first, label
      <4> DEFINE other == [first EXCEPT !.name = label]
      <4>2. /\ other.name = label /\ other.length = first.length /\ other.rate = first.rate
            /\ other.length \in Nat /\ other.rate \in Int
            /\ other = Media(other.id, other.ext, other.length, other.name, other.rate, other.faults)
        BY <4>1 DEF IsMedia, Media
      <4> HIDE DEF other
      <4>3. IsMedia(other)
        BY <4>2 DEF IsMedia
      <4>4. QED BY <4>2, <4>3 DEF other, first, label
    <3> HIDE DEF one, media, paired
    <3>4. QED BY <3>2, <3>3
  <2>3. QED BY <2>1, <2>2
<1> HIDE DEF media, paired
<1>5. fps \in Int
  <2>1. snippet.fps \in Int
    BY <1>3 DEF IsSnippet
  <2>2. QED BY <1>4, <2>1 DEF HmieRate, Larger, IsMedia
<1> HIDE DEF cats
<1>6. AreBoxes(boxes)
  <2> HIDE DEF fps, snippet
  <2>1. AreTracks(snippet.tracks) /\ snippet.afr \in Int
    BY <1>3 DEF IsSnippet, AreTracks
  <2>2. QED BY <1>5, <2>1, HmieBoxesFacts
<1>7. IsFilm(media) /\ IsFrames(seq.frames)
  <2>1. CASE media = <<>>
    BY <1>2, <2>1, EmptyFacts, FS_EmptySet DEF IsFilm, IsFrames
  <2>2. CASE media # <<>>
    <3> DEFINE n == media[1].length - 1
    <3>1. IsMedia(media[1]) /\ n \in Int
      BY <1>4, <2>2 DEF IsMedia
    <3>2. DOMAIN seq.frames = 0 .. n
      BY <1>2, <2>2 DEF Decoded
    <3> HIDE DEF n
    <3>3. IsFiniteSet(0 .. n) /\ 0 .. n \subseteq Nat
      <4>1. 0 \in Int
        OBVIOUS
      <4>2. QED BY <3>1, <4>1, FS_Interval, SMTT(60)
    <3>4. QED BY <1>4, <2>2, <3>2, <3>3 DEF IsFilm, IsFrames
  <2>3. QED BY <2>1, <2>2
<1>8. IsTrackSequence(seq)
  <2>1. seq.vid \in Nat
    BY <1>2, SequenceFacts
  <2> HIDE DEF fps, boxes
  <2>2. QED BY <1>2, <1>5, <1>6, <1>7, <2>1 DEF IsTrackSequence, AreBoxes
<1>9. done = acc \/ done.seqs = Append(acc.seqs, seq)
  <2> HIDE DEF probed, fps, boxes, snippet
  <2>1. QED BY <1>1
<1>10. ASSUME require, Ready(file) PROVE done.seqs = Append(acc.seqs, seq) /\ Shows(seq, id, file)
  <2>1. snippet = file /\ file.form # "broken"
    BY <1>10, EnvelopeFacts DEF Ready
  <2>2. /\ media # <<>> /\ media[1].name = <<"out", ToString(id)>>
        /\ media[1].length = file.video[1].length /\ media[1].rate = file.video[1].rate
    BY <1>4, <1>10, <2>1 DEF Ready
  <2>3. probed = TRUE
    BY <1>10, <2>2 DEF Ready
  <2> HIDE DEF probed
  <2>4. fps = HmieRate(file, file.video, TRUE)
    BY <2>1, <2>2, <2>3 DEF HmieRate
  <2>5. DOMAIN seq.frames = 0 .. file.video[1].length - 1
    BY <1>2, <2>2 DEF Decoded
  <2>6. done.seqs = Append(acc.seqs, seq)
    <3> HIDE DEF fps, boxes
    <3>1. QED BY <1>1, <2>1, <2>3
  <2>7. boxes = HmieBoxes(file, cats, HmieRate(file, file.video, TRUE))
    BY <2>1, <2>4
  <2> HIDE DEF fps, boxes, snippet
  <2>8. QED BY <1>2, <2>2, <2>5, <2>6, <2>7 DEF Shows
<1>11. QED BY <1>8, <1>9, <1>10 DEF done

HmieLoadTurn(a, id, root, require, r, t) == HmieLoadSnippet(a, id, root[id], require)
HmieLoadInv(k, a, root, require, r, t) ==
  /\ IsSequence(a.seqs) /\ \A i \in DOMAIN a.seqs : IsTrackSequence(a.seqs[i])
  /\ \A m \in 1 .. k : require /\ Ready(root[r[m]]) => \E j \in DOMAIN a.seqs : Shows(a.seqs[j], r[m], root[r[m]])
HmieLoadLoop == INSTANCE Loops WITH Body <- HmieLoadTurn, Inv <- HmieLoadInv, Free <- NotIn, Counted <- Candidate

LEMMA HmieLoadTurnFacts ==
  ASSUME NEW root, IsHmieRoot(root), NEW require \in BOOLEAN, NEW found,
         NEW m \in Nat \ {0}, found[m] \in DOMAIN root, NEW a, HmieLoadInv(m - 1, a, root, require, found, 0)
  PROVE  HmieLoadInv(m, HmieLoadTurn(a, found[m], root, require, found, 0), root, require, found, 0)
<1> DEFINE id == found[m]
           file == root[id]
           done == HmieLoadSnippet(a, id, file, require)
           seqs == a.seqs
           after == done.seqs
<1>1. IsSnippet(file) /\ IsSequence(seqs) /\ \A i \in DOMAIN seqs : IsTrackSequence(seqs[i])
  BY DEF IsHmieRoot, HmieLoadInv
<1>2. \A k \in 1 .. m - 1 : require /\ Ready(root[found[k]]) => \E j \in DOMAIN seqs : Shows(seqs[j], found[k], root[found[k]])
  BY DEF HmieLoadInv
<1> HIDE DEF file
<1>3. PICK seq : /\ IsTrackSequence(seq)
                 /\ done = a \/ after = Append(seqs, seq)
                 /\ require /\ Ready(file) => after = Append(seqs, seq) /\ Shows(seq, id, file)
  BY <1>1, HmieSnippetFacts
<1>4. HmieLoadTurn(a, found[m], root, require, found, 0) = done
  BY DEF HmieLoadTurn, file
<1> DEFINE longer == Append(seqs, seq)
           n == Len(seqs)
<1>5. /\ IsSequence(longer) /\ DOMAIN longer = 1 .. n + 1 /\ longer[n + 1] = seq
      /\ n \in Nat /\ DOMAIN seqs = 1 .. n /\ \A i \in 1 .. n : longer[i] = seqs[i]
  BY <1>1, AppendFacts, SequenceFacts
<1>6. after = seqs \/ after = longer
  BY <1>3
<1> HIDE DEF longer, n, seqs, done, after
<1>7. /\ IsSequence(after) /\ \A i \in DOMAIN after : IsTrackSequence(after[i])
      /\ \A j \in DOMAIN seqs : j \in DOMAIN after /\ after[j] = seqs[j]
  <2>1. CASE after = seqs
    BY <1>1, <2>1
  <2>2. CASE after = longer
    <3>1. \A i \in DOMAIN longer : i = n + 1 \/ i \in 1 .. n
      BY <1>5
    <3>2. QED BY <1>1, <1>3, <1>5, <2>2, <3>1
  <2>3. QED BY <1>6, <2>1, <2>2
<1>8. ASSUME NEW k \in 1 .. m, require, Ready(root[found[k]])
      PROVE  \E j \in DOMAIN after : Shows(after[j], found[k], root[found[k]])
  <2>1. CASE k = m
    <3>1. after = longer /\ Shows(seq, id, file)
      BY <1>3, <1>8, <2>1 DEF file, longer
    <3>2. n + 1 \in DOMAIN after /\ after[n + 1] = seq
      BY <1>5, <3>1
    <3>3. QED BY <2>1, <3>1, <3>2 DEF file
  <2>2. CASE k # m
    <3>1. PICK j \in DOMAIN seqs : Shows(seqs[j], found[k], root[found[k]])
      BY <1>2, <1>8, <2>2
    <3>2. QED BY <1>7, <3>1
  <2>3. QED BY <2>1, <2>2
<1>9. HmieLoadInv(m, done, root, require, found, 0)
  BY <1>7, <1>8 DEF HmieLoadInv, after
<1>10. QED BY <1>4, <1>9

LEMMA HmieLoadFacts ==
  ASSUME NEW root, IsHmieRoot(root), NEW flat, NEW require \in BOOLEAN
  PROVE  /\ DatasetOK(HmieLoad(root, flat, require)) /\ HmieLoad(root, flat, require).task = "mot"
         /\ \A id \in DOMAIN root :
               require /\ Ready(root[id]) =>
                   \E j \in DOMAIN HmieLoad(root, flat, require).seqs :
                       Shows(HmieLoad(root, flat, require).seqs[j], id, root[id])
<1> DEFINE S == {id \in DOMAIN root : flat \/ HmiePaired(root[id])}
           found == Ascending(S)
           start == [cats |-> <<>>, seqs |-> <<>>]
           done == HmieLoadLoop!Loop(start, found, root, require, found, 0)
           n == Len(found)
           ds == HmieLoad(root, flat, require)
<1>1. S \in SUBSET Int /\ IsFiniteSet(S)
  BY FS_Subset DEF IsHmieRoot
<1>2. ds.task = "mot" /\ ds.seqs = done.seqs
  BY DEF HmieLoad, HmieFound, Tracks, HmieLoadTurn, HmieLoadLoop!Loop, FoldLeft, MapThenFoldSet,
         HmieLoadLoop!FoldLeft, HmieLoadLoop!MapThenFoldSet, Max, HmieLoadLoop!Max
<1>3. \A id \in DOMAIN root : Ready(root[id]) => id \in S
  BY DEF Ready
<1>4. S \subseteq DOMAIN root
  OBVIOUS
<1> HIDE DEF S, ds
<1>5. /\ IsSequence(found) /\ \A k \in DOMAIN found : found[k] \in S
      /\ \A id \in S : \E k \in DOMAIN found : found[k] = id
  BY <1>1, AscendingFacts, AscendingNumbers
<1> HIDE DEF found
<1>6. n \in Nat /\ DOMAIN found = 1 .. n
  BY <1>5, SequenceFacts
<1>7. HmieLoadInv(0, start, root, require, found, 0)
  <2>1. start.seqs = <<>>
    OBVIOUS
  <2> HIDE DEF start
  <2>2. QED BY <2>1, EmptyFacts DEF HmieLoadInv
<1> HIDE DEF start, n
<1>8. HmieLoadLoop!Keeps(found, root, require, found, 0)
  <2>1. ASSUME NEW a, NEW i \in DOMAIN found, HmieLoadInv(i - 1, a, root, require, found, 0)
        PROVE  HmieLoadInv(i, HmieLoadTurn(a, found[i], root, require, found, 0), root, require, found, 0)
    <3>1. i \in Nat \ {0} /\ found[i] \in DOMAIN root
      BY <1>4, <1>5, <1>6
    <3>2. QED BY <2>1, <3>1, HmieLoadTurnFacts
  <2>2. QED BY <2>1 DEF HmieLoadLoop!Keeps
<1>9. HmieLoadInv(n, done, root, require, found, 0)
  BY <1>6, <1>7, <1>8, HmieLoadLoop!LoopInvariant
<1> HIDE DEF done
<1>10. DatasetOK(ds)
  BY <1>2, <1>9 DEF HmieLoadInv, DatasetOK
<1>11. ASSUME NEW id \in DOMAIN root, require, Ready(root[id])
       PROVE  \E j \in DOMAIN ds.seqs : Shows(ds.seqs[j], id, root[id])
  <2>1. PICK m \in DOMAIN found : found[m] = id
    BY <1>3, <1>5, <1>11
  <2>2. QED BY <1>2, <1>6, <1>9, <1>11, <2>1 DEF HmieLoadInv
<1>12. QED BY <1>2, <1>10, <1>11 DEF ds

\* A table of checks that makes no finding: none of them fails.
LEMMA NoneFails ==
  ASSUME NEW fails, NEW on, Failing(fails, on) = {}
  PROVE  \A c \in DOMAIN fails : ~fails[c]
<1> SUFFICES ASSUME NEW c \in DOMAIN fails, fails[c] PROVE FALSE
  OBVIOUS
<1>1. <<c, on>> \in Failing(fails, on)
  BY DEF Failing
<1>2. QED BY <1>1

LEMMA CleanTrackFacts ==
  ASSUME NEW track, TrackFindings(track) = {}
  PROVE  track.frames # <<>> /\ track.geometry = "box" /\ ~SomeFrame(track, "missing")
<1> DEFINE boxes == track.geometry = "box"
           fails == [annotation_label_empty |-> track.label = <<>>,
                     annotation_empty_track |-> track.frames = <<>>,
                     annotation_key_order |-> \E i, j \in DOMAIN track.frames : i < j /\ Keys(track)[i] > Keys(track)[j],
                     annotation_geometry_pending_support |-> ~boxes /\ track.frames # <<>>,
                     annotation_box_missing_fields |-> boxes /\ SomeFrame(track, "missing"),
                     annotation_bbox_size |-> boxes /\ SomeFrame(track, "flat"),
                     annotation_bbox_negative |-> boxes /\ SomeFrame(track, "negative")]
<1>1. Failing(fails, track.uuid) = {}
  BY DEF TrackFindings
<1>2. {"annotation_empty_track", "annotation_geometry_pending_support", "annotation_box_missing_fields"} \subseteq DOMAIN fails
  OBVIOUS
<1>3. /\ fails["annotation_empty_track"] = (track.frames = <<>>)
      /\ fails["annotation_geometry_pending_support"] = (~boxes /\ track.frames # <<>>)
      /\ fails["annotation_box_missing_fields"] = (boxes /\ SomeFrame(track, "missing"))
  OBVIOUS
<1> HIDE DEF fails
<1>4. \A c \in DOMAIN fails : ~fails[c]
  BY <1>1, NoneFails
<1>5. ~fails["annotation_empty_track"] /\ ~fails["annotation_geometry_pending_support"] /\ ~fails["annotation_box_missing_fields"]
  BY <1>2, <1>4
<1>6. QED BY <1>3, <1>5

LEMMA CleanEnvelopeFacts ==
  ASSUME NEW snippet, MetadataFindings(snippet) = {}
  PROVE  snippet.form # "tracks"
<1> DEFINE task == Envelope(snippet)
           fails == [annotation_unwrapped |-> snippet.form = "tracks",
                     annotation_duplicate_keys |-> snippet.form = "twice",
                     annotation_missing_status |-> task.status = "",
                     annotation_status |-> task.status \notin KnownStatuses \cup {""},
                     annotation_empty |-> task.tracks = <<>>,
                     annotation_missing_afr |-> task.afr = NoRate,
                     annotation_missing_fps |-> task.fps = NoRate]
<1>1. Failing(fails, <<>>) = {}
  BY DEF MetadataFindings
<1>2. "annotation_unwrapped" \in DOMAIN fails /\ fails["annotation_unwrapped"] = (snippet.form = "tracks")
  OBVIOUS
<1> HIDE DEF fails
<1>3. ~fails["annotation_unwrapped"]
  BY <1>1, <1>2, NoneFails
<1>4. QED BY <1>2, <1>3

LEMMA CleanVideoFacts ==
  ASSUME NEW media, VideoFindings(media) = {}
  PROVE  media.length # 0 /\ media.rate \in 1 .. MaxRate
<1> DEFINE long == media.length > 1
           fails == [video_fps |-> media.rate \notin 1 .. MaxRate,
                     video_flat_frames |-> long /\ MostlyFlat(media),
                     video_mid_frame |-> long /\ At(media, media.length \div 2) = "lost",
                     video_last_frame |-> long /\ At(media, media.length - 1) = "lost"]
<1>1. VideoFindings(media) = IF media.length = 0 THEN {<<"video_open", <<>>>>} ELSE Failing(fails, <<>>)
  BY DEF VideoFindings
<1>2. "video_fps" \in DOMAIN fails /\ fails["video_fps"] = (media.rate \notin 1 .. MaxRate)
  OBVIOUS
<1> HIDE DEF fails
<1>3. media.length # 0
  BY <1>1
<1>4. ~fails["video_fps"]
  BY <1>1, <1>2, <1>3, NoneFails
<1>5. QED BY <1>2, <1>3, <1>4

LEMMA CleanConsistencyFacts ==
  ASSUME NEW snippet, NEW media, ConsistencyFindings(snippet, media) = {}, NEW n \in DOMAIN Envelope(snippet).tracks
  PROVE  ~BeyondVideo(Envelope(snippet).tracks[n], Envelope(snippet), media)
<1> DEFINE task == Envelope(snippet)
           track == task.tracks[n]
           Table(t) == [consistency_frame_bounds |-> BeyondVideo(t, task, media),
                        consistency_bbox_bounds |-> t.geometry = "box" /\ SomeFrame(t, "beyond")]
           Of(t) == Failing(Table(t), t.uuid)
           fails == Table(track)
<1>1. UNION {Of(t) : t \in TracksOf(task)} = {}
  BY DEF ConsistencyFindings
<1>2. track \in TracksOf(task)
  BY DEF TracksOf
<1> HIDE DEF Table
<1>3. Failing(fails, track.uuid) = {}
  BY <1>1, <1>2
<1>4. "consistency_frame_bounds" \in DOMAIN fails /\ fails["consistency_frame_bounds"] = BeyondVideo(track, task, media)
  BY DEF Table
<1> HIDE DEF fails
<1>5. ~fails["consistency_frame_bounds"]
  BY <1>3, <1>4, NoneFails
<1>6. QED BY <1>4, <1>5

\* What a snippet without a finding is like.
LEMMA CleanSnippetFacts ==
  ASSUME NEW snippet, IsSnippet(snippet), HmiePaired(snippet), ValidatePair(snippet, snippet.video, TRUE) = {}
  PROVE  /\ Ready(snippet) /\ snippet.video[1].rate \in Nat \ {0}
         /\ \A n \in DOMAIN snippet.tracks :
               LET track == snippet.tracks[n]
               IN  /\ track.frames # <<>> /\ track.geometry = "box" /\ ~SomeFrame(track, "missing")
                   /\ ~BeyondVideo(track, snippet, snippet.video[1])
<1> DEFINE media == snippet.video[1]
<1>1. snippet.video # <<>> /\ IsMedia(media)
  BY DEF HmiePaired, IsSnippet, IsFilm
<1>2. AnnotationFindings(snippet) = {} /\ VideoFindings(media) = {}
  BY <1>1 DEF ValidatePair
<1>3. snippet.form # "broken"
  BY <1>2 DEF AnnotationFindings
<1>4. MetadataFindings(snippet) = {} /\ \A track \in TracksOf(snippet) : TrackFindings(track) = {}
  <2>1. AnnotationFindings(snippet) = MetadataFindings(snippet) \cup UNION {TrackFindings(track) : track \in TracksOf(snippet)}
    BY <1>3 DEF AnnotationFindings
  <2>2. QED BY <1>2, <2>1
<1>5. Envelope(snippet) = snippet /\ snippet.form # "tracks"
  BY <1>4, CleanEnvelopeFacts, EnvelopeFacts
<1>6. media.length # 0 /\ media.rate \in 1 .. MaxRate
  BY <1>2, CleanVideoFacts
<1>7. ConsistencyFindings(snippet, media) = {}
  BY <1>1, <1>3, <1>6 DEF ValidatePair
<1>8. media.length > 0 /\ media.rate \in Nat \ {0}
  <2> DEFINE length == media.length
             rate == media.rate
  <2>1. length \in Nat /\ length # 0 /\ rate \in 1 .. 480
    BY <1>1, <1>6 DEF IsMedia, MaxRate
  <2> HIDE DEF length, rate
  <2>2. length > 0 /\ rate \in Nat \ {0}
    BY <2>1
  <2>3. QED BY <2>2 DEF length, rate
<1>9. ASSUME NEW n \in DOMAIN snippet.tracks
      PROVE  LET track == snippet.tracks[n]
             IN  /\ track.frames # <<>> /\ track.geometry = "box" /\ ~SomeFrame(track, "missing")
                 /\ ~BeyondVideo(track, snippet, media)
  <2> DEFINE track == snippet.tracks[n]
  <2>1. track \in TracksOf(snippet)
    BY DEF TracksOf
  <2>2. ~BeyondVideo(track, snippet, media)
    BY <1>5, <1>7, CleanConsistencyFacts
  <2> HIDE DEF track
  <2>3. track.frames # <<>> /\ track.geometry = "box" /\ ~SomeFrame(track, "missing")
    BY <1>4, <2>1, CleanTrackFacts
  <2>4. QED BY <2>2, <2>3 DEF track
<1>10. QED BY <1>3, <1>5, <1>8, <1>9 DEF Ready

\* The boxes of such a snippet are those of its keys that have numbers, on the frames of its video.
LEMMA CleanBoxesFacts ==
  ASSUME NEW snippet, IsSnippet(snippet), HmiePaired(snippet), ValidatePair(snippet, snippet.video, TRUE) = {},
         snippet.afr > 0, NEW cats
  PROVE  LET boxes == HmieBoxes(snippet, cats, HmieRate(snippet, snippet.video, TRUE))
         IN  /\ IsSequence(boxes)
             /\ Len(boxes) = Len(FlattenSeq([n \in DOMAIN snippet.tracks |-> Numbered(snippet.tracks[n].frames)]))
             /\ \A j \in DOMAIN boxes : boxes[j].frame \in 0 .. snippet.video[1].length - 1
<1> DEFINE media == snippet.video[1]
           rate == media.rate
           boxes == HmieBoxes(snippet, cats, rate)
<1>1. /\ Ready(snippet) /\ rate \in Nat \ {0}
      /\ \A n \in DOMAIN snippet.tracks :
            LET track == snippet.tracks[n]
            IN  /\ track.frames # <<>> /\ track.geometry = "box" /\ ~SomeFrame(track, "missing")
                /\ ~BeyondVideo(track, snippet, media)
  BY CleanSnippetFacts
<1>2. HmieRate(snippet, snippet.video, TRUE) = rate
  BY <1>1 DEF HmieRate
<1>3. IsMedia(media)
  BY DEF HmiePaired, IsSnippet, IsFilm
<1>4. AreTracks(snippet.tracks) /\ snippet.afr \in Int
  BY DEF IsSnippet, AreTracks
<1>5. ASSUME NEW n \in DOMAIN snippet.tracks, NEW k \in DOMAIN snippet.tracks[n].frames
      PROVE  FrameOfKey(snippet.tracks[n].frames[k].key, rate, snippet.afr) \in 0 .. media.length - 1
  <2> DEFINE track == snippet.tracks[n]
             frames == track.frames
             used == ToSet(Keys(track))
             key == frames[k].key
             last == FrameOfKey(Max(used), rate, snippet.afr)
  <2>1. IsSequence(frames) /\ \A i \in DOMAIN frames : frames[i].key \in Nat
    BY <1>4 DEF AreTracks
  <2>2. ~BeyondVideo(track, snippet, media) /\ frames # <<>>
    BY <1>1
  <2>3. ~(last >= media.length)
    <3>1. Mappable(rate, snippet.afr)
      BY <1>1 DEF Mappable
    <3> HIDE DEF track, rate, media
    <3>2. QED BY <2>2, <3>1 DEF BeyondVideo, rate
  <2>4. used = {Keys(track)[i] : i \in DOMAIN frames} /\ \A i \in DOMAIN frames : Keys(track)[i] = frames[i].key
    BY DEF ToSet, Keys
  <2> HIDE DEF track
  <2> DEFINE keys == Keys(track)
  <2>5. IsFiniteSet(used) /\ used \in SUBSET Int /\ used # {} /\ key \in used /\ used \subseteq Nat
    <3>1. k \in DOMAIN frames
      BY DEF track
    <3> HIDE DEF used, frames, keys
    <3>2. used = {keys[i] : i \in DOMAIN frames} /\ \A i \in DOMAIN frames : keys[i] = frames[i].key
      BY <2>4 DEF keys
    <3>3. IsFiniteSet(used)
      BY <2>1, <3>2, FiniteDomain, FiniteImage
    <3>4. QED BY <2>1, <3>1, <3>2, <3>3
  <2> DEFINE most == Max(used)
             count == media.length
  <2> HIDE DEF used, key
  <2>6. most \in used /\ \A other \in used : other <= most
    BY <2>5, LargestFacts
  <2>7. rate \in Int /\ count \in Nat
    BY <1>1, <1>3 DEF IsMedia
  <2> HIDE DEF rate, most, count
  <2>8. most \in Nat /\ most <= most /\ snippet.afr \in Int
    BY <1>4, <2>5, <2>6
  <2>9. FrameOfKey(most, rate, snippet.afr) < count
    <3>1. FrameOfKey(most, rate, snippet.afr) \in Nat
      BY <2>7, <2>8, FrameMonotone
    <3>2. QED BY <2>3, <2>7, <3>1 DEF most, count
  <2>10. FrameOfKey(key, rate, snippet.afr) \in 0 .. count - 1
    BY <2>5, <2>6, <2>7, <2>8, <2>9, LastKeySuffices
  <2>11. QED BY <2>10 DEF key, track, count
<1>6. /\ AreBoxes(boxes)
      /\ \A j \in DOMAIN boxes : \E n \in DOMAIN snippet.tracks : \E k \in DOMAIN snippet.tracks[n].frames :
            boxes[j].frame = FrameOfKey(snippet.tracks[n].frames[k].key, rate, snippet.afr)
      /\ Len(boxes) = Len(FlattenSeq([n \in DOMAIN snippet.tracks |-> Numbered(snippet.tracks[n].frames)]))
  <2>1. rate \in Int /\ \A n \in DOMAIN snippet.tracks :
           snippet.tracks[n].geometry = "box" /\ ~SomeFrame(snippet.tracks[n], "missing")
    BY <1>1
  <2> HIDE DEF rate
  <2>2. QED BY <1>4, <2>1, HmieBoxesFacts
<1> HIDE DEF boxes, rate
<1>7. \A j \in DOMAIN boxes : boxes[j].frame \in 0 .. media.length - 1
  BY <1>5, <1>6
<1>8. QED BY <1>2, <1>6, <1>7 DEF AreBoxes, boxes

\* So each of them is loaded when videos are required.
LEMMA CleanSnippetLoads ==
  ASSUME NEW root, IsHmieRoot(root), NEW id \in DOMAIN root, HmiePaired(root[id]), root[id].afr > 0,
         ValidatePair(root[id], root[id].video, TRUE) = {}
  PROVE  \E seq \in ToSet(HmieLoad(root, FALSE, TRUE).seqs) :
            /\ seq.video[1].name = <<"out", ToString(id)>>
            /\ Len(seq.boxes) = Len(FlattenSeq([n \in DOMAIN root[id].tracks |-> Numbered(root[id].tracks[n].frames)]))
            /\ \A b \in ToSet(seq.boxes) : b.frame \in DOMAIN seq.frames
<1> DEFINE file == root[id]
           seqs == HmieLoad(root, FALSE, TRUE).seqs
<1>1. IsSnippet(file)
  BY DEF IsHmieRoot
<1>2. Ready(file)
  <2> HIDE DEF file
  <2>1. HmiePaired(file) /\ ValidatePair(file, file.video, TRUE) = {}
    BY DEF file
  <2>2. QED BY <1>1, <2>1, CleanSnippetFacts
<1>3. PICK j \in DOMAIN seqs : Shows(seqs[j], id, file)
  BY <1>2, HmieLoadFacts
<1> DEFINE seq == seqs[j]
<1>4. seq \in ToSet(seqs)
  BY DEF ToSet
<1> HIDE DEF seqs
<1>5. PICK cats : seq.boxes = HmieBoxes(file, cats, HmieRate(file, file.video, TRUE))
  BY <1>3 DEF Shows
<1>6. seq.video[1].name = <<"out", ToString(id)>> /\ DOMAIN seq.frames = 0 .. file.video[1].length - 1
  BY <1>3 DEF Shows
<1> HIDE DEF seq
<1>7. /\ Len(seq.boxes) = Len(FlattenSeq([n \in DOMAIN file.tracks |-> Numbered(file.tracks[n].frames)]))
      /\ \A i \in DOMAIN seq.boxes : seq.boxes[i].frame \in 0 .. file.video[1].length - 1
  <2>1. HmiePaired(file) /\ ValidatePair(file, file.video, TRUE) = {} /\ file.afr > 0
    OBVIOUS
  <2> HIDE DEF file
  <2>2. QED BY <1>1, <1>5, <2>1, CleanBoxesFacts
<1>8. \A b \in ToSet(seq.boxes) : b.frame \in DOMAIN seq.frames
  <2> SUFFICES ASSUME NEW b \in ToSet(seq.boxes) PROVE b.frame \in DOMAIN seq.frames
    OBVIOUS
  <2>1. PICK i \in DOMAIN seq.boxes : b = seq.boxes[i]
    BY DEF ToSet
  <2>2. QED BY <1>6, <1>7, <2>1
<1>9. QED BY <1>4, <1>6, <1>7, <1>8 DEF seqs

-----------------------------------------------------------------------------
(* The registries: what a writer makes its loader can read, and what a     *)
(* loader makes every writer of its task can.                              *)

\* The loader of a format gives a dataset of its task.
LEMMA LoadersKeepTasks ==
  ASSUME NEW format \in DOMAIN TaskOf, NEW root, NEW source
  PROVE  Loaded(format, root, source).task = TaskOf[format]
<1>1. CASE format = "coco"
  BY <1>1 DEF Loaded, TaskOf, CocoLoad, Dataset
<1>2. CASE format = "yolo_od"
  BY <1>2 DEF Loaded, TaskOf, YoloLoadOd, Dataset, EmptyDataset
<1>3. CASE format = "yolo_ic"
  BY <1>3 DEF Loaded, TaskOf, YoloLoadIc, Dataset, EmptyDataset
<1>4. CASE format = "hf_od"
  BY <1>4 DEF Loaded, TaskOf, HfLoadOd, HfOdDataset, Dataset, EmptyDataset
<1>5. CASE format = "hf_ic"
  BY <1>5 DEF Loaded, TaskOf, HfLoadIc, HfIcDataset, Dataset, EmptyDataset
<1>6. CASE format = "visdrone_od"
  BY <1>6 DEF Loaded, TaskOf, VdLoadOd, Dataset, EmptyDataset
<1>7. CASE format = "visdrone_ic"
  BY <1>7 DEF Loaded, TaskOf, VdLoadIc, Dataset, EmptyDataset
<1>8. CASE format = "flat_images"
  BY <1>8 DEF Loaded, TaskOf, FlatLoad, Dataset
<1>9. CASE format = "mot"
  BY <1>9 DEF Loaded, TaskOf, MotLoad, Tracks
<1>10. CASE format = "visdrone_video"
  BY <1>10 DEF Loaded, TaskOf, VisLoad, Tracks
<1>11. CASE format = "tao"
  BY <1>11 DEF Loaded, TaskOf, TaoLoad, Tracks
<1>12. CASE format = "hmie"
  BY <1>12 DEF Loaded, TaskOf, HmieLoad, Tracks
<1>13. CASE format = "flat_mp4"
  BY <1>13 DEF Loaded, TaskOf, FlatMp4Load, Tracks
<1>14. CASE format = "hf_video"
  BY <1>14 DEF Loaded, TaskOf, HfvLoad, Clips
<1>15. QED BY <1>1, <1>2, <1>3, <1>4, <1>5, <1>6, <1>7, <1>8, <1>9, <1>10, <1>11, <1>12, <1>13, <1>14 DEF TaskOf

Moving == {"mot", "visdrone_video", "tao", "hmie", "flat_mp4"}
Still == {"coco", "yolo_od", "yolo_ic", "hf_od", "hf_ic", "visdrone_od", "visdrone_ic", "flat_images"}
LEMMA FormatsAreKnown == DOMAIN TaskOf = Still \cup Moving \cup {"hf_video"}
BY DEF TaskOf, Still, Moving

\* An empty destination is a root of every format.
LEMMA EmptyOfFacts ==
  ASSUME NEW format \in DOMAIN TaskOf
  PROVE  RootOK(format, EmptyOf(format))
<1>1. IsImages(<<>>) /\ IsLabels(<<>>) /\ IsFiniteSet({}) /\ IsFiniteSet(DOMAIN <<>>)
  BY EmptyFacts, FS_EmptySet DEF IsImages, IsLabels
<1>2. CASE format = "coco"
  BY <1>2, EmptyFacts DEF RootOK, EmptyOf, CocoEmptyRoot, IsCocoRoot
<1>3. CASE format \in {"yolo_od", "yolo_ic"}
  BY <1>1, <1>3, EmptyFacts DEF RootOK, EmptyOf, EmptyRoot, IsYoloRoot
<1>4. CASE format \in {"hf_od", "hf_ic"}
  BY <1>1, <1>4, EmptyFacts DEF RootOK, EmptyOf, HfEmptyRoot, IsHfRoot
<1>5. CASE format \in {"visdrone_od", "visdrone_ic"}
  BY <1>1, <1>5 DEF RootOK, EmptyOf, VdEmptyRoot
<1>6. CASE format = "flat_images"
  BY <1>1, <1>6 DEF RootOK, EmptyOf
<1>7. CASE format \in {"mot", "visdrone_video", "hmie", "flat_mp4"}
  <2>1. EmptyOf(format) = <<>>
    BY <1>7 DEF EmptyOf
  <2>2. IsMotRoot(<<>>) /\ IsVisRoot(<<>>) /\ IsHmieRoot(<<>>) /\ IsMp4Root(<<>>)
    BY <1>1, EmptyFacts DEF IsMotRoot, IsVisRoot, IsHmieRoot, IsMp4Root
  <2>3. QED BY <1>7, <2>1, <2>2 DEF RootOK
<1>8. CASE format = "tao"
  BY <1>8, EmptyFacts DEF RootOK, EmptyOf, TaoEmptyRoot, IsTaoRoot
<1>9. CASE format = "hf_video"
  BY <1>9 DEF RootOK
<1>10. QED BY <1>2, <1>3, <1>4, <1>5, <1>6, <1>7, <1>8, <1>9, FormatsAreKnown DEF Still, Moving

\* The writer of a format leaves a root of that format, whatever of it was there; the writers that
\* look at the files that are there leave those alone.
LEMMA WrittenFacts ==
  ASSUME NEW way, way.format \in DOMAIN TaskOf, way.format = "mot" => way.source \in {"gt", "det"},
         NEW ds, ds.task = TaskOf[way.format], DatasetOK(ds), NEW root, RootOK(way.format, root), NEW append
  PROVE  /\ RootOK(way.format, Written(way, ds, root, append))
         /\ way.format \in Looking => Extends(Written(way, ds, root, append).images, root.images)
         /\ way.format = "coco" => CocoResolves(Written(way, ds, root, append), way.include)
<1>1. CASE way.format = "coco"
  <2>1. ds.task = "od"
    BY <1>1 DEF TaskOf
  <2>2. Written(way, ds, root, append) = CocoWrite(ds, root, way.include)
    BY <1>1 DEF Written
  <2>3. QED BY <1>1, <2>1, <2>2, CocoDocumentResolves DEF RootOK, Looking
<1>2. CASE way.format = "yolo_od"
  <2>1. ds.task = "od" /\ IsYoloRoot(root)
    BY <1>2 DEF TaskOf, RootOK
  <2>2. Written(way, ds, root, append) = YoloWriteOd(ds, root, way.include, TRUE)
    BY <1>2 DEF Written
  <2>3. QED BY <1>2, <2>1, <2>2, YoloWriteOdFacts DEF RootOK
<1>3. CASE way.format = "yolo_ic"
  <2>1. IsDataset(ds) /\ IsYoloRoot(root)
    BY <1>3 DEF TaskOf, RootOK, DatasetOK
  <2>2. Written(way, ds, root, append) = YoloWriteIc(ds, root, way.remote)
    BY <1>3 DEF Written
  <2>3. QED BY <1>3, <2>1, <2>2, YoloWriteIcFacts DEF RootOK
<1>4. CASE way.format = "hf_od"
  <2>1. ds.task = "od" /\ IsHfRoot(root)
    BY <1>4 DEF TaskOf, RootOK
  <2>2. Written(way, ds, root, append) = HfWriteOd(ds, root, way.split, way.preserve)
    BY <1>4 DEF Written
  <2>3. QED BY <1>4, <2>1, <2>2, HfWriteOdFacts DEF RootOK, Looking
<1>5. CASE way.format = "hf_ic"
  <2>1. IsDataset(ds) /\ IsHfRoot(root)
    BY <1>5 DEF TaskOf, RootOK, DatasetOK
  <2>2. Written(way, ds, root, append) = HfWriteIc(ds, root, way.split)
    BY <1>5 DEF Written
  <2>3. QED BY <1>5, <2>1, <2>2, HfWriteIcFacts DEF RootOK
<1>6. CASE way.format = "visdrone_od"
  <2>1. ds.task = "od" /\ IsVdRoot(root)
    BY <1>6 DEF TaskOf, RootOK, IsVdRoot
  <2>2. Written(way, ds, root, append) = VdWriteOd(ds, root, way.split, way.preserve, <<>>)
    BY <1>6 DEF Written
  <2>3. IsVdRoot(Written(way, ds, root, append))
    BY <2>1, <2>2, VdWriteOdFacts
  <2>4. QED BY <1>6, <2>3 DEF RootOK, Looking, IsVdRoot
<1>7. CASE way.format = "visdrone_ic"
  <2>1. IsDataset(ds) /\ IsVdRoot(root)
    BY <1>7 DEF TaskOf, RootOK, DatasetOK, IsVdRoot
  <2>2. Written(way, ds, root, append) = VdWriteIc(ds, root, way.split, way.preserve, <<>>)
    BY <1>7 DEF Written
  <2>3. IsVdRoot(Written(way, ds, root, append))
    BY <2>1, <2>2, VdWriteIcFacts
  <2>4. QED BY <1>7, <2>3 DEF RootOK, Looking, IsVdRoot
<1>8. CASE way.format = "flat_images"
  <2>1. IsDataset(ds) /\ IsImages(root.images)
    BY <1>8 DEF TaskOf, RootOK, DatasetOK
  <2>2. Written(way, ds, root, append) = FlatWrite(ds, root)
    BY <1>8 DEF Written
  <2>3. QED BY <1>8, <2>1, <2>2, FlatWriteFacts DEF RootOK, Looking
<1>9. CASE way.format \in Moving
  <2>1. ds.task = "mot"
    BY <1>9 DEF TaskOf, Moving
  <2>2. RootOK(way.format, Written(way, ds, root, append))
    <3>1. CASE way.format = "mot"
      <4>1. Written(way, ds, root, append) = MotWrite(ds, root, way.split, way.preserve, way.source, <<>>)
        BY <3>1 DEF Written
      <4>2. QED BY <2>1, <3>1, <4>1, MotWriteFacts DEF RootOK
    <3>2. CASE way.format = "visdrone_video"
      <4>1. Written(way, ds, root, append)
              = VisWrite(ds, root, way.variant, way.split, way.preserve, way.source, <<>>)
        BY <3>2 DEF Written
      <4>2. QED BY <2>1, <3>2, <4>1, VisWriteFacts DEF RootOK
    <3>3. CASE way.format = "tao"
      <4>1. Written(way, ds, root, append) = TaoWrite(ds, root, way.split, way.preserve)
        BY <3>3 DEF Written
      <4>2. QED BY <2>1, <3>3, <4>1, TaoWriteFacts DEF RootOK
    <3>4. CASE way.format = "hmie"
      <4>1. Written(way, ds, root, append) = HmieWrite(ds, root, append)
        BY <3>4 DEF Written
      <4>2. QED BY <2>1, <3>4, <4>1, HmieWriteFacts DEF RootOK
    <3>5. CASE way.format = "flat_mp4"
      <4>1. Written(way, ds, root, append) = FlatMp4Write(ds, root)
        BY <3>5 DEF Written
      <4>2. QED BY <2>1, <3>5, <4>1, Mp4WriteFacts DEF RootOK
    <3>6. QED BY <1>9, <3>1, <3>2, <3>3, <3>4, <3>5 DEF Moving
  <2>3. QED BY <1>9, <2>2 DEF Looking, Moving
<1>10. CASE way.format = "hf_video"
  BY <1>10 DEF RootOK, Looking
<1>11. QED
  BY <1>1, <1>2, <1>3, <1>4, <1>5, <1>6, <1>7, <1>8, <1>9, <1>10, FormatsAreKnown DEF Still

\* The loader of a format makes a dataset of whatever root of the format, with a taxonomy that its
\* labels agree with.
LEMMA LoadedFacts ==
  ASSUME NEW format \in DOMAIN TaskOf, NEW root, RootOK(format, root),
         NEW source, format = "mot" => source \in {"gt", "det"}
  PROVE  LET ds == Loaded(format, root, source)
         IN  DatasetOK(ds) /\ (ds.task \in {"od", "ic"} => TaxonomyOK(ds))
<1>1. CASE format = "coco"
  BY <1>1, CocoLoadFacts DEF Loaded, RootOK
<1>2. CASE format = "yolo_od"
  BY <1>2, YoloLoadOdFacts DEF Loaded, RootOK
<1>3. CASE format = "yolo_ic"
  BY <1>3, YoloLoadIcFacts DEF Loaded, RootOK
<1>4. CASE format = "hf_od"
  BY <1>4, HfLoadOdFacts DEF Loaded, RootOK
<1>5. CASE format = "hf_ic"
  BY <1>5, HfLoadIcFacts DEF Loaded, RootOK
<1>6. CASE format = "visdrone_od"
  BY <1>6, VdLoadOdFacts DEF Loaded, RootOK, IsVdRoot
<1>7. CASE format = "visdrone_ic"
  BY <1>7, VdLoadIcFacts DEF Loaded, RootOK, IsVdRoot
<1>8. CASE format = "flat_images"
  BY <1>8, FlatLoadFacts DEF Loaded, RootOK
<1>9. CASE format = "mot"
  BY <1>9, MotLoadFacts, LoadersKeepTasks DEF Loaded, RootOK, TaskOf
<1>10. CASE format = "visdrone_video"
  BY <1>10, VisLoadFacts, LoadersKeepTasks DEF Loaded, RootOK, TaskOf
<1>11. CASE format = "tao"
  BY <1>11, TaoLoadFacts, LoadersKeepTasks DEF Loaded, RootOK, TaskOf
<1>12. CASE format = "hmie"
  BY <1>12, HmieLoadFacts DEF Loaded, RootOK
<1>13. CASE format = "flat_mp4"
  BY <1>13, Mp4LoadFacts, LoadersKeepTasks DEF Loaded, RootOK, TaskOf
<1>14. CASE format = "hf_video"
  <2>1. Loaded(format, root, source).task = "vc"
    BY <1>14, LoadersKeepTasks DEF TaskOf
  <2>2. QED BY <2>1 DEF DatasetOK
<1>15. QED
  BY <1>1, <1>2, <1>3, <1>4, <1>5, <1>6, <1>7, <1>8, <1>9, <1>10, <1>11, <1>12, <1>13, <1>14, FormatsAreKnown
  DEF Still, Moving

\* What the state keeps beside its types: a root is there when it is the newer, of a known format;
\* after a write the dataset in memory is still of the task of that format, and what was loaded from
\* a root has a taxonomy that its labels agree with.
Known(found) == /\ found.format \in DOMAIN TaskOf
                /\ found = [format |-> found.format, root |-> found.root]
ChainInv ==
  /\ TypeOK
  /\ disk # NoDisk => Known(disk)
  /\ at = "disk" => disk # NoDisk
  /\ adds = 0 \/ hops # <<>>
  /\ at = "disk" /\ hops # <<>> => data.task = TaskOf[disk.format]
  /\ at = "memory" /\ disk # NoDisk /\ data.task \in {"od", "ic"} => TaxonomyOK(data)
  /\ CocoDocumentsResolve

LEMMA KnownIsSome ==
  ASSUME NEW found, Known(found)
  PROVE  found # NoDisk
<1>1. "" \notin DOMAIN TaskOf
  BY DEF TaskOf
<1>2. NoDisk.format = ""
  BY DEF NoDisk
<1>3. QED BY <1>1, <1>2 DEF Known

LEMMA ChainInit == Init => ChainInv
<1> SUFFICES ASSUME Init PROVE ChainInv
  OBVIOUS
<1>1. hops = <<>> /\ hops \in Seq(Ways) /\ Len(hops) <= MaxHops
  BY BoundsAssumption DEF Init
<1>2. adds = 0 /\ adds \in 0 .. MaxAdds
  BY BoundsAssumption DEF Init
<1>3. mixed \in BOOLEAN /\ CocoDocumentsResolve
  BY <1>1 DEF Init, CocoDocumentsResolve
<1>4. CASE data \in Datasets /\ disk = NoDisk /\ at = "memory"
  <2>1. DatasetOK(data)
    BY <1>4, DataAssumption
  <2>2. QED BY <1>1, <1>2, <1>3, <1>4, <2>1 DEF ChainInv, TypeOK
<1>5. CASE disk \in Foreign /\ at = "disk"
  <2>1. Known(disk) /\ RootOK(disk.format, disk.root)
    BY <1>5, FormatsAssumption, DataAssumption DEF Known
  <2>2. disk # NoDisk
    BY <2>1, KnownIsSome
  <2>3. QED BY <1>1, <1>2, <1>3, <1>5, <2>1, <2>2 DEF ChainInv, TypeOK
<1>6. QED BY <1>4, <1>5 DEF Init

LEMMA LastIsOne ==
  ASSUME hops \in Seq(Ways), hops # <<>>
  PROVE  Last(hops) \in Ways
<1>1. Len(hops) \in Nat /\ Len(hops) # 0
  OBVIOUS
<1>2. Len(hops) \in 1 .. Len(hops)
  BY <1>1
<1>3. QED BY <1>2 DEF Last

\* What a write into an empty destination leaves.
LEMMA WriteStep ==
  ASSUME ChainInv, NEW way \in Ways, Write(way)
  PROVE  ChainInv'
<1>1. hops' = Append(hops, way) /\ hops \in Seq(Ways) /\ Len(hops) < MaxHops
  BY DEF Write, ChainInv, TypeOK
<1>2. hops' \in Seq(Ways) /\ Len(hops') <= MaxHops /\ hops' # <<>> /\ Last(hops') = way
  BY <1>1, BoundsAssumption DEF Last
<1>3. /\ way.format \in DOMAIN TaskOf /\ data.task = TaskOf[way.format] /\ DatasetOK(data)
      /\ way.format = "mot" => way.source \in {"gt", "det"}
  BY FormatsAssumption DEF Write, ChainInv, TypeOK
<1>4. RootOK(way.format, EmptyOf(way.format))
  BY <1>3, EmptyOfFacts
<1> DEFINE root == Written(way, data, EmptyOf(way.format), FALSE)
<1>5. RootOK(way.format, root) /\ (way.format = "coco" => CocoResolves(root, way.include))
  BY <1>3, <1>4, WrittenFacts
<1>6. disk' = [format |-> way.format, root |-> root] /\ at' = "disk"
      /\ data' = data /\ adds' = adds /\ mixed' = mixed
  BY DEF Write
<1> HIDE DEF root
<1>7. disk'.format = way.format /\ disk'.root = root
  BY <1>6
<1>8. Known(disk')
  BY <1>3, <1>6, <1>7 DEF Known
<1>9. disk' # NoDisk
  BY <1>8, KnownIsSome
<1>10. CocoDocumentsResolve'
  BY <1>2, <1>5, <1>7 DEF CocoDocumentsResolve
<1>11. TypeOK'
  BY <1>2, <1>5, <1>6, <1>7, <1>9 DEF ChainInv, TypeOK
<1>12. QED BY <1>2, <1>3, <1>6, <1>7, <1>8, <1>9, <1>10, <1>11 DEF ChainInv

\* What a write that adds to a root leaves, of the root and beside it.
LEMMA AddStep ==
  ASSUME ChainInv, NEW ds \in Datasets, AddTo(ds)
  PROVE  ChainInv' /\ (disk.format \in Looking => Extends(disk'.root.images, disk.root.images))
<1> DEFINE way == Last(hops)
           root == Written(way, ds, disk.root, TRUE)
<1>1. Known(disk) /\ hops # <<>> /\ at = "disk" /\ hops \in Seq(Ways)
  BY DEF AddTo, ChainInv, TypeOK
<1>2. way.format = disk.format /\ ds.task = TaskOf[disk.format] /\ RootOK(disk.format, disk.root)
  BY <1>1 DEF AddTo, ChainInv, TypeOK
<1>3. /\ disk.format \in DOMAIN TaskOf /\ DatasetOK(ds)
      /\ way.format = "mot" => way.source \in {"gt", "det"}
  <2>1. way \in Ways
    BY <1>1, LastIsOne
  <2>2. QED BY <1>1, <2>1, DataAssumption, FormatsAssumption DEF Known
<1>4. disk' = [disk EXCEPT !.root = root] /\ hops' = hops /\ at' = at /\ data' = data
  BY DEF AddTo
<1>5. RootOK(disk.format, root) /\ (disk.format \in Looking => Extends(root.images, disk.root.images))
      /\ (disk.format = "coco" => CocoResolves(root, way.include))
  <2> HIDE DEF way
  <2>1. QED BY <1>2, <1>3, WrittenFacts
<1>6. adds' \in 0 .. MaxAdds /\ mixed' \in BOOLEAN
  <2>1. mixed \in BOOLEAN /\ adds \in 0 .. MaxAdds
    BY DEF ChainInv, TypeOK
  <2>2. mixed' \in BOOLEAN
    BY <2>1, Zenon DEF AddTo
  <2>3. adds' = adds + 1 /\ adds < MaxAdds
    BY DEF AddTo
  <2>4. QED BY <2>1, <2>2, <2>3, BoundsAssumption
<1> HIDE DEF root
<1>7. disk' = [format |-> disk.format, root |-> root] /\ disk'.format = disk.format /\ disk'.root = root
  BY <1>1, <1>4 DEF Known
<1>8. Known(disk')
  BY <1>3, <1>7 DEF Known
<1>9. disk' # NoDisk
  BY <1>8, KnownIsSome
<1>10. CocoDocumentsResolve'
  BY <1>4, <1>5, <1>7 DEF CocoDocumentsResolve
<1>11. TypeOK'
  <2>1. hops' \in Seq(Ways) /\ Len(hops') <= MaxHops /\ hops' # <<>> /\ disk'.format = Last(hops').format
    BY <1>1, <1>2, <1>4, <1>7 DEF ChainInv, TypeOK
  <2>2. at' = "disk" /\ RootOK(disk'.format, disk'.root)
    BY <1>1, <1>4, <1>5, <1>7
  <2>3. QED BY <1>6, <1>9, <2>1, <2>2 DEF TypeOK
<1>12. ChainInv'
  BY <1>1, <1>2, <1>4, <1>7, <1>8, <1>9, <1>10, <1>11 DEF ChainInv, AddTo
<1>13. QED BY <1>5, <1>7, <1>12

LEMMA LoadStep ==
  ASSUME ChainInv, Load
  PROVE  ChainInv'
<1>1. Known(disk) /\ disk # NoDisk /\ RootOK(disk.format, disk.root)
  BY DEF Load, ChainInv, TypeOK
<1>2. disk.format \in DOMAIN TaskOf
  BY <1>1 DEF Known
<1> DEFINE way == Last(hops)
           source == IF hops # <<>> /\ "source" \in DOMAIN way THEN way.source ELSE "gt"
<1>3. data' = Loaded(disk.format, disk.root, source)
  BY DEF Load
<1>8. disk.format = "mot" => source \in {"gt", "det"}
  <2>1. hops # <<>> => way \in Ways /\ disk.format = way.format
    BY LastIsOne DEF ChainInv, TypeOK
  <2>2. QED BY <2>1, FormatsAssumption
<1> HIDE DEF source
<1>4. data'.task = TaskOf[disk.format]
  BY <1>2, <1>3, LoadersKeepTasks
<1>5. DatasetOK(data') /\ (data'.task \in {"od", "ic"} => TaxonomyOK(data'))
  BY <1>1, <1>2, <1>3, <1>8, LoadedFacts
<1>6. at' = "memory" /\ disk' = disk /\ hops' = hops /\ adds' = adds /\ mixed' = mixed
  BY DEF Load
<1>7. QED BY <1>1, <1>4, <1>5, <1>6 DEF ChainInv, TypeOK, CocoDocumentsResolve

LEMMA ChainStep == ChainInv /\ [Next]_vars => ChainInv'
<1> SUFFICES ASSUME ChainInv, [Next]_vars PROVE ChainInv'
  OBVIOUS
<1>1. ASSUME NEW way \in Ways, Write(way) PROVE ChainInv'
  BY <1>1, WriteStep
<1>2. ASSUME NEW ds \in Datasets, AddTo(ds) PROVE ChainInv'
  BY <1>2, AddStep
<1>3. CASE Load
  BY <1>3, LoadStep
<1>4. CASE UNCHANGED vars
  BY <1>4 DEF vars, ChainInv, TypeOK, CocoDocumentsResolve
<1>5. QED BY <1>1, <1>2, <1>3, <1>4 DEF Next

LEMMA ChainInvariance == Spec => []ChainInv
BY ChainInit, ChainStep, PTL DEF Spec

\* The state of every chain is one of the program: the root is of the format that was written last
\* and has what the loader of that format expects, and what was loaded from it is a dataset of the
\* task of that format which every writer of the task can read.
THEOREM ConversionTypes == Spec => []TypeOK
<1>1. ChainInv => TypeOK
  BY DEF ChainInv
<1>2. QED BY <1>1, ChainInvariance, PTL

\* The COCO document at the end of every chain of writes and loads resolves.
THEOREM CocoChainResolves == Spec => []CocoDocumentsResolve
<1>1. ChainInv => CocoDocumentsResolve
  BY DEF ChainInv
<1>2. QED BY <1>1, ChainInvariance, PTL

\* The taxonomy of what any chain loads has one entry per id, and is dense if it says so; a label that
\* refers to an entry has the name of that entry.
THEOREM TaxonomyStaysConsistent == Spec => []TaxonomyConsistent
<1>1. ASSUME ChainInv PROVE TaxonomyConsistent
  <2> SUFFICES ASSUME at = "memory" /\ disk # NoDisk, data.task \in {"od", "ic"}
               PROVE  /\ Distinct(data.entries, LAMBDA e : e.id)
                      /\ data.dense => \A i \in DOMAIN data.entries : data.entries[i].id = IntId(i - 1)
                      /\ \A l \in LabelsOf(data) : Fits(data.entries, l)
    BY DEF TaxonomyConsistent, Fits
  <2>1. TaxonomyOK(data)
    BY <1>1 DEF ChainInv
  <2>2. Distinct(data.entries, LAMBDA e : e.id)
    BY <2>1 DEF Distinct, TaxonomyOK, DistinctIds
  <2>3. ASSUME NEW l \in LabelsOf(data) PROVE Fits(data.entries, l)
    <3> DEFINE Labels(s) == IF data.task = "od" THEN s.dets ELSE s.labels
    <3>1. PICK i \in DOMAIN data.samples : l \in ToSet(Labels(data.samples[i]))
      BY DEF LabelsOf, ToSet
    <3>2. PICK j \in DOMAIN Labels(data.samples[i]) : l = Labels(data.samples[i])[j]
      BY <3>1 DEF ToSet
    <3>3. QED BY <2>1, <3>2 DEF TaxonomyOK
  <2>4. QED BY <2>1, <2>2, <2>3 DEF TaxonomyOK
<1>2. QED BY <1>1, ChainInvariance, PTL

\* Of whatever HMIE root a chain starts from or writes: a snippet in which the validator finds nothing,
\* whose two rates can be used, is loaded when videos are required, with every box that has numbers and
\* all of them on frames of the video.
THEOREM CleanRootsLoad == Spec => []CleanRootLoads
<1>1. ASSUME ChainInv PROVE CleanRootLoads
  <2>1. ASSUME at = "disk", disk.format = "hmie" PROVE IsHmieRoot(disk.root)
    BY <1>1, <2>1 DEF ChainInv, TypeOK, RootOK
  <2>2. QED BY <2>1, CleanSnippetLoads DEF CleanRootLoads, Numbered
<1>2. QED BY <1>1, ChainInvariance, PTL

\* Adding to a root with the writers that look at the files that are there leaves every image alone,
\* whatever the dataset and whatever chain made the root.
THEOREM AppendKeepsFilesHolds == Spec => AppendKeepsFiles
<1> DEFINE Keeping == at = "disk" /\ at' = "disk" /\ disk.format \in Looking =>
                        \A file \in DOMAIN disk.root.images :
                          file \in DOMAIN disk'.root.images /\ disk'.root.images[file] = disk.root.images[file]
<1>1. ASSUME ChainInv, [Next]_vars PROVE [Keeping]_vars
  <2>1. ASSUME NEW way \in Ways, Write(way) PROVE Keeping
    BY <2>1 DEF Write
  <2>2. ASSUME NEW ds \in Datasets, AddTo(ds) PROVE Keeping
    <3>1. disk.format \in Looking => Extends(disk'.root.images, disk.root.images)
      BY <1>1, <2>2, AddStep
    <3>2. QED BY <3>1 DEF Extends
  <2>3. CASE Load
    BY <2>3 DEF Load
  <2>4. QED BY <1>1, <2>1, <2>2, <2>3 DEF Next
<1>2. Spec => [][Keeping]_vars
  BY <1>1, ChainInvariance, PTL DEF Spec
<1>3. QED BY <1>2 DEF AppendKeepsFiles
==============================================================================
