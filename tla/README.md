# A TLA+ model of datamaite

datamaite loads, validates, converts and writes computer-vision datasets, on local disks and
on object stores. Most of it is sequential Python. What makes it hard to test is at its edges:
writes to a store that has no transactions, a validation run that shares a SQLite cache with
other runs and farms its work out to processes that may die, deletions that must not reach what
is about to be read, a discovery that must account for every file of trees it cannot trust, and a dozen formats
that number, name and split the same data in as many ways, between which datasets are converted.
This directory models those edges, checks them with TLC and proves the results that matter most
with TLAPS.

## The system

| Component | State it keeps | Operations | Hard behaviour |
|---|---|---|---|
| Object-store replace (`writers._write_remote_staged_replace`, `_io.copy_resource`, `remove_tree`) | objects below dest, a staging and a backup prefix; two flags | stage, inventory, back up, clear, promote, roll back, drop the prefixes | copies run on a thread pool; any call may fail, and the caller may be interrupted or killed in between |
| Object-store error-mode write (`writers._write_remote_error`) | objects below dest and a staging prefix | check, stage, check again, promote, undo | nothing locks dest against other calls |
| Local write and conversion (`writers.write`, `conversion.convert`, `_io.is_within`) | the file system | refuse, load, validate, guard, list, clear, write | symbolic links; order of checks and deletions; other programs |
| Result cache (`_cache.ValidationCache`) | one SQLite table; a connection and a batch of uncommitted rows per process | lookup, evict, store, flush, close | snapshots, lock timeouts, kills and signals, files that change or become unreadable |
| Validation run (`validation._validate_hmie`, `_cli._cmd_validate`) | pairs looked up, submitted, delivered; reports per batch | look up, submit, collect, store, next batch, SIGINT | process pool, completion order, dead workers, interrupts |
| HMIE discovery (`_formats/hmie/discovery.py`) | the stack of the walk and what it has collected | find batches, walk, pair, list orphans | unreadable, failing and linked directories; two ways of pairing |
| Findings and verdict (`validation._FindingAccumulator`, `_cli._multi_exit_code`) | counts, kept findings, error flag, results of batches | add, build a result, exit | caps, several batches |
| Registries and detection (`loaders.py`, `writers.py`) | registered classes by task, format and variant | register, look up, detect | ambiguous lookups |
| Formats (`_formats/*`) | none but the files of a root | load, validate for writing, write, add to a root | id remapping, name collisions, frame and track numbering, rounding, splits, one after the other in a chain of conversions |
| HMIE checks (`annotation_checks.py`, `video_checks.py`, `consistency_checks.py`, `frame_mapping.py`) | none | check a pair | arithmetic on frame rates and durations |
| Dataset model and MAITE adapters (`model.py`, `maite/*`) | datasets, lazily decoded items | index, decode, convert | index mapping |
| SafeTensors reader, statistics, report rendering | none | parse, aggregate, render | mostly layout |

`convert` loads with a loader and calls `write`. `write` validates, guards and hands over to one
of three destination paths: local, remote error mode, remote replace. `validate` calls the
discovery, looks every pair up in the cache, sends the rest to the pool, stores what comes back
and turns everything into findings. The command line adds the batches, the cache's life time,
the SIGINT handler and the exit code.

What makes each part correct:

* a replace never loses the old dataset before the new one is whole, and never lies about which
  of the two dest holds;
* an error-mode write leaves completed datasets of others, and nothing of its own when it fails;
* no write deletes before it is accepted, outside dest, or what its dataset leads to;
* a cached result is the one a validation would return, and rows get lost only with the process;
* a run accounts for each pair exactly once and ends;
* the walk finds what is there, and each annotation is paired once, with a video of its batch;
* the exit code tells what was found;
* a conversion keeps what its format can hold, makes nothing up, keeps tracks and splits, and its
  references resolve, whatever formats the dataset has been through;
* the validator agrees with the HMIE writer, whose output of sound data it passes, and with the
  loader, which puts every box of what it passes on a frame of the video.

`PROJECT.json` lists the hazards behind these, each with its line and the properties about it.

## Modules

| Module | Models | Checked by |
|---|---|---|
| `RemoteReplace` | `_write_remote_staged_replace` with the helpers it calls | `MCRemoteReplace` |
| `ReplaceContract` | the promise of its docstring, abstractly | refined by `RemoteReplace` |
| `RemoteReplaceProofs` | theorems about `RemoteReplace` | TLAPS |
| `RemoteError` | several `_write_remote_error` at once | `MCRemoteError` |
| `RemoteErrorProofs` | theorems about `RemoteError` | TLAPS |
| `LocalWrite` | `convert` and `write` to a local directory | `MCLocalWrite` |
| `LocalWriteProofs` | theorems about `LocalWrite` | TLAPS |
| `ValidationCache` | `ValidationCache` and SQLite as it uses it | through `ValidationRun` |
| `ValidationRun` | extends it with `_validate_hmie`, the pool and the command | `MCValidationRun` |
| `ValidationRunProofs` | theorems about the cache and the run | TLAPS |
| `Discovery` | `discover_hmie_pairs`, `find_batch_roots` | through `HmieValidate` |
| `HmieValidate` | extends it with findings, cap, batches and exit code | `MCHmieValidate` |
| `HmieValidateProofs` | theorems about the walk, pairing, findings and exit code | TLAPS |
| `Collections` | lists made of sets and of other lists: in an order, kept in part, sorted by a key | through `Conversion` |
| `ImageData`, `VideoData` | what the formats share: records, names, boxes, taxonomy, sequences, frames | through `Conversion` |
| `IdAllocator` | `_IdAllocator` of the COCO and TAO writers | through `Conversion` |
| `Coco`, `Yolo`, `HfVision`, `VisDroneStatic` | loaders and writers of the still-image formats, flat images included | through `Conversion` |
| `MotChallenge`, `VisDroneVideo`, `Tao`, `HmieVideo`, `HfVideo` | those of the video formats, flat MP4 included | through `Conversion` |
| `FrameMapping` | which frame a key means, which frames the video checks look at | through `Conversion` |
| `HmieChecks` | extends `HmieVideo` with the checks of one annotation and its video | through `Conversion` |
| `DatasetFacts` | what a dataset says, which of it a format can hold, the types of datasets and roots, what a document must satisfy | through `Conversion` |
| `FormatProofs` | facts about sequences, names, sets and taxonomies; theorems about `IdAllocator`, `FrameMapping` and the documents of `Coco`; what the loaders and writers of the flat formats, of Hugging Face, YOLO, MOTChallenge and VisDrone video make | TLAPS |
| `Conversion` | the registries' choice, `write`, `load`, and chains of them | `MCConversion` |
| `ConversionProofs` | what the loaders and writers of VisDrone images, TAO and HMIE and the COCO loader make; that the HMIE loader agrees with the validator; theorems about chains of writes and loads | TLAPS |
| `Loops` | loops over a sequence and searches for a free name, for any body, invariant and test | TLAPS |

### How they correspond to the code

`RemoteReplace`. `dest`, `stage` and `backup` map names to what the object is: of the old
dataset, of the new one, torn, or of another program. `pc` is the statement of the `try`,
`except` and `finally`, `destination_mutated` and the two completion flags are the code's own
variables (`promotion_complete` is the successful return). `pool` is the
`ThreadPoolExecutor` of `_copy_resource_pairs`: the parent notices the first failed copy,
cancels what is queued, and leaves the `with` block when the running copies have settled. A put
that fails leaves nothing, or a torn object when the removal in `copy_resource` fails too. A
`KeyboardInterrupt` skips `except Exception`, not `finally`; a kill skips both. Other programs put
objects below dest at any time.

`RemoteError` uses the same pool for each of several calls; an object is named by the call that
put it, so that "whose object is this" can be asked.

`LocalWrite`. A file system is a tree of nodes, some of them links; `Resolve` follows them all.
A call is a record of its arguments; `valid` says whether the writer exists and accepts the
dataset and the options. Each check is one action in the code's order, clearing is one action per
entry (which may also fail half way), and other programs create and delete files all along.

`ValidationCache`. A pair's row holds the fingerprints, whether the video was checked, and the
result. A fingerprint is the content version; a result is the versions the validation read. The
connection's state is the SQLite one the code can get into: no transaction, begun, holding the
write lock, pinned to a snapshot, or stale because another process has committed since. The write lock has a
timeout; a store refused by it raises, and the code's `except` leaves the transaction open.

`ValidationRun`. `run[p]` is the state of one command: its batch, the pairs to look up, those to
validate, the task state of each pair in the pool, the answers accumulated, the reports. Submission
is a loop of its own, so that a worker may die while it runs. Processes run several commands, and
files change between them (or during them, with `EditsDuringRuns`). A process dies in two ways: `Kill`
is what no program can answer, `Terminate` is SIGTERM, for which `_cli.py` installs no handler. Both
abandon the connection with its uncommitted rows; `Interrupt` is SIGINT, whose handler flushes.

`Discovery`. Directories and files are numbers in the order of their sorted paths: the least of a
set stands for the first of a sorted list, and for the top of the stack, which holds children in
reverse order. `flaw` is what goes wrong with a directory: `unreadable` (its listing raises
`OSError`), `throttled` (another exception), `nostat` (`is_dir` raises), `symlink`.
`Visit` is one turn of `_walk` with the body of `_collect_files`; `Pair` is everything after the
walk. A JSON's `Embeds` are the video names the anchored search finds in its name.

`HmieValidate`. `counts`, `kept` and `hasError` are the accumulator. `FindBatches` is
`_cmd_validate`: two batches or more are validated one by one, otherwise the whole tree.

The format modules are pure: a loader is an operator from a root to a dataset, a writer one from
a dataset and the root that is there to the root after. They follow the code function by function,
as folds over samples or boxes where the code loops. An image is which image it is and how it is
encoded; a name is its directories, stem, counters and extension, so that "a", "A" and "a_2" can
clash as they do; a box has one dimension, on a grid of which `Step` is the last digit a YOLO label
keeps; a frame is a pair of video and index. A split or class name is one of a few strings that
the aliases and tables tell apart. Sets that the code sorts are put into one fixed order
(`InOrder`): which one is never relied on.

`HmieChecks`. A finding is a check with the track it is about. Rates count half frames per second,
the unit of the tolerance between two of them: 0 stands for a rate that is there and cannot be
used, `NoRate` for one that is not there. The `form` of a snippet is how its annotation is wrapped:
a task, a task whose keys occur twice, bare tracks, or something that cannot be read. The `faults`
of a video say what a seek to a frame finds instead of a picture. A box out of the ordinary is named
for the rule it breaks: "negative", "beyond", "flat", "missing", "nan".

`Conversion`. `data` is the dataset in memory, `disk` the root, `at` which of the two was made
last. `Write` is `write` into an empty destination, `AddTo` the mode append, `Load` is `load` of
everything in the root. The other variables are history: `origin` the facts that went into the
chain, `expected` those the last write could hold, `tracks` those that make a track.

`DatasetFacts` is the vocabulary of the properties, and the reference the formats are measured
against. A fact is a class at a place of an image (or an image, or the split of an image), and
means the same in every format. `Holds` says which facts a format can hold: YOLO has no box of zero width, MOTChallenge ground truth is of
a track and of a class, VisDrone has twelve classes, a flat folder has no boxes. Which frames and
images a writer goes over plays no part in it: a picture is expected for every frame that can be read, and a box on
any of them, so that what a writer leaves out is a loss (the run `conversion_gap` has one). What a
value becomes is not restated: whether YOLO can hold a box is asked of its path in the root (`OdImageRel`,
hidden or not), of its class (`Resolve`) and of the geometry (`ToYolo`), the number and class of a
MOTChallenge or VisDrone track of `MotTrack` and `ResolveClass`, the names of files and classes of
`HfFileName` and `ClassName`, all operators of the formats themselves. A fault there that drops a fact would
escape `NothingLost`; one that changes a fact would not, as facts are compared with those of the dataset. The
following losses are the code's and are left out there as well: YOLO declares the splits train, val and
test only, and not the split of an image in a directory below it, and cannot read the size of a TIFF or
WebP file; an image classification loader does not look below a hidden name.

## Runs

| Run | Instance | Shows |
|---|---|---|
| `remote_replace` | old {o, b}, new {b, n}, others put {f, n}, two copy threads | no old object lost before the new dataset is whole; a whole backup when dest is left damaged; all or nothing; the refinement of `ReplaceContract`; the call ends |
| `remote_error` | two calls, one shared name | completed datasets survive calls that had not begun to promote; a call that raised leaves nothing; calls end |
| `remote_error_race` | the same | *finding*: two calls past the second check, the one that fails deletes the other's object |
| `local_write` | eleven nodes with three links, all destinations, modes, inputs | nothing deleted before acceptance, outside dest, or that a record leads to |
| `local_write_links` | the same | *finding*: a link below dest that leads out of it is deleted although a record names it |
| `validation` | two commands on one database, at once or one after the other with files edited in between; two pairs, of which one command makes two batches; one fault | each pair once; results fresh; rows honest; rows lost only by a death and fewer than a batch; every command ends |
| `validation_broken_pool` | one batch of two pairs, one fault | *finding*: a worker that dies during submission ends the command |
| `validation_sigterm` | one pair, one SIGTERM | *finding*: the uncommitted row is lost, although the flush at exit is there for SIGTERM too |
| `validation_unreadable` | one pair, two runs, an edit between them | *finding*: a video that became unreadable between two runs is served the result of the first |
| `hmie_validate` | seventeen directories, fourteen files, seven directories optional, one of seven flawed in one of four ways, caps 0 and 1 | the walk is complete, pairing is sound, orphans fail the command, the exit code is right |
| `conversion` | eleven datasets, eleven roots of other tools, twenty-two ways to write, three writes and one addition | what a format can hold comes back, with its splits and tracks; nothing is made up; documents resolve; a second round trip changes nothing; adding keeps the images; what is written as HMIE passes the validator, and what passes it loads on its own frames |
| `conversion_gap` | a VisDrone sequence of frames 0 and 2, written as VisDrone | *finding*: the last frame and its box are lost |

Why the bounds are enough. The replace needs a name that is only old, one only new, one in both
and one another program uses; two threads give a copy that runs while another fails. The
error-mode write needs two calls with a name in common. The local file system has a link to a
file, one to a directory that leads out of dest, one to dest itself, and dest above, below and
beside the source. In the cache runs `BatchSize` is 2 instead of 50, so that the commit happens
and is missed with two pairs; `MaxVersion`, `MaxRuns` and `MaxFaults` bound edits, commands and
crashes, one fault being enough for each kind in turn. In `validation` each of the two processes runs one
command: the second over the same pairs is the rerun when the first has ended, and its rival when not. The trees hold each layout the code
distinguishes: labeler, own and batch-level scale directory, two `seq_*` directories, two videos
in one, a name embedded in a longer one, one name in two batches, a metadata directory. Three writes bring a dataset from any format through any
other into a third; the datasets have two images of one name, two that differ in case and two that
differ in the extension only, sparse and missing ids, boxes at and beyond the edge, on and off the
grid, two sequences whose names become one, a track of two boxes, a box beyond the last frame; the
roots have ids twice (a TAO document two images of one id, in two directories), references to nothing, tables that disagree with names and detections of no
track; the HMIE snippets have rates that differ from their videos', an annotation rate of zero, a
last key one past the end, bare tracks, an annotation that cannot be read and one out of order.

`CHECK_DEADLOCK FALSE` is given in every run: each of these programs ends.

**Fairness.** `Call` and `Command` are weakly fair in the runs with liveness: a thread or a
process that can take a step of the call eventually does. That is the operating system's
scheduling, and the store's calls return or raise. Nothing is assumed of interrupts, kills, other
programs, edits, or of which of several outcomes a step has. In particular a copy that failed is
not assumed to succeed some day. `Terminates` of the runs is `[]<>~Active`: a process may start
another command, and each of them ends.

## Proofs

`RemoteReplaceProofs`, for every finite set of names, every old, new and foreign
subset of it (with `Old` and `Foreign` disjoint) and every number of threads:

* `TypeCorrect`, `RecoverableThm`, `BackupWholeThm`, `AllOrNothingThm`: the invariants of the run;
* `Refinement`: `Spec => ImplementsContract`, the initial state and every step mapped to the
  contract.

The invariants are not inductive. `IInv` adds what each phase has achieved: which flags hold where
(`IFlags`), that dest is intact or the backup whole (`IContents`), that a copy not owed by the
pool any more is in its place (`IBackup`, `IPromote`, `IRestore`), that what was cleared stays
cleared but for other programs' objects (`IClear`), and that the staged dataset is complete once
the writer has returned (`IStage`). One step per action, typing apart.

`LocalWriteProofs`, for every tree, links and modes that satisfy `TreeAssumption` and
`LinksAssumption` (a node's ancestors are transitively closed and acyclic, links are resolved
completely): `AcceptedThm`, `ClearedThm`, `InputsThm`. The invariant says what each guard has
established by the time the clearing starts, and that the entries still to clear and the nodes
already gone lie strictly below dest; `SubtreeBelow` and `ChildrenBelow` carry this through.
`TypeCorrect` adds the type of every variable.

`RemoteErrorProofs`, for every set of calls, every dataset of each and every number of copy
threads: `TypeCorrect`, `RaisedLeavesNothingHolds`, `CompletedSurvivesHolds`. The invariant has
three parts: outcome and pool follow the statements (`IFlow`); the objects of a call are nowhere
before it promotes, then among the names it promotes, and after a raise among those it could not
remove (`IOwn`, which says it of the queued and running copies too: a copy that is still running
when the first one fails is the case a test would hardly reach); a call that no other disturbs has
put what its pool does not owe any more (`IWhole`). `CompletedSurvives` is not an invariant but
speaks of two moments; `Settles` is what holds at the first and is kept by every step, since a call
that begins later finds dest occupied.

`ValidationRunProofs`, for every number of processes, pairs, batches, workers and runs. Assumed of
the constants: versions, bounds and markers are what their names say, a command has at least one
batch, and discovery yields each pair in one batch and once in it (`PlanAssumption`).
The argument has three layers.

* `IInv`: a connection that is not writing has nothing pending, and one that is has as many rows as
  it counts (`Tidy`); a command works on the pairs of its batch alone (`Fits`); a row waits only
  while its command runs, and only of a pair already delivered or of an earlier batch (`Waits`), so
  that a pair is never stored over its own pending row. This gives `TypeCorrect`,
  `UncommittedBoundedHolds` and `OnlyDeathLosesHolds`.
* `HInv` adds that rows say what they were computed from and that what a worker has read is what the
  files are (`AllHonest`, `Current`). It needs `~EditsDuringRuns`, the hypothesis of
  `RowsDescribeFilesHolds`: `store` takes the fingerprints after the validation, so that a file
  rewritten in between leaves a row that vouches for what was never read.
* `AllSure` adds that what was accumulated is still true, for `ResultsAreFreshHolds`.

`EachPairOnceHolds`, of the same module. Of every pair of the batch at work, `Working` says that
it is to be looked up, or missed, or answered, that one still to be answered has no result, and
that later batches are untouched; `Counted` says what is left of this when the command has ended. It
covers hits, evicted rows, crashed workers and pools that break during the submission.

`FormatProofs`, about the formats' operators on any data:

* `AllocateIsFresh`, for every allocator and preferred id. That an unused number exists at all is
  where finiteness is needed (`FirstUnused` is a `CHOOSE`): the numbers up to the size of a finite
  set are not all in it (`SomeUnused`).
* `CocoDocumentResolves`: the document that `CocoWrite` makes of any dataset, and of whatever root
  it is added to, has ids once each, annotations that refer to an image of it, and copies with names that
  differ in more than case.
  The writer is a loop over samples with one over detections inside. `CocoInv` says of the document
  so far that the ids given are those in it, that the allocators have seen them, and that each
  annotation refers to an image already there; `AnnotationLoop` says the same of the inner loop.
* `LastKeySuffices`, that a track whose last key is inside the video is inside altogether (the
  validator maps no other key), for all rates; `EqualRatesAreIdentity`, which the HMIE writer relies
  on when it writes one rate twice; and `SamplesSpread`, that the frames looked at are frames of the
  video other than the first, in order and no two the same, and that the last of them is at most
  nine from the end.

A loop over a sequence is a fold, and a fold is by definition a recursive function over the sets of
indices. `Loops` proves once, with the body and the invariant of the loop as constants of the module,
that what each turn keeps holds at the end (`LoopInvariant`), by induction on how many of the elements
it has been over: the prefixes form a sequence of states of which each is a step from the one before
(`PrefixFacts`, `Turns`). In the same way a search that counts up finds the first free name, once
some count is known to be free (`SearchFinds`). A proof about a loop or a search of the model takes an
instance of `Loops` with its own body, invariant and test. The induction theorems of the library
take an operator as a parameter and cannot be cited; a set of naturals and its least element do
as well (`LeastNatural`, `UpTo`).

`ConversionProofs`: `ConversionTypes`, `CocoChainResolves`, `AppendKeepsFilesHolds`,
`TaxonomyStaysConsistent` and `CleanRootsLoad`, for every set of datasets, roots of other tools and ways to write, and all bounds. Assumed is that each way
and each root is of a format there is, and that MOTChallenge is written to one of its two files (`FormatsAssumption`), and that the
datasets and the roots that go into a chain have their types (`DataAssumption`). `DatasetFacts` says what
these are: samples, taxonomies and rows are lists, images are finitely many and have names, an id is
an integer, a string or none; a sequence has finitely many frames, boxes at frames of some number and an
integral rate, a video file has a length, and the key of a box in an HMIE annotation is a number
(`DatasetOK`; `RootOK` per format). Nothing is assumed of the ids of a
taxonomy or a track, of the names of labels, of rates, or of whether a box lies on a frame there is.

The argument is that the types go round. For each of the thirteen formats of images and of tracks one lemma says that
its writer leaves a root of the format, in whatever root of the format it writes
(`WrittenFacts` brings them together), and one that its loader makes a dataset of whatever root of the
format, other tools' included (`LoadedFacts`). A writer is a loop over the samples, often with a loop
over detections or rows inside and with a search for a free name; each is an instance of `Loops` with its own
invariant (`OdInv`, `HfOdInv`, `VdAcc`, `BuilderOK`, ...). For the writers that look at the files that are there the
invariant says also that every image is still what it was: this holds because the name of a copy is
one that the search found free in the root, not in the call, and is what `AppendKeepsFilesHolds`
needs. Nothing is claimed of the other writers, which may replace an image of another dataset.
`ChainInv` adds that a root is there whenever it is the newer of the two, that between two writes
into one root the dataset in memory is still of its task, and that a COCO root resolves: by
`CocoDocumentResolves` of any dataset that is typed, and by `LoadedFacts` all are. Of the classification
of videos only the task is proved: the type of its datasets says nothing.

`CleanRootsLoad` is where two parts of the code that never meet have to agree. The validator looks at the
last key of each track alone, with the rate it has measured; the loader maps every key, with the rate
it has measured when videos are required, and drops what has no numbers. That a snippet without a finding is loaded
whole rests on four facts about what the absence of each finding means (`CleanSnippetFacts`: a video that
opens, a rate that can be used, no track that is empty or of another shape, no box with a field missing,
the last key inside the video), on `LastKeySuffices`, and on what the loader makes of
boxes and snippets (`HmieBoxesFacts`, `HmieLoadFacts`). `ChainInv` gives that the root is a root of snippets,
whether another tool or a chain of conversions made it.

`TaxonomyStaysConsistent` is `TaxonomyConsistent` of every dataset that a chain loads. It rests on
what the loader does alone, whatever the root says, so `LoadedFacts` has `TaxonomyOK` beside the type.
The loaders get there by different ways. COCO keeps the first category of an id and names an annotation
by looking its category up. So does YOLO, in the numbered names of `data.yaml` that are not blank or, if it
has none, in the classes that are used; VisDrone has a fixed table and drops a row whose class is not in it. The Hugging Face detection
loader is the one where it could go wrong: ids and names come from a table that may be partial, from
rows of other files, some of which give numbers and some names. `AssignIdsFacts` shows that a name gets
its place in the table, or an id that is above all in use and that no other name gets;
`HfOdEntriesFacts`, that the entry of an id has the name that the detections with this id end up with.
The classification loader numbers the sorted names; a flat directory has neither entries nor labels.

`HmieValidateProofs`, for every finite tree with directories numbered in the order of their sorted
paths, so that parents come first (`TreeAssumption`), without directories whose parents are missing
(`RunAssumption`), and for every cap. Of the verdict: `TypeCorrect`, `OrphanFailsHolds`,
`ExitCodeTellsHolds`. The properties look back over the batches of a
command whose accumulator is reset for each, so the invariant says what of it has got into the
results: `hasError` is that the counts, kept or not, have an error (`AccOK`), a batch that has
passed the report of its discovery without an error has no orphan (`OrphanOK`), and a result that
passed has none (`ResultsOK`).

Of the walk: `WalkIsCompleteHolds`, `PairedWithinBatchHolds`, `EachAnnotationOnceHolds`,
`BatchesAgreeHolds`. The code has no record of where it has been, only a stack. `Stack` says that a
path from the base down meets the stack at most once, and that what is on it is owed; `Collected`,
that the walk has collected exactly what lies in the directories it owes and that are neither on the
stack nor below it. A visit replaces one directory by its children and keeps both. When the stack is empty
the second is completeness. `PairsOK` carries the pairs of a batch through to the report, `BatchesOK`
says that batches are apart from each other, so that no annotation is reported from two of them.

Only model-checked: liveness (the prover has no `ENABLED`), and of the conversion run what is said of the
facts of a dataset (`NothingLost`, `NothingInvented`, `SplitsKept`, `TracksPreserved`,
`RoundTripStable`), which compares a loader with a writer fact by fact, and is checked of the datasets
of the instance, since what each format can hold is written in its terms; the documents of TAO, since a
theorem would have to assume of the datasets what a document does not give back (one category per
track, frames of a sequence with names of their own: an annotation keeps its own category, and names
that are kept may coincide); and `WrittenValidates`, which would need of every dataset that no two of its
sequences have the same id, and that the frames of a video are the frames its file decodes to.

## What the models leave out

* `RemoteReplace`: a second Ctrl-C while the pool shuts down; errors other than `OSError` in the
  `finally` clause; objects the writer leaves in the staging prefix without returning them; the
  destination check that precedes the call.
* `LocalWrite`: what the writer puts below dest; the bucket-root refusal of remote replaces.
* `ValidationCache`: the schema-version upgrade, of which there has been none.
* `Discovery`: trees that change during the walk; case folding of extensions; snippet counts; a
  root that is not a directory.
* `HmieChecks`: a missing decoder; a video that disappears between discovery and check, has no
  count or size, or whose first frame does not decode; rates that are not finite, and those given
  as extras; blank labels; which key occurs twice. An annotation that cannot be read, is too large
  or is of another shape is one case.
* Formats: sorting by the letters of a name, where only that the order is fixed is modelled (the directories of
  TAO frames without a declared index, Hugging Face rows within a split); two videos of one id in
  a TAO document; the `-copy` names of the Hugging Face writers are modelled, but no run converts a
  dataset into the directory it lies in. `CocoResolves` says nothing of categories: the writer copies an id
  of a category that no entry declares.
* Symbolic-link loops, and paths that name a link's target below the link.
* Everything in the table of components that has no module: see the plan.

Differences between code and documentation that no run is devoted to: `find_batch_roots` follows
links and looks into metadata directories although its docstring calls its rule the same as the
walk's (`BatchesAgree` says exactly what the difference is); one entry of a store that fails ends
the command in `find_batch_roots`, before the walk that would pass over it; with
`--max-findings-per-check 0` a run with warnings exits with 0; once a root has two batches,
snippets deeper in the tree are no longer validated; and the result of a batch takes the cache
counters of the connection (`validation.py:462`), which go on counting, so that the second batch of a
command reports the lookups of the first as its own (`_types.py:370-372`) and the aggregate
(`_report.py:202-203`) counts them twice. `reports` of `ValidationRun` shows it; `test_report.py:429-435`
sums batches that were counted apart.

Of the HMIE checks: the writer calls its fallback of both rates to 1.0 an identity, but the loader
with `require_video` maps keys by the rate of the video, and the validator warns of it. Without
`require_video` the loader maps by the declared rate and the validator by the measured one, so that
a snippet without a finding may load with boxes past its last frame (`CleanRootLoads` is about the
former). Sampling "uniformly across the video" leaves up to eight frames at its end unseen: of 19
frames, the ten after the first are looked at. A coordinate that is not a number gives no finding,
and the loader drops its box.

## Plan

Done: the destination paths, cache and run, discovery and verdict, the formats and their
composition. Left:

1. HMIE checks (done for one snippet): `HmieChecks` in place of the free choice of `ValidatePairs`;
   categories and the merged report.
2. Registries, in place of `Loaded` and `Written` and of `valid` in `LocalWrite`: registration,
   ambiguous lookups, detection order.
3. The MAITE adapters: index mapping and lazily decoded items.
4. Proofs about chains: that the documents of TAO resolve, by the way taken for COCO, of datasets
   with one category per track; that what a YOLO or COCO root holds comes back (`NothingLost`); that
   what is written as HMIE passes the validator, of datasets whose sequences have ids of their own.
