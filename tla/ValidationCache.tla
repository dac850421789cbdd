-------------------------- MODULE ValidationCache --------------------------
(***************************************************************************)
(* _cache.ValidationCache: results of validating annotation/video pairs,   *)
(* kept in one SQLite database that several processes open at once.        *)
(*                                                                         *)
(* A pair stands for its annotation path, the key of the table.  A file is *)
(* its content version, which is also its fingerprint (fingerprint_file:   *)
(* hash, size and mtime), or Gone when it cannot be read, which is the     *)
(* fingerprint None.  A result is the contents the validation read: it is  *)
(* a function of them.                                                     *)
(*                                                                         *)
(* SQLite is external.  It is modelled as sqlite3.connect(timeout=5) with  *)
(* journal_mode=WAL is used: a statement that writes opens a transaction   *)
(* and takes the one write lock of the database until commit; when another *)
(* process holds it for longer than the timeout the statement raises, and  *)
(* the transaction it opened stays open.  A SELECT in such a transaction   *)
(* pins the snapshot it reads, and a pinned connection cannot write once   *)
(* another has committed.                                                  *)
(***************************************************************************)
EXTENDS Naturals, Sequences, FiniteSets

CONSTANTS
  Procs,      \* processes that share the database
  Pairs,      \* annotation/video pairs
  MaxVersion, \* bound: the newest content version
  BatchSize,  \* pending writes that force a commit: 50 in the code
  Gone,       \* a file that cannot be read
  Unread,     \* the video of a result that did not check it
  Crash,      \* a result that holds a worker_crash finding
  Garbage,    \* a stored result that does not deserialize
  NoRow

ASSUME BatchAssumption == BatchSize \in Nat \ {0}
ASSUME VersionAssumption == MaxVersion \in Nat

Versions == 0..MaxVersion
Contents == Versions \cup {Gone}
Result == [ann : Contents, vid : Contents \cup {Unread}]
Row == [ann : Versions, vid : Contents, checked : BOOLEAN, result : Result \cup {Garbage}]

ASSUME MarkersAssumption ==
  /\ Garbage \notin Result /\ NoRow \notin Row
  /\ Gone \notin Versions

VARIABLES
  file,  \* Pairs -> the contents of the annotation and of the video
  disk,  \* Pairs -> the committed row
  db     \* Procs -> the process's ValidationCache

cacheVars == <<file, disk, db>>

NoRows == [x \in Pairs |-> NoRow]
Closed == [open |-> FALSE, tx |-> "none", snap |-> NoRows, pending |-> NoRows,
           writes |-> 0, hits |-> 0, misses |-> 0]

\* The rows a SELECT of process p sees.
View(p) ==
  [x \in Pairs |-> IF db[p].pending[x] # NoRow THEN db[p].pending[x]
                   ELSE IF db[p].tx \in {"pinned", "stale"} THEN db[p].snap[x]
                   ELSE disk[x]]

\* May a statement of p take the write lock now?
CanWrite(p) == db[p].tx # "stale" /\ \A q \in Procs \ {p} : db[q].tx # "writing"

\* A SELECT in a transaction that has read nothing yet pins its snapshot.
Selected(p) ==
  IF db[p].tx = "begun" THEN [db[p] EXCEPT !.tx = "pinned", !.snap = disk] ELSE db[p]

\* A statement that could not take the lock leaves its transaction open.
Refused(d) == IF d.tx = "none" THEN [d EXCEPT !.tx = "begun"] ELSE d

\* COMMIT: p's record becomes d with no transaction, snapshots of others go stale.
Committed(p, d) ==
  [q \in Procs |->
    IF q = p THEN [d EXCEPT !.tx = "none", !.snap = NoRows, !.pending = NoRows]
    ELSE IF db[q].tx = "pinned" THEN [db[q] EXCEPT !.tx = "stale"] ELSE db[q]]

Overlay(pending) == [x \in Pairs |-> IF pending[x] # NoRow THEN pending[x] ELSE disk[x]]

Set(p, d) == db' = [db EXCEPT ![p] = d]
Miss(d) == [d EXCEPT !.misses = @ + 1]

-----------------------------------------------------------------------------
(* ValidationCache.__init__, lookup, store *)

\* __init__, and clear() when --clean is given; without the database the
\* process goes on with _db = None.
OpenCache(p, clean) ==
  \/ Set(p, Closed) /\ UNCHANGED disk
  \/ /\ ~clean
     /\ Set(p, [Closed EXCEPT !.open = TRUE]) /\ UNCHANGED disk
  \/ /\ clean /\ CanWrite(p)
     /\ disk' = NoRows
     /\ db' = Committed(p, [Closed EXCEPT !.open = TRUE])
  \/ /\ clean /\ ~CanWrite(p)
     /\ Set(p, Refused([Closed EXCEPT !.open = TRUE])) /\ UNCHANGED disk

\* Faulty variant: a row validated without the video serves every lookup.
Matches_AnyDepth(row, f, check_video) ==
  /\ row # NoRow
  /\ row.ann = f.ann
  /\ f.vid # Gone => row.vid = f.vid

\* The row still describes the files: the video's fingerprint is compared only
\* when there is one.
Matches(row, f, check_video) ==
  /\ row # NoRow
  /\ row.ann = f.ann
  /\ f.vid # Gone => row.vid = f.vid
  /\ check_video => row.checked

Found(p, x, check_video) ==
  db[p].open /\ file[x].ann # Gone /\ Matches(View(p)[x], file[x], check_video)

\* The caller takes the result from View(p)[x].
LookupHit(p, x, check_video) ==
  /\ Found(p, x, check_video) /\ View(p)[x].result # Garbage
  /\ Set(p, [Selected(p) EXCEPT !.hits = @ + 1])
  /\ UNCHANGED disk

\* A row that does not deserialize is deleted and the deletion committed, with
\* whatever else was pending; its sqlite3.Error is suppressed.
LookupEvict(p, x, check_video) ==
  /\ Found(p, x, check_video) /\ View(p)[x].result = Garbage
  /\ IF CanWrite(p)
     THEN /\ disk' = [Overlay(db[p].pending) EXCEPT ![x] = NoRow]
          /\ db' = Committed(p, Miss(db[p]))
     ELSE Set(p, Miss(Refused(Selected(p)))) /\ UNCHANGED disk

LookupMiss(p, x, check_video) ==
  /\ ~Found(p, x, check_video)
  /\ Set(p, Miss(IF db[p].open /\ file[x].ann # Gone THEN Selected(p) ELSE db[p]))
  /\ UNCHANGED disk

RowOf(f, result, check_video) ==
  [ann |-> f.ann, vid |-> f.vid, checked |-> check_video, result |-> result]

\* Faulty variant: rows are committed only by the end of the command.
Store_NoBatching(p, x, result, check_video) ==
  LET f == file[x]
  IN IF ~db[p].open \/ f.ann = Gone THEN UNCHANGED <<disk, db>>
     ELSE IF ~CanWrite(p) THEN Set(p, Refused(db[p])) /\ UNCHANGED disk
     ELSE /\ Set(p, [db[p] EXCEPT !.tx = "writing", !.writes = @ + 1,
                                  !.pending[x] = RowOf(f, result, check_video)])
          /\ UNCHANGED disk

\* Faulty variant: a row is stored although the annotation has no fingerprint.
Store_Unreadable(p, x, result, check_video) ==
  LET d == [db[p] EXCEPT !.tx = "writing", !.writes = @ + 1,
                         !.pending[x] = RowOf(file[x], result, check_video)]
  IN IF ~db[p].open THEN UNCHANGED <<disk, db>>
     ELSE IF ~CanWrite(p) THEN Set(p, Refused(db[p])) /\ UNCHANGED disk
     ELSE Set(p, d) /\ UNCHANGED disk

\* The fingerprints are taken now, after the validation.  At BatchSize writes
\* the transaction is committed; a lock not obtained in time drops the row.
Store(p, x, result, check_video) ==
  LET f == file[x]
      d == [db[p] EXCEPT !.tx = "writing", !.writes = @ + 1,
                         !.pending[x] = RowOf(f, result, check_video)]
  IN IF ~db[p].open \/ f.ann = Gone THEN UNCHANGED <<disk, db>>
     ELSE IF ~CanWrite(p) THEN Set(p, Refused(db[p])) /\ UNCHANGED disk
     ELSE IF d.writes >= BatchSize
          THEN /\ disk' = Overlay(d.pending)
               /\ db' = Committed(p, [d EXCEPT !.writes = 0])
          ELSE Set(p, d) /\ UNCHANGED disk

-----------------------------------------------------------------------------
(* flush, close and the end of a process *)

\* Faulty variant: the connection is closed with its transaction open.
Close_NoFlush(p) ==
  Set(p, [Closed EXCEPT !.hits = db[p].hits, !.misses = db[p].misses]) /\ UNCHANGED disk

\* close() flushes: it commits when writes are pending, then closes.
Close(p) ==
  LET d == [Closed EXCEPT !.hits = db[p].hits, !.misses = db[p].misses]
  IN IF db[p].writes > 0 /\ db[p].tx = "writing"
     THEN disk' = Overlay(db[p].pending) /\ db' = Committed(p, d)
     ELSE Set(p, d) /\ UNCHANGED disk

\* The process dies: SQLite rolls the open transaction back.
Abandon(p) == Set(p, Closed) /\ UNCHANGED disk

\* Another program rewrites a row: a bad write, schema drift or a manual edit.
CorruptRow(x) ==
  /\ \A p \in Procs : db[p].tx = "none"
  /\ disk[x] # NoRow
  /\ disk' = [disk EXCEPT ![x].result = Garbage]
  /\ UNCHANGED <<file, db>>
=============================================================================
