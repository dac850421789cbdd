------------------------- MODULE ValidationRunProofs -------------------------
(***************************************************************************)
(* What the result cache of `datamaite validate` may lose, proved for any  *)
(* number of commands, batches, pairs and workers and any batch size: the  *)
(* lemmas follow one operation of the cache after the other, then the      *)
(* steps of a command that call them.                                      *)
(***************************************************************************)
EXTENDS ValidationRun, FiniteSetTheorems, TLAPS

Rows == [Pairs -> Row \cup {NoRow}]
Transactions == {"none", "begun", "pinned", "stale", "writing"}
DbType == [open : BOOLEAN, tx : Transactions, snap : Rows, pending : Rows,
           writes : Nat, hits : Nat, misses : Nat]

\* The pairs whose rows a process has not committed yet.
Held(d) == {x \in Pairs : d.pending[x] # NoRow}

\* Uncommitted rows are counted, keep the transaction open and can be read back.
Tidy(d) ==
  /\ d.writes < BatchSize
  /\ Held(d) # {} => d.tx = "writing" /\ d.writes > 0
  /\ \A x \in Held(d) : d.pending[x].result # Garbage
  /\ IsFiniteSet(Held(d)) /\ Cardinality(Held(d)) <= d.writes

CacheOK == disk \in Rows /\ db \in [Procs -> DbType] /\ \A p \in Procs : Tidy(db[p])

\* What a step does to the uncommitted rows of p, and of the other processes.
Saves(p) == \A x \in Held(db[p]) : db'[p].pending[x] # NoRow \/ disk'[x] = db[p].pending[x]
OthersKept(p) == \A q \in Procs \ {p} : db'[q].pending = db[q].pending

-----------------------------------------------------------------------------
(* Changes of a process's record *)

\* A record without uncommitted rows is in order when its count is.
LEMMA EmptyTidy ==
  ASSUME NEW d, Held(d) = {}, d.writes \in Nat, d.writes < BatchSize
  PROVE  Tidy(d)
BY FS_EmptySet DEF Tidy

\* So is one that differs from an orderly record in its counters of lookups, or in a snapshot
\* pinned where nothing was written.
LEMMA SameTidy ==
  ASSUME NEW d \in DbType, Tidy(d), NEW e \in DbType,
         e.pending = d.pending, e.writes = d.writes,
         e.tx = d.tx \/ d.tx # "writing"
  PROVE  Tidy(e)
<1>1. Held(e) = Held(d)
  BY DEF Held
<1>2. QED BY <1>1 DEF Tidy

\* Setting the record of a process leaves those of the others.
LEMMA SetTidy ==
  ASSUME CacheOK, NEW p \in Procs, NEW d \in DbType, Tidy(d), Set(p, d), disk' \in Rows
  PROVE  CacheOK' /\ OthersKept(p) /\ db'[p] = d
BY DEF CacheOK, Set, OthersKept

\* A commit empties p's transaction and only pins down the snapshots of the others.
LEMMA CommitTidy ==
  ASSUME CacheOK, NEW p \in Procs, NEW d \in DbType, d.writes < BatchSize,
         db' = Committed(p, d), disk' \in Rows
  PROVE  /\ CacheOK' /\ OthersKept(p) /\ Held(db'[p]) = {}
         /\ db'[p].hits = d.hits /\ db'[p].misses = d.misses
<1> DEFINE e == [d EXCEPT !.tx = "none", !.snap = NoRows, !.pending = NoRows]
<1>1. e \in DbType /\ Held(e) = {} /\ e.writes = d.writes
  BY DEF DbType, NoRows, Rows, Held, Transactions
<1>2. Tidy(e)
  BY <1>1, EmptyTidy DEF DbType
<1>3. ASSUME NEW q \in Procs, q # p
      PROVE  db'[q] \in DbType /\ Tidy(db'[q]) /\ db'[q].pending = db[q].pending
  <2> DEFINE f == [db[q] EXCEPT !.tx = "stale"]
  <2>1. db[q] \in DbType /\ Tidy(db[q])
    BY DEF CacheOK
  <2>2. f \in DbType /\ f.pending = db[q].pending /\ f.writes = db[q].writes /\ f.tx = "stale"
    BY <2>1 DEF DbType, Transactions
  <2>3. CASE db[q].tx = "pinned"
    <3>1. Tidy(f)
      BY <2>1, <2>2, <2>3, SameTidy
    <3>2. QED BY <1>3, <2>2, <2>3, <3>1 DEF Committed
  <2>4. CASE db[q].tx # "pinned"
    BY <1>3, <2>1, <2>4 DEF Committed
  <2>5. QED BY <2>3, <2>4
<1>4. db'[p] = e
  BY DEF Committed
<1>5. DOMAIN db' = Procs /\ db' = [q \in Procs |-> db'[q]]
  BY DEF Committed
<1>6. db' \in [Procs -> DbType]
  BY <1>1, <1>3, <1>4, <1>5
<1>7. e.hits = d.hits /\ e.misses = d.misses
  BY DEF DbType
<1> HIDE DEF e
<1>8. QED BY <1>1, <1>2, <1>3, <1>4, <1>6, <1>7 DEF CacheOK, OthersKept

-----------------------------------------------------------------------------
(* The operations of the cache *)

\* What an operation of process p may do: no row of anybody is lost, and none comes to wait but
\* those of the pairs in new.
Harmless(p, new) ==
  CacheOK' /\ OthersKept(p) /\ Saves(p) /\ Held(db'[p]) \subseteq Held(db[p]) \cup new

\* A change of p's record that leaves its rows and its transaction is harmless.
LEMMA QuietChange ==
  ASSUME CacheOK, NEW p \in Procs, NEW d \in DbType, Set(p, d), UNCHANGED disk,
         d.pending = db[p].pending, d.writes = db[p].writes,
         d.tx = db[p].tx \/ db[p].tx # "writing"
  PROVE  Harmless(p, {})
<1>1. db[p] \in DbType /\ Tidy(db[p])
  BY DEF CacheOK
<1>2. Tidy(d)
  BY <1>1, SameTidy
<1>3. CacheOK' /\ OthersKept(p) /\ db'[p] = d
  BY <1>2, SetTidy DEF CacheOK
<1>4. QED BY <1>3 DEF Harmless, Saves, Held

\* A SELECT, and a statement that does not get the lock, leave the rows and a writing transaction.
LEMMA SelectedQuiet ==
  ASSUME CacheOK, NEW p \in Procs
  PROVE  /\ Selected(p) \in DbType
         /\ Selected(p).pending = db[p].pending /\ Selected(p).writes = db[p].writes
         /\ Selected(p).tx = db[p].tx \/ db[p].tx # "writing"
<1>1. db[p] \in DbType
  BY DEF CacheOK
<1>2. QED BY <1>1 DEF Selected, CacheOK, DbType, Transactions

\* A statement that SQLite refuses adds nothing to what is uncommitted.
LEMMA RefusedQuiet ==
  ASSUME NEW d \in DbType
  PROVE  /\ Refused(d) \in DbType
         /\ Refused(d).pending = d.pending /\ Refused(d).writes = d.writes
         /\ Refused(d).tx = d.tx \/ d.tx # "writing"
BY DEF Refused, DbType, Transactions

\* A lookup that misses adds nothing to what is uncommitted.
LEMMA MissQuiet ==
  ASSUME NEW d \in DbType
  PROVE  /\ Miss(d) \in DbType
         /\ Miss(d).pending = d.pending /\ Miss(d).writes = d.writes /\ Miss(d).tx = d.tx
BY DEF Miss, DbType

\* A lookup that hits.
LEMMA HitHarmless ==
  ASSUME CacheOK, NEW p \in Procs, NEW x \in Pairs, NEW b \in BOOLEAN, LookupHit(p, x, b)
  PROVE  Harmless(p, {})
<1> DEFINE d == [Selected(p) EXCEPT !.hits = @ + 1]
<1>1. Selected(p) \in DbType
  BY SelectedQuiet
<1>2. d \in DbType /\ d.pending = Selected(p).pending /\ d.writes = Selected(p).writes
      /\ d.tx = Selected(p).tx
  BY <1>1 DEF DbType
<1>3. Set(p, d) /\ UNCHANGED disk
  BY DEF LookupHit
<1> HIDE DEF d
<1>4. QED BY <1>2, <1>3, SelectedQuiet, QuietChange

\* lookup that misses.
LEMMA MissHarmless ==
  ASSUME CacheOK, NEW p \in Procs, NEW x \in Pairs, NEW b \in BOOLEAN, LookupMiss(p, x, b)
  PROVE  Harmless(p, {})
<1>1. db[p] \in DbType
  BY DEF CacheOK
<1>2. PICK d \in {Selected(p), db[p]} : Set(p, Miss(d)) /\ UNCHANGED disk
  BY DEF LookupMiss
<1>3. d \in DbType /\ d.pending = db[p].pending /\ d.writes = db[p].writes
      /\ (d.tx = db[p].tx \/ db[p].tx # "writing")
  BY <1>1, SelectedQuiet
<1>4. /\ Miss(d) \in DbType /\ Miss(d).pending = db[p].pending /\ Miss(d).writes = db[p].writes
      /\ Miss(d).tx = db[p].tx \/ db[p].tx # "writing"
  BY <1>3, MissQuiet
<1>5. QED BY <1>2, <1>4, QuietChange

\* lookup that evicts a row: the commit takes the rows of this process along, and the evicted one
\* is none of them, since what a process has stored deserializes.
LEMMA EvictHarmless ==
  ASSUME CacheOK, NEW p \in Procs, NEW x \in Pairs, NEW b \in BOOLEAN, LookupEvict(p, x, b)
  PROVE  Harmless(p, {})
<1>1. db[p] \in DbType /\ Tidy(db[p])
  BY DEF CacheOK
<1>2. CASE CanWrite(p)
  <2>1. /\ disk' = [Overlay(db[p].pending) EXCEPT ![x] = NoRow]
        /\ db' = Committed(p, Miss(db[p]))
    BY <1>2 DEF LookupEvict
  <2>2. disk' \in Rows
    BY <1>1, <2>1 DEF CacheOK, Rows, Overlay, DbType
  <2>3. Miss(db[p]) \in DbType /\ Miss(db[p]).writes < BatchSize
    BY <1>1, MissQuiet DEF Tidy
  <2>4. CacheOK' /\ OthersKept(p) /\ Held(db'[p]) = {}
    BY <2>1, <2>2, <2>3, CommitTidy
  <2>5. View(p)[x].result = Garbage
    BY DEF LookupEvict
  <2>6. x \notin Held(db[p])
    BY <1>1, <2>5 DEF View, Held, Tidy
  <2>7. \A y \in Held(db[p]) : disk'[y] = db[p].pending[y]
    BY <2>1, <2>6 DEF Held, Overlay
  <2>8. QED BY <2>4, <2>7 DEF Harmless, Saves
<1>3. CASE ~CanWrite(p)
  <2> DEFINE d == Refused(Selected(p))
  <2>1. /\ d \in DbType /\ d.pending = db[p].pending /\ d.writes = db[p].writes
        /\ d.tx = db[p].tx \/ db[p].tx # "writing"
    BY SelectedQuiet, RefusedQuiet
  <2>2. Set(p, Miss(d)) /\ UNCHANGED disk
    BY <1>3 DEF LookupEvict
  <2> HIDE DEF d
  <2>3. /\ Miss(d) \in DbType /\ Miss(d).pending = db[p].pending
        /\ Miss(d).writes = db[p].writes /\ (Miss(d).tx = db[p].tx \/ db[p].tx # "writing")
    BY <2>1, MissQuiet
  <2>4. QED BY <2>2, <2>3, QuietChange
<1>4. QED BY <1>2, <1>3

\* A record with another row, one more write and an open transaction has its type.
LEMMA WritingTyped ==
  ASSUME NEW d \in DbType, NEW r \in Rows
  PROVE  [d EXCEPT !.tx = "writing", !.writes = @ + 1, !.pending = r] \in DbType
<1>1. \A n \in Nat : [d EXCEPT !.tx = "writing", !.writes = n, !.pending = r] \in DbType
  BY DEF DbType, Transactions
<1>2. d.writes + 1 \in Nat
  BY DEF DbType
<1>3. QED BY <1>1, <1>2

\* store of a pair whose row is not waiting already: the new row waits with the others, or all are
\* committed.
LEMMA StoreHarmless ==
  ASSUME CacheOK, NEW p \in Procs, NEW x \in Pairs, NEW result \in Result, NEW b \in BOOLEAN,
         file[x] \in [ann : Contents, vid : Contents],
         x \notin Held(db[p]), Store(p, x, result, b)
  PROVE  Harmless(p, {x})
<1> DEFINE row == RowOf(file[x], result, b)
           d == [db[p] EXCEPT !.tx = "writing", !.writes = @ + 1, !.pending[x] = row]
<1>1. db[p] \in DbType /\ Tidy(db[p])
  BY DEF CacheOK
<1>2. CASE ~db[p].open \/ file[x].ann = Gone
  <2>1. UNCHANGED <<disk, db>>
    BY <1>2 DEF Store
  <2>2. QED BY <2>1 DEF Harmless, CacheOK, OthersKept, Saves, Held
<1>3. CASE ~(~db[p].open \/ file[x].ann = Gone) /\ ~CanWrite(p)
  <2>1. Set(p, Refused(db[p])) /\ UNCHANGED disk
    BY <1>3 DEF Store
  <2>2. Harmless(p, {})
    BY <1>1, <2>1, RefusedQuiet, QuietChange
  <2>3. QED BY <2>2 DEF Harmless
<1>4. CASE ~(~db[p].open \/ file[x].ann = Gone) /\ CanWrite(p)
  <2>1. row \in Row /\ row.result = result /\ row # NoRow /\ result # Garbage
    BY <1>4, MarkersAssumption DEF RowOf, Row, Contents
  <2> HIDE DEF row
  <2>2. /\ d \in DbType /\ d.tx = "writing" /\ d.writes = db[p].writes + 1
        /\ d.pending = [db[p].pending EXCEPT ![x] = row]
    <3>1. [db[p].pending EXCEPT ![x] = row] \in Rows
      BY <1>1, <2>1 DEF DbType, Rows
    <3>2. d.tx = "writing" /\ d.writes = db[p].writes + 1
      BY <1>1 DEF DbType
    <3>3. d.pending = [db[p].pending EXCEPT ![x] = row]
      BY <1>1 DEF DbType
    <3>4. d \in DbType
      <4>1. PICK r \in Rows : r = [db[p].pending EXCEPT ![x] = row]
        BY <3>1
      <4>2. d = [db[p] EXCEPT !.tx = "writing", !.writes = @ + 1, !.pending = r]
        BY <4>1
      <4>3. [db[p] EXCEPT !.tx = "writing", !.writes = @ + 1, !.pending = r] \in DbType
        BY <1>1, WritingTyped
      <4>4. QED BY <4>2, <4>3
    <3>5. QED BY <3>2, <3>3, <3>4
  <2>3. CASE d.writes >= BatchSize
    <3>1. disk' = Overlay(d.pending) /\ db' = Committed(p, [d EXCEPT !.writes = 0])
      BY <1>4, <2>3 DEF Store, row
    <3> HIDE DEF d
    <3>2. [d EXCEPT !.writes = 0] \in DbType /\ [d EXCEPT !.writes = 0].writes < BatchSize
      BY <2>2, BatchAssumption DEF DbType
    <3>3. disk' \in Rows
      BY <2>2, <3>1 DEF CacheOK, Rows, Overlay, DbType
    <3>4. CacheOK' /\ OthersKept(p) /\ Held(db'[p]) = {}
      BY <3>1, <3>2, <3>3, CommitTidy
    <3>5. \A y \in Held(db[p]) : d.pending[y] = db[p].pending[y] /\ d.pending[y] # NoRow
      BY <1>1, <2>2 DEF Held, DbType, Rows
    <3>6. \A y \in Held(db[p]) : disk'[y] = db[p].pending[y]
      BY <3>1, <3>5 DEF Overlay, Held
    <3>7. QED BY <3>4, <3>6 DEF Harmless, Saves
  <2>4. CASE ~(d.writes >= BatchSize)
    <3>1. Set(p, d) /\ UNCHANGED disk
      BY <1>4, <2>4 DEF Store, row
    <3> HIDE DEF d
    <3>2. Held(d) = Held(db[p]) \cup {x}
      BY <1>1, <2>1, <2>2 DEF Held, DbType, Rows
    <3>3. IsFiniteSet(Held(d)) /\ Cardinality(Held(d)) = Cardinality(Held(db[p])) + 1
      BY <1>1, <3>2, FS_AddElement DEF Tidy
    <3>4. Cardinality(Held(db[p])) \in Nat
      BY <1>1, FS_CardinalityType DEF Tidy
    <3>5. Cardinality(Held(d)) <= d.writes /\ d.writes > 0 /\ d.writes < BatchSize
      BY <1>1, <2>2, <2>4, <3>3, <3>4, BatchAssumption DEF Tidy, DbType
    <3>6. \A y \in Held(d) : d.pending[y].result # Garbage
      BY <1>1, <2>1, <2>2, <3>2 DEF Tidy, DbType, Rows
    <3>7. Tidy(d)
      BY <2>2, <3>3, <3>5, <3>6 DEF Tidy
    <3>8. CacheOK' /\ OthersKept(p) /\ db'[p] = d
      BY <2>2, <3>1, <3>7, SetTidy DEF CacheOK
    <3>9. \A y \in Held(db[p]) : d.pending[y] # NoRow
      BY <3>2 DEF Held
    <3>10. QED BY <3>2, <3>8, <3>9 DEF Harmless, Saves
  <2>5. QED BY <2>3, <2>4
<1>5. QED BY <1>2, <1>3, <1>4

\* A connection just opened, and one closed, holds no rows.
LEMMA ClosedTidy ==
  ASSUME NEW d \in DbType, d.pending = NoRows, d.writes = 0
  PROVE  Tidy(d) /\ Held(d) = {}
<1>1. Held(d) = {}
  BY DEF Held, NoRows
<1>2. QED BY <1>1, EmptyTidy, BatchAssumption

\* The process dies: the transaction is rolled back.
LEMMA AbandonTidy ==
  ASSUME CacheOK, NEW p \in Procs, Abandon(p)
  PROVE  CacheOK' /\ OthersKept(p) /\ Held(db'[p]) = {}
<1>1. Closed \in DbType /\ Closed.pending = NoRows /\ Closed.writes = 0
  BY DEF Closed, DbType, Transactions, Rows, NoRows
<1>2. Set(p, Closed) /\ disk' = disk
  BY DEF Abandon
<1>3. QED BY <1>1, <1>2, ClosedTidy, SetTidy DEF CacheOK

\* close, at the end of a command or from the SIGINT handler.
LEMMA CloseHarmless ==
  ASSUME CacheOK, NEW p \in Procs, Close(p)
  PROVE  Harmless(p, {}) /\ Held(db'[p]) = {}
<1> DEFINE d == [Closed EXCEPT !.hits = db[p].hits, !.misses = db[p].misses]
<1>1. db[p] \in DbType /\ Tidy(db[p])
  BY DEF CacheOK
<1>2. d \in DbType /\ d.pending = NoRows /\ d.writes = 0
  BY <1>1 DEF Closed, DbType, Transactions, Rows, NoRows
<1>3. Tidy(d) /\ Held(d) = {} /\ d.writes < BatchSize
  <2> HIDE DEF d
  <2>1. QED BY <1>2, ClosedTidy, BatchAssumption
<1>4. CASE db[p].writes > 0 /\ db[p].tx = "writing"
  <2>1. disk' = Overlay(db[p].pending) /\ db' = Committed(p, d)
    BY <1>4 DEF Close
  <2>2. disk' \in Rows
    BY <1>1, <2>1 DEF CacheOK, Rows, Overlay, DbType
  <2> HIDE DEF d
  <2>3. CacheOK' /\ OthersKept(p) /\ Held(db'[p]) = {}
    BY <1>2, <1>3, <2>1, <2>2, CommitTidy
  <2>4. \A y \in Held(db[p]) : disk'[y] = db[p].pending[y]
    BY <2>1 DEF Overlay, Held
  <2>5. QED BY <2>3, <2>4 DEF Harmless, Saves
<1>5. CASE ~(db[p].writes > 0 /\ db[p].tx = "writing")
  <2>1. Set(p, d) /\ disk' = disk
    BY <1>5 DEF Close
  <2> HIDE DEF d
  <2>2. CacheOK' /\ OthersKept(p) /\ db'[p] = d
    BY <1>2, <1>3, <2>1, SetTidy DEF CacheOK
  <2>3. Held(db[p]) = {}
    BY <1>1, <1>5 DEF Tidy
  <2>4. QED BY <1>3, <2>2, <2>3 DEF Harmless, Saves
<1>6. QED BY <1>4, <1>5

\* A command opens the cache, and clears it with --clean.
LEMMA OpenHarmless ==
  ASSUME CacheOK, NEW p \in Procs, Held(db[p]) = {}, NEW clean \in BOOLEAN, OpenCache(p, clean)
  PROVE  Harmless(p, {})
<1> DEFINE d == [Closed EXCEPT !.open = TRUE]
<1>1. Saves(p)
  BY DEF Saves
<1>2. \A e \in {Closed, d} : e \in DbType /\ e.pending = NoRows /\ e.writes = 0
  <2>1. Closed \in DbType /\ Closed.pending = NoRows /\ Closed.writes = 0
    BY DEF Closed, DbType, Transactions, Rows, NoRows
  <2>2. d \in DbType /\ d.pending = NoRows /\ d.writes = 0
    BY <2>1 DEF DbType
  <2>3. QED BY <2>1, <2>2
<1>3. /\ Refused(d) \in DbType /\ Refused(d).pending = NoRows /\ Refused(d).writes = 0
  BY <1>2, RefusedQuiet
<1>4. ASSUME NEW e \in {Closed, d, Refused(d)}, Set(p, e), disk' = disk PROVE Harmless(p, {})
  <2>1. Tidy(e) /\ e \in DbType /\ Held(e) = {}
    BY <1>2, <1>3, ClosedTidy
  <2>2. QED BY <1>1, <1>4, <2>1, SetTidy DEF Harmless, CacheOK
<1>5. ASSUME disk' = NoRows, db' = Committed(p, d) PROVE Harmless(p, {})
  <2>1. disk' \in Rows /\ d \in DbType /\ d.writes < BatchSize
    BY <1>2, <1>5, BatchAssumption DEF Rows, NoRows
  <2>2. QED BY <1>1, <1>5, <2>1, CommitTidy DEF Harmless
<1>6. QED BY <1>4, <1>5 DEF OpenCache

\* Another program rewrites a row.
LEMMA CorruptTidy ==
  ASSUME CacheOK, NEW x \in Pairs, CorruptRow(x)
  PROVE  CacheOK' /\ UNCHANGED db
<1>1. disk[x] \in Row /\ disk' = [disk EXCEPT ![x].result = Garbage] /\ UNCHANGED db
  BY DEF CorruptRow, CacheOK, Rows
<1>2. [disk[x] EXCEPT !.result = Garbage] \in Row
  BY <1>1 DEF Row
<1>3. disk' \in Rows
  BY <1>1, <1>2 DEF CacheOK, Rows
<1>4. QED BY <1>1, <1>3 DEF CacheOK

-----------------------------------------------------------------------------
(* The state of a command *)

Answer == Result \cup {Crash}
Phases == {"idle", "lookup", "serial", "submit", "collect", "closing", "escaping",
           "done", "escaped", "interrupted", "killed", "terminated"}
States == {"none", "queued", "running", "finished", "delivered"}
Reports == [kind : {"result", "validate_crash"}, hits : Nat, misses : Nat]
RunType == [pc : Phases, check_video : BOOLEAN, use_cache : BOOLEAN, batch : Nat,
            todo : Seq(Pairs), uncached : Seq(Pairs), unsubmitted : Seq(Pairs),
            broken : BOOLEAN, task : [Pairs -> States], got : [Pairs -> Answer],
            answers : [Pairs -> Seq(Answer)], reports : Seq(Reports), runs : Nat]

Running(r) == r.pc \notin {"idle", "done", "escaped", "interrupted", "killed", "terminated"}
PairsOf(p, k) == {Plan[p][k][i] : i \in DOMAIN Plan[p][k]}

\* A command works on the pairs of its batch alone, and delivers none before all are looked up and
\* sent to the pool.
Fits(p, r) ==
  /\ Running(r) =>
       /\ r.batch \in DOMAIN Plan[p]
       /\ {r.todo, r.uncached, r.unsubmitted} \subseteq Seq(PairsOf(p, r.batch))
       /\ \A x \in Pairs : r.task[x] # "none" => x \in PairsOf(p, r.batch)
       /\ r.pc \in {"lookup", "submit"} => \A x \in Pairs : r.task[x] # "delivered"
  /\ \A x \in Pairs : r.task[x] = "running" => r.got[x] \in Result

\* A row waits only while its command runs, and is of a pair that is delivered or of an earlier
\* batch: one that is not delivered yet has none.
Waits(p, r, held) ==
  IF Running(r)
  THEN \A x \in held : r.task[x] = "delivered" \/ \E k \in 1..(r.batch - 1) : x \in PairsOf(p, k)
  ELSE held = {}

EnvOK == /\ file \in [Pairs -> [ann : Contents, vid : Contents]]
         /\ edits \in 0..MaxVersion /\ faults \in 0..MaxFaults

IInv ==
  /\ CacheOK /\ EnvOK
  /\ run \in [Procs -> RunType]
  /\ \A p \in Procs : Fits(p, run[p]) /\ Waits(p, run[p], Held(db[p]))

\* Batches are sequences of pairs, and one after the other they are all of the plan.
LEMMA PlanTyping ==
  ASSUME NEW p \in Procs
  PROVE  /\ 1 \in DOMAIN Plan[p] /\ Len(Plan[p]) \in Nat /\ DOMAIN Plan[p] = 1..Len(Plan[p])
         /\ \A k \in DOMAIN Plan[p] :
              /\ Plan[p][k] \in Seq(Pairs) /\ Plan[p][k] \in Seq(PairsOf(p, k))
              /\ PairsOf(p, k) \subseteq Pairs
<1>1. Plan[p] \in Seq(Seq(Pairs)) /\ Plan[p] # <<>>
  BY PlanAssumption
<1>2. \A k \in DOMAIN Plan[p] : Plan[p][k] \in Seq(Pairs)
  BY <1>1
<1>3. \A k \in DOMAIN Plan[p] : Plan[p][k] \in Seq(PairsOf(p, k)) /\ PairsOf(p, k) \subseteq Pairs
  BY <1>2 DEF PairsOf
<1>4. 1 \in DOMAIN Plan[p] /\ Len(Plan[p]) \in Nat /\ DOMAIN Plan[p] = 1..Len(Plan[p])
  BY <1>1
<1>5. QED BY <1>2, <1>3, <1>4

\* A pair is of one batch.
LEMMA OneBatch ==
  ASSUME NEW p \in Procs, NEW k \in DOMAIN Plan[p], NEW l \in DOMAIN Plan[p],
         NEW x \in PairsOf(p, k), x \in PairsOf(p, l)
  PROVE  k = l
BY PlanAssumption DEF PairsOf

\* The state in which a batch begins.
LEMMA BatchFits ==
  ASSUME NEW p \in Procs, NEW r \in RunType, NEW k \in DOMAIN Plan[p]
  PROVE  /\ Batch(r, k, p) \in RunType /\ Fits(p, Batch(r, k, p))
         /\ Running(Batch(r, k, p)) /\ Batch(r, k, p).batch = k
<1> DEFINE todo == IF r.use_cache THEN Plan[p][k] ELSE <<>>
           rest == IF r.use_cache THEN <<>> ELSE Plan[p][k]
           b == [r EXCEPT !.pc = "lookup", !.batch = k, !.broken = FALSE, !.task = NoTask,
                          !.todo = todo, !.uncached = rest, !.unsubmitted = <<>>]
<1>1. k \in Nat /\ {todo, rest, <<>>} \subseteq Seq(Pairs) /\ {todo, rest, <<>>} \subseteq Seq(PairsOf(p, k))
  BY PlanTyping
<1>2. NoTask \in [Pairs -> States] /\ \A x \in Pairs : NoTask[x] = "none"
  BY DEF NoTask, States
<1>3. Batch(r, k, p) = b
  BY DEF Batch
<1> HIDE DEF todo, rest
<1>4. b \in RunType
  BY <1>1, <1>2 DEF RunType, Phases
<1>5. /\ b.pc = "lookup" /\ b.batch = k /\ b.task = NoTask
      /\ b.todo = todo /\ b.uncached = rest /\ b.unsubmitted = <<>>
  BY DEF RunType
<1> HIDE DEF b
<1>6. Fits(p, b) /\ Running(b)
  BY <1>1, <1>2, <1>5 DEF Fits, Running
<1>7. QED BY <1>3, <1>4, <1>5, <1>6

\* A step of p that leaves its state and its rows in order leaves the invariant.
LEMMA RunStep ==
  ASSUME IInv, NEW p \in Procs, NEW r \in RunType, Become(p, r), Fits(p, r),
         CacheOK', EnvOK', OthersKept(p), Waits(p, r, Held(db'[p]))
  PROVE  IInv'
<1>1. run' \in [Procs -> RunType] /\ run'[p] = r /\ \A q \in Procs \ {p} : run'[q] = run[q]
  BY DEF IInv, Become
<1>2. ASSUME NEW q \in Procs PROVE Fits(q, run'[q]) /\ Waits(q, run'[q], Held(db'[q]))
  <2>1. CASE q = p
    BY <1>1, <2>1
  <2>2. CASE q # p
    <3>1. Held(db'[q]) = Held(db[q])
      BY <2>2 DEF OthersKept, Held
    <3>2. QED BY <1>1, <2>2, <3>1 DEF IInv
  <2>3. QED BY <2>1, <2>2
<1>3. \A q \in Procs : Fits(q, run[q])' /\ Waits(q, run[q], Held(db[q]))'
  BY <1>2 DEF Fits, Waits, Held
<1>4. QED BY <1>1, <1>3 DEF IInv

-----------------------------------------------------------------------------
(* The steps of a command *)

\* What a step of p keeps: the invariant, and the rows of everybody but of a process that dies.
Sound(p) == IInv' /\ OthersKept(p) /\ (Saves(p) \/ run'[p].pc \in Deaths)

\* Where the cache is left alone the rows are.
LEMMA CacheAlone ==
  ASSUME CacheOK, NEW p \in Procs, UNCHANGED <<disk, db>>
  PROVE  CacheOK' /\ OthersKept(p) /\ Saves(p) /\ Held(db'[p]) = Held(db[p])
BY DEF CacheOK, OthersKept, Saves, Held

\* A step that leaves the cache alone is sound when p's new state is in order.
LEMMA QuietStep ==
  ASSUME IInv, NEW p \in Procs, NEW r \in RunType, Become(p, r), Fits(p, r),
         Waits(p, r, Held(db[p])), UNCHANGED <<disk, db>>, EnvOK'
  PROVE  Sound(p)
<1>1. CacheOK' /\ OthersKept(p) /\ Saves(p) /\ Held(db'[p]) = Held(db[p])
  BY CacheAlone DEF IInv
<1>2. IInv'
  BY <1>1, RunStep
<1>3. QED BY <1>1, <1>2 DEF Sound

\* The next batch, or the end of the command, keeps what waits in order.
LEMMA NextBatchFits ==
  ASSUME NEW p \in Procs, NEW r \in RunType, Fits(p, r), Running(r), NEW held \in SUBSET Pairs,
         Waits(p, r, held)
  PROVE  NextBatch(p, r) \in RunType /\ Fits(p, NextBatch(p, r)) /\ Waits(p, NextBatch(p, r), held)
<1>1. r.batch \in DOMAIN Plan[p] /\ r.batch \in Nat
  BY DEF Fits, RunType
<1>2. CASE r.batch < Len(Plan[p])
  <2>1. r.batch + 1 \in DOMAIN Plan[p]
    BY <1>1, <1>2, PlanTyping
  <2> DEFINE b == Batch(r, r.batch + 1, p)
  <2>2. b \in RunType /\ Fits(p, b) /\ Running(b) /\ b.batch = r.batch + 1
    BY <2>1, BatchFits
  <2>3. NextBatch(p, r) = b
    BY <1>2 DEF NextBatch
  <2> HIDE DEF b
  <2>4. \A x \in held : \E k \in 1..r.batch : x \in PairsOf(p, k)
    <3>1. \A x \in held : r.task[x] = "delivered" => x \in PairsOf(p, r.batch)
      BY DEF Fits
    <3>2. r.batch \in 1..r.batch
      BY <1>1, PlanTyping
    <3>3. QED BY <1>1, <3>1, <3>2 DEF Waits
  <2>5. b.batch - 1 = r.batch
    BY <1>1, <2>2
  <2>6. QED BY <2>2, <2>3, <2>4, <2>5 DEF Waits
<1>3. CASE ~(r.batch < Len(Plan[p]))
  <2> DEFINE c == [r EXCEPT !.pc = "closing"]
  <2>1. NextBatch(p, r) = c
    BY <1>3 DEF NextBatch
  <2>2. c \in RunType
    BY DEF RunType, Phases
  <2>3. /\ c.pc = "closing" /\ c.batch = r.batch /\ c.todo = r.todo /\ c.uncached = r.uncached
        /\ c.unsubmitted = r.unsubmitted /\ c.task = r.task /\ c.got = r.got
    BY DEF RunType
  <2> HIDE DEF c
  <2>4. QED BY <2>1, <2>2, <2>3 DEF Fits, Waits, Running
<1>4. QED BY <1>2, <1>3

\* A command starts with no rows of an earlier one.
LEMMA StartSound == ASSUME IInv, NEW p \in Procs, Start(p) PROVE Sound(p)
<1>1. run[p] \in RunType /\ Held(db[p]) = {}
  BY DEF IInv, Start, Active, Deaths, Waits, Running
<1>2. PICK cv \in BOOLEAN, uc \in BOOLEAN, clean \in BOOLEAN :
        /\ Become(p, Batch([Idle EXCEPT !.check_video = cv, !.use_cache = uc,
                                        !.runs = run[p].runs + 1], 1, p))
        /\ IF uc THEN OpenCache(p, clean) ELSE UNCHANGED <<disk, db>>
  BY DEF Start
<1> DEFINE i == [Idle EXCEPT !.check_video = cv, !.use_cache = uc, !.runs = run[p].runs + 1]
<1>3. i \in RunType
  <2>1. Idle \in RunType
    BY DEF Idle, RunType, Phases, NoTask, States, Answer
  <2>2. run[p].runs + 1 \in Nat
    BY <1>1 DEF RunType
  <2>3. \A n \in Nat : [Idle EXCEPT !.check_video = cv, !.use_cache = uc, !.runs = n] \in RunType
    BY <2>1 DEF RunType
  <2>4. QED BY <2>2, <2>3
<1> HIDE DEF i
<1>4. Batch(i, 1, p) \in RunType /\ Fits(p, Batch(i, 1, p)) /\ Running(Batch(i, 1, p))
  BY <1>3, PlanTyping, BatchFits
<1>5. Harmless(p, {})
  <2>1. CASE uc
    BY <1>1, <1>2, <2>1, OpenHarmless DEF IInv
  <2>2. CASE ~uc
    BY <1>2, <2>2, CacheAlone DEF IInv, Harmless
  <2>3. QED BY <2>1, <2>2
<1>6. Held(db'[p]) = {}
  BY <1>1, <1>5 DEF Harmless
<1>7. Waits(p, Batch(i, 1, p), Held(db'[p]))
  BY <1>6 DEF Waits
<1>8. EnvOK'
  BY DEF Start, IInv, EnvOK
<1>9. IInv'
  BY <1>2, <1>4, <1>5, <1>7, <1>8, RunStep DEF Harmless, i
<1>10. QED BY <1>5, <1>9 DEF Sound, Harmless

\* The parts of a sequence that is not empty.
LEMMA HeadTail ==
  ASSUME NEW S, NEW s \in Seq(S), s # <<>>
  PROVE  Head(s) \in S /\ Tail(s) \in Seq(S)
OBVIOUS

\* Fewer rows that wait are in order where more are.
LEMMA WaitsFewer ==
  ASSUME NEW p, NEW r, NEW held, NEW fewer \in SUBSET held, Waits(p, r, held)
  PROVE  Waits(p, r, fewer)
BY DEF Waits

\* Nothing but the phase, the tasks, the batch and its lists decides what is in order.
LEMMA SameFits ==
  ASSUME NEW p \in Procs, NEW r \in RunType, Fits(p, r), Running(r), NEW s \in RunType,
         s.batch = r.batch, s.task = r.task, s.got = r.got,
         {s.todo, s.uncached, s.unsubmitted} \subseteq Seq(PairsOf(p, r.batch)),
         s.pc \in {"lookup", "submit"} => r.pc \in {"lookup", "submit"}
  PROVE  Fits(p, s)
BY DEF Fits

\* lookup of the next pair: a hit is the answer, else the pair is to be validated.
LEMMA LookUpSound == ASSUME IInv, NEW p \in Procs, LookUp(p) PROVE Sound(p)
<1> DEFINE r == run[p]
           x == Head(r.todo)
           rest == [r EXCEPT !.todo = Tail(@)]
           h == [rest EXCEPT !.answers[x] = Append(@, View(p)[x].result)]
           m == [rest EXCEPT !.uncached = Append(@, x)]
<1>1. r \in RunType /\ Fits(p, r) /\ Waits(p, r, Held(db[p])) /\ r.pc = "lookup" /\ Running(r)
  BY DEF IInv, LookUp, Running
<1>2. /\ r.todo \in Seq(PairsOf(p, r.batch)) /\ r.todo \in Seq(Pairs) /\ r.todo # <<>>
      /\ r.uncached \in Seq(PairsOf(p, r.batch)) /\ r.unsubmitted \in Seq(PairsOf(p, r.batch))
  BY <1>1 DEF LookUp, Fits, RunType
<1>3. /\ x \in Pairs /\ x \in PairsOf(p, r.batch)
      /\ Tail(r.todo) \in Seq(Pairs) /\ Tail(r.todo) \in Seq(PairsOf(p, r.batch))
  <2> HIDE DEF r
  <2>1. QED BY <1>2, HeadTail
<1>4. EnvOK'
  BY DEF LookUp, IInv, EnvOK
<1>5. r.check_video \in BOOLEAN
  BY <1>1 DEF RunType
<1>6. rest \in RunType /\ rest.todo = Tail(r.todo)
      /\ \A f \in {"pc", "batch", "uncached", "unsubmitted", "task", "got", "answers"} : rest[f] = r[f]
  BY <1>1, <1>3 DEF RunType
<1>7. CASE LookupHit(p, x, r.check_video) /\ Become(p, h)
  <2>1. Harmless(p, {})
    BY <1>3, <1>5, <1>7, HitHarmless DEF IInv
  <2>2. View(p)[x].result \in Answer
    <3>1. View(p)[x] \in Row \cup {NoRow}
      BY <1>3 DEF View, IInv, CacheOK, DbType, Rows
    <3>2. View(p)[x] # NoRow /\ View(p)[x].result # Garbage
      BY <1>7 DEF LookupHit, Found, Matches
    <3>3. QED BY <3>1, <3>2 DEF Row, Answer
  <2>3. h \in RunType
    <3>1. [rest.answers EXCEPT ![x] = Append(@, View(p)[x].result)] \in [Pairs -> Seq(Answer)]
      <4> HIDE DEF rest, r, x
      <4>1. rest.answers \in [Pairs -> Seq(Answer)]
        BY <1>6 DEF RunType
      <4>2. Append(rest.answers[x], View(p)[x].result) \in Seq(Answer)
        BY <1>3, <2>2, <4>1
      <4>3. QED BY <4>1, <4>2
    <3> HIDE DEF rest
    <3>2. \A a \in [Pairs -> Seq(Answer)] : [rest EXCEPT !.answers = a] \in RunType
      BY <1>6 DEF RunType
    <3>3. QED BY <3>1, <3>2
  <2>4. /\ h.batch = r.batch /\ h.task = r.task /\ h.got = r.got /\ h.pc = "lookup"
        /\ h.todo = Tail(r.todo) /\ h.uncached = r.uncached /\ h.unsubmitted = r.unsubmitted
    BY <1>1, <1>6 DEF RunType
  <2> HIDE DEF h, r, x, rest
  <2>5. Fits(p, h) /\ Running(h) /\ Waits(p, h, Held(db[p]))
    BY <1>1, <1>2, <1>3, <2>3, <2>4, SameFits DEF Waits, Running
  <2>6. Waits(p, h, Held(db'[p]))
    BY <2>1, <2>5, WaitsFewer DEF Harmless
  <2>7. IInv'
    BY <1>4, <1>7, <2>1, <2>3, <2>5, <2>6, RunStep DEF Harmless
  <2>8. QED BY <2>1, <2>7 DEF Sound, Harmless
<1>8. CASE (LookupMiss(p, x, r.check_video) \/ LookupEvict(p, x, r.check_video)) /\ Become(p, m)
  <2>1. Harmless(p, {})
    BY <1>3, <1>5, <1>8, MissHarmless, EvictHarmless DEF IInv
  <2>2. /\ Append(r.uncached, x) \in Seq(Pairs) /\ Append(r.uncached, x) \in Seq(PairsOf(p, r.batch))
    BY <1>1, <1>2, <1>3 DEF RunType
  <2>3. m \in RunType /\ m.uncached = Append(r.uncached, x)
        /\ m.batch = r.batch /\ m.task = r.task /\ m.got = r.got /\ m.pc = "lookup"
        /\ m.todo = Tail(r.todo) /\ m.unsubmitted = r.unsubmitted
    BY <1>1, <1>6, <2>2 DEF RunType
  <2> HIDE DEF m, r, x, rest
  <2>4. Fits(p, m) /\ Running(m) /\ Waits(p, m, Held(db[p]))
    BY <1>1, <1>2, <1>3, <2>2, <2>3, SameFits DEF Waits, Running
  <2>5. Waits(p, m, Held(db'[p]))
    BY <2>1, <2>4, WaitsFewer DEF Harmless
  <2>6. IInv'
    BY <1>4, <1>8, <2>1, <2>3, <2>4, <2>5, RunStep DEF Harmless
  <2>7. QED BY <2>1, <2>6 DEF Sound, Harmless
<1>9. QED BY <1>7, <1>8 DEF LookUp

\* The lookups are done: in line, or to the pool.
LEMMA DispatchSound == ASSUME IInv, NEW p \in Procs, Dispatch(p) PROVE Sound(p)
<1> DEFINE r == run[p]
           a == [r EXCEPT !.pc = "serial"]
           b == [r EXCEPT !.pc = "submit", !.unsubmitted = r.uncached]
<1>1. r \in RunType /\ Fits(p, r) /\ Waits(p, r, Held(db[p])) /\ r.pc = "lookup" /\ Running(r)
  BY DEF IInv, Dispatch, Running
<1>2. PICK s \in {a, b} : Become(p, s)
  BY DEF Dispatch
<1>3. /\ s \in RunType /\ s.batch = r.batch /\ s.task = r.task /\ s.got = r.got
      /\ s.todo = r.todo /\ s.uncached = r.uncached /\ s.unsubmitted \in {r.uncached, r.unsubmitted}
      /\ s.pc \in {"serial", "submit"}
  <2> HIDE DEF r
  <2>1. CASE s = a
    BY <1>1, <2>1 DEF RunType, Phases
  <2>2. CASE s = b
    BY <1>1, <2>2 DEF RunType, Phases
  <2>3. QED BY <1>2, <2>1, <2>2
<1>4. UNCHANGED <<disk, db>> /\ EnvOK'
  BY DEF Dispatch, IInv, EnvOK
<1> HIDE DEF r, a, b
<1>5. {s.todo, s.uncached, s.unsubmitted} \subseteq Seq(PairsOf(p, r.batch))
  BY <1>1, <1>3 DEF Fits
<1>6. Fits(p, s) /\ Waits(p, s, Held(db[p]))
  BY <1>1, <1>3, <1>5, SameFits DEF Waits, Running
<1>7. QED BY <1>2, <1>3, <1>4, <1>6, QuietStep

\* Sending pairs of the batch to a worker and getting them back disturbs no row that waits.
LEMMA TaskChange ==
  ASSUME NEW p \in Procs, NEW r \in RunType, Running(r), Fits(p, r), NEW held, Waits(p, r, held),
         NEW s \in RunType, s.pc = r.pc, s.batch = r.batch, s.todo = r.todo, s.uncached = r.uncached,
         s.unsubmitted \in Seq(PairsOf(p, r.batch)),
         \A y \in Pairs : \/ s.task[y] = r.task[y]
                          \/ y \in PairsOf(p, r.batch) /\ "delivered" \notin {s.task[y], r.task[y]},
         \A y \in Pairs : s.task[y] = "running" => s.got[y] \in Result,
         held \subseteq Pairs
  PROVE  Fits(p, s) /\ Waits(p, s, held)
<1>1. Fits(p, s)
  BY DEF Fits, Running
<1>2. \A y \in held : r.task[y] = "delivered" => s.task[y] = "delivered"
  OBVIOUS
<1>3. Waits(p, s, held)
  BY <1>2 DEF Waits, Running
<1>4. QED BY <1>1, <1>3

\* submit, of one pair after the other.
LEMMA SubmitSound == ASSUME IInv, NEW p \in Procs, Submit(p) PROVE Sound(p)
<1> DEFINE r == run[p]
           h == Head(r.unsubmitted)
           a == [r EXCEPT !.pc = "collect"]
           b == [r EXCEPT !.unsubmitted = Tail(@), !.task[h] = "queued"]
<1>1. r \in RunType /\ Fits(p, r) /\ Waits(p, r, Held(db[p])) /\ r.pc = "submit" /\ Running(r)
  BY DEF IInv, Submit, Running
<1>2. UNCHANGED <<disk, db>> /\ EnvOK'
  BY DEF Submit, IInv, EnvOK
<1>3. CASE r.unsubmitted = <<>> /\ Become(p, a)
  <2>1. /\ a \in RunType /\ a.batch = r.batch /\ a.task = r.task /\ a.got = r.got /\ a.pc = "collect"
        /\ a.todo = r.todo /\ a.uncached = r.uncached /\ a.unsubmitted = r.unsubmitted
    BY <1>1 DEF RunType, Phases
  <2> HIDE DEF r, a
  <2>2. {a.todo, a.uncached, a.unsubmitted} \subseteq Seq(PairsOf(p, r.batch))
    BY <1>1, <2>1 DEF Fits
  <2>3. Fits(p, a) /\ Waits(p, a, Held(db[p]))
    BY <1>1, <2>1, <2>2, SameFits DEF Waits, Running
  <2>4. QED BY <1>2, <1>3, <2>1, <2>3, QuietStep
<1>4. CASE r.unsubmitted # <<>> /\ Become(p, b)
  <2>1. /\ h \in Pairs /\ h \in PairsOf(p, r.batch)
        /\ Tail(r.unsubmitted) \in Seq(Pairs) /\ Tail(r.unsubmitted) \in Seq(PairsOf(p, r.batch))
    <3>1. r.unsubmitted \in Seq(Pairs) /\ r.unsubmitted \in Seq(PairsOf(p, r.batch))
      BY <1>1 DEF RunType, Fits
    <3> HIDE DEF r
    <3>2. QED BY <1>4, <3>1, HeadTail
  <2>2. [r.task EXCEPT ![h] = "queued"] \in [Pairs -> States]
    BY <1>1, <2>1 DEF RunType, States
  <2>3. \A t \in [Pairs -> States], u \in Seq(Pairs) :
          [r EXCEPT !.unsubmitted = u, !.task = t] \in RunType
    BY <1>1 DEF RunType
  <2>4. b \in RunType
    <3>1. r.task \in [Pairs -> States] /\ b = [r EXCEPT !.unsubmitted = Tail(r.unsubmitted), !.task = [r.task EXCEPT ![h] = "queued"]]
      BY <1>1 DEF RunType
    <3> HIDE DEF b, h, r
    <3>2. QED BY <2>1, <2>2, <2>3, <3>1
  <2>5. /\ b.batch = r.batch /\ b.got = r.got /\ b.pc = r.pc /\ b.todo = r.todo
        /\ b.uncached = r.uncached /\ b.unsubmitted = Tail(r.unsubmitted)
        /\ b.task = [r.task EXCEPT ![h] = "queued"]
    BY <1>1 DEF RunType
  <2> HIDE DEF b
  <2>6. \A y \in Pairs : \/ b.task[y] = r.task[y]
                         \/ y \in PairsOf(p, r.batch) /\ "delivered" \notin {b.task[y], r.task[y]}
    BY <1>1, <2>1, <2>5 DEF Fits, RunType
  <2>7. \A y \in Pairs : b.task[y] = "running" => b.got[y] \in Result
    BY <1>1, <2>1, <2>5 DEF Fits, RunType
  <2>8. Held(db[p]) \subseteq Pairs
    BY DEF Held
  <2> HIDE DEF r, h
  <2>9. Fits(p, b) /\ Waits(p, b, Held(db[p]))
    BY <1>1, <2>1, <2>4, <2>5, <2>6, <2>7, <2>8, TaskChange
  <2>10. QED BY <1>2, <1>4, <2>4, <2>9, QuietStep
<1>5. QED BY <1>3, <1>4 DEF Submit

\* submit on a broken pool: the command ends, or goes on to its next batch.
LEMMA SubmitRaisesSound == ASSUME IInv, NEW p \in Procs, SubmitRaises(p) PROVE Sound(p)
<1> DEFINE r == run[p]
           a == [r EXCEPT !.pc = "escaping"]
           report == [kind |-> "validate_crash", hits |-> 0, misses |-> 0]
           b == [r EXCEPT !.reports = Append(@, report)]
<1>1. r \in RunType /\ Fits(p, r) /\ Waits(p, r, Held(db[p])) /\ r.pc = "submit" /\ Running(r)
  BY DEF IInv, SubmitRaises, Running
<1>2. UNCHANGED <<disk, db>> /\ EnvOK'
  BY DEF SubmitRaises, IInv, EnvOK
<1>3. CASE Become(p, a)
  <2>1. /\ a \in RunType /\ a.batch = r.batch /\ a.task = r.task /\ a.got = r.got /\ a.pc = "escaping"
        /\ a.todo = r.todo /\ a.uncached = r.uncached /\ a.unsubmitted = r.unsubmitted
    BY <1>1 DEF RunType, Phases
  <2> HIDE DEF r, a
  <2>2. {a.todo, a.uncached, a.unsubmitted} \subseteq Seq(PairsOf(p, r.batch))
    BY <1>1, <2>1 DEF Fits
  <2>3. Fits(p, a) /\ Waits(p, a, Held(db[p]))
    BY <1>1, <2>1, <2>2, SameFits DEF Waits, Running
  <2>4. QED BY <1>2, <1>3, <2>1, <2>3, QuietStep
<1>4. CASE Become(p, NextBatch(p, b))
  <2>1. Append(r.reports, report) \in Seq(Reports)
    BY <1>1 DEF RunType, Reports
  <2>2. /\ b \in RunType /\ b.batch = r.batch /\ b.task = r.task /\ b.got = r.got /\ b.pc = r.pc
        /\ b.todo = r.todo /\ b.uncached = r.uncached /\ b.unsubmitted = r.unsubmitted
    BY <1>1, <2>1 DEF RunType
  <2> HIDE DEF r, b
  <2>3. {b.todo, b.uncached, b.unsubmitted} \subseteq Seq(PairsOf(p, r.batch))
    BY <1>1, <2>2 DEF Fits
  <2>4. Fits(p, b) /\ Running(b) /\ Waits(p, b, Held(db[p])) /\ Held(db[p]) \subseteq Pairs
    BY <1>1, <2>2, <2>3, SameFits DEF Waits, Running, Held
  <2>5. NextBatch(p, b) \in RunType /\ Fits(p, NextBatch(p, b)) /\ Waits(p, NextBatch(p, b), Held(db[p]))
    BY <2>2, <2>4, NextBatchFits
  <2>6. QED BY <1>2, <1>4, <2>5, QuietStep
<1>5. QED BY <1>3, <1>4 DEF SubmitRaises

\* The pool broke after the last submit.
LEMMA SubmitEndsSound == ASSUME IInv, NEW p \in Procs, SubmitEnds(p) PROVE Sound(p)
<1> DEFINE r == run[p]
           a == [r EXCEPT !.pc = "collect"]
<1>1. r \in RunType /\ Fits(p, r) /\ Waits(p, r, Held(db[p])) /\ r.pc = "submit" /\ Running(r)
  BY DEF IInv, SubmitEnds, Running
<1>2. UNCHANGED <<disk, db>> /\ EnvOK' /\ Become(p, a)
  BY DEF SubmitEnds, IInv, EnvOK
<1>3. /\ a \in RunType /\ a.batch = r.batch /\ a.task = r.task /\ a.got = r.got /\ a.pc = "collect"
      /\ a.todo = r.todo /\ a.uncached = r.uncached /\ a.unsubmitted = r.unsubmitted
  BY <1>1 DEF RunType, Phases
<1> HIDE DEF r, a
<1>4. {a.todo, a.uncached, a.unsubmitted} \subseteq Seq(PairsOf(p, r.batch))
  BY <1>1, <1>3 DEF Fits
<1>5. Fits(p, a) /\ Waits(p, a, Held(db[p]))
  BY <1>1, <1>3, <1>4, SameFits DEF Waits, Running
<1>6. QED BY <1>2, <1>3, <1>5, QuietStep

-----------------------------------------------------------------------------
(* The workers *)

\* The pair a worker takes is of the batch and not delivered.
LEMMA ReadyPair ==
  ASSUME IInv, NEW p \in Procs, NEW x \in Pairs, Active(p),
         run[p].task[x] \in {"running", "finished"} \/ Ready(p, x)
  PROVE  x \in PairsOf(p, run[p].batch) /\ run[p].task[x] # "delivered"
<1> DEFINE r == run[p]
<1>1. r \in RunType /\ Fits(p, r) /\ Running(r)
  BY DEF IInv, Active, Deaths, Running
<1>2. CASE r.task[x] \in {"running", "finished", "queued"}
  BY <1>1, <1>2 DEF Fits
<1>3. CASE r.task[x] = "none" /\ \E i \in DOMAIN r.uncached : r.uncached[i] = x
  <2>1. r.uncached \in Seq(PairsOf(p, r.batch))
    BY <1>1 DEF Fits
  <2> DEFINE S == PairsOf(p, r.batch)
  <2>2. PICK i \in DOMAIN r.uncached : r.uncached[i] = x
    BY <1>3
  <2>3. S = PairsOf(p, r.batch)
    OBVIOUS
  <2> HIDE DEF r, S
  <2>4. r.uncached \in Seq(S)
    BY <2>1, <2>3
  <2>5. r.uncached[i] \in S
    BY <2>2, <2>4
  <2>6. QED BY <1>3, <2>2, <2>3, <2>5 DEF r
<1>4. QED BY <1>2, <1>3 DEF Ready

\* One pair of the batch gets another state and result.
LEMMA WorkerStep ==
  ASSUME IInv, NEW p \in Procs, NEW x \in PairsOf(p, run[p].batch), x \in Pairs, Active(p),
         run[p].task[x] # "delivered", NEW t \in {"running", "finished"}, NEW g \in Answer,
         t = "running" => g \in Result,
         Become(p, [run[p] EXCEPT !.got[x] = g, !.task[x] = t]),
         UNCHANGED <<disk, db>>, EnvOK'
  PROVE  Sound(p)
<1> DEFINE r == run[p]
           s == [r EXCEPT !.got[x] = g, !.task[x] = t]
<1>1. r \in RunType /\ Fits(p, r) /\ Running(r) /\ Waits(p, r, Held(db[p]))
  BY DEF IInv, Active, Deaths, Running
<1>2. /\ [r.got EXCEPT ![x] = g] \in [Pairs -> Answer]
      /\ [r.task EXCEPT ![x] = t] \in [Pairs -> States]
  BY <1>1 DEF RunType, States
<1>3. \A got \in [Pairs -> Answer], task \in [Pairs -> States] :
        [r EXCEPT !.got = got, !.task = task] \in RunType
  BY <1>1 DEF RunType
<1>4. s \in RunType
  <2>1. r.got \in [Pairs -> Answer] /\ r.task \in [Pairs -> States]
    BY <1>1 DEF RunType
  <2>2. s = [r EXCEPT !.got = [r.got EXCEPT ![x] = g], !.task = [r.task EXCEPT ![x] = t]]
    BY <1>1 DEF RunType
  <2> HIDE DEF r, s
  <2>3. QED BY <1>2, <1>3, <2>2
<1>5. /\ s.pc = r.pc /\ s.batch = r.batch /\ s.todo = r.todo /\ s.uncached = r.uncached
      /\ s.unsubmitted = r.unsubmitted
      /\ s.got = [r.got EXCEPT ![x] = g] /\ s.task = [r.task EXCEPT ![x] = t]
  BY <1>1 DEF RunType
<1> HIDE DEF s
<1>6. \A y \in Pairs : \/ s.task[y] = r.task[y]
                       \/ y \in PairsOf(p, r.batch) /\ "delivered" \notin {s.task[y], r.task[y]}
  BY <1>1, <1>5 DEF RunType
<1>7. \A y \in Pairs : s.task[y] = "running" => s.got[y] \in Result
  BY <1>1, <1>5 DEF Fits, RunType
<1>8. r.unsubmitted \in Seq(PairsOf(p, r.batch)) /\ Held(db[p]) \subseteq Pairs
  BY <1>1 DEF Fits, Held
<1>9. Become(p, s)
  BY DEF s
<1> HIDE DEF r
<1>10. Fits(p, s) /\ Waits(p, s, Held(db[p]))
  BY <1>1, <1>4, <1>5, <1>6, <1>7, <1>8, TaskChange
<1>11. QED BY <1>4, <1>9, <1>10, QuietStep

\* _validate_pair reads the annotation.
LEMMA ReadAnnotationSound ==
  ASSUME IInv, NEW p \in Procs, NEW x \in Pairs, ReadAnnotation(p, x) PROVE Sound(p)
<1> DEFINE g == [ann |-> file[x].ann, vid |-> Unread]
           t == IF run[p].check_video THEN "running" ELSE "finished"
<1>1. g \in Result /\ g \in Answer
  BY DEF IInv, EnvOK, Result, Answer
<1>2. Active(p) /\ Ready(p, x) /\ UNCHANGED <<disk, db>> /\ EnvOK'
      /\ Become(p, [run[p] EXCEPT !.got[x] = g, !.task[x] = t])
  BY DEF ReadAnnotation, IInv, EnvOK
<1>3. t \in {"running", "finished"}
  OBVIOUS
<1> HIDE DEF g, t
<1>4. x \in PairsOf(p, run[p].batch) /\ run[p].task[x] # "delivered"
  BY <1>2, ReadyPair
<1>5. QED BY <1>1, <1>2, <1>3, <1>4, WorkerStep

\* ... and the video.
LEMMA ReadVideoSound ==
  ASSUME IInv, NEW p \in Procs, NEW x \in Pairs, ReadVideo(p, x) PROVE Sound(p)
<1> DEFINE r == run[p]
           g == [r.got[x] EXCEPT !.vid = file[x].vid]
<1>1. r \in RunType /\ r.task[x] = "running" /\ Active(p)
  BY DEF IInv, ReadVideo
<1>2. r.got[x] \in Result
  BY <1>1 DEF IInv, Fits
<1>3. g \in Result /\ g \in Answer
  BY <1>2 DEF IInv, EnvOK, Result, Answer
<1>4. x \in PairsOf(p, r.batch) /\ r.task[x] # "delivered"
  BY <1>1, ReadyPair
<1>5. UNCHANGED <<disk, db>> /\ EnvOK' /\ Become(p, [r EXCEPT !.got[x] = g, !.task[x] = "finished"])
  BY DEF ReadVideo, IInv, EnvOK
<1> HIDE DEF g
<1>6. QED BY <1>1, <1>3, <1>4, <1>5, WorkerStep

\* An exception in a worker is a finding.
LEMMA WorkerRaisesSound ==
  ASSUME IInv, NEW p \in Procs, NEW x \in Pairs, WorkerRaises(p, x) PROVE Sound(p)
<1>1. Active(p) /\ (run[p].task[x] = "running" \/ Ready(p, x)) /\ UNCHANGED <<disk, db>>
      /\ Become(p, [run[p] EXCEPT !.got[x] = Crash, !.task[x] = "finished"])
  BY DEF WorkerRaises
<1>2. EnvOK'
  BY BoundsAssumption DEF WorkerRaises, Fault, IInv, EnvOK
<1>3. x \in PairsOf(p, run[p].batch) /\ run[p].task[x] # "delivered"
  BY <1>1, ReadyPair
<1>4. Crash \in Answer
  BY DEF Answer
<1>5. QED BY <1>1, <1>2, <1>3, <1>4, WorkerStep

\* A worker process dies, and with it the results of all that wait for the pool.
LEMMA PoolBreaksSound == ASSUME IInv, NEW p \in Procs, PoolBreaks(p) PROVE Sound(p)
<1> DEFINE r == run[p]
           hurt == Tasks(p, "queued") \cup Tasks(p, "running")
           task == [x \in Pairs |-> IF x \in hurt THEN "finished" ELSE r.task[x]]
           got == [x \in Pairs |-> IF x \in hurt THEN Crash ELSE r.got[x]]
           s == [r EXCEPT !.broken = TRUE, !.task = task, !.got = got]
<1>1. r \in RunType /\ Fits(p, r) /\ Running(r) /\ Waits(p, r, Held(db[p]))
  BY DEF IInv, PoolBreaks, Running
<1>2. UNCHANGED <<disk, db>> /\ Become(p, s)
  BY DEF PoolBreaks
<1>3. EnvOK'
  BY BoundsAssumption DEF PoolBreaks, Fault, IInv, EnvOK
<1>4. task \in [Pairs -> States] /\ got \in [Pairs -> Answer]
  BY <1>1 DEF RunType, States, Answer
<1>5. \A y \in Pairs : \/ task[y] = r.task[y]
                       \/ y \in PairsOf(p, r.batch) /\ "delivered" \notin {task[y], r.task[y]}
  BY <1>1 DEF Fits, Tasks
<1>6. \A y \in Pairs : task[y] = "running" => got[y] \in Result
  BY <1>1 DEF Fits, Tasks
<1> HIDE DEF task, got
<1>7. s \in RunType
  BY <1>1, <1>4 DEF RunType
<1>8. /\ s.pc = r.pc /\ s.batch = r.batch /\ s.todo = r.todo /\ s.uncached = r.uncached
      /\ s.unsubmitted = r.unsubmitted /\ s.got = got /\ s.task = task
  BY <1>1 DEF RunType
<1>9. r.unsubmitted \in Seq(PairsOf(p, r.batch)) /\ Held(db[p]) \subseteq Pairs
  BY <1>1 DEF Fits, Held
<1> HIDE DEF s, r
<1>10. Fits(p, s) /\ Waits(p, s, Held(db[p]))
  BY <1>1, <1>5, <1>6, <1>7, <1>8, <1>9, TaskChange
<1>11. QED BY <1>2, <1>3, <1>7, <1>10, QuietStep

-----------------------------------------------------------------------------
(* Results, and the end of a command *)

\* A result is delivered, and stored unless it is a crash: its pair has no row that waits.
LEMMA DeliverSound == ASSUME IInv, NEW p \in Procs, NEW x \in Pairs, Deliver(p, x) PROVE Sound(p)
<1> DEFINE r == run[p]
           s == [r EXCEPT !.task[x] = "delivered", !.answers[x] = Append(@, r.got[x])]
<1>1. /\ r \in RunType /\ Fits(p, r) /\ Running(r) /\ Waits(p, r, Held(db[p]))
      /\ r.pc \in {"serial", "collect"} /\ r.task[x] = "finished"
  BY DEF IInv, Deliver, Running
<1>2. x \in PairsOf(p, r.batch) /\ r.batch \in DOMAIN Plan[p] /\ r.batch \in Nat
  BY <1>1 DEF Fits, RunType
<1>3. x \notin Held(db[p])
  <2>1. SUFFICES ASSUME x \in Held(db[p]) PROVE FALSE
    OBVIOUS
  <2>2. PICK k \in 1..(r.batch - 1) : x \in PairsOf(p, k)
    BY <1>1, <2>1 DEF Waits
  <2> HIDE DEF r
  <2>3. k \in DOMAIN Plan[p] /\ k # r.batch
    BY <1>2, <2>2, PlanTyping
  <2>4. QED BY <1>2, <2>2, <2>3, OneBatch
<1>4. r.got[x] \in Answer /\ r.check_video \in BOOLEAN
  BY <1>1 DEF RunType
<1>5. Harmless(p, {x})
  <2>1. CASE Store(p, x, r.got[x], r.check_video) /\ Cacheable(r.got[x])
    <3>1. r.got[x] \in Result
      BY <1>4, <2>1 DEF Cacheable, Answer
    <3>2. file[x] \in [ann : Contents, vid : Contents]
      BY DEF IInv, EnvOK
    <3>3. QED BY <1>3, <1>4, <2>1, <3>1, <3>2, StoreHarmless DEF IInv
  <2>2. CASE UNCHANGED <<disk, db>>
    BY <2>2, CacheAlone DEF IInv, Harmless
  <2>3. QED BY <2>1, <2>2 DEF Deliver
<1>6. Become(p, s) /\ EnvOK'
  BY DEF Deliver, IInv, EnvOK
<1>7. /\ [r.task EXCEPT ![x] = "delivered"] \in [Pairs -> States]
      /\ [r.answers EXCEPT ![x] = Append(@, r.got[x])] \in [Pairs -> Seq(Answer)]
  <2>1. r.task \in [Pairs -> States] /\ r.answers \in [Pairs -> Seq(Answer)]
    BY <1>1 DEF RunType
  <2> HIDE DEF r
  <2>2. Append(r.answers[x], r.got[x]) \in Seq(Answer)
    BY <1>4, <2>1
  <2>3. QED BY <2>1, <2>2 DEF States
<1>8. \A task \in [Pairs -> States], answers \in [Pairs -> Seq(Answer)] :
        [r EXCEPT !.task = task, !.answers = answers] \in RunType
  BY <1>1 DEF RunType
<1>9. s \in RunType
  <2>1. s = [r EXCEPT !.task = [r.task EXCEPT ![x] = "delivered"],
                      !.answers = [r.answers EXCEPT ![x] = Append(@, r.got[x])]]
    BY <1>1 DEF RunType
  <2> HIDE DEF r, s
  <2>2. QED BY <1>7, <1>8, <2>1
<1>10. /\ s.pc = r.pc /\ s.batch = r.batch /\ s.todo = r.todo /\ s.uncached = r.uncached
       /\ s.unsubmitted = r.unsubmitted /\ s.got = r.got
       /\ s.task = [r.task EXCEPT ![x] = "delivered"]
  BY <1>1 DEF RunType
<1>11. r.task \in [Pairs -> States]
  BY <1>1 DEF RunType
<1> HIDE DEF s, r
<1>12. Fits(p, s) /\ Running(s)
  BY <1>1, <1>2, <1>10, <1>11 DEF Fits, Running
<1>13. Waits(p, s, Held(db'[p]))
  <2>1. Held(db'[p]) \subseteq Held(db[p]) \cup {x}
    BY <1>5 DEF Harmless
  <2>2. s.task[x] = "delivered" /\ \A y \in Pairs : r.task[y] = "delivered" => s.task[y] = "delivered"
    BY <1>10, <1>11
  <2>3. Held(db[p]) \subseteq Pairs
    BY DEF Held
  <2>4. \A y \in Held(db[p]) : r.task[y] = "delivered" \/ \E k \in 1..(r.batch - 1) : y \in PairsOf(p, k)
    BY <1>1 DEF Waits
  <2>5. QED BY <1>10, <1>12, <2>1, <2>2, <2>3, <2>4 DEF Waits
<1>14. IInv'
  BY <1>5, <1>6, <1>9, <1>12, <1>13, RunStep DEF Harmless
<1>15. QED BY <1>5, <1>14 DEF Sound, Harmless

\* The result of a batch, and the next batch.
LEMMA FinishBatchSound == ASSUME IInv, NEW p \in Procs, FinishBatch(p) PROVE Sound(p)
<1> DEFINE r == run[p]
           report == [kind |-> "result", hits |-> db[p].hits, misses |-> db[p].misses]
           b == [r EXCEPT !.reports = Append(@, report)]
<1>1. /\ r \in RunType /\ Fits(p, r) /\ Waits(p, r, Held(db[p])) /\ Running(r)
      /\ r.pc \in {"serial", "collect"}
  BY DEF IInv, FinishBatch, Running
<1>2. UNCHANGED <<disk, db>> /\ EnvOK' /\ Become(p, NextBatch(p, b))
  BY DEF FinishBatch, IInv, EnvOK
<1>3. report \in Reports
  BY DEF IInv, CacheOK, DbType, Reports
<1>4. Append(r.reports, report) \in Seq(Reports)
  <2> HIDE DEF report
  <2>1. QED BY <1>1, <1>3 DEF RunType
<1>5. /\ b \in RunType /\ b.batch = r.batch /\ b.task = r.task /\ b.got = r.got /\ b.pc = r.pc
      /\ b.todo = r.todo /\ b.uncached = r.uncached /\ b.unsubmitted = r.unsubmitted
  <2> HIDE DEF report
  <2>1. QED BY <1>1, <1>4 DEF RunType
<1> HIDE DEF r, b
<1>6. {b.todo, b.uncached, b.unsubmitted} \subseteq Seq(PairsOf(p, r.batch))
  BY <1>1, <1>5 DEF Fits
<1>7. Fits(p, b) /\ Running(b) /\ Waits(p, b, Held(db[p])) /\ Held(db[p]) \subseteq Pairs
  BY <1>1, <1>5, <1>6, SameFits DEF Waits, Running, Held
<1>8. NextBatch(p, b) \in RunType /\ Fits(p, NextBatch(p, b)) /\ Waits(p, NextBatch(p, b), Held(db[p]))
  BY <1>5, <1>7, NextBatchFits
<1>9. QED BY <1>2, <1>8, QuietStep

\* A command that is over, in whatever way, leaves no row waiting.
LEMMA OverFits ==
  ASSUME NEW p \in Procs, NEW r \in RunType, Fits(p, r),
         NEW pc \in {"done", "escaped", "interrupted", "killed", "terminated"}
  PROVE  LET s == [r EXCEPT !.pc = pc]
         IN  s \in RunType /\ Fits(p, s) /\ Waits(p, s, {}) /\ s.pc = pc
<1> DEFINE s == [r EXCEPT !.pc = pc]
<1>1. s \in RunType /\ s.pc = pc /\ s.task = r.task /\ s.got = r.got
  BY DEF RunType, Phases
<1>2. ~Running(s)
  BY <1>1 DEF Running
<1> HIDE DEF s
<1>3. Fits(p, s) /\ Waits(p, s, {})
  BY <1>1, <1>2 DEF Fits, Waits
<1>4. QED BY <1>1, <1>3 DEF s

\* finally: cache.close()
LEMMA FinishSound == ASSUME IInv, NEW p \in Procs, Finish(p) PROVE Sound(p)
<1>1. PICK pc \in {"done", "escaped"} : Become(p, [run[p] EXCEPT !.pc = pc])
  BY DEF Finish, IInv, RunType
<1> DEFINE s == [run[p] EXCEPT !.pc = pc]
<1>2. s \in RunType /\ Fits(p, s) /\ Waits(p, s, {})
  BY <1>1, OverFits DEF IInv
<1>3. Close(p) /\ EnvOK'
  BY DEF Finish, IInv, EnvOK
<1>4. Harmless(p, {}) /\ Held(db'[p]) = {}
  BY <1>3, CloseHarmless DEF IInv
<1> HIDE DEF s
<1>5. IInv'
  BY <1>1, <1>2, <1>3, <1>4, RunStep DEF Harmless, s
<1>6. QED BY <1>4, <1>5 DEF Sound, Harmless

\* Ctrl-C: the handler commits what waits.
LEMMA InterruptSound == ASSUME IInv, NEW p \in Procs, Interrupt(p) PROVE Sound(p)
<1> DEFINE s == [run[p] EXCEPT !.pc = "interrupted"]
<1>1. Become(p, s) /\ Close(p)
  BY DEF Interrupt
<1>2. EnvOK'
  BY BoundsAssumption DEF Interrupt, Fault, IInv, EnvOK
<1>3. s \in RunType /\ Fits(p, s) /\ Waits(p, s, {})
  BY OverFits DEF IInv
<1>4. Harmless(p, {}) /\ Held(db'[p]) = {}
  BY <1>1, CloseHarmless DEF IInv
<1> HIDE DEF s
<1>5. IInv'
  BY <1>1, <1>2, <1>3, <1>4, RunStep DEF Harmless
<1>6. QED BY <1>4, <1>5 DEF Sound, Harmless

\* The one way in which rows are lost: the process dies, killed or terminated.
LEMMA DeathSound ==
  ASSUME IInv, NEW p \in Procs, Kill(p) \/ Terminate(p)
  PROVE  Sound(p)
<1>1. PICK death \in Deaths : Die(p, death)
  BY DEF Kill, Terminate, Deaths
<1> DEFINE s == [run[p] EXCEPT !.pc = death]
<1>2. Become(p, s) /\ Abandon(p)
  BY <1>1 DEF Die
<1>3. EnvOK'
  BY <1>1, BoundsAssumption DEF Kill, Terminate, Die, Fault, IInv, EnvOK
<1>4. s \in RunType /\ Fits(p, s) /\ Waits(p, s, {}) /\ s.pc = death
  <2>1. run[p] \in RunType /\ Fits(p, run[p])
    BY DEF IInv
  <2>2. death \in {"done", "escaped", "interrupted", "killed", "terminated"}
    BY <1>1 DEF Deaths
  <2>3. QED BY <2>1, <2>2, OverFits
<1>5. CacheOK' /\ OthersKept(p) /\ Held(db'[p]) = {}
  BY <1>2, AbandonTidy DEF IInv
<1> HIDE DEF s
<1>6. IInv'
  BY <1>2, <1>3, <1>4, <1>5, RunStep
<1>7. run'[p].pc \in Deaths
  BY <1>2, <1>4 DEF Become, IInv
<1>8. QED BY <1>5, <1>6, <1>7 DEF Sound

\* The files and the rows on disk are changed by others without touching what waits.
LEMMA EditSound == ASSUME IInv, NEW x \in Pairs, Edit(x) PROVE IInv' /\ UNCHANGED db
<1>1. UNCHANGED <<disk, db, run, faults>> /\ edits' = edits + 1 /\ edits < MaxVersion
  BY DEF Edit
<1>2. PICK v \in {edits + 1, Gone} :
        file' = [file EXCEPT ![x].ann = v] \/ file' = [file EXCEPT ![x].vid = v]
  BY DEF Edit
<1>3. edits + 1 \in 0..MaxVersion /\ v \in Contents
  BY <1>1, VersionAssumption DEF IInv, EnvOK, Contents, Versions
<1>4. file' \in [Pairs -> [ann : Contents, vid : Contents]]
  BY <1>2, <1>3 DEF IInv, EnvOK
<1>5. EnvOK'
  BY <1>1, <1>3, <1>4 DEF IInv, EnvOK
<1>6. QED BY <1>1, <1>5 DEF IInv, CacheOK, Fits, Waits, Held

\* A row that becomes unreadable disturbs no connection and no run.
LEMMA CorruptSound == ASSUME IInv, NEW x \in Pairs, Corrupt(x) PROVE IInv' /\ UNCHANGED db
<1>1. UNCHANGED run /\ CacheOK' /\ UNCHANGED db
  BY CorruptTidy DEF Corrupt, IInv
<1>2. EnvOK'
  BY BoundsAssumption DEF Corrupt, CorruptRow, Fault, IInv, EnvOK
<1>3. QED BY <1>1, <1>2 DEF IInv, Fits, Waits, Held

-----------------------------------------------------------------------------
(* The theorems *)

\* Before the first command there is no cache.
LEMMA InitInv == Init => IInv
<1> SUFFICES ASSUME Init PROVE IInv
  OBVIOUS
<1>1. Closed \in DbType /\ Closed.pending = NoRows /\ Closed.writes = 0
  BY DEF Closed, DbType, Transactions, Rows, NoRows
<1>2. Tidy(Closed) /\ Held(Closed) = {}
  BY <1>1, ClosedTidy
<1>3. CacheOK
  BY <1>1, <1>2 DEF Init, CacheOK, Rows, NoRows
<1>4. EnvOK
  BY BoundsAssumption, VersionAssumption DEF Init, EnvOK, Contents, Versions
<1>5. Idle \in RunType /\ ~Running(Idle) /\ \A x \in Pairs : Idle.task[x] = "none"
  BY DEF Idle, RunType, Phases, NoTask, States, Answer, Running
<1>6. \A p \in Procs : run[p] = Idle /\ db[p] = Closed
  BY DEF Init
<1>7. \A p \in Procs : Fits(p, Idle) /\ Waits(p, Idle, {})
  BY <1>5 DEF Fits, Waits
<1>8. run \in [Procs -> RunType]
  BY <1>5 DEF Init
<1>9. QED BY <1>2, <1>3, <1>4, <1>6, <1>7, <1>8 DEF IInv

\* Every step of a command is sound.
LEMMA StepSound ==
  ASSUME IInv, NEW p \in Procs,
         Start(p) \/ Command(p) \/ PoolBreaks(p) \/ Interrupt(p) \/ Kill(p) \/ Terminate(p)
         \/ \E x \in Pairs : WorkerRaises(p, x)
  PROVE  Sound(p)
<1>1. CASE Command(p)
  BY <1>1, LookUpSound, DispatchSound, SubmitSound, SubmitRaisesSound, SubmitEndsSound,
     ReadAnnotationSound, ReadVideoSound, DeliverSound, FinishBatchSound, FinishSound DEF Command
<1>2. QED BY <1>1, StartSound, PoolBreaksSound, InterruptSound, DeathSound, WorkerRaisesSound

\* What a step of anybody keeps.
LEMMA StepInv ==
  ASSUME IInv, [Next]_vars
  PROVE  /\ IInv'
         /\ \A p \in Procs, x \in Pairs :
              db[p].pending[x] # NoRow /\ db'[p].pending[x] = NoRow
              => disk'[x] = db[p].pending[x] \/ run'[p].pc \in Deaths
<1>1. ASSUME NEW p \in Procs, Sound(p)
      PROVE  \A q \in Procs, x \in Pairs :
               db[q].pending[x] # NoRow /\ db'[q].pending[x] = NoRow
               => disk'[x] = db[q].pending[x] \/ run'[q].pc \in Deaths
  <2>1. ASSUME NEW q \in Procs, q # p PROVE db'[q].pending = db[q].pending
    BY <1>1, <2>1 DEF Sound, OthersKept
  <2>2. \A x \in Pairs : db[p].pending[x] # NoRow /\ db'[p].pending[x] = NoRow
                         => disk'[x] = db[p].pending[x] \/ run'[p].pc \in Deaths
    BY <1>1 DEF Sound, Saves, Held
  <2>3. QED BY <2>1, <2>2
<1>2. CASE \E p \in Procs : Sound(p)
  BY <1>1, <1>2 DEF Sound
<1>3. CASE \E x \in Pairs : Edit(x) \/ Corrupt(x)
  BY <1>3, EditSound, CorruptSound
<1>4. CASE UNCHANGED vars
  BY <1>4 DEF vars, IInv, CacheOK, EnvOK, Fits, Waits, Held
<1>5. QED BY <1>2, <1>3, <1>4, StepSound DEF Next

\* The inductive invariant: the rows that wait, and the pairs a command is working on.
THEOREM Invariance == Spec => []IInv
<1>1. IInv /\ [Next]_vars => IInv'
  BY StepInv
<1>2. QED BY <1>1, InitInv, PTL DEF Spec

\* Every variable of the commands, their pools and the cache keeps its type, for any number of
\* commands, workers, batches and pairs.
THEOREM TypeCorrect == Spec => []TypeOK
<1>1. IInv => TypeOK
  BY SMTT(40) DEF IInv, CacheOK, EnvOK, TypeOK, Deaths, RunType, DbType, Rows, Transactions, Phases, States, Answer
<1>2. QED BY <1>1, Invariance, PTL

\* "up to 49 pending writes": what a kill can lose is bounded by the batch size, however many
\* pairs a command validates and however often its lock is refused.
THEOREM UncommittedBoundedHolds == Spec => []UncommittedBounded
<1>1. ASSUME IInv, NEW p \in Procs
      PROVE  Cardinality({x \in Pairs : db[p].pending[x] # NoRow}) < BatchSize
  <2>1. db[p] \in DbType /\ Tidy(db[p])
    BY <1>1 DEF IInv, CacheOK
  <2>2. Cardinality(Held(db[p])) \in Nat
    BY <2>1, FS_CardinalityType DEF Tidy
  <2>3. Cardinality(Held(db[p])) < BatchSize
    BY <2>1, <2>2, BatchAssumption DEF Tidy, DbType
  <2>4. QED BY <2>3 DEF Held
<1>2. IInv => UncommittedBounded
  BY <1>1 DEF UncommittedBounded
<1>3. QED BY <1>2, Invariance, PTL

\* The end of a command, its SIGINT handler, the batch limit and the eviction of another row all
\* commit the rows that wait as they are: only the death of the process loses them.
THEOREM OnlyDeathLosesHolds == Spec => OnlyDeathLoses
<1>1. IInv /\ [Next]_vars =>
        [\A p \in Procs, x \in Pairs :
           db[p].pending[x] # NoRow /\ db'[p].pending[x] = NoRow
           => disk'[x] = db[p].pending[x] \/ run'[p].pc \in Deaths]_vars
  BY StepInv
<1>2. QED BY <1>1, Invariance, PTL DEF Spec, OnlyDeathLoses

-----------------------------------------------------------------------------
(* Rows that describe files *)

\* A row says what it was computed from, unless it was corrupted.
Honest(row) ==
  row = NoRow \/ row.result \in {Garbage, [ann |-> row.ann, vid |-> IF row.checked THEN row.vid ELSE Unread]}
AllHonest ==
  \A x \in Pairs :
    Honest(disk[x]) /\ \A p \in Procs : Honest(db[p].pending[x]) /\ Honest(db[p].snap[x])

\* What a worker has read is what the files are, while no file is changed.
Current(p) ==
  Running(run[p]) => \A x \in Pairs :
    /\ run[p].task[x] = "running" =>
         run[p].check_video /\ run[p].got[x] = [ann |-> file[x].ann, vid |-> Unread]
    /\ run[p].task[x] = "finished" => run[p].got[x] \in {Crash, Fresh(x, run[p].check_video)}

HInv == IInv /\ AllHonest /\ \A p \in Procs : Current(p)

\* A commit writes the rows that wait, and nothing else.
LEMMA CommitHonest ==
  ASSUME CacheOK, AllHonest, NEW p \in Procs, NEW d \in DbType, db' = Committed(p, d),
         \A x \in Pairs : Honest(disk'[x])
  PROVE  AllHonest'
<1>1. ASSUME NEW q \in Procs, NEW x \in Pairs
      PROVE  /\ db'[q].pending[x] = NoRow \/ db'[q].pending[x] = db[q].pending[x]
             /\ db'[q].snap[x] = NoRow \/ db'[q].snap[x] = db[q].snap[x]
  <2>1. db[q] \in DbType
    BY DEF CacheOK
  <2>2. CASE q = p
    <3>1. db'[q] = [d EXCEPT !.tx = "none", !.snap = NoRows, !.pending = NoRows]
      BY <2>2 DEF Committed
    <3>2. db'[q].pending = NoRows /\ db'[q].snap = NoRows
      BY <3>1 DEF DbType
    <3>3. QED BY <3>2 DEF NoRows
  <2>3. CASE q # p
    <3>1. db'[q] \in {db[q], [db[q] EXCEPT !.tx = "stale"]}
      BY <2>3 DEF Committed
    <3>2. QED BY <2>1, <3>1 DEF DbType
  <2>4. QED BY <2>2, <2>3
<1>2. \A q \in Procs, x \in Pairs : Honest(db'[q].pending[x]) /\ Honest(db'[q].snap[x])
  BY <1>1 DEF AllHonest, Honest
<1>3. QED BY <1>2 DEF AllHonest, Honest

\* A change of p's record that brings no row.
LEMMA SetHonest ==
  ASSUME CacheOK, AllHonest, NEW p \in Procs, NEW d, Set(p, d), UNCHANGED disk,
         \A x \in Pairs : Honest(d.pending[x]) /\ Honest(d.snap[x])
  PROVE  AllHonest'
<1>1. db'[p] = d /\ \A q \in Procs \ {p} : db'[q] = db[q]
  BY DEF Set, CacheOK
<1>2. \A q \in Procs, x \in Pairs : Honest(db'[q].pending[x]) /\ Honest(db'[q].snap[x])
  BY <1>1 DEF AllHonest
<1>3. QED BY <1>2 DEF AllHonest, Honest

\* The rows of a transaction laid over those on disk.
LEMMA OverlayHonest ==
  ASSUME AllHonest, NEW pending, \A x \in Pairs : Honest(pending[x])
  PROVE  \A x \in Pairs : Honest(Overlay(pending)[x])
BY DEF Overlay, AllHonest

\* lookup brings no row.
LEMMA LookupHonest ==
  ASSUME CacheOK, AllHonest, NEW p \in Procs, NEW x \in Pairs, NEW b \in BOOLEAN,
         LookupHit(p, x, b) \/ LookupMiss(p, x, b) \/ LookupEvict(p, x, b)
  PROVE  AllHonest'
<1> DEFINE h == [Selected(p) EXCEPT !.hits = @ + 1]
<1>1. db[p] \in DbType /\ Selected(p) \in DbType /\ Selected(p).pending = db[p].pending
      /\ Selected(p).snap \in {db[p].snap, disk}
  BY SelectedQuiet DEF CacheOK, Selected, DbType
<1> DEFINE Reads(d) == d.pending = db[p].pending /\ d.snap \in {db[p].snap, disk}
<1>2. /\ Reads(h)
      /\ \A d \in {Selected(p), db[p]} : Reads(Miss(d))
      /\ Reads(Miss(Refused(Selected(p))))
      /\ Miss(db[p]) \in DbType
  <2>1. Reads(h)
    BY <1>1 DEF DbType
  <2> HIDE DEF h
  <2>2. Refused(Selected(p)) \in DbType /\ Reads(Refused(Selected(p)))
    BY <1>1, RefusedQuiet DEF Refused, DbType
  <2>3. QED BY <1>1, <2>1, <2>2, MissQuiet DEF Miss, DbType
<1>3. CASE \E d : Set(p, d) /\ UNCHANGED disk /\ Reads(d)
  BY <1>3, SetHonest DEF AllHonest
<1>4. CASE LookupHit(p, x, b)
  BY <1>2, <1>3, <1>4 DEF LookupHit
<1>5. CASE LookupMiss(p, x, b)
  <2>1. PICK d \in {Selected(p), db[p]} : Set(p, Miss(d)) /\ UNCHANGED disk
    BY <1>5 DEF LookupMiss
  <2>2. QED BY <1>2, <1>3, <2>1
<1>6. CASE LookupEvict(p, x, b) /\ CanWrite(p)
  <2>1. /\ disk' = [Overlay(db[p].pending) EXCEPT ![x] = NoRow]
        /\ db' = Committed(p, Miss(db[p]))
    BY <1>6 DEF LookupEvict
  <2>2. \A y \in Pairs : Honest(Overlay(db[p].pending)[y])
    BY OverlayHonest DEF AllHonest
  <2>3. Honest(NoRow)
    BY DEF Honest
  <2>4. \A y \in Pairs : Honest(disk'[y])
    BY <2>1, <2>2, <2>3 DEF Overlay
  <2>5. QED BY <1>2, <2>1, <2>4, CommitHonest
<1>7. CASE LookupEvict(p, x, b) /\ ~CanWrite(p)
  <2>1. Set(p, Miss(Refused(Selected(p)))) /\ UNCHANGED disk
    BY <1>7 DEF LookupEvict
  <2>2. QED BY <1>2, <1>3, <2>1
<1>8. QED BY <1>4, <1>5, <1>6, <1>7

\* store writes down what the files are now, and what was read is that.
LEMMA StoreHonest ==
  ASSUME CacheOK, AllHonest, NEW p \in Procs, NEW x \in Pairs, NEW b \in BOOLEAN,
         file[x] \in [ann : Contents, vid : Contents],
         Fresh(x, b) \in Result, Store(p, x, Fresh(x, b), b)
  PROVE  AllHonest'
<1> DEFINE row == RowOf(file[x], Fresh(x, b), b)
           d == [db[p] EXCEPT !.tx = "writing", !.writes = @ + 1, !.pending[x] = row]
<1>1. db[p] \in DbType
  BY DEF CacheOK
<1>2. CASE UNCHANGED <<disk, db>>
  BY <1>2 DEF AllHonest, Honest
<1>3. CASE ~(~db[p].open \/ file[x].ann = Gone) /\ ~CanWrite(p)
  <2>1. Set(p, Refused(db[p])) /\ UNCHANGED disk
    BY <1>3 DEF Store
  <2>2. Refused(db[p]).pending = db[p].pending /\ Refused(db[p]).snap = db[p].snap
    BY <1>1, RefusedQuiet DEF Refused, DbType
  <2>3. QED BY <2>1, <2>2, SetHonest DEF AllHonest
<1>4. CASE ~(~db[p].open \/ file[x].ann = Gone) /\ CanWrite(p)
  <2>1. Honest(row)
    BY DEF Honest, RowOf, Fresh
  <2>2. row \in Row
    BY <1>4 DEF RowOf, Row, Contents
  <2> HIDE DEF row
  <2>3. /\ d.pending = [db[p].pending EXCEPT ![x] = row] /\ d.writes = db[p].writes + 1
        /\ db[p].pending \in Rows /\ d.snap = db[p].snap
    BY <1>1 DEF DbType
  <2>4. \A y \in Pairs : Honest(d.pending[y]) /\ Honest(d.snap[y])
    BY <2>1, <2>3 DEF AllHonest, Rows
  <2>5. CASE d.writes >= BatchSize
    <3>1. disk' = Overlay(d.pending) /\ db' = Committed(p, [d EXCEPT !.writes = 0])
      BY <1>4, <2>5 DEF Store, row
    <3>2. [d EXCEPT !.writes = 0] \in DbType
      <4>1. PICK r \in Rows : r = [db[p].pending EXCEPT ![x] = row]
        BY <2>2, <2>3 DEF Rows
      <4>2. d = [db[p] EXCEPT !.tx = "writing", !.writes = @ + 1, !.pending = r]
        BY <4>1
      <4>3. d \in DbType
        BY <1>1, <4>2, WritingTyped
      <4> HIDE DEF d
      <4>4. QED BY <4>3 DEF DbType
    <3> HIDE DEF d
    <3>3. \A y \in Pairs : Honest(disk'[y])
      BY <2>4, <3>1, OverlayHonest
    <3>4. QED BY <3>1, <3>2, <3>3, CommitHonest
  <2>6. CASE ~(d.writes >= BatchSize)
    <3>1. Set(p, d) /\ UNCHANGED disk
      BY <1>4, <2>6 DEF Store, row
    <3> HIDE DEF d
    <3>2. QED BY <2>4, <3>1, SetHonest
  <2>7. QED BY <2>5, <2>6
<1>5. QED BY <1>2, <1>3, <1>4 DEF Store

\* Opening, closing and losing the cache bring no row, nor does a row that is corrupted.
LEMMA ClosedHonest ==
  ASSUME CacheOK, AllHonest, NEW p \in Procs,
         (\E clean \in BOOLEAN : OpenCache(p, clean)) \/ Close(p) \/ Abandon(p)
  PROVE  AllHonest'
<1> DEFINE o == [Closed EXCEPT !.open = TRUE]
           c == [Closed EXCEPT !.hits = db[p].hits, !.misses = db[p].misses]
<1>1. db[p] \in DbType
  BY DEF CacheOK
<1>2. \A x \in Pairs : Honest(NoRows[x])
  BY DEF NoRows, Honest
<1>3. Closed \in DbType /\ o \in DbType /\ c \in DbType
  BY <1>1 DEF Closed, DbType, Transactions, Rows, NoRows
<1> DEFINE Empty(d) == d.pending = NoRows /\ d.snap = NoRows
<1>4. Empty(Closed) /\ Empty(o) /\ Empty(c)
  BY DEF Closed
<1> HIDE DEF o, c
<1>5. Empty(Refused(o))
  BY <1>3, <1>4, RefusedQuiet DEF Refused, DbType
<1>6. CASE \E d \in {Closed, o, c, Refused(o)} : Set(p, d) /\ UNCHANGED disk
  BY <1>2, <1>4, <1>5, <1>6, SetHonest
<1>7. CASE disk' = NoRows /\ db' = Committed(p, o)
  BY <1>2, <1>3, <1>7, CommitHonest
<1>8. CASE disk' = Overlay(db[p].pending) /\ db' = Committed(p, c)
  <2>1. \A x \in Pairs : Honest(disk'[x])
    BY <1>8, OverlayHonest DEF AllHonest
  <2>2. QED BY <1>3, <1>8, <2>1, CommitHonest
<1>9. QED BY <1>6, <1>7, <1>8 DEF OpenCache, Close, Abandon, o, c

\* A row that becomes unreadable vouches for nothing.
LEMMA CorruptHonest ==
  ASSUME CacheOK, AllHonest, NEW x \in Pairs, CorruptRow(x) PROVE AllHonest'
<1>1. disk[x] \in Row /\ disk \in Rows /\ disk' = [disk EXCEPT ![x].result = Garbage] /\ UNCHANGED db
  BY DEF CorruptRow, CacheOK, Rows
<1>2. disk'[x] = [disk[x] EXCEPT !.result = Garbage] /\ \A y \in Pairs \ {x} : disk'[y] = disk[y]
  BY <1>1 DEF Rows
<1>3. disk'[x].result = Garbage
  BY <1>1, <1>2 DEF Row
<1>4. ASSUME NEW y \in Pairs PROVE Honest(disk'[y])
  BY <1>2, <1>3 DEF AllHonest, Honest
<1>5. QED BY <1>1, <1>4 DEF AllHonest

\* What a worker has read stays current when its pair is left alone, or handed back as a crash.
LEMMA KeepsCurrent ==
  ASSUME NEW p \in Procs, Current(p), UNCHANGED file,
         Running(run'[p]) =>
           /\ Running(run[p]) /\ run'[p].check_video = run[p].check_video
           /\ \A y \in Pairs :
                \/ run'[p].task[y] \notin {"running", "finished"}
                \/ run'[p].task[y] = run[p].task[y] /\ run'[p].got[y] = run[p].got[y]
                \/ run'[p].task[y] = "finished" /\ run'[p].got[y] = Crash
  PROVE  Current(p)'
BY DEF Current, Fresh, Running

\* The state in which a batch begins holds nothing a worker read.
LEMMA NextBatchCurrent ==
  ASSUME NEW p \in Procs, NEW r \in RunType, Running(r), Fits(p, r)
  PROVE  LET b == NextBatch(p, r)
         IN  /\ b.check_video = r.check_video
             /\ \A y \in Pairs :
                  \/ b.task[y] = "none"
                  \/ b.task[y] = r.task[y] /\ b.got[y] = r.got[y]
<1>1. CASE r.batch < Len(Plan[p])
  BY <1>1 DEF NextBatch, Batch, NoTask, RunType
<1>2. CASE ~(r.batch < Len(Plan[p]))
  BY <1>2 DEF NextBatch, RunType
<1>3. QED BY <1>1, <1>2

\* Where the cache is left alone its rows are.
LEMMA AloneHonest == ASSUME AllHonest, UNCHANGED <<disk, db>> PROVE AllHonest'
BY DEF AllHonest

\* The steps of a command until its workers start.
LEMMA LookUpCurrent ==
  ASSUME HInv, NEW p \in Procs,
         LookUp(p) \/ Dispatch(p) \/ Submit(p) \/ SubmitRaises(p) \/ SubmitEnds(p) \/ FinishBatch(p)
  PROVE  AllHonest' /\ Current(p)'
<1> DEFINE r == run[p]
<1>1. /\ r \in RunType /\ Fits(p, r) /\ Running(r) /\ Current(p) /\ UNCHANGED file
      /\ run' = [run EXCEPT ![p] = run'[p]] /\ p \in DOMAIN run /\ AllHonest /\ CacheOK
  BY DEF HInv, IInv, LookUp, Dispatch, Submit, SubmitRaises, SubmitEnds, FinishBatch, Become, Running
<1>2. CASE LookUp(p)
  <2> DEFINE x == Head(r.todo)
             rest == [r EXCEPT !.todo = Tail(@)]
  <2>1. run'[p] \in {[rest EXCEPT !.answers[x] = Append(@, View(p)[x].result)],
                     [rest EXCEPT !.uncached = Append(@, x)]}
    BY <1>1, <1>2 DEF LookUp, Become
  <2>2. run'[p].check_video = r.check_video /\ run'[p].task = r.task /\ run'[p].got = r.got
    BY <1>1, <2>1 DEF RunType
  <2>3. Current(p)'
    BY <1>1, <2>2, KeepsCurrent
  <2>4. x \in Pairs /\ r.check_video \in BOOLEAN
    <3>1. r.todo \in Seq(Pairs) /\ r.todo # <<>> /\ r.check_video \in BOOLEAN
      BY <1>1, <1>2 DEF RunType, LookUp
    <3> HIDE DEF r
    <3>2. QED BY <3>1, HeadTail
  <2>5. LookupHit(p, x, r.check_video) \/ LookupMiss(p, x, r.check_video) \/ LookupEvict(p, x, r.check_video)
    BY <1>2 DEF LookUp
  <2>6. AllHonest'
    BY <1>1, <2>4, <2>5, LookupHonest
  <2>7. QED BY <2>3, <2>6
<1>3. CASE Dispatch(p) \/ Submit(p) \/ SubmitEnds(p)
  <2>1. run'[p] \in {[r EXCEPT !.pc = "serial"], [r EXCEPT !.pc = "submit", !.unsubmitted = r.uncached],
                     [r EXCEPT !.pc = "collect"],
                     [r EXCEPT !.unsubmitted = Tail(@), !.task[Head(r.unsubmitted)] = "queued"]}
    BY <1>1, <1>3 DEF Dispatch, Submit, SubmitEnds, Become
  <2>2. run'[p].check_video = r.check_video /\ run'[p].got = r.got
        /\ run'[p].task \in {r.task, [r.task EXCEPT ![Head(r.unsubmitted)] = "queued"]}
    BY <1>1, <2>1 DEF RunType
  <2>3. \A y \in Pairs : run'[p].task[y] \in {r.task[y], "queued"}
    BY <1>1, <2>2 DEF RunType
  <2>4. Current(p)'
    BY <1>1, <2>2, <2>3, KeepsCurrent
  <2>5. UNCHANGED <<disk, db>>
    BY <1>3 DEF Dispatch, Submit, SubmitEnds
  <2>6. QED BY <1>1, <2>4, <2>5, AloneHonest
<1>4. CASE SubmitRaises(p) \/ FinishBatch(p)
  <2> DEFINE e == [r EXCEPT !.pc = "escaping"]
             b(report) == [r EXCEPT !.reports = Append(@, report)]
  <2>1. UNCHANGED <<disk, db>> /\
        \/ run'[p] = e
        \/ \E report \in Reports : run'[p] = NextBatch(p, b(report))
    <3>1. [kind |-> "validate_crash", hits |-> 0, misses |-> 0] \in Reports
          /\ [kind |-> "result", hits |-> db[p].hits, misses |-> db[p].misses] \in Reports
      BY <1>1 DEF Reports, CacheOK, DbType
    <3>2. QED BY <1>1, <1>4, <3>1 DEF SubmitRaises, FinishBatch, Become
  <2>2. CASE run'[p] = e
    <3>1. e.check_video = r.check_video /\ e.task = r.task /\ e.got = r.got
      BY <1>1 DEF RunType
    <3>2. QED BY <1>1, <2>1, <2>2, <3>1, KeepsCurrent, AloneHonest
  <2>3. ASSUME NEW report \in Reports, run'[p] = NextBatch(p, b(report)) PROVE Current(p)'
    <3> DEFINE c == b(report)
    <3>1. Append(r.reports, report) \in Seq(Reports)
      BY <1>1 DEF RunType
    <3>2. /\ c \in RunType /\ c.batch = r.batch /\ c.task = r.task /\ c.got = r.got /\ c.pc = r.pc
          /\ c.todo = r.todo /\ c.uncached = r.uncached /\ c.unsubmitted = r.unsubmitted
          /\ c.check_video = r.check_video
      BY <1>1, <3>1 DEF RunType
    <3>3. run'[p] = NextBatch(p, c)
      BY <2>3
    <3> HIDE DEF r, c, b
    <3>4. {c.todo, c.uncached, c.unsubmitted} \subseteq Seq(PairsOf(p, r.batch))
      BY <1>1, <3>2 DEF Fits
    <3>5. Fits(p, c) /\ Running(c)
      BY <1>1, <3>2, <3>4, SameFits DEF Running
    <3>6. /\ run'[p].check_video = r.check_video
          /\ \A y \in Pairs : \/ run'[p].task[y] = "none"
                              \/ run'[p].task[y] = r.task[y] /\ run'[p].got[y] = r.got[y]
      BY <3>2, <3>3, <3>5, NextBatchCurrent
    <3>7. QED BY <1>1, <3>6, KeepsCurrent DEF r
  <2>4. QED BY <1>1, <2>1, <2>2, <2>3, AloneHonest
<1>5. QED BY <1>2, <1>3, <1>4

\* The workers read what is there.
LEMMA WorkerCurrent ==
  ASSUME HInv, NEW p \in Procs, NEW x \in Pairs,
         ReadAnnotation(p, x) \/ ReadVideo(p, x) \/ WorkerRaises(p, x) \/ PoolBreaks(p)
  PROVE  AllHonest' /\ Current(p)'
<1> DEFINE r == run[p]
<1>1. /\ r \in RunType /\ Running(r) /\ Current(p) /\ UNCHANGED file /\ UNCHANGED <<disk, db>>
      /\ run' = [run EXCEPT ![p] = run'[p]] /\ p \in DOMAIN run
  BY DEF HInv, IInv, ReadAnnotation, ReadVideo, WorkerRaises, PoolBreaks, Become, Active, Deaths, Running
<1>2. AllHonest'
  BY <1>1, AloneHonest DEF HInv
<1>3. CASE ReadAnnotation(p, x)
  <2> DEFINE g == [ann |-> file[x].ann, vid |-> Unread]
             t == IF r.check_video THEN "running" ELSE "finished"
  <2>1. run'[p] = [r EXCEPT !.got[x] = g, !.task[x] = t]
    BY <1>1, <1>3 DEF ReadAnnotation, Become
  <2> HIDE DEF g, t
  <2>2. /\ run'[p].check_video = r.check_video
        /\ run'[p].task = [r.task EXCEPT ![x] = t] /\ run'[p].got = [r.got EXCEPT ![x] = g]
    BY <1>1, <2>1 DEF RunType
  <2>3. /\ run'[p].task[x] = t /\ run'[p].got[x] = g
        /\ \A y \in Pairs \ {x} : run'[p].task[y] = r.task[y] /\ run'[p].got[y] = r.got[y]
    BY <1>1, <2>2 DEF RunType
  <2>4. QED BY <1>1, <1>2, <2>2, <2>3 DEF Current, Fresh, Running, g, t
<1>4. CASE ReadVideo(p, x)
  <2> DEFINE g == [r.got[x] EXCEPT !.vid = file[x].vid]
  <2>1. run'[p] = [r EXCEPT !.got[x] = g, !.task[x] = "finished"] /\ r.task[x] = "running"
    BY <1>1, <1>4 DEF ReadVideo, Become
  <2>2. r.check_video /\ r.got[x] = [ann |-> file[x].ann, vid |-> Unread]
    BY <1>1, <2>1 DEF Current
  <2>3. g = Fresh(x, r.check_video)
    BY <2>2 DEF Fresh
  <2> HIDE DEF g
  <2>4. /\ run'[p].check_video = r.check_video
        /\ run'[p].task = [r.task EXCEPT ![x] = "finished"] /\ run'[p].got = [r.got EXCEPT ![x] = g]
    BY <1>1, <2>1 DEF RunType
  <2>5. /\ run'[p].task[x] = "finished" /\ run'[p].got[x] = g
        /\ \A y \in Pairs \ {x} : run'[p].task[y] = r.task[y] /\ run'[p].got[y] = r.got[y]
    BY <1>1, <2>4 DEF RunType
  <2>6. QED BY <1>1, <1>2, <2>3, <2>4, <2>5 DEF Current, Fresh, Running
<1>5. CASE WorkerRaises(p, x)
  <2>1. run'[p] = [r EXCEPT !.got[x] = Crash, !.task[x] = "finished"]
    BY <1>1, <1>5 DEF WorkerRaises, Become
  <2>2. /\ run'[p].check_video = r.check_video
        /\ run'[p].task = [r.task EXCEPT ![x] = "finished"]
        /\ run'[p].got = [r.got EXCEPT ![x] = Crash]
    BY <1>1, <2>1 DEF RunType
  <2>3. /\ run'[p].task[x] = "finished" /\ run'[p].got[x] = Crash
        /\ \A y \in Pairs \ {x} : run'[p].task[y] = r.task[y] /\ run'[p].got[y] = r.got[y]
    BY <1>1, <2>2 DEF RunType
  <2>4. QED BY <1>1, <1>2, <2>2, <2>3, KeepsCurrent
<1>6. CASE PoolBreaks(p)
  <2> DEFINE hurt == Tasks(p, "queued") \cup Tasks(p, "running")
             task == [y \in Pairs |-> IF y \in hurt THEN "finished" ELSE r.task[y]]
             got == [y \in Pairs |-> IF y \in hurt THEN Crash ELSE r.got[y]]
  <2>1. run'[p] = [r EXCEPT !.broken = TRUE, !.task = task, !.got = got]
    BY <1>1, <1>6 DEF PoolBreaks, Become
  <2>2. \A y \in Pairs : \/ task[y] = r.task[y] /\ got[y] = r.got[y]
                         \/ task[y] = "finished" /\ got[y] = Crash
    OBVIOUS
  <2> HIDE DEF task, got
  <2>3. run'[p].check_video = r.check_video /\ run'[p].task = task /\ run'[p].got = got
    BY <1>1, <2>1 DEF RunType
  <2>4. QED BY <1>1, <1>2, <2>2, <2>3, KeepsCurrent
<1>7. QED BY <1>3, <1>4, <1>5, <1>6

\* A command that starts has read nothing, and finds the rows it opens as they were.
LEMMA StartCurrent == ASSUME HInv, NEW p \in Procs, Start(p) PROVE AllHonest' /\ Current(p)'
<1>1. PICK cv \in BOOLEAN, uc \in BOOLEAN, clean \in BOOLEAN :
        /\ Become(p, Batch([Idle EXCEPT !.check_video = cv, !.use_cache = uc,
                                        !.runs = run[p].runs + 1], 1, p))
        /\ IF uc THEN OpenCache(p, clean) ELSE UNCHANGED <<disk, db>>
  BY DEF Start
<1>2. p \in DOMAIN run /\ CacheOK /\ AllHonest
  BY DEF HInv, IInv
<1>3. run'[p].task = NoTask
  BY <1>1, <1>2 DEF Become, Batch, Idle
<1>4. Current(p)'
  BY <1>3 DEF Current, NoTask
<1>5. AllHonest'
  BY <1>1, <1>2, ClosedHonest, AloneHonest
<1>6. QED BY <1>4, <1>5

\* What is delivered was read while its command ran: a result that is stored is that of the files
\* whose fingerprints are stored with it.
LEMMA DeliverCurrent ==
  ASSUME HInv, NEW p \in Procs, NEW x \in Pairs, Deliver(p, x)
  PROVE  AllHonest' /\ Current(p)'
<1> DEFINE r == run[p]
<1>1. /\ r \in RunType /\ Running(r) /\ Current(p) /\ UNCHANGED file /\ r.task[x] = "finished"
      /\ p \in DOMAIN run /\ CacheOK /\ AllHonest /\ file[x] \in [ann : Contents, vid : Contents]
  BY DEF HInv, IInv, EnvOK, Deliver, Running
<1>2. run'[p] = [r EXCEPT !.task[x] = "delivered", !.answers[x] = Append(@, r.got[x])]
  BY <1>1 DEF Deliver, Become
<1>3. /\ run'[p].check_video = r.check_video /\ run'[p].got = r.got
      /\ run'[p].task = [r.task EXCEPT ![x] = "delivered"]
  BY <1>1, <1>2 DEF RunType
<1>4. \A y \in Pairs : run'[p].task[y] \in {r.task[y], "delivered"}
  BY <1>1, <1>3 DEF RunType
<1>5. Current(p)'
  BY <1>1, <1>3, <1>4, KeepsCurrent
<1>6. CASE Store(p, x, r.got[x], r.check_video) /\ Cacheable(r.got[x])
  <2>1. r.got[x] \in Answer /\ r.check_video \in BOOLEAN
    BY <1>1 DEF RunType
  <2>2. r.got[x] \in Result /\ r.got[x] = Fresh(x, r.check_video)
    BY <1>1, <1>6, <2>1 DEF Cacheable, Answer, Current
  <2> HIDE DEF r
  <2>3. QED BY <1>1, <1>5, <1>6, <2>1, <2>2, StoreHonest
<1>7. CASE UNCHANGED <<disk, db>>
  BY <1>1, <1>5, <1>7, AloneHonest
<1>8. QED BY <1>6, <1>7 DEF Deliver

\* A command that ends leaves the rows it has written.
LEMMA EndCurrent ==
  ASSUME HInv, NEW p \in Procs, Finish(p) \/ Interrupt(p) \/ Kill(p) \/ Terminate(p)
  PROVE  AllHonest' /\ Current(p)'
<1>1. run[p] \in RunType /\ p \in DOMAIN run /\ CacheOK /\ AllHonest
  BY DEF HInv, IInv
<1>2. PICK pc \in {"done", "escaped", "interrupted", "killed", "terminated"} : run'[p] = [run[p] EXCEPT !.pc = pc]
  BY <1>1 DEF Finish, Interrupt, Kill, Terminate, Die, Become, RunType
<1>3. Current(p)'
  BY <1>1, <1>2 DEF Current, Running, RunType
<1>4. Close(p) \/ Abandon(p)
  BY DEF Finish, Interrupt, Kill, Terminate, Die
<1>5. QED BY <1>1, <1>3, <1>4, ClosedHonest

\* A step of a command leaves the other commands and the files.
LEMMA HonestStep ==
  ASSUME HInv, IInv', NEW p \in Procs,
         Start(p) \/ Command(p) \/ PoolBreaks(p) \/ Interrupt(p) \/ Kill(p) \/ Terminate(p)
         \/ \E x \in Pairs : WorkerRaises(p, x)
  PROVE  HInv' /\ UNCHANGED file /\ run' = [run EXCEPT ![p] = run'[p]]
<1>1. AllHonest' /\ Current(p)' /\ UNCHANGED file /\ run' = [run EXCEPT ![p] = run'[p]]
  <2>1. p \in DOMAIN run
    BY DEF HInv, IInv
  <2>2. CASE Command(p)
    <3>1. AllHonest' /\ Current(p)'
      BY <2>2, LookUpCurrent, WorkerCurrent, DeliverCurrent, EndCurrent DEF Command
    <3>2. UNCHANGED file /\ \E r : Become(p, r)
      BY <2>2 DEF Command, LookUp, Dispatch, Submit, SubmitRaises, SubmitEnds, ReadAnnotation,
                  ReadVideo, Deliver, FinishBatch, Finish
    <3>3. QED BY <2>1, <3>1, <3>2 DEF Become
  <2>3. CASE PoolBreaks(p)
    <3>1. \E x : x \in Pairs
      BY <2>3 DEF PoolBreaks, Tasks
    <3>2. QED BY <2>1, <2>3, <3>1, WorkerCurrent DEF PoolBreaks, Become
  <2>4. CASE \E x \in Pairs : WorkerRaises(p, x)
    BY <2>1, <2>4, WorkerCurrent DEF WorkerRaises, Become
  <2>5. CASE Start(p)
    BY <2>1, <2>5, StartCurrent DEF Start, Become
  <2>6. CASE Interrupt(p) \/ Kill(p) \/ Terminate(p)
    BY <2>1, <2>6, EndCurrent DEF Interrupt, Kill, Terminate, Die, Become
  <2>7. QED BY <2>2, <2>3, <2>4, <2>5, <2>6
<1>2. ASSUME NEW q \in Procs, q # p PROVE Current(q)'
  <2>1. run'[q] = run[q] /\ Current(q)
    BY <1>1, <1>2 DEF HInv, IInv
  <2>2. QED BY <1>1, <2>1 DEF Current, Fresh, Running
<1>3. QED BY <1>1, <1>2 DEF HInv

\* Before the first command there are no rows.
LEMMA HonestInit == Init => HInv
<1> SUFFICES ASSUME Init PROVE HInv
  OBVIOUS
<1>1. IInv
  BY InitInv
<1>2. AllHonest
  BY DEF Init, AllHonest, Honest, Closed, NoRows
<1>3. \A p \in Procs : Current(p)
  BY DEF Init, Current, Running, Idle
<1>4. QED BY <1>1, <1>2, <1>3 DEF HInv

\* The invariant, when no file is changed under a command that runs.
LEMMA HonestNext == ASSUME ~EditsDuringRuns, HInv, [Next]_vars PROVE HInv'
<1>1. IInv'
  BY StepInv DEF HInv
<1>2. CASE \E x \in Pairs : Edit(x)
  <2>1. AllHonest'
    BY <1>2, AloneHonest DEF HInv, Edit
  <2>2. \A p \in Procs : ~Running(run'[p])
    BY <1>2 DEF Edit, Active, Deaths, Running
  <2>3. \A p \in Procs : Current(p)'
    BY <2>2 DEF Current, Running
  <2>4. QED BY <1>1, <2>1, <2>3 DEF HInv
<1>3. CASE \E x \in Pairs : Corrupt(x)
  <2>1. AllHonest'
    BY <1>3, CorruptHonest DEF HInv, IInv, Corrupt
  <2>2. \A p \in Procs : Current(p)'
    BY <1>3 DEF HInv, Current, Fresh, Running, Corrupt, CorruptRow
  <2>3. QED BY <1>1, <2>1, <2>2 DEF HInv
<1>4. CASE UNCHANGED vars
  <2>1. AllHonest'
    BY <1>4, AloneHonest DEF HInv, vars
  <2>2. \A p \in Procs : Current(p)'
    BY <1>4 DEF HInv, Current, Fresh, Running, vars
  <2>3. QED BY <1>1, <2>1, <2>2 DEF HInv
<1>5. QED BY <1>1, <1>2, <1>3, <1>4, HonestStep DEF Next

\* With files at rest while commands run, the commands' rows stay what the files were: several
\* commands may look up, evict, store, commit, clear and die in any order.
THEOREM RowsDescribeFilesHolds == ASSUME ~EditsDuringRuns PROVE Spec => []RowsDescribeFiles
<1>1. HInv /\ [Next]_vars => HInv'
  BY HonestNext
<1>2. HInv => RowsDescribeFiles
  BY DEF HInv, AllHonest, Honest, RowsDescribeFiles
<1>3. QED BY <1>1, <1>2, HonestInit, PTL DEF Spec

-----------------------------------------------------------------------------
(* Results that are fresh *)

\* A result a command may hand on: what validating the pair now gives, or what ResultsAreFresh allows.
Sure(x, cv, result) ==
  \/ result \in {Crash, Fresh(x, cv)}
  \/ ~cv /\ result = Fresh(x, TRUE)
  \/ file[x].vid = Gone /\ result.ann = file[x].ann

AllSure(p) ==
  Running(run[p]) => \A x \in Pairs : \A i \in DOMAIN run[p].answers[x] :
    Sure(x, run[p].check_video, run[p].answers[x][i])

\* A row that describes its files and matches them gives their result.
LEMMA HitSure ==
  ASSUME AllHonest, NEW p \in Procs, NEW x \in Pairs, NEW cv \in BOOLEAN, LookupHit(p, x, cv)
  PROVE  Sure(x, cv, View(p)[x].result)
<1> DEFINE row == View(p)[x]
<1>1. Matches(row, file[x], cv) /\ row.result # Garbage
  BY DEF LookupHit, Found
<1>2. Honest(row)
  BY DEF View, AllHonest
<1> HIDE DEF row
<1>3. row.result = [ann |-> row.ann, vid |-> IF row.checked THEN row.vid ELSE Unread]
  BY <1>1, <1>2 DEF Honest, Matches
<1>4. row.ann = file[x].ann /\ row.result.ann = file[x].ann
  BY <1>1, <1>3 DEF Matches
<1>5. CASE file[x].vid = Gone
  BY <1>4, <1>5 DEF Sure, row
<1>6. CASE file[x].vid # Gone
  <2>1. row.vid = file[x].vid /\ (cv => row.checked)
    BY <1>1, <1>6 DEF Matches
  <2>2. row.result = Fresh(x, IF row.checked THEN TRUE ELSE FALSE)
    BY <1>3, <1>4, <2>1 DEF Fresh
  <2>3. \/ row.result = Fresh(x, cv)
        \/ ~cv /\ row.result = Fresh(x, TRUE)
    BY <2>1, <2>2
  <2>4. QED BY <2>3 DEF Sure, row
<1>7. QED BY <1>5, <1>6

\* Accumulated results stay what they were while no file is changed.
LEMMA KeepsSure ==
  ASSUME NEW p \in Procs, AllSure(p), run[p] \in RunType, UNCHANGED file,
         run'[p].check_video = run[p].check_video, Running(run[p]),
         \A y \in Pairs :
           \/ run'[p].answers[y] = run[p].answers[y]
           \/ \E a \in Answer : /\ run'[p].answers[y] = Append(run[p].answers[y], a)
                                /\ Sure(y, run[p].check_video, a)
  PROVE  AllSure(p)'
<1> DEFINE cv == run[p].check_video
<1>1. ASSUME NEW y \in Pairs, NEW i \in DOMAIN run'[p].answers[y]
      PROVE  Sure(y, cv, run'[p].answers[y][i])
  <2>1. \A j \in DOMAIN run[p].answers[y] : Sure(y, cv, run[p].answers[y][j])
    BY DEF AllSure
  <2>2. CASE run'[p].answers[y] = run[p].answers[y]
    BY <1>1, <2>1, <2>2
  <2>3. ASSUME NEW a \in Answer, run'[p].answers[y] = Append(run[p].answers[y], a), Sure(y, cv, a)
        PROVE  Sure(y, cv, run'[p].answers[y][i])
    <3>1. run[p].answers[y] \in Seq(Answer)
      BY DEF RunType
    <3> DEFINE s == run[p].answers[y]
    <3> HIDE DEF s
    <3>2. i \in DOMAIN s \/ Append(s, a)[i] = a
      BY <1>1, <2>3, <3>1 DEF s
    <3>3. i \in DOMAIN s => Append(s, a)[i] = s[i]
      BY <3>1 DEF s
    <3>4. QED BY <2>1, <2>3, <3>2, <3>3 DEF s
  <2>4. QED BY <2>2, <2>3
<1>2. QED BY <1>1 DEF AllSure, Sure, Fresh, Running

\* The steps that hand on no result.
LEMMA SilentSure ==
  ASSUME HInv, NEW p \in Procs, NEW x \in Pairs, AllSure(p),
         \/ Dispatch(p) \/ Submit(p) \/ SubmitRaises(p) \/ SubmitEnds(p) \/ FinishBatch(p)
         \/ ReadAnnotation(p, x) \/ ReadVideo(p, x) \/ WorkerRaises(p, x) \/ PoolBreaks(p)
  PROVE  AllSure(p)'
<1> DEFINE r == run[p]
           Same(s) == s.check_video = r.check_video /\ s.answers = r.answers
<1>1. /\ r \in RunType /\ Running(r) /\ UNCHANGED file
      /\ p \in DOMAIN run
  BY DEF HInv, IInv, Dispatch, Submit, SubmitRaises, SubmitEnds, FinishBatch,
         ReadAnnotation, ReadVideo, WorkerRaises, PoolBreaks, Become, Active, Deaths, Running
<1>2. SUFFICES Same(run'[p])
  BY <1>1, KeepsSure
<1>3. CASE Dispatch(p) \/ Submit(p) \/ SubmitEnds(p)
  <2>1. run'[p] \in {[r EXCEPT !.pc = "serial"], [r EXCEPT !.pc = "submit", !.unsubmitted = r.uncached],
                     [r EXCEPT !.pc = "collect"],
                     [r EXCEPT !.unsubmitted = Tail(@), !.task[Head(r.unsubmitted)] = "queued"]}
    BY <1>1, <1>3 DEF Dispatch, Submit, SubmitEnds, Become
  <2>2. QED BY <1>1, <2>1 DEF RunType
<1>4. CASE ReadAnnotation(p, x) \/ ReadVideo(p, x) \/ WorkerRaises(p, x)
  <2>1. CASE ReadAnnotation(p, x)
    BY <1>1, <2>1 DEF ReadAnnotation, Become, RunType
  <2>2. CASE ReadVideo(p, x)
    BY <1>1, <2>2 DEF ReadVideo, Become, RunType
  <2>3. CASE WorkerRaises(p, x)
    BY <1>1, <2>3 DEF WorkerRaises, Become, RunType
  <2>4. QED BY <1>4, <2>1, <2>2, <2>3
<1>5. CASE PoolBreaks(p)
  BY <1>1, <1>5 DEF PoolBreaks, Become, RunType
<1>6. CASE SubmitRaises(p) \/ FinishBatch(p)
  <2>1. run'[p] = [r EXCEPT !.pc = "escaping"]
        \/ \E report : run'[p] = NextBatch(p, [r EXCEPT !.reports = Append(@, report)])
    BY <1>1, <1>6 DEF SubmitRaises, FinishBatch, Become
  <2>2. \A report : Same(NextBatch(p, [r EXCEPT !.reports = Append(@, report)]))
    BY <1>1 DEF NextBatch, Batch, RunType
  <2>3. Same([r EXCEPT !.pc = "escaping"])
    BY <1>1 DEF RunType
  <2>4. QED BY <2>1, <2>2, <2>3
<1>7. QED BY <1>3, <1>4, <1>5, <1>6

\* A hit hands on the result of its row.
LEMMA LookUpSure == ASSUME HInv, NEW p \in Procs, AllSure(p), LookUp(p) PROVE AllSure(p)'
<1> DEFINE r == run[p]
           x == Head(r.todo)
           rest == [r EXCEPT !.todo = Tail(@)]
           row == View(p)[x]
<1>1. r \in RunType /\ Running(r) /\ UNCHANGED file /\ p \in DOMAIN run /\ AllHonest /\ CacheOK
  BY DEF HInv, IInv, LookUp, Running
<1>2. x \in Pairs /\ r.check_video \in BOOLEAN
  <2>1. r.todo \in Seq(Pairs) /\ r.todo # <<>> /\ r.check_video \in BOOLEAN
    BY <1>1 DEF RunType, LookUp
  <2> HIDE DEF r
  <2>2. QED BY <2>1, HeadTail
<1>3. CASE /\ LookupHit(p, x, r.check_video)
           /\ run'[p] = [rest EXCEPT !.answers[x] = Append(@, row.result)]
  <2>1. Sure(x, r.check_video, row.result)
    BY <1>1, <1>2, <1>3, HitSure
  <2>2. row.result \in Answer
    <3>1. row \in Row
      <4>1. db[p] \in DbType /\ disk \in Rows
        BY <1>1 DEF CacheOK
      <4>2. row \in {db[p].pending[x], db[p].snap[x], disk[x]}
        BY <1>2 DEF View
      <4>3. row # NoRow
        BY <1>3 DEF LookupHit, Found, Matches
      <4> HIDE DEF row, x
      <4>4. QED BY <1>2, <4>1, <4>2, <4>3 DEF DbType, Rows
    <3>2. row.result # Garbage
      BY <1>3 DEF LookupHit
    <3> HIDE DEF row
    <3>3. QED BY <3>1, <3>2 DEF Row, Answer
  <2> HIDE DEF row, x
  <2>3. run'[p].check_video = r.check_video
        /\ run'[p].answers = [r.answers EXCEPT ![x] = Append(@, row.result)]
    BY <1>1, <1>3 DEF RunType
  <2>4. \A y \in Pairs : \/ run'[p].answers[y] = r.answers[y]
                         \/ y = x /\ run'[p].answers[y] = Append(r.answers[y], row.result)
    BY <1>1, <2>3 DEF RunType
  <2>5. QED BY <1>1, <2>1, <2>2, <2>3, <2>4, KeepsSure
<1>4. CASE run'[p] = [rest EXCEPT !.uncached = Append(@, x)]
  <2>1. run'[p].check_video = r.check_video /\ run'[p].answers = r.answers
    BY <1>1, <1>4 DEF RunType
  <2>2. QED BY <1>1, <2>1, KeepsSure
<1>5. QED BY <1>1, <1>3, <1>4 DEF LookUp, Become

\* A worker's result is handed on once it is complete.
LEMMA DeliverSure ==
  ASSUME HInv, NEW p \in Procs, NEW x \in Pairs, AllSure(p), Deliver(p, x) PROVE AllSure(p)'
<1> DEFINE r == run[p]
<1>1. /\ r \in RunType /\ Running(r) /\ Current(p) /\ UNCHANGED file /\ r.task[x] = "finished"
      /\ p \in DOMAIN run
  BY DEF HInv, IInv, Deliver, Running
<1>2. run'[p] = [r EXCEPT !.task[x] = "delivered", !.answers[x] = Append(@, r.got[x])]
  BY <1>1 DEF Deliver, Become
<1>3. run'[p].check_video = r.check_video
      /\ run'[p].answers = [r.answers EXCEPT ![x] = Append(@, r.got[x])]
  BY <1>1, <1>2 DEF RunType
<1>4. \A y \in Pairs : \/ run'[p].answers[y] = r.answers[y]
                       \/ y = x /\ run'[p].answers[y] = Append(r.answers[y], r.got[x])
  BY <1>1, <1>3 DEF RunType
<1>5. r.got[x] \in Answer
  BY <1>1 DEF RunType
<1>6. Sure(x, r.check_video, r.got[x])
  BY <1>1 DEF Current, Sure
<1>7. QED BY <1>1, <1>3, <1>4, <1>5, <1>6, KeepsSure

\* A command starts without results, and one that has ended accumulates none.
LEMMA EdgeSure ==
  ASSUME HInv, NEW p \in Procs, Start(p) \/ Finish(p) \/ Interrupt(p) \/ Kill(p) \/ Terminate(p)
  PROVE  AllSure(p)'
<1>1. p \in DOMAIN run /\ run[p] \in RunType
  BY DEF HInv, IInv
<1>2. CASE Start(p)
  <2>1. PICK cv \in BOOLEAN, uc \in BOOLEAN :
          run'[p] = Batch([Idle EXCEPT !.check_video = cv, !.use_cache = uc,
                                       !.runs = run[p].runs + 1], 1, p)
    BY <1>1, <1>2 DEF Start, Become
  <2>2. run'[p].answers = [x \in Pairs |-> <<>>]
    BY <2>1 DEF Batch, Idle
  <2>3. QED BY <2>2 DEF AllSure
<1>3. CASE Finish(p) \/ Interrupt(p) \/ Kill(p) \/ Terminate(p)
  <2>1. PICK pc \in {"done", "escaped", "interrupted", "killed", "terminated"} : run'[p] = [run[p] EXCEPT !.pc = pc]
    BY <1>1, <1>3 DEF Finish, Interrupt, Kill, Terminate, Die, Become, RunType
  <2>2. QED BY <1>1, <2>1 DEF AllSure, Running, RunType
<1>4. QED BY <1>2, <1>3

\* With files at rest while commands run, every result a command accumulates is the one a
\* validation without cache would return, a crash of this very command, the result with the video
\* checks for a command without them, or that of a video that cannot be read.
THEOREM ResultsAreFreshHolds == ASSUME ~EditsDuringRuns PROVE Spec => []ResultsAreFresh
<1> DEFINE FInv == HInv /\ \A p \in Procs : AllSure(p)
<1>1. Init => FInv
  <2>1. Init => \A p \in Procs : AllSure(p)
    BY DEF Init, AllSure, Running, Idle
  <2>2. QED BY <2>1, HonestInit
<1>2. FInv /\ [Next]_vars => FInv'
  <2> SUFFICES ASSUME HInv, \A p \in Procs : AllSure(p), [Next]_vars
               PROVE  HInv' /\ \A p \in Procs : AllSure(p)'
    OBVIOUS
  <2>1. HInv'
    BY HonestNext
  <2>2. ASSUME NEW p \in Procs, UNCHANGED <<file, run>> PROVE AllSure(p)'
    BY <2>2 DEF AllSure, Sure, Fresh, Running
  <2>3. ASSUME NEW p \in Procs, NEW q \in Procs,
               UNCHANGED file, run' = [run EXCEPT ![q] = run'[q]], AllSure(q)'
        PROVE  AllSure(p)'
    <3>1. CASE p = q
      BY <2>3, <3>1
    <3>2. CASE p # q
      <4>1. run'[p] = run[p]
        BY <2>3, <3>2 DEF HInv, IInv
      <4>2. AllSure(p) /\ UNCHANGED file
        BY <2>3
      <4>3. \A x, cv, result : Sure(x, cv, result) => Sure(x, cv, result)'
        BY <4>2 DEF Sure, Fresh
      <4> HIDE DEF Sure
      <4>4. QED BY <4>1, <4>2, <4>3 DEF AllSure, Running
    <3>3. QED BY <3>1, <3>2
  <2>4. ASSUME NEW q \in Procs,
               Start(q) \/ Command(q) \/ PoolBreaks(q) \/ Interrupt(q) \/ Kill(q) \/ Terminate(q)
               \/ \E x \in Pairs : WorkerRaises(q, x)
        PROVE  AllSure(q)' /\ UNCHANGED file /\ run' = [run EXCEPT ![q] = run'[q]]
    <3>1. UNCHANGED file /\ run' = [run EXCEPT ![q] = run'[q]]
      BY <2>4, StepInv, HonestStep DEF HInv
    <3>2. CASE \E x \in Pairs : TRUE
      <4>1. CASE Command(q)
        BY <3>1, <3>2, <4>1, SilentSure, LookUpSure, DeliverSure, EdgeSure DEF Command
      <4>2. CASE \E x \in Pairs : WorkerRaises(q, x)
        BY <3>1, <4>2, SilentSure
      <4>3. CASE PoolBreaks(q)
        BY <3>1, <3>2, <4>3, SilentSure
      <4>4. QED BY <2>4, <3>1, <4>1, <4>2, <4>3, EdgeSure
    <3>3. CASE ~\E x \in Pairs : TRUE
      BY <3>1, <3>3 DEF AllSure
    <3>4. QED BY <3>1, <3>2, <3>3
  <2>5. CASE \E x \in Pairs : Edit(x)
    <3>1. \A p \in Procs : ~Running(run'[p])
      BY <2>5 DEF Edit, Active, Deaths, Running
    <3>2. QED BY <2>1, <3>1 DEF AllSure, Running
  <2>6. CASE (\E x \in Pairs : Corrupt(x)) \/ UNCHANGED vars
    BY <2>1, <2>2, <2>6 DEF Corrupt, CorruptRow, vars
  <2>7. CASE \E q \in Procs : Start(q) \/ Command(q) \/ PoolBreaks(q) \/ Interrupt(q) \/ Kill(q) \/ Terminate(q)
                              \/ \E x \in Pairs : WorkerRaises(q, x)
    BY <2>1, <2>3, <2>4, <2>7
  <2>8. QED BY <2>5, <2>6, <2>7 DEF Next
<1>3. FInv => ResultsAreFresh
  BY DEF AllSure, Sure, Running, Active, Deaths, ResultsAreFresh
<1>4. QED BY <1>1, <1>2, <1>3, PTL DEF Spec

-----------------------------------------------------------------------------
(* That a pair contributes once to the findings of a command, and each     *)
(* pair of a reported batch contributed: whatever mix of hits, evicted     *)
(* rows, crashed workers and broken pools, and whatever completion order.  *)

InSeq(x, s) == \E i \in DOMAIN s : s[i] = x
Distinct(s) == \A i, j \in DOMAIN s : s[i] = s[j] => i = j

\* What holds of a command at any time: no pair has two results, and a batch whose result is
\* reported has one for each of its pairs.
Counted(p, r) ==
  /\ \A x \in Pairs : Len(r.answers[x]) <= 1
  /\ Len(r.reports) <= Len(Plan[p])
  /\ \A k \in DOMAIN r.reports : r.reports[k].kind = "result" =>
       \A x \in PairsOf(p, k) : r.answers[x] # <<>>

\* A pair of the batch that has no result yet.
Open(r, x) == InSeq(x, r.todo) \/ (InSeq(x, r.uncached) /\ r.task[x] # "delivered")

\* The pairs of the batches from k on have no result.
Untouched(p, r, k) == \A l \in DOMAIN Plan[p] : l >= k => \A x \in PairsOf(p, l) : r.answers[x] = <<>>

\* What holds of one that runs: a pair of its batch is to be looked up, or missed, or answered; one
\* that still is to be answered has no result, nor has any pair of a later batch.
Working(p, r) ==
  /\ Distinct(r.todo)
  /\ \A x \in Pairs : InSeq(x, r.todo) => ~InSeq(x, r.uncached)
  /\ \A x \in PairsOf(p, r.batch) :
       InSeq(x, r.todo) \/ InSeq(x, r.uncached) \/ r.answers[x] # <<>>
  /\ \A x \in Pairs : r.task[x] # "none" \/ InSeq(x, r.unsubmitted) => InSeq(x, r.uncached)
  /\ \A x \in Pairs : r.task[x] = "delivered" => r.answers[x] # <<>>
  /\ \A x \in Pairs : Open(r, x) => r.answers[x] = <<>>
  /\ Untouched(p, r, r.batch + 1)
  /\ r.pc # "lookup" => r.todo = <<>>
  /\ r.pc # "closing" => Len(r.reports) = r.batch - 1

Once(p, r) == Counted(p, r) /\ (Running(r) => Working(p, r))

-----------------------------------------------------------------------------
(* Sequences *)

\* The pairs of a sequence without its first one, and with one more.
LEMMA TailPairs ==
  ASSUME NEW S, NEW s \in Seq(S), s # <<>>
  PROVE  /\ \A x : InSeq(x, s) <=> x = Head(s) \/ InSeq(x, Tail(s))
         /\ Distinct(s) => Distinct(Tail(s)) /\ ~InSeq(Head(s), Tail(s))
<1>1. /\ Len(s) \in Nat \ {0} /\ DOMAIN s = 1..Len(s) /\ Head(s) = s[1]
      /\ DOMAIN Tail(s) = 1..(Len(s) - 1) /\ \A i \in 1..(Len(s) - 1) : Tail(s)[i] = s[i + 1]
  OBVIOUS
<1>2. ASSUME NEW x, InSeq(x, s) PROVE x = Head(s) \/ InSeq(x, Tail(s))
  <2>1. PICK i \in 1..Len(s) : s[i] = x
    BY <1>1, <1>2 DEF InSeq
  <2>2. CASE i = 1
    BY <1>1, <2>1, <2>2
  <2>3. CASE i # 1
    <3>1. i - 1 \in 1..(Len(s) - 1) /\ (i - 1) + 1 = i
      BY <1>1, <2>3
    <3>2. QED BY <1>1, <2>1, <3>1 DEF InSeq
  <2>4. QED BY <2>2, <2>3
<1>3. ASSUME NEW x, InSeq(x, Tail(s)) PROVE InSeq(x, s)
  <2>1. PICK i \in 1..(Len(s) - 1) : s[i + 1] = x
    BY <1>1, <1>3 DEF InSeq
  <2>2. i + 1 \in 1..Len(s)
    BY <1>1
  <2>3. QED BY <1>1, <2>1, <2>2 DEF InSeq
<1>4. InSeq(Head(s), s)
  BY <1>1 DEF InSeq
<1>5. ASSUME Distinct(s) PROVE Distinct(Tail(s)) /\ ~InSeq(Head(s), Tail(s))
  <2>1. \A i \in 1..(Len(s) - 1) : i + 1 \in 1..Len(s) /\ i + 1 # 1
    BY <1>1
  <2>2. ASSUME NEW i \in 1..(Len(s) - 1), NEW j \in 1..(Len(s) - 1), s[i + 1] = s[j + 1] PROVE i = j
    <3>1. i + 1 = j + 1
      BY <1>1, <1>5, <2>1, <2>2 DEF Distinct
    <3>2. QED BY <3>1
  <2>3. \A i \in 1..(Len(s) - 1) : s[i + 1] # s[1]
    BY <1>1, <1>5, <2>1 DEF Distinct
  <2>4. QED BY <1>1, <2>2, <2>3 DEF Distinct, InSeq
<1>6. QED BY <1>2, <1>3, <1>4, <1>5

\* What is in a sequence after an append.
LEMMA AppendPairs ==
  ASSUME NEW S, NEW s \in Seq(S), NEW y \in S
  PROVE  \A x : InSeq(x, Append(s, y)) <=> InSeq(x, s) \/ x = y
<1>1. /\ Len(s) \in Nat /\ DOMAIN s = 1..Len(s) /\ DOMAIN Append(s, y) = 1..(Len(s) + 1)
      /\ Append(s, y)[Len(s) + 1] = y /\ \A i \in 1..Len(s) : Append(s, y)[i] = s[i]
  OBVIOUS
<1>2. \A i \in 1..(Len(s) + 1) : i \in 1..Len(s) \/ i = Len(s) + 1
  BY <1>1
<1>3. 1..Len(s) \subseteq 1..(Len(s) + 1) /\ Len(s) + 1 \in 1..(Len(s) + 1)
  BY <1>1
<1>4. QED BY <1>1, <1>2, <1>3 DEF InSeq

\* A result handed on for a pair that had none is its only one.
LEMMA FirstAnswer ==
  ASSUME NEW a \in Answer
  PROVE  Append(<<>>, a) # <<>> /\ Len(Append(<<>>, a)) <= 1
OBVIOUS

-----------------------------------------------------------------------------
(* Batches *)

\* A pair is of a batch when the batch's sequence holds it.
LEMMA PlanPairs ==
  ASSUME NEW p \in Procs, NEW k \in DOMAIN Plan[p]
  PROVE  Distinct(Plan[p][k]) /\ \A x : InSeq(x, Plan[p][k]) <=> x \in PairsOf(p, k)
<1>1. Distinct(Plan[p][k])
  BY PlanAssumption DEF Distinct
<1>2. QED BY <1>1 DEF InSeq, PairsOf

\* The state in which a batch begins, when the earlier ones are reported.
LEMMA BatchOnce ==
  ASSUME NEW p \in Procs, NEW r \in RunType, NEW k \in DOMAIN Plan[p], Counted(p, r),
         Len(r.reports) = k - 1, Untouched(p, r, k)
  PROVE  Once(p, Batch(r, k, p))
<1> DEFINE todo == IF r.use_cache THEN Plan[p][k] ELSE <<>>
           rest == IF r.use_cache THEN <<>> ELSE Plan[p][k]
           b == Batch(r, k, p)
<1>1. /\ b.pc = "lookup" /\ b.batch = k /\ b.todo = todo /\ b.uncached = rest
      /\ b.unsubmitted = <<>> /\ b.task = NoTask /\ b.answers = r.answers /\ b.reports = r.reports
  BY DEF Batch, RunType
<1>2. b \in RunType
  BY BatchFits
<1> HIDE DEF b
<1>3. k \in 1..Len(Plan[p]) /\ Len(Plan[p]) \in Nat /\ k \in Nat
  BY PlanTyping
<1>4. Counted(p, b)
  BY <1>1 DEF Counted
<1>5. \A x : ~InSeq(x, <<>>)
  BY DEF InSeq
<1>6. /\ Distinct(todo)
      /\ \A x : InSeq(x, todo) \/ InSeq(x, rest) <=> x \in PairsOf(p, k)
      /\ \A x : ~(InSeq(x, todo) /\ InSeq(x, rest))
  <2>1. Distinct(<<>>)
    BY DEF Distinct
  <2>2. Distinct(Plan[p][k]) /\ \A x : InSeq(x, Plan[p][k]) <=> x \in PairsOf(p, k)
    BY PlanPairs
  <2>3. CASE r.use_cache
    <3>1. todo = Plan[p][k] /\ rest = <<>>
      BY <2>3
    <3>2. QED BY <1>5, <2>2, <3>1, Zenon
  <2>4. CASE ~r.use_cache
    <3>1. todo = <<>> /\ rest = Plan[p][k]
      BY <2>4
    <3>2. QED BY <1>5, <2>1, <2>2, <3>1, Zenon
  <2>5. QED BY <2>3, <2>4
<1> HIDE DEF todo, rest
<1>7. \A x \in PairsOf(p, k) : b.answers[x] = <<>>
  BY <1>1, <1>3 DEF Untouched
<1>8. Untouched(p, b, b.batch + 1)
  <2>1. \A l \in DOMAIN Plan[p] : l >= k + 1 => l >= k
    BY <1>3, PlanTyping
  <2>2. QED BY <1>1, <2>1 DEF Untouched
<1>9. \A x \in Pairs : b.task[x] = "none"
  BY <1>1 DEF NoTask
<1>10. Working(p, b)
  BY <1>1, <1>3, <1>5, <1>6, <1>7, <1>8, <1>9 DEF Working, Open
<1>11. QED BY <1>4, <1>10 DEF Once, b

\* The next batch, or the end, once a batch is reported.
LEMMA NextBatchOnce ==
  ASSUME NEW p \in Procs, NEW r \in RunType, Fits(p, r), Running(r), r.pc # "lookup",
         Once(p, r), NEW c \in RunType, NEW report \in Reports,
         c.reports = Append(r.reports, report),
         \A f \in DOMAIN r \ {"reports"} : c[f] = r[f],
         r.pc # "closing",
         report.kind = "result" => \A x \in PairsOf(p, r.batch) : r.answers[x] # <<>>
  PROVE  Once(p, NextBatch(p, c))
<1>1. /\ c.pc = r.pc /\ c.batch = r.batch /\ c.todo = r.todo /\ c.uncached = r.uncached
      /\ c.unsubmitted = r.unsubmitted /\ c.task = r.task /\ c.answers = r.answers
  BY DEF RunType
<1>2. /\ Working(p, r) /\ Counted(p, r) /\ r.batch \in 1..Len(Plan[p]) /\ Len(Plan[p]) \in Nat
      /\ r.reports \in Seq(Reports)
  BY PlanTyping DEF Once, Fits, RunType
<1>3. Len(r.reports) = r.batch - 1
  BY <1>2 DEF Working
<1>4. /\ Len(c.reports) = r.batch /\ DOMAIN c.reports = 1..r.batch
      /\ c.reports[r.batch] = report /\ \A k \in DOMAIN r.reports : c.reports[k] = r.reports[k]
      /\ DOMAIN r.reports = 1..(r.batch - 1)
  BY <1>2, <1>3
<1>5. Counted(p, c)
  <2>1. ASSUME NEW k \in DOMAIN c.reports, c.reports[k].kind = "result"
        PROVE  \A x \in PairsOf(p, k) : c.answers[x] # <<>>
    <3>1. CASE k = r.batch
      BY <1>1, <1>4, <2>1, <3>1
    <3>2. CASE k # r.batch
      <4>1. k \in DOMAIN r.reports
        BY <1>2, <1>4, <3>2
      <4>2. QED BY <1>1, <1>2, <1>4, <2>1, <4>1 DEF Counted
    <3>3. QED BY <3>1, <3>2
  <2>2. QED BY <1>1, <1>2, <1>4, <2>1 DEF Counted
<1>6. CASE c.batch < Len(Plan[p])
  <2>1. c.batch + 1 \in DOMAIN Plan[p] /\ (c.batch + 1) - 1 = c.batch
    BY <1>1, <1>2, <1>6, PlanTyping
  <2>2. Untouched(p, c, c.batch + 1)
    BY <1>1, <1>2 DEF Working, Untouched
  <2>3. Once(p, Batch(c, c.batch + 1, p))
    BY <1>1, <1>4, <1>5, <2>1, <2>2, BatchOnce
  <2>4. QED BY <1>6, <2>3 DEF NextBatch
<1>7. CASE ~(c.batch < Len(Plan[p]))
  <2> DEFINE e == [c EXCEPT !.pc = "closing"]
  <2>1. /\ NextBatch(p, c) = e
        /\ e.pc = "closing" /\ e.batch = c.batch /\ e.todo = c.todo /\ e.uncached = c.uncached
        /\ e.unsubmitted = c.unsubmitted /\ e.task = c.task /\ e.answers = c.answers
        /\ e.reports = c.reports
    BY <1>7 DEF NextBatch, RunType
  <2> HIDE DEF e
  <2>2. Counted(p, e)
    BY <1>5, <2>1 DEF Counted
  <2>3. r.todo = <<>>
    BY <1>2 DEF Working
  <2>4. Working(p, e)
    BY <1>1, <1>2, <2>1, <2>3 DEF Working, Open, Untouched
  <2>5. QED BY <2>1, <2>2, <2>4 DEF Once
<1>8. QED BY <1>6, <1>7

-----------------------------------------------------------------------------
(* The steps of a command *)

\* Steps that answer nothing, and move no pair between the lists.
LEMMA SameOnce ==
  ASSUME NEW p \in Procs, NEW r, Once(p, r), Running(r), NEW s,
         s.batch = r.batch, s.todo = r.todo, s.uncached = r.uncached, s.answers = r.answers,
         s.reports = r.reports,
         \A x \in Pairs : InSeq(x, s.unsubmitted) => InSeq(x, r.uncached),
         \A x \in Pairs : \/ s.task[x] = r.task[x]
                          \/ /\ s.task[x] \notin {"none", "delivered"} /\ r.task[x] # "delivered"
                             /\ InSeq(x, r.uncached),
         s.pc # "closing" => r.pc # "closing", s.pc # "lookup" => r.todo = <<>>
  PROVE  Once(p, s)
<1>1. Working(p, r) /\ Counted(p, r)
  BY DEF Once
<1>2. Counted(p, s)
  BY <1>1 DEF Counted
<1>3. Untouched(p, s, s.batch + 1)
  BY <1>1 DEF Working, Untouched
<1>4. \A x \in Pairs : s.task[x] = "delivered" => r.task[x] = "delivered"
  OBVIOUS
<1>5. \A x \in Pairs : Open(s, x) => Open(r, x)
  BY DEF Open
<1>6. Working(p, s)
  BY <1>1, <1>3, <1>4, <1>5 DEF Working
<1>7. QED BY <1>2, <1>6 DEF Once

\* A command that has ended keeps what it counted.
LEMMA OverOnce ==
  ASSUME NEW p \in Procs, NEW r, Once(p, r), NEW s, ~Running(s),
         s.answers = r.answers, s.reports = r.reports
  PROVE  Once(p, s)
BY DEF Once, Counted

\* A command starts with the first batch.
LEMMA StartOnce == ASSUME IInv, NEW p \in Procs, Start(p) PROVE Once(p, run'[p])
<1>1. PICK cv \in BOOLEAN, uc \in BOOLEAN :
        run'[p] = Batch([Idle EXCEPT !.check_video = cv, !.use_cache = uc,
                                     !.runs = run[p].runs + 1], 1, p)
  BY DEF Start, Become, IInv
<1> DEFINE i == [Idle EXCEPT !.check_video = cv, !.use_cache = uc, !.runs = run[p].runs + 1]
<1>2. i \in RunType
  <2>1. Idle \in RunType
    BY DEF Idle, RunType, Phases, NoTask, States, Answer
  <2>2. run[p].runs + 1 \in Nat
    BY DEF RunType, IInv
  <2>3. \A n \in Nat : [Idle EXCEPT !.check_video = cv, !.use_cache = uc, !.runs = n] \in RunType
    BY <2>1 DEF RunType
  <2>4. QED BY <2>2, <2>3
<1>3. i.answers = [x \in Pairs |-> <<>>] /\ i.reports = <<>>
  BY DEF Idle
<1> HIDE DEF i
<1>4. Len(<<>>) = 0 /\ DOMAIN <<>> = {}
  OBVIOUS
<1>5. Counted(p, i)
  BY <1>3, <1>4, PlanTyping DEF Counted
<1>6. Untouched(p, i, 1)
  BY <1>3, PlanTyping DEF Untouched
<1>7. Once(p, Batch(i, 1, p))
  BY <1>2, <1>3, <1>4, <1>5, <1>6, PlanTyping, BatchOnce
<1>8. QED BY <1>1, <1>7 DEF i

\* An answer of the batch a command is at changes nothing it has counted.
LEMMA AnsweredCounted ==
  ASSUME NEW p \in Procs, NEW r, Counted(p, r), r.reports \in Seq(Reports), NEW s,
         NEW x \in Pairs, s.reports = r.reports,
         s.answers[x] # <<>>, Len(s.answers[x]) <= 1,
         \A y \in Pairs \ {x} : s.answers[y] = r.answers[y]
  PROVE  Counted(p, s)
<1>1. ASSUME NEW k \in DOMAIN s.reports, s.reports[k].kind = "result", NEW y \in PairsOf(p, k)
      PROVE  s.answers[y] # <<>>
  <2>1. k \in DOMAIN Plan[p]
    <3>1. k \in 1..Len(s.reports) /\ Len(s.reports) \in Nat
      OBVIOUS
    <3>2. QED BY <3>1, PlanTyping DEF Counted
  <2>2. y \in Pairs
    BY <2>1, PlanTyping
  <2>3. QED BY <1>1, <2>2 DEF Counted
<1>2. \A y \in Pairs : Len(s.answers[y]) <= 1
  BY DEF Counted
<1>3. QED BY <1>1, <1>2 DEF Counted

\* Nor anything of a later batch.
LEMMA LaterUntouched ==
  ASSUME NEW p \in Procs, NEW r, r.batch \in DOMAIN Plan[p], Untouched(p, r, r.batch + 1), NEW s,
         NEW x \in PairsOf(p, r.batch), \A y \in Pairs \ {x} : s.answers[y] = r.answers[y]
  PROVE  Untouched(p, s, r.batch + 1)
<1>1. ASSUME NEW l \in DOMAIN Plan[p], l >= r.batch + 1, NEW y \in PairsOf(p, l)
      PROVE  s.answers[y] = <<>>
  <2>1. l # r.batch
    BY <1>1, PlanTyping
  <2>2. y # x
    BY <2>1, OneBatch
  <2>3. y \in Pairs /\ r.answers[y] = <<>>
    BY <1>1, PlanTyping DEF Untouched
  <2>4. QED BY <2>2, <2>3
<1>2. QED BY <1>1 DEF Untouched

\* The result of a row that is served.
LEMMA HitAnswer ==
  ASSUME CacheOK, NEW p \in Procs, NEW x \in Pairs, NEW b \in BOOLEAN, LookupHit(p, x, b)
  PROVE  View(p)[x].result \in Answer
<1> DEFINE row == View(p)[x]
<1>1. db[p] \in DbType /\ disk \in Rows
  BY DEF CacheOK
<1>2. row \in {db[p].pending[x], db[p].snap[x], disk[x]}
  BY DEF View
<1>3. row # NoRow /\ row.result # Garbage
  BY DEF LookupHit, Found, Matches
<1> HIDE DEF row
<1>4. row \in Row
  BY <1>1, <1>2, <1>3 DEF DbType, Rows
<1>5. QED BY <1>3, <1>4 DEF Row, Answer, row

\* A pair that is looked up is answered, or put among those to be validated.
LEMMA LookUpOnce ==
  ASSUME IInv, NEW p \in Procs, Once(p, run[p]), LookUp(p) PROVE Once(p, run'[p])
<1> DEFINE r == run[p]
           x == Head(r.todo)
           rest == [r EXCEPT !.todo = Tail(@)]
           s == run'[p]
<1>1. /\ r \in RunType /\ Fits(p, r) /\ Running(r) /\ r.pc = "lookup" /\ r.todo # <<>>
      /\ r.todo \in Seq(Pairs) /\ r.todo \in Seq(PairsOf(p, r.batch)) /\ r.uncached \in Seq(Pairs)
      /\ r.answers \in [Pairs -> Seq(Answer)]
      /\ Working(p, r) /\ Counted(p, r) /\ p \in DOMAIN run /\ r.batch \in DOMAIN Plan[p]
      /\ r.reports \in Seq(Reports) /\ r.check_video \in BOOLEAN
  BY DEF IInv, LookUp, Running, Fits, RunType, Once
<1>2. x \in Pairs /\ x \in PairsOf(p, r.batch)
  <2> HIDE DEF r
  <2>1. QED BY <1>1, HeadTail
<1>3. /\ \A y : InSeq(y, r.todo) <=> y = x \/ InSeq(y, Tail(r.todo))
      /\ Distinct(Tail(r.todo)) /\ ~InSeq(x, Tail(r.todo))
  <2>1. Distinct(r.todo)
    BY <1>1 DEF Working
  <2> HIDE DEF r
  <2>2. QED BY <1>1, <2>1, TailPairs
<1>4. InSeq(x, r.todo) /\ r.answers[x] = <<>>
  BY <1>1, <1>2, <1>3 DEF Working, Open
<1>5. CASE \E a : a \in Answer /\ s = [rest EXCEPT !.answers[x] = Append(@, a)]
  <2>1. PICK a \in Answer : s = [rest EXCEPT !.answers[x] = Append(@, a)]
    BY <1>5
  <2> HIDE DEF x
  <2>2. /\ s.pc = r.pc /\ s.batch = r.batch /\ s.todo = Tail(r.todo) /\ s.uncached = r.uncached
        /\ s.unsubmitted = r.unsubmitted /\ s.task = r.task /\ s.reports = r.reports
        /\ s.answers = [r.answers EXCEPT ![x] = Append(@, a)]
    BY <1>1, <2>1 DEF RunType
  <2>3. /\ s.answers[x] # <<>> /\ Len(s.answers[x]) <= 1
        /\ \A y \in Pairs \ {x} : s.answers[y] = r.answers[y]
    BY <1>1, <1>2, <1>4, <2>2, FirstAnswer
  <2> HIDE DEF r, s
  <2>4. Counted(p, s)
    BY <1>1, <1>2, <2>2, <2>3, AnsweredCounted
  <2>5. Untouched(p, s, s.batch + 1)
    BY <1>1, <1>2, <2>2, <2>3, LaterUntouched DEF Working
  <2>6. \A y \in Pairs : Open(s, y) => Open(r, y) /\ y # x
    BY <1>1, <1>2, <1>3, <1>4, <2>2 DEF Open, Working
  <2>7. \A y \in Pairs : y # x => s.answers[y] = r.answers[y]
    BY <2>3
  <2>8. \A y \in PairsOf(p, r.batch) : InSeq(y, s.todo) \/ InSeq(y, s.uncached) \/ s.answers[y] # <<>>
    <3>1. ASSUME NEW y \in PairsOf(p, r.batch), y # x
          PROVE  InSeq(y, s.todo) \/ InSeq(y, s.uncached) \/ s.answers[y] # <<>>
      <4>1. y \in Pairs
        BY <1>1, PlanTyping
      <4>2. InSeq(y, r.todo) \/ InSeq(y, r.uncached) \/ r.answers[y] # <<>>
        BY <1>1 DEF Working
      <4>3. InSeq(y, r.todo) => InSeq(y, s.todo)
        BY <1>3, <2>2, <3>1
      <4>4. QED BY <2>2, <2>7, <3>1, <4>1, <4>2, <4>3
    <3>2. QED BY <2>3, <3>1
  <2>9. Working(p, s)
    BY <1>1, <1>3, <2>2, <2>3, <2>5, <2>6, <2>7, <2>8 DEF Working
  <2>10. QED BY <2>4, <2>9 DEF Once, s
<1>6. CASE s = [rest EXCEPT !.uncached = Append(@, x)]
  <2> HIDE DEF x
  <2>1. /\ s.pc = r.pc /\ s.batch = r.batch /\ s.todo = Tail(r.todo)
        /\ s.uncached = Append(r.uncached, x)
        /\ s.unsubmitted = r.unsubmitted /\ s.task = r.task /\ s.reports = r.reports
        /\ s.answers = r.answers
    BY <1>1, <1>6 DEF RunType
  <2> HIDE DEF r, s
  <2>2. \A y : InSeq(y, s.uncached) <=> InSeq(y, r.uncached) \/ y = x
    BY <1>1, <1>2, <2>1, AppendPairs
  <2>3. Counted(p, s) /\ Untouched(p, s, s.batch + 1)
    BY <1>1, <2>1 DEF Counted, Working, Untouched
  <2>4. \A y \in Pairs : Open(s, y) => Open(r, y)
    BY <1>3, <2>1, <2>2 DEF Open
  <2>5. Working(p, s)
    BY <1>1, <1>2, <1>3, <2>1, <2>2, <2>3, <2>4 DEF Working
  <2>6. QED BY <2>3, <2>5 DEF Once, s
<1>7. \/ s = [rest EXCEPT !.uncached = Append(@, x)]
      \/ /\ s = [rest EXCEPT !.answers[x] = Append(@, View(p)[x].result)]
         /\ LookupHit(p, x, r.check_video)
  BY <1>1 DEF LookUp, Become
<1>8. ASSUME LookupHit(p, x, r.check_video) PROVE View(p)[x].result \in Answer
  BY <1>1, <1>2, <1>8, HitAnswer DEF IInv
<1>9. QED BY <1>5, <1>6, <1>7, <1>8

\* A result is handed on for a pair that has none, and none is left open.
LEMMA DeliverOnce ==
  ASSUME IInv, NEW p \in Procs, NEW x \in Pairs, Once(p, run[p]), Deliver(p, x)
  PROVE  Once(p, run'[p])
<1> DEFINE r == run[p]
           s == run'[p]
           a == r.got[x]
<1>1. /\ r \in RunType /\ Fits(p, r) /\ Running(r) /\ r.pc \in {"serial", "collect"}
      /\ r.task[x] = "finished" /\ r.answers \in [Pairs -> Seq(Answer)] /\ a \in Answer
      /\ Working(p, r) /\ Counted(p, r) /\ p \in DOMAIN run /\ r.batch \in DOMAIN Plan[p]
      /\ r.reports \in Seq(Reports) /\ r.check_video \in BOOLEAN
      /\ x \in PairsOf(p, r.batch) /\ r.task \in [Pairs -> States]
  BY DEF IInv, Deliver, Running, Fits, RunType, Once
<1>2. s = [r EXCEPT !.task[x] = "delivered", !.answers[x] = Append(@, a)]
  BY <1>1 DEF Deliver, Become
<1> HIDE DEF a
<1>3. /\ s.pc = r.pc /\ s.batch = r.batch /\ s.todo = r.todo /\ s.uncached = r.uncached
      /\ s.unsubmitted = r.unsubmitted /\ s.reports = r.reports
      /\ s.task = [r.task EXCEPT ![x] = "delivered"]
      /\ s.answers = [r.answers EXCEPT ![x] = Append(@, a)]
  BY <1>1, <1>2 DEF RunType
<1>4. InSeq(x, r.uncached) /\ ~InSeq(x, r.todo) /\ r.answers[x] = <<>>
  BY <1>1 DEF Working, Open
<1>5. /\ s.answers[x] # <<>> /\ Len(s.answers[x]) <= 1
      /\ \A y \in Pairs \ {x} : s.answers[y] = r.answers[y]
  BY <1>1, <1>3, <1>4, FirstAnswer
<1>6. s.task[x] = "delivered" /\ \A y \in Pairs \ {x} : s.task[y] = r.task[y]
  <2>1. r.task \in [Pairs -> States]
    BY <1>1
  <2> HIDE DEF r, s
  <2>2. QED BY <1>3, <2>1
<1> HIDE DEF r, s
<1>7. Counted(p, s)
  <2>1. /\ s.reports = r.reports /\ s.answers[x] # <<>> /\ Len(s.answers[x]) <= 1
        /\ \A y \in Pairs \ {x} : s.answers[y] = r.answers[y]
    BY <1>3, <1>5
  <2>2. Counted(p, r) /\ r.reports \in Seq(Reports)
    BY <1>1
  <2>3. QED BY <2>1, <2>2, AnsweredCounted
<1>8. Untouched(p, s, s.batch + 1)
  <2>1. Untouched(p, r, r.batch + 1)
    BY <1>1 DEF Working
  <2>2. /\ r \in RunType /\ r.batch \in DOMAIN Plan[p] /\ x \in PairsOf(p, r.batch) /\ s.batch = r.batch
        /\ \A y \in Pairs \ {x} : s.answers[y] = r.answers[y]
    BY <1>1, <1>3, <1>5
  <2>3. QED BY <2>1, <2>2, LaterUntouched
<1>9. \A y \in Pairs : Open(s, y) => Open(r, y) /\ y # x
  BY <1>3, <1>4, <1>6 DEF Open
<1>10. \A y \in PairsOf(p, r.batch) : InSeq(y, s.todo) \/ InSeq(y, s.uncached) \/ s.answers[y] # <<>>
  BY <1>1, <1>3, <1>5, PlanTyping DEF Working
<1>11. Working(p, s)
  BY <1>1, <1>3, <1>4, <1>5, <1>6, <1>8, <1>9, <1>10 DEF Working
<1>12. QED BY <1>7, <1>11 DEF Once, s

\* The pool, and the workers.
LEMMA QuietOnce ==
  ASSUME IInv, NEW p \in Procs, Once(p, run[p]),
         \/ Dispatch(p) \/ Submit(p) \/ SubmitEnds(p) \/ PoolBreaks(p)
         \/ \E x \in Pairs : ReadAnnotation(p, x) \/ ReadVideo(p, x) \/ WorkerRaises(p, x)
  PROVE  Once(p, run'[p])
<1> DEFINE r == run[p]
           s == run'[p]
<1>1. /\ r \in RunType /\ Running(r) /\ Working(p, r) /\ p \in DOMAIN run
      /\ r.unsubmitted \in Seq(Pairs) /\ r.task \in [Pairs -> States]
  BY DEF IInv, Dispatch, Submit, SubmitEnds, ReadAnnotation, ReadVideo, WorkerRaises, PoolBreaks,
         Active, Deaths, Running, RunType, Once
<1> DEFINE Kept == /\ s.batch = r.batch /\ s.todo = r.todo /\ s.uncached = r.uncached
                   /\ s.answers = r.answers /\ s.reports = r.reports
<1>2. CASE Dispatch(p) \/ SubmitEnds(p)
  <2>1. s \in {[r EXCEPT !.pc = "serial"], [r EXCEPT !.pc = "submit", !.unsubmitted = r.uncached],
               [r EXCEPT !.pc = "collect"]}
    BY <1>1, <1>2 DEF Dispatch, SubmitEnds, Become
  <2>2. Kept /\ s.task = r.task /\ s.unsubmitted \in {r.unsubmitted, r.uncached}
    BY <1>1, <2>1 DEF RunType
  <2>3. r.todo = <<>> /\ r.pc # "closing"
    BY <1>1, <1>2 DEF Dispatch, SubmitEnds, Working
  <2>4. QED BY <1>1, <2>2, <2>3, SameOnce DEF Working
<1>3. CASE Submit(p)
  <2>1. r.todo = <<>> /\ r.pc # "closing"
    BY <1>1, <1>3 DEF Submit, Working
  <2>2. CASE r.unsubmitted = <<>>
    <3>1. s = [r EXCEPT !.pc = "collect"]
      BY <1>1, <1>3, <2>2 DEF Submit, Become
    <3>2. Kept /\ s.task = r.task /\ s.unsubmitted = r.unsubmitted
      BY <1>1, <3>1 DEF RunType
    <3>3. QED BY <1>1, <2>1, <3>2, SameOnce DEF Working
  <2>3. CASE r.unsubmitted # <<>>
    <3> DEFINE h == Head(r.unsubmitted)
               t == Tail(r.unsubmitted)
    <3>1. s = [r EXCEPT !.unsubmitted = t, !.task[h] = "queued"]
      BY <1>1, <1>3, <2>3 DEF Submit, Become
    <3>2. h \in Pairs /\ InSeq(h, r.unsubmitted) /\ \A y : InSeq(y, t) => InSeq(y, r.unsubmitted)
      <4> HIDE DEF r
      <4>1. QED BY <1>1, <2>3, HeadTail, TailPairs
    <3> HIDE DEF h, t
    <3>3. Kept /\ s.task = [r.task EXCEPT ![h] = "queued"] /\ s.unsubmitted = t
      BY <1>1, <3>1 DEF RunType
    <3>4. r.task[h] # "delivered"
      BY <1>3, <3>2 DEF IInv, Fits, Submit, Running
    <3>5. InSeq(h, r.uncached)
      BY <1>1, <3>2 DEF Working
    <3>6. \A y \in Pairs : s.task[y] = r.task[y] \/ (y = h /\ s.task[y] = "queued")
      BY <1>1, <3>2, <3>3
    <3>7. QED BY <1>1, <2>1, <3>2, <3>3, <3>4, <3>5, <3>6, SameOnce DEF Working
  <2>4. QED BY <2>2, <2>3
<1>4. ASSUME NEW x \in Pairs, ReadAnnotation(p, x) \/ ReadVideo(p, x) \/ WorkerRaises(p, x)
      PROVE  Once(p, s)
  <2>1. r.task[x] # "delivered" /\ (r.task[x] \in {"running", "finished"} \/ Ready(p, x)) /\ Active(p)
    <3>1. Active(p) /\ (r.task[x] \in {"running", "finished"} \/ Ready(p, x))
      BY <1>4 DEF ReadAnnotation, ReadVideo, WorkerRaises
    <3>2. QED BY <3>1, ReadyPair
  <2>2. InSeq(x, r.uncached)
    <3>1. r.task[x] # "none" \/ InSeq(x, r.uncached)
      BY <2>1 DEF Ready, InSeq
    <3>2. QED BY <1>1, <3>1 DEF Working
  <2>3. PICK g, t : /\ s = [r EXCEPT !.got[x] = g, !.task[x] = t]
                    /\ t \in {"running", "finished"}
    <3>1. CASE ReadAnnotation(p, x)
      <4> DEFINE g == [ann |-> file[x].ann, vid |-> Unread]
                 t == IF r.check_video THEN "running" ELSE "finished"
      <4>1. s = [r EXCEPT !.got[x] = g, !.task[x] = t] /\ t \in {"running", "finished"}
        BY <1>1, <3>1 DEF ReadAnnotation, Become
      <4>2. QED BY <4>1
    <3>2. CASE ReadVideo(p, x)
      <4>1. s = [r EXCEPT !.got[x] = [r.got[x] EXCEPT !.vid = file[x].vid], !.task[x] = "finished"]
        BY <1>1, <3>2 DEF ReadVideo, Become
      <4>2. QED BY <4>1
    <3>3. CASE WorkerRaises(p, x)
      BY <1>1, <3>3 DEF WorkerRaises, Become
    <3>4. QED BY <1>4, <3>1, <3>2, <3>3
  <2>5. Kept /\ s.pc = r.pc /\ s.task = [r.task EXCEPT ![x] = t] /\ s.unsubmitted = r.unsubmitted
    BY <1>1, <2>3 DEF RunType
  <2>6. \A y \in Pairs : s.task[y] = r.task[y] \/ (y = x /\ s.task[y] = t)
    BY <1>1, <2>5
  <2>7. \A y \in Pairs : \/ s.task[y] = r.task[y]
                         \/ /\ s.task[y] \notin {"none", "delivered"} /\ r.task[y] # "delivered"
                            /\ InSeq(y, r.uncached)
    BY <2>1, <2>2, <2>3, <2>6
  <2>8. r.pc # "lookup" => r.todo = <<>>
    BY <1>1 DEF Working
  <2>9. \A y \in Pairs : InSeq(y, s.unsubmitted) => InSeq(y, r.uncached)
    BY <1>1, <2>5 DEF Working
  <2>10. QED BY <1>1, <2>5, <2>7, <2>8, <2>9, SameOnce
<1>5. CASE PoolBreaks(p)
  <2> DEFINE hurt == Tasks(p, "queued") \cup Tasks(p, "running")
             task == [y \in Pairs |-> IF y \in hurt THEN "finished" ELSE r.task[y]]
             got == [y \in Pairs |-> IF y \in hurt THEN Crash ELSE r.got[y]]
  <2>1. s = [r EXCEPT !.broken = TRUE, !.task = task, !.got = got]
    BY <1>1, <1>5 DEF PoolBreaks, Become
  <2>2. \A y \in Pairs : \/ task[y] = r.task[y]
                         \/ task[y] = "finished" /\ r.task[y] \in {"queued", "running"}
    BY DEF Tasks
  <2> HIDE DEF task, got
  <2>3. Kept /\ s.task = task /\ s.unsubmitted = r.unsubmitted
    BY <1>1, <2>1 DEF RunType
  <2>4. r.todo = <<>> /\ r.pc # "closing"
    BY <1>1, <1>5 DEF PoolBreaks, Working
  <2>5. QED BY <1>1, <2>2, <2>3, <2>4, SameOnce DEF Working
<1>6. QED BY <1>2, <1>3, <1>4, <1>5

\* A batch is reported when each of its pairs is answered; one whose pool broke before the last
\* submit is reported as a crash.
LEMMA ReportOnce ==
  ASSUME IInv, NEW p \in Procs, Once(p, run[p]), SubmitRaises(p) \/ FinishBatch(p)
  PROVE  Once(p, run'[p])
<1> DEFINE r == run[p]
           e == [r EXCEPT !.pc = "escaping"]
           c(report) == [r EXCEPT !.reports = Append(@, report)]
           crash == [kind |-> "validate_crash", hits |-> 0, misses |-> 0]
           result == [kind |-> "result", hits |-> db[p].hits, misses |-> db[p].misses]
<1>1. /\ r \in RunType /\ Running(r) /\ Fits(p, r) /\ Working(p, r) /\ p \in DOMAIN run
      /\ r.pc \in {"submit", "serial", "collect"} /\ r.reports \in Seq(Reports)
  BY DEF IInv, SubmitRaises, FinishBatch, Running, RunType, Once
<1>2. crash \in Reports /\ result \in Reports /\ crash.kind # "result"
  BY DEF Reports, IInv, CacheOK, DbType
<1> HIDE DEF crash, result
<1>3. \/ run'[p] = e
      \/ run'[p] = NextBatch(p, c(crash))
      \/ FinishBatch(p) /\ run'[p] = NextBatch(p, c(result))
  BY <1>1 DEF SubmitRaises, FinishBatch, Become, crash, result
<1>4. FinishBatch(p) => \A x \in PairsOf(p, r.batch) : r.answers[x] # <<>>
  <2>1. SUFFICES ASSUME FinishBatch(p), NEW x \in PairsOf(p, r.batch) PROVE r.answers[x] # <<>>
    OBVIOUS
  <2>2. r.todo = <<>> /\ x \in Pairs
    BY <1>1, PlanTyping DEF Working, Fits
  <2>3. ~InSeq(x, r.todo)
    BY <2>2 DEF InSeq
  <2>4. InSeq(x, r.uncached) => r.task[x] = "delivered"
    BY <2>1 DEF FinishBatch, InSeq
  <2>5. QED BY <1>1, <2>2, <2>3, <2>4 DEF Working
<1>5. ASSUME NEW report \in Reports, report.kind = "result" => FinishBatch(p)
      PROVE  Once(p, NextBatch(p, c(report)))
  <2>1. Append(r.reports, report) \in Seq(Reports)
    BY <1>1
  <2>2. c(report) \in RunType /\ c(report).reports = Append(r.reports, report)
        /\ \A f \in DOMAIN r \ {"reports"} : c(report)[f] = r[f]
    BY <1>1, <2>1 DEF RunType
  <2> DEFINE d == c(report)
  <2> HIDE DEF r, c
  <2>3. Once(p, r)
    BY DEF r
  <2>4. QED BY <1>1, <1>4, <1>5, <2>2, <2>3, NextBatchOnce
<1>6. ASSUME run'[p] = e PROVE Once(p, run'[p])
  <2>1. /\ e.pc = "escaping" /\ e.batch = r.batch /\ e.todo = r.todo /\ e.uncached = r.uncached
        /\ e.unsubmitted = r.unsubmitted /\ e.task = r.task /\ e.answers = r.answers
        /\ e.reports = r.reports
    BY <1>1 DEF RunType
  <2>2. r.todo = <<>>
    BY <1>1 DEF Working
  <2> HIDE DEF e
  <2>3. QED BY <1>1, <1>6, <2>1, <2>2, SameOnce DEF Working
<1>7. QED BY <1>2, <1>3, <1>5, <1>6

\* A command that ends keeps what it counted.
LEMMA EndOnce ==
  ASSUME IInv, NEW p \in Procs, Once(p, run[p]), Finish(p) \/ Interrupt(p) \/ Kill(p) \/ Terminate(p)
  PROVE  Once(p, run'[p])
<1>1. run[p] \in RunType /\ p \in DOMAIN run
  BY DEF IInv
<1>2. PICK pc \in {"done", "escaped", "interrupted", "killed", "terminated"} : run'[p] = [run[p] EXCEPT !.pc = pc]
  BY <1>1 DEF Finish, Interrupt, Kill, Terminate, Die, Become, RunType
<1>3. ~Running(run'[p]) /\ run'[p].answers = run[p].answers /\ run'[p].reports = run[p].reports
  BY <1>1, <1>2 DEF Running, RunType
<1>4. QED BY <1>3, OverOnce

-----------------------------------------------------------------------------
(* The theorem *)

OInv == IInv /\ \A p \in Procs : Once(p, run[p])

\* Every step of a command keeps its count, and leaves that of the others.
LEMMA OnceStep ==
  ASSUME OInv, NEW p \in Procs,
         Start(p) \/ Command(p) \/ PoolBreaks(p) \/ Interrupt(p) \/ Kill(p) \/ Terminate(p)
         \/ \E x \in Pairs : WorkerRaises(p, x)
  PROVE  Once(p, run'[p]) /\ \A q \in Procs \ {p} : run'[q] = run[q]
<1>1. IInv /\ Once(p, run[p]) /\ run \in [Procs -> RunType]
  BY DEF OInv, IInv
<1>2. \E r : Become(p, r)
  BY DEF Start, Command, LookUp, Dispatch, Submit, SubmitRaises, SubmitEnds, ReadAnnotation,
         ReadVideo, Deliver, FinishBatch, Finish, PoolBreaks, Interrupt, Kill, Terminate, Die, WorkerRaises
<1>3. \A q \in Procs \ {p} : run'[q] = run[q]
  BY <1>1, <1>2 DEF Become
<1>4. CASE Command(p)
  BY <1>1, <1>3, <1>4, LookUpOnce, QuietOnce, DeliverOnce, ReportOnce, EndOnce DEF Command
<1>5. QED BY <1>1, <1>3, <1>4, StartOnce, QuietOnce, EndOnce

\* A pair never contributes twice to a command's findings, and each pair of a reported batch
\* contributed, whatever it went through.
THEOREM EachPairOnceHolds == Spec => []EachPairOnce
<1>1. Init => OInv
  <2>1. ASSUME Init, NEW p \in Procs PROVE Once(p, run[p])
    <3>1. run[p] = Idle /\ Idle.answers = [x \in Pairs |-> <<>>] /\ Idle.reports = <<>> /\ Idle.pc = "idle"
      BY <2>1 DEF Init, Idle
    <3>2. Len(<<>>) = 0 /\ DOMAIN <<>> = {}
      OBVIOUS
    <3>3. QED BY <3>1, <3>2, PlanTyping DEF Once, Counted, Running
  <2>2. QED BY <2>1, InitInv DEF OInv
<1>2. OInv /\ [Next]_vars => OInv'
  <2> SUFFICES ASSUME OInv, [Next]_vars PROVE OInv'
    OBVIOUS
  <2>1. IInv'
    BY StepInv DEF OInv
  <2>2. \A p \in Procs : Once(p, run'[p])
    <3>1. CASE UNCHANGED run
      BY <3>1 DEF OInv
    <3>2. CASE \E p \in Procs : \/ Start(p) \/ Command(p) \/ PoolBreaks(p) \/ Interrupt(p) \/ Kill(p) \/ Terminate(p)
                                \/ \E x \in Pairs : WorkerRaises(p, x)
      BY <3>2, OnceStep DEF OInv
    <3>3. QED BY <3>1, <3>2 DEF Next, Edit, Corrupt, vars
  <2>3. \A p \in Procs : Once(p, run[p])'
    BY <2>2 DEF Once, Counted, Working, Running, Open, Untouched, InSeq, Distinct
  <2>4. QED BY <2>1, <2>3 DEF OInv
<1>3. OInv => EachPairOnce
  <2>1. ASSUME OInv, NEW p \in Procs, NEW k \in DOMAIN run[p].reports,
               run[p].reports[k].kind = "result", NEW i \in DOMAIN Plan[p][k]
        PROVE  run[p].answers[Plan[p][k][i]] # <<>>
    BY <2>1 DEF OInv, Once, Counted, PairsOf
  <2>2. QED BY <2>1 DEF OInv, Once, Counted, EachPairOnce
<1>4. QED BY <1>1, <1>2, <1>3, PTL DEF Spec
=============================================================================
