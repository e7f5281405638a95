------------------------------ MODULE Archive ------------------------------
(***************************************************************************)
(* The SQLite archive (archive.py): the fetch log, the retained raw pages, *)
(* the interval rows with their revision audit trail, and the change feed  *)
(* the statistics exporter reads.  The clients of the file are modelled by *)
(* the order of their transactions (service.py):                           *)
(*                                                                         *)
(*   - writers, each fetching a page and archiving it in two transactions: *)
(*     record_fetch, then store_intervals.  They are refreshes of Home     *)
(*     Assistant, of which a pressed one may overlap the slot's, and CLI   *)
(*     processes;                                                          *)
(*   - the exports of Home Assistant, each stamping the watermark last;    *)
(*   - one `reparse` process, which stores every retained page again, in   *)
(*     three transactions for each page.                                   *)
(*                                                                         *)
(* One meter, one fetch kind and one resolution: every query names all     *)
(* three.  Times are whole seconds.  A transaction takes its timestamp     *)
(* before BEGIN IMMEDIATE, so a stamp may be as old as the wait for the    *)
(* write lock (at most MaxLockWait).                                       *)
(***************************************************************************)
EXTENDS Integers, Sequences, FiniteSets

CONSTANTS
  Keys,         \* interval starts (start_utc), one row each
  Fields,       \* the value columns of a row
  Received,     \* the column of the export register
  Values,       \* readings
  NULL,         \* an absent cell
  Captures,     \* the pages the portal may serve
  Writers,      \* refreshes and processes that fetch and store
  KeepOk,       \* keep_ok_raw_pages
  MaxClock,     \* bound: last second of the model
  MaxFetches,   \* bound: rows of the fetch log
  MaxReparses,  \* bound: runs of `reparse`
  MaxLockWait   \* longest wait for the write lock (busy_timeout)

Cells == [Fields -> Values \cup {NULL}]

\* A page: the readings it carries and whether it has a received column.
Capture == [received : BOOLEAN, keys : SUBSET Keys, cell : [Keys -> Cells]]

ASSUME KeysAssumption == Keys \subseteq Nat
ASSUME NullAssumption == NULL \notin Values
ASSUME FieldsAssumption == Received \in Fields
ASSUME BoundsAssumption ==
  /\ KeepOk \in Nat
  /\ MaxClock \in Nat
  /\ MaxFetches \in Nat
  /\ MaxReparses \in Nat
  /\ MaxLockWait \in Nat

\* The parser only fills received cells from a received column.
ASSUME CapturesAssumption ==
  /\ Captures \subseteq Capture
  /\ \A c \in Captures, k \in Keys :
       c.cell[k][Received] # NULL => c.received

VARIABLES
  clock,       \* seconds
  fetches,     \* table fetches, by id
  pages,       \* table raw_pages, by id; kept is "content IS NOT NULL"
  rows,        \* table interval_readings; fetch = 0 when there is no row
  revisions,   \* table revisions, one sequence per (start_utc, field)
  hasReceived, \* meters.has_received
  worker,      \* what each writer is doing
  reparse,     \* what the running `reparse` is doing
  reparses,    \* `reparse` runs so far
  mark,        \* exporter_state.exported_at_utc, NULL before any export
  owed         \* history: starts written by work begun after the watermark

archiveVars == <<fetches, pages, rows, revisions, hasReceived>>
reparseVars == <<reparse, reparses>>
feedVars    == <<mark, owed>>
vars        == <<clock, archiveVars, worker, reparseVars, feedVars>>

-----------------------------------------------------------------------------
(* Types *)

Row      == [val : Cells, fetch : Nat]
Revision == [old : Values \cup {NULL}, new : Values, fetch : Nat, at : Nat]
Fetch    == [ok : BOOLEAN, at : Nat, page : Nat]
Page     == [ok : BOOLEAN, at : Nat, kept : BOOLEAN, cap : Captures]

Steps == {"idle", "net", "fetched"}
Work  == [pc : Steps, began : Nat, since : Nat, fetch : Nat, cap : Captures \cup {NULL}]

Idle == [pc |-> "idle", began |-> 0, since |-> 0, fetch |-> 0, cap |-> NULL]

\* The pages still to visit, and the one being stored again.
Reparse == [pc : {"next", "read", "found"}, todo : SUBSET Nat,
            page : Nat, fetch : Nat, since : Nat]

Done == [pc |-> "next", todo |-> {}, page |-> 0, fetch |-> 0, since |-> 0]

TypeOK ==
  /\ clock \in Nat
  /\ fetches \in Seq(Fetch)
  /\ pages \in Seq(Page)
  /\ rows \in [Keys -> Row]
  /\ revisions \in [Keys -> [Fields -> Seq(Revision)]]
  /\ hasReceived \in BOOLEAN
  /\ worker \in [Writers -> Work]
  /\ reparse \in Reparse
  /\ reparses \in Nat
  /\ mark \in Nat \cup {NULL}
  /\ owed \subseteq Keys

-----------------------------------------------------------------------------
(* The upsert *)

Stored(k) == rows[k].fetch # 0

\* Mutant: an empty cell is a change like any other.
DiffersOrEmpty(c, k, f) ==
  /\ k \in c.keys
  /\ c.cell[k][f] # rows[k].val[f]

\* A reading whose cell differs; an empty cell never counts as a change.
Differs(c, k, f) ==
  /\ k \in c.keys
  /\ c.cell[k][f] # NULL
  /\ c.cell[k][f] # rows[k].val[f]

Inserted(c) == {k \in c.keys : ~Stored(k)}
Updated(c)  == {k \in c.keys : Stored(k) /\ \E f \in Fields : Differs(c, k, f)}

\* Mutant: INSERT OR REPLACE, the whole row as the page has it.
PageRow(c, k, id) == [val |-> c.cell[k], fetch |-> id]

NewRow(c, k, id) ==
  [val |-> [f \in Fields |-> IF Differs(c, k, f) THEN c.cell[k][f]
                                                 ELSE rows[k].val[f]],
   fetch |-> id]

\* Mutant: old and new swapped.
SwappedRevision(c, k, f, id, at) ==
  [old |-> c.cell[k][f], new |-> rows[k].val[f], fetch |-> id, at |-> at]

NewRevision(c, k, f, id, at) ==
  [old |-> rows[k].val[f], new |-> c.cell[k][f], fetch |-> id, at |-> at]

\* Mutant: the meter shows what its newest page shows.
LatestReceived(c) == IF c.keys = {} THEN hasReceived ELSE c.received

\* _meter_id: has_received only ever turns on, and only a page with readings
\* touches the meter.
MeterReceived(c) == hasReceived \/ (c.keys # {} /\ c.received)

\* One transaction: rows inserted, changed cells updated and audited.
StoreIntervals(c, id, at) ==
  /\ rows' = [k \in Keys |-> IF k \in Inserted(c) \cup Updated(c)
                             THEN NewRow(c, k, id) ELSE rows[k]]
  /\ revisions' =
       [k \in Keys |-> [f \in Fields |->
          IF k \in Updated(c) /\ Differs(c, k, f)
          THEN Append(revisions[k][f], NewRevision(c, k, f, id, at))
          ELSE revisions[k][f]]]
  /\ hasReceived' = MeterReceived(c)

\* What work begun at t writes is owed to the exporter when the watermark is
\* older; work begun before it may stamp its writes before it too.
Owe(written, t) ==
  owed' = IF mark # NULL /\ t > mark THEN owed \cup written ELSE owed \ written

-----------------------------------------------------------------------------
(* The fetch log and the raw pages *)

WithContent(ps, ok) == {p \in 1 .. Len(ps) : ps[p].kept /\ ps[p].ok = ok}

\* Which ok pages survive: the newest KeepOk, ties broken arbitrarily.
Survivors(ps) ==
  LET live == WithContent(ps, TRUE) IN
  {s \in SUBSET live :
     /\ \/ Cardinality(s) = KeepOk
        \/ s = live /\ Cardinality(live) < KeepOk
     /\ \A p \in s, q \in live \ s : ps[p].at >= ps[q].at}

\* Mutant: failure pages are pruned with the others.
PrunedAll(ps, s) == [p \in 1 .. Len(ps) |-> [ps[p] EXCEPT !.kept = p \in s]]

\* NULL the content of every other ok page; failure pages are left alone.
Pruned(ps, s) ==
  [p \in 1 .. Len(ps) |->
     [ps[p] EXCEPT !.kept = @ /\ (ps[p].ok => p \in s)]]

\* record_fetch for a page that parsed.
RecordOk(c, at) ==
  IF KeepOk = 0
  THEN /\ fetches' = Append(fetches, [ok |-> TRUE, at |-> at, page |-> 0])
       /\ UNCHANGED pages
  ELSE LET ps == Append(pages, [ok |-> TRUE, at |-> at, kept |-> TRUE, cap |-> c])
       IN  /\ fetches' = Append(fetches, [ok |-> TRUE, at |-> at, page |-> Len(ps)])
           /\ \E s \in Survivors(ps) : pages' = Pruned(ps, s)

\* record_fetch after a transport error: no page to keep.
RecordTransportError(at) ==
  /\ fetches' = Append(fetches, [ok |-> FALSE, at |-> at, page |-> 0])
  /\ UNCHANGED pages

\* Mutant: the row id is read before the page is inserted.
RecordStaleId(c, at) ==
  /\ pages' = Append(pages, [ok |-> FALSE, at |-> at, kept |-> TRUE, cap |-> c])
  /\ fetches' = Append(fetches, [ok |-> FALSE, at |-> at, page |-> Len(pages)])

\* record_fetch for a page that did not parse: always kept.
RecordParseError(c, at) ==
  /\ pages' = Append(pages, [ok |-> FALSE, at |-> at, kept |-> TRUE, cap |-> c])
  /\ fetches' = Append(fetches, [ok |-> FALSE, at |-> at, page |-> Len(pages) + 1])

\* Stamps a transaction begun no earlier than t may carry when it commits now.
Stamps(t) == {s \in t .. clock : clock - s <= MaxLockWait}

-----------------------------------------------------------------------------
(* Writers *)

InFlight == {w \in Writers : worker[w].pc = "net"}

\* Login and request.
StartFetch(w) ==
  /\ worker[w].pc = "idle"
  /\ Len(fetches) + Cardinality(InFlight) < MaxFetches
  /\ worker' = [worker EXCEPT ![w] =
       [Idle EXCEPT !.pc = "net", !.began = clock, !.since = clock]]
  /\ UNCHANGED <<clock, archiveVars, reparseVars, feedVars>>

FetchFails(w) ==
  /\ worker[w].pc = "net"
  /\ \E at \in Stamps(worker[w].since) :
       \/ RecordTransportError(at)
       \/ \E c \in Captures : RecordParseError(c, at)
  /\ worker' = [worker EXCEPT ![w] = Idle]
  /\ UNCHANGED <<clock, rows, revisions, hasReceived, reparseVars, feedVars>>

RecordFetch(w) ==
  /\ worker[w].pc = "net"
  /\ \E at \in Stamps(worker[w].since), c \in Captures :
       /\ RecordOk(c, at)
       /\ worker' = [worker EXCEPT ![w] =
            [pc |-> "fetched", began |-> worker[w].began, since |-> clock,
             fetch |-> Len(fetches) + 1, cap |-> c]]
  /\ UNCHANGED <<clock, rows, revisions, hasReceived, reparseVars, feedVars>>

Store(w) ==
  /\ worker[w].pc = "fetched"
  /\ \E at \in Stamps(worker[w].since) :
       StoreIntervals(worker[w].cap, worker[w].fetch, at)
  /\ Owe(Inserted(worker[w].cap) \cup Updated(worker[w].cap), worker[w].began)
  /\ worker' = [worker EXCEPT ![w] = Idle]
  /\ UNCHANGED <<clock, fetches, pages, reparseVars, mark>>

\* The process dies, or an exception ends the cycle, between two transactions.
Crash(w) ==
  /\ worker[w].pc # "idle"
  /\ worker' = [worker EXCEPT ![w] = Idle]
  /\ UNCHANGED <<clock, archiveVars, reparseVars, feedVars>>

-----------------------------------------------------------------------------
(* The exporter's view *)

\* Mutant: rows that arrived late are not looked for.
RevisedSince(since) ==
  {k \in Keys : \E f \in Fields : \E i \in 1 .. Len(revisions[k][f]) :
     revisions[k][f][i].at > since}

\* earliest_interval_change_since reads this set: revisions stamped after the
\* watermark, and rows whose fetch is.  Both comparisons are strict.
ChangedSince(since) ==
  {k \in Keys :
     \/ \E f \in Fields : \E i \in 1 .. Len(revisions[k][f]) :
          revisions[k][f][i].at > since
     \/ Stored(k) /\ fetches[rows[k].fetch].at > since}

\* An export of Home Assistant, after a refresh or at a startup that finds the
\* archive fresh, has queued its import: set_exporter_state stamps the watermark,
\* once it holds the write lock.  Its reads before that change nothing here (the
\* module Exporter has them), an empty series ends it, and writers go on.
SetExporterState ==
  /\ \E k \in Keys : Stored(k)
  /\ mark' = clock
  /\ owed' = {}
  /\ UNCHANGED <<clock, archiveVars, worker, reparseVars>>

-----------------------------------------------------------------------------
(* reparse *)

FetchForRawPage(p) == CHOOSE id \in 1 .. Len(fetches) : fetches[id].page = p

\* raw_pages: the pages that have content now.
StartReparse ==
  /\ reparse = Done
  /\ reparses < MaxReparses
  /\ reparse' = [Done EXCEPT !.todo = WithContent(pages, TRUE) \cup WithContent(pages, FALSE)]
  /\ reparse' # Done
  /\ reparses' = reparses + 1
  /\ UNCHANGED <<clock, archiveVars, worker, feedVars>>

\* The oldest page left; its content may have been pruned meanwhile.
ReadPage ==
  /\ reparse.pc = "next"
  /\ \E p \in reparse.todo :
       /\ \A q \in reparse.todo : pages[p].at <= pages[q].at
       /\ reparse' = IF pages[p].kept
                     THEN [reparse EXCEPT !.pc = "read", !.page = p, !.todo = @ \ {p}]
                     ELSE [reparse EXCEPT !.todo = @ \ {p}]
  /\ UNCHANGED <<clock, archiveVars, worker, reparses, feedVars>>

FindFetch ==
  /\ reparse.pc = "read"
  /\ reparse' = [reparse EXCEPT !.pc = "found", !.since = clock,
                                !.fetch = FetchForRawPage(reparse.page)]
  /\ UNCHANGED <<clock, archiveVars, worker, reparses, feedVars>>

\* Stored under the fetch that captured it, unless it still does not parse.
\* What this inserts is never owed: its fetch is as old as the page.
StorePage ==
  LET c == pages[reparse.page].cap IN
  /\ reparse.pc = "found"
  /\ \/ UNCHANGED <<rows, revisions, hasReceived, owed>>
     \/ /\ \E at \in Stamps(reparse.since) : StoreIntervals(c, reparse.fetch, at)
        /\ Owe(Updated(c), reparse.since)
  /\ reparse' = [Done EXCEPT !.todo = reparse.todo]
  /\ UNCHANGED <<clock, fetches, pages, worker, reparses, mark>>

StopReparse ==
  /\ reparse # Done
  /\ reparse' = Done
  /\ UNCHANGED <<clock, archiveVars, worker, reparses, feedVars>>

-----------------------------------------------------------------------------

Tick ==
  /\ clock < MaxClock
  /\ clock' = clock + 1
  /\ UNCHANGED <<archiveVars, worker, reparseVars, feedVars>>

Init ==
  /\ clock = 0
  /\ fetches = <<>>
  /\ pages = <<>>
  /\ rows = [k \in Keys |-> [val |-> [f \in Fields |-> NULL], fetch |-> 0]]
  /\ revisions = [k \in Keys |-> [f \in Fields |-> <<>>]]
  /\ hasReceived = FALSE
  /\ worker = [w \in Writers |-> Idle]
  /\ reparse = Done
  /\ reparses = 0
  /\ mark = NULL
  /\ owed = {}

Next ==
  \/ \E w \in Writers :
       \/ StartFetch(w) \/ FetchFails(w) \/ RecordFetch(w) \/ Store(w) \/ Crash(w)
  \/ SetExporterState
  \/ StartReparse \/ ReadPage \/ FindFetch \/ StorePage \/ StopReparse
  \/ Tick

Spec == Init /\ [][Next]_vars

-----------------------------------------------------------------------------
(* Refinement: the rows with their revisions implement AuditedStore *)

\* The readings a cell has held: what it was inserted with, then its revisions.
CellHistory(k, f) ==
  LET trail == revisions[k][f]
      first == IF trail = <<>> THEN rows[k].val[f] ELSE trail[1].old
  IN  (IF first = NULL THEN <<>> ELSE <<first>>)
        \o [i \in 1 .. Len(trail) |-> trail[i].new]

Audited == INSTANCE AuditedStore WITH
  current <- [k \in Keys |-> rows[k].val],
  history <- [k \in Keys |-> [f \in Fields |-> CellHistory(k, f)]]

-----------------------------------------------------------------------------
(* Properties *)

\* Rows and revisions together implement the append-only store the README
\* promises: no reading is ever lost, and none is recorded that was not held.
ImplementsAuditedStore == Audited!Spec

\* A non-empty cell is never emptied by a later page, and a stored row is never
\* dropped ("NULL never overwrites a value", archive.py).
NullNeverErases ==
  [][\A k \in Keys :
       /\ Stored(k) => rows'[k].fetch # 0
       /\ \A f \in Fields : rows[k].val[f] # NULL => rows'[k].val[f] # NULL]_vars

\* The audit trail of a cell is unbroken: each revision starts from the value
\* the previous one left, and the last one left what the row now holds, whoever
\* wrote and in whatever order ("Nothing changes silently").
CellAudited(k, f) ==
  LET trail == revisions[k][f] IN
  /\ \A i \in 1 .. Len(trail) - 1 : trail[i + 1].old = trail[i].new
  /\ Len(trail) > 0 => Stored(k) /\ rows[k].val[f] = trail[Len(trail)].new

AuditTrail == \A k \in Keys, f \in Fields : CellAudited(k, f)

\* A value never changes without its revision: a step that replaces the value
\* of a stored row appends exactly that change to the trail of the cell.
NothingChangesSilently ==
  [][\A k \in Keys, f \in Fields :
       Stored(k) /\ rows'[k].val[f] # rows[k].val[f] =>
         /\ Len(revisions'[k][f]) = Len(revisions[k][f]) + 1
         /\ revisions'[k][f][Len(revisions'[k][f])].old = rows[k].val[f]
         /\ revisions'[k][f][Len(revisions'[k][f])].new = rows'[k].val[f]]_vars

\* Values of the export register are only ever archived for a meter known to
\* have one; otherwise the exporter would never publish them.
ReceivedKnown ==
  (\E k \in Keys : rows[k].val[Received] # NULL) => hasReceived

\* Whatever is archived names a fetch of the log that captured it, also while
\* `reparse` and the writers hold ids they read in an earlier transaction.
References ==
  /\ \A k \in Keys : rows[k].fetch \in 0 .. Len(fetches)
  /\ \A p \in 1 .. Len(pages) : \E id \in 1 .. Len(fetches) : fetches[id].page = p
  /\ reparse.todo \subseteq 1 .. Len(pages)
  /\ reparse.pc # "next" => reparse.page \in 1 .. Len(pages)
  /\ reparse.pc = "found" => /\ reparse.fetch \in 1 .. Len(fetches)
                             /\ fetches[reparse.fetch].page = reparse.page
  /\ \A w \in Writers : worker[w].pc = "fetched" =>
       worker[w].fetch \in 1 .. Len(fetches) /\ worker[w].cap \in Captures

\* Failure pages keep their content for good; of the ok pages at most KeepOk
\* do, and none that was pruned is newer than one that was kept.
RawPagesKept ==
  /\ \A p \in 1 .. Len(pages) : ~pages[p].ok => pages[p].kept
  /\ Cardinality(WithContent(pages, TRUE)) <= KeepOk
  /\ \A p, q \in 1 .. Len(pages) :
       pages[p].ok /\ pages[p].kept /\ pages[q].ok /\ ~pages[q].kept
         => pages[p].at >= pages[q].at

\* The change feed reaches back to every start that work begun after the
\* watermark has written, fetches and `reparse`s interleaving as they may
\* ("covers both value revisions and rows that arrived late").  Not covered, as
\* the code stamps them at or before the watermark: what a fetch under way
\* during an export, or begun in the second of its watermark, writes, and the
\* rows `reparse` inserts under the fetch that captured the page.
FeedComplete ==
  owed # {} => \E c \in ChangedSince(mark) : \A k \in owed : c <= k
=============================================================================
