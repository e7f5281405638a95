------------------------------- MODULE Daily -------------------------------
(***************************************************************************)
(* The daily reads: parse_daily_history (parser.py), DailyRead (models.py),*)
(* and what archive.py does with them: opening and migrating the file,     *)
(* store_daily, the daily buckets, their change feed and the consistency   *)
(* report.                                                                 *)
(*                                                                         *)
(* Every archive call takes its time stamp, opens its own connection,      *)
(* reads the schema version, and only then waits for the write lock;       *)
(* processes of different versions of this library may share the file.     *)
(* A fetch is logged in one call and its reads are stored in a later one;  *)
(* reparse stores the reads of any logged fetch again.  An export reads    *)
(* the daily rows in one call and sets its watermark in another.           *)
(***************************************************************************)
EXTENDS Clock, SequencesExt, FiniteSetsExt

CONSTANTS
  Procs,       \* processes with the file open
  Code,        \* the SCHEMA_VERSION each of them understands
  OldFiles,    \* daily tables an old file (version 1) may hold
  Stories,     \* the tables an account's page may show, newest read first
  Layouts,     \* column headers of the table
  Grain,       \* length of an interval
  Intervals,   \* the archived intervals, each of one kWh: number n starts at n * Grain
  Tolerance,   \* tolerance_kwh
  MaxFetches,  \* bound: fetches logged
  MaxClock,    \* bound: seconds of the clock
  Blank,       \* an empty meter cell
  NULL,        \* an empty cell
  Refused      \* LayoutError

\* A wall-clock time as the portal knows it: a reading, and the pass of a
\* repeated hour.
Time == Int \X {0, 1}

\* A read of the portal.
PortalRead ==
  [meter : STRING, from : Time, to : Time \cup {NULL}, type : STRING,
   delivered : Int \cup {NULL}, received : Int \cup {NULL}]

\* A row of daily_reads, with the time of its fetch and of its latest revision.
Row ==
  [to : Int \cup {NULL}, type : STRING, delivered : Int \cup {NULL},
   received : Int \cup {NULL}, day : Int, fetch : Int, revised : Int]

\* No two reads of a table begin at the same time.
ASSUME DailyAssumption ==
  /\ Code \in [Procs -> {1, 2}]
  /\ Stories \subseteq SUBSET Seq(PortalRead)
  /\ \A tables \in Stories : \A t \in tables : \A i, j \in DOMAIN t :
       Instant(t[i].from[1], 0) = Instant(t[j].from[1], 0) => i = j
  /\ Layouts \subseteq Seq(STRING)
  /\ \A t \in OldFiles :
       /\ DOMAIN t \subseteq Int /\ IsFiniteSet(DOMAIN t)
       /\ t \in [DOMAIN t -> Row]
  /\ Grain \in Nat \ {0}
  /\ Intervals \subseteq Int /\ IsFiniteSet(Intervals)
  /\ {Tolerance, MaxFetches, MaxClock} \subseteq Nat
  /\ NULL \notin Int \cup Time \cup {"Failed"} /\ Refused \notin Int

VARIABLES
  account,   \* the portal's side: its layout and its tables
  version,   \* user_version of the file; 0: no schema yet
  reads,     \* daily_reads by from_utc
  log,       \* the logged fetches whose page is kept and parses
  conn,      \* the connection of each process: how far it is opened
  stamp,     \* _now_utc of the archive call of each process
  work,      \* the logged fetch each process has still to store, or NULL
  clock,     \* the wall clock
  mark,      \* exported_at_utc
  exporting, \* the table a running export has read, or NULL
  exported,  \* the table of the last export, NULL before the first
  moved,     \* history: stored reads whose end went on to a later day, or back
  late,      \* history: reads whose day was set through an outdated look at the version
  hidden     \* history: reads written since the last export read them, and not stamped
             \* after its watermark

fileVars    == <<version, reads, log>>
procVars    == <<conn, stamp, work>>
exportVars  == <<mark, exporting, exported>>
historyVars == <<moved, late, hidden>>

vars == <<account, fileVars, procVars, clock, exportVars, historyVars>>

Columns == {"to", "type", "delivered", "received"}

-----------------------------------------------------------------------------
(* The portal's table: a read is [from, to, type, delivered, received], its *)
(* times a wall-clock reading and the pass of a repeated hour               *)

\* What the portal prints of a read under a header.
Printed(read, header) ==
  CASE header = "Meter"                      -> read.meter
    [] header = "From"                       -> read.from
    [] header = "To"                         -> read.to
    [] header = "Type"                       -> read.type
    [] header \in {"kWh", "kWh Delivered"}   -> read.delivered
    [] header = "kWh Received"               -> read.received
    [] OTHER                                 -> NULL

\* The table with its "Total" row.
CleanTable(table, layout) ==
  [header |-> layout,
   rows   |-> [i \in 1 .. Len(table) |->
                 [j \in 1 .. Len(layout) |-> Printed(table[i], layout[j])]],
   total  |-> 1]

\* The same table with an unknown header, without the text of one it needs, with
\* a row cut short, or with a meter cell left blank.
Disturbed(page) ==
  {[page EXCEPT !.header[i] = "$ Cost"] : i \in 1 .. Len(page.header)}
  \cup {[page EXCEPT !.header[i] = ""] :
          i \in {j \in 1 .. Len(page.header) : page.header[j] \notin {"To", "kWh Received"}}}
  \cup {[page EXCEPT !.rows[i] = Front(page.rows[i])] : i \in 1 .. Len(page.rows)}
  \cup {[page EXCEPT !.rows[i] = [j \in 1 .. Len(page.header) |->
                                    IF page.header[j] = "Meter" THEN Blank ELSE page.rows[i][j]]] :
          i \in 1 .. Len(page.rows)}

\* What the portal may send.
Sent(table, layout) ==
  LET page == CleanTable(table, layout) IN {page} \cup Disturbed(page)

-----------------------------------------------------------------------------
(* parser.py *)

\* The column vocabulary.
DailyColumn(header) ==
  CASE header = "Meter"                           -> "meter"
    [] header = "From"                            -> "from"
    [] header = "To"                              -> "to"
    [] header = "Type"                            -> "type"
    [] header \in {"kWh Delivered", "kWh Del"}    -> "kwh_delivered"
    [] header \in {"kWh Received", "kWh Rcvd"}    -> "kwh_received"
    [] header = "kWh"                             -> "kwh"
    [] header \in {"High", "Low", "Posted", "kW", "Reading"} -> "other"
    [] OTHER                                      -> "unknown"

\* Where each column is; headers without text are skipped.
Index(header, name) ==
  {i \in 1 .. Len(header) : header[i] # "" /\ DailyColumn(header[i]) = name}

TableFits(page) ==
  /\ Index(page.header, "unknown") = {}
  /\ \A name \in {"meter", "from", "type"} : Index(page.header, name) # {}
  /\ Index(page.header, "kwh_delivered") \cup Index(page.header, "kwh") # {}
  /\ \A i \in DOMAIN page.rows :
       /\ Len(page.rows[i]) >= Len(page.header)
       /\ page.rows[i][Min(Index(page.header, "meter"))] # Blank

\* parse_local_datetime: a wall-clock text has no pass, so the first is taken.
parse_local_datetime(text) == IF text = NULL THEN NULL ELSE Instant(text[1], 0)

Cell(page, row, name) ==
  LET at == Index(page.header, name)
  IN  IF at = {} THEN NULL ELSE row[Min(at)]

\* The reads of the table, "Total" and "Average" rows left out, or Refused.
parse_daily_history(page) ==
  IF ~TableFits(page) THEN Refused
  ELSE [i \in 1 .. Len(page.rows) |->
          LET row == page.rows[i]
          IN  [from      |-> parse_local_datetime(Cell(page, row, "from")),
               to        |-> parse_local_datetime(Cell(page, row, "to")),
               type      |-> Cell(page, row, "type"),
               delivered |-> IF Index(page.header, "kwh_delivered") # {}
                             THEN Cell(page, row, "kwh_delivered")
                             ELSE Cell(page, row, "kwh"),
               received  |-> Cell(page, row, "kwh_received")]]

-----------------------------------------------------------------------------
(* models.py *)

is_failed(r) == r.type = "Failed"
is_zero_length(from, r) == r.to # NULL /\ r.to = from

\* A read without an end closes where it begins.
read_end(from, to) == IF to = NULL THEN from ELSE to

usage_date_local(from, to) == usage_day(Reading(read_end(from, to)))

-----------------------------------------------------------------------------
(* archive.py: reading the table *)

\* daily_buckets computes the day from the read as it is now.
Day(table, from) == usage_date_local(from, table[from].to)

DayOf(from) == Day(reads, from)

\* Mutant: what was fetched or revised before.
change_days_before(since) ==
  {reads[k].day : k \in {j \in DOMAIN reads : reads[j].fetch > since + 1 \/ reads[j].revised > since + 1}}

\* daily_change_days_since: the stored days of what was fetched or revised.
daily_change_days_since(since) ==
  {reads[k].day : k \in {j \in DOMAIN reads : reads[j].fetch > since \/ reads[j].revised > since}}

\* A read that stands for usage the portal has still to attribute.
Placeholder(table, from) == is_failed(table[from]) \/ is_zero_length(from, table[from])

\* A new group starts at the first placeholder that waits for a read.
NewGroup(from, pending) ==
  [read |-> from, window_from |-> Min({from} \cup pending), window_to |-> reads[from].to,
   placeholders |-> pending]

\* Mutant: a placeholder always waits for the next read.
GroupWaiting(acc, from) ==
  IF Placeholder(reads, from)
  THEN [acc EXCEPT !.pending = @ \cup {from}]
  ELSE IF reads[from].to = NULL \/ reads[from].delivered = NULL
       THEN [acc EXCEPT !.pending = {}]
       ELSE [groups |-> Append(acc.groups, NewGroup(from, acc.pending)), pending |-> {}]

\* consistency_report, one read of the loop that groups them.
GroupNext(acc, from) ==
  LET r    == reads[from]
      host == Last(acc.groups)
  IN  IF Placeholder(reads, from)
      THEN IF acc.groups # <<>> /\ host.read < from /\ from < host.window_to
           THEN [acc EXCEPT !.groups[Len(acc.groups)].placeholders = @ \cup {from}]
           ELSE [acc EXCEPT !.pending = @ \cup {from}]
      ELSE IF r.to = NULL \/ r.delivered = NULL
           THEN [acc EXCEPT !.pending = {}]
           ELSE [groups |-> Append(acc.groups, NewGroup(from, acc.pending)), pending |-> {}]

\* The loop, in the order of from_utc: the last read is taken last.
Groups ==
  MapThenFoldSet(LAMBDA from, acc : GroupNext(acc, from), [groups |-> <<>>, pending |-> {}],
                 LAMBDA from : from, Max, DOMAIN reads).groups

\* The archived intervals that reach into the window, and those that start in it.
Covered(g) == {n \in Intervals : g.window_from < (n + 1) * Grain /\ n * Grain < g.window_to}
Inside(g)  == {n \in Covered(g) : g.window_from <= n * Grain}

\* A group is compared only where the intervals cover its window.
Compared(g) ==
  /\ Min(Intervals) * Grain <= g.window_from
  /\ g.window_to <= (Max(Intervals) + 1) * Grain
  /\ Cardinality(Covered(g)) >= (g.window_to - g.window_from) \div Grain - 1

Members(g) == {g.read} \cup g.placeholders

\* The reads that have the register, and what they sum up to.
Carried(table, keys, f) == {k \in keys : table[k][f] # NULL}

Usage(table, keys, f) == MapThenSumSet(LAMBDA k : table[k][f], Carried(table, keys, f))

Mismatch(g, f) ==
  /\ Carried(reads, Members(g), f) # {}
  /\ LET off == Usage(reads, Members(g), f) - Cardinality(Inside(g))
     IN  off > Tolerance \/ off < -Tolerance

\* The windows whose mismatch the report finds.
window_mismatches ==
  {g \in ToSet(Groups) : Compared(g) /\ \E f \in {"delivered", "received"} : Mismatch(g, f)}

-----------------------------------------------------------------------------
(* archive.py: opening the file *)

\* The connection is closed, by whatever the call ends.
Leave(p) ==
  /\ conn' = [conn EXCEPT ![p] = "closed"]
  /\ stamp' = [stamp EXCEPT ![p] = 0]

\* A call takes the time, and _ensure_schema looks at the version, in no
\* transaction.
Open(p) ==
  /\ conn[p] = "closed"
  /\ version <= Code[p]
  /\ conn' = [conn EXCEPT ![p] =
       CASE version = Code[p] -> "ready" [] version = 0 -> "create" [] OTHER -> "migrate"]
  /\ stamp' = [stamp EXCEPT ![p] = clock]
  /\ UNCHANGED <<account, fileVars, work, clock, exportVars, historyVars>>

\* A call that only reads.
Close(p) ==
  /\ conn[p] = "ready"
  /\ Leave(p)
  /\ UNCHANGED <<account, fileVars, work, clock, exportVars, historyVars>>

\* A process dies, or a call of it raises: what it was about to store is not stored.
Crash(p) ==
  /\ conn[p] # "closed" \/ work[p] # NULL
  /\ Leave(p)
  /\ work' = [work EXCEPT ![p] = NULL]
  /\ UNCHANGED <<account, fileVars, clock, exportVars, historyVars>>

\* Mutant: the tables are made again.
CreateAnew(p) ==
  /\ conn[p] = "create"
  /\ version' = Code[p]
  /\ reads' = [k \in {} |-> NULL]
  /\ conn' = [conn EXCEPT ![p] = "ready"]
  /\ UNCHANGED <<account, log, stamp, work, clock, exportVars, historyVars>>

\* The schema script.  It fails on the tables of a process that was faster, and
\* its transaction is rolled back with the connection.
Create(p) ==
  /\ conn[p] = "create"
  /\ IF version = 0
     THEN /\ version' = Code[p]
          /\ conn' = [conn EXCEPT ![p] = "ready"]
          /\ UNCHANGED stamp
     ELSE /\ Leave(p)
          /\ UNCHANGED version
  /\ UNCHANGED <<account, reads, log, work, clock, exportVars, historyVars>>

\* Mutant: rows without an end keep the day they have.
MigrateEnded(p) ==
  /\ conn[p] = "migrate"
  /\ version' = 2
  /\ reads' = [k \in DOMAIN reads |->
       IF reads[k].to = NULL THEN reads[k] ELSE [reads[k] EXCEPT !.day = DayOf(k)]]
  /\ conn' = [conn EXCEPT ![p] = "ready"]
  /\ moved' = {}
  /\ late' = {}
  /\ UNCHANGED <<account, log, stamp, work, clock, exportVars, hidden>>

\* _migrate_v2_usage_day: every row gets the day on which it closed.
Reattributed == [k \in DOMAIN reads |-> [reads[k] EXCEPT !.day = DayOf(k)]]

\* The migration in one transaction, whatever the version is by now.
Migrate(p) ==
  /\ conn[p] = "migrate"
  /\ version' = 2
  /\ reads' = Reattributed
  /\ conn' = [conn EXCEPT ![p] = "ready"]
  /\ moved' = IF version = 2 THEN moved ELSE {}
  /\ late' = IF version = 2 THEN late \cup {k \in DOMAIN reads : reads[k].day # DayOf(k)} ELSE {}
  /\ UNCHANGED <<account, log, stamp, work, clock, exportVars, hidden>>

-----------------------------------------------------------------------------
(* archive.py: store_daily *)

\* Version 1 attributed a read to its From date.
Attributed(p, r) == IF Code[p] = 1 THEN DayAt(r.from) ELSE usage_date_local(r.from, r.to)

Differs(old, r) == {f \in Columns : r[f] # NULL /\ r[f] # old[f]}

\* The day is set when the read is inserted.
Inserted(p, at, r) ==
  [to |-> r.to, type |-> r.type, delivered |-> r.delivered, received |-> r.received,
   day |-> Attributed(p, r), fetch |-> at, revised |-> 0]

\* An update leaves the day, and an empty cell leaves the value.  The row is then
\* of the fetch that is stored, however old that is.
Revised(at, now, old, r) ==
  IF Differs(old, r) = {} THEN old
  ELSE [f \in DOMAIN old |->
          CASE f \in Differs(old, r) -> r[f]
            [] f = "fetch"           -> at
            [] f = "revised"         -> IF now > old.revised THEN now ELSE old.revised
            [] OTHER                 -> old[f]]

Upsert(p, at, now, table, r) ==
  [k \in DOMAIN table \cup {r.from} |->
     IF k # r.from THEN table[k]
     ELSE IF k \in DOMAIN table THEN Revised(at, now, table[k], r)
     ELSE Inserted(p, at, r)]

\* The loop of store_daily.
store_daily(p, at, now, table, parsed) ==
  FoldLeft(LAMBDA t, r : Upsert(p, at, now, t, r), table, parsed)

\* A table arrives and is parsed, and record_fetch logs it.  A page that is refused
\* is logged too; reparse refuses it again.
Fetch(p, page) ==
  LET parsed == parse_daily_history(page)
      answer == [at |-> stamp[p], parsed |-> parsed]
  IN  /\ conn[p] = "ready" /\ work[p] = NULL
      /\ Cardinality(log) < MaxFetches
      /\ IF parsed = Refused
         THEN UNCHANGED <<work, log>>
         ELSE /\ work' = [work EXCEPT ![p] = answer]
              /\ log' = log \cup {answer}
      /\ Leave(p)
      /\ UNCHANGED <<account, version, reads, clock, exportVars, historyVars>>

\* reparse has read a page and the fetch that logged it.
Reread(p) ==
  /\ conn[p] = "ready" /\ work[p] = NULL
  /\ \E answer \in log : work' = [work EXCEPT ![p] = answer]
  /\ Leave(p)
  /\ UNCHANGED <<account, fileVars, clock, exportVars, historyVars>>

\* What the feed will not name once the table is stored: a new row has the time of
\* its fetch, a changed one that of the call that changes it.
Hidden(p) ==
  LET new     == DOMAIN reads' \ DOMAIN reads
      changed == {k \in DOMAIN reads : reads'[k] # reads[k]}
  IN  (hidden \ changed)
        \cup {k \in new : work[p].at <= mark} \cup {k \in changed : stamp[p] <= mark}

\* store_daily, in one transaction that begins after the version was looked at.
Store(p) ==
  /\ conn[p] = "ready" /\ work[p] # NULL
  /\ reads' = store_daily(p, work[p].at, stamp[p], reads, work[p].parsed)
  /\ moved' = moved
       \cup {<<k, "on">> : k \in {j \in DOMAIN reads : Day(reads', j) > DayOf(j)}}
       \cup {<<k, "back">> : k \in {j \in DOMAIN reads : Day(reads', j) < DayOf(j)}}
  /\ late' = IF Code[p] < version THEN late \cup (DOMAIN reads' \ DOMAIN reads) ELSE late
  /\ hidden' = IF exported = NULL THEN {} ELSE Hidden(p)
  /\ Leave(p)
  /\ work' = [work EXCEPT ![p] = NULL]
  /\ UNCHANGED <<account, version, log, clock, exportVars>>

-----------------------------------------------------------------------------
(* exporter.py: one export at a time *)

\* Table t has the read as it is now.
Same(t, k) == k \in DOMAIN t /\ \A f \in Columns : reads[k][f] = t[k][f]

\* daily_buckets, here the rows it is computed from.
ReadBuckets ==
  /\ version = 2 /\ exporting = NULL
  /\ exporting' = reads
  /\ UNCHANGED <<account, fileVars, procVars, clock, mark, exported, historyVars>>

\* set_exporter_state, after the anchor, the plan and the import.
SetWatermark ==
  /\ exporting # NULL
  /\ mark' = clock
  /\ exported' = exporting
  /\ exporting' = NULL
  /\ hidden' = {k \in DOMAIN reads : ~Same(exporting, k)}
  /\ UNCHANGED <<account, fileVars, procVars, clock, moved, late>>

\* An export that halts, has nothing to write, or fails.
AbortExport ==
  /\ exporting # NULL
  /\ exporting' = NULL
  /\ UNCHANGED <<account, fileVars, procVars, clock, mark, exported, historyVars>>

Tick ==
  /\ clock < MaxClock
  /\ clock' = clock + 1
  /\ UNCHANGED <<account, fileVars, procVars, exportVars, historyVars>>

-----------------------------------------------------------------------------

Init ==
  /\ account \in [tables : Stories, layout : Layouts]
  /\ version \in {0, 1}
  /\ IF version = 0 THEN reads = [k \in {} |-> NULL] ELSE reads \in OldFiles
  /\ log = {}
  /\ conn = [p \in Procs |-> "closed"]
  /\ stamp = [p \in Procs |-> 0]
  /\ work = [p \in Procs |-> NULL]
  /\ clock = 0
  /\ mark = 0
  /\ exporting = NULL
  /\ exported = NULL
  /\ moved = {}
  /\ late = {}
  /\ hidden = {}

Arrive(p) ==
  \E table \in account.tables : \E page \in Sent(table, account.layout) : Fetch(p, page)

Step(p) ==
  \/ Open(p)
  \/ Close(p)
  \/ Crash(p)
  \/ Create(p)
  \/ Migrate(p)
  \/ Arrive(p)
  \/ Reread(p)
  \/ Store(p)

Next ==
  \/ \E p \in Procs : Step(p)
  \/ ReadBuckets
  \/ SetWatermark
  \/ AbortExport
  \/ Tick

Spec == Init /\ [][Next]_vars

-----------------------------------------------------------------------------
(* Properties *)

\* Whoever opens, creates or migrates the file, no read is lost, no value that
\* was known is emptied, and the version never goes back: two processes may
\* find the same old file, or none, at the same time.
NothingLost ==
  [][/\ version' >= version
     /\ \A k \in DOMAIN reads :
          /\ k \in DOMAIN reads'
          /\ \A f \in Columns : reads[k][f] # NULL => reads'[k][f] # NULL]_vars

\* In a migrated file the stored day of a read is the day the portal draws it
\* on, unless its end went to another day later, or a process that had looked at
\* the version before set that day afterwards.
StoredDay ==
  version = 2 =>
    \A k \in DOMAIN reads \ late :
      {<<k, "on">>, <<k, "back">>} \cap moved = {} => reads[k].day = DayOf(k)

\* Reads the feed cannot be asked about: those it does not name, and those whose
\* stored day may be after the day they are drawn on.
Unsure == hidden \cup late \cup {k \in DOMAIN reads : <<k, "back">> \in moved}

\* The other reads that are not what was exported.
Outdated == {k \in DOMAIN reads \ Unsure : ~Same(exported, k)}

\* The exporter re-sums from the earliest day the feed names, so for every read that
\* is new or changed it must name a day no later than the one the read is drawn on,
\* now and when it was exported: a read that was logged before the last export and
\* revised after it, one that was late, one whose end went on to a later day, by
\* whichever process.  "Covers value revisions and late-arriving rows alike"
\* (archive.py) is more than that: the feed does not name a row that was inserted
\* since under a fetch not after the watermark (a fetch logged before the watermark
\* and stored after it, a page reparsed), one written between an export's read and
\* its watermark, or one whose end went back.
FeedNamesDays ==
  exported # NULL =>
    \A k \in Outdated : \E d \in daily_change_days_since(mark) :
      d <= DayOf(k) /\ (k \in DOMAIN exported => d <= Day(exported, k))

\* A read the portal closed in the second pass of a repeated hour.
SecondPass(tables, k) ==
  \E t \in tables : \E r \in ToSet(t) :
    parse_local_datetime(r.from) = k /\ r.to # NULL /\ r.to[2] = 1

\* A table that tells the truth raises no mismatch, however its reads failed and
\* were caught up with, or came in between.  The tolerance is the usage of two
\* intervals: a window is compared with one of them missing, and one that begins
\* off a slot with another, because the interval it begins in is counted as well.
\* "Mismatches on grouped windows are informational" (archive.py), and
\* everything else in the report is a warning.  A read that closed in a repeated
\* hour is taken to have closed in its first pass.
TruthIsQuiet ==
  (\A k \in DOMAIN reads : ~SecondPass(account.tables, k)) => window_mismatches = {}
=============================================================================
