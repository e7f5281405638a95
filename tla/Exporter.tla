------------------------------ MODULE Exporter ------------------------------
(***************************************************************************)
(* The statistics exporter (exporter.py) between the archive it reads and  *)
(* the recorder it writes, for one statistic of one meter.  An export is a *)
(* sequence of awaited reads, so archive writes, the recorder and a second *)
(* export may come between them; the import is only queued, and the        *)
(* recorder applies it later.                                              *)
(*                                                                         *)
(* The archive is seen as the exporter sees it: hourly buckets, daily      *)
(* buckets, and the change feed.  Feed entries stand for writes stamped    *)
(* after the watermark, so recording a watermark empties the feed.         *)
(***************************************************************************)
EXTENDS Series, Sequences

CONSTANTS
  DayLen,       \* hours of a day
  Days,         \* days of the model
  FirstWindow,  \* the window's oldest day when the model starts
  Window,       \* days of the portal's rolling window
  Contents,     \* what an hour may hold: [val, complete]
  DailyValues,  \* what a daily read may hold
  Tasks,        \* exports that may overlap
  Overlap,      \* may the archive change while an export runs?
  PreRows,      \* recorder rows that predate the archive
  MaxWrites,    \* bound: archive writes
  MaxReparses,  \* bound: pages that fail to parse and are re-ingested
  MaxDeletes,   \* bound: times the user deletes the statistic
  MaxAdjusts,   \* bound: times the user adjusts its sum
  MaxRestarts,  \* bound: Home Assistant restarts
  MaxQueue,     \* bound: imports waiting when an export starts
  ThrashLimit   \* THRASH_LIMIT

DayIds == 0 .. Days - 1
Hours  == 0 .. Days * DayLen - 1

HoursOf(d) == d * DayLen .. (d + 1) * DayLen - 1

ASSUME ExporterAssumption ==
  /\ DayLen \in Nat \ {0} /\ Window \in Nat \ {0}
  /\ Days \in Nat /\ FirstWindow \in Nat /\ FirstWindow + Window \in 1 .. Days
  /\ Contents \subseteq [val : Nat \cup {NULL}, complete : BOOLEAN]
  /\ DailyValues \subseteq Nat \cup {NULL}
  /\ Overlap \in BOOLEAN
  /\ ThrashLimit \in Nat \ {0}

\* NULL is no number and no record.
ASSUME NullAssumption ==
  /\ NULL \notin Int
  /\ NULL \notin Contents
  /\ NULL \notin [val : DailyValues]
  /\ NULL \notin [start : Int, sum : Nat]

\* The rows that predate the archive, and the sums in them, never decrease.
ASSUME PreRowsAssumption ==
  /\ IsFiniteSet(DOMAIN PreRows)
  /\ DOMAIN PreRows \subseteq Int
  /\ \A s \in DOMAIN PreRows : s < 0 /\ PreRows[s] \in Nat
  /\ \A s, t \in DOMAIN PreRows : s < t => PreRows[s] <= PreRows[t]

VARIABLES
  hour,      \* hourly bucket of each hour, NULL when it has no interval
  day,       \* daily bucket of each day, NULL when it has no read
  oldestDay, \* first day the portal still shows
  feedHours, \* hours the change feed names
  feedDays,  \* days the change feed names
  marked,    \* is there an exporter_state row?
  shelf,     \* pages kept after a parse error, late once a watermark follows
  recorder,  \* sum of each statistics row the recorder holds
  queue,     \* imports queued to the recorder
  export,    \* what each export is doing
  fulls,     \* _consecutive_full
  issue,     \* did the last export to finish report a halt?
  synced,    \* history: has an export of the current archive completed, and
             \* did its anchor check find nothing to do?
  budget     \* uses of the bounds

archiveVars  == <<hour, day, oldestDay>>
feedVars     == <<feedHours, feedDays, marked, shelf>>
recorderVars == <<recorder, queue>>
exportVars   == <<export, fulls, issue, synced>>
vars == <<archiveVars, feedVars, recorderVars, exportVars, budget>>

-----------------------------------------------------------------------------
(* The archive as the exporter reads it *)

Oldest == oldestDay * DayLen

Hourly ==
  {[start |-> h, val |-> hour[h].val, complete |-> hour[h].complete] :
     h \in {x \in Hours : hour[x] # NULL}}

Daily ==
  {[start |-> d * DayLen, end |-> (d + 1) * DayLen, val |-> day[d].val] :
     d \in {x \in DayIds : day[x] # NULL}}

Points == BuildPoints(Hourly, Daily, Oldest)

\* How much of an hour has arrived: blank cells, some slots, all four.
Rank(c) == IF c.complete THEN 2 ELSE IF c.val # NULL THEN 1 ELSE 0

\* A page never takes back a slot it left empty.
Merged(old, new) ==
  IF old # NULL /\ (new = NULL \/ Rank(new) < Rank(old)) THEN old ELSE new

\* Grid pages of the window starting on day d: every slot of every column has a
\* cell, so an hour the portal has not published yet is blank, not missing.
Pages(d) == [UNION {HoursOf(x) : x \in d .. d + Window - 1} -> Contents]

Changed(cap) == {h \in DOMAIN cap : Merged(hour[h], cap[h]) # hour[h]}

StoreHours(cap) ==
  hour' = [h \in Hours |-> IF h \in Changed(cap) THEN cap[h] ELSE hour[h]]

-----------------------------------------------------------------------------
(* The environment: portal, user, recorder, clock *)

Steps == {"idle", "hourly", "series", "feed", "fed", "anchor", "planned",
          "existing", "queued"}

Resting == [pc |-> "idle", hourly |-> {}, points |-> {}, oldest |-> 0,
            since |-> FALSE, changed |-> NULL, anchor |-> NULL,
            plan |-> Plan("none", NoRows), existing |-> {},
            stale |-> FALSE]

NoHistory == [s \in {} |-> 0]

Quiet == \A t \in Tasks : export[t].pc = "idle"

\* Something changed under the running exports and after the finished ones.
Disturb ==
  /\ export' = [t \in Tasks |->
       IF export[t].pc = "idle" THEN export[t] ELSE [export[t] EXCEPT !.stale = TRUE]]
  /\ synced' = "no"
  /\ UNCHANGED <<fulls, issue>>

Bounded == {"writes", "reparses", "deletes", "adjusts", "restarts"}

Spend(what, max) ==
  /\ budget[what] < max
  /\ budget' = [budget EXCEPT ![what] = @ + 1]

\* A fetch stores the grid of the window; the change feed sees every write.
FetchGrid ==
  /\ Quiet \/ Overlap
  /\ Spend("writes", MaxWrites)
  /\ \E cap \in Pages(oldestDay) :
       /\ Changed(cap) # {}
       /\ StoreHours(cap)
       /\ feedHours' = feedHours \cup Changed(cap)
  /\ Disturb
  /\ UNCHANGED <<day, oldestDay, feedDays, marked, shelf, recorderVars>>

\* A daily fetch or the one-shot backfill stores a daily read.
FetchDaily ==
  /\ Quiet \/ Overlap
  /\ Spend("writes", MaxWrites)
  /\ \E d \in DayIds, v \in DailyValues :
       /\ d < oldestDay + Window
       /\ \/ day[d] = NULL
          \/ day[d] # NULL /\ v \notin {NULL, day[d].val}
       /\ day' = [day EXCEPT ![d] = [val |-> v]]
       /\ feedDays' = feedDays \cup {d}
  /\ Disturb
  /\ UNCHANGED <<hour, oldestDay, feedHours, marked, shelf, recorderVars>>

\* A grid page does not parse: record_fetch keeps it under its own fetch.
ParseError ==
  /\ Quiet \/ Overlap
  /\ Spend("reparses", MaxReparses)
  /\ \E cap \in Pages(oldestDay) :
       shelf' = shelf \cup {[day |-> oldestDay, cap |-> cap, late |-> FALSE]}
  /\ UNCHANGED <<archiveVars, feedHours, feedDays, marked, recorderVars, exportVars>>

\* After a parser fix the page is stored under the fetch that captured it.
\* Changed rows get a revision; inserted rows only have that fetch's time,
\* which is late once a watermark was recorded after it.
Reparse ==
  /\ Quiet \/ Overlap
  /\ \E page \in shelf :
       /\ StoreHours(page.cap)
       /\ feedHours' = feedHours \cup
            {h \in Changed(page.cap) : hour[h] # NULL \/ ~page.late}
       /\ shelf' = shelf \ {page}
  /\ Disturb
  /\ UNCHANGED <<day, oldestDay, feedDays, marked, recorderVars, budget>>

DayPasses ==
  /\ Quiet \/ Overlap
  /\ oldestDay + Window < Days
  /\ oldestDay' = oldestDay + 1
  /\ Disturb
  /\ UNCHANGED <<hour, day, feedVars, recorderVars, budget>>

\* The recorder thread takes the next import: it replaces whole rows.
RecorderApplies ==
  /\ queue # <<>>
  /\ recorder' = [s \in DOMAIN recorder \cup DOMAIN Head(queue) |->
       IF s \in DOMAIN Head(queue) THEN Head(queue)[s].sum ELSE recorder[s]]
  /\ queue' = Tail(queue)
  /\ UNCHANGED <<archiveVars, feedVars, exportVars, budget>>

\* The user deletes the statistic.
UserDeletes ==
  /\ (Quiet /\ queue = <<>>) \/ Overlap
  /\ Spend("deletes", MaxDeletes)
  /\ recorder' = NoHistory
  /\ Disturb
  /\ UNCHANGED <<archiveVars, feedVars, queue>>

\* The user adjusts the sum from some row on.
UserAdjusts ==
  /\ (Quiet /\ queue = <<>>) \/ Overlap
  /\ Spend("adjusts", MaxAdjusts)
  /\ \E s \in DOMAIN recorder :
       recorder' = [t \in DOMAIN recorder |->
                      IF t >= s THEN recorder[t] + 1 ELSE recorder[t]]
  /\ Disturb
  /\ UNCHANGED <<archiveVars, feedVars, queue>>

\* Home Assistant stops: queued imports and the counters in memory are lost.
Restart ==
  /\ Spend("restarts", MaxRestarts)
  /\ queue' = <<>>
  /\ export' = [t \in Tasks |-> Resting]
  /\ fulls' = 0
  /\ issue' = FALSE
  /\ synced' = "no"
  /\ UNCHANGED <<archiveVars, feedVars, recorder>>

-----------------------------------------------------------------------------
(* async_export *)

Go(t, pc, rec) == export' = [export EXCEPT ![t] = [rec EXCEPT !.pc = pc]]

\* hourly_series.  An export of an empty series does nothing, and a series
\* never becomes empty again.
ReadHourly(t) ==
  /\ export[t].pc = "idle"
  /\ Len(queue) <= MaxQueue
  /\ Points # {}
  /\ Go(t, "hourly", [Resting EXCEPT !.hourly = Hourly, !.oldest = Oldest])
  /\ UNCHANGED <<archiveVars, feedVars, recorderVars, fulls, issue, synced, budget>>

\* daily_buckets, then build_points.
ReadDaily(t) ==
  LET rec == export[t] IN
  /\ rec.pc = "hourly"
  /\ Go(t, "series", [rec EXCEPT !.hourly = {},
                                 !.points = BuildPoints(rec.hourly, Daily, rec.oldest)])
  /\ UNCHANGED <<archiveVars, feedVars, recorderVars, fulls, issue, synced, budget>>

\* Mutant: no change feed, the anchor check alone finds what changed.
ReadNoFeed(t) ==
  /\ export[t].pc = "series"
  /\ Go(t, "feed", export[t])
  /\ UNCHANGED <<archiveVars, feedVars, recorderVars, fulls, issue, synced, budget>>

\* exporter_state and the interval half of _changed_from.  They are two awaits, and
\* one step here: only the watermark of another export could come between them and
\* matter, and the code's feed would then name more than it does here, never less.
ReadFeed(t) ==
  /\ export[t].pc = "series"
  /\ Go(t, "feed", [export[t] EXCEPT
        !.since = marked,
        !.changed = IF marked /\ feedHours # {} THEN Min(feedHours) ELSE NULL])
  /\ UNCHANGED <<archiveVars, feedVars, recorderVars, fulls, issue, synced, budget>>

\* The daily half: a daily write counts only for a day the series represents as
\* a bucket.
ReadDailyFeed(t) ==
  LET rec      == export[t]
      bucketed == Starts({p \in rec.points : p.kind = "day"})
      touched  == {d * DayLen : d \in feedDays} \cap bucketed
      all      == touched \cup ({rec.changed} \ {NULL})
  IN  /\ rec.pc = "feed"
      /\ Go(t, "fed", IF rec.since /\ all # {} THEN [rec EXCEPT !.changed = Min(all)]
                                              ELSE rec)
      /\ UNCHANGED <<archiveVars, feedVars, recorderVars, fulls, issue, synced, budget>>

\* Mutant: the row at s counts as before s.
SumUpTo(s) ==
  LET upTo == {t \in DOMAIN recorder : t <= s}
  IN  IF upTo = {} THEN 0 ELSE recorder[Max(upTo)]

\* Mutant: a rebuild starts from zero.
SumFromZero(s) == 0

SumBefore(s) ==
  LET below == {t \in DOMAIN recorder : t < s}
  IN  IF below = {} THEN 0 ELSE recorder[Max(below)]

ReadAnchor(t) ==
  LET newest == Max(DOMAIN recorder) IN
  /\ export[t].pc = "fed"
  /\ Go(t, "anchor",
        IF DOMAIN recorder = {} THEN export[t]
        ELSE [export[t] EXCEPT !.anchor = [start |-> newest, sum |-> recorder[newest]]])
  /\ UNCHANGED <<archiveVars, feedVars, recorderVars, fulls, issue, synced, budget>>

\* _sum_before, read when the recorder reaches into the series; then the plan.
ReadSumBefore(t) ==
  LET rec   == export[t]
      first == Min(Starts(rec.points))
      pre   == IF rec.anchor = NULL \/ rec.anchor.start < first
               THEN 0 ELSE SumBefore(first)
  IN  /\ rec.pc = "anchor"
      /\ Go(t, "planned", [Resting EXCEPT
            !.plan  = PlanSeries(rec.points, rec.anchor, pre, rec.changed, rec.oldest),
            !.stale = rec.stale])
      /\ UNCHANGED <<archiveVars, feedVars, recorderVars, fulls, issue, synced, budget>>

\* Full rebuilds in a row, this plan included; beyond the limit only the limit
\* matters.
FullsAfter(plan) ==
  IF plan.action = "full" THEN Min({fulls + 1, ThrashLimit}) ELSE 0

Thrashing(plan) == plan.action = "full" /\ FullsAfter(plan) >= ThrashLimit

Refused(plan) == plan.action = "halt" \/ Thrashing(plan)

Rewrites(plan) == plan.action \in {"full", "reimport"}

\* The plan refuses, or is the third full rebuild in a row.
Halt(t) ==
  /\ export[t].pc = "planned"
  /\ Refused(export[t].plan)
  /\ fulls' = IF export[t].plan.action = "halt" THEN fulls
              ELSE FullsAfter(export[t].plan)
  /\ export' = [export EXCEPT ![t] = Resting]
  /\ issue' = TRUE
  /\ UNCHANGED <<archiveVars, feedVars, recorderVars, synced, budget>>

\* Nothing to import: the watermark stays where it is.
UpToDate(t) ==
  /\ export[t].pc = "planned"
  /\ ~Refused(export[t].plan)
  /\ export[t].plan.rows = NoRows
  /\ fulls' = FullsAfter(export[t].plan)
  /\ export' = [export EXCEPT ![t] = Resting]
  /\ issue' = FALSE
  /\ synced' = IF export[t].stale THEN "no" ELSE "verified"
  /\ UNCHANGED <<archiveVars, feedVars, recorderVars, budget>>

\* _existing_starts: a rebuild or re-import first reads what the recorder holds
\* in the rewritten span.
ReadExisting(t) ==
  /\ export[t].pc = "planned"
  /\ ~Refused(export[t].plan) /\ Rewrites(export[t].plan)
  /\ export[t].plan.rows # NoRows
  /\ fulls' = FullsAfter(export[t].plan)
  /\ Go(t, "existing", [export[t] EXCEPT !.existing = DOMAIN recorder])
  /\ UNCHANGED <<archiveVars, feedVars, recorderVars, issue, synced, budget>>

Queue(t, rows) ==
  /\ queue' = Append(queue, rows)
  /\ Go(t, "queued", [Resting EXCEPT !.stale = export[t].stale])
  /\ UNCHANGED <<archiveVars, feedVars, recorder, issue, synced, budget>>

\* A new tail follows what the recorder holds.
QueueAppend(t) ==
  /\ export[t].pc = "planned"
  /\ export[t].plan.action = "append" /\ export[t].plan.rows # NoRows
  /\ fulls' = 0
  /\ Queue(t, export[t].plan.rows)

\* The span is rewritten, its strays zeroed.
QueueRewrite(t) ==
  /\ export[t].pc = "existing"
  /\ Queue(t, MergeStrayRows(export[t].plan.rows, export[t].existing))
  /\ UNCHANGED fulls

\* Mutant: the stamp is older than the writes the export has read.
SetOldWatermark(t) ==
  /\ export[t].pc = "queued"
  /\ marked' = TRUE
  /\ export' = [export EXCEPT ![t] = Resting]
  /\ issue' = FALSE
  /\ synced' = IF export[t].stale THEN "no" ELSE "exported"
  /\ UNCHANGED <<archiveVars, feedHours, feedDays, shelf, recorderVars, fulls, budget>>

\* set_exporter_state: everything stamped so far is behind the watermark.
SetWatermark(t) ==
  /\ export[t].pc = "queued"
  /\ marked' = TRUE
  /\ feedHours' = {}
  /\ feedDays' = {}
  /\ shelf' = {[page EXCEPT !.late = TRUE] : page \in shelf}
  /\ export' = [export EXCEPT ![t] = Resting]
  /\ issue' = FALSE
  /\ synced' = IF export[t].stale THEN "no" ELSE "exported"
  /\ UNCHANGED <<archiveVars, recorderVars, fulls, budget>>

-----------------------------------------------------------------------------

Init ==
  /\ hour = [h \in Hours |-> NULL]
  /\ day = [d \in DayIds |-> NULL]
  /\ oldestDay = FirstWindow
  /\ feedHours = {}
  /\ feedDays = {}
  /\ marked = FALSE
  /\ shelf = {}
  /\ recorder = PreRows
  /\ queue = <<>>
  /\ export = [t \in Tasks |-> Resting]
  /\ fulls = 0
  /\ issue = FALSE
  /\ synced = "no"
  /\ budget = [what \in Bounded |-> 0]

Export(t) ==
  \/ ReadHourly(t)
  \/ ReadDaily(t)
  \/ ReadFeed(t)
  \/ ReadDailyFeed(t)
  \/ ReadAnchor(t)
  \/ ReadSumBefore(t)
  \/ Halt(t)
  \/ UpToDate(t)
  \/ ReadExisting(t)
  \/ QueueAppend(t)
  \/ QueueRewrite(t)
  \/ SetWatermark(t)

Next ==
  \/ FetchGrid
  \/ FetchDaily
  \/ ParseError
  \/ Reparse
  \/ DayPasses
  \/ UserDeletes
  \/ UserAdjusts
  \/ Restart
  \/ RecorderApplies
  \/ \E t \in Tasks : Export(t)

Spec == Init /\ [][Next]_vars

\* A daily cycle keeps exporting and the recorder drains its queue.
FairSpec ==
  /\ Spec
  /\ WF_vars(RecorderApplies)
  /\ \A t \in Tasks : WF_vars(Export(t))

-----------------------------------------------------------------------------
(* Properties *)

\* The sums of the statistic never rewind and are never negative, whatever prefix
\* of the queued imports the recorder has applied ("a strictly non-negative,
\* monotonic cumulative series", exporter.py).
NoRewind ==
  /\ \A s \in DOMAIN recorder : recorder[s] \in Nat
  /\ \A s, t \in DOMAIN recorder : s < t => recorder[s] <= recorder[t]

\* The recorder holds the exact fold of every final point.
Folded ==
  LET prefix == FinalPrefix(Points, Oldest)
      rows   == Fold(prefix, SumBefore(Min(Starts(prefix))))
  IN  prefix # {} =>
        \A s \in DOMAIN rows : s \in DOMAIN recorder /\ recorder[s] = rows[s].sum

\* Once an export of the current archive has completed and the recorder has
\* caught up, the statistic is the deterministic fold of the archive.
ExactFold == synced # "no" /\ queue = <<>> => Folded

\* Once the disturbances stop, the daily exports settle: a later anchor check
\* finds nothing to do, or the repair issue is up.
Settles == <>[](Points # {} => synced = "verified" \/ issue)

\* A day that flipped from its bucket to its hours keeps no midnight row of the
\* bucket ("no stale midnight row can strand an old sum", README.md).
NoStaleMidnight ==
  LET prefix == FinalPrefix(Points, Oldest)
      rows   == Fold(prefix, SumBefore(Min(Starts(prefix))))
      flipped == {d * DayLen : d \in {x \in DayIds : day[x] # NULL}}
                   \cap {p.start : p \in {x \in prefix : x.kind = "hour"}}
  IN  synced # "no" /\ queue = <<>> =>
        \A s \in flipped \cap DOMAIN recorder : recorder[s] = rows[s].sum

\* No export halts: the archive never falls behind its own statistics and no
\* repair needs three rebuilds in a row.  That holds where every daily read has a
\* value: a plan of reads without any has no rows but is counted as a rebuild.
NeverHalts == ~issue
=============================================================================
