-------------------------------- MODULE Grid --------------------------------
(***************************************************************************)
(* The interval grid from the page to the gap report: parse_interval_grid  *)
(* (parser.py), Pipeline.fetch_intervals (service.py), store_intervals and *)
(* gaps (archive.py).                                                      *)
(*                                                                         *)
(* The page is read by its headers: the year of a column and the meaning   *)
(* of a cell are inferred, and a page that does not fit is refused whole.  *)
(* In a week with a clock change the row checks only leave an anomaly,     *)
(* because that week's layout has not been seen yet.                       *)
(***************************************************************************)
EXTENDS PortalGrid

CONSTANTS
  FirstDay,   \* the day the model starts
  LastDay,    \* bound: the day it ends
  MaxFetches  \* bound: pages fetched

\* A reading: its interval, and the usage it has for either register.
Parsed == [exists : BOOLEAN, start : Int, delivered : Cells, received : Cells]

ASSUME GridAssumption ==
  /\ FirstDay \in Int /\ LastDay \in Int /\ FirstDay <= LastDay /\ MaxFetches \in Nat
  /\ \A d \in FirstDay - BackDays .. LastDay + 1 + ForwardDays : Known(d)
  /\ Refused \notin [readings : Seq(Parsed), anomaly : BOOLEAN]

VARIABLES
  layout,   \* the metrics of the account's page
  today,    \* the Eastern date
  rows,     \* interval_readings: the registers of each instant that has a row
  fetched,  \* pages fetched
  last,     \* the last page of today: was it clean, and what came of it
  doubtful, \* history: what was last written from a page with an anomaly
  displayed \* history: usage on the pages that were accepted without one

vars == <<layout, today, rows, fetched, last, doubtful, displayed>>

-----------------------------------------------------------------------------
(* parser.py *)

\* The elements of a sequence that are in T, in their order.
Kept(s, T) ==
  FoldLeft(LAMBDA kept, e : IF e \in T THEN Append(kept, e) ELSE kept, <<>>, s)

\* The header vocabulary, in the spelling of either table.
canonical_metric(text) ==
  CASE text = "degF"                        -> "temperature_f"
    [] text = "kWh"                         -> "kwh"
    [] text \in {"kWh Del", "kWh Delivered"}  -> "kwh_delivered"
    [] text \in {"kWh Rcvd", "kWh Received"}  -> "kwh_received"
    [] text = "kW"                          -> "kw"
    [] OTHER                                -> "unknown"

\* A day has one column of each metric, all of them known, usage among them.
ASSUME LayoutAssumption ==
  \A metrics \in Layouts :
    /\ metrics \in Seq(STRING)
    /\ \A i, j \in 1 .. Len(metrics) :
         i # j => canonical_metric(metrics[i]) # canonical_metric(metrics[j])
    /\ \A i \in 1 .. Len(metrics) : canonical_metric(metrics[i]) # "unknown"
    /\ \E i \in 1 .. Len(metrics) : canonical_metric(metrics[i]) \in {"kwh", "kwh_delivered"}

\* The date of every column that has one; the weekday row is read only when
\* there are two rows above the metrics.
Dates(page, reference) ==
  LET dated == Kept(page.columns, {c \in ToSet(page.columns) : c.label # NULL})
  IN  [i \in 1 .. Len(dated) |->
         infer_year(dated[i].label,
                    IF page.above >= 2 THEN dated[i].weekday ELSE NoWeekday, reference)]

\* The metric groups of n day columns.
Groups(page, n) ==
  LET stride == Len(page.headers) \div n
  IN  [i \in 1 .. n |->
         [j \in 1 .. stride |-> canonical_metric(page.headers[(i - 1) * stride + j])]]

\* Mutant: the groups of the columns are not compared.
HeaderFitsFirst(page, dates) ==
  /\ page.above >= 1
  /\ dates # <<>> /\ Refused \notin ToSet(dates)
  /\ Len(page.headers) % Len(dates) = 0 /\ Len(page.headers) > 0
  /\ LET metrics == Groups(page, Len(dates))[1]
     IN  /\ "unknown" \notin ToSet(metrics)
         /\ {"kwh_delivered", "kwh"} \cap ToSet(metrics) # {}

\* The metric row needs a date row above it; every column has the same known
\* metrics, usage among them.
HeaderFits(page, dates) ==
  /\ page.above >= 1
  /\ dates # <<>> /\ Refused \notin ToSet(dates)
  /\ Len(page.headers) % Len(dates) = 0 /\ Len(page.headers) > 0
  /\ \E metrics \in ToSet(Groups(page, Len(dates))) :
       /\ ToSet(Groups(page, Len(dates))) = {metrics}
       /\ "unknown" \notin ToSet(metrics)
       /\ {"kwh_delivered", "kwh"} \cap ToSet(metrics) # {}

\* Rows whose first cell is a time; "Total" and "Average" rows are left out.
DataRows(page) == Kept(page.body, {row \in ToSet(page.body) : row.label # Summary})

Backward(body) == {i \in 1 .. Len(body) - 1 : body[i + 1].label < body[i].label}

CountIsOff(body, dates) ==
  Len(body) # Max({day_length(d) : d \in ToSet(dates)})

RowsFit(body, dates, width) ==
  LET dst == has_dst_transition(ToSet(dates))
  IN  /\ body # <<>>
      /\ CountIsOff(body, dates) => dst
      /\ Backward(body) # {} => dst /\ Cardinality(Backward(body)) = 1
      /\ \A i \in DOMAIN body : Len(body[i].cells) >= width

\* The cell of a metric in the k-th day's group; of two equal headers the later
\* one.
Value(cells, metrics, k, metric) ==
  LET at == {j \in DOMAIN metrics : metrics[j] = metric}
  IN  IF at = {} THEN NULL ELSE cells[(k - 1) * Len(metrics) + Max(at)]

\* Earlier rows with the same label: the second pass of a repeated hour.
Occurrence(body, i) == Cardinality({j \in 1 .. i - 1 : body[j].label = body[i].label})

\* What a row says of the k-th day.
ReadRow(row, pass, metrics, d, k) ==
  LET delivered == Value(row.cells, metrics, k, "kwh_delivered")
  IN  [exists    |-> slot_exists(d, row.label, pass),
       start     |-> localize(d, row.label, pass),
       delivered |-> IF delivered # NULL THEN delivered
                     ELSE Value(row.cells, metrics, k, "kwh"),
       received  |-> Value(row.cells, metrics, k, "kwh_received")]

\* Every row of every day, in the order of the loops.
ReadRows(body, metrics, dates) ==
  FlattenSeq([k \in 1 .. Len(dates) |->
    [i \in 1 .. Len(body) |-> ReadRow(body[i], Occurrence(body, i), metrics, dates[k], k)]])

\* A slot the day does not have, with usage in it.
Ghost(r) == ~r.exists /\ (r.delivered # NULL \/ r.received # NULL)

\* The readings and whether the signature carries an anomaly, or Refused.
parse_interval_grid(page, reference) ==
  LET dates   == Dates(page, reference)
      body    == DataRows(page)
      metrics == Groups(page, Len(dates))[1]
      cells   == ReadRows(body, metrics, dates)
  IN  IF ~HeaderFits(page, dates) \/ ~RowsFit(body, dates, Len(dates) * Len(metrics))
      THEN Refused
      ELSE [readings |-> Kept(cells, {r \in ToSet(cells) : r.exists}),
            anomaly  |-> \/ CountIsOff(body, dates)
                         \/ Backward(body) # {}
                         \/ \E i \in DOMAIN cells : Ghost(cells[i])]

-----------------------------------------------------------------------------
(* archive.py *)

Values(r) == [delivered |-> r.delivered, received |-> r.received]

\* Mutant: a row that is there is left alone.
UpsertOnce(stored, r) ==
  [u \in DOMAIN stored \cup {r.start} |->
     IF u \in DOMAIN stored THEN stored[u] ELSE Values(r)]

\* A row is inserted with the values it has, empty ones too; later an empty
\* cell leaves the value alone.
Merged(stored, r, f) ==
  IF Values(r)[f] = NULL /\ r.start \in DOMAIN stored THEN stored[r.start][f] ELSE Values(r)[f]

Upsert(stored, r) ==
  [u \in DOMAIN stored \cup {r.start} |->
     IF u = r.start THEN [f \in Registers |-> Merged(stored, r, f)] ELSE stored[u]]

store_intervals(stored, readings) == FoldLeft(Upsert, stored, readings)

\* The days of the gap report: from the first archived one to the newest the
\* portal can have published.
ReportDays ==
  IF DOMAIN rows = {} THEN {} ELSE DayAt(Min(DOMAIN rows)) .. today - Lag

\* Mutant: the oldest day of the window counts as gone.
recoverable_late(d) == d > today - (Lag + Width - 1)

recoverable(d) == d >= today - (Lag + Width - 1)

\* The slots of a day without a row.
missing_labels(d) ==
  {s \in day_slots(d) : localize(d, s[1], s[2]) \notin DOMAIN rows}

-----------------------------------------------------------------------------
(* Actions *)

\* What the readings put a value in.
Filled(readings) ==
  UNION {{<<readings[i].start, f>> : f \in {g \in Registers : Values(readings[i])[g] # NULL}} :
           i \in DOMAIN readings}

\* A page arrives and is parsed; the date may turn in between.  A page that is
\* refused changes no reading.
Fetch(page, clean, reference) ==
  LET grid == parse_interval_grid(page, reference)
  IN  /\ fetched < MaxFetches
      /\ fetched' = fetched + 1
      /\ last' = [clean |-> clean, read |-> IF grid = Refused THEN "refused" ELSE "ok"]
      /\ IF grid = Refused
         THEN UNCHANGED <<rows, doubtful, displayed>>
         ELSE /\ rows' = store_intervals(rows, grid.readings)
              /\ IF grid.anomaly
                 THEN /\ doubtful' = doubtful \cup Filled(grid.readings)
                      /\ UNCHANGED displayed
                 ELSE /\ doubtful' = doubtful \ Filled(grid.readings)
                      /\ displayed' = displayed \cup Displayed(page)
      /\ UNCHANGED <<layout, today>>

FetchClean ==
  \E style \in Faithful(ToSet(Shown(today))), late \in {0, 1} :
    Fetch(CleanPage(today, style, layout), TRUE, today + late)

FetchOdd ==
  \E style \in Styles(ToSet(Shown(today))) :
    LET page == CleanPage(today, style, layout)
    IN  \E odd \in {page} \cup Disturbed(page, Len(layout)) : Fetch(odd, FALSE, today)

DayPasses ==
  /\ today < LastDay
  /\ today' = today + 1
  /\ last' = [clean |-> FALSE, read |-> "none"]
  /\ UNCHANGED <<layout, rows, fetched, doubtful, displayed>>

Init ==
  /\ layout \in Layouts
  /\ today = FirstDay
  /\ rows = [u \in {} |-> NULL]
  /\ fetched = 0
  /\ last = [clean |-> FALSE, read |-> "none"]
  /\ doubtful = {}
  /\ displayed = {}

Next ==
  \/ FetchClean
  \/ FetchOdd
  \/ DayPasses

Spec == Init /\ [][Next]_vars

-----------------------------------------------------------------------------
(* Properties *)

\* The intervals a day of the report lists as missing.
Missing(d) == {localize(d, s[1], s[2]) : s \in missing_labels(d)}

Fetchable == UNION {Missing(d) : d \in {e \in ReportDays : recoverable(e)}}
Gone      == UNION {Missing(d) : d \in {e \in ReportDays : ~recoverable(e)}}

\* A value stands at its own instant and under its own register, unless the
\* page that wrote it left an anomaly in its signature: "produced silently wrong
\* numbers" is what the parser is built against (parser.py).  Year, stride,
\* fold and metric order are all inferred, so one wrong inference moves a week.
NothingMovedSilently ==
  \A u \in DOMAIN rows, f \in Registers :
    rows[u][f] \in {NULL, [at |-> u, of |-> f]} \/ <<u, f>> \in doubtful

\* Usage displayed on a page that was accepted without an anomaly is archived.
NothingLostSilently ==
  \A c \in displayed : c.at \in DOMAIN rows /\ rows[c.at][c.of] # NULL

\* The report lists exactly the intervals of its days that have no row, each
\* once, across both clock changes: "the `gaps` report says exactly which
\* intervals are still fetchable and which are gone" (README.md).  The labels it
\* walks and the keys of the rows are computed apart.
GapsExact ==
  \A d \in ReportDays :
    /\ Missing(d) = Instants(d) \ DOMAIN rows
    /\ Cardinality(missing_labels(d)) = Cardinality(Missing(d))

\* A clean page is accepted whatever the week, and nothing the report calls
\* recoverable is left after it: "Missing a day is recoverable for about a
\* week" (README.md).
CleanFetchFills ==
  last.clean => last.read = "ok" /\ Fetchable = {}

\* What the report calls permanently missing never arrives.
GoneIsGone ==
  [][Gone \cap DOMAIN rows' = {}]_vars
=============================================================================
