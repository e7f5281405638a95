----------------------------- MODULE PortalGrid -----------------------------
(***************************************************************************)
(* The interval page of the portal, which is not part of this repository:  *)
(* one table whose time rows are shared by all its day columns, newest day *)
(* first, a group of metric columns under every day.                       *)
(*                                                                         *)
(* How a day of another length is rendered has not been observed.  A style *)
(* is one of the renderings tests/test_parser_dst.py names, or a way to    *)
(* get it wrong.  A disturbed page differs from a clean one in one place.  *)
(*                                                                         *)
(* A cell holds NULL or says which usage it really is: of an instant, of   *)
(* one register.                                                           *)
(***************************************************************************)
EXTENDS Clock, Calendar, SequencesExt

CONSTANTS
  Width,    \* PORTAL_WINDOW_DAYS
  Lag,      \* PORTAL_LAG_DAYS: the newest column is today - Lag
  Layouts,  \* metric headers of one day, in the order of an account's page
  OddRows,  \* bound: the rows in which a page may be wrong
  NULL,     \* an empty cell
  Summary   \* the label of a "Total" row

ASSUME PortalAssumption ==
  /\ Width \in Nat \ {0} /\ Lag \in Nat \ {0}
  /\ Lag + Width - 1 < BackDays
  /\ OddRows \subseteq 1 .. DayLen - 1
  /\ NULL \notin Int /\ Summary \notin Int
Registers == {"delivered", "received"}
Usage     == [at : Int, of : Registers \cup {"other"}]
Cells     == Usage \cup {NULL}

ASSUME CellAssumption == NULL \notin Usage

\* The register whose usage the portal prints under a header.
Carries(header) ==
  CASE header \in {"kWh", "kWh Del", "kWh Delivered"} -> "delivered"
    [] header \in {"kWh Rcvd", "kWh Received"}        -> "received"
    [] OTHER                                          -> "other"

Oldest(today) == today - Lag - Width + 1
Newest(today) == today - Lag

\* The days on the page, newest first.
Shown(today) == [i \in 1 .. Width |-> Newest(today) - i + 1]

-----------------------------------------------------------------------------
(* Renderings of a day of another length *)

Repeated == [i \in 1 .. Shift |-> Change - Shift + i - 1]
Ordinary == [i \in 1 .. DayLen |-> i - 1]

\* The time labels of the rows.
Ladder(style) ==
  CASE style = "block"    -> SubSeq(Ordinary, 1, Change) \o Repeated
                               \o SubSeq(Ordinary, Change + 1, DayLen)
    [] style = "pairs"    -> SubSeq(Ordinary, 1, Change - Shift)
                               \o FlattenSeq([i \in 1 .. Shift |-> <<Repeated[i], Repeated[i]>>])
                               \o SubSeq(Ordinary, Change + 1, DayLen)
    [] style = "appended" -> Ordinary \o Repeated
    [] OTHER              -> Ordinary

\* The instant whose usage a day column shows in row i.  "late" prints the
\* second pass of a repeated hour only, "elapsed" counts slots from midnight.
ShownAt(style, d, i) ==
  LET labels == Ladder(style)
      pass   == IF style = "late" /\ slot_exists(d, labels[i], 1) THEN 1
                ELSE Cardinality({j \in 1 .. i - 1 : labels[j] = labels[i]})
  IN  IF style = "elapsed"
      THEN IF i <= day_length(d) THEN local_midnight_utc(d) + i - 1 ELSE NULL
      ELSE IF slot_exists(d, labels[i], pass) THEN localize(d, labels[i], pass) ELSE NULL

\* The styles a week can be rendered in.
Styles(days) ==
  IF FallDay \in days THEN {"block", "pairs", "appended", "single", "late"}
  ELSE IF SpringDay \in days THEN {"single", "elapsed"} ELSE {"single"}

\* A page in one of these styles tells all there is to know about its days.
Faithful(days) ==
  IF FallDay \in days THEN {"block", "pairs", "appended"} ELSE {"single"}

-----------------------------------------------------------------------------
(* Pages *)

Group(layout, at) ==
  [j \in 1 .. Len(layout) |-> IF at = NULL THEN NULL ELSE [at |-> at, of |-> Carries(layout[j])]]

\* The page of a day in a style and a layout.  above is the number of header
\* rows over the metric row: dates, weekdays, chart links.
CleanPage(today, style, layout) ==
  LET days   == Shown(today)
      labels == Ladder(style)
  IN  [above   |-> 3,
       columns |-> [i \in 1 .. Width |-> [label |-> Label(days[i]), weekday |-> Weekday(days[i])]],
       headers |-> FlattenSeq([i \in 1 .. Width |-> layout]),
       body    |-> [i \in 1 .. Len(labels) |->
                      [label |-> labels[i],
                       cells |-> FlattenSeq([k \in 1 .. Width |->
                                   Group(layout, ShownAt(style, days[k], i))])]]
                   \o <<[label |-> Summary, cells |-> <<>>]>>]

SwapAt(s, i, j) == [s EXCEPT ![i] = s[j], ![j] = s[i]]

\* Another header: fewer header rows, a wrong weekday, a day without its date,
\* a metric nobody knows, or the metrics of one day in another order.
OtherHeader(page, stride) ==
  {[page EXCEPT !.above = n] : n \in 0 .. 1}
  \cup {[page EXCEPT !.columns[i].weekday = (page.columns[i].weekday + 1) % 7] : i \in 1 .. Width}
  \cup {[page EXCEPT !.columns[i].label = NULL] : i \in 1 .. Width}
  \cup {[page EXCEPT !.headers[i] = "$ Cost"] : i \in {1, stride}}
  \cup {[page EXCEPT !.headers = SwapAt(page.headers, 1, stride)]}

\* Other rows: one lost its label or its last cell, one comes twice, two
\* neighbours traded their labels.
OtherRows(page) ==
  {[page EXCEPT !.body[i].label = Summary] : i \in OddRows}
  \cup {[page EXCEPT !.body[1].cells = Front(page.body[1].cells)]}
  \cup {[page EXCEPT !.body = InsertAt(page.body, i, page.body[i])] : i \in OddRows}
  \cup {[page EXCEPT !.body[i].label = page.body[i + 1].label,
                     !.body[i + 1].label = page.body[i].label] : i \in OddRows}

\* Other values: the first row, or the whole newest day, is still empty.
OtherValues(page, stride) ==
  LET Empty(row, cells) ==
        [row EXCEPT !.cells = [j \in 1 .. Len(row.cells) |->
                                 IF j \in cells THEN NULL ELSE row.cells[j]]]
  IN  {[page EXCEPT !.body[1] = Empty(page.body[1], 1 .. Width * stride)],
       [page EXCEPT !.body = [i \in 1 .. Len(page.body) |-> Empty(page.body[i], 1 .. stride)]]}

Disturbed(page, stride) ==
  OtherHeader(page, stride) \cup OtherRows(page) \cup OtherValues(page, stride)

\* The usage a page displays.
Displayed(page) ==
  {c \in UNION {ToSet(page.body[i].cells) : i \in 1 .. Len(page.body)} :
     c # NULL /\ c.of \in Registers}
=============================================================================
