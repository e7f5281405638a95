------------------------------- MODULE Series -------------------------------
(***************************************************************************)
(* The pure planner of series.py: which statistics rows to import, given   *)
(* what the archive holds and what the recorder holds.  Times are whole    *)
(* hours; a point is an hour or a day bucket, and no two points share a    *)
(* start.  The rows of a plan are a function from starts to rows.          *)
(***************************************************************************)
EXTENDS Integers, FiniteSetsExt

CONSTANT NULL  \* no value, no anchor, no change

-----------------------------------------------------------------------------
(* Points *)

HourPoint(b, oldest) ==
  [kind |-> "hour", start |-> b.start, end |-> b.start + 1, val |-> b.val,
   final |-> b.complete \/ b.start < oldest]

DayPoint(b) ==
  [kind |-> "day", start |-> b.start, end |-> b.end, val |-> b.val,
   final |-> TRUE]

\* A day is represented by its bucket only when it is wholly older than the
\* portal window and has no archived hour.
Eligible(b, hourly, oldest) ==
  /\ b.end <= oldest
  /\ \A h \in hourly : ~(b.start <= h.start /\ h.start < b.end)

BuildPoints(hourly, daily, oldest) ==
  {HourPoint(b, oldest) : b \in hourly}
    \cup {DayPoint(b) : b \in {x \in daily : Eligible(x, hourly, oldest)}}

-----------------------------------------------------------------------------
(* The final prefix *)

Earlier(points, p) == {q \in points : q.start < p.start}

\* The end of the point before p; p's own start when p is the first.
PreviousEnd(points, p) ==
  IF Earlier(points, p) = {} THEN p.start
  ELSE (CHOOSE q \in Earlier(points, p) :
          \A x \in Earlier(points, p) : x.start <= q.start).end

\* A hole that begins inside the window stops the prefix; so does a point
\* that may still change.
Blocks(points, p, oldest) ==
  \/ ~p.final
  \/ /\ p.start > PreviousEnd(points, p)
     /\ PreviousEnd(points, p) >= oldest

FinalPrefix(points, oldest) ==
  {p \in points :
     \A q \in points : q.start <= p.start => ~Blocks(points, q, oldest)}

-----------------------------------------------------------------------------
(* Folding into cumulative sums *)

State(p) == IF p.val = NULL THEN 0 ELSE p.val

\* A day bucket without a value emits no row.
EmitsRow(p) == ~(p.kind = "day" /\ p.val = NULL)

Starts(points) == {p.start : p \in points}

Fold(points, base) ==
  LET PointAt(s) == CHOOSE p \in points : p.start = s
  IN  [s \in Starts({p \in points : EmitsRow(p)}) |->
         [state |-> State(PointAt(s)),
          sum   |-> base + MapThenSumSet(State, {p \in points : p.start <= s})]]

\* The rows of a plan from start s on.
From(rows, s) == [t \in {x \in DOMAIN rows : x >= s} |-> rows[t]]

\* Every start the recorder holds inside the rewritten span that the plan no
\* longer produces becomes a zero row carrying the running sum.
MergeStrayRows(rows, existing) ==
  IF DOMAIN rows = {} THEN rows
  ELSE LET strays == {s \in existing \ DOMAIN rows :
                        Min(DOMAIN rows) <= s /\ s <= Max(DOMAIN rows)}
           Running(s) == rows[Max({t \in DOMAIN rows : t < s})].sum
       IN  [s \in DOMAIN rows \cup strays |->
              IF s \in strays THEN [state |-> 0, sum |-> Running(s)] ELSE rows[s]]

-----------------------------------------------------------------------------
(* The decision table *)

NoRows == [s \in {} |-> [state |-> 0, sum |-> 0]]

Plan(action, rows) == [action |-> action, rows |-> rows]

\* anchor is the recorder's newest row; pre its sum before the first point;
\* changed the earliest start written since the last export.
PlanSeries(points, anchor, pre, changed, oldest) ==
  LET prefix == FinalPrefix(points, oldest)
      first  == Min(Starts(prefix))
      last   == Max(Starts(prefix))
      all    == Fold(prefix, pre)
      new    == From(all, anchor.start + 1)
  IN  IF prefix = {} THEN Plan("none", NoRows)
      ELSE IF anchor = NULL THEN Plan("full", all)
      ELSE IF anchor.start > last THEN Plan("halt", NoRows)
      ELSE IF anchor.start < first THEN Plan("append", Fold(prefix, anchor.sum))
      ELSE IF anchor.start \notin DOMAIN all THEN Plan("full", all)
      ELSE IF changed # NULL /\ changed <= anchor.start
           THEN Plan("reimport", From(all, changed))
      ELSE IF all[anchor.start].sum # anchor.sum THEN Plan("full", all)
      ELSE Plan(IF new = NoRows THEN "none" ELSE "append", new)
=============================================================================
