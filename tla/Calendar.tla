------------------------------ MODULE Calendar ------------------------------
(***************************************************************************)
(* The year of a column that is labelled MM/DD (timeutil.py, infer_year).  *)
(*                                                                         *)
(* Days are numbered through the years.  A label stands for one MM/DD, by  *)
(* its position in a leap year; only LeapLabel (02/29) is missing in the   *)
(* other years.  The weekday of a day is its number modulo 7.              *)
(***************************************************************************)
EXTENDS Integers, FiniteSets

CONSTANTS
  Years,        \* the years of the instance, an interval
  YearStart,    \* first day of a year
  Leap,         \* the leap years
  Labels,       \* MM/DDs of a leap year
  LeapLabel,    \* 02/29
  BackDays,     \* the window around the reference date
  ForwardDays,
  NoWeekday,    \* the table has no weekday row, or a blank cell in it
  Refused       \* DataError

YearLen(y) == IF y \in Leap THEN Labels ELSE Labels - 1

ASSUME CalendarAssumption ==
  /\ Years \subseteq Int /\ Leap \subseteq Years
  /\ YearStart \in [Years -> Int]
  /\ \A y, z \in Years : y < z => YearStart[y] + YearLen(y) <= YearStart[z]
  /\ \A y \in Years : y + 1 \in Years => YearStart[y + 1] = YearStart[y] + YearLen(y)
  /\ Labels \in Nat /\ LeapLabel \in 1 .. Labels
  /\ BackDays \in Nat /\ ForwardDays \in Nat
  /\ BackDays + ForwardDays < Labels - 1
  /\ NoWeekday \notin Int /\ Refused \notin Int

-----------------------------------------------------------------------------
(* datetime.date *)

HasDate(y, l) == l \in 1 .. Labels /\ (l = LeapLabel => y \in Leap)

Date(y, l) ==
  YearStart[y] + l - 1 - (IF y \notin Leap /\ l > LeapLabel THEN 1 ELSE 0)

InYear(d, y) == YearStart[y] <= d /\ d < YearStart[y] + YearLen(y)

Known(d) == \E y \in Years : InYear(d, y)

YearOf(d) == CHOOSE y \in Years : InYear(d, y)

Label(d) ==
  LET y == YearOf(d)
      n == d - YearStart[y] + 1
  IN  IF y \notin Leap /\ n >= LeapLabel THEN n + 1 ELSE n

Weekday(d) == d % 7

-----------------------------------------------------------------------------
(* infer_year *)

Window(reference) == reference - BackDays .. reference + ForwardDays

CandidateYears(reference) ==
  {YearOf(d) : d \in {reference - BackDays, reference, reference + ForwardDays}}

\* Mutant: the year of the reference date.
SameYear(label, reference) ==
  {Date(y, label) : y \in {z \in {YearOf(reference)} : HasDate(z, label)}}

Candidates(label, reference) ==
  {Date(y, label) : y \in {z \in CandidateYears(reference) : HasDate(z, label)}}
     \cap Window(reference)

\* One candidate, and the weekday row agrees with it.
infer_year(label, weekday, reference) ==
  LET fits == Candidates(label, reference)
  IN  IF \E d \in fits : fits = {d} /\ weekday \in {NoWeekday, Weekday(d)}
      THEN CHOOSE d \in fits : TRUE
      ELSE Refused
=============================================================================
