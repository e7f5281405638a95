----------------------------- MODULE MCScheduler -----------------------------
(***************************************************************************)
(* The deployed schedule: retries after 60 and 180 minutes.                *)
(***************************************************************************)
EXTENDS Scheduler

MCRetryDelays == <<1, 3>>

Mapped == {"new", "none", "failed", "auth"}
Any    == Mapped \cup {"unexpected"}
=============================================================================
