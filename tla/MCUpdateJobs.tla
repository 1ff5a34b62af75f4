---------------------------- MODULE MCUpdateJobs ----------------------------
(***************************************************************************)
(* Instances of UpdateJobs for TLC.  The leases keep the order they have   *)
(* in the code: 120 minutes, 180 for an update of summaries, and a longer  *)
(* reservation for the arXiv digest.                                       *)
(***************************************************************************)
EXTENDS UpdateJobs

\* In ticks of an hour, and of the shortest lease.
HourTTL == [n \in LockNames |-> IF n = "summary-update" THEN 3 ELSE 2]
LeaseTTL == [n \in LockNames |-> IF n = "summary-update" THEN 2 ELSE 1]

\* The page's stop button names every lease; a script may name one.
AllNames == {"feed-refresh", "llm-summary", "summary-update"}
PageCancels == {AllNames}
ScriptCancels == {AllNames, {"feed-refresh"}, {"llm-summary"}}
=============================================================================
