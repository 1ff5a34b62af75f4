---------------------------- MODULE MCReviewQueue ----------------------------
(***************************************************************************)
(* The instance of ReviewQueue with a single entry, two executions and     *)
(* every edit of the users.  Both executions are automatic: a manual one   *)
(* differs only in that its failures cause no delay, which is a delay that *)
(* ends at once.  So the two may be exchanged.  MCIntake has two entries   *)
(* and two requests.  All values are in the cfg files.                     *)
(***************************************************************************)
EXTENDS ReviewQueue, TLC

Exchange == Permutations(Workers)
=============================================================================
