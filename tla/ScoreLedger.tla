---------------------------- MODULE ScoreLedger ----------------------------
(***************************************************************************)
(* What the arXiv plugin promises about scores and digests, without jobs,  *)
(* days, thresholds, runs or arXiv.  Papers arrive, new or revised, and    *)
(* have no score then.  A digest is published with the scores of all the   *)
(* papers it shows, in one step: those that had a score keep it.  A score  *)
(* and a digest go only with the paper, or with a paper that is shown.     *)
(***************************************************************************)
EXTENDS Naturals

CONSTANT Papers

VARIABLES
    stored,   \* the papers
    score,    \* the score of a paper: the text it is of, or 0
    digests   \* the digests, each by the papers it shows

ledgerVars == <<stored, score, digests>>

LedgerInit ==
    /\ stored = {} /\ digests = {}
    /\ score = [p \in Papers |-> 0]

Arrive(S) ==
    /\ stored' = stored \cup S
    /\ score' = [p \in Papers |-> IF p \in S THEN 0 ELSE score[p]]
    /\ UNCHANGED digests

Publish(S) ==
    /\ S # {} /\ S \subseteq stored
    /\ digests' = digests \cup {S}
    /\ \A p \in S : score'[p] # 0
    /\ \A p \in Papers : score[p] # 0 \/ p \notin S => score'[p] = score[p]
    /\ UNCHANGED stored

Delete(S) ==
    /\ stored' = stored \ S
    /\ score' = [p \in Papers |-> IF p \in S THEN 0 ELSE score[p]]
    /\ digests' = {shows \in digests : shows \cap S = {}}

LedgerNext == \E S \in SUBSET Papers : Arrive(S) \/ Publish(S) \/ Delete(S)

LedgerSpec == LedgerInit /\ [][LedgerNext]_ledgerVars
=============================================================================
