---------------------------- MODULE ArxivDigest ----------------------------
(***************************************************************************)
(* The arXiv plugin (distillfeed_arxiv): papers are retrieved from the     *)
(* daily announcement (RSS) and from the listing of submissions (API),     *)
(* screened by a local score, ranked by the AI provider and published as   *)
(* one digest per announcement day.                                        *)
(*                                                                         *)
(* Actors: one job at a time, a retrieval ("refresh") or a digest update   *)
(* ("summary"): they exclude each other by the leases of UpdateJobs; pages *)
(* and settings, which run beside a job; a process that may end; arXiv.    *)
(* The text of a paper is the number of its version.                       *)
(***************************************************************************)
EXTENDS Naturals, FiniteSets

CONSTANTS
    Papers, Categories,
    CategoryOf,       \* the configured category a paper is filed under
    Scopes,           \* the categories requests are about: all, or one feed's
    Score,            \* the local score of a paper
    Thresholds,       \* the values of "Minimum local score sent to the LLM"
    LastDay,          \* announcement days are 1..LastDay
    Versions,         \* bound: the versions of a paper
    MaxDisturbances   \* bound: stops, crashes, deletions, changed settings

ASSUME DigestAssumption ==
    /\ CategoryOf \in [Papers -> Categories] /\ Scopes \subseteq SUBSET Categories
    /\ Score \in [Papers -> Nat] /\ Thresholds \subseteq Nat
    /\ LastDay \in Nat /\ Versions \in [Papers -> Nat \ {0}]
    /\ MaxDisturbances \in Nat

VARIABLES
    \* the rows of the papers
    status, version, text, day, scored,
    blind,            \* history: versions could not be compared on an update
    \* digests that were published, each by the papers it shows
    digests,
    withdrawn,        \* history: papers that lost a digest to a deletion
    degradedFlag,     \* pending_retrieval_degraded
    run,              \* the last row of llm_runs: at work, or with an outcome
    threshold,
    \* the job: its position, its categories, the threshold it read, whether
    \* some of the retrieval failed; the papers to rank, those it found ranked,
    \* the days to do and the day it is at
    pc, scope, minimum, degraded, plan, ranked, days, today, answer,
    disturbed,        \* history: papers were deleted since the job began
    disturbances

rows == <<status, version, text, day, scored, blind>>
job == <<pc, scope, minimum, degraded, plan, ranked, days, today, answer,
         disturbed>>
shown == <<digests, withdrawn>>
vars == <<rows, shown, degradedFlag, run, threshold, job,
          disturbances>>

\* Texts sort "2026-..." before "undated": papers of no known day come last.
Undated == LastDay + 1
AllDays == 1..Undated

NotFetched == [version |-> 0, text |-> 0, day |-> Undated]
Stored(p) == status[p] # "absent"

\* compute_local_score and the threshold of the settings.
Eligible(p, least) == Score[p] >= least

RowsType ==
    /\ status \in [Papers -> {"absent", "pending", "screened", "complete"}]
    /\ version \in [Papers -> Nat] /\ text \in [Papers -> Nat]
    /\ day \in [Papers -> AllDays] /\ scored \in [Papers -> Nat]
    /\ blind \in [Papers -> BOOLEAN]

StateType ==
    /\ digests \in SUBSET (SUBSET Papers)
    /\ withdrawn \in SUBSET Papers
    /\ degradedFlag \in BOOLEAN
    /\ run \in {"closed", "running"}
    /\ threshold \in Thresholds
    /\ disturbances \in 0..MaxDisturbances

JobType ==
    /\ pc \in {"idle", "fetch", "screen", "plan", "days", "rank", "compose",
               "publish"}
    /\ scope \in SUBSET Categories /\ minimum \in Nat
    /\ degraded \in BOOLEAN
    /\ plan \in SUBSET Papers /\ ranked \in SUBSET Papers
    /\ days \in SUBSET AllDays /\ today \in AllDays
    /\ answer \in {"none", "waiting", "checked", "success", "partial",
                   "unchanged", "blocked", "cancelled", "failed"}
    /\ disturbed \in BOOLEAN

TypeOK == RowsType /\ StateType /\ JobType

Init ==
    /\ status = [p \in Papers |-> "absent"]
    /\ version = [p \in Papers |-> 0] /\ text = [p \in Papers |-> 0]
    /\ day = [p \in Papers |-> Undated] /\ scored = [p \in Papers |-> 0]
    /\ blind = [p \in Papers |-> FALSE]
    /\ digests = {} /\ withdrawn = {} /\ degradedFlag = FALSE /\ run = "closed"
    /\ threshold \in Thresholds
    /\ pc = "idle" /\ scope = {} /\ minimum = 0
    /\ degraded = FALSE /\ plan = {} /\ ranked = {}
    /\ days = {} /\ today = Undated /\ answer = "none" /\ disturbed = FALSE
    /\ disturbances = 0

-----------------------------------------------------------------------------
(* Pages and settings, beside a job *)

\* _requeue_ai_eligible_without_score: a paper that was screened out waits
\* again if the threshold of today lets it pass.
Requeued == [p \in Papers |-> IF status[p] = "screened" /\ scored[p] = 0
                                   /\ Eligible(p, threshold)
                              THEN "pending" ELSE status[p]]

\* Every page initialises the plugin (decorate_page).
View ==
    /\ Requeued # status
    /\ status' = Requeued
    /\ UNCHANGED <<version, text, day, scored, blind, shown,
                   degradedFlag, run, threshold, job, disturbances>>

Disturb == /\ disturbances < MaxDisturbances
           /\ disturbances' = disturbances + 1

SaveThreshold(t) ==
    /\ Disturb /\ t # threshold
    /\ threshold' = t
    /\ UNCHANGED <<rows, shown, degradedFlag, run, job>>

\* A feed, or the group of all of them, is deleted with its papers, and so is
\* every digest that shows one of them (delete_feed).  The text stays what
\* arXiv has of the paper, and the day what a job at work has read.
Delete(cats) ==
    LET gone == {p \in Papers : CategoryOf[p] \in cats /\ Stored(p)}
        kept == {shows \in digests : shows \cap gone = {}}
    IN  /\ Disturb /\ gone # {}
        /\ status' = [p \in Papers |-> IF p \in gone THEN "absent"
                                       ELSE status[p]]
        /\ version' = [p \in Papers |-> IF p \in gone THEN 0 ELSE version[p]]
        /\ day' = [p \in Papers |->
              IF p \in gone \ (plan \cup ranked) THEN Undated ELSE day[p]]
        /\ scored' = [p \in Papers |-> IF p \in gone THEN 0 ELSE scored[p]]
        /\ blind' = [p \in Papers |-> p \notin gone /\ blind[p]]
        /\ digests' = kept
        /\ withdrawn' = (withdrawn \cup UNION (digests \ kept)) \ gone
        /\ disturbed' = TRUE
        /\ UNCHANGED <<text, degradedFlag, run, threshold, pc, scope, minimum,
                        degraded, plan, ranked, days, today, answer>>

-----------------------------------------------------------------------------
(* The parts of a job *)

\* The job is over.  What it had read is forgotten.
Ends(a) ==
    /\ pc' = "idle" /\ answer' = a
    /\ scope' = {} /\ minimum' = 0
    /\ degraded' = FALSE /\ plan' = {} /\ ranked' = {}
    /\ days' = {} /\ today' = Undated
    /\ UNCHANGED disturbed

\* Papers of the scope with a ranking, and the days that have a digest of
\* their own: one that shows papers of no other day.
Ranked(cats) == {p \in Papers : status[p] = "complete" /\ scored[p] # 0
                                  /\ CategoryOf[p] \in cats}

Dedicated(cats) ==
    {d \in 1..LastDay :
       \E shows \in digests :
          LET seen == {p \in shows : CategoryOf[p] \in cats}
          IN  seen # {} /\ \A p \in seen : day[p] = d}

\* _missing_daily_digest_days.  Mutant: no day is missing.
MissingNone(cats) == {}
Missing(cats) ==
    {day[p] : p \in Ranked(cats)} \ (Dedicated(cats) \cup {Undated})

\* The first part of _evaluate_pending: pending papers are screened by the
\* threshold the job began with, and the days that need work are collected.
Waiting(cats) == {p \in Papers : status[p] = "pending" /\ CategoryOf[p] \in cats}
Screened(cats, least) ==
    [p \in Papers |-> IF p \in Waiting(cats) /\ ~Eligible(p, least)
                      THEN "screened" ELSE status[p]]
\* Mutant: only the days without a digest are work.
WorkDaysMissing(cats, least) == Missing(cats)
WorkDays(cats, least) ==
    {day[p] : p \in {q \in Waiting(cats) : Eligible(q, least)}}
        \cup Missing(cats)

-----------------------------------------------------------------------------
(* A retrieval *)

\* The scope is every category, or that of one feed.
BeginRefresh(cats) ==
    /\ pc = "idle"
    /\ pc' = "fetch" /\ scope' = cats /\ minimum' = threshold
    /\ status' = Requeued /\ answer' = "none" /\ disturbed' = FALSE
    /\ UNCHANGED <<version, text, day, scored, blind, shown,
                   degradedFlag, run, threshold, degraded, plan,
                   ranked, days, today, disturbances>>

\* What arXiv has of some papers: the texts that are stored, or later ones.
Now(p) == {v \in 1..Versions[p] : text[p] <= v /\ v <= text[p] + 1}
Texts(papers) == {now \in [papers -> UNION {Now(p) : p \in papers}] :
                    \A p \in papers : now[p] \in Now(p)}

\* An announcement lists papers under its date, with the version in their
\* links or without it.
Announced(listed, now, versioned, date) ==
    [p \in Papers |-> IF p \notin listed THEN NotFetched
                      ELSE [version |-> IF versioned THEN now[p] ELSE 0,
                            text |-> now[p], day |-> date]]

\* The API is asked for the submissions since the last complete retrieval
\* when the announcement has a paper that is not stored, or when it is due.
\* Which submissions that are is left open, as last_complete_at is not part of
\* the state: to be not asked, to fail or to know of nothing is Nothing.
ApiAnswers ==
    UNION {Texts(papers) :
             papers \in SUBSET {p \in Papers : CategoryOf[p] \in scope}}
Nothing == [p \in {} |-> 0]

\* A paper of both sources keeps the API's version and the announced day.
WithApi(announced, now) ==
    [p \in Papers |-> IF p \notin DOMAIN now THEN announced[p]
                      ELSE [version |-> now[p], text |-> now[p],
                            day |-> announced[p].day]]

\* _store_paper: a paper whose version is known to have changed is new
\* evidence and loses its ranking.
\* Mutant: it waits again but keeps its score.
Revised(p, got) == /\ Stored(p) /\ got[p].version # 0 /\ version[p] # 0
                   /\ got[p].version # version[p]
ScoredKept(got) == scored
ScoredAfter(got) == [p \in Papers |-> IF Revised(p, got) THEN 0 ELSE scored[p]]

StoreAll(got) ==
    LET new == {p \in Papers : got[p].text # 0 /\ (~Stored(p) \/ Revised(p, got))}
        old == {p \in Papers : got[p].text # 0} \ new
    IN  /\ version' = [p \in Papers |-> IF p \in new \cup old
                                        THEN got[p].version ELSE version[p]]
        /\ text' = [p \in Papers |-> IF p \in new \cup old
                                     THEN got[p].text ELSE text[p]]
        /\ day' = [p \in Papers |->
              IF p \in new \/ (p \in old /\ got[p].day # Undated)
              THEN got[p].day ELSE day[p]]
        /\ status' = [p \in Papers |-> IF p \in new THEN "pending"
                                       ELSE status[p]]
        /\ scored' = ScoredAfter(got)
        /\ blind' = [p \in Papers |->
              /\ p \notin new
              /\ \/ blind[p]
                 \/ p \in old /\ (got[p].version = 0 \/ version[p] = 0)]

\* Nothing is stored before everything was read: the announcement of each
\* category, and the API.  Either may be unreadable.
Store ==
    /\ pc = "fetch" /\ pc' = "screen"
    /\ \E listed \in SUBSET {p \in Papers : CategoryOf[p] \in scope},
          versioned \in BOOLEAN, date \in 1..LastDay, api \in ApiAnswers :
       \E now \in Texts(listed) :
         /\ StoreAll(WithApi(Announced(listed, now, versioned, date), api))
         /\ \/ degraded' = FALSE
            \/ /\ degraded' = TRUE
               /\ api = Nothing
                  \/ \E c \in scope : \A p \in listed : CategoryOf[p] # c
    /\ UNCHANGED <<shown, degradedFlag, run, threshold, scope, minimum, plan,
                   ranked, days, today, answer, disturbed, disturbances>>

\* A feed that was deleted since the job began: the insert fails, and with it
\* the retrieval.
StoreFails ==
    /\ pc = "fetch" /\ disturbed
    /\ Ends("failed")
    /\ UNCHANGED <<rows, shown, degradedFlag, run, threshold,
                   disturbances>>

\* _evaluate_pending without the model.
Screen ==
    LET work == WorkDays(scope, minimum)
    IN  /\ pc = "screen"
        /\ status' = Screened(scope, minimum)
        /\ degradedFlag' = degraded
        /\ \/ work # {} /\ Ends("waiting")
           \/ work = {} /\ degraded /\ Ends("partial")
           \/ work = {} /\ ~degraded /\ Ends("checked")
        /\ UNCHANGED <<version, text, day, scored, blind, shown, run,
                       threshold, disturbances>>

-----------------------------------------------------------------------------
(* A digest update *)

BeginSummary ==
    /\ pc = "idle"
    /\ pc' = "plan" /\ scope' = Categories /\ minimum' = threshold
    /\ status' = Requeued /\ answer' = "none" /\ disturbed' = FALSE
    /\ UNCHANGED <<version, text, day, scored, blind, shown,
                   degradedFlag, run, threshold, degraded, plan,
                   ranked, days, today, disturbances>>

\* The pending papers are screened; nothing to do ends the job, ...
NothingToDo ==
    /\ pc = "plan" /\ WorkDays(scope, minimum) = {}
    /\ status' = Screened(scope, minimum)
    /\ \/ degradedFlag /\ Ends("partial")
       \/ ~degradedFlag /\ Ends("unchanged")
    /\ UNCHANGED <<version, text, day, scored, blind, shown,
                   degradedFlag, run, threshold, disturbances>>

\* ... and so does a model that is disabled or has no key.
Blocked ==
    /\ pc = "plan" /\ WorkDays(scope, minimum) # {}
    /\ status' = Screened(scope, minimum)
    /\ Ends("blocked")
    /\ UNCHANGED <<version, text, day, scored, blind, shown,
                   degradedFlag, run, threshold, disturbances>>

\* The job works from what it reads here until its last day.
Plan ==
    /\ pc = "plan" /\ WorkDays(scope, minimum) # {}
    /\ pc' = "days" /\ minimum' = 0
    /\ status' = Screened(scope, minimum)
    /\ plan' = {p \in Waiting(scope) : Eligible(p, minimum)}
    /\ ranked' = Ranked(scope)
    /\ days' = WorkDays(scope, minimum)
    /\ UNCHANGED <<version, text, day, scored, blind, shown,
                   degradedFlag, run, threshold, scope,
                   degraded, today, answer, disturbed, disturbances>>

Fresh(d) == {p \in plan : day[p] = d}
Evidence(d) == {p \in plan \cup ranked : day[p] = d}

\* One attempt per day, the earliest first.
StartDay ==
    /\ pc = "days" /\ days # {}
    /\ \E d \in days :
         /\ \A e \in days : d <= e
         /\ today' = d /\ days' = days \ {d}
         /\ pc' = IF Fresh(d) # {} THEN "rank" ELSE "compose"
    /\ run' = "running"
    /\ UNCHANGED <<rows, shown, degradedFlag, threshold,
                   scope, minimum, degraded, plan, ranked, answer,
                   disturbed, disturbances>>

\* rerank: every batch of the day was answered, paper by paper.
\* Mutant: the scores are written before the digest is.
RankRecords ==
    /\ pc = "rank" /\ pc' = "compose"
    /\ status' = [p \in Papers |-> IF p \in Fresh(today) /\ Stored(p)
                                   THEN "complete" ELSE status[p]]
    /\ scored' = [p \in Papers |-> IF p \in Fresh(today) /\ Stored(p)
                                   THEN text[p] ELSE scored[p]]
    /\ UNCHANGED <<version, text, day, blind, shown,
                   degradedFlag, run, threshold, scope, minimum,
                   degraded, plan, ranked, days, today, answer, disturbed,
                   disturbances>>
Rank ==
    /\ pc = "rank" /\ pc' = "compose"
    /\ UNCHANGED <<rows, shown, degradedFlag, run, threshold,
                   scope, minimum, degraded, plan, ranked, days, today,
                   answer, disturbed, disturbances>>

\* daily_digest answered.
Compose ==
    /\ pc = "compose" /\ pc' = "publish"
    /\ UNCHANGED <<rows, shown, degradedFlag, run, threshold,
                   scope, minimum, degraded, plan, ranked, days, today,
                   answer, disturbed, disturbances>>

\* _complete_run: digest, scores and the end of the run in one transaction.
Publish ==
    /\ pc = "publish" /\ \A p \in Evidence(today) : Stored(p)
    /\ pc' = "days"
    /\ digests' = digests \cup {Evidence(today)}
    /\ withdrawn' = withdrawn \ Evidence(today)
    /\ status' = [p \in Papers |-> IF p \in Evidence(today) THEN "complete"
                                   ELSE status[p]]
    /\ scored' = [p \in Papers |-> IF p \in Fresh(today) THEN text[p]
                                   ELSE scored[p]]
    /\ run' = "closed"
    /\ UNCHANGED <<version, text, day, blind, degradedFlag,
                   threshold, scope, minimum, degraded, plan, ranked,
                   days, today, answer, disturbed, disturbances>>

\* The provider refused, its answer was incomplete after every retry, or a
\* paper of the digest was deleted: the day fails and ends the update.
DayFails ==
    /\ \/ pc \in {"rank", "compose"}
       \/ pc = "publish" /\ \E p \in Evidence(today) : ~Stored(p)
    /\ run' = "closed"
    /\ Ends("failed")
    /\ UNCHANGED <<rows, shown, degradedFlag, threshold,
                   disturbances>>

Finish ==
    /\ pc = "days" /\ days = {}
    /\ Ends(IF degradedFlag THEN "partial" ELSE "success")
    /\ UNCHANGED <<rows, shown, degradedFlag, run, threshold,
                   disturbances>>

\* A stop request is honoured between two requests, and before the first one
\* when the pending papers were already screened.
Stop ==
    /\ Disturb
    /\ pc # "idle"
    /\ \/ UNCHANGED status
       \/ pc = "plan" /\ status' = Screened(scope, minimum)
    /\ run' = IF pc \in {"rank", "compose", "publish"} THEN "closed"
              ELSE run
    /\ degradedFlag' = IF pc = "screen" THEN degraded ELSE degradedFlag
    /\ Ends("cancelled")
    /\ UNCHANGED <<version, text, day, scored, blind, shown, threshold>>

\* The process ends; reconcile_interrupted_state closes its run later.
Crash ==
    /\ Disturb
    /\ pc # "idle"
    /\ Ends("none")
    /\ UNCHANGED <<rows, shown, degradedFlag, run, threshold>>

Recover ==
    /\ pc = "idle" /\ run = "running"
    /\ run' = "closed"
    /\ UNCHANGED <<rows, shown, degradedFlag, threshold, job,
                   disturbances>>

-----------------------------------------------------------------------------
Outside == \/ View
           \/ \E t \in Thresholds : SaveThreshold(t)
           \/ \E cats \in Scopes : Delete(cats)

RefreshSteps == \/ \E cats \in Scopes : BeginRefresh(cats)
                \/ Store \/ StoreFails \/ Screen

SummarySteps == \/ BeginSummary \/ NothingToDo \/ Blocked \/ Plan \/ StartDay
                \/ Rank \/ Compose \/ Publish \/ DayFails \/ Finish

Next == Outside \/ RefreshSteps \/ SummarySteps \/ Stop \/ Crash \/ Recover

Spec == Init /\ [][Next]_vars

\* The scheduler or the reader asks for updates again and again; a job takes
\* its steps; the model is not blocked for ever, and the provider, asked often
\* enough, answers.
Steps == \/ Store \/ StoreFails \/ Screen \/ NothingToDo
         \/ StartDay \/ Publish \/ DayFails \/ Finish

FairSpec == Spec /\ WF_vars(Steps) /\ SF_vars(BeginSummary) /\ SF_vars(Plan)
                 /\ SF_vars(Rank) /\ SF_vars(Compose)

-----------------------------------------------------------------------------
(* Properties *)

\* A paper has an AI score exactly when a digest that shows it was published
\* (one that a deletion withdrew later included):
\* a day that fails, is stopped or crashes at any point leaves no score behind
\* that no digest explains ("no digest state is committed before validation"),
\* and its papers wait.
ScoredIsPublished ==
    \A p \in Papers :
       /\ status[p] = "complete" =>
             p \in withdrawn \/ \E shows \in digests : p \in shows
       /\ status[p] = "complete" <=> scored[p] # 0

\* ArxivDigest implements ScoreLedger: scores appear with the digest that shows
\* them, a digest is never empty and never re-scores a paper, and neither goes
\* away but with a revision, or a paper that is deleted.
Ledger == INSTANCE ScoreLedger WITH
    stored <- {p \in Papers : Stored(p)}, score <- scored

LedgerIsKept == Ledger!LedgerSpec

\* "Never display or reuse its previous model result while it is waiting to be
\* ranked again": a score is of the text that is stored, as long as both
\* versions were known whenever the text was replaced.
ScoreIsOfStoredText ==
    \A p \in Papers : scored[p] # 0 /\ ~blind[p] => scored[p] = text[p]

\* An update of the digest that says it is done has left no ranked day without
\* a digest of its own, whatever happened to the days of papers since they
\* were ranked ("creates a dedicated daily digest for older AI-scored days").
EveryDayHasItsDigest ==
    pc = "idle" /\ answer \in {"success", "unchanged"} /\ ~disturbed =>
        \A p \in Papers : status[p] = "complete" /\ day[p] # Undated =>
            \E shows \in digests :
                shows # {} /\ \A q \in shows : day[q] = day[p]

\* "The invariant that every locally eligible paper receives AI scoring": a
\* stored paper that passes the threshold is scored in the end, also one that
\* an earlier threshold kept out.
EligibleIsScored ==
    \A p \in Papers :
       (Stored(p) /\ Eligible(p, threshold))
           ~> (status[p] = "complete" \/ ~Stored(p)
                 \/ ~Eligible(p, threshold))
=============================================================================
