------------------------- MODULE ArxivDigestProofs -------------------------
(***************************************************************************)
(* Proofs about ArxivDigest, for any papers, categories, days, versions    *)
(* and thresholds, and any number of stops, crashes, deletions and changed *)
(* settings: what a score stands for, that an update of the digest that    *)
(* says it is done has done every day, that every job ends, and that the   *)
(* digest implements ScoreLedger.                                          *)
(***************************************************************************)
EXTENDS ArxivDigest, FiniteSetTheorems, TLAPS

USE DigestAssumption

-----------------------------------------------------------------------------
(***************************************************************************)
(* The inductive invariant.                                                *)
(***************************************************************************)
Complete(p) == status[p] = "complete"

\* A known version is that of the stored text; a score and the status agree.
RowsAgree ==
    \A p \in Papers : /\ version[p] # 0 => version[p] = text[p]
                      /\ Stored(p) => text[p] # 0
                      /\ Complete(p) <=> scored[p] # 0

RowInv == RowsAgree /\ ScoredIsPublished /\ ScoreIsOfStoredText

\* A digest update is at work from Plan on, for every category.
AtWork == pc \in {"days", "rank", "compose", "publish"}
JobShape ==
    /\ ~AtWork => plan = {} /\ ranked = {} /\ days = {}
    /\ AtWork \/ pc = "plan" => scope = Categories

\* What was ranked when the job began is ranked or deleted, ...
RankedStays == \A p \in ranked : Stored(p) => Complete(p)

\* ... and whatever is ranked is among what the job has read.
AllTaken == AtWork => \A p \in Papers : Complete(p) => p \in plan \cup ranked

HasDigest(d) == \E shows \in digests : shows # {} /\ \A q \in shows : day[q] = d

\* A ranked day has a digest of its own, or the job has still to do it.
DaysAhead ==
    AtWork /\ ~disturbed =>
        \A p \in Papers : Complete(p) /\ day[p] # Undated =>
            \/ day[p] \in days
            \/ pc # "days" /\ day[p] = today
            \/ HasDigest(day[p])

JobInv == JobShape /\ RankedStays /\ AllTaken /\ DaysAhead /\ EveryDayHasItsDigest

DigestInv == TypeOK /\ RowInv /\ JobInv

-----------------------------------------------------------------------------
(***************************************************************************)
(* Screening moves papers between "pending" and "screened" only.           *)
(***************************************************************************)
Mild == /\ status' \in [Papers -> {"absent", "pending", "screened", "complete"}]
        /\ \A p \in Papers : /\ Complete(p)' <=> Complete(p)
                             /\ Stored(p)' <=> Stored(p)

\* Returning the complete papers of a changed scope to the queue is mild.
LEMMA RequeuedIsMild == ASSUME RowsType, status' = Requeued PROVE Mild
  BY DEF RowsType, Requeued, Mild, Complete, Stored

\* Screening the waiting papers by category and local score is mild.
LEMMA ScreenedIsMild ==
    ASSUME RowsType, NEW cats, NEW least, status' = Screened(cats, least)
    PROVE  Mild
  BY DEF RowsType, Screened, Waiting, Mild, Complete, Stored

\* Leaving every status alone is mild.
LEMMA SameIsMild == ASSUME RowsType, UNCHANGED status PROVE Mild
  BY DEF RowsType, Mild, Complete, Stored

\* Mild changes of the statuses keep the types of the rows.
LEMMA MildKeepsRowTypes ==
    ASSUME RowsType, Mild, UNCHANGED <<version, text, day, scored, blind>>
    PROVE  RowsType'
  BY DEF RowsType, Mild

\* Mild changes keep what is known of the rows: no paper becomes complete or
\* is lost.
LEMMA MildKeepsRows ==
    ASSUME RowInv, Mild, UNCHANGED <<version, text, scored, blind, shown>>
    PROVE  RowInv'
<1>1. RowsAgree'
  BY DEF RowInv, RowsAgree, Mild
<1>2. ScoredIsPublished'
  BY DEF RowInv, ScoredIsPublished, Mild, Complete, shown
<1>3. ScoreIsOfStoredText'
  BY DEF RowInv, ScoreIsOfStoredText
<1> QED
  BY <1>1, <1>2, <1>3 DEF RowInv

\* Mild changes keep what is known of the job, if it stays where it is.
LEMMA MildKeepsJob ==
    ASSUME JobInv, JobType, Mild, UNCHANGED <<day, shown, job>>
    PROVE  JobInv'
<1>1. JobShape'
  BY DEF JobInv, JobShape, AtWork, job
<1>2. RankedStays'
  BY DEF JobInv, JobType, RankedStays, Mild, job
<1>3. AllTaken'
  BY DEF JobInv, AllTaken, Mild, AtWork, job
<1>4. DaysAhead'
  BY DEF JobInv, DaysAhead, HasDigest, Mild, AtWork, job, shown
<1>5. EveryDayHasItsDigest'
  BY DEF JobInv, EveryDayHasItsDigest, Mild, Complete, job, shown
<1> QED
  BY <1>1, <1>2, <1>3, <1>4, <1>5 DEF JobInv

\* A job that ends without saying that it is done promises nothing.
LEMMA EndsKeepsTypes ==
    ASSUME JobType, NEW a, Ends(a),
           a \in {"none", "waiting", "checked", "success", "partial",
                  "unchanged", "blocked", "cancelled", "failed"}
    PROVE  JobType'
<1>1. Undated \in AllDays
  BY DEF AllDays, Undated
<1>2. /\ pc' = "idle" /\ scope' = {} /\ minimum' = 0 /\ degraded' = FALSE
      /\ plan' = {} /\ ranked' = {} /\ days' = {} /\ today' = Undated
      /\ answer' = a /\ disturbed' = disturbed
  BY DEF Ends
<1>3. disturbed \in BOOLEAN
  BY DEF JobType
<1> QED
  BY <1>1, <1>2, <1>3 DEF JobType

\* An end without success promises nothing about the digests.
LEMMA EndsKeepsJob ==
    ASSUME NEW a, Ends(a), a \notin {"success", "unchanged"}
    PROVE  JobInv'
  BY DEF Ends, JobInv, JobShape, AtWork, RankedStays, AllTaken, DaysAhead,
     EveryDayHasItsDigest

\* An end with success keeps the promise, if no ranked day lacks its digest.
LEMMA DoneKeepsJob ==
    ASSUME NEW a, Ends(a), EveryDayHasItsDigest'
    PROVE  JobInv'
  BY DEF Ends, JobInv, JobShape, AtWork, RankedStays, AllTaken, DaysAhead

\* A job that begins has read nothing yet.
LEMMA BeginKeepsJob ==
    ASSUME JobInv, pc = "idle", pc' \in {"fetch", "plan"},
           pc' = "plan" => scope' = Categories,
           UNCHANGED <<plan, ranked, days>>
    PROVE  JobInv'
  BY DEF JobInv, JobShape, AtWork, RankedStays, AllTaken, DaysAhead,
     EveryDayHasItsDigest

-----------------------------------------------------------------------------
(***************************************************************************)
(* What arXiv answers.                                                     *)
(***************************************************************************)
Answers == [Papers -> [version : Nat, text : Nat, day : AllDays]]

\* An answer has the version of its text, or none.
Honest(got) == /\ got \in Answers
               /\ \A p \in Papers : got[p].version \in {0, got[p].text}

\* arXiv has a numbered text for each paper it lists.
LEMMA TextsAreTexts ==
    ASSUME NEW papers \in SUBSET Papers, NEW now \in Texts(papers)
    PROVE  DOMAIN now = papers /\ \A p \in papers : now[p] \in Nat \ {0}
  BY DEF Texts, Now

\* An announcement, and the API beside it, name the version of the text they
\* carry or none.
LEMMA ArxivIsHonest ==
    ASSUME NEW listed \in SUBSET Papers, NEW now \in Texts(listed),
           NEW versioned \in BOOLEAN, NEW date \in 1..LastDay,
           NEW api \in ApiAnswers
    PROVE  Honest(WithApi(Announced(listed, now, versioned, date), api))
<1> DEFINE told == Announced(listed, now, versioned, date)
<1>1. date \in AllDays /\ Undated \in AllDays
  BY DEF AllDays, Undated
<1>2. told \in Answers /\ \A p \in Papers : told[p].version \in {0, told[p].text}
  <2> SUFFICES ASSUME NEW p \in Papers
               PROVE  /\ told[p] \in [version : Nat, text : Nat, day : AllDays]
                      /\ told[p].version \in {0, told[p].text}
    BY DEF Announced, Answers
  <2>1. CASE p \in listed
    BY <1>1, <2>1, TextsAreTexts DEF Announced
  <2>2. CASE p \notin listed
    BY <1>1, <2>2 DEF Announced, NotFetched
  <2> QED
    BY <2>1, <2>2
<1> HIDE DEF told
<1>3. PICK papers \in SUBSET Papers : api \in Texts(papers)
  BY DEF ApiAnswers
<1>4. DOMAIN api = papers /\ \A p \in papers : api[p] \in Nat \ {0}
  BY <1>3, TextsAreTexts
<1>5. \A p \in Papers : told[p].day \in AllDays
  BY <1>2 DEF Answers
<1>6. ASSUME NEW p \in Papers
      PROVE  /\ WithApi(told, api)[p] \in [version : Nat, text : Nat, day : AllDays]
             /\ WithApi(told, api)[p].version \in {0, WithApi(told, api)[p].text}
  <2>1. CASE p \in papers
    BY <1>4, <1>5, <2>1 DEF WithApi
  <2>2. CASE p \notin papers
    BY <1>2, <1>4, <2>2 DEF WithApi, Answers
  <2> QED
    BY <2>1, <2>2
<1>7. WithApi(told, api) \in Answers
  BY <1>6 DEF WithApi, Answers
<1> QED
  BY <1>6, <1>7 DEF Honest, told

\* Storing an answer keeps the rows in order: a paper that is new waits and has
\* no score, and the others keep what they have.
LEMMA StoreKeepsRowTypes ==
    ASSUME RowsType, NEW got, Honest(got), StoreAll(got)
    PROVE  RowsType'
<1>1. \A p \in Papers : got[p].version \in Nat /\ got[p].text \in Nat /\ got[p].day \in AllDays
  BY DEF Honest, Answers
<1>2. status' \in [Papers -> {"absent", "pending", "screened", "complete"}]
  BY DEF RowsType, StoreAll
<1>3. version' \in [Papers -> Nat] /\ text' \in [Papers -> Nat]
  BY <1>1 DEF RowsType, StoreAll
<1>4. day' \in [Papers -> AllDays]
  BY <1>1 DEF RowsType, StoreAll
<1>5. scored' \in [Papers -> Nat]
  BY DEF RowsType, StoreAll, ScoredAfter
<1>6. blind' \in [Papers -> BOOLEAN]
  BY DEF RowsType, StoreAll
<1> QED
  BY <1>2, <1>3, <1>4, <1>5, <1>6 DEF RowsType

\* Storing what was fetched keeps scores, texts and versions in step.
LEMMA StoreKeepsRows ==
    ASSUME RowsType, RowInv, NEW got, Honest(got), StoreAll(got), UNCHANGED shown
    PROVE  RowInv'
<1> DEFINE New(p) == got[p].text # 0 /\ (~Stored(p) \/ Revised(p, got))
           Old(p) == got[p].text # 0 /\ ~New(p)
<1>1. ASSUME NEW p \in Papers
      PROVE  /\ version'[p] = IF New(p) \/ Old(p) THEN got[p].version ELSE version[p]
             /\ text'[p] = IF New(p) \/ Old(p) THEN got[p].text ELSE text[p]
             /\ status'[p] = IF New(p) THEN "pending" ELSE status[p]
             /\ scored'[p] = IF Revised(p, got) THEN 0 ELSE scored[p]
             /\ blind'[p] = (/\ ~New(p)
                             /\ \/ blind[p]
                                \/ Old(p) /\ (got[p].version = 0 \/ version[p] = 0))
  BY DEF StoreAll, ScoredAfter
<1>2. \A p \in Papers : Revised(p, got) => got[p].text # 0
  BY DEF Revised, Honest
<1>3. RowsAgree'
  <2> SUFFICES ASSUME NEW p \in Papers
               PROVE  /\ version'[p] # 0 => version'[p] = text'[p]
                      /\ status'[p] # "absent" => text'[p] # 0
                      /\ status'[p] = "complete" <=> scored'[p] # 0
    BY DEF RowsAgree, Complete, Stored
  <2>1. got[p].version \in {0, got[p].text}
    BY DEF Honest
  <2>2. /\ version[p] # 0 => version[p] = text[p]
        /\ status[p] # "absent" => text[p] # 0
        /\ status[p] = "complete" <=> scored[p] # 0
    BY DEF RowInv, RowsAgree, Complete, Stored
  <2>3. CASE New(p)
    BY <1>1, <2>1, <2>2, <2>3 DEF Stored
  <2>4. CASE Old(p)
    BY <1>1, <2>1, <2>2, <2>4
  <2>5. CASE got[p].text = 0
    BY <1>1, <1>2, <2>2, <2>5
  <2> QED
    BY <2>3, <2>4, <2>5
<1>4. ScoredIsPublished'
  <2>1. \A p \in Papers : status'[p] = "complete" => status[p] = "complete"
    BY <1>1
  <2> QED
    BY <1>3, <2>1 DEF RowInv, RowsAgree, Complete, ScoredIsPublished, shown
<1>5. ScoreIsOfStoredText'
  <2> SUFFICES ASSUME NEW p \in Papers, scored'[p] # 0, ~blind'[p]
               PROVE  scored'[p] = text'[p]
    BY DEF ScoreIsOfStoredText
  <2>1. ~Revised(p, got) /\ scored'[p] = scored[p]
    BY <1>1
  <2>2. ~New(p)
    BY <1>1, <2>1 DEF RowInv, RowsAgree, Complete, Stored
  <2>3. ~blind[p] /\ scored[p] = text[p]
    BY <1>1, <2>1, <2>2 DEF RowInv, ScoreIsOfStoredText
  <2>4. CASE Old(p)
    <3>1. got[p].version # 0 /\ version[p] # 0 /\ Stored(p)
      BY <1>1, <2>2, <2>4
    <3>2. got[p].version = version[p]
      BY <2>1, <3>1 DEF Revised
    <3>3. got[p].text = text[p]
      BY <3>1, <3>2 DEF Honest, RowInv, RowsAgree
    <3> QED
      BY <1>1, <2>1, <2>3, <2>4, <3>3
  <2>5. CASE got[p].text = 0
    BY <1>1, <2>1, <2>3, <2>5
  <2> QED
    BY <2>2, <2>4, <2>5
<1> QED
  BY <1>3, <1>4, <1>5 DEF RowInv

-----------------------------------------------------------------------------
(***************************************************************************)
(* The types.                                                              *)
(***************************************************************************)
LEMMA RowTypesKept == ASSUME RowsType, UNCHANGED rows PROVE RowsType'
  BY DEF RowsType, rows

\* The types of the state that a step of the job may not touch.
LEMMA StateTypesKept ==
    ASSUME StateType, UNCHANGED <<shown, threshold, disturbances>>,
           degradedFlag' \in BOOLEAN, run' \in {"closed", "running"}
    PROVE  StateType'
  BY DEF StateType, shown

\* A step that leaves the job alone keeps its types.
LEMMA JobTypesKept == ASSUME JobType, UNCHANGED job PROVE JobType'
  BY DEF JobType, job

\* The days that wait for work are days.
LEMMA DaysAreDays ==
    ASSUME RowsType, NEW cats, NEW least
    PROVE  WorkDays(cats, least) \in SUBSET AllDays
<1>1. \A p \in Papers : day[p] \in AllDays
  BY DEF RowsType
<1> QED
  BY <1>1 DEF WorkDays, Missing, Ranked, Waiting

\* The initial states have their types.
LEMMA TypeInitial == Init => TypeOK
<1> SUFFICES ASSUME Init PROVE TypeOK
  OBVIOUS
<1>1. Undated \in AllDays
  BY DEF AllDays, Undated
<1>2. RowsType
  BY <1>1 DEF Init, RowsType
<1>3. StateType
  <2>1. digests = {} /\ withdrawn = {} /\ degradedFlag = FALSE /\ run = "closed"
        /\ threshold \in Thresholds /\ disturbances = 0
    BY DEF Init
  <2>2. digests \in SUBSET (SUBSET Papers) /\ withdrawn \in SUBSET Papers
    BY <2>1
  <2>3. degradedFlag \in BOOLEAN
    BY <2>1
  <2> QED
    BY <2>1, <2>2, <2>3 DEF StateType
<1>4. JobType
  BY <1>1 DEF Init, JobType
<1> QED
  BY <1>2, <1>3, <1>4 DEF TypeOK

\* A disturbance is counted within its bound.
LEMMA DisturbKeepsBound ==
    ASSUME StateType, Disturb PROVE disturbances' \in 0..MaxDisturbances
  BY DEF StateType, Disturb

\* The start of an update keeps the types of the job.
LEMMA BeginKeepsTypes ==
    ASSUME JobType, StateType, pc' \in {"fetch", "plan"}, scope' \in SUBSET Categories,
           minimum' = threshold, answer' = "none", disturbed' = FALSE,
           UNCHANGED <<degraded, plan, ranked, days, today>>
    PROVE  JobType'
  BY DEF JobType, StateType

\* Every step keeps the types.
LEMMA TypeStep ==
    ASSUME TypeOK, [Next]_vars
    PROVE  TypeOK'
<1>p. RowsType /\ StateType /\ JobType
  BY DEF TypeOK
<1>s. degradedFlag \in BOOLEAN /\ run \in {"closed", "running"}
  BY <1>p DEF StateType
<1>1. CASE View
  BY <1>1, <1>p, <1>s, RequeuedIsMild, MildKeepsRowTypes, StateTypesKept, JobTypesKept
     DEF View, TypeOK
<1>2. ASSUME NEW t \in Thresholds, SaveThreshold(t)
      PROVE  TypeOK'
  <2>1. StateType'
    BY <1>2, <1>p, DisturbKeepsBound DEF SaveThreshold, StateType, shown
  <2> QED
    BY <1>2, <1>p, <2>1, RowTypesKept, JobTypesKept DEF SaveThreshold, TypeOK
<1>3. ASSUME NEW cats \in Scopes, Delete(cats)
      PROVE  TypeOK'
  <2> DEFINE gone == {p \in Papers : CategoryOf[p] \in cats /\ Stored(p)}
             kept == {shows \in digests : shows \cap gone = {}}
  <2>0. Undated \in AllDays
    BY DEF AllDays, Undated
  <2>1. status' \in [Papers -> {"absent", "pending", "screened", "complete"}]
    BY <1>3, <1>p DEF Delete, RowsType
  <2>2. version' \in [Papers -> Nat] /\ scored' \in [Papers -> Nat] /\ text' \in [Papers -> Nat]
    BY <1>3, <1>p DEF Delete, RowsType
  <2>3. day' \in [Papers -> AllDays]
    BY <1>3, <1>p, <2>0 DEF Delete, RowsType
  <2>4. blind' \in [Papers -> BOOLEAN]
    BY <1>3, <1>p DEF Delete, RowsType
  <2>5. RowsType'
    BY <2>1, <2>2, <2>3, <2>4 DEF RowsType
  <2>6. /\ digests' = kept /\ withdrawn' = (withdrawn \cup UNION (digests \ kept)) \ gone
        /\ UNCHANGED <<degradedFlag, run, threshold>> /\ Disturb
    BY <1>3 DEF Delete
  <2>7. digests' \in SUBSET (SUBSET Papers) /\ withdrawn' \in SUBSET Papers
    BY <1>p, <2>6 DEF StateType
  <2>8. StateType'
    BY <1>p, <2>6, <2>7, DisturbKeepsBound DEF StateType
  <2>9. JobType'
    BY <1>3, <1>p DEF Delete, JobType
  <2> QED
    BY <2>5, <2>8, <2>9 DEF TypeOK
<1>4. ASSUME NEW cats \in Scopes, BeginRefresh(cats)
      PROVE  TypeOK'
  BY <1>4, <1>p, <1>s, RequeuedIsMild, MildKeepsRowTypes, StateTypesKept, BeginKeepsTypes
     DEF BeginRefresh, TypeOK
<1>5. CASE Store
  <2>1. PICK got : StoreAll(got) /\ Honest(got)
    BY <1>5, ArxivIsHonest DEF Store
  <2>2. RowsType'
    BY <1>p, <2>1, StoreKeepsRowTypes
  <2>3. pc' = "screen" /\ degraded' \in BOOLEAN
        /\ UNCHANGED <<scope, minimum, plan, ranked, days, today, answer, disturbed>>
    BY <1>5 DEF Store
  <2>4. JobType'
    BY <1>p, <2>3 DEF JobType
  <2>5. StateType'
    BY <1>5, <1>p, <1>s, StateTypesKept DEF Store
  <2> QED
    BY <2>2, <2>4, <2>5 DEF TypeOK
<1>6. CASE StoreFails
  BY <1>6, <1>p, <1>s, RowTypesKept, StateTypesKept, EndsKeepsTypes DEF StoreFails, TypeOK
<1>7. CASE Screen
  <2>1. degradedFlag' \in BOOLEAN
    BY <1>7, <1>p DEF Screen, JobType
  <2>2. Ends("waiting") \/ Ends("partial") \/ Ends("checked")
    BY <1>7 DEF Screen
  <2> QED
    BY <1>7, <1>p, <1>s, <2>1, <2>2, ScreenedIsMild, MildKeepsRowTypes, StateTypesKept,
       EndsKeepsTypes DEF Screen, TypeOK
<1>8. CASE BeginSummary
  BY <1>8, <1>p, <1>s, RequeuedIsMild, MildKeepsRowTypes, StateTypesKept, BeginKeepsTypes
     DEF BeginSummary, TypeOK
<1>9. CASE NothingToDo
  BY <1>9, <1>p, <1>s, ScreenedIsMild, MildKeepsRowTypes, StateTypesKept, EndsKeepsTypes
     DEF NothingToDo, TypeOK
<1>10. CASE Blocked
  BY <1>10, <1>p, <1>s, ScreenedIsMild, MildKeepsRowTypes, StateTypesKept, EndsKeepsTypes
     DEF Blocked, TypeOK
<1>11. CASE Plan
  <2>1. days' \in SUBSET AllDays
    BY <1>11, <1>p, DaysAreDays DEF Plan
  <2>2. plan' \in SUBSET Papers /\ ranked' \in SUBSET Papers
    BY <1>11 DEF Plan, Waiting, Ranked
  <2>3. JobType'
    BY <1>11, <1>p, <2>1, <2>2 DEF Plan, JobType
  <2> QED
    BY <1>11, <1>p, <1>s, <2>3, ScreenedIsMild, MildKeepsRowTypes, StateTypesKept
       DEF Plan, TypeOK
<1>12. CASE StartDay
  <2>1. JobType'
    BY <1>12, <1>p DEF StartDay, JobType
  <2> QED
    BY <1>12, <1>p, <1>s, <2>1, RowTypesKept, StateTypesKept DEF StartDay, TypeOK
<1>13. CASE Rank \/ Compose
  <2>1. JobType'
    BY <1>13, <1>p DEF Rank, Compose, JobType
  <2> QED
    BY <1>13, <1>p, <1>s, <2>1, RowTypesKept, StateTypesKept DEF Rank, Compose, TypeOK
<1>14. CASE Publish
  <2>1. Evidence(today) \in SUBSET Papers
    BY <1>p DEF JobType, Evidence
  <2>2. status' \in [Papers -> {"absent", "pending", "screened", "complete"}]
    BY <1>14, <1>p DEF Publish, RowsType
  <2>3. scored' \in [Papers -> Nat]
    BY <1>14, <1>p DEF Publish, RowsType
  <2>4. RowsType'
    BY <1>14, <1>p, <2>2, <2>3 DEF Publish, RowsType
  <2>5. StateType'
    BY <1>14, <1>p, <2>1 DEF Publish, StateType
  <2>6. JobType'
    BY <1>14, <1>p DEF Publish, JobType
  <2> QED
    BY <2>4, <2>5, <2>6 DEF TypeOK
<1>15. CASE DayFails
  BY <1>15, <1>p, <1>s, RowTypesKept, StateTypesKept, EndsKeepsTypes DEF DayFails, TypeOK
<1>16. CASE Finish
  <2>1. Ends("partial") \/ Ends("success")
    BY <1>16 DEF Finish
  <2> QED
    BY <1>16, <1>p, <1>s, <2>1, RowTypesKept, StateTypesKept, EndsKeepsTypes DEF Finish, TypeOK
<1>17. CASE Stop
  <2>1. RowsType'
    BY <1>17, <1>p, SameIsMild, ScreenedIsMild, MildKeepsRowTypes DEF Stop
  <2>2. degradedFlag' \in BOOLEAN /\ run' \in {"closed", "running"}
    BY <1>17, <1>p, <1>s DEF Stop, JobType
  <2>3. StateType'
    BY <1>17, <1>p, <2>2, DisturbKeepsBound DEF Stop, StateType, shown
  <2> QED
    BY <1>17, <1>p, <2>1, <2>3, EndsKeepsTypes DEF Stop, TypeOK
<1>18. CASE Crash
  <2>1. StateType'
    BY <1>18, <1>p, DisturbKeepsBound DEF Crash, StateType, shown
  <2> QED
    BY <1>18, <1>p, <2>1, RowTypesKept, EndsKeepsTypes DEF Crash, TypeOK
<1>19. CASE Recover
  BY <1>19, <1>p, <1>s, RowTypesKept, StateTypesKept, JobTypesKept DEF Recover, TypeOK
<1>20. CASE UNCHANGED vars
  BY <1>20, <1>p, <1>s, RowTypesKept, StateTypesKept, JobTypesKept DEF vars, TypeOK
<1> QED
  BY <1>1, <1>2, <1>3, <1>4, <1>5, <1>6, <1>7, <1>8, <1>9, <1>10, <1>11, <1>12, <1>13,
     <1>14, <1>15, <1>16, <1>17, <1>18, <1>19, <1>20
     DEF Next, Outside, RefreshSteps, SummarySteps

\* Every reachable state of the digest has its type.
THEOREM DigestTypeCorrect == Spec => []TypeOK
<1>1. TypeOK /\ [Next]_vars => TypeOK'
  BY TypeStep
<1> QED
  BY <1>1, TypeInitial, PTL DEF Spec

-----------------------------------------------------------------------------
(***************************************************************************)
(* The rows: scores, digests and texts.                                    *)
(***************************************************************************)
LEMMA RowInitial == Init => RowInv
  BY DEF Init, RowInv, RowsAgree, Complete, Stored, ScoredIsPublished, ScoreIsOfStoredText

\* A step that touches neither rows nor digests keeps what is known of them.
LEMMA RowsStay == ASSUME RowsType, RowInv, UNCHANGED <<rows, shown>> PROVE RowInv'
  BY SameIsMild, MildKeepsRows DEF rows

\* A deletion takes the digests that showed a paper with it, and keeps what
\* is known of the rest.
LEMMA DeleteKeepsRows ==
    ASSUME RowsType, RowInv, NEW cats, Delete(cats)
    PROVE  RowInv'
<1> DEFINE gone == {p \in Papers : CategoryOf[p] \in cats /\ Stored(p)}
           kept == {shows \in digests : shows \cap gone = {}}
<1>1. ASSUME NEW p \in Papers
      PROVE  /\ status'[p] = IF p \in gone THEN "absent" ELSE status[p]
             /\ version'[p] = IF p \in gone THEN 0 ELSE version[p]
             /\ scored'[p] = IF p \in gone THEN 0 ELSE scored[p]
             /\ p \notin gone => blind'[p] = blind[p]
             /\ text'[p] = text[p]
  BY DEF Delete, RowsType
<1>2. digests' = kept /\ withdrawn' = (withdrawn \cup UNION (digests \ kept)) \ gone
  BY DEF Delete
<1> HIDE DEF gone
<1>3. RowsAgree'
  BY <1>1 DEF RowInv, RowsAgree, Complete, Stored
<1>4. ScoredIsPublished'
  <2> SUFFICES ASSUME NEW p \in Papers, status'[p] = "complete"
               PROVE  p \in withdrawn' \/ \E shows \in digests' : p \in shows
    BY <1>3 DEF ScoredIsPublished, RowsAgree, Complete
  <2>1. p \notin gone /\ status[p] = "complete"
    BY <1>1
  <2>2. p \in withdrawn \/ \E shows \in digests : p \in shows
    BY <2>1 DEF RowInv, ScoredIsPublished
  <2> QED
    BY <1>2, <2>1, <2>2
<1>5. ScoreIsOfStoredText'
  BY <1>1 DEF RowInv, ScoreIsOfStoredText
<1> QED
  BY <1>3, <1>4, <1>5 DEF RowInv

\* What is published is stored, and was complete or is pending with its text.
LEMMA PublishKeepsRows ==
    ASSUME RowsType, RowInv, JobType, RankedStays, Publish
    PROVE  RowInv'
<1>1. ASSUME NEW p \in Papers
      PROVE  /\ status'[p] = IF p \in Evidence(today) THEN "complete" ELSE status[p]
             /\ scored'[p] = IF p \in Fresh(today) THEN text[p] ELSE scored[p]
             /\ version'[p] = version[p] /\ text'[p] = text[p] /\ blind'[p] = blind[p]
             /\ p \in Evidence(today) => Stored(p)
  BY DEF Publish, RowsType
<1>2. digests' = digests \cup {Evidence(today)} /\ withdrawn' = withdrawn \ Evidence(today)
  BY DEF Publish
<1>3. \A p \in Papers : p \in Fresh(today) => p \in Evidence(today)
  BY DEF Fresh, Evidence
<1>4. \A p \in Papers : p \in Evidence(today) /\ p \notin Fresh(today) => Complete(p)
  BY <1>1 DEF Fresh, Evidence, RankedStays
<1>5. RowsAgree'
  <2> SUFFICES ASSUME NEW p \in Papers
               PROVE  /\ version'[p] # 0 => version'[p] = text'[p]
                      /\ status'[p] # "absent" => text'[p] # 0
                      /\ status'[p] = "complete" <=> scored'[p] # 0
    BY DEF RowsAgree, Complete, Stored
  <2>1. /\ version[p] # 0 => version[p] = text[p]
        /\ status[p] # "absent" => text[p] # 0
        /\ status[p] = "complete" <=> scored[p] # 0
    BY DEF RowInv, RowsAgree, Complete, Stored
  <2> QED
    BY <1>1, <1>3, <1>4, <2>1 DEF Stored, Complete
<1>6. ScoredIsPublished'
  <2> SUFFICES ASSUME NEW p \in Papers, status'[p] = "complete"
               PROVE  p \in withdrawn' \/ \E shows \in digests' : p \in shows
    BY <1>5 DEF ScoredIsPublished, RowsAgree, Complete
  <2>1. CASE p \in Evidence(today)
    BY <1>2, <2>1
  <2>2. CASE p \notin Evidence(today)
    BY <1>1, <1>2, <2>2 DEF RowInv, ScoredIsPublished
  <2> QED
    BY <2>1, <2>2
<1>7. ScoreIsOfStoredText'
  BY <1>1 DEF RowInv, ScoreIsOfStoredText
<1> QED
  BY <1>5, <1>6, <1>7 DEF RowInv

\* Every step keeps what is known of the rows.
LEMMA RowStep ==
    ASSUME TypeOK, RowInv, RankedStays, [Next]_vars
    PROVE  RowInv'
<1>p. RowsType /\ JobType
  BY DEF TypeOK
<1>1. CASE View
  BY <1>1, <1>p, RequeuedIsMild, MildKeepsRows DEF View
<1>2. ASSUME NEW t \in Thresholds, SaveThreshold(t)
      PROVE  RowInv'
  BY <1>2, <1>p, RowsStay DEF SaveThreshold
<1>3. ASSUME NEW cats \in Scopes, Delete(cats)
      PROVE  RowInv'
  BY <1>3, <1>p, DeleteKeepsRows
<1>4. ASSUME NEW cats \in Scopes, BeginRefresh(cats)
      PROVE  RowInv'
  BY <1>4, <1>p, RequeuedIsMild, MildKeepsRows DEF BeginRefresh
<1>5. CASE Store
  <2>1. PICK got : StoreAll(got) /\ Honest(got)
    BY <1>5, ArxivIsHonest DEF Store
  <2> QED
    BY <1>5, <1>p, <2>1, StoreKeepsRows DEF Store
<1>6. CASE StoreFails
  BY <1>6, <1>p, RowsStay DEF StoreFails
<1>7. CASE Screen
  BY <1>7, <1>p, ScreenedIsMild, MildKeepsRows DEF Screen
<1>8. CASE BeginSummary
  BY <1>8, <1>p, RequeuedIsMild, MildKeepsRows DEF BeginSummary
<1>9. CASE NothingToDo \/ Blocked \/ Plan
  BY <1>9, <1>p, ScreenedIsMild, MildKeepsRows DEF NothingToDo, Blocked, Plan
<1>10. CASE StartDay \/ Rank \/ Compose \/ DayFails \/ Finish
  BY <1>10, <1>p, RowsStay DEF StartDay, Rank, Compose, DayFails, Finish
<1>11. CASE Publish
  BY <1>11, <1>p, PublishKeepsRows
<1>12. CASE Stop
  BY <1>12, <1>p, SameIsMild, ScreenedIsMild, MildKeepsRows DEF Stop
<1>13. CASE Crash \/ Recover \/ UNCHANGED vars
  BY <1>13, <1>p, RowsStay DEF Crash, Recover, vars
<1> QED
  BY <1>1, <1>2, <1>3, <1>4, <1>5, <1>6, <1>7, <1>8, <1>9, <1>10, <1>11, <1>12, <1>13
     DEF Next, Outside, RefreshSteps, SummarySteps

-----------------------------------------------------------------------------
(***************************************************************************)
(* The job: what it has read, and the days it has still to do.             *)
(***************************************************************************)
LEMMA JobInitial == Init => JobInv
  BY DEF Init, JobInv, JobShape, AtWork, RankedStays, AllTaken, DaysAhead,
     EveryDayHasItsDigest

\* No ranked day is missing: each has a digest of its own.
LEMMA NoneMissing ==
    ASSUME RowsType, StateType, RowInv, NEW p \in Papers, Complete(p), day[p] # Undated
    PROVE  day[p] \in Missing(Categories) \/ HasDigest(day[p])
<1>1. p \in Ranked(Categories)
  BY DEF Ranked, RowInv, RowsAgree, Complete
<1>2. day[p] \in 1..LastDay
  BY DEF RowsType, AllDays, Undated
<1>3. CASE day[p] \in Dedicated(Categories)
  <2>1. PICK shows \in digests :
           LET seen == {q \in shows : CategoryOf[q] \in Categories}
           IN  seen # {} /\ \A q \in seen : day[q] = day[p]
    BY <1>3 DEF Dedicated
  <2>2. \A q \in shows : q \in Papers /\ CategoryOf[q] \in Categories
    BY DEF StateType
  <2>3. shows # {} /\ \A q \in shows : day[q] = day[p]
    BY <2>1, <2>2
  <2> QED
    BY <2>3 DEF HasDigest
<1>4. CASE day[p] \notin Dedicated(Categories)
  BY <1>1, <1>2, <1>4 DEF Missing
<1> QED
  BY <1>3, <1>4

\* With no day left to work on, every ranked day has its digest.
LEMMA NothingToDoIsDone ==
    ASSUME TypeOK, RowInv, JobInv, NothingToDo
    PROVE  EveryDayHasItsDigest'
<1>p. RowsType /\ StateType /\ JobType
  BY DEF TypeOK
<1>1. scope = Categories /\ Missing(Categories) = {}
  BY DEF NothingToDo, JobInv, JobShape, WorkDays
<1>2. Mild
  BY <1>p, ScreenedIsMild DEF NothingToDo
<1>3. \A p \in Papers : Complete(p) /\ day[p] # Undated => HasDigest(day[p])
  BY <1>p, <1>1, NoneMissing
<1>4. UNCHANGED <<day, digests>>
  BY DEF NothingToDo, shown
<1>5. \A p \in Papers : Complete(p)' /\ day'[p] # Undated =>
         \E shows \in digests' : shows # {} /\ \A q \in shows : day'[q] = day'[p]
  BY <1>2, <1>3, <1>4 DEF Mild, HasDigest
<1> QED
  BY <1>5 DEF EveryDayHasItsDigest, Complete

\* The plan keeps what is known of the job.
LEMMA PlanKeepsJob ==
    ASSUME TypeOK, RowInv, JobInv, Plan
    PROVE  JobInv'
<1>p. RowsType /\ StateType /\ JobType
  BY DEF TypeOK
<1>1. /\ pc = "plan" /\ pc' = "days" /\ scope = Categories /\ scope' = scope
      /\ ranked' = Ranked(Categories) /\ days' = WorkDays(Categories, minimum)
      /\ UNCHANGED <<day, digests>>
  BY DEF Plan, JobInv, JobShape, shown
<1>2. Mild
  BY <1>p, ScreenedIsMild DEF Plan
<1>3. JobShape' /\ EveryDayHasItsDigest'
  BY <1>1 DEF JobShape, AtWork, EveryDayHasItsDigest
<1>4. \A p \in Papers : Complete(p)' <=> p \in ranked'
  BY <1>1, <1>2 DEF Mild, Ranked, Complete, RowInv, RowsAgree
<1>5. RankedStays'
  BY <1>1, <1>4 DEF RankedStays, Ranked
<1>6. AllTaken'
  BY <1>4 DEF AllTaken
<1>7. \A p \in Papers : Complete(p)' /\ day'[p] # Undated =>
         day'[p] \in days' \/ HasDigest(day[p])
  <2> TAKE p \in Papers
  <2>1. Complete(p) /\ day[p] # Undated => day[p] \in Missing(Categories) \/ HasDigest(day[p])
    BY <1>p, NoneMissing
  <2> QED
    BY <1>1, <1>2, <2>1 DEF Mild, WorkDays
<1>8. DaysAhead'
  BY <1>1, <1>7 DEF DaysAhead, HasDigest
<1> QED
  BY <1>3, <1>5, <1>6, <1>8 DEF JobInv

\* A publication keeps what is known of the job.
LEMMA PublishKeepsJob ==
    ASSUME TypeOK, RowInv, JobInv, Publish
    PROVE  JobInv'
<1>p. RowsType /\ StateType /\ JobType
  BY DEF TypeOK
<1>1. /\ pc = "publish" /\ pc' = "days" /\ digests' = digests \cup {Evidence(today)}
      /\ \A p \in Evidence(today) : Stored(p)
      /\ UNCHANGED <<day, plan, ranked, days, today, scope, disturbed>>
  BY DEF Publish
<1>2. \A p \in Papers : Complete(p)' <=> Complete(p) \/ p \in Evidence(today)
  BY <1>p DEF Publish, RowsType, Complete
<1>3. \A p \in Papers : Stored(p)' <=> Stored(p)
  BY <1>p, <1>1 DEF Publish, RowsType, Stored
<1>4. JobShape' /\ EveryDayHasItsDigest'
  BY <1>1 DEF JobInv, JobShape, AtWork, EveryDayHasItsDigest
<1>5. RankedStays'
  BY <1>p, <1>1, <1>2, <1>3 DEF JobInv, JobType, RankedStays
<1>6. AllTaken'
  BY <1>1, <1>2 DEF JobInv, AllTaken, AtWork, Evidence
<1>7. ASSUME NEW p \in Papers, ~disturbed, Complete(p)', day[p] # Undated
      PROVE  day[p] \in days
             \/ \E shows \in digests' : shows # {} /\ \A q \in shows : day[q] = day[p]
  <2>1. CASE day[p] = today
    <3>1. p \in Evidence(today)
      BY <1>1, <1>2, <1>7, <2>1 DEF JobInv, AllTaken, AtWork, Evidence
    <3>2. \A q \in Evidence(today) : day[q] = day[p]
      BY <2>1 DEF Evidence
    <3> QED
      BY <1>1, <3>1, <3>2
  <2>2. CASE day[p] # today
    <3>1. Complete(p)
      BY <1>2, <1>7, <2>2 DEF Evidence
    <3>2. day[p] \in days \/ HasDigest(day[p])
      BY <1>1, <1>7, <2>2, <3>1 DEF JobInv, DaysAhead, AtWork
    <3> QED
      BY <1>1, <3>2 DEF HasDigest
  <2> QED
    BY <2>1, <2>2
<1>8. DaysAhead'
  BY <1>1, <1>7 DEF DaysAhead, HasDigest
<1> QED
  BY <1>4, <1>5, <1>6, <1>8 DEF JobInv

\* A deletion under a running update keeps what is known of the job.
LEMMA DeleteKeepsJob ==
    ASSUME TypeOK, JobInv, NEW cats, Delete(cats)
    PROVE  JobInv'
<1>p. RowsType /\ StateType /\ JobType
  BY DEF TypeOK
<1>1. /\ disturbed' = TRUE /\ UNCHANGED <<pc, plan, ranked, days, scope>>
      /\ \A p \in Papers : status'[p] \in {"absent", status[p]}
  BY <1>p DEF Delete, RowsType
<1>2. JobShape' /\ DaysAhead' /\ EveryDayHasItsDigest'
  BY <1>1 DEF JobInv, JobShape, AtWork, DaysAhead, EveryDayHasItsDigest
<1>3. RankedStays'
  BY <1>p, <1>1 DEF JobInv, JobType, RankedStays, Complete, Stored
<1>4. AllTaken'
  BY <1>1 DEF JobInv, AllTaken, AtWork, Complete
<1> QED
  BY <1>2, <1>3, <1>4 DEF JobInv

\* A step of the days that leaves the rows and the digests alone.
LEMMA WorkKeepsJob ==
    ASSUME JobInv, AtWork, AtWork', UNCHANGED <<rows, shown, plan, ranked, scope, disturbed>>,
           \A d \in days : d \in days' \/ (pc' # "days" /\ d = today'),
           pc # "days" => pc' # "days" /\ today' = today
    PROVE  JobInv'
<1>1. JobShape' /\ EveryDayHasItsDigest'
  BY DEF JobInv, JobShape, AtWork, EveryDayHasItsDigest
<1>2. RankedStays' /\ AllTaken'
  BY DEF JobInv, RankedStays, AllTaken, Stored, Complete, rows
<1>3. DaysAhead'
  BY DEF JobInv, DaysAhead, HasDigest, Complete, rows, shown
<1> QED
  BY <1>1, <1>2, <1>3 DEF JobInv

\* Every step keeps what is known of the job.
LEMMA JobStep ==
    ASSUME TypeOK, RowInv, JobInv, [Next]_vars
    PROVE  JobInv'
<1>p. RowsType /\ StateType /\ JobType
  BY DEF TypeOK
<1>1. CASE View
  BY <1>1, <1>p, RequeuedIsMild, MildKeepsJob DEF View
<1>2. ASSUME NEW t \in Thresholds, SaveThreshold(t)
      PROVE  JobInv'
  BY <1>2, <1>p, SameIsMild, MildKeepsJob DEF SaveThreshold, rows
<1>3. ASSUME NEW cats \in Scopes, Delete(cats)
      PROVE  JobInv'
  BY <1>3, DeleteKeepsJob
<1>4. ASSUME NEW cats \in Scopes, BeginRefresh(cats)
      PROVE  JobInv'
  BY <1>4, BeginKeepsJob DEF BeginRefresh
<1>5. CASE Store
  <2>1. pc = "fetch" /\ pc' = "screen" /\ UNCHANGED <<plan, ranked, days>>
    BY <1>5 DEF Store
  <2> QED
    BY <2>1 DEF JobInv, JobShape, AtWork, RankedStays, AllTaken, DaysAhead,
       EveryDayHasItsDigest
<1>6. CASE StoreFails
  BY <1>6, EndsKeepsJob DEF StoreFails
<1>7. CASE Screen
  BY <1>7, EndsKeepsJob DEF Screen
<1>8. CASE BeginSummary
  BY <1>8, BeginKeepsJob DEF BeginSummary
<1>9. CASE NothingToDo
  BY <1>9, NothingToDoIsDone, DoneKeepsJob DEF NothingToDo
<1>10. CASE Blocked
  BY <1>10, EndsKeepsJob DEF Blocked
<1>11. CASE Plan
  BY <1>11, PlanKeepsJob
<1>12. CASE StartDay
  <2>1. PICK d \in days : today' = d /\ days' = days \ {d}
    BY <1>12 DEF StartDay
  <2>2. AtWork /\ AtWork' /\ pc = "days" /\ pc' # "days"
        /\ UNCHANGED <<rows, shown, plan, ranked, scope, disturbed>>
    BY <1>12 DEF StartDay, AtWork
  <2> QED
    BY <2>1, <2>2, WorkKeepsJob
<1>13. CASE Rank \/ Compose
  BY <1>13, WorkKeepsJob DEF Rank, Compose, AtWork
<1>14. CASE Publish
  BY <1>14, PublishKeepsJob
<1>15. CASE DayFails
  BY <1>15, EndsKeepsJob DEF DayFails
<1>16. CASE Finish
  <2>1. EveryDayHasItsDigest'
    <3>1. pc = "days" /\ days = {} /\ UNCHANGED <<rows, shown>> /\ disturbed' = disturbed
      BY <1>16 DEF Finish, Ends
    <3>2. ~disturbed => \A p \in Papers : Complete(p) /\ day[p] # Undated => HasDigest(day[p])
      BY <3>1 DEF JobInv, DaysAhead, AtWork
    <3> QED
      BY <3>1, <3>2 DEF EveryDayHasItsDigest, Complete, HasDigest, rows, shown
  <2>2. Ends("partial") \/ Ends("success")
    BY <1>16 DEF Finish
  <2> QED
    BY <2>1, <2>2, DoneKeepsJob
<1>17. CASE Stop
  BY <1>17, EndsKeepsJob DEF Stop
<1>18. CASE Crash
  BY <1>18, EndsKeepsJob DEF Crash
<1>19. CASE Recover \/ UNCHANGED vars
  BY <1>19, <1>p, SameIsMild, MildKeepsJob DEF Recover, vars, rows
<1> QED
  BY <1>1, <1>2, <1>3, <1>4, <1>5, <1>6, <1>7, <1>8, <1>9, <1>10, <1>11, <1>12, <1>13,
     <1>14, <1>15, <1>16, <1>17, <1>18, <1>19
     DEF Next, Outside, RefreshSteps, SummarySteps

-----------------------------------------------------------------------------
\* The inductive invariant of the digest.
LEMMA DigestInvariant == Spec => []DigestInv
<1>1. Init => DigestInv
  BY TypeInitial, RowInitial, JobInitial DEF DigestInv
<1>2. DigestInv /\ [Next]_vars => DigestInv'
  BY TypeStep, RowStep, JobStep DEF DigestInv, JobInv
<1> QED
  BY <1>1, <1>2, PTL DEF Spec

\* A paper has a score exactly when a digest that shows it was published,
\* wherever a day fails, is stopped, crashes or loses papers to a deletion.
THEOREM ScoresArePublished == Spec => []ScoredIsPublished
<1>1. DigestInv => ScoredIsPublished
  BY DEF DigestInv, RowInv
<1> QED
  BY <1>1, DigestInvariant, PTL

\* A score is of the text that is stored, as long as the versions were known
\* whenever the text was replaced, whichever source answered.
THEOREM ScoresAreOfStoredTexts == Spec => []ScoreIsOfStoredText
<1>1. DigestInv => ScoreIsOfStoredText
  BY DEF DigestInv, RowInv
<1> QED
  BY <1>1, DigestInvariant, PTL

\* An update of the digest that says it is done has left no ranked day without
\* a digest of its own, for any number of days.
THEOREM DoneIsDone == Spec => []EveryDayHasItsDigest
<1>1. DigestInv => EveryDayHasItsDigest
  BY DEF DigestInv, JobInv
<1> QED
  BY <1>1, DigestInvariant, PTL

-----------------------------------------------------------------------------
(***************************************************************************)
(* Every job ends: the steps it has left are counted down.                 *)
(***************************************************************************)
\* What a job does, in order; the pages beside it, deletions and changed
\* settings are not among it.
JobSteps == \/ Store \/ StoreFails \/ Screen
            \/ NothingToDo \/ Blocked \/ Plan \/ StartDay \/ Rank \/ Compose
            \/ Publish \/ DayFails \/ Finish \/ Stop \/ Crash
Begins == BeginSummary \/ \E cats \in Scopes : BeginRefresh(cats)

Longest == 4 * LastDay + 6

\* The steps in front of a job on its way to the end of the day it is at, and
\* four for each day that it has still to do.
Ahead == CASE pc = "idle" -> 0
           [] pc = "screen" -> 1
           [] pc = "fetch" -> 2
           [] pc = "plan" -> Longest
           [] pc = "days" -> 1
           [] pc = "publish" -> 2
           [] pc = "compose" -> 3
           [] pc = "rank" -> 4
StepsLeft == Ahead + 4 * Cardinality(days)

\* A step of the job uses one up and, until the next job begins, no other step
\* changes what is left.
CountsDown ==
    /\ JobSteps => StepsLeft' < StepsLeft
    /\ ~JobSteps /\ ~Begins => StepsLeft' = StepsLeft

\* Any days are finitely many, and no more than there are.
LEMMA DaysAreFew ==
    ASSUME NEW D \in SUBSET AllDays
    PROVE  /\ IsFiniteSet(D) /\ Cardinality(D) \in 0 .. LastDay + 1
           /\ \A d \in D : /\ Cardinality(D \ {d}) = Cardinality(D) - 1
                           /\ Cardinality(D \ {d}) \in Nat
<1>1. Undated \in Nat /\ LastDay \in Nat
  BY DEF Undated
<1>2. IsFiniteSet(AllDays) /\ Cardinality(AllDays) = LastDay + 1
  BY <1>1, FS_Interval DEF AllDays, Undated
<1>3. IsFiniteSet(D) /\ Cardinality(D) <= LastDay + 1
  BY <1>2, FS_Subset
<1>4. Cardinality(D) \in Nat
  BY <1>3, FS_CardinalityType
<1>5. ASSUME NEW d \in D
      PROVE  /\ Cardinality(D \ {d}) = Cardinality(D) - 1
             /\ Cardinality(D \ {d}) \in Nat
  BY <1>3, <1>5, FS_RemoveElement, FS_CardinalityType
<1> QED
  BY <1>1, <1>3, <1>4, <1>5

\* A job that is there has a step left.
LEMMA JobsHaveSteps ==
    ASSUME TypeOK
    PROVE  /\ Ahead \in Nat /\ Cardinality(days) \in Nat /\ StepsLeft \in Nat
           /\ pc # "idle" => StepsLeft > 0
<1>1. Cardinality(days) \in Nat
  BY DaysAreFew DEF TypeOK, JobType
<1>2. Longest \in Nat /\ Longest > 0
  BY DEF Longest
<1>3. Ahead \in Nat /\ (pc # "idle" => Ahead > 0)
  BY <1>2 DEF TypeOK, JobType, Ahead
<1> QED
  BY <1>1, <1>3 DEF StepsLeft

\* A job that is over has none.
LEMMA EndsLeaveNothing == ASSUME NEW a, Ends(a) PROVE StepsLeft' = 0
  BY FS_EmptySet DEF Ends, StepsLeft, Ahead

\* Every step of a job is one less.
LEMMA JobStepsCount ==
    ASSUME TypeOK, JobShape, JobSteps
    PROVE  StepsLeft' < StepsLeft
<1>p. RowsType /\ JobType /\ LastDay \in Nat
  BY DEF TypeOK
<1>1. CASE \E a : Ends(a)
  <2>1. pc # "idle"
    BY <1>1 DEF JobSteps, Store, StoreFails, Screen, NothingToDo, Blocked, Plan,
       StartDay, Rank, Compose, Publish, DayFails, Finish, Stop, Crash, Ends
  <2> QED
    BY <1>1, <2>1, EndsLeaveNothing, JobsHaveSteps
<1>2. CASE Store \/ Rank \/ Compose \/ Publish
  <2>1. days' = days /\ Ahead' < Ahead /\ Ahead' \in Nat
    BY <1>2 DEF Store, Rank, Compose, Publish, Ahead
  <2> QED
    BY <2>1, JobsHaveSteps DEF StepsLeft
<1>3. CASE Plan
  <2>1. pc = "plan" /\ pc' = "days" /\ days = {} /\ days' \in SUBSET AllDays
    BY <1>3, <1>p, DaysAreDays DEF Plan, JobShape, AtWork
  <2>2. Cardinality(days') \in 0 .. LastDay + 1 /\ Cardinality(days) = 0
    BY <2>1, DaysAreFew, FS_EmptySet
  <2>3. StepsLeft = Longest
    BY <2>1, <2>2, <1>p DEF StepsLeft, Ahead, Longest
  <2>4. StepsLeft' = 1 + 4 * Cardinality(days')
    BY <2>1 DEF StepsLeft, Ahead
  <2> QED
    BY <1>p, <2>2, <2>3, <2>4 DEF Longest
<1>4. CASE StartDay
  <2>1. PICK d \in days : days' = days \ {d}
    BY <1>4 DEF StartDay
  <2>2. pc = "days" /\ pc' \in {"rank", "compose"}
    BY <1>4 DEF StartDay
  <2>3. Ahead = 1 /\ Ahead' \in 3..4
    BY <2>2 DEF Ahead
  <2>4. Cardinality(days') = Cardinality(days) - 1 /\ Cardinality(days') \in Nat
        /\ Cardinality(days) \in Nat
    BY <1>p, <2>1, DaysAreFew DEF JobType
  <2> QED
    BY <2>3, <2>4 DEF StepsLeft
<1> QED
  BY <1>1, <1>2, <1>3, <1>4
     DEF JobSteps, StoreFails, Screen, NothingToDo, Blocked, DayFails, Finish, Stop, Crash

\* A job has at most 4 * LastDay + 6 steps left: each of its steps uses one up,
\* and no page, deletion, changed setting or recovery gives one back.  It ends
\* however many days it finds, whichever of them fails and whatever arXiv
\* lists; a day that cannot be ranked is not tried again by the same job.
THEOREM JobsRunOut ==
    Spec => [](StepsLeft \in 0 .. Longest) /\ [][CountsDown]_vars
<1>1. Init => StepsLeft \in 0 .. Longest
  BY FS_EmptySet DEF Init, StepsLeft, Ahead, Longest
<1>2. DigestInv /\ [Next]_vars => [CountsDown]_vars
  <2> SUFFICES ASSUME TypeOK, JobShape, Next
               PROVE  CountsDown
    BY DEF DigestInv, JobInv
  <2>1. CASE JobSteps
    BY <2>1, JobStepsCount DEF CountsDown
  <2>2. CASE ~JobSteps /\ ~Begins
    <3>1. UNCHANGED <<pc, days>>
      BY <2>2 DEF Next, JobSteps, Begins, Outside, RefreshSteps, SummarySteps, View,
         SaveThreshold, Delete, Recover, job
    <3> QED
      BY <2>2, <3>1 DEF CountsDown, StepsLeft, Ahead
  <2> QED
    BY <2>1, <2>2 DEF CountsDown
<1>3. DigestInv /\ StepsLeft \in 0 .. Longest /\ [Next]_vars => (StepsLeft \in 0 .. Longest)'
  <2> SUFFICES ASSUME DigestInv, StepsLeft \in 0 .. Longest, [Next]_vars
               PROVE  StepsLeft' \in 0 .. Longest
    OBVIOUS
  <2>0. TypeOK /\ JobShape /\ TypeOK' /\ JobShape'
    BY TypeStep, RowStep, JobStep DEF DigestInv, JobInv
  <2>1. StepsLeft' \in Nat
    <3>1. Cardinality(days') \in Nat
      BY <2>0, DaysAreFew DEF TypeOK, JobType
    <3>2. Ahead' \in Nat
      BY <2>0 DEF TypeOK, JobType, Ahead, Longest
    <3> QED
      BY <3>1, <3>2 DEF StepsLeft
  <2>2. CASE Begins
    <3>1. pc' \in {"plan", "fetch"} /\ days' = {}
      BY <2>0, <2>2 DEF Begins, BeginSummary, BeginRefresh, JobShape, AtWork
    <3>2. Cardinality(days') = 0
      BY <3>1, FS_EmptySet
    <3> QED
      BY <2>1, <3>1, <3>2 DEF StepsLeft, Ahead, Longest
  <2>3. CASE UNCHANGED vars
    BY <2>3 DEF StepsLeft, Ahead, vars, job
  <2>4. CASE ~Begins /\ ~UNCHANGED vars
    BY <1>2, <2>1, <2>4 DEF CountsDown, Longest
  <2> QED
    BY <2>2, <2>3, <2>4
<1> QED
  BY <1>1, <1>2, <1>3, DigestInvariant, PTL DEF Spec

-----------------------------------------------------------------------------
(***************************************************************************)
(* ArxivDigest implements ScoreLedger.                                     *)
(***************************************************************************)
InHand == pc \in {"rank", "compose", "publish"}

\* Every day to do has papers to show, and the day in hand is no longer to do;
\* a paper to rank that is ranked is of a day that is done.
LedgerInv ==
    /\ \A d \in days : Evidence(d) # {}
    /\ InHand => Evidence(today) # {} /\ today \notin days
    /\ \A p \in plan : Complete(p) => day[p] \notin days /\ (InHand => day[p] # today)

\* What the job has read stays, and no paper of its plan is ranked.
LEMMA LedgerInvStays ==
    ASSUME JobType, LedgerInv, UNCHANGED <<plan, ranked, days, today, pc>>,
           \A p \in plan \cup ranked : day'[p] = day[p],
           \A p \in Papers : Complete(p)' => Complete(p)
    PROVE  LedgerInv'
<1>1. \A d : Evidence(d)' = Evidence(d)
  BY DEF Evidence
<1>2. plan \subseteq Papers
  BY DEF JobType
<1> QED
  BY <1>1, <1>2 DEF LedgerInv, InHand

\* A day that needs work has a paper that waits or one that is ranked.
LEMMA WorkHasEvidence ==
    ASSUME NEW cats, NEW least, NEW d \in WorkDays(cats, least)
    PROVE  \E p \in {q \in Waiting(cats) : Eligible(q, least)} \cup Ranked(cats) : day[p] = d
  BY DEF WorkDays, Missing

\* Every step keeps the days and the papers of the job apart.
LEMMA LedgerInvStep ==
    ASSUME DigestInv, LedgerInv, [Next]_vars
    PROVE  LedgerInv'
<1>p. TypeOK /\ RowInv /\ JobInv /\ JobInv' /\ RowsType /\ JobType
  BY JobStep DEF DigestInv, TypeOK
<1>1. CASE ~AtWork'
  BY <1>1, <1>p DEF JobInv, JobShape, AtWork, LedgerInv, InHand
<1>2. CASE View
  BY <1>2, <1>p, RequeuedIsMild, LedgerInvStays DEF View, Mild, job
<1>3. ASSUME NEW t \in Thresholds, SaveThreshold(t)
      PROVE  LedgerInv'
  BY <1>3, <1>p, SameIsMild, LedgerInvStays DEF SaveThreshold, Mild, rows, job
<1>4. ASSUME NEW cats \in Scopes, Delete(cats)
      PROVE  LedgerInv'
  <2>1. \A p \in Papers : Complete(p)' => Complete(p)
    BY <1>4, <1>p DEF Delete, RowsType, Complete
  <2>2. \A p \in plan \cup ranked : day'[p] = day[p]
    BY <1>4, <1>p DEF Delete, JobType
  <2> QED
    BY <1>4, <1>p, <2>1, <2>2, LedgerInvStays DEF Delete
<1>5. CASE Plan
  <2>1. /\ pc' = "days" /\ days' = WorkDays(scope, minimum) /\ day' = day
        /\ plan' = {p \in Waiting(scope) : Eligible(p, minimum)} /\ ranked' = Ranked(scope)
    BY <1>5 DEF Plan
  <2>2. \A d \in days' : Evidence(d)' # {}
    BY <2>1, WorkHasEvidence DEF Evidence
  <2>3. \A p \in plan' : ~Complete(p)'
    <3>1. \A p \in plan' : p \in Papers /\ ~Complete(p)
      BY <2>1 DEF Waiting, Complete
    <3> QED
      BY <1>5, <1>p, <3>1, ScreenedIsMild DEF Plan, Mild
  <2> QED
    BY <2>1, <2>2, <2>3 DEF LedgerInv, InHand
<1>6. CASE StartDay
  <2>1. /\ today' \in days /\ days' = days \ {today'}
        /\ UNCHANGED <<plan, ranked, day, status>>
    BY <1>6 DEF StartDay, rows
  <2>2. \A d : Evidence(d)' = Evidence(d)
    BY <2>1 DEF Evidence
  <2>3. \A p \in plan : Complete(p)' => day[p] \notin days
    BY <2>1 DEF LedgerInv, Complete
  <2> QED
    BY <2>1, <2>2, <2>3 DEF LedgerInv
<1>7. CASE Rank \/ Compose
  <2>1. /\ InHand /\ InHand'
        /\ UNCHANGED <<plan, ranked, days, today, day, status>>
    BY <1>7 DEF Rank, Compose, InHand, rows
  <2>2. \A d : Evidence(d)' = Evidence(d)
    BY <2>1 DEF Evidence
  <2> QED
    BY <2>1, <2>2 DEF LedgerInv, Complete
<1>8. CASE Publish
  <2>1. /\ InHand /\ ~InHand'
        /\ UNCHANGED <<plan, ranked, days, today, day>>
    BY <1>8 DEF Publish, InHand
  <2>2. \A d : Evidence(d)' = Evidence(d)
    BY <2>1 DEF Evidence
  <2>3. ASSUME NEW p \in plan, Complete(p)'
        PROVE  day[p] \notin days
    <3>1. CASE day[p] = today
      BY <2>1, <3>1 DEF LedgerInv
    <3>2. CASE day[p] # today
      <4>1. p \in Papers /\ p \notin Evidence(today)
        BY <1>p, <3>2 DEF JobType, Evidence
      <4>2. Complete(p)
        BY <1>8, <1>p, <2>3, <4>1 DEF Publish, RowsType, Complete
      <4> QED
        BY <4>2 DEF LedgerInv
    <3> QED
      BY <3>1, <3>2
  <2> QED
    BY <2>1, <2>2, <2>3 DEF LedgerInv
<1>9. CASE UNCHANGED vars
  BY <1>9, <1>p, LedgerInvStays DEF vars, rows, job, Complete
<1>10. CASE Recover
  BY <1>1, <1>10 DEF Recover, AtWork, job
<1>11. CASE \/ \E cats \in Scopes : BeginRefresh(cats)
            \/ Store \/ StoreFails \/ Screen \/ BeginSummary \/ NothingToDo
            \/ Blocked \/ DayFails \/ Finish \/ Stop \/ Crash
  BY <1>1, <1>11 DEF BeginRefresh, Store, StoreFails, Screen, BeginSummary, NothingToDo,
     Blocked, DayFails, Finish, Stop, Crash, Ends, AtWork
<1> QED
  BY <1>2, <1>3, <1>4, <1>5, <1>6, <1>7, <1>8, <1>9, <1>10, <1>11
     DEF Next, Outside, RefreshSteps, SummarySteps

\* Papers, scores and digests that stay are a stutter of the ledger.
LEMMA LedgerStays ==
    ASSUME Mild, UNCHANGED <<scored, digests>>
    PROVE  UNCHANGED Ledger!ledgerVars
  BY DEF Mild, Ledger!ledgerVars

\* Storing what was fetched lets the new and the revised papers arrive.
LEMMA StoreArrives ==
    ASSUME TypeOK, RowInv, NEW got, Honest(got), StoreAll(got), UNCHANGED shown
    PROVE  Ledger!LedgerNext
<1> DEFINE new == {p \in Papers : got[p].text # 0 /\ (~Stored(p) \/ Revised(p, got))}
<1>p. RowsType
  BY DEF TypeOK
<1>1. ASSUME NEW p \in Papers
      PROVE  /\ status'[p] = IF p \in new THEN "pending" ELSE status[p]
             /\ scored'[p] = IF Revised(p, got) THEN 0 ELSE scored[p]
  BY DEF StoreAll, ScoredAfter
<1>2. \A p \in Papers : Revised(p, got) => p \in new
  BY DEF Revised, Honest
<1>3. \A p \in new : Revised(p, got) \/ scored[p] = 0
  BY DEF RowInv, RowsAgree, Stored, Complete
<1>4. {p \in Papers : Stored(p)}' = {p \in Papers : Stored(p)} \cup new
  <2> HIDE DEF new
  <2>1. new \subseteq Papers
    BY DEF new
  <2>2. \A p \in Papers : Stored(p)' <=> Stored(p) \/ p \in new
    BY <1>1 DEF Stored
  <2> QED
    BY <2>1, <2>2
<1>5. scored' = [p \in Papers |-> IF p \in new THEN 0 ELSE scored[p]]
  <2>1. scored' = [p \in Papers |-> scored'[p]]
    BY DEF StoreAll, ScoredAfter
  <2> HIDE DEF new
  <2>2. \A p \in Papers : scored'[p] = IF p \in new THEN 0 ELSE scored[p]
    BY <1>1, <1>2, <1>3
  <2> QED
    BY <2>1, <2>2
<1>6. new \in SUBSET Papers
  OBVIOUS
<1> HIDE DEF new
<1>7. Ledger!Arrive(new)
  BY <1>4, <1>5 DEF Ledger!Arrive, shown
<1> QED
  BY <1>6, <1>7 DEF Ledger!LedgerNext

\* A publication writes a digest that is not empty with the scores of those of
\* its papers that have none.
LEMMA PublishPublishes ==
    ASSUME TypeOK, RowInv, RankedStays, LedgerInv, Publish
    PROVE  Ledger!LedgerNext
<1> DEFINE shows == Evidence(today)
<1>p. RowsType /\ JobType
  BY DEF TypeOK
<1>1. /\ shows # {} /\ \A p \in shows : Stored(p)
      /\ digests' = digests \cup {shows}
  BY DEF Publish, LedgerInv, InHand
<1>2. shows \in SUBSET Papers
  BY <1>p DEF JobType, Evidence
<1>3. ASSUME NEW p \in Papers
      PROVE  /\ status'[p] = IF p \in shows THEN "complete" ELSE status[p]
             /\ scored'[p] = IF p \in Fresh(today) THEN text[p] ELSE scored[p]
  BY <1>p DEF Publish, RowsType
<1>4. {p \in Papers : Stored(p)}' = {p \in Papers : Stored(p)}
  <2>1. \A p \in Papers : Stored(p)' <=> Stored(p)
    BY <1>1, <1>3 DEF Stored
  <2> QED
    BY <2>1
<1>5. \A p \in Fresh(today) : p \in shows /\ ~Complete(p)
  BY DEF Fresh, Evidence, LedgerInv, Publish, InHand
<1>6. \A p \in shows \ Fresh(today) : Complete(p)
  BY <1>1 DEF Fresh, Evidence, RankedStays
<1> HIDE DEF shows
<1>7. \A p \in shows : scored'[p] # 0
  BY <1>1, <1>2, <1>3, <1>6 DEF RowInv, RowsAgree
<1>8. \A p \in Papers : scored[p] # 0 \/ p \notin shows => scored'[p] = scored[p]
  BY <1>3, <1>5 DEF RowInv, RowsAgree
<1>9. shows \subseteq {p \in Papers : Stored(p)}
  BY <1>1, <1>2
<1>10. Ledger!Publish(shows)
  BY <1>1, <1>4, <1>7, <1>8, <1>9 DEF Ledger!Publish
<1> QED
  BY <1>2, <1>10 DEF Ledger!LedgerNext

\* A deletion takes papers with their scores, and the digests that show one.
LEMMA DeleteDeletes ==
    ASSUME TypeOK, NEW cats, Delete(cats)
    PROVE  Ledger!LedgerNext
<1> DEFINE gone == {p \in Papers : CategoryOf[p] \in cats /\ Stored(p)}
<1>1. /\ \A p \in Papers : status'[p] = IF p \in gone THEN "absent" ELSE status[p]
      /\ scored' = [p \in Papers |-> IF p \in gone THEN 0 ELSE scored[p]]
      /\ digests' = {shows \in digests : shows \cap gone = {}}
  BY DEF Delete
<1>2. gone \in SUBSET Papers
  OBVIOUS
<1> HIDE DEF gone
<1>3. {p \in Papers : Stored(p)}' = {p \in Papers : Stored(p)} \ gone
  <2>1. \A p \in Papers : Stored(p)' <=> Stored(p) /\ p \notin gone
    BY <1>1 DEF Stored
  <2> QED
    BY <2>1
<1>4. Ledger!Delete(gone)
  BY <1>1, <1>3 DEF Ledger!Delete
<1> QED
  BY <1>2, <1>4 DEF Ledger!LedgerNext

\* Every step is one of the ledger, or leaves the ledger alone.
LEMMA LedgerStep ==
    ASSUME DigestInv, LedgerInv, [Next]_vars
    PROVE  [Ledger!LedgerNext]_(Ledger!ledgerVars)
<1>p. TypeOK /\ RowInv /\ RankedStays /\ RowsType
  BY DEF DigestInv, TypeOK, JobInv
<1>1. CASE View
  BY <1>1, <1>p, RequeuedIsMild, LedgerStays DEF View, shown
<1>2. ASSUME NEW t \in Thresholds, SaveThreshold(t)
      PROVE  UNCHANGED Ledger!ledgerVars
  BY <1>2, <1>p, SameIsMild, LedgerStays DEF SaveThreshold, rows, shown
<1>3. ASSUME NEW cats \in Scopes, Delete(cats)
      PROVE  Ledger!LedgerNext
  BY <1>3, <1>p, DeleteDeletes
<1>4. ASSUME NEW cats \in Scopes, BeginRefresh(cats)
      PROVE  UNCHANGED Ledger!ledgerVars
  BY <1>4, <1>p, RequeuedIsMild, LedgerStays DEF BeginRefresh, shown
<1>5. CASE Store
  <2>1. PICK got : StoreAll(got) /\ Honest(got)
    BY <1>5, ArxivIsHonest DEF Store
  <2> QED
    BY <1>5, <1>p, <2>1, StoreArrives DEF Store
<1>6. CASE BeginSummary
  BY <1>6, <1>p, RequeuedIsMild, LedgerStays DEF BeginSummary, shown
<1>7. CASE Screen \/ NothingToDo \/ Blocked \/ Plan
  BY <1>7, <1>p, ScreenedIsMild, LedgerStays DEF Screen, NothingToDo, Blocked, Plan, shown
<1>8. CASE StoreFails \/ StartDay \/ Rank \/ Compose \/ DayFails \/ Finish
  BY <1>8, <1>p, SameIsMild, LedgerStays
     DEF StoreFails, StartDay, Rank, Compose, DayFails, Finish, rows, shown
<1>9. CASE Publish
  BY <1>9, <1>p, PublishPublishes
<1>10. CASE Stop
  BY <1>10, <1>p, SameIsMild, ScreenedIsMild, LedgerStays DEF Stop, shown
<1>11. CASE Crash \/ Recover \/ UNCHANGED vars
  BY <1>11, <1>p, SameIsMild, LedgerStays DEF Crash, Recover, vars, rows, shown
<1> QED
  BY <1>1, <1>2, <1>3, <1>4, <1>5, <1>6, <1>7, <1>8, <1>9, <1>10, <1>11
     DEF Next, Outside, RefreshSteps, SummarySteps

\* ArxivDigest implements ScoreLedger, for any papers, days and thresholds:
\* whatever is stopped, crashes, fails or is deleted, a score is written only
\* with a digest that shows its paper, no digest is empty, and none of them
\* ranks again a paper that has a score.
THEOREM DigestKeepsTheLedger == Spec => LedgerIsKept
<1>1. Init => LedgerInv /\ Ledger!LedgerInit
  BY DEF Init, LedgerInv, InHand, Ledger!LedgerInit, Stored
<1>2. DigestInv /\ LedgerInv /\ [Next]_vars => LedgerInv'
  BY LedgerInvStep
<1>3. DigestInv /\ LedgerInv /\ [Next]_vars => [Ledger!LedgerNext]_(Ledger!ledgerVars)
  BY LedgerStep
<1> QED
  BY <1>1, <1>2, <1>3, DigestInvariant, PTL DEF Spec, LedgerIsKept, Ledger!LedgerSpec
=============================================================================
