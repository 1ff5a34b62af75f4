------------------------------ MODULE MCReader ------------------------------
(***************************************************************************)
(* The arXiv digest and the review page.  They share no variable: what the *)
(* digest does to the rows of the page is Evaluate and Replace there.  A   *)
(* behaviour is one of the digest or one of the page, by its first state.  *)
(***************************************************************************)
EXTENDS ArxivDigest, ReviewPage

CONSTANTS a1, a2, cs, lg

\* Two papers of two categories, of different local scores; the first has a
\* later version.
MCPapers == {a1, a2}
MCCategories == {cs, lg}
MCScopes == {MCCategories, {cs}}
MCCategoryOf == [p \in MCPapers |-> IF p = a1 THEN cs ELSE lg]
MCScore == [p \in MCPapers |-> IF p = a1 THEN 2 ELSE 1]
MCVersions == [p \in MCPapers |-> IF p = a1 THEN 2 ELSE 1]

\* Two entries of the same time, one on a page.
MCStamp == [i \in Items |-> 1]
MCFilters == {[read |-> "all", sort |-> "ai"], [read |-> "unread", sort |-> "date"]}

VARIABLE part

readerVars == <<vars, pageVars, part>>

Digest(A) == part = "digest" /\ A /\ UNCHANGED <<pageVars, part>>
Page(A) == part = "page" /\ A /\ UNCHANGED <<vars, part>>

ReaderInit == Init /\ PageInit /\ part \in {"digest", "page"}
              /\ (part = "page" => threshold = 1 /\ inDay = Items /\ filters.read = "unread")
              /\ (part = "digest" => inDay = {} /\ filters.read = "all")

DigestActions ==
    \/ Digest(View)
    \/ \E t \in Thresholds : Digest(SaveThreshold(t))
    \/ \E cats \in Scopes : Digest(Delete(cats)) \/ Digest(BeginRefresh(cats))
    \/ Digest(Store) \/ Digest(StoreFails) \/ Digest(Screen)
    \/ Digest(BeginSummary) \/ Digest(NothingToDo) \/ Digest(Blocked)
    \/ Digest(Plan) \/ Digest(StartDay) \/ Digest(Rank) \/ Digest(Compose)
    \/ Digest(Publish) \/ Digest(DayFails) \/ Digest(Finish)
    \/ Digest(Stop) \/ Digest(Crash) \/ Digest(Recover)

PageActions ==
    \/ Page(OpenDay)
    \/ Page(LoadMore)
    \/ \E g \in 0..MaxReloads : Page(AnswerLoad(g)) \/ Page(Receive(g)) \/ Page(LoadFails(g))
    \/ \E f \in Filters : Page(ChangeFilters(f))
    \/ \E i \in Items : Page(StartChange(i)) \/ Page(SaveChange(i)) \/ Page(EndChange(i))
    \/ Page(StartFinish) \/ Page(SaveFinish) \/ Page(EndFinish)
    \/ Page(StartBulk) \/ Page(SaveBulk) \/ Page(EndBulk)
    \/ \E r \in late : Page(LateSave(r))
    \/ \E i \in Items : Page(Replace(i)) \/ \E s \in Scores : Page(Evaluate(i, s))

ReaderNext == DigestActions \/ PageActions

ReaderSpec == ReaderInit /\ [][ReaderNext]_readerVars
              /\ WF_readerVars(Digest(Steps)) /\ SF_readerVars(Digest(BeginSummary))
              /\ SF_readerVars(Digest(Plan)) /\ SF_readerVars(Digest(Rank))
              /\ SF_readerVars(Digest(Compose))
=============================================================================
