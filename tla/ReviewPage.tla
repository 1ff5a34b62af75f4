----------------------------- MODULE ReviewPage -----------------------------
(***************************************************************************)
(* One day of the review page: the server lists its entries page by page   *)
(* behind a cursor (review.py, review_sql.py), and the page in the browser *)
(* (static/review-state.js, static/review.js) collects them, while the     *)
(* reader marks entries, changes filters and finishes the day, and while   *)
(* jobs and other pages change the rows.                                   *)
(*                                                                         *)
(* Every request is answered by a thread of its own: a request is sent,    *)
(* the server acts on it at some later time, and its answer arrives later  *)
(* still, in any order with the others.                                    *)
(***************************************************************************)
EXTENDS Integers, FiniteSets, Sequences

CONSTANTS
    Items,            \* ids of the entries of the day
    Stamp,            \* the time an entry was published
    Scores,           \* AI scores
    Minimum,          \* minimum_relevance
    Filters,          \* what the reader can ask for: read state and order
    PageSize,
    MaxReloads,       \* bound: filter changes
    MaxActions        \* bound: marks by the reader, and rows others change

ASSUME PageAssumption ==
    /\ Items \subseteq Nat /\ Stamp \in [Items -> Nat] /\ Scores \subseteq Nat
    /\ Minimum \in Nat /\ PageSize \in Nat \ {0}
    /\ Filters \subseteq [read : {"all", "unread"}, sort : {"ai", "date"}]
    /\ MaxReloads \in Nat /\ MaxActions \in Nat

VARIABLES
    \* the rows
    inDay, isRead, aiScore,
    \* the page: its filters and their generation; the loaded entries, with
    \* the read state they show; where the list goes on; whether it loads
    filters, generation, loaded, showsRead, nextCursor, hasMore, dayState,
    \* the fields changed since: mutationRevision, itemOverrides and
    \* dayReadOverrides
    revision, override, dayOverride,
    \* requests: a page per generation, a change per entry (readMutations),
    \* the finish of the day, the marking of what is loaded
    load, change, finish, bulk,
    late,             \* requests the page gave up, which the server may carry out
    strayed,          \* history: entries that such a request changed since
    touched,          \* history: rows that changed since the list was opened
    contended,        \* history: entries that two requests changed at once
    reloads, actions

itemRows == <<inDay, isRead, aiScore>>
list == <<loaded, nextCursor, hasMore, dayState>>
overrides == <<revision, override, dayOverride>>
marks == <<change, finish, bulk>>
strays == <<late, strayed>>
counters == <<reloads, actions>>
pageVars == <<itemRows, filters, generation, list, showsRead, overrides,
              load, marks, strays, touched, contended, counters>>

-----------------------------------------------------------------------------
(* The list of the server *)

NoScore == -1

\* A score makes an entry "keep" or "drop"; without one it waits.
Cohort(i) == IF aiScore[i] = NoScore THEN 3
             ELSE IF aiScore[i] >= Minimum THEN 0 ELSE 1

\* key_for and order_keys: ascending, ids last.
\* Mutant: entries of the same time and score are not told apart.
KeyWithoutId(i, sort) ==
    IF sort = "date" THEN <<-Stamp[i]>>
    ELSE <<Cohort(i), -aiScore[i], -Stamp[i]>>
Key(i, sort) ==
    IF sort = "date" THEN <<-Stamp[i], -i>>
    ELSE <<Cohort(i), -aiScore[i], -Stamp[i], -i>>

\* (keys) > (cursor), as SQLite compares rows.
After(a, b) == \E k \in DOMAIN a :
                  a[k] > b[k] /\ \A m \in 1..(k - 1) : a[m] = b[m]

NoCursor == <<>>

\* filter_sql.
Matches(i, f) == i \in inDay /\ (f.read = "unread" => ~isRead[i])

Rest(f, cursor) ==
    {i \in Items : Matches(i, f)
                     /\ (cursor # NoCursor => After(Key(i, f.sort), cursor))}

\* ORDER BY keys LIMIT PageSize.
IsPage(page, rest, sort) ==
    /\ page \subseteq rest /\ Cardinality(page) <= PageSize
    /\ page # rest => Cardinality(page) = PageSize
    /\ \A i \in page, j \in rest \ page : ~After(Key(i, sort), Key(j, sort))

\* The cursor of the next page, if there is one: the key of the last entry.
IsNext(cursor, page, rest, sort) ==
    IF page = rest THEN cursor = NoCursor
    ELSE \E i \in page :
            /\ \A j \in page : ~After(Key(j, sort), Key(i, sort))
            /\ cursor = Key(i, sort)

-----------------------------------------------------------------------------
(* Types *)

Cursors == Seq(Int)

NoLoad == [at |-> "none"]
NoChange == [at |-> "none"]
NoBulk == [at |-> "none"]

Loads ==
    {NoLoad}
      \cup [at : {"sent"}, filters : Filters, append : BOOLEAN,
            cursor : Cursors, revision : Nat]
      \cup [at : {"answered"}, append : BOOLEAN, revision : Nat,
            page : SUBSET Items, read : [Items -> BOOLEAN],
            next : Cursors, more : BOOLEAN]

Changes == {NoChange} \cup [at : {"sent", "done", "refused"},
                            to : BOOLEAN, was : BOOLEAN]

RowTypes ==
    /\ inDay \in SUBSET Items /\ isRead \in [Items -> BOOLEAN]
    /\ aiScore \in [Items -> Scores \cup {NoScore}]
ListTypes ==
    /\ filters \in Filters /\ generation \in Nat
    /\ loaded \in SUBSET Items /\ showsRead \in [Items -> BOOLEAN]
    /\ nextCursor \in Cursors /\ hasMore \in BOOLEAN
    /\ dayState \in {"unknown", "loading", "ready", "failed"}
OverrideTypes ==
    /\ revision \in Nat /\ dayOverride \in Nat
    /\ override \in [Items -> [value : BOOLEAN, revision : Nat]]
MarkTypes ==
    /\ change \in [Items -> Changes]
    /\ finish \in {"none", "sent", "done", "refused"}
    /\ bulk \in {NoBulk} \cup [at : {"sent", "done", "refused"},
                               items : SUBSET Items]
    /\ late \in SUBSET [items : SUBSET Items, to : BOOLEAN]
HistoryTypes ==
    /\ strayed \in SUBSET Items
    /\ touched \in SUBSET Items /\ contended \in SUBSET Items
    /\ reloads \in Nat /\ actions \in Nat
PageTypeOK ==
    /\ RowTypes /\ ListTypes /\ OverrideTypes
    /\ load \in [0..MaxReloads -> Loads] /\ MarkTypes /\ HistoryTypes

PageInit ==
    /\ inDay \in SUBSET Items /\ isRead = [i \in Items |-> FALSE]
    /\ aiScore = [i \in Items |-> NoScore]
    /\ filters \in Filters /\ generation = 0
    /\ loaded = {} /\ showsRead = [i \in Items |-> FALSE]
    /\ nextCursor = NoCursor /\ hasMore = FALSE /\ dayState = "unknown"
    /\ revision = 0 /\ dayOverride = 0
    /\ override = [i \in Items |-> [value |-> FALSE, revision |-> 0]]
    /\ load = [g \in 0..MaxReloads |-> NoLoad]
    /\ change = [i \in Items |-> NoChange]
    /\ finish = "none" /\ bulk = NoBulk
    /\ late = {} /\ strayed = {} /\ touched = {} /\ contended = {}
    /\ reloads = 0 /\ actions = 0

-----------------------------------------------------------------------------
(* Pages of the list *)

\* loadDay.  A list is opened with its first page, again after that failed,
\* and goes on behind its cursor.
Send(append, cursor) ==
    /\ load' = [load EXCEPT ![generation] =
                  [at |-> "sent", filters |-> filters, append |-> append,
                   cursor |-> cursor, revision |-> revision]]
    /\ dayState' = "loading"
    /\ UNCHANGED <<itemRows, filters, generation, loaded, showsRead, nextCursor,
                   hasMore, overrides, marks, strays, touched, contended, counters>>

OpenDay ==
    /\ dayState = "unknown" \/ (dayState = "failed" /\ loaded = {})
    /\ Send(FALSE, NoCursor)

LoadMore ==
    /\ dayState \in {"ready", "failed"} /\ loaded # {} /\ hasMore
    /\ Send(TRUE, nextCursor)

\* list_review_day_items reads the rows in one statement.
AnswerLoad(g) ==
    LET asked == load[g]
        sort == asked.filters.sort
        rest == Rest(asked.filters, asked.cursor)
    IN  /\ asked.at = "sent"
        /\ \E page \in SUBSET rest, next \in {NoCursor} \cup {Key(i, sort) : i \in rest} :
             /\ IsPage(page, rest, sort) /\ IsNext(next, page, rest, sort)
             /\ load' = [load EXCEPT ![g] =
                   [at |-> "answered", append |-> asked.append,
                    revision |-> asked.revision, page |-> page, read |-> isRead,
                    next |-> next, more |-> (page # rest)]]
        /\ UNCHANGED <<itemRows, filters, generation, list, showsRead, overrides,
                       marks, strays, touched, contended, counters>>

\* overlayMutations: what the page changed since it asked wins over what the
\* server answered, and so does a change that is still under way.
\* Mutant: the answer wins while a change is under way.
OverlayConfirmed(i, value, since) ==
    IF override[i].revision > since /\ override[i].revision >= dayOverride
    THEN override[i].value ELSE dayOverride > since \/ value
Overlay(i, value, since) ==
    IF /\ override[i].revision > since \/ change[i] # NoChange
       /\ override[i].revision >= dayOverride
    THEN override[i].value ELSE dayOverride > since \/ value

\* RECEIVE_DAY.  The answer to a list that is not shown any more is dropped.
TakeAnswer(g) ==
    LET got == load[g]
        fresh == IF got.append THEN got.page \ loaded ELSE got.page
    IN  /\ loaded' = IF got.append THEN loaded \cup got.page ELSE got.page
        /\ showsRead' = [i \in Items |->
              IF i \in fresh THEN Overlay(i, got.read[i], got.revision)
              ELSE showsRead[i]]
        /\ nextCursor' = got.next /\ hasMore' = got.more
        /\ dayState' = "ready"
Receive(g) ==
    /\ load[g].at = "answered"
    /\ load' = [load EXCEPT ![g] = NoLoad]
    /\ \/ g = generation /\ TakeAnswer(g)
       \/ g # generation /\ UNCHANGED <<list, showsRead>>
    /\ UNCHANGED <<itemRows, filters, generation, overrides, marks, strays, touched,
                   contended, counters>>

\* A request that fails: "Previously loaded items are retained."
LoadFails(g) ==
    /\ load[g].at = "sent" /\ g = generation
    /\ load' = [load EXCEPT ![g] = NoLoad]
    /\ dayState' = "failed"
    /\ UNCHANGED <<itemRows, filters, generation, loaded, showsRead, nextCursor,
                   hasMore, overrides, marks, strays, touched, contended, counters>>

Idle == (\A i \in Items : change[i] = NoChange) /\ finish = "none" /\ bulk = NoBulk

\* resetForFilters, also with the filters the page has.
ChangeFilters(f) ==
    /\ reloads < MaxReloads /\ reloads' = reloads + 1
    /\ filters' = f /\ generation' = generation + 1
    /\ loaded' = {} /\ nextCursor' = NoCursor /\ hasMore' = FALSE
    /\ showsRead' = [i \in Items |-> FALSE] /\ dayState' = "unknown"
    /\ touched' = {} /\ contended' = IF Idle THEN {} ELSE contended
    /\ strayed' = IF Idle THEN {} ELSE strayed
    /\ UNCHANGED <<itemRows, overrides, load, marks, late, actions>>

-----------------------------------------------------------------------------
(* Marking entries *)

Act == actions < MaxActions /\ actions' = actions + 1

Remember(items, value) ==
    /\ revision' = revision + 1
    /\ override' = [i \in Items |->
          IF i \in items THEN [value |-> value, revision |-> revision + 1]
          ELSE override[i]]

Show(items, value) ==
    showsRead' = [i \in Items |-> IF i \in items \cap loaded THEN value
                                  ELSE showsRead[i]]

\* The rows that change, and of those the ones that leave or enter the list.
SetRead(items, value) ==
    /\ isRead' = [i \in Items |-> IF i \in items THEN value ELSE isRead[i]]
    /\ touched' = IF filters.read = "all" THEN touched ELSE touched \cup items

\* The server makes a change, and its answer arrives.
Saves(items, value) ==
    SetRead(items, value) /\ strayed' = strayed \ items /\ UNCHANGED late

\* The page gets an error, or no answer: the server refuses the change, has
\* made it, or will make it yet.  The page cannot tell, and the first is the
\* case in which the server never comes to it.
GivesUp(items, value) ==
    /\ late' = late \cup {[items |-> items, to |-> value]}
    /\ UNCHANGED <<isRead, touched, strayed>>

\* OPTIMISTIC_READ, one change of an entry at a time.
StartChange(i) ==
    LET to == ~showsRead[i]
    IN  /\ Act /\ i \in loaded /\ change[i] = NoChange
        /\ change' = [change EXCEPT ![i] =
                        [at |-> "sent", to |-> to, was |-> showsRead[i]]]
        /\ Show({i}, to) /\ Remember({i}, to)
        /\ contended' = IF finish = "none" /\ (bulk = NoBulk \/ i \notin bulk.items)
                        THEN contended ELSE contended \cup {i}
        /\ UNCHANGED <<itemRows, filters, generation, list, dayOverride, load,
                       finish, bulk, strays, touched, reloads>>

\* mark_read, which an entry that is gone or a failing request refuses.
SaveChange(i) ==
    /\ change[i].at = "sent"
    /\ \/ /\ i \in inDay /\ Saves({i}, change[i].to)
          /\ change' = [change EXCEPT ![i].at = "done"]
       \/ /\ GivesUp({i}, change[i].to)
          /\ change' = [change EXCEPT ![i].at = "refused"]
    /\ UNCHANGED <<inDay, aiScore, filters, generation, list, showsRead, overrides,
                   load, finish, bulk, contended, counters>>

\* CONFIRM_READ and ROLLBACK_READ.
EndChange(i) ==
    /\ change[i].at \in {"done", "refused"}
    /\ LET shows == IF change[i].at = "done" THEN change[i].to ELSE change[i].was
       IN  Show({i}, shows) /\ Remember({i}, shows)
    /\ change' = [change EXCEPT ![i] = NoChange]
    /\ UNCHANGED <<itemRows, filters, generation, list, dayOverride, load, finish,
                   bulk, strays, touched, contended, counters>>

\* markDayRead, once at a time, for entries that are loaded and others.
StartFinish ==
    /\ Act /\ finish = "none" /\ finish' = "sent"
    /\ contended' = contended \cup {i \in Items : change[i] # NoChange}
    /\ UNCHANGED <<itemRows, filters, generation, list, showsRead, overrides, load,
                   change, bulk, strays, touched, reloads>>

\* finish_review_day, for the entries that the day has then.
SaveFinish ==
    /\ finish = "sent"
    /\ \/ finish' = "done" /\ Saves(inDay, TRUE)
       \/ finish' = "refused" /\ GivesUp(Items, TRUE)
    /\ UNCHANGED <<inDay, aiScore, filters, generation, list, showsRead, overrides,
                   load, change, bulk, contended, counters>>

\* FINISH_DAY_SUCCESS and FINISH_DAY_FAIL.
\* Mutant: a page that was asked for earlier is taken as it comes.
EndFinishForgetting ==
    /\ finish \in {"done", "refused"} /\ finish' = "none"
    /\ IF finish = "done" THEN Show(Items, TRUE) ELSE UNCHANGED showsRead
    /\ UNCHANGED <<itemRows, filters, generation, list, overrides, load, change,
                   bulk, strays, touched, contended, counters>>
EndFinish ==
    /\ finish \in {"done", "refused"} /\ finish' = "none"
    /\ IF finish = "done"
       THEN Show(Items, TRUE) /\ revision' = revision + 1
              /\ dayOverride' = revision + 1
       ELSE UNCHANGED <<showsRead, revision, dayOverride>>
    /\ UNCHANGED <<itemRows, filters, generation, list, override, load, change,
                   bulk, strays, touched, contended, counters>>

\* markVisibleRead: the loaded entries that show as unread.
StartBulk ==
    LET unread == {i \in loaded : ~showsRead[i]}
    IN  /\ Act /\ bulk = NoBulk /\ unread # {}
        /\ bulk' = [at |-> "sent", items |-> unread]
        /\ contended' = contended \cup {i \in unread : change[i] # NoChange}
        /\ UNCHANGED <<itemRows, filters, generation, list, showsRead, overrides,
                       load, change, finish, strays, touched, reloads>>

\* bulk_mark_read of selected entries.
SaveBulk ==
    /\ bulk.at = "sent"
    /\ \/ bulk' = [bulk EXCEPT !.at = "done"] /\ Saves(bulk.items \cap inDay, TRUE)
       \/ bulk' = [bulk EXCEPT !.at = "refused"] /\ GivesUp(bulk.items, TRUE)
    /\ UNCHANGED <<inDay, aiScore, filters, generation, list, showsRead, overrides,
                   load, change, finish, contended, counters>>

\* LOADED_READ_SUCCESS, with one revision for its entries.
EndBulk ==
    /\ bulk.at \in {"done", "refused"} /\ bulk' = NoBulk
    /\ IF bulk.at = "done"
       THEN Show(bulk.items, TRUE) /\ Remember(bulk.items, TRUE)
       ELSE UNCHANGED <<showsRead, revision, override>>
    /\ UNCHANGED <<itemRows, filters, generation, list, dayOverride, load, change,
                   finish, strays, touched, contended, counters>>

\* The server carries out a change that the page has given up.  Equal ones are
\* one member of late, which therefore stays.
LateSave(r) ==
    LET items == r.items \cap inDay
    IN  /\ r \in late
        /\ SetRead(items, r.to) /\ strayed' = strayed \cup items
        /\ UNCHANGED <<inDay, aiScore, filters, generation, list, showsRead, overrides,
                       load, marks, late, contended, counters>>

-----------------------------------------------------------------------------
(* Others: jobs that retrieve and evaluate, and deletions *)

Evaluate(i, s) ==
    /\ Act /\ i \in inDay /\ aiScore[i] # s
    /\ aiScore' = [aiScore EXCEPT ![i] = s]
    /\ touched' = touched \cup {i}
    /\ UNCHANGED <<inDay, isRead, filters, generation, list, showsRead, overrides,
                   load, marks, strays, contended, reloads>>

\* An entry is removed, or one arrives, under an id that may have been used.
Replace(i) ==
    /\ Act
    /\ IF i \in inDay THEN inDay' = inDay \ {i} ELSE inDay' = inDay \cup {i}
    /\ isRead' = [isRead EXCEPT ![i] = FALSE]
    /\ aiScore' = [aiScore EXCEPT ![i] = NoScore]
    /\ touched' = touched \cup {i} /\ contended' = contended \cup {i}
    /\ UNCHANGED <<filters, generation, list, showsRead, overrides, load, marks,
                   strays, reloads>>

-----------------------------------------------------------------------------
PageNext ==
    \/ OpenDay \/ LoadMore
    \/ \E g \in 0..MaxReloads : AnswerLoad(g) \/ Receive(g) \/ LoadFails(g)
    \/ \E f \in Filters : ChangeFilters(f)
    \/ \E i \in Items : StartChange(i) \/ SaveChange(i) \/ EndChange(i)
    \/ StartFinish \/ SaveFinish \/ EndFinish
    \/ StartBulk \/ SaveBulk \/ EndBulk
    \/ \E r \in late : LateSave(r)
    \/ \E i \in Items : Replace(i) \/ \E s \in Scores : Evaluate(i, s)

PageSpec == PageInit /\ [][PageNext]_pageVars

-----------------------------------------------------------------------------
(* Properties *)

\* A list that says it has no more pages has shown every entry that matches
\* and did not change since it was opened: "Equal-score pagination is stable
\* and cursors are scope/filter-bound", whatever was evaluated, deleted or
\* marked between two pages, and however pages failed and were asked again.
AllShown ==
    dayState \in {"ready", "failed"} /\ loaded # {} /\ ~hasMore =>
        \A i \in Items \ touched : Matches(i, filters) => i \in loaded

\* "A request started before a mutation may finish after it": once the
\* requests that concern an entry have ended, the page shows the read state
\* the server has, if no two of them changed it at the same time.  It is wrong
\* only about an entry that the server changed for a request the page had
\* given up (review.js 572-573, 601, 621), and only until a later change of
\* the entry is confirmed or the list is asked for again.
ReadAgrees ==
    \A i \in (loaded \cap inDay) \ (contended \cup strayed) :
       change[i] = NoChange /\ finish = "none"
         /\ (bulk = NoBulk \/ i \notin bulk.items) => showsRead[i] = isRead[i]

\* "Retain only the fields changed since that request": while a change is
\* under way the entry shows what the reader asked for, also when a page that
\* the server answered before it arrives.
ChangeIsShown ==
    \A i \in loaded \ contended : change[i] # NoChange =>
        showsRead[i] = change[i].to
=============================================================================
